--------------------------- MODULE MCStrategyLog ---------------------------
EXTENDS StrategyLog

TwoInodes == {1, 2}
OneInode == {1}
NoOffsets == {}
LegacyOffset == {2}
=============================================================================
