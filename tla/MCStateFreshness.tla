-------------------------- MODULE MCStateFreshness --------------------------
EXTENDS StateFreshness

SmallOffsets == {-1, 1}
NoInstant == -100
=============================================================================
