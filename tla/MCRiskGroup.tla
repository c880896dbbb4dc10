---------------------------- MODULE MCRiskGroup ----------------------------
EXTENDS RiskGroup

CONSTANTS p1, p2, s1
=============================================================================
