---------------------------- MODULE MCFillLedger ----------------------------
EXTENDS FillLedger
=============================================================================
