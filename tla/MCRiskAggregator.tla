-------------------------- MODULE MCRiskAggregator --------------------------
EXTENDS RiskAggregator, TLC

OneSnapshot == {[equity |-> 1, stressed |-> FALSE]}
TwoSnapshots == {[equity |-> 1, stressed |-> TRUE], [equity |-> 2, stressed |-> FALSE]}
LosersAlike == Permutations(Losing)
=============================================================================
