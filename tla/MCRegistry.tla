----------------------------- MODULE MCRegistry -----------------------------
EXTENDS Registry, TLC

CONSTANTS acc, c1, c2, s1, s2, py

\* s1 and s2 trade one symbol on one netting account and hash to one
\* MagicNumber; py runs in python on the same account.
OneAccount == [i \in Ids |-> acc]
OneSlot == [i \in Ids |-> IF i \in Mql5 THEN "netted" ELSE "hedging"]
Colliding == [i \in Mql5 |-> IF i = s1 THEN <<1, 2>> ELSE <<1, 3>>]

\* A hedging account.
NoSlot == [i \in Ids |-> "hedging"]

ClisAlike == Permutations(Clis)
=============================================================================
