-------------------------- MODULE RegistryContract --------------------------
(***************************************************************************)
(* What the strategy registry promises: one document that every command    *)
(* changes in one step, one entry at a time, along the lifecycle of a      *)
(* strategy, with MagicNumbers that are never given out twice and netting  *)
(* slots that are held by one strategy at a time.                          *)
(***************************************************************************)
EXTENDS Integers

CONSTANTS Ids,       \* strategy ids that may be registered
          Mql5,      \* those that run as MQL5 expert advisors
          Magics,    \* MagicNumbers, and 0 for none
          Slot       \* the netting slot an MQL5 strategy would occupy, or "hedging"

VARIABLE entries     \* [Ids -> entry]

States == {"unregistered", "draft", "testnet", "live", "deprecated", "retired"}
Entry == [state : States, enabled : BOOLEAN, magic : Magics]

Unregistered == [state |-> "unregistered", enabled |-> FALSE, magic |-> 0]

\* Mutant of ALLOWED_TRANSITIONS: a strategy can be taken back to draft.
ReturnToDraft ==
  [s \in States |->
     CASE s = "draft" -> {"testnet", "deprecated"}
       [] s \in {"testnet", "live"} -> {"draft", "live", "deprecated"}
       [] s = "deprecated" -> {"retired"}
       [] OTHER -> {}]

ALLOWED_TRANSITIONS ==
  [s \in States |->
     CASE s = "draft" -> {"testnet", "deprecated"}
       [] s = "testnet" -> {"live", "deprecated"}
       [] s = "live" -> {"deprecated"}
       [] s = "deprecated" -> {"retired"}
       [] OTHER -> {}]

Known(i) == entries[i].state # "unregistered"
Conflicts(i, j) == Slot[i] # "hedging" /\ Slot[i] = Slot[j] /\ entries[j].state # "retired"

Init == entries = [i \in Ids |-> Unregistered]

Register(i, magic) ==
  /\ ~Known(i)
  /\ IF i \in Mql5
       THEN /\ magic # 0
            /\ \A j \in Mql5 : Known(j) => entries[j].magic # magic /\ ~Conflicts(i, j)
       ELSE magic = 0
  /\ entries' = [entries EXCEPT ![i] = [state |-> "draft", enabled |-> FALSE,
                                        magic |-> magic]]

Transition(i, target) ==
  /\ target \in ALLOWED_TRANSITIONS[entries[i].state]
  /\ entries' = [entries EXCEPT ![i] =
       [state |-> target, magic |-> entries[i].magic,
        enabled |-> entries[i].enabled /\ target # "deprecated"]]

\* deprecated and retired are terminal: they stay disabled.
SetEnabled(i, flag) ==
  /\ entries[i].state \in {"draft", "testnet", "live"}
  /\ entries' = [entries EXCEPT ![i].enabled = flag]

Next ==
  \E i \in Ids :
    \/ \E magic \in Magics : Register(i, magic)
    \/ \E target \in States : Transition(i, target)
    \/ \E flag \in BOOLEAN : SetEnabled(i, flag)

Spec == Init /\ [][Next]_entries
=============================================================================
