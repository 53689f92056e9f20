---------------------------- MODULE PolledEntities ----------------------------
(***************************************************************************)
(* What the integration promises of the entities of one entry: they show   *)
(* what one complete poll read, each of its requests answered from what    *)
(* the registers held since that poll began; failed polls are counted, no  *)
(* failed poll changes a value, and past the tolerated number in a row the *)
(* entities are unavailable until a poll succeeds.  There are no entities  *)
(* before each poller has read once, and a new setup starts from nothing.  *)
(* How a poll fails, in which request, and who keeps the values meanwhile  *)
(* is the matter of coordinator.py and __init__.py.                        *)
(***************************************************************************)
EXTENDS Naturals

CONSTANTS
  Pollers,    \* each reads the registers of its own entities
  Readings,   \* what the registers can hold
  None,       \* no values yet
  Tolerated   \* failed polls in a row that leave the entities available

VARIABLES
  loaded,       \* whether the entry has entities
  values,       \* what those of each poller show, or will show once it is loaded
  misses,       \* polls of each that failed in a row
  unavailable,  \* the pollers whose entities are unavailable
  window        \* what the registers held since the poll under way began

vars == <<loaded, values, misses, unavailable, window>>

NoValues == [p \in Pollers |-> None]
NoMisses == [p \in Pollers |-> 0]
NoPolls == [p \in Pollers |-> {}]

Init ==
  /\ loaded = FALSE /\ unavailable = {}
  /\ values = NoValues /\ misses = NoMisses /\ window = NoPolls

UnderWay(p) == window[p] # {}
Ends(p) == window' = [window EXCEPT ![p] = {}]

Begin(p) ==
  /\ ~UnderWay(p)
  /\ \E r \in Readings : window' = [window EXCEPT ![p] = {r}]
  /\ UNCHANGED <<loaded, values, misses, unavailable>>

\* The registers change under every poll that is under way.
Change ==
  /\ \E r \in Readings :
       window' = [p \in Pollers |-> IF UnderWay(p) THEN window[p] \cup {r} ELSE {}]
  /\ UNCHANGED <<loaded, values, misses, unavailable>>

Succeed(p) ==
  /\ UnderWay(p) /\ Ends(p)
  /\ \E v \in window[p] \X window[p] : values' = [values EXCEPT ![p] = v]
  /\ misses' = [misses EXCEPT ![p] = 0]
  /\ unavailable' = unavailable \ {p}
  /\ UNCHANGED loaded

\* Only entities are kept waiting: before there are any a miss starts over.
Miss(p) ==
  /\ loaded /\ UnderWay(p) /\ Ends(p)
  /\ misses' = [misses EXCEPT ![p] = @ + 1]
  /\ unavailable' = IF misses[p] + 1 > Tolerated THEN unavailable \cup {p} ELSE unavailable \ {p}
  /\ UNCHANGED <<loaded, values>>

Load ==
  /\ ~loaded /\ \A p \in Pollers : values[p] # None
  /\ loaded' = TRUE
  /\ UNCHANGED <<values, misses, unavailable, window>>

StartOver ==
  /\ loaded' = FALSE /\ unavailable' = {}
  /\ values' = NoValues /\ misses' = NoMisses /\ window' = NoPolls

Next ==
  \/ Change \/ Load \/ StartOver
  \/ \E p \in Pollers : Begin(p) \/ Succeed(p) \/ Miss(p)

Spec == Init /\ [][Next]_vars
=============================================================================
