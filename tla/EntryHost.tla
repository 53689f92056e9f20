----------------------------- MODULE EntryHost -----------------------------
(***************************************************************************)
(* What the integration promises of the host of one entry, whoever moves   *)
(* it: a host is replaced only by one that was decided on while the entry  *)
(* had it, as by a compare-and-swap; every move leaves a reload owed, and  *)
(* only a setup that takes up the saved host settles that debt; after the  *)
(* entry is deleted nothing happens to it.  Nothing is said of setup       *)
(* locks, listeners, timers or who answers where: those are how            *)
(* __init__.py and config_flow.py keep the promise.                        *)
(***************************************************************************)
CONSTANTS
  Hosts,   \* addresses and names
  Flows    \* who may decide to move the entry at the same time

VARIABLES
  saved,   \* the host the entry is saved with
  inUse,   \* the host it was last set up with
  owed,    \* whether a reload is owed
  gone,    \* whether the entry was deleted
  asked    \* of each flow: the host it decided on, and where it moves the entry

vars == <<saved, inUse, owed, gone, asked>>

Undecided == <<>>

Init ==
  /\ saved \in Hosts /\ inUse = saved
  /\ owed = TRUE /\ gone = FALSE
  /\ asked = [f \in Flows |-> Undecided]

Decide(f) ==
  /\ ~gone /\ asked[f] = Undecided
  /\ \E h \in Hosts : asked' = [asked EXCEPT ![f] = <<saved, h>>]
  /\ UNCHANGED <<saved, inUse, owed, gone>>

Ends(f) == asked' = [asked EXCEPT ![f] = Undecided]

\* The entry still has the host the flow decided on.
Move(f) ==
  /\ ~gone
  /\ \E h \in Hosts : asked[f] = <<saved, h>> /\ saved' = h
  /\ owed' = TRUE /\ Ends(f)
  /\ UNCHANGED <<inUse, gone>>

\* A flow that does not move the entry may ask for a reload all the same.
GiveUp(f) == Ends(f) /\ owed' \in {owed, ~gone} /\ UNCHANGED <<saved, inUse, gone>>

AskReload == ~gone /\ owed' = TRUE /\ UNCHANGED <<saved, inUse, gone, asked>>

\* A setup takes up the saved host; one of several reloads may remain.
SetUp ==
  /\ ~gone /\ inUse' = saved /\ owed' \in {owed, FALSE}
  /\ UNCHANGED <<saved, gone, asked>>

Delete == gone' = TRUE /\ owed' = FALSE /\ UNCHANGED <<saved, inUse, asked>>

Next ==
  \/ AskReload \/ SetUp \/ Delete
  \/ \E f \in Flows : Decide(f) \/ Move(f) \/ GiveUp(f)

Spec == Init /\ [][Next]_vars
=============================================================================
