------------------------------- MODULE Poller -------------------------------
(***************************************************************************)
(* The pollers of a loaded entry (WagoCoordinator in coordinator.py): each *)
(* reads its registers, in one request or in two, on its own interval,     *)
(* keeps the last values through a few failed polls, and feeds the         *)
(* entities of its block.                                                  *)
(* Before them the setup reads the identity of whatever answers at the     *)
(* address, once, and refuses a device that is not the meter of the entry. *)
(*                                                                         *)
(* External: Home Assistant's DataUpdateCoordinator, which runs one poll   *)
(* of a coordinator at a time, schedules the next one when a poll ended,   *)
(* and turns a poll that raises into last_update_success = False, and      *)
(* CoordinatorEntity, available while that is True.                        *)
(***************************************************************************)
EXTENDS Naturals

CONSTANTS
  Pollers,     \* the coordinators of one entry
  TwoRequests, \* those of them whose poll is two requests, not one
  Readings,    \* what the registers of the device at the address can hold
  Others,      \* those of them another meter's registers hold
  Unfit,       \* those of a device, or of a data type, that is not supported
  None,        \* no values yet
  Tolerated,   \* FAILED_POLLS_TOLERATED
  MaxFailed,   \* bound: failed polls in a row
  MaxEvents    \* bound: changes of line and meter, single faults, reloads

ASSUME PollerAssumption ==
  /\ TwoRequests \subseteq Pollers
  /\ Others \subseteq Readings /\ Unfit \subseteq Readings
  /\ None \notin Readings /\ None \notin Readings \X Readings
  /\ Tolerated \in Nat /\ MaxFailed \in Nat /\ MaxEvents \in Nat

VARIABLES
  phase,        \* "identity", "setup" with the first refreshes, "loaded", or "refused"
  step,         \* of each poller: "new", "resting", or its request: "first", "second"
  got,          \* what the first request of its poll was answered
  data,         \* its values: of the first and of the last register it reads
  failedPolls,  \* _failed_polls
  failing,      \* the pollers whose last_update_success is False
  shown,        \* the value the entities of each poller hold
  line,         \* whether the device can be reached: "up" or "down"
  meter,        \* what its registers hold
  missed,       \* history: failed polls of each poller since its last good one
  held,         \* history: what the registers held since its poll began
  swapped,      \* history: another device took the address since the identity was read
  events

pollers == <<data, failedPolls, failing, missed>>
requests == <<step, got, held>>
entry == <<phase, pollers, shown>>
vars == <<entry, requests, line, meter, swapped, events>>

Foreign == Others \cup Unfit
Values == (Readings \X Readings) \cup {None}
Polling(p) == step[p] \in {"first", "second"}

TypeOK ==
  /\ phase \in {"identity", "setup", "loaded", "refused"}
  /\ step \in [Pollers -> {"new", "resting", "first", "second"}]
  /\ got \in [Pollers -> Readings \cup {None}]
  /\ data \in [Pollers -> Values]
  /\ failedPolls \in [Pollers -> Nat]
  /\ failing \subseteq Pollers
  /\ shown \in [Pollers -> Values]
  /\ line \in {"up", "down"}
  /\ meter \in Readings
  /\ missed \in [Pollers -> Nat]
  /\ held \in [Pollers -> SUBSET Readings]
  /\ swapped \in BOOLEAN
  /\ events \in Nat

Init ==
  /\ phase = "identity"
  /\ step = [p \in Pollers |-> "new"]
  /\ got = [p \in Pollers |-> None]
  /\ data = [p \in Pollers |-> None]
  /\ failedPolls = [p \in Pollers |-> 0]
  /\ failing = {}
  /\ shown = [p \in Pollers |-> None]
  /\ line \in {"up", "down"}
  /\ meter \in Readings
  /\ missed = [p \in Pollers |-> 0]
  /\ held = [p \in Pollers |-> {}]
  /\ swapped = FALSE
  /\ events = MaxEvents

Spend == events > 0 /\ events' = events - 1

\* What a plausible mistake would make of the definitions below it.
OneTooMany(p) == data[p] # None /\ failedPolls[p] <= Tolerated
CountsDown(p) == [failedPolls EXCEPT ![p] = @ - 1]
ForgetsValues(p) == None
HalfAPoll(p) == IF step[p] = "second" THEN <<got[p], data[p][2]>> ELSE data[p]
AnySerial == TRUE
OnlyAfterAFailure(p, values) ==
  IF phase = "loaded" /\ p \in failing THEN [shown EXCEPT ![p] = values] ELSE shown

-----------------------------------------------------------------------------
(* The identity, read once per setup. A device that does not answer makes  *)
(* the setup start over, from the same state.                              *)

Supported == meter \notin Unfit
SameSerial == meter \notin Others

\* No retry follows a refusal: only a reload of the entry reads it again.
IdentityRead ==
  /\ phase = "identity" /\ line = "up"
  /\ phase' = IF Supported /\ SameSerial THEN "setup" ELSE "refused"
  /\ swapped' = FALSE
  /\ UNCHANGED <<pollers, shown, requests, line, meter, events>>

-----------------------------------------------------------------------------
(* One poll.                                                               *)

\* The timer runs again after every poll, and a user may ask for a refresh.
Starts(p) ==
  /\ \/ phase = "loaded" /\ step[p] = "resting"
     \/ phase = "setup" /\ step[p] = "new" /\ \A q \in Pollers : ~Polling(q)
  /\ step' = [step EXCEPT ![p] = "first"]
  /\ held' = [held EXCEPT ![p] = {meter}]
  /\ UNCHANGED <<entry, got, line, meter, swapped, events>>

FirstAnswers(p) ==
  /\ p \in TwoRequests /\ step[p] = "first" /\ line = "up"
  /\ step' = [step EXCEPT ![p] = "second"]
  /\ got' = [got EXCEPT ![p] = meter]
  /\ UNCHANGED <<entry, held, line, meter, swapped, events>>

PollEnds(p) ==
  /\ step' = [step EXCEPT ![p] = "resting"]
  /\ got' = [got EXCEPT ![p] = None]
  /\ held' = [held EXCEPT ![p] = {}]

CountReset(p) == [failedPolls EXCEPT ![p] = 0]

\* The entities take the values of a poll as its coordinator tells them.
Told(p, values) == IF phase = "loaded" THEN [shown EXCEPT ![p] = values] ELSE shown

LastRequest(p) == step[p] = IF p \in TwoRequests THEN "second" ELSE "first"

\* What the poll read, with the answer of its last request.
Read(p) == <<IF p \in TwoRequests THEN got[p] ELSE meter, meter>>

GoodPoll(p) ==
  /\ LastRequest(p) /\ line = "up"
  /\ PollEnds(p)
  /\ data' = [data EXCEPT ![p] = Read(p)]
  /\ failedPolls' = CountReset(p)
  /\ failing' = failing \ {p}
  /\ shown' = Told(p, Read(p))
  /\ missed' = [missed EXCEPT ![p] = 0]
  /\ UNCHANGED <<phase, line, meter, swapped, events>>

\* ModbusError, or the 30 seconds are over, in any request, with the device
\* reachable or not.
PollFails(p) ==
  /\ Polling(p) /\ failedPolls[p] < MaxFailed
  /\ IF line = "down" THEN UNCHANGED events ELSE Spend

\* There are values to keep, and this failed poll is one of the tolerated ones.
Tolerable(p) == data[p] # None /\ failedPolls[p] + 1 <= Tolerated

Kept(p) == data[p]

\* The last values are returned, which Home Assistant takes for a success.
ToleratedPoll(p) ==
  /\ PollFails(p) /\ Tolerable(p)
  /\ PollEnds(p)
  /\ failedPolls' = [failedPolls EXCEPT ![p] = @ + 1]
  /\ data' = [data EXCEPT ![p] = Kept(p)]
  /\ failing' = failing \ {p}
  /\ shown' = Told(p, Kept(p))
  /\ missed' = [missed EXCEPT ![p] = @ + 1]
  /\ UNCHANGED <<phase, line, meter, swapped>>

\* UpdateFailed: the entities are unavailable.
FailedPoll(p) ==
  /\ phase = "loaded"
  /\ PollFails(p) /\ ~Tolerable(p)
  /\ PollEnds(p)
  /\ failedPolls' = [failedPolls EXCEPT ![p] = @ + 1]
  /\ failing' = failing \cup {p}
  /\ missed' = [missed EXCEPT ![p] = @ + 1]
  /\ UNCHANGED <<phase, data, shown, line, meter, swapped>>

-----------------------------------------------------------------------------
(* Setting up and reloading: the pollers are new objects each time.        *)

NewPollers ==
  /\ phase' = "identity"
  /\ step' = [p \in Pollers |-> "new"]
  /\ got' = [p \in Pollers |-> None]
  /\ data' = [p \in Pollers |-> None]
  /\ failedPolls' = [p \in Pollers |-> 0]
  /\ failing' = {}
  /\ shown' = [p \in Pollers |-> None]
  /\ missed' = [p \in Pollers |-> 0]
  /\ held' = [p \in Pollers |-> {}]

\* A first refresh that fails makes the whole setup start over.
FirstRefreshFails(p) ==
  /\ phase = "setup"
  /\ PollFails(p) /\ ~Tolerable(p)
  /\ NewPollers
  /\ UNCHANGED <<line, meter, swapped>>

\* All first refreshes are through: the entities start from the values there.
Loads ==
  /\ phase = "setup" /\ \A p \in Pollers : step[p] = "resting"
  /\ phase' = "loaded" /\ shown' = data
  /\ UNCHANGED <<pollers, requests, line, meter, swapped, events>>

\* An unload cancels a poll under way.
Reloads ==
  /\ phase \in {"loaded", "refused"} /\ Spend
  /\ NewPollers
  /\ UNCHANGED <<line, meter, swapped>>

LineChanges ==
  /\ Spend
  /\ line' \in {"up", "down"} \ {line}
  /\ UNCHANGED <<entry, requests, meter, swapped>>

\* Every poll under way may now be answered with the new contents.
Holds(r) ==
  /\ Spend
  /\ meter' = r
  /\ held' = [p \in Pollers |-> IF Polling(p) THEN held[p] \cup {r} ELSE held[p]]
  /\ UNCHANGED <<entry, step, got, line>>

MeterMoves ==
  \E r \in Readings :
    /\ \A s \in {Others, Unfit} : r \in s <=> meter \in s
    /\ r # meter /\ Holds(r) /\ UNCHANGED swapped

\* Another device takes the address, or the one there is set to another data type.
MeterSwapped ==
  \E r \in Readings :
    /\ \E s \in {Others, Unfit} : (r \in s) # (meter \in s)
    /\ Holds(r) /\ swapped' = TRUE

Next ==
  \/ \E p \in Pollers :
       \/ Starts(p) \/ FirstAnswers(p) \/ GoodPoll(p) \/ ToleratedPoll(p)
       \/ FailedPoll(p) \/ FirstRefreshFails(p)
  \/ IdentityRead \/ Loads \/ Reloads \/ LineChanges \/ MeterMoves \/ MeterSwapped

Spec == Init /\ [][Next]_vars

\* Timers fire, polls end, within 30 seconds at the latest, and a setup goes on.
FairSpec ==
  /\ Spec /\ WF_vars(IdentityRead) /\ WF_vars(Loads)
  /\ \A p \in Pollers :
       /\ WF_vars(Starts(p))
       /\ WF_vars(FirstAnswers(p) \/ GoodPoll(p) \/ ToleratedPoll(p)
                   \/ FailedPoll(p) \/ FirstRefreshFails(p))

-----------------------------------------------------------------------------
(* What a poller promises.                                                 *)

\* Entities are unavailable exactly from the first failed poll past the
\* tolerated ones in a row to the next good poll, however long the outage.
UnavailableFromFourth ==
  phase = "loaded" => \A p \in Pollers : p \in failing <=> missed[p] > Tolerated

\* An available entity always has a value: the entry is never loaded before each
\* poller read once, and no failed poll takes the values away.
AvailableHasValue ==
  phase = "loaded" => \A p \in Pollers : p \notin failing => shown[p] # None

\* Only a good poll changes what entities show, and then all of it to what the
\* registers held within that one poll: a poll whose second request fails leaves
\* nothing of its first one behind (async_update_measurements).
OnlyGoodPollsChangeValues ==
  [][\A p \in Pollers :
       phase = "loaded" /\ phase' = "loaded" /\ shown'[p] # shown[p] =>
         /\ missed'[p] = 0 /\ p \notin failing'
         /\ \A i \in {1, 2} : shown'[p][i] \in held[p]]_vars

\* The entities of a meter show what another device holds only when that device
\* took the address after this setup compared the serials (async_setup_entry).
ForeignOnlyIfSwapped ==
  phase = "loaded" /\ ~swapped =>
    \A p \in Pollers, i \in {1, 2} : shown[p][i] \notin Foreign

\* The coordinators hold the values until the entities take them over.
EntityValues == IF phase = "loaded" THEN shown ELSE data

PolledEntities == INSTANCE PolledEntities WITH
  loaded <- phase = "loaded", values <- EntityValues, misses <- failedPolls,
  unavailable <- failing, window <- held

\* The pollers keep the promise of PolledEntities: through failed requests, failed
\* setups and reloads an entity shows one whole poll, the last good one of the
\* present setup, and is unavailable as long as the counter says.
WholePollsShown == PolledEntities!Spec

\* With the device back for good, every entity ends up available with what it
\* holds, after any outage, failed setup or reload: unless the setup was refused
\* and nobody reloads, which never happens to the entry's own meter.
ComesBack ==
  /\ <>[](line = "up")
  /\ <>[](phase # "refused") \/ [](meter \notin Foreign)
  => <>[](phase = "loaded" /\ failing = {} /\ \A p \in Pollers : shown[p] = <<meter, meter>>)
=============================================================================
