---------------------------- MODULE PollerProofs ----------------------------
(* What holds of the pollers for any number of them, any values of the     *)
(* registers, any other devices and any number of tolerated polls.         *)
EXTENDS Poller, TLAPS

\* A poll under way got its first answer, and may get its second one, from what
\* the registers held since it began; nothing is kept of one that ended.
Requests ==
  \A p \in Pollers :
    /\ Polling(p) => meter \in held[p]
    /\ ~Polling(p) => held[p] = {}
    /\ step[p] = "second" => got[p] \in held[p]
    /\ step[p] # "second" => got[p] = None

\* Until the entry is loaded a poller has values once it rests, and nothing
\* failed yet; before the identity is read none of them has begun.
SettingUp ==
  /\ failing = {}
  /\ \A p \in Pollers :
       /\ failedPolls[p] = 0
       /\ step[p] = "resting" => data[p] # None
       /\ step[p] # "resting" => data[p] = None
       /\ phase # "setup" => step[p] = "new"

\* Of a loaded entry every poller has values, which its entities show.
Running ==
  /\ shown = data
  /\ \A p \in Pollers :
       /\ data[p] # None
       /\ step[p] # "new"
       /\ p \in failing <=> failedPolls[p] > Tolerated

\* Unless the device was swapped, everything read since its identity is its own.
OwnReadings ==
  phase \in {"setup", "loaded"} /\ ~swapped =>
    /\ meter \notin Foreign
    /\ \A p \in Pollers :
         /\ got[p] \notin Foreign
         /\ data[p] # None => data[p][1] \notin Foreign /\ data[p][2] \notin Foreign

\* The inductive invariant.
IInv ==
  /\ TypeOK
  /\ missed = failedPolls
  /\ Requests
  /\ OwnReadings
  /\ phase # "loaded" => SettingUp
  /\ phase = "loaded" => Running

\* The history of failed polls and the counter start together, with no values.
LEMMA InitIInv == Init => IInv
<1> SUFFICES ASSUME Init PROVE IInv
  OBVIOUS
<1>1. TypeOK
  BY PollerAssumption DEF Init, TypeOK, Values
<1>2. missed = failedPolls
  BY DEF Init
<1>3. phase = "identity" /\ SettingUp
  BY DEF Init, SettingUp
<1>4. Requests
  BY DEF Init, Requests, Polling
<1> QED
  BY <1>1, <1>2, <1>3, <1>4 DEF IInv, OwnReadings

\* A poll that ends leaves the types of its request alone.
LEMMA PollEndsType ==
  ASSUME TypeOK, NEW p \in Pollers, PollEnds(p)
  PROVE  /\ step' \in [Pollers -> {"new", "resting", "first", "second"}]
         /\ got' \in [Pollers -> Readings \cup {None}]
         /\ held' \in [Pollers -> SUBSET Readings]
BY DEF TypeOK, PollEnds

\* The new contents of the registers are contents.
LEMMA HoldsType ==
  ASSUME TypeOK, NEW r \in Readings, Holds(r)
  PROVE  /\ meter' \in Readings /\ held' \in [Pollers -> SUBSET Readings]
         /\ events' \in Nat /\ UNCHANGED <<entry, step, got, line>>
BY PollerAssumption DEF TypeOK, Holds, Spend

\* A good poll read what the registers held since it began, in one request or two.
LEMMA ReadWithin ==
  ASSUME TypeOK, Requests, NEW p \in Pollers, GoodPoll(p)
  PROVE  /\ Read(p)[1] \in held[p] /\ Read(p)[2] \in held[p]
         /\ Read(p) \in held[p] \X held[p] /\ held[p] \subseteq Readings
<1>1. meter \in held[p] /\ held[p] \subseteq Readings
  BY DEF TypeOK, Requests, GoodPoll, LastRequest, Polling
<1>2. p \in TwoRequests => got[p] \in held[p]
  BY DEF Requests, GoodPoll, LastRequest
<1> QED
  BY <1>1, <1>2 DEF Read

\* Every step keeps the type of every variable.
LEMMA TypeStep == ASSUME TypeOK, Requests, [Next]_vars PROVE TypeOK'
<1> USE PollerAssumption
<1>1. CASE UNCHANGED vars
  BY <1>1 DEF TypeOK, vars, entry, pollers, requests
<1>2. ASSUME NEW p \in Pollers, Starts(p) PROVE TypeOK'
  BY <1>2 DEF TypeOK, Starts, entry, pollers
<1>3. ASSUME NEW p \in Pollers, FirstAnswers(p) PROVE TypeOK'
  BY <1>3 DEF TypeOK, FirstAnswers, entry, pollers
<1>4. ASSUME NEW p \in Pollers, GoodPoll(p) PROVE TypeOK'
  <2>1. Read(p)[1] \in Readings /\ Read(p)[2] \in Readings
    BY <1>4, ReadWithin DEF TypeOK
  <2>2. Read(p) \in Values
    BY <2>1 DEF Values, Read
  <2>3. /\ data' \in [Pollers -> Values] /\ shown' \in [Pollers -> Values]
        /\ failedPolls' \in [Pollers -> Nat] /\ missed' \in [Pollers -> Nat]
        /\ failing' \subseteq Pollers
    BY <1>4, <2>2 DEF TypeOK, GoodPoll, CountReset, Told
  <2> QED
    BY <1>4, <2>3, PollEndsType DEF TypeOK, GoodPoll
<1>5. ASSUME NEW p \in Pollers, ToleratedPoll(p) PROVE TypeOK'
  <2>1. /\ data' \in [Pollers -> Values] /\ shown' \in [Pollers -> Values]
        /\ failedPolls' \in [Pollers -> Nat] /\ missed' \in [Pollers -> Nat]
        /\ failing' \subseteq Pollers /\ events' \in Nat
    BY <1>5 DEF TypeOK, ToleratedPoll, PollFails, Spend, Told, Kept
  <2> QED
    BY <1>5, <2>1, PollEndsType DEF TypeOK, ToleratedPoll
<1>6. ASSUME NEW p \in Pollers, FailedPoll(p) PROVE TypeOK'
  <2>1. /\ failedPolls' \in [Pollers -> Nat] /\ missed' \in [Pollers -> Nat]
        /\ failing' \subseteq Pollers /\ events' \in Nat
    BY <1>6 DEF TypeOK, FailedPoll, PollFails, Spend
  <2> QED
    BY <1>6, <2>1, PollEndsType DEF TypeOK, FailedPoll
<1>7. ASSUME NEW p \in Pollers, FirstRefreshFails(p) PROVE TypeOK'
  BY <1>7 DEF TypeOK, FirstRefreshFails, PollFails, Spend, NewPollers, Values
<1>8. CASE IdentityRead
  BY <1>8 DEF TypeOK, IdentityRead, pollers, requests
<1>9. CASE Loads
  BY <1>9 DEF TypeOK, Loads, pollers, requests
<1>10. CASE Reloads
  BY <1>10 DEF TypeOK, Reloads, Spend, NewPollers, Values
<1>11. CASE LineChanges
  BY <1>11 DEF TypeOK, LineChanges, Spend, entry, pollers, requests
<1>12. CASE MeterMoves
  BY <1>12, HoldsType DEF TypeOK, MeterMoves, entry, pollers
<1>13. CASE MeterSwapped
  BY <1>13, HoldsType DEF TypeOK, MeterSwapped, entry, pollers
<1> QED
  BY <1>1, <1>2, <1>3, <1>4, <1>5, <1>6, <1>7, <1>8, <1>9, <1>10, <1>11, <1>12, <1>13
     DEF Next

\* New poller objects satisfy what is claimed of a setup.
LEMMA NewPollersSetUp ==
  ASSUME NewPollers
  PROVE  /\ phase' = "identity" /\ missed' = failedPolls'
         /\ SettingUp' /\ Requests' /\ OwnReadings'
BY DEF NewPollers, SettingUp, Requests, OwnReadings, Polling

\* A poll that ends has no answer of a first request left.
LEMMA PollEndsRequests ==
  ASSUME TypeOK, Requests, NEW p \in Pollers, PollEnds(p), meter' = meter
  PROVE  Requests'
BY DEF TypeOK, Requests, PollEnds, Polling

\* The values of a good poll are own readings if what it read is.
LEMMA GoodPollOwn ==
  ASSUME IInv, NEW p \in Pollers, GoodPoll(p) PROVE OwnReadings'
<1> SUFFICES ASSUME phase' \in {"setup", "loaded"}, ~swapped', NEW q \in Pollers
             PROVE  /\ meter' \notin Foreign /\ got'[q] \notin Foreign
                    /\ data'[q] # None =>
                         data'[q][1] \notin Foreign /\ data'[q][2] \notin Foreign
  BY DEF OwnReadings, GoodPoll
<1>1. /\ TypeOK /\ meter \notin Foreign /\ got[p] \notin Foreign /\ got[q] \notin Foreign
      /\ data[q] # None => data[q][1] \notin Foreign /\ data[q][2] \notin Foreign
  BY DEF IInv, OwnReadings, GoodPoll
<1>2. None \notin Foreign
  BY PollerAssumption DEF Foreign
<1>3. got'[q] \notin Foreign
  BY <1>1, <1>2 DEF GoodPoll, PollEnds, TypeOK
<1>4. Read(p)[1] \notin Foreign /\ Read(p)[2] \notin Foreign
  BY <1>1 DEF Read
<1>5. data'[q] # None => data'[q][1] \notin Foreign /\ data'[q][2] \notin Foreign
  BY <1>1, <1>4 DEF GoodPoll, TypeOK
<1> QED
  BY <1>1, <1>3, <1>5 DEF GoodPoll

\* A failed poll of either kind leaves every value as it is.
LEMMA FailedPollOwn ==
  ASSUME IInv, NEW p \in Pollers, ToleratedPoll(p) \/ FailedPoll(p)
  PROVE  OwnReadings' /\ data' = data /\ Requests'
<1>1. TypeOK /\ OwnReadings /\ Requests
  BY DEF IInv
<1>2. data' = data
  BY <1>1 DEF ToleratedPoll, FailedPoll, Kept, TypeOK
<1>3. PollEnds(p) /\ meter' = meter /\ phase' = phase /\ swapped' = swapped
  BY DEF ToleratedPoll, FailedPoll
<1>4. None \notin Foreign
  BY PollerAssumption DEF Foreign
<1>5. OwnReadings'
  BY <1>1, <1>2, <1>3, <1>4 DEF OwnReadings, PollEnds, TypeOK
<1> QED
  BY <1>1, <1>2, <1>3, <1>5, PollEndsRequests

\* A step of one poller keeps the claims about each of them.
LEMMA PollStep ==
  ASSUME IInv, NEW p \in Pollers,
         \/ Starts(p) \/ FirstAnswers(p) \/ GoodPoll(p)
         \/ ToleratedPoll(p) \/ FailedPoll(p)
  PROVE  /\ phase' = phase /\ missed' = failedPolls'
         /\ Requests' /\ OwnReadings'
         /\ phase # "loaded" => SettingUp'
         /\ phase = "loaded" => Running'
<1> USE PollerAssumption
<1>0. /\ TypeOK /\ missed = failedPolls /\ Requests /\ OwnReadings
      /\ phase # "loaded" => SettingUp
      /\ phase = "loaded" => Running
  BY DEF IInv
<1>1. CASE Starts(p)
  <2>1. phase # "loaded" => SettingUp'
    BY <1>0, <1>1 DEF Starts, TypeOK, SettingUp, entry, pollers
  <2>2. phase = "loaded" => Running'
    BY <1>0, <1>1 DEF Starts, TypeOK, Running, entry, pollers
  <2>3. Requests'
    BY <1>0, <1>1 DEF Starts, TypeOK, Requests, Polling
  <2> QED
    BY <1>0, <1>1, <2>1, <2>2, <2>3 DEF Starts, OwnReadings, entry, pollers
<1>2. CASE FirstAnswers(p)
  <2>1. phase # "loaded" => SettingUp'
    BY <1>0, <1>2 DEF FirstAnswers, TypeOK, SettingUp, entry, pollers
  <2>2. phase = "loaded" => Running'
    BY <1>0, <1>2 DEF FirstAnswers, TypeOK, Running, entry, pollers
  <2>3. Requests'
    BY <1>0, <1>2 DEF FirstAnswers, TypeOK, Requests, Polling
  <2>4. OwnReadings'
    BY <1>0, <1>2 DEF FirstAnswers, TypeOK, OwnReadings, entry, pollers
  <2> QED
    BY <1>0, <1>2, <2>1, <2>2, <2>3, <2>4 DEF FirstAnswers, entry, pollers
<1>3. CASE GoodPoll(p)
  <2>1. missed' = failedPolls'
    BY <1>0, <1>3 DEF GoodPoll, CountReset
  <2>2. Read(p) # None
    <3>1. Read(p) \in Readings \X Readings
      BY <1>0, <1>3, ReadWithin
    <3> QED
      BY <3>1
  <2>3. phase # "loaded" => SettingUp'
    BY <1>0, <1>3, <2>2 DEF GoodPoll, LastRequest, PollEnds, CountReset, TypeOK, SettingUp
  <2>4. ASSUME phase = "loaded" PROVE Running'
    BY <1>0, <1>3, <2>2, <2>4
       DEF GoodPoll, PollEnds, CountReset, Told, TypeOK, Running
  <2>5. Requests'
    BY <1>0, <1>3, PollEndsRequests DEF GoodPoll
  <2> QED
    BY <1>3, <2>1, <2>3, <2>4, <2>5, GoodPollOwn DEF GoodPoll
<1>4. CASE ToleratedPoll(p)
  <2>1. missed' = failedPolls'
    BY <1>0, <1>4 DEF ToleratedPoll
  <2>2. phase = "loaded"
    BY <1>0, <1>4 DEF ToleratedPoll, Tolerable, PollFails, Polling, SettingUp
  <2>3. Running'
    BY <1>0, <1>4, <2>2
      DEF ToleratedPoll, PollEnds, Tolerable, Kept, Told, TypeOK, Running
  <2> QED
    BY <1>4, <2>1, <2>2, <2>3, FailedPollOwn DEF ToleratedPoll
<1>5. CASE FailedPoll(p)
  <2>1. missed' = failedPolls'
    BY <1>0, <1>5 DEF FailedPoll
  <2>2. phase = "loaded" /\ phase' = phase
    BY <1>5 DEF FailedPoll
  <2>3. Running'
    BY <1>0, <1>5, <2>2 DEF FailedPoll, PollEnds, Tolerable, TypeOK, Running
  <2> QED
    BY <1>5, <2>1, <2>2, <2>3, FailedPollOwn
<1> QED
  BY <1>1, <1>2, <1>3, <1>4, <1>5

\* New contents of the registers: polls under way may be answered with them, and
\* the values stay the meter's own unless the device is another one.
LEMMA HoldsStep ==
  ASSUME IInv, NEW r \in Readings, Holds(r),
         swapped' \/ (swapped' = swapped /\ (r \in Foreign <=> meter \in Foreign))
  PROVE  /\ missed' = failedPolls' /\ Requests' /\ OwnReadings'
         /\ phase' # "loaded" => SettingUp'
         /\ phase' = "loaded" => Running'
<1>1. TypeOK /\ missed = failedPolls /\ Requests /\ OwnReadings
      /\ UNCHANGED <<entry, step, got>> /\ meter' = r
  BY DEF IInv, Holds
<1>2. Requests'
  BY <1>1 DEF Requests, Holds, Polling, TypeOK
<1>3. OwnReadings'
  BY <1>1 DEF OwnReadings, entry, pollers
<1>4. (phase' # "loaded" => SettingUp') /\ (phase' = "loaded" => Running')
  BY <1>1 DEF IInv, SettingUp, Running, entry, pollers
<1> QED
  BY <1>1, <1>2, <1>3, <1>4 DEF entry, pollers

\* Every step keeps the invariant.
LEMMA StepIInv == ASSUME IInv, [Next]_vars PROVE IInv'
<1> USE PollerAssumption
<1>1. TypeOK'
  BY TypeStep DEF IInv
<1>2. CASE UNCHANGED vars
  BY <1>1, <1>2
     DEF vars, entry, pollers, requests, IInv, SettingUp, Running, Requests, OwnReadings, Polling
<1>3. ASSUME NEW p \in Pollers,
             \/ Starts(p) \/ FirstAnswers(p) \/ GoodPoll(p)
             \/ ToleratedPoll(p) \/ FailedPoll(p)
      PROVE  IInv'
  BY <1>1, <1>3, PollStep DEF IInv
<1>4. ASSUME NEW p \in Pollers, FirstRefreshFails(p) PROVE IInv'
  BY <1>1, <1>4, NewPollersSetUp DEF FirstRefreshFails, IInv
<1>5. CASE IdentityRead
  <2>1. /\ phase = "identity" /\ phase' \in {"setup", "refused"}
        /\ UNCHANGED <<pollers, shown, requests, meter>>
        /\ SettingUp /\ Requests /\ missed = failedPolls
    BY <1>5 DEF IdentityRead, IInv
  <2>2. SettingUp' /\ Requests' /\ missed' = failedPolls'
    BY <2>1 DEF SettingUp, Requests, Polling, pollers, requests
  <2>3. \A p \in Pollers : data'[p] = None /\ got'[p] \notin Foreign
    BY <2>1 DEF SettingUp, Requests, Foreign, pollers, requests
  <2>4. phase' = "setup" => meter' \notin Foreign
    BY <1>5 DEF IdentityRead, Supported, SameSerial, Foreign
  <2> QED
    BY <1>1, <2>1, <2>2, <2>3, <2>4 DEF IInv, OwnReadings
<1>6. CASE Loads
  <2>1. SettingUp /\ Requests /\ OwnReadings /\ missed = failedPolls
    BY <1>6 DEF Loads, IInv
  <2>2. Running'
    BY <1>6, <2>1 DEF Loads, SettingUp, Running, pollers, requests
  <2>3. OwnReadings'
    BY <1>6, <2>1 DEF Loads, OwnReadings, pollers, requests
  <2>4. Requests' /\ missed' = failedPolls'
    BY <1>6, <2>1 DEF Loads, Requests, Polling, pollers, requests
  <2> QED
    BY <1>1, <1>6, <2>2, <2>3, <2>4 DEF Loads, IInv
<1>7. CASE Reloads
  BY <1>1, <1>7, NewPollersSetUp DEF Reloads, IInv
<1>8. CASE LineChanges
  BY <1>1, <1>8
     DEF LineChanges, entry, pollers, requests, IInv, SettingUp, Running, Requests, OwnReadings, Polling
<1>9. CASE MeterMoves
  <2>1. PICK r \in Readings :
          /\ \A s \in {Others, Unfit} : r \in s <=> meter \in s
          /\ Holds(r) /\ UNCHANGED swapped
    BY <1>9 DEF MeterMoves
  <2>2. r \in Foreign <=> meter \in Foreign
    BY <2>1 DEF Foreign
  <2> QED
    BY <1>1, <2>1, <2>2, HoldsStep DEF IInv
<1>10. CASE MeterSwapped
  BY <1>1, <1>10, HoldsStep DEF MeterSwapped, IInv
<1> QED
  BY <1>2, <1>3, <1>4, <1>5, <1>6, <1>7, <1>8, <1>9, <1>10 DEF Next

\* The inductive invariant holds in every state of the pollers.
THEOREM SpecIInv == Spec => []IInv
BY InitIInv, StepIInv, PTL DEF Spec

\* Every variable of the pollers keeps its type.
THEOREM TypeCorrect == Spec => []TypeOK
<1>1. IInv => TypeOK
  BY DEF IInv
<1> QED
  BY <1>1, SpecIInv, PTL

\* Entities are unavailable exactly from the first failed poll past the
\* tolerated ones to the next good one, whatever number is tolerated.
THEOREM Tolerance == Spec => []UnavailableFromFourth
<1>1. IInv => UnavailableFromFourth
  BY DEF IInv, Running, UnavailableFromFourth
<1> QED
  BY <1>1, SpecIInv, PTL

\* An available entity has a value, from the moment the entry is loaded.
THEOREM ValuesKept == Spec => []AvailableHasValue
<1>1. IInv => AvailableHasValue
  BY DEF IInv, Running, AvailableHasValue
<1> QED
  BY <1>1, SpecIInv, PTL

\* What another device holds is shown only when that device took the address
\* after the serials were compared, whatever the other devices hold.
THEOREM OwnMeterShown == Spec => []ForeignOnlyIfSwapped
<1>1. IInv => ForeignOnlyIfSwapped
  BY DEF IInv, Running, OwnReadings, ForeignOnlyIfSwapped
<1> QED
  BY <1>1, SpecIInv, PTL

\* No failed poll changes what an entity shows, and a good one changes it to
\* what the registers held within that poll.
THEOREM OnlyGoodPolls == Spec => OnlyGoodPollsChangeValues
<1> DEFINE A ==
      \A p \in Pollers :
        phase = "loaded" /\ phase' = "loaded" /\ shown'[p] # shown[p] =>
          /\ missed'[p] = 0 /\ p \notin failing'
          /\ \A i \in {1, 2} : shown'[p][i] \in held[p]
<1>1. IInv /\ [Next]_vars => [A]_vars
  <2> SUFFICES ASSUME IInv, Next, phase = "loaded", phase' = "loaded",
                      NEW q \in Pollers, shown'[q] # shown[q]
               PROVE  /\ missed'[q] = 0 /\ q \notin failing'
                      /\ \A i \in {1, 2} : shown'[q][i] \in held[q]
    OBVIOUS
  <2>0. TypeOK /\ shown = data /\ Requests
    BY DEF IInv, Running
  <2>1. ASSUME NEW p \in Pollers, Starts(p) \/ FirstAnswers(p) PROVE FALSE
    BY <2>1 DEF Starts, FirstAnswers, entry
  <2>2. ASSUME NEW p \in Pollers, GoodPoll(p)
        PROVE  /\ missed'[q] = 0 /\ q \notin failing'
               /\ \A i \in {1, 2} : shown'[q][i] \in held[q]
    <3>1. q = p /\ shown'[q] = Read(p)
      BY <2>0, <2>2 DEF GoodPoll, Told, TypeOK
    <3>2. Read(p)[1] \in held[p] /\ Read(p)[2] \in held[p]
      BY <2>0, <2>2, ReadWithin
    <3> QED
      BY <2>0, <2>2, <3>1, <3>2 DEF GoodPoll, TypeOK
  <2>3. ASSUME NEW p \in Pollers, ToleratedPoll(p) PROVE FALSE
    BY <2>0, <2>3 DEF ToleratedPoll, Told, Kept, TypeOK
  <2>4. ASSUME NEW p \in Pollers, FailedPoll(p) PROVE FALSE
    BY <2>4 DEF FailedPoll
  <2>5. ASSUME NEW p \in Pollers, FirstRefreshFails(p) PROVE FALSE
    BY <2>5 DEF FirstRefreshFails
  <2>6. CASE IdentityRead \/ Loads
    BY <2>6 DEF IdentityRead, Loads
  <2>7. CASE Reloads
    BY <2>7 DEF Reloads, NewPollers
  <2>8. CASE LineChanges \/ MeterMoves \/ MeterSwapped
    BY <2>8 DEF LineChanges, MeterMoves, MeterSwapped, Holds, entry
  <2> QED
    BY <2>1, <2>2, <2>3, <2>4, <2>5, <2>6, <2>7, <2>8 DEF Next
<1>2. Spec => [][A]_vars
  BY <1>1, SpecIInv, PTL DEF Spec
<1> QED
  BY <1>2 DEF OnlyGoodPollsChangeValues

-----------------------------------------------------------------------------
(* The pollers implement PolledEntities: each action is one of its steps,  *)
(* or nothing it speaks of changed.                                        *)

LEMMA StartMaps ==
  ASSUME IInv, NEW p \in Pollers, Starts(p) PROVE PolledEntities!Begin(p)
<1>1. TypeOK /\ Requests
  BY DEF IInv
<1>2. held[p] = {} /\ meter \in Readings
  BY <1>1 DEF TypeOK, Requests, Starts, Polling, IInv, SettingUp
<1>3. held' = [held EXCEPT ![p] = {meter}] /\ UNCHANGED entry
  BY DEF Starts
<1> QED
  BY <1>2, <1>3
     DEF PolledEntities!Begin, PolledEntities!UnderWay, EntityValues, entry, pollers

\* Before the entry is loaded the values go to the coordinator, then to the entities.
LEMMA GoodPollMaps ==
  ASSUME IInv, NEW p \in Pollers, GoodPoll(p) PROVE PolledEntities!Succeed(p)
<1>1. TypeOK /\ Requests
  BY DEF IInv
<1>2. held[p] # {}
  BY <1>1, ReadWithin
<1>3. EntityValues' = [EntityValues EXCEPT ![p] = Read(p)]
  BY DEF GoodPoll, Told, EntityValues
<1>4. Read(p) \in held[p] \X held[p]
  BY <1>1, ReadWithin
<1>5. \E v \in held[p] \X held[p] : EntityValues' = [EntityValues EXCEPT ![p] = v]
  BY <1>3, <1>4
<1>6. /\ held' = [held EXCEPT ![p] = {}]
      /\ failedPolls' = [failedPolls EXCEPT ![p] = 0]
      /\ failing' = failing \ {p} /\ phase' = phase
  BY DEF GoodPoll, PollEnds, CountReset
<1> QED
  BY <1>2, <1>5, <1>6
     DEF PolledEntities!Succeed, PolledEntities!UnderWay, PolledEntities!Ends

\* A failed poll of a loaded entry is tolerated exactly by its count, as there are
\* values to keep; a setup tolerates none, as a poller is asked once.
LEMMA FailedPollMaps ==
  ASSUME IInv, NEW p \in Pollers, ToleratedPoll(p) \/ FailedPoll(p)
  PROVE  PolledEntities!Miss(p)
<1>1. TypeOK /\ Requests
  BY DEF IInv
<1>2. Polling(p) /\ phase' = phase /\ held' = [held EXCEPT ![p] = {}]
      /\ failedPolls' = [failedPolls EXCEPT ![p] = @ + 1]
  BY DEF ToleratedPoll, FailedPoll, PollFails, PollEnds
<1>3. phase = "loaded"
  BY <1>2 DEF ToleratedPoll, FailedPoll, Tolerable, Polling, IInv, SettingUp
<1>4. Running
  BY <1>3 DEF IInv
<1>5. meter \in held[p]
  BY <1>1, <1>2 DEF Requests
<1>6. shown' = shown
  BY <1>1, <1>4 DEF ToleratedPoll, FailedPoll, Told, Kept, Running, TypeOK
<1>7. failedPolls[p] \in Nat /\ Tolerated \in Nat
  BY <1>1, PollerAssumption DEF TypeOK
<1>8. failing' = IF failedPolls[p] + 1 > Tolerated THEN failing \cup {p} ELSE failing \ {p}
  BY <1>4, <1>7 DEF ToleratedPoll, FailedPoll, Tolerable, Running
<1> QED
  BY <1>2, <1>3, <1>5, <1>6, <1>8
     DEF PolledEntities!Miss, PolledEntities!UnderWay, PolledEntities!Ends, EntityValues

LEMMA NewPollersMap == ASSUME NewPollers PROVE PolledEntities!StartOver
BY DEF NewPollers, EntityValues, PolledEntities!StartOver, PolledEntities!NoValues,
       PolledEntities!NoMisses, PolledEntities!NoPolls

\* The entities take over the values the coordinators had.
LEMMA LoadsMaps == ASSUME IInv, Loads PROVE PolledEntities!Load
<1>1. SettingUp
  BY DEF IInv, Loads
<1>2. \A p \in Pollers : data[p] # None
  BY <1>1 DEF SettingUp, Loads
<1>3. /\ phase = "setup" /\ phase' = "loaded" /\ shown' = data
      /\ UNCHANGED <<data, failedPolls, failing, held>>
  BY DEF Loads, pollers, requests
<1> QED
  BY <1>2, <1>3 DEF PolledEntities!Load, EntityValues

LEMMA HoldsMaps ==
  ASSUME IInv, NEW r \in Readings, Holds(r) PROVE PolledEntities!Change
<1>1. \A p \in Pollers : Polling(p) <=> PolledEntities!UnderWay(p)
  BY DEF IInv, Requests, PolledEntities!UnderWay
<1>2. \A p \in Pollers : ~Polling(p) => held[p] = {}
  BY DEF IInv, Requests
<1>3. /\ held' = [p \in Pollers |-> IF Polling(p) THEN held[p] \cup {r} ELSE held[p]]
      /\ UNCHANGED entry
  BY DEF Holds
<1>4. held' = [p \in Pollers |->
                 IF PolledEntities!UnderWay(p) THEN held[p] \cup {r} ELSE {}]
  BY <1>1, <1>2, <1>3
<1> QED
  BY <1>3, <1>4 DEF PolledEntities!Change, EntityValues, entry, pollers

\* Every step of the pollers is one that was promised, or none of the entities' business.
THEOREM Refinement == Spec => WholePollsShown
<1>1. Init => PolledEntities!Init
  BY DEF Init, EntityValues, PolledEntities!Init, PolledEntities!NoValues,
         PolledEntities!NoMisses, PolledEntities!NoPolls
<1>2. ASSUME IInv, [Next]_vars PROVE [PolledEntities!Next]_(PolledEntities!vars)
  <2>1. CASE UNCHANGED vars
    BY <2>1 DEF vars, entry, pollers, requests, EntityValues, PolledEntities!vars
  <2>2. ASSUME NEW p \in Pollers,
               Starts(p) \/ GoodPoll(p) \/ ToleratedPoll(p) \/ FailedPoll(p)
        PROVE  PolledEntities!Next
    BY <1>2, <2>2, StartMaps, GoodPollMaps, FailedPollMaps DEF PolledEntities!Next
  <2>3. ASSUME NEW p \in Pollers, FirstAnswers(p) PROVE UNCHANGED PolledEntities!vars
    BY <2>3 DEF FirstAnswers, entry, pollers, EntityValues, PolledEntities!vars
  <2>4. ASSUME NEW p \in Pollers, FirstRefreshFails(p) PROVE PolledEntities!Next
    BY <2>4, NewPollersMap DEF FirstRefreshFails, PolledEntities!Next
  <2>5. CASE IdentityRead
    BY <2>5 DEF IdentityRead, pollers, requests, EntityValues, PolledEntities!vars
  <2>6. CASE Loads \/ Reloads
    BY <1>2, <2>6, LoadsMaps, NewPollersMap DEF Reloads, PolledEntities!Next
  <2>7. CASE LineChanges
    BY <2>7 DEF LineChanges, entry, pollers, requests, EntityValues, PolledEntities!vars
  <2>8. CASE MeterMoves \/ MeterSwapped
    BY <1>2, <2>8, HoldsMaps DEF MeterMoves, MeterSwapped, PolledEntities!Next
  <2> QED
    BY <1>2, <2>1, <2>2, <2>3, <2>4, <2>5, <2>6, <2>7, <2>8 DEF Next
<1> QED
  BY <1>1, <1>2, SpecIInv, PTL DEF Spec, WholePollsShown, PolledEntities!Spec
=============================================================================
