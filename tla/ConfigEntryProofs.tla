------------------------- MODULE ConfigEntryProofs -------------------------
(***************************************************************************)
(* The safety properties of ConfigEntry hold for every set of addresses,   *)
(* host names, intervals and flows, and for every number of events.        *)
(*                                                                         *)
(* The inductive invariant adds one fact to the properties themselves: an  *)
(* address can be the title only until the first attempt starts, and then  *)
(* it is the address the entry is saved with.  Without it a move could     *)
(* leave an address in the title that no later setup recognises.           *)
(***************************************************************************)
EXTENDS ConfigEntry, TLAPS

TitleIsCurrentHost ==
  title \in Hosts => title = host /\ phase \in {"not_loaded", "removed"}

IInv == TypeOK /\ SettledHost /\ TitleIsCurrentHost /\ IssueIsOfLastAttempt

USE ConfigEntryAssumption

\* entry_title never keeps an address that is the host, and adds none.
LEMMA EntryTitleFact ==
  ASSUME NEW current \in Hosts \cup {"device", "custom"}, NEW h \in Hosts,
         current \in Hosts => current = h
  PROVE  EntryTitle(current, h) \in {"device", "custom"}
BY DEF EntryTitle, Hosts

\* async_move_entry asks for no reload only when the host stays what it was.
LEMMA MoveFact ==
  ASSUME TypeOK, TitleIsCurrentHost, NEW target \in Hosts, MoveEntry(target)
  PROVE  /\ host' = target /\ pending' \in Nat
         /\ title' \in {"device", "custom"}
         /\ pending' = 0 => pending = 0 /\ host' = host
         /\ target # host => pending' = pending + 1
<1>1. title' \in {"device", "custom"}
  BY EntryTitleFact DEF MoveEntry, MovedTitle, TypeOK, TitleIsCurrentHost
<1>2. QED
  BY <1>1, SMT DEF MoveEntry, ReloadsAsked, TypeOK

\* A new attempt has the saved host, no address in its title and no issue.
LEMMA SetupStartsFact ==
  ASSUME TypeOK, TitleIsCurrentHost, SetupStarts
  PROVE  /\ phase' = "identity" /\ runHost' = host /\ issue' = "none"
         /\ title' \in {"device", "custom"}
<1>1. title' \in {"device", "custom"}
  BY EntryTitleFact DEF SetupStarts, TypeOK, TitleIsCurrentHost
<1>2. QED
  BY <1>1 DEF SetupStarts, IssueAtStart

LEMMA InitIInv == Init => IInv
BY SMT DEF Init, IInv, TypeOK, SettledHost, TitleIsCurrentHost, IssueIsOfLastAttempt,
       Phases, Rests, Hosts

-----------------------------------------------------------------------------
\* The steps of a setup.
LEMMA SetupStepIInv == IInv /\ SetupStep => IInv'
<1> SUFFICES ASSUME IInv, SetupStep PROVE IInv'
  OBVIOUS
<1> USE DEF IInv, TypeOK, SettledHost, TitleIsCurrentHost, IssueIsOfLastAttempt,
            Phases, Attempts, Rests, setupVars, dataVars, networkVars
<1>1. CASE IdentityRead
  BY <1>1, SMT DEF IdentityRead
<1>2. CASE MeterSilent
  BY <1>2, SMT DEF MeterSilent, Spend, Free
<1>3. CASE MeterRefused
  BY <1>3, SMT DEF MeterRefused, Spend, Free
<1>4. CASE AdoptionRefused
  BY <1>4, SMT DEF AdoptionRefused, Spend
<1>5. CASE FirstRefresh
  BY <1>5, SMT DEF FirstRefresh
<1>6. CASE FirstRefreshFails
  BY <1>6, SMT DEF FirstRefreshFails, Spend, Free
<1>7. CASE ModuleRead
  BY <1>7, SMT DEF ModuleRead
<1>8. CASE PlatformsReady
  BY <1>8, SMT DEF PlatformsReady
<1>9. QED
  BY <1>1, <1>2, <1>3, <1>4, <1>5, <1>6, <1>7, <1>8 DEF SetupStep

\* Reloads, retries and removal.
LEMMA LockStepIInv == IInv /\ (LockStep \/ Remove) => IInv'
<1> SUFFICES ASSUME IInv, LockStep \/ Remove PROVE IInv'
  OBVIOUS
<1> USE DEF IInv, TypeOK, SettledHost, TitleIsCurrentHost, IssueIsOfLastAttempt,
            Phases, Attempts, Rests, setupVars, dataVars, networkVars
<1>1. CASE ReloadBegins
  <2>1. CASE phase = "loaded"
    BY <1>1, <2>1, SMT DEF ReloadBegins
  <2>2. CASE phase # "loaded"
    <3>1. SetupStarts
      BY <1>1, <2>2 DEF ReloadBegins
    <3>2. pending' \in Nat
      BY <1>1, SMT DEF ReloadBegins
    <3>3. QED
      BY <1>1, <3>1, <3>2, SetupStartsFact DEF ReloadBegins, Hosts
  <2>3. QED
    BY <2>1, <2>2
<1>2. CASE UnloadDone
  BY <1>2, SetupStartsFact DEF UnloadDone, Hosts
<1>3. CASE RetryTimer
  BY <1>3, SetupStartsFact DEF RetryTimer, Hosts
<1>4. CASE RemoveDone
  BY <1>4, SMT DEF RemoveDone, Removed
<1>5. CASE Remove
  BY <1>5, SMT DEF Remove, Removed, Spend
<1>6. QED
  BY <1>1, <1>2, <1>3, <1>4, <1>5 DEF LockStep

\* The flows: they change the entry in MoveEntry only.
LEMMA FlowIInv ==
  ASSUME IInv, NEW f \in Flows, FlowStep(f) \/ FlowStart(f)
  PROVE  IInv'
<1> USE DEF IInv, TypeOK, SettledHost, TitleIsCurrentHost, IssueIsOfLastAttempt,
            setupVars, dataVars, networkVars
<1>0. flow[f] # Idle => flow[f] \in FlowStates
  OBVIOUS
<1>1. CASE TargetAnswers(f)
  <2>1. [flow[f] EXCEPT !.step = "answered"] \in FlowStates
    BY <1>0, <1>1, SMT DEF TargetAnswers, Asking, FlowStates, Steps
  <2>2. QED
    BY <1>1, <2>1, SMT DEF TargetAnswers
<1>2. CASE PageWritten(f)
  <2>1. flow[f].target \in Addresses
    BY <1>0, <1>2, SMT DEF PageWritten, Asking, FlowStates, Steps
  <2>2. [flow[f] EXCEPT !.step = "answered"] \in FlowStates
    BY <1>0, <1>2, SMT DEF PageWritten, Asking, FlowStates, Steps
  <2>3. QED
    BY <1>2, <2>1, <2>2, SMT DEF PageWritten
<1>3. CASE FlowFails(f)
  BY <1>3, SMT DEF FlowFails, Spend, Free
<1>4. CASE FlowMoves(f)
  <2>1. flow[f].target \in Hosts
    BY <1>0, <1>4, SMT DEF FlowMoves, Answered, FlowStates, Steps, Hosts
  <2>2. CASE StillSeen(flow[f].seen)
    <3>1. MoveEntry(flow[f].target)
      BY <1>4, <2>2 DEF FlowMoves
    <3>2. QED
      BY <1>4, <2>1, <3>1, MoveFact, SMT DEF FlowMoves
  <2>3. CASE ~StillSeen(flow[f].seen)
    BY <1>4, <2>3, SMT DEF FlowMoves
  <2>4. QED
    BY <2>2, <2>3
<1>5. CASE PageFollows(f)
  <2>1. flow[f].target \in Hosts
    BY <1>0, <1>5, SMT DEF PageFollows, IsAddress, Answered, FlowStates, Steps, Hosts
  <2>2. CASE MoveEntry(flow[f].target)
    BY <1>5, <2>1, <2>2, MoveFact, SMT DEF PageFollows, IsAddress
  <2>3. CASE /\ pending' = IF phase = "removed" THEN pending ELSE pending + 1
             /\ UNCHANGED dataVars
    BY <1>5, <2>3, SMT DEF PageFollows, IsAddress
  <2>4. QED
    BY <1>5, <2>2, <2>3 DEF PageFollows, IsAddress
<1>6. ASSUME NEW kind \in {"search", "form", "page"}, NEW t \in Hosts,
             kind # "form" => t \in Addresses,
             kind = "search" => host \in Addresses, Starts(f, kind, t),
             events' \in Nat,
             UNCHANGED <<phase, dataVars, setupVars, options, pending, networkVars>>
      PROVE  IInv'
  <2>1. [kind |-> kind, step |-> "asking", seen |-> host, target |-> t] \in FlowStates
    BY <1>6, SMT DEF FlowStates, Steps
  <2>2. QED
    BY <1>6, <2>1, SMT DEF Starts
<1>7. CASE \E t \in Addresses : SearchReply(f, t)
  BY <1>6, <1>7, SMT DEF SearchReply, IsAddress, Spend, Free, Hosts
<1>8. CASE \E t \in Hosts : FormSubmitted(f, t)
  BY <1>6, <1>8, SMT DEF FormSubmitted, Spend
<1>9. CASE \E t \in Addresses : PageSubmitted(f, t)
  BY <1>6, <1>9, SMT DEF PageSubmitted, Spend, Hosts
<1>10. QED
  BY <1>1, <1>2, <1>3, <1>4, <1>5, <1>7, <1>8, <1>9 DEF FlowStep, FlowStart

\* The user and the network.
LEMMA EnvironmentIInv == IInv /\ Environment => IInv'
<1> SUFFICES ASSUME IInv, Environment PROVE IInv'
  OBVIOUS
<1> USE DEF IInv, TypeOK, SettledHost, TitleIsCurrentHost, IssueIsOfLastAttempt,
            setupVars, dataVars, networkVars
<1>1. CASE SetOptions
  BY <1>1, SMT DEF SetOptions, Spend
<1>2. CASE UserReload
  BY <1>2, SMT DEF UserReload, Spend
<1>3. CASE Readdressed
  BY <1>3, SMT DEF Readdressed, Spend
<1>4. CASE Remove
  BY <1>4, LockStepIInv
<1>5. QED
  BY <1>1, <1>2, <1>3, <1>4 DEF Environment

LEMMA StepIInv == IInv /\ [Next]_vars => IInv'
<1> SUFFICES ASSUME IInv, [Next]_vars PROVE IInv'
  OBVIOUS
<1>1. CASE UNCHANGED vars
  BY <1>1 DEF IInv, TypeOK, SettledHost, TitleIsCurrentHost, IssueIsOfLastAttempt,
              vars, setupVars, dataVars, networkVars
<1>2. CASE Next
  BY <1>2, SetupStepIInv, LockStepIInv, FlowIInv, EnvironmentIInv DEF Next
<1>3. QED
  BY <1>1, <1>2

THEOREM SpecIInv == Spec => []IInv
BY InitIInv, StepIInv, PTL DEF Spec

-----------------------------------------------------------------------------
(* The properties of ConfigEntry, for every instance.                      *)

\* Every variable keeps its type.
THEOREM TypeCorrect == Spec => []TypeOK
<1>1. IInv => TypeOK
  BY DEF IInv
<1>2. QED
  BY <1>1, SpecIInv, PTL

\* No move is lost: an entry with no reload waiting was set up with its host.
THEOREM HostSettles == Spec => []SettledHost
<1>1. IInv => SettledHost
  BY DEF IInv
<1>2. QED
  BY <1>1, SpecIInv, PTL

\* No failed attempt has an address for its title.
THEOREM TitleHidesAddress == Spec => []NoAddressInTitle
<1>1. IInv => NoAddressInTitle
  BY DEF IInv, NoAddressInTitle, TitleIsCurrentHost
<1>2. QED
  BY <1>1, SpecIInv, PTL

\* The repair issue is that of the attempt that ended last.
THEOREM IssueIsCurrent == Spec => []IssueIsOfLastAttempt
<1>1. IInv => IssueIsOfLastAttempt
  BY DEF IInv
<1>2. QED
  BY <1>1, SpecIInv, PTL

-----------------------------------------------------------------------------
(* What a step may not do.                                                 *)

\* Only a flow that ends changes the host, and it does so in MoveEntry.
LEMMA HostChange ==
  ASSUME IInv, [Next]_vars, host' # host
  PROVE  \E f \in Flows :
           /\ FlowMoves(f) \/ PageFollows(f)
           /\ StillSeen(flow[f].seen) /\ MoveEntry(flow[f].target)
           /\ flow[f] \in FlowStates
           /\ flow[f].kind = "page" => flow[f].seen \in Addresses
           /\ flow'[f] = Idle
<1> USE DEF setupVars, dataVars, networkVars
<1>1. ~(UNCHANGED vars)
  BY DEF vars
<1>2. ~SetupStep
  BY SMT DEF SetupStep, IdentityRead, MeterSilent, MeterRefused, AdoptionRefused,
             FirstRefresh, FirstRefreshFails, ModuleRead, PlatformsReady
<1>3. ~LockStep
  BY SMT DEF LockStep, ReloadBegins, UnloadDone, RetryTimer, RemoveDone
<1>4. ~Environment
  BY SMT DEF Environment, SetOptions, UserReload, Readdressed, Remove
<1>5. ASSUME NEW f \in Flows PROVE ~FlowStart(f)
  BY <1>5, SMT DEF FlowStart, SearchReply, FormSubmitted, PageSubmitted
<1>6. PICK f \in Flows : FlowMoves(f) \/ PageFollows(f)
  <2>1. PICK f \in Flows : FlowStep(f)
    BY <1>1, <1>2, <1>3, <1>4, <1>5 DEF Next
  <2>2. QED
    BY <2>1, SMT DEF FlowStep, TargetAnswers, PageWritten, FlowFails
<1>7. flow[f] \in FlowStates /\ flow'[f] = Idle
  BY <1>6, SMT DEF FlowMoves, PageFollows, IsAddress, Answered, IInv, TypeOK
<1>8. /\ StillSeen(flow[f].seen) /\ MoveEntry(flow[f].target)
      /\ flow[f].kind = "page" => flow[f].seen \in Addresses
  <2>1. CASE FlowMoves(f)
    BY <2>1, SMT DEF FlowMoves
  <2>2. CASE PageFollows(f)
    BY <2>2, SMT DEF PageFollows, IsAddress
  <2>3. QED
    BY <1>6, <2>1, <2>2
<1>9. QED
  BY <1>6, <1>7, <1>8

\* A change of the host, or of the options of a listening entry, asks for one
\* reload: async_move_entry and the listener never both, and never neither.
THEOREM OneReloadPerChange == Spec => ChangeReloadsOnce
<1>1. ASSUME IInv, [Next]_vars, host' # host
      PROVE  pending' = pending + 1
  <2>1. PICK f \in Flows : MoveEntry(flow[f].target) /\ flow[f] \in FlowStates
    BY <1>1, HostChange
  <2>2. flow[f].target \in Hosts
    BY <2>1, SMT DEF FlowStates, Steps, Hosts
  <2>3. flow[f].target # host
    BY <1>1, <2>1 DEF MoveEntry
  <2>4. QED
    BY <1>1, <2>1, <2>2, <2>3, MoveFact DEF IInv
<1>2. ASSUME IInv, [Next]_vars, options' # options, Listening
      PROVE  pending' = pending + 1
  <2> USE DEF setupVars, dataVars, networkVars
  <2>1. ~(UNCHANGED vars)
    BY <1>2 DEF vars
  <2>2. ~SetupStep
    BY <1>2, SMT DEF SetupStep, IdentityRead, MeterSilent, MeterRefused, AdoptionRefused,
               FirstRefresh, FirstRefreshFails, ModuleRead, PlatformsReady
  <2>3. ~LockStep /\ ~Remove
    BY <1>2, SMT DEF LockStep, ReloadBegins, UnloadDone, RetryTimer, RemoveDone, Remove
  <2>4. ~UserReload /\ ~Readdressed
    BY <1>2, SMT DEF UserReload, Readdressed
  <2>5. ASSUME NEW f \in Flows PROVE ~FlowStart(f) /\ ~FlowStep(f)
    BY <1>2, <2>5, SMT DEF FlowStart, SearchReply, FormSubmitted, PageSubmitted,
       FlowStep, TargetAnswers, PageWritten, FlowFails, FlowMoves, PageFollows, IsAddress
  <2>6. SetOptions
    BY <1>2, <2>1, <2>2, <2>3, <2>4, <2>5 DEF Next, Environment
  <2>7. QED
    BY <1>2, <2>6 DEF SetOptions
<1>3. QED
  BY <1>1, <1>2, SpecIInv, PTL DEF Spec, ChangeReloadsOnce

\* Nothing but a submitted form replaces a host name: a search decided on an
\* address, and async_move_entry compares what it decided on.
THEOREM HostNamesStay == Spec => HostNameKept
<1>1. ASSUME IInv, [Next]_vars, host' # host, host \in Names
      PROVE  \E f \in Flows : flow[f].kind = "form" /\ flow'[f] = Idle
  <2>1. PICK f \in Flows :
          /\ StillSeen(flow[f].seen) /\ flow[f] \in FlowStates
          /\ flow[f].kind = "page" => flow[f].seen \in Addresses
          /\ flow'[f] = Idle
    BY <1>1, HostChange
  <2>2. flow[f].seen \notin Addresses
    BY <1>1, <2>1, ConfigEntryAssumption DEF StillSeen, ConfigEntryAssumption
  <2>3. flow[f].kind = "form"
    BY <2>1, <2>2, SMT DEF FlowStates, Steps
  <2>4. QED
    BY <2>1, <2>3
<1>2. QED
  BY <1>1, SpecIInv, PTL DEF Spec, HostNameKept

\* A flow that was asking while the entry was deleted ends without a trace: it
\* compares the entry with what it decided on, and a removed one is never that.
THEOREM RemovedStays == Spec => RemovedForGood
<1> USE DEF setupVars, dataVars, networkVars
<1>1. ASSUME [Next]_vars, phase = "removed"
      PROVE  UNCHANGED <<phase, host, title, issue, pending>>
  <2>1. CASE UNCHANGED vars
    BY <2>1 DEF vars
  <2>2. ~SetupStep
    BY <1>1, SMT DEF SetupStep, IdentityRead, MeterSilent, MeterRefused, AdoptionRefused,
               FirstRefresh, FirstRefreshFails, ModuleRead, PlatformsReady
  <2>3. ~LockStep
    BY <1>1, SMT DEF LockStep, ReloadBegins, UnloadDone, RetryTimer, RemoveDone, Rests
  <2>4. CASE Environment
    BY <1>1, <2>4, SMT DEF Environment, SetOptions, UserReload, Readdressed, Remove, Rests
  <2>5. ASSUME NEW f \in Flows PROVE ~FlowStart(f)
    BY <1>1, <2>5, SMT DEF FlowStart, SearchReply, FormSubmitted, PageSubmitted, Starts
  <2>6. ASSUME NEW f \in Flows, FlowStep(f)
        PROVE  UNCHANGED <<phase, host, title, issue, pending>>
    <3>1. CASE TargetAnswers(f) \/ PageWritten(f) \/ FlowFails(f)
      BY <3>1, SMT DEF TargetAnswers, PageWritten, FlowFails
    <3>2. CASE FlowMoves(f) \/ PageFollows(f)
      BY <1>1, <3>2, SMT DEF FlowMoves, PageFollows, StillSeen
    <3> QED
      BY <2>6, <3>1, <3>2 DEF FlowStep
  <2> QED
    BY <1>1, <2>1, <2>2, <2>3, <2>4, <2>5, <2>6 DEF Next
<1>2. QED
  BY <1>1, PTL DEF Spec, RemovedForGood

-----------------------------------------------------------------------------
(* ConfigEntry implements EntryHost.                                       *)

\* What a flow stands by changes with the flow alone.
LEMMA DecisionsOfOne ==
  ASSUME TypeOK, NEW f \in Flows, NEW x, flow' = [flow EXCEPT ![f] = x]
  PROVE  Decisions' = [Decisions EXCEPT ![f] = IF x = Idle THEN <<>> ELSE <<x.seen, x.target>>]
<1>1. flow'[f] = x /\ \A g \in Flows \ {f} : flow'[g] = flow[g]
  BY DEF TypeOK
<1>2. \A g \in Flows : Decisions'[g] = IF g = f
        THEN IF x = Idle THEN <<>> ELSE <<x.seen, x.target>>
        ELSE Decisions[g]
  BY <1>1 DEF Decisions
<1> QED
  BY <1>2 DEF Decisions

\* Nothing of a setup in progress is a promise kept or broken.
LEMMA SetupStepMaps ==
  ASSUME TypeOK, SetupStep
  PROVE  UNCHANGED EntryHost!vars
<1>1. UNCHANGED <<host, runHost, pending, flow>>
  BY DEF SetupStep, IdentityRead, MeterSilent, MeterRefused, AdoptionRefused, FirstRefresh,
         FirstRefreshFails, ModuleRead, PlatformsReady, dataVars, setupVars
<1>2. phase \notin {"removed", "unloading"} /\ phase' \notin {"removed", "unloading"}
  BY DEF SetupStep, IdentityRead, MeterSilent, MeterRefused, AdoptionRefused, FirstRefresh,
         FirstRefreshFails, ModuleRead, PlatformsReady
<1> QED
  BY <1>1, <1>2 DEF EntryHost!vars, Owed, Decisions

\* A setup takes up the saved host, whatever it was started for.
LEMMA SetUpMaps ==
  ASSUME TypeOK, phase # "removed", SetupStarts, UNCHANGED <<host, flow>>,
         pending' \in Nat, pending' > 0 => Owed
  PROVE  EntryHost!SetUp
<1>1. phase' = "identity" /\ runHost' = host
  BY DEF SetupStarts
<1>2. Owed' \in {Owed, FALSE}
  BY <1>1 DEF Owed
<1> QED
  BY <1>1, <1>2 DEF EntryHost!SetUp, Decisions

LEMMA LockStepMaps ==
  ASSUME TypeOK, LockStep \/ Remove
  PROVE  [EntryHost!Next]_(EntryHost!vars)
<1> USE DEF dataVars, setupVars, networkVars
<1>0. pending \in Nat
  BY DEF TypeOK
<1>1. CASE ReloadBegins
  <2>1. CASE phase = "loaded"
    <3>1. UNCHANGED <<host, runHost, flow>> /\ Owed /\ Owed' /\ phase' = "unloading"
      BY <1>1, <2>1 DEF ReloadBegins, Owed
    <3>2. UNCHANGED EntryHost!vars
      BY <2>1, <3>1 DEF EntryHost!vars, Decisions
    <3> QED
      BY <3>2
  <2>2. CASE phase # "loaded"
    <3>1. /\ SetupStarts /\ UNCHANGED <<host, flow>> /\ pending' \in Nat /\ Owed
          /\ phase # "removed"
      BY <1>0, <1>1, <2>2 DEF ReloadBegins, Owed, Rests
    <3> QED
      BY <3>1, SetUpMaps DEF EntryHost!Next
  <2> QED
    BY <2>1, <2>2
<1>2. CASE UnloadDone \/ RetryTimer
  <2>1. /\ SetupStarts /\ UNCHANGED <<host, flow>> /\ pending' = pending /\ phase # "removed"
    BY <1>2 DEF UnloadDone, RetryTimer
  <2>2. pending > 0 => Owed
    BY DEF Owed
  <2> QED
    BY <1>0, <2>1, <2>2, SetUpMaps DEF EntryHost!Next
<1>3. CASE RemoveDone \/ Remove
  <2>1. CASE Removed /\ UNCHANGED <<host, runHost, flow>>
    <3>1. EntryHost!Delete
      BY <2>1 DEF Removed, EntryHost!Delete, Owed, Decisions
    <3> QED
      BY <3>1 DEF EntryHost!Next
  <2>2. CASE phase = "loaded" /\ phase' = "removing" /\ UNCHANGED <<host, runHost, pending, flow>>
    BY <2>2 DEF EntryHost!vars, Owed, Decisions
  <2> QED
    BY <1>3, <2>1, <2>2 DEF RemoveDone, Remove
<1> QED
  BY <1>1, <1>2, <1>3 DEF LockStep

\* A flow decides on the host the entry has.
LEMMA FlowStartMaps ==
  ASSUME TypeOK, NEW f \in Flows, FlowStart(f)
  PROVE  EntryHost!Decide(f)
<1> USE DEF dataVars, setupVars, networkVars
<1>1. PICK kind \in {"search", "form", "page"}, t \in Hosts :
        /\ Starts(f, kind, t)
        /\ UNCHANGED <<phase, host, runHost, pending>>
  BY DEF FlowStart, SearchReply, FormSubmitted, PageSubmitted, Hosts
<1> DEFINE x == [kind |-> kind, step |-> "asking", seen |-> host, target |-> t]
<1>2. /\ phase # "removed" /\ flow[f] = Idle /\ flow' = [flow EXCEPT ![f] = x]
  BY <1>1 DEF Starts
<1>3. x # Idle /\ x.seen = host /\ x.target = t
  BY DEF Idle
<1>4. Decisions' = [Decisions EXCEPT ![f] = <<host, t>>] /\ Decisions[f] = <<>>
  BY <1>2, <1>3, DecisionsOfOne DEF Decisions
<1> QED
  BY <1>1, <1>2, <1>4 DEF EntryHost!Decide, EntryHost!Undecided, Owed

\* A flow moves the entry only while it has the host the flow saw.
LEMMA MoveMaps ==
  ASSUME IInv, NEW f \in Flows, flow[f] \in FlowStates, StillSeen(flow[f].seen),
         MoveEntry(flow[f].target), flow' = [flow EXCEPT ![f] = Idle],
         UNCHANGED <<phase, runHost>>
  PROVE  EntryHost!Next
<1>1. TypeOK /\ TitleIsCurrentHost /\ flow[f].target \in Hosts /\ pending \in Nat
  BY DEF IInv, TypeOK, FlowStates, Hosts
<1>2. /\ host' = flow[f].target /\ pending' \in Nat
      /\ pending' = 0 => pending = 0 /\ host' = host
  BY <1>1, MoveFact
<1>3. pending' >= pending
  BY <1>1 DEF MoveEntry, ReloadsAsked
<1>4. flow[f] # Idle
  BY DEF FlowStates, Idle
<1>5. Decisions[f] = <<host, host'>> /\ EntryHost!Ends(f)
  BY <1>1, <1>2, <1>4, DecisionsOfOne
     DEF Decisions, StillSeen, EntryHost!Ends, EntryHost!Undecided
<1>6. CASE pending' > 0
  <2>1. EntryHost!Move(f)
    BY <1>1, <1>2, <1>5, <1>6 DEF EntryHost!Move, StillSeen, Owed
  <2> QED
    BY <2>1 DEF EntryHost!Next
<1>7. CASE ~(pending' > 0)
  <2>1. EntryHost!GiveUp(f)
    BY <1>1, <1>2, <1>5, <1>7 DEF EntryHost!GiveUp, Owed
  <2> QED
    BY <2>1 DEF EntryHost!Next
<1> QED
  BY <1>6, <1>7

\* A flow that ends without a move may have asked for a reload.
LEMMA GiveUpMaps ==
  ASSUME TypeOK, NEW f \in Flows, flow' = [flow EXCEPT ![f] = Idle],
         UNCHANGED <<phase, host, runHost>>,
         pending' = pending \/ (phase # "removed" /\ pending' = pending + 1)
  PROVE  EntryHost!Next
<1>1. EntryHost!Ends(f)
  BY DecisionsOfOne DEF EntryHost!Ends, EntryHost!Undecided
<1>2. Owed' \in {Owed, phase # "removed"}
  BY DEF TypeOK, Owed
<1>3. EntryHost!GiveUp(f)
  BY <1>1, <1>2 DEF EntryHost!GiveUp
<1> QED
  BY <1>3 DEF EntryHost!Next

LEMMA FlowStepMaps ==
  ASSUME IInv, NEW f \in Flows, FlowStep(f)
  PROVE  [EntryHost!Next]_(EntryHost!vars)
<1> USE DEF dataVars, setupVars, networkVars
<1>0. TypeOK /\ flow[f] # Idle /\ flow[f] \in FlowStates
  BY DEF IInv, TypeOK, FlowStep, TargetAnswers, PageWritten, FlowFails, FlowMoves, PageFollows,
         IsAddress, Asking, Answered
<1>1. CASE TargetAnswers(f) \/ PageWritten(f)
  <2>1. /\ flow' = [flow EXCEPT ![f] = [flow[f] EXCEPT !.step = "answered"]]
        /\ UNCHANGED <<phase, host, runHost, pending>>
    BY <1>0, <1>1 DEF TargetAnswers, PageWritten, TypeOK
  <2> DEFINE x == [flow[f] EXCEPT !.step = "answered"]
  <2>2. x # Idle /\ x.seen = flow[f].seen /\ x.target = flow[f].target
    BY <1>0 DEF FlowStates, Idle
  <2>3. Decisions' = [Decisions EXCEPT ![f] = <<flow[f].seen, flow[f].target>>]
    <3> HIDE DEF x
    <3>1. Decisions' = [Decisions EXCEPT ![f] = IF x = Idle THEN <<>> ELSE <<x.seen, x.target>>]
      BY <1>0, <2>1, DecisionsOfOne DEF x
    <3> QED
      BY <2>2, <3>1
  <2>4. Decisions' = Decisions
    BY <1>0, <2>3 DEF Decisions
  <2> QED
    BY <2>1, <2>4 DEF EntryHost!vars, Owed
<1>2. CASE FlowFails(f)
  BY <1>0, <1>2, GiveUpMaps DEF FlowFails
<1>3. CASE FlowMoves(f)
  BY <1>0, <1>3, GiveUpMaps, MoveMaps DEF FlowMoves
<1>4. CASE PageFollows(f)
  BY <1>0, <1>4, GiveUpMaps, MoveMaps DEF PageFollows, IsAddress
<1> QED
  BY <1>1, <1>2, <1>3, <1>4 DEF FlowStep

LEMMA EnvironmentMaps ==
  ASSUME TypeOK, SetOptions \/ UserReload \/ Readdressed
  PROVE  [EntryHost!Next]_(EntryHost!vars)
<1> USE DEF dataVars, setupVars, networkVars
<1>0. pending \in Nat /\ UNCHANGED <<phase, host, runHost, flow>>
  BY DEF TypeOK, SetOptions, UserReload, Readdressed
<1>1. CASE pending' = pending
  BY <1>0, <1>1 DEF EntryHost!vars, Owed, Decisions
<1>2. CASE phase # "removed" /\ pending' = pending + 1
  <2>1. EntryHost!AskReload
    BY <1>0, <1>2 DEF EntryHost!AskReload, Owed, Decisions
  <2> QED
    BY <2>1 DEF EntryHost!Next
<1> QED
  BY <1>0, <1>1, <1>2 DEF SetOptions, UserReload, Readdressed

\* Whatever runs at the same time, a flow overwrites no host it has not seen, a reload
\* owed waits for a setup with the saved host, and a deleted entry is left alone.
THEOREM Refinement == Spec => MovesAreKept
<1>1. Init => EntryHost!Init
  BY DEF Init, EntryHost!Init, EntryHost!Undecided, Owed, Decisions, Hosts
<1>2. ASSUME IInv, [Next]_vars PROVE [EntryHost!Next]_(EntryHost!vars)
  <2>1. TypeOK
    BY <1>2 DEF IInv
  <2>2. CASE UNCHANGED vars
    BY <2>2 DEF vars, dataVars, setupVars, EntryHost!vars, Owed, Decisions
  <2>3. CASE SetupStep
    BY <2>1, <2>3, SetupStepMaps
  <2>4. CASE LockStep \/ Environment
    BY <2>1, <2>4, LockStepMaps, EnvironmentMaps DEF Environment
  <2>5. ASSUME NEW f \in Flows, FlowStep(f) \/ FlowStart(f)
        PROVE  [EntryHost!Next]_(EntryHost!vars)
    BY <1>2, <2>1, <2>5, FlowStepMaps, FlowStartMaps DEF EntryHost!Next
  <2> QED
    BY <1>2, <2>2, <2>3, <2>4, <2>5 DEF Next
<1> QED
  BY <1>1, <1>2, SpecIInv, PTL DEF Spec, MovesAreKept, EntryHost!Spec
=============================================================================
