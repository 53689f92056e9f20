---------------------------- MODULE ConfigEntry ----------------------------
(***************************************************************************)
(* The life of one config entry of the integration: the attempts to set it *)
(* up, the reloads its changes ask for, and the flows that decide to move  *)
(* it to another address while attempts and reloads are under way.         *)
(*                                                                         *)
(* Source: __init__.py (setup, unload, remove), config_flow.py             *)
(* (async_move_entry and the three flows that call it) and sensor.py       *)
(* (entry_title).  Home Assistant's part - the lock a setup and a reload   *)
(* hold, the retry timer, who calls the update listener - is external.  A  *)
(* step is what runs between two awaits.                                   *)
(***************************************************************************)
EXTENDS Naturals

CONSTANTS
  Addresses,   \* the IP addresses a module can be reached at
  Names,       \* the host names that resolve to wherever the meter is
  Nowhere,     \* the place of a meter that is unplugged
  Options,     \* the poll intervals a user can choose
  Flows,       \* the slots for flows that may run at the same time
  MaxEvents    \* bound: user actions, network changes and faults together

Hosts == Addresses \cup Names

ASSUME ConfigEntryAssumption ==
  /\ Nowhere \notin Hosts
  /\ Addresses \cap Names = {}
  /\ {"device", "custom"} \cap Hosts = {}
  /\ MaxEvents \in Nat

VARIABLES
  phase,     \* where the entry is: an await of its setup, or a state it rests in
  host,      \* entry.data["host"]
  runHost,   \* the host the last attempt to set up was started with
  options,   \* entry.options
  polled,    \* the options the coordinators of the last attempt were built with
  pending,   \* reload tasks that wait for the entry's setup lock
  title,     \* the entry's title: an address, the device name or the user's own
  issue,     \* the repair issue shown for the entry
  flow,      \* the flows that may move the entry
  own,       \* the address of the entry's own meter
  others,    \* the addresses at which a different meter answers
  events     \* what is left of MaxEvents

setupVars   == <<runHost, polled, issue>>
dataVars    == <<host, title>>
networkVars == <<own, others>>
vars == <<phase, dataVars, setupVars, options, pending, flow, networkVars, events>>

Attempts == {"identity", "measurements", "energy", "module", "platforms"}
Rests    == {"not_loaded", "loaded", "retry", "error"}   \* the setup lock is free
Phases   == Attempts \cup Rests \cup {"unloading", "removing", "removed"}

Idle == [kind |-> "idle"]
Steps == {"asking", "answered"}
FlowStates ==
  [kind : {"form"}, step : Steps, seen : Hosts, target : Hosts]
  \cup [kind : {"page"}, step : Steps, seen : Hosts, target : Addresses]
  \cup [kind : {"search"}, step : Steps, seen : Addresses, target : Addresses]

TypeOK ==
  /\ phase \in Phases
  /\ host \in Hosts /\ runHost \in Hosts
  /\ options \in Options /\ polled \in Options
  /\ pending \in Nat
  /\ title \in Hosts \cup {"device", "custom"}
  /\ issue \in {"none", "adoption_blocked"}
  /\ flow \in [Flows -> FlowStates \cup {Idle}]
  /\ own \in Addresses \cup {Nowhere} /\ others \subseteq Addresses \ {own}
  /\ events \in Nat

(***************************************************************************)
(* Home Assistant starts with the entry on disk: an earlier version may    *)
(* have titled it with its address.                                        *)
(***************************************************************************)
Init ==
  /\ phase = "not_loaded" /\ pending = 1
  /\ host \in Hosts /\ runHost = host
  /\ options \in Options /\ polled = options
  /\ title \in {host, "device", "custom"}
  /\ issue = "none"
  /\ flow = [f \in Flows |-> Idle]
  /\ own \in Addresses /\ others \in {{}, Addresses \ {own}}
  /\ events = MaxEvents

Spend == events > 0 /\ events' = events - 1
Free  == UNCHANGED events

ReachesOwn(h) == IF h \in Names THEN own # Nowhere ELSE h = own
ReachesOther(h) == h \in others

\* What a plausible mistake would make of the definitions below it.
IssueKept == issue
TitleNotMoved == title
MovesAnyway(seen) == TRUE
SchedulesOnTop(changed, listening) == IF listening /\ changed THEN 2 ELSE 1
ReloadsByListenerOnly(changed, listening) == IF listening /\ changed THEN 1 ELSE 0
NamesToo(h) == TRUE

\* A host name follows the module through DHCP by itself.
IsAddress(h) == h \in Addresses

\* entry_title: only a title that is exactly the address is replaced.
EntryTitle(current, h) == IF current = h THEN "device" ELSE current

\* The update listener is there from the end of a setup that got that far
\* until the unload has finished.
Listening == phase \in {"platforms", "loaded", "unloading", "removing"}

-----------------------------------------------------------------------------
(* Setting up: async_setup_entry, one action for each await in it.         *)

IssueAtStart == "none"

\* Everything before the first await; the title is replaced whatever follows.
SetupStarts ==
  /\ phase' = "identity" /\ runHost' = host
  /\ title' = EntryTitle(title, host) /\ issue' = IssueAtStart

\* The own meter answered, its adoption went through (EntityIds has both), and
\* the intervals are read.
IdentityRead ==
  /\ phase = "identity" /\ ReachesOwn(runHost)
  /\ phase' = "measurements"
  /\ polled' = options
  /\ UNCHANGED <<dataVars, runHost, issue, options, pending, flow, networkVars, events>>

\* ModbusError: nobody answers, or a meter that is there misses a request.
MeterSilent ==
  /\ phase = "identity"
  /\ IF ReachesOwn(runHost) \/ ReachesOther(runHost) THEN Spend ELSE Free
  /\ phase' = "retry"
  /\ UNCHANGED <<dataVars, setupVars, options, pending, flow, networkVars>>

\* ConfigEntryError: another meter's serial, or a meter that cannot be served
\* (link settings clash, unsupported meter or data type).
MeterRefused ==
  /\ phase = "identity"
  /\ \/ ReachesOther(runHost) /\ Free
     \/ ReachesOwn(runHost) /\ Spend
  /\ phase' = "error"
  /\ UNCHANGED <<dataVars, setupVars, options, pending, flow, networkVars>>

AdoptionRefused ==
  /\ phase = "identity" /\ ReachesOwn(runHost) /\ Spend
  /\ phase' = "retry" /\ issue' = "adoption_blocked"
  /\ UNCHANGED <<dataVars, runHost, polled, options, pending, flow, networkVars>>

\* async_config_entry_first_refresh of the two coordinators: by then any meter
\* at the address is taken for the own one.
FirstRefresh ==
  /\ phase \in {"measurements", "energy"}
  /\ ReachesOwn(runHost) \/ ReachesOther(runHost)
  /\ phase' = IF phase = "measurements" THEN "energy" ELSE "module"
  /\ UNCHANGED <<dataVars, setupVars, options, pending, flow, networkVars, events>>

FirstRefreshFails ==
  /\ phase \in {"measurements", "energy"}
  /\ IF ReachesOwn(runHost) \/ ReachesOther(runHost) THEN Spend ELSE Free
  /\ phase' = "retry"
  /\ UNCHANGED <<dataVars, setupVars, options, pending, flow, networkVars>>

\* The module's answer decides nothing about the entry; then the update
\* listener is added and the platforms are set up.
ModuleRead ==
  /\ phase = "module"
  /\ phase' = "platforms"
  /\ UNCHANGED <<dataVars, setupVars, options, pending, flow, networkVars, events>>

PlatformsReady ==
  /\ phase = "platforms"
  /\ phase' = "loaded"
  /\ UNCHANGED <<dataVars, setupVars, options, pending, flow, networkVars, events>>

-----------------------------------------------------------------------------
(* Reloading, retrying and removing: Home Assistant under the setup lock.  *)

\* A reload task gets the lock: a loaded entry is unloaded first.
ReloadBegins ==
  /\ phase \in Rests /\ pending > 0
  /\ pending' = pending - 1
  /\ IF phase = "loaded"
       THEN phase' = "unloading" /\ UNCHANGED <<title, runHost, issue>>
       ELSE SetupStarts
  /\ UNCHANGED <<host, polled, options, flow, networkVars, events>>

UnloadDone ==
  /\ phase = "unloading"
  /\ SetupStarts
  /\ UNCHANGED <<host, polled, options, pending, flow, networkVars, events>>

\* A reload that waits has cancelled the timer.
RetryTimer ==
  /\ phase = "retry" /\ pending = 0
  /\ SetupStarts
  /\ UNCHANGED <<host, polled, options, pending, flow, networkVars, events>>

Removed == phase' = "removed" /\ issue' = "none" /\ pending' = 0

Remove ==
  /\ phase \in Rests /\ Spend
  /\ IF phase = "loaded"
       THEN phase' = "removing" /\ UNCHANGED <<issue, pending>>
       ELSE Removed
  /\ UNCHANGED <<dataVars, runHost, polled, options, flow, networkVars>>

RemoveDone ==
  /\ phase = "removing" /\ Removed
  /\ UNCHANGED <<dataVars, runHost, polled, options, flow, networkVars, events>>

-----------------------------------------------------------------------------
(* Moving: the flows decide, await the module or the meter, then call      *)
(* async_move_entry.                                                       *)

\* async_move_entry goes on only while the data is what the flow decided on.
StillSeen(seen) == phase # "removed" /\ host = seen

MovedTitle == EntryTitle(title, host)

\* One reload: by the listener when it is there, else scheduled.
ReloadsAsked(changed, listening) ==
  IF listening THEN IF changed THEN 1 ELSE 0 ELSE 1

MoveEntry(target) ==
  /\ host' = target /\ title' = MovedTitle
  /\ pending' = pending
       + ReloadsAsked(target # host \/ MovedTitle # title, Listening)

Starts(f, kind, target) ==
  /\ phase # "removed" /\ flow[f] = Idle
  /\ flow' = [flow EXCEPT ![f] =
       [kind |-> kind, step |-> "asking", seen |-> host, target |-> target]]

\* _async_follow: a reply to the search names an address - where the module
\* is, or, late, where it was.  A second flow for the same reply is dropped.
SearchReply(f, target) ==
  /\ IsAddress(host) /\ target # host
  /\ \A g \in Flows : flow[g] # Idle => flow[g].kind # "search" \/ flow[g].target # target
  /\ IF target = own THEN Free ELSE Spend
  /\ Starts(f, "search", target)
  /\ UNCHANGED <<phase, dataVars, setupVars, options, pending, networkVars>>

\* async_step_reconfigure: the user submits a host, the saved one included.
FormSubmitted(f, target) ==
  /\ Spend
  /\ Starts(f, "form", target)
  /\ UNCHANGED <<phase, dataVars, setupVars, options, pending, networkVars>>

\* _async_write: the module page gives the module its fixed address.
PageSubmitted(f, target) ==
  /\ Spend
  /\ phase = "loaded" /\ runHost = host /\ ReachesOwn(host)
  /\ Starts(f, "page", target)
  /\ UNCHANGED <<phase, dataVars, setupVars, options, pending, networkVars>>

Asking(f)   == flow[f] # Idle /\ flow[f].step = "asking"
Answered(f) == flow[f] # Idle /\ flow[f].step = "answered"

\* The module (search) or the meter (form) answered with the right serial.
TargetAnswers(f) ==
  /\ Asking(f) /\ flow[f].kind # "page" /\ ReachesOwn(flow[f].target)
  /\ flow' = [flow EXCEPT ![f].step = "answered"]
  /\ UNCHANGED <<phase, dataVars, setupVars, options, pending, networkVars, events>>

\* The module stored the page's settings and goes to its new address.
PageWritten(f) ==
  /\ Asking(f) /\ flow[f].kind = "page" /\ ReachesOwn(flow[f].seen)
  /\ flow' = [flow EXCEPT ![f].step = "answered"]
  /\ own' = flow[f].target /\ others' = others \ {flow[f].target}
  /\ UNCHANGED <<phase, dataVars, setupVars, options, pending, events>>

FlowFails(f) ==
  /\ Asking(f)
  /\ IF ReachesOwn(IF flow[f].kind = "page" THEN flow[f].seen ELSE flow[f].target)
       THEN Spend ELSE Free
  /\ flow' = [flow EXCEPT ![f] = Idle]
  /\ UNCHANGED <<phase, dataVars, setupVars, options, pending, networkVars>>

FlowMoves(f) ==
  /\ Answered(f) /\ flow[f].kind # "page"
  /\ IF StillSeen(flow[f].seen)
       THEN MoveEntry(flow[f].target)
       ELSE UNCHANGED <<dataVars, pending>>
  /\ flow' = [flow EXCEPT ![f] = Idle]
  /\ UNCHANGED <<phase, setupVars, options, networkVars, events>>

\* _follow_module: an address is moved with the module, anything else reloaded.
PageFollows(f) ==
  /\ Answered(f) /\ flow[f].kind = "page"
  /\ LET page == flow[f] IN
     IF IsAddress(page.seen) /\ page.target # page.seen /\ StillSeen(page.seen)
       THEN MoveEntry(page.target)
       ELSE /\ pending' = IF phase = "removed" THEN pending ELSE pending + 1
            /\ UNCHANGED dataVars
  /\ flow' = [flow EXCEPT ![f] = Idle]
  /\ UNCHANGED <<phase, setupVars, options, networkVars, events>>

-----------------------------------------------------------------------------
(* The user and the network.                                               *)

\* async_step_intervals: the options are saved, the listener is told.
SetOptions ==
  /\ phase # "removed" /\ Spend
  /\ options' \in Options \ {options}
  /\ pending' = pending + (IF Listening THEN 1 ELSE 0)
  /\ UNCHANGED <<phase, dataVars, setupVars, flow, networkVars>>

UserReload ==
  /\ phase # "removed" /\ Spend
  /\ pending' = pending + 1
  /\ UNCHANGED <<phase, dataVars, setupVars, options, flow, networkVars>>

\* DHCP, a swap of two modules, a meter unplugged or plugged in.
Readdressed ==
  /\ Spend
  /\ own' \in Addresses \cup {Nowhere} /\ others' \in {{}, Addresses \ {own'}}
  /\ networkVars' # networkVars
  /\ UNCHANGED <<phase, dataVars, setupVars, options, pending, flow>>

-----------------------------------------------------------------------------
SetupStep ==
  \/ IdentityRead \/ MeterSilent \/ MeterRefused \/ AdoptionRefused
  \/ FirstRefresh \/ FirstRefreshFails \/ ModuleRead \/ PlatformsReady

LockStep == ReloadBegins \/ UnloadDone \/ RetryTimer \/ RemoveDone

FlowStep(f) ==
  \/ TargetAnswers(f) \/ PageWritten(f) \/ FlowFails(f)
  \/ FlowMoves(f) \/ PageFollows(f)

FlowStart(f) ==
  \/ \E t \in Addresses : SearchReply(f, t)
  \/ \E t \in Hosts : FormSubmitted(f, t)
  \/ \E t \in Addresses : PageSubmitted(f, t)

Environment == SetOptions \/ UserReload \/ Readdressed \/ Remove

Next ==
  \/ SetupStep \/ LockStep \/ Environment
  \/ \E f \in Flows : FlowStep(f) \/ FlowStart(f)

Spec == Init /\ [][Next]_vars

(***************************************************************************)
(* Tasks of the event loop run, awaits on the network end (each request    *)
(* has a timeout), the retry timer fires and the search that repeats every *)
(* quarter of an hour hears a module that is there.                        *)
(***************************************************************************)
SearchHears == \E f \in Flows : own # Nowhere /\ SearchReply(f, own)

FairSpec ==
  /\ Spec
  /\ WF_vars(SetupStep) /\ WF_vars(LockStep)
  /\ WF_vars(SearchHears) /\ \A f \in Flows : WF_vars(FlowStep(f))
-----------------------------------------------------------------------------
(* What the entry promises.                                                *)

\* Unless a reload still waits, an entry that rests or is being set up was set
\* up with the host it is saved with: no move of async_move_entry is lost, even
\* one made while an attempt with the old host was under way.
SettledHost ==
  phase \notin {"unloading", "removing", "removed"} /\ pending = 0 => runHost = host

\* A reload is owed while its task waits for the setup lock, and until the unload
\* it began with is through.
Owed == pending > 0 \/ phase = "unloading"

\* A flow stands by the host it saw.
Decisions == [f \in Flows |-> IF flow[f] = Idle THEN <<>> ELSE <<flow[f].seen, flow[f].target>>]

EntryHost == INSTANCE EntryHost WITH
  saved <- host, inUse <- runHost, owed <- Owed, gone <- phase = "removed", asked <- Decisions

\* The entry keeps the promise of EntryHost: no flow overwrites a host it has not
\* seen, no reload owed is dropped but by a setup that takes up the saved host, and
\* none of it is undone by what was under way when the entry was deleted.
MovesAreKept == EntryHost!Spec

\* Home Assistant logs the title with every failed attempt; no failed attempt
\* has an address for its title, not even after a move took the address away
\* that entry_title would have compared the title with.
NoAddressInTitle == phase \in {"retry", "error"} => title \notin Hosts

\* The repair issue describes the attempt that ended last, and is gone with the
\* next attempt and with the entry.
IssueIsOfLastAttempt == issue # "none" => phase = "retry"

\* A change of the host, and a change of the options of an entry that listens,
\* reloads the entry exactly once.
ChangeReloadsOnce ==
  [][host' # host \/ (options' # options /\ Listening) => pending' = pending + 1]_vars

\* A host name, which follows the module by itself, is replaced by nothing but a
\* reconfiguration the user submitted; not by a search or a page that decided
\* while the entry still had an address.
HostNameKept ==
  [][host' # host /\ host \in Names =>
       \E f \in Flows : flow[f].kind = "form" /\ flow'[f] = Idle]_vars

\* A flow that ends after the entry was deleted leaves it alone.
RemovedForGood ==
  [][phase = "removed" => UNCHANGED <<phase, host, title, issue, pending>>]_vars

(***************************************************************************)
(* When the network has settled the entry ends up loaded from its own      *)
(* meter, wherever the meter went, whatever failed on the way.  Two cases  *)
(* remain: the entry was deleted, or the attempt at the meter's present    *)
(* address ended in an error that no retry is made for.                    *)
(***************************************************************************)
Recovers ==
  <>[](\/ own = Nowhere \/ phase = "removed"
       \/ phase = "loaded" /\ runHost = host /\ ReachesOwn(host)
       \/ phase = "error" /\ runHost = host /\ ReachesOwn(host))

\* The interval page promises a reload on change (config_flow.py:558): a loaded
\* entry with no reload waiting polls with the intervals it is saved with.
PollsWithSavedOptions == phase = "loaded" /\ pending = 0 => polled = options
=============================================================================
