---------------------------- MODULE ModuleSearch ----------------------------
(***************************************************************************)
(* The search for modules and the flows its replies open: a module whose   *)
(* meter has no entry is offered, a module that turned up elsewhere takes  *)
(* its entry along (discovery.py, WagoConfigFlow in config_flow.py), and   *)
(* the module devices of the entries, by which the search tells whose a    *)
(* module is (_async_module in __init__.py).                               *)
(*                                                                         *)
(* An attempt to set up an entry is one step here; ConfigEntry has its     *)
(* parts.  Every entry has an address for a host, and every meter answers  *)
(* on the default port and unit.                                           *)
(***************************************************************************)
EXTENDS Naturals, FiniteSets

CONSTANTS
  Modules,     \* 879-9000 modules, told apart by their serial
  Meters,      \* the meters they are fitted to, by serial
  Unsupported, \* those of them that are no WAGO 879
  Addresses,   \* the addresses modules are reached at
  Off,         \* where a module is that is not reached
  None,        \* no meter, no host
  MaxFlows,    \* bound: flows of replies that are being worked on
  MaxEvents    \* bound: changes of the network, faults, and what users do

ASSUME ModuleSearchAssumption ==
  /\ Off \notin Addresses /\ None \notin Meters \cup Modules \cup Addresses
  /\ Unsupported \subseteq Meters /\ "unsupported" \notin Meters \cup {None}
  /\ MaxFlows \in Nat /\ MaxEvents \in Nat

VARIABLES
  at,       \* the address of each module
  wired,    \* the meter each module is fitted to
  entry,    \* the config entry of each meter
  reached,  \* history: the module the last setup of each entry reached
  probed,   \* PROBED_METERS: the meter a module answered with, while HA runs
  flow,     \* the flow of each reply: a module and the address it named
  events

network == <<at, wired>>
vars == <<network, entry, reached, probed, flow, events>>

Replies == Modules \X Addresses

NoEntry == [phase |-> "none", host |-> None, modules |-> {}]
Entries ==
  [phase : {"trying", "loaded", "wrong"}, host : Addresses,
   modules : {{m} : m \in Modules} \cup {{}}]
  \cup {NoEntry, [NoEntry EXCEPT !.phase = "ignored"]}

Idle == [step |-> "idle", meter |-> None, of |-> None, seen |-> None]
Flows ==
  {Idle, [Idle EXCEPT !.step = "heard"], [Idle EXCEPT !.step = "probing"]}
  \cup [step : {"checking"}, meter : Meters \cup {None}, of : Meters, seen : Addresses]
  \cup [step : {"offered"}, meter : Meters, of : {None}, seen : {None}]

TypeOK ==
  /\ at \in [Modules -> Addresses \cup {Off}]
  /\ wired \in [Modules -> Meters]
  /\ entry \in [Meters -> Entries]
  /\ reached \in [Meters -> Modules \cup {None}]
  /\ probed \in [Modules -> Meters \cup {None, "unsupported"}]
  /\ flow \in [Replies -> Flows]
  /\ events \in Nat

Init ==
  /\ at \in [Modules -> Addresses \cup {Off}]
  /\ \A m, n \in Modules : m # n /\ at[m] = at[n] => at[m] = Off
  /\ wired \in [Modules -> Meters]
  /\ \A m, n \in Modules : m # n => wired[m] # wired[n]
  /\ entry = [e \in Meters |-> NoEntry]
  /\ reached = [e \in Meters |-> None]
  /\ probed = [m \in Modules |-> None]
  /\ flow = [r \in Replies |-> Idle]
  /\ events = MaxEvents

Spend == events > 0 /\ events' = events - 1

HasEntry(e) == entry[e].phase \notin {"none", "ignored"}
MetersAt(a) == {wired[m] : m \in {n \in Modules : at[n] = a}}
Offers == {r \in Replies : flow[r].step = "offered"}
Busy == {r \in Replies : flow[r].step \in {"heard", "probing", "checking"}}

\* What a plausible mistake would make of the definitions below it.
ByAddressToo(m, a) == {e \in Meters : HasEntry(e) /\ entry[e].host = a}
OnlyOtherMeters(r, e) ==
  IF HasEntry(e) THEN Idle ELSE [Idle EXCEPT !.step = "offered", !.meter = e]
NoneOutlived(e, m) == {}

-----------------------------------------------------------------------------
(* A reply, and what its flow does with it.                                *)

\* async_find_modules: a reply that opens no flow when one like it is there.
Hears(m, a) ==
  /\ at[m] = a /\ flow[<<m, a>>] = Idle /\ Cardinality(Busy) < MaxFlows
  /\ flow' = [flow EXCEPT ![<<m, a>>].step = "heard"]
  /\ UNCHANGED <<network, entry, reached, probed, events>>

\* _entry_of: the module's serial decides; an address counts for an entry that
\* never reached a module.
EntriesOf(m, a) ==
  LET its == {e \in Meters : HasEntry(e) /\ m \in entry[e].modules}
  IN IF its # {} THEN its
     ELSE {e \in Meters : HasEntry(e) /\ entry[e].modules = {} /\ entry[e].host = a}

\* The start of _async_follow: an entry at another address is checked.
Followed(e, meter, a) ==
  IF entry[e].host = a THEN Idle
  ELSE [step |-> "checking", meter |-> meter, of |-> e, seen |-> entry[e].host]

\* The meter is known: async_set_unique_id, and what follows it.
Named(r, e) ==
  IF \E s \in Replies \ {r} : flow[s].meter = e THEN Idle
  ELSE IF HasEntry(e) THEN Followed(e, e, r[2])
  ELSE IF entry[e].phase = "ignored" THEN Idle
  ELSE [Idle EXCEPT !.step = "offered", !.meter = e]

\* async_step_integration_discovery up to its first await.
Dispatch(r) ==
  /\ flow[r].step = "heard"
  /\ IF EntriesOf(r[1], r[2]) # {}
       THEN \E e \in EntriesOf(r[1], r[2]) :
              flow' = [flow EXCEPT ![r] = Followed(e, None, r[2])]
     ELSE IF probed[r[1]] = "unsupported"
       THEN flow' = [flow EXCEPT ![r] = Idle]
     ELSE IF probed[r[1]] # None
       THEN flow' = [flow EXCEPT ![r] = Named(r, probed[r[1]])]
     ELSE flow' = [flow EXCEPT ![r].step = "probing"]
  /\ UNCHANGED <<network, entry, reached, probed, events>>

\* What is kept of a meter that answered: its serial, or that it is no WAGO 879.
Remembered(e) == IF e \in Unsupported THEN "unsupported" ELSE e

\* probe_serial: whatever meter answers at the address by now.
ProbeAnswers(r) ==
  /\ flow[r].step = "probing"
  /\ \E e \in MetersAt(r[2]) :
       /\ probed' = [probed EXCEPT ![r[1]] = Remembered(e)]
       /\ flow' = [flow EXCEPT ![r] = IF e \in Unsupported THEN Idle ELSE Named(r, e)]
  /\ UNCHANGED <<network, entry, reached, events>>

\* Nobody answers, or a meter that is there misses the request.
ProbeFails(r) ==
  /\ flow[r].step = "probing"
  /\ IF MetersAt(r[2]) = {} THEN UNCHANGED events ELSE Spend
  /\ flow' = [flow EXCEPT ![r] = Idle]
  /\ UNCHANGED <<network, entry, reached, probed>>

\* _async_module_answers_at.
Answers(m, a) == at[m] = a

\* The end of _async_follow: the entry moves if it is what it was.
Follow(r) ==
  /\ flow[r].step = "checking"
  /\ LET e == flow[r].of IN
       entry' = IF Answers(r[1], r[2]) /\ HasEntry(e) /\ entry[e].host = flow[r].seen
                  THEN [entry EXCEPT ![e].host = r[2], ![e].phase = "trying"]
                  ELSE entry
  /\ flow' = [flow EXCEPT ![r] = Idle]
  /\ UNCHANGED <<network, reached, probed, events>>

\* The module misses the request of the check.
CheckFails(r) ==
  /\ flow[r].step = "checking" /\ Answers(r[1], r[2]) /\ Spend
  /\ flow' = [flow EXCEPT ![r] = Idle]
  /\ UNCHANGED <<network, entry, reached, probed>>

-----------------------------------------------------------------------------
(* What users do.                                                          *)

\* A new entry of meter e; core ends the flows that offer it.
Create(e, a) ==
  /\ entry' = [entry EXCEPT ![e] = [phase |-> "trying", host |-> a, modules |-> {}]]
  /\ flow' = [r \in Replies |-> IF flow[r].meter = e THEN Idle ELSE flow[r]]

\* async_step_discovery_confirm: nothing is asked again.
Confirm(r) ==
  /\ flow[r].step = "offered"
  /\ Create(flow[r].meter, r[2])
  /\ UNCHANGED <<network, reached, probed, events>>

Dismiss(r) ==
  /\ flow[r].step = "offered" /\ Spend
  /\ flow' = [flow EXCEPT ![r] = Idle]
  /\ entry' \in {entry, [entry EXCEPT ![flow[r].meter].phase = "ignored"]}
  /\ UNCHANGED <<network, reached, probed>>

\* async_step_user, at an address the meter answers at.
AddByHand(e, a) ==
  /\ ~HasEntry(e) /\ e \in MetersAt(a) \ Unsupported /\ Spend
  /\ Create(e, a)
  /\ UNCHANGED <<network, reached, probed>>

\* async_step_reconfigure, refused while a flow works on the meter; to the address
\* it has, it sets up an entry that is not loaded.
Reconfigure(e, a) ==
  /\ HasEntry(e) /\ e \in MetersAt(a) /\ \A r \in Replies : flow[r].meter # e
  /\ Spend
  /\ entry[e].phase = "loaded" => entry[e].host # a
  /\ entry' = [entry EXCEPT ![e].host = a, ![e].phase = "trying"]
  /\ UNCHANGED <<network, reached, probed, flow>>

Delete(e) ==
  /\ HasEntry(e) /\ Spend
  /\ entry' = [entry EXCEPT ![e] = NoEntry] /\ reached' = [reached EXCEPT ![e] = None]
  /\ UNCHANGED <<network, probed, flow>>

-----------------------------------------------------------------------------
(* Setups, and the network.                                                *)

\* _async_module: the module devices of entry e, but for the one it reached.
Outlived(e, m) == entry[e].modules \ {m}

\* A device that is removed is gone from every entry that has it.
Reaches(e, m) ==
  /\ entry' = [d \in Meters |->
       IF d = e THEN [entry[e] EXCEPT !.phase = "loaded",
                                      !.modules = (@ \ Outlived(e, m)) \cup {m}]
       ELSE [entry[d] EXCEPT !.modules = @ \ Outlived(e, m)]]
  /\ reached' = [reached EXCEPT ![e] = m]
  /\ UNCHANGED events

\* async_setup_entry of an entry that waits for it; the module may miss the
\* request for its settings, which leaves the devices as they are.
Setup(e) ==
  /\ entry[e].phase = "trying"
  /\ \E m \in Modules :
       /\ at[m] = entry[e].host
       /\ \/ wired[m] = e /\ Reaches(e, m)
          \/ /\ wired[m] = e /\ Spend
             /\ entry' = [entry EXCEPT ![e].phase = "loaded"] /\ UNCHANGED reached
          \/ /\ wired[m] # e
             /\ entry' = [entry EXCEPT ![e].phase = "wrong"]
             /\ UNCHANGED <<reached, events>>
  /\ UNCHANGED <<network, probed, flow>>

\* The module_device_id of the setup that loaded the entry: what it reached, or
\* what it had when the module missed the request.
InUse(e, m) == entry[e].phase = "loaded" /\ m \in entry[e].modules

\* async_remove_config_entry_device: never the module in use.
RemoveDevice(e, m) ==
  /\ HasEntry(e) /\ m \in entry[e].modules /\ ~InUse(e, m) /\ Spend
  /\ entry' = [entry EXCEPT ![e].modules = @ \ {m}]
  /\ UNCHANGED <<network, reached, probed, flow>>

HomeAssistantRestarts ==
  /\ Spend
  /\ probed' = [m \in Modules |-> None] /\ flow' = [r \in Replies |-> Idle]
  /\ entry' = [e \in Meters |->
                 IF HasEntry(e) THEN [entry[e] EXCEPT !.phase = "trying"] ELSE entry[e]]
  /\ UNCHANGED <<network, reached>>

Readdressed(m, a) ==
  /\ at[m] # a /\ (a # Off => \A n \in Modules : at[n] # a) /\ Spend
  /\ at' = [at EXCEPT ![m] = a]
  /\ UNCHANGED <<wired, entry, reached, probed, flow>>

\* Two modules are fitted to each other's meters.
Refitted(m, n) ==
  /\ m # n /\ Spend
  /\ wired' = [wired EXCEPT ![m] = wired[n], ![n] = wired[m]]
  /\ UNCHANGED <<at, entry, reached, probed, flow>>

Next ==
  \/ \E m \in Modules, a \in Addresses : Hears(m, a)
  \/ \E r \in Replies :
       \/ Dispatch(r) \/ ProbeAnswers(r) \/ ProbeFails(r)
       \/ Follow(r) \/ CheckFails(r) \/ Confirm(r) \/ Dismiss(r)
  \/ \E e \in Meters, a \in Addresses : AddByHand(e, a) \/ Reconfigure(e, a)
  \/ \E e \in Meters : Setup(e) \/ Delete(e) \/ \E m \in Modules : RemoveDevice(e, m)
  \/ HomeAssistantRestarts
  \/ \E m, n \in Modules : Refitted(m, n)
  \/ \E m \in Modules, a \in Addresses \cup {Off} : Readdressed(m, a)

Spec == Init /\ [][Next]_vars

\* The search goes on every 15 minutes and hears each module in the end; flows
\* and setups go on; a setup that found nobody is retried.
FairSpec ==
  /\ Spec
  /\ \A m \in Modules, a \in Addresses :
       /\ SF_vars(Hears(m, a))
       /\ WF_vars(Dispatch(<<m, a>>))
       /\ WF_vars(ProbeAnswers(<<m, a>>) \/ ProbeFails(<<m, a>>))
       /\ WF_vars(Follow(<<m, a>>) \/ CheckFails(<<m, a>>))
  /\ \A e \in Meters : WF_vars(Setup(e))

-----------------------------------------------------------------------------
(* What the search promises.                                               *)

\* A meter is offered once, and not when it has an entry or is ignored, however
\* many replies, setups and users were at it in the meantime.
OfferedOnce ==
  \A r \in Offers :
    /\ entry[flow[r].meter].phase = "none"
    /\ \A s \in Offers : flow[s].meter = flow[r].meter => s = r

\* The entry of the meter that module m is fitted to.
Own(m) == entry[wired[m]]

\* Module m is reached, and what Home Assistant learned of modules and meters is
\* true: no module was fitted to another meter after it was last asked.  A device
\* that outlived the entry's change to another module is not excused.
Steady(m) ==
  /\ at[m] # Off
  /\ \A n \in Modules : probed[n] \in {None, Remembered(wired[n])}
  /\ \A d \in Meters : reached[d] \in entry[d].modules => wired[reached[d]] = d

\* A reply of the module opens no flow of its own: an entry that never reached a
\* module is at its address and takes the reply for its own module's (_entry_of),
\* or an offer of another meter waits for the user that the same reply once opened.
Hidden(m) ==
  \/ \E d \in Meters \ {wired[m]} :
       HasEntry(d) /\ entry[d].modules = {} /\ entry[d].host = at[m]
  \/ \E r \in Offers : r = <<m, at[m]>> /\ flow[r].meter # wired[m]

Points(m) == Own(m).phase \in {"loaded", "wrong"} /\ Own(m).host = at[m]

\* Wherever a module went - to the old address of another one too - the entry of
\* its meter ends up pointing there, unless the module is hidden.  It is loaded
\* too, if no other meter answered there before.
EntriesFollow ==
  \A m \in Modules :
    <>[](HasEntry(wired[m]) /\ Steady(m) /\ ~Hidden(m)) => <>[]Points(m)

\* A WAGO 879 without an entry is offered in the end, again after each time it was
\* turned down, if nobody ignores it and its module is not hidden.
AllOffered ==
  \A m \in Modules :
    <>[](wired[m] \notin Unsupported /\ Own(m).phase = "none" /\ Steady(m) /\ ~Hidden(m))
      => <>[](\E r \in Offers : flow[r].meter = wired[m])
=============================================================================
