------------------------- MODULE ModuleSearchProofs -------------------------
(* That a meter is offered once, for any number of modules, meters,        *)
(* addresses and flows.                                                    *)
EXTENDS ModuleSearch, TLAPS

\* A flow that names a meter is the only one that does (async_set_unique_id).
NamedOnce ==
  \A r, s \in Replies :
    flow[r].meter # None /\ flow[s].meter = flow[r].meter => s = r

\* The inductive invariant.  That offers alone are unique does not carry on: a check
\* that names a meter keeps another flow from offering it, and so must be unique, too.
IInv ==
  /\ TypeOK
  /\ NamedOnce
  /\ \A r \in Offers : entry[flow[r].meter].phase = "none"

\* What a flow names, by the step it is in.
LEMMA FlowFields ==
  ASSUME NEW f \in Flows
  PROVE  /\ f.step \in {"idle", "heard", "probing", "checking", "offered"}
         /\ f.meter \in Meters \cup {None}
         /\ f.step = "offered" => f.meter \in Meters
         /\ f.step = "checking" => f.of \in Meters /\ f.seen \in Addresses
         /\ f.step \notin {"checking", "offered"} => f.meter = None
BY DEF Flows, Idle

\* An entry in use has a host, and whatever has none was never set up.
LEMMA EntryFields ==
  ASSUME NEW o \in Entries
  PROVE  /\ o.modules \in {{m} : m \in Modules} \cup {{}}
         /\ o.phase \notin {"none", "ignored"} =>
              o \in [phase : {"trying", "loaded", "wrong"}, host : Addresses,
                     modules : {{m} : m \in Modules} \cup {{}}]
BY DEF Entries, NoEntry

\* What an entry becomes when it moves or is set up again.
LEMMA EntryUpdated ==
  ASSUME NEW o \in Entries, o.phase \notin {"none", "ignored"},
         NEW a \in Addresses, NEW p \in {"trying", "loaded", "wrong"},
         NEW S \in {{m} : m \in Modules} \cup {{}}
  PROVE  /\ [o EXCEPT !.host = a, !.phase = p] \in Entries
         /\ [o EXCEPT !.phase = p] \in Entries
         /\ [o EXCEPT !.phase = p, !.modules = S] \in Entries
         /\ [o EXCEPT !.modules = S] \in Entries
<1> DEFINE E == [phase : {"trying", "loaded", "wrong"}, host : Addresses,
                 modules : {{m} : m \in Modules} \cup {{}}]
<1>1. o \in E
  BY EntryFields
<1>2. E \subseteq Entries
  BY DEF Entries
<1> QED
  BY <1>1, <1>2

\* One flow takes its next step and the entries stay as they are: what it names must
\* not be named elsewhere, and what it offers must have no entry.
LEMMA FlowStep ==
  ASSUME IInv, NEW r \in Replies, NEW f \in Flows,
         flow' = [flow EXCEPT ![r] = f],
         UNCHANGED <<network, entry, reached>>,
         probed' \in [Modules -> Meters \cup {None, "unsupported"}], events' \in Nat,
         f.meter # None => \A s \in Replies \ {r} : flow[s].meter # f.meter,
         f.step = "offered" => entry[f.meter].phase = "none"
  PROVE  IInv'
<1>1. TypeOK'
  BY DEF IInv, TypeOK, network
<1>2. \A s \in Replies : flow'[s] = IF s = r THEN f ELSE flow[s]
  BY DEF IInv, TypeOK
<1>3. NamedOnce'
  BY <1>2 DEF IInv, NamedOnce
<1>4. \A s \in Offers' : entry'[flow'[s].meter].phase = "none"
  BY <1>2 DEF IInv, Offers
<1> QED
  BY <1>1, <1>3, <1>4 DEF IInv

\* Entries change and flows may end: what is still offered has no entry.
LEMMA EntriesStep ==
  ASSUME IInv, entry' \in [Meters -> Entries],
         flow' \in [Replies -> Flows],
         \A r \in Replies : flow'[r] = flow[r] \/ flow'[r] = Idle,
         \A r \in Offers', e \in Meters :
           flow'[r].meter = e => entry'[e].phase \in {entry[e].phase, "none"},
         reached' \in [Meters -> Modules \cup {None}],
         UNCHANGED <<network, probed>>, events' \in Nat
  PROVE  IInv'
<1>1. TypeOK'
  BY DEF IInv, TypeOK, network
<1>2. Idle.meter = None /\ Idle.step = "idle"
  BY DEF Idle
<1>3. NamedOnce'
  BY <1>2 DEF IInv, NamedOnce
<1>4. ASSUME NEW r \in Offers' PROVE entry'[flow'[r].meter].phase = "none"
  <2>1. r \in Offers /\ flow'[r] = flow[r]
    BY <1>2, <1>4 DEF Offers
  <2>2. flow[r].meter \in Meters /\ entry[flow[r].meter].phase = "none"
    BY <2>1, FlowFields DEF Offers, IInv, TypeOK
  <2> QED
    BY <1>4, <2>1, <2>2
<1> QED
  BY <1>1, <1>3, <1>4 DEF IInv

\* One of the entries changes.
LEMMA EntryStep ==
  ASSUME IInv, NEW e \in Meters, NEW o \in Entries,
         entry' = [entry EXCEPT ![e] = o],
         flow' \in [Replies -> Flows],
         \A r \in Replies : flow'[r] = flow[r] \/ flow'[r] = Idle,
         reached' \in [Meters -> Modules \cup {None}],
         UNCHANGED <<network, probed>>, events' \in Nat,
         o.phase = "none" \/ \A r \in Offers' : flow'[r].meter # e
  PROVE  IInv'
<1>1. entry \in [Meters -> Entries]
  BY DEF IInv, TypeOK
<1>2. entry' \in [Meters -> Entries] /\ entry'[e] = o
      /\ \A d \in Meters \ {e} : entry'[d] = entry[d]
  BY <1>1
<1>3. \A r \in Offers', d \in Meters :
        flow'[r].meter = d => entry'[d].phase \in {entry[d].phase, "none"}
  BY <1>2
<1> QED
  BY <1>2, <1>3, EntriesStep

\* A meter that is offered has no entry: an entry in use may change as it likes.
LEMMA InUseNotOffered ==
  ASSUME IInv, NEW e \in Meters, HasEntry(e)
  PROVE  \A r \in Offers : flow[r].meter # e
BY DEF IInv, HasEntry

\* The flow that idles again may do so at any time.
LEMMA IdleAgain ==
  Idle \in Flows /\ Idle.meter = None /\ Idle.step = "idle"
BY DEF Idle, Flows

\* Before anything is heard no flow names a meter.
LEMMA InitIInv == Init => IInv
<1> SUFFICES ASSUME Init PROVE IInv
  OBVIOUS
<1>1. TypeOK
  BY ModuleSearchAssumption, IdleAgain DEF Init, TypeOK, Entries
<1>2. \A r \in Replies : flow[r] = Idle
  BY DEF Init
<1> QED
  BY <1>1, <1>2, IdleAgain DEF IInv, NamedOnce, Offers

-----------------------------------------------------------------------------

\* The start of _async_follow: done, or a check that names what it is told to.
LEMMA FollowedFlow ==
  ASSUME TypeOK, NEW e \in Meters, HasEntry(e), NEW g \in Meters \cup {None},
         NEW a \in Addresses
  PROVE  /\ Followed(e, g, a) \in Flows
         /\ Followed(e, g, a).meter \in {None, g}
         /\ Followed(e, g, a).step # "offered"
<1>1. entry[e].host \in Addresses
  BY EntryFields DEF TypeOK, HasEntry
<1> DEFINE f == [step |-> "checking", meter |-> g, of |-> e, seen |-> entry[e].host]
<1>2. f \in Flows /\ f.meter = g /\ f.step = "checking"
  BY <1>1 DEF Flows
<1> QED
  BY <1>2, IdleAgain DEF Followed

\* A meter is named by a flow only when no other flow names it.
LEMMA NamedFlow ==
  ASSUME TypeOK, NEW r \in Replies, NEW e \in Meters
  PROVE  /\ Named(r, e) \in Flows
         /\ Named(r, e).meter # None =>
              \A s \in Replies \ {r} : flow[s].meter # Named(r, e).meter
         /\ Named(r, e).step = "offered" => entry[Named(r, e).meter].phase = "none"
<1>1. r[2] \in Addresses
  BY DEF Replies
<1>2. CASE \E s \in Replies \ {r} : flow[s].meter = e
  BY <1>2, IdleAgain DEF Named
<1>3. CASE ~(\E s \in Replies \ {r} : flow[s].meter = e) /\ HasEntry(e)
  <2>1. Named(r, e) = Followed(e, e, r[2])
    BY <1>3 DEF Named
  <2> QED
    BY <1>1, <1>3, <2>1, FollowedFlow
<1>4. CASE ~(\E s \in Replies \ {r} : flow[s].meter = e) /\ entry[e].phase = "ignored"
  BY <1>4, IdleAgain DEF Named, HasEntry
<1>5. CASE ~(\E s \in Replies \ {r} : flow[s].meter = e) /\ entry[e].phase = "none"
  <2> DEFINE f == [step |-> "offered", meter |-> e, of |-> None, seen |-> None]
  <2>1. f \in Flows /\ f.meter = e
    BY DEF Flows
  <2>2. Named(r, e) = f
    BY <1>5 DEF Named, HasEntry, Idle
  <2> QED
    BY <1>5, <2>1, <2>2
<1> QED
  BY <1>2, <1>3, <1>4, <1>5 DEF HasEntry

\* Hearing, dispatching and probing change one flow.
LEMMA ReplyStep ==
  ASSUME IInv, NEW r \in Replies,
         Dispatch(r) \/ ProbeAnswers(r) \/ ProbeFails(r) \/ CheckFails(r)
  PROVE  IInv'
<1>0. TypeOK
  BY DEF IInv
<1>1. /\ probed \in [Modules -> Meters \cup {None, "unsupported"}] /\ events \in Nat
      /\ r[1] \in Modules /\ r[2] \in Addresses
  BY <1>0 DEF TypeOK, Replies
<1>2. CASE Dispatch(r)
  <2>0. UNCHANGED <<network, entry, reached, probed, events>>
    BY <1>2 DEF Dispatch
  <2>1. CASE EntriesOf(r[1], r[2]) # {}
    <3>1. PICK e \in EntriesOf(r[1], r[2]) :
            flow' = [flow EXCEPT ![r] = Followed(e, None, r[2])]
      BY <1>2, <2>1 DEF Dispatch
    <3>2. e \in Meters /\ HasEntry(e)
      BY <3>1 DEF EntriesOf
    <3> QED
      BY <1>0, <1>1, <2>0, <3>1, <3>2, FollowedFlow, FlowStep
  <2>2. CASE EntriesOf(r[1], r[2]) = {} /\ probed[r[1]] \notin {None, "unsupported"}
    <3>1. flow' = [flow EXCEPT ![r] = Named(r, probed[r[1]])]
      BY <1>2, <2>2 DEF Dispatch
    <3>2. probed[r[1]] \in Meters
      BY <1>1, <2>2
    <3> QED
      BY <1>0, <1>1, <2>0, <3>1, <3>2, NamedFlow, FlowStep
  <2>3. CASE EntriesOf(r[1], r[2]) = {} /\ probed[r[1]] = None
    <3> DEFINE f == [flow[r] EXCEPT !.step = "probing"]
    <3>1. flow' = [flow EXCEPT ![r] = f]
      BY <1>2, <2>3, ModuleSearchAssumption DEF Dispatch
    <3>2. flow[r] = [Idle EXCEPT !.step = "heard"]
      BY <1>0, <1>2 DEF Dispatch, TypeOK, Flows, Idle
    <3>3. f = [Idle EXCEPT !.step = "probing"]
      BY <3>2 DEF Idle
    <3>4. f \in Flows /\ f.meter = None /\ f.step = "probing"
      BY <3>3 DEF Flows, Idle
    <3> HIDE DEF f
    <3> QED
      BY <1>1, <2>0, <3>1, <3>4, FlowStep
  <2>4. CASE EntriesOf(r[1], r[2]) = {} /\ probed[r[1]] = "unsupported"
    <3>1. flow' = [flow EXCEPT ![r] = Idle]
      BY <1>2, <2>4 DEF Dispatch
    <3> QED
      BY <1>1, <2>0, <3>1, IdleAgain, FlowStep
  <2> QED
    BY <2>1, <2>2, <2>3, <2>4
<1>3. CASE ProbeAnswers(r)
  <2>1. PICK e \in MetersAt(r[2]) :
          /\ probed' = [probed EXCEPT ![r[1]] = Remembered(e)]
          /\ flow' = [flow EXCEPT ![r] = IF e \in Unsupported THEN Idle ELSE Named(r, e)]
    BY <1>3 DEF ProbeAnswers
  <2>2. e \in Meters
    BY <1>0, <2>1 DEF MetersAt, TypeOK
  <2>3. probed' \in [Modules -> Meters \cup {None, "unsupported"}]
    BY <1>1, <2>1, <2>2 DEF Remembered
  <2>4. UNCHANGED <<network, entry, reached, events>>
    BY <1>3 DEF ProbeAnswers
  <2>5. CASE e \in Unsupported
    BY <1>1, <2>1, <2>3, <2>4, <2>5, IdleAgain, FlowStep
  <2>6. CASE e \notin Unsupported
    BY <1>0, <1>1, <2>1, <2>2, <2>3, <2>4, <2>6, NamedFlow, FlowStep
  <2> QED
    BY <2>5, <2>6
<1>4. CASE ProbeFails(r) \/ CheckFails(r)
  <2>1. /\ flow' = [flow EXCEPT ![r] = Idle]
        /\ UNCHANGED <<network, entry, reached, probed>> /\ events' \in Nat
    BY <1>1, <1>4 DEF ProbeFails, CheckFails, Spend
  <2> QED
    BY <1>1, <2>1, IdleAgain, FlowStep
<1> QED
  BY <1>2, <1>3, <1>4

LEMMA HearsStep ==
  ASSUME IInv, NEW m \in Modules, NEW a \in Addresses, Hears(m, a)
  PROVE  IInv'
<1> DEFINE f == [Idle EXCEPT !.step = "heard"]
<1>1. /\ f \in Flows /\ f.meter = None /\ f.step = "heard"
  BY DEF Flows, Idle
<1>2. <<m, a>> \in Replies
  BY DEF Replies
<1>3. flow' = [flow EXCEPT ![<<m, a>>] = f]
  BY <1>2 DEF Hears
<1>4. /\ UNCHANGED <<network, entry, reached>> /\ events' \in Nat
      /\ probed' \in [Modules -> Meters \cup {None, "unsupported"}]
  BY DEF Hears, IInv, TypeOK
<1> HIDE DEF f
<1> QED
  BY <1>1, <1>2, <1>3, <1>4, FlowStep

\* An entry is created, and core ends the flows that name its meter.
LEMMA CreateStep ==
  ASSUME IInv, NEW e \in Meters, NEW a \in Addresses, Create(e, a),
         UNCHANGED <<network, reached, probed>>, events' \in Nat
  PROVE  IInv'
<1> DEFINE o == [phase |-> "trying", host |-> a, modules |-> {}]
<1>1. o \in Entries
  BY DEF Entries
<1>2. entry' = [entry EXCEPT ![e] = o]
  BY DEF Create
<1>3. \A r \in Replies : flow'[r] = IF flow[r].meter = e THEN Idle ELSE flow[r]
  BY DEF Create
<1>4. flow' \in [Replies -> Flows]
  BY IdleAgain DEF Create, IInv, TypeOK
<1>5. \A r \in Offers' : flow'[r].meter # e
  BY <1>3, IdleAgain DEF Offers
<1>6. reached' \in [Meters -> Modules \cup {None}]
  BY DEF IInv, TypeOK
<1> HIDE DEF o
<1> QED
  BY <1>1, <1>2, <1>3, <1>4, <1>5, <1>6, EntryStep

\* What a user does with an offer.
LEMMA OfferStep ==
  ASSUME IInv, NEW r \in Replies, Confirm(r) \/ Dismiss(r)
  PROVE  IInv'
<1>0. TypeOK
  BY DEF IInv
<1>1. /\ r \in Offers /\ flow[r].meter \in Meters /\ r[2] \in Addresses
      /\ events \in Nat
  BY <1>0, FlowFields DEF Confirm, Dismiss, Offers, TypeOK, Replies
<1>2. CASE Confirm(r)
  BY <1>1, <1>2, CreateStep DEF Confirm
<1>3. CASE Dismiss(r)
  <2> DEFINE e == flow[r].meter
             o == [entry[e] EXCEPT !.phase = "ignored"]
  <2>1. /\ flow' = [flow EXCEPT ![r] = Idle]
        /\ UNCHANGED <<network, reached, probed>> /\ events' \in Nat
        /\ reached' \in [Meters -> Modules \cup {None}]
    BY <1>0, <1>1, <1>3 DEF Dismiss, Spend, TypeOK
  <2>2. \/ entry' = entry
        \/ entry' = [entry EXCEPT ![e] = o]
    BY <1>3 DEF Dismiss
  <2>3. CASE entry' = entry
    BY <1>0, <2>1, <2>3, IdleAgain, FlowStep DEF TypeOK
  <2>4. CASE entry' = [entry EXCEPT ![e] = o]
    <3>1. entry[e].phase = "none" /\ entry[e] \in Entries
      BY <1>0, <1>1 DEF IInv, TypeOK
    <3>2. entry[e] = NoEntry
      BY <3>1 DEF Entries, NoEntry
    <3>3. o \in Entries
      BY <3>2 DEF Entries
    <3>4. flow' \in [Replies -> Flows] /\ flow'[r] = Idle
          /\ \A s \in Replies \ {r} : flow'[s] = flow[s]
      BY <1>0, <2>1, IdleAgain DEF TypeOK
    <3>5. \A s \in Replies \ {r} : flow[s].meter # e
      BY <1>1, FlowFields, ModuleSearchAssumption DEF IInv, NamedOnce
    <3>6. \A s \in Offers' : flow'[s].meter # e
      BY <3>4, <3>5, IdleAgain DEF Offers
    <3> HIDE DEF o, e
    <3>7. e \in Meters
      BY <1>1 DEF e
    <3> QED
      BY <2>1, <2>4, <3>3, <3>4, <3>6, <3>7, EntryStep
  <2> QED
    BY <2>2, <2>3, <2>4
<1> QED
  BY <1>2, <1>3

\* The end of a check: the entry in use moves, or stays as it is.
LEMMA FollowStep ==
  ASSUME IInv, NEW r \in Replies, Follow(r)
  PROVE  IInv'
<1>0. TypeOK
  BY DEF IInv
<1> DEFINE e == flow[r].of
           o == [entry[e] EXCEPT !.host = r[2], !.phase = "trying"]
<1>1. /\ flow' = [flow EXCEPT ![r] = Idle]
      /\ UNCHANGED <<network, reached, probed, events>>
      /\ reached' \in [Meters -> Modules \cup {None}]
  BY <1>0 DEF Follow, TypeOK
<1>2. /\ e \in Meters /\ r[2] \in Addresses
  BY <1>0, FlowFields DEF Follow, TypeOK, Replies
<1>3. \/ entry' = entry
      \/ HasEntry(e) /\ entry' = [entry EXCEPT ![e] = o]
  BY <1>0, <1>2 DEF Follow, TypeOK
<1>4. CASE entry' = entry
  BY <1>0, <1>1, <1>4, IdleAgain, FlowStep DEF TypeOK
<1>5. CASE HasEntry(e) /\ entry' = [entry EXCEPT ![e] = o]
  <2>1. o \in Entries
    BY <1>0, <1>2, <1>5, EntryUpdated, EntryFields DEF HasEntry, TypeOK
  <2>2. /\ flow' \in [Replies -> Flows] /\ flow'[r] = Idle
        /\ \A s \in Replies \ {r} : flow'[s] = flow[s]
    BY <1>0, <1>1, IdleAgain DEF TypeOK
  <2>3. \A s \in Offers' : flow'[s].meter # e
    BY <1>2, <1>5, <2>2, IdleAgain, InUseNotOffered DEF Offers
  <2>4. events' \in Nat
    BY <1>0, <1>1 DEF TypeOK
  <2> HIDE DEF o, e
  <2> QED
    BY <1>1, <1>2, <1>5, <2>1, <2>2, <2>3, <2>4, EntryStep
<1> QED
  BY <1>3, <1>4, <1>5

\* What happens to one entry by hand or at its setup, with all flows as they are.
LEMMA EntryAloneStep ==
  ASSUME IInv, NEW e \in Meters,
         \/ Delete(e) \/ Setup(e)
         \/ \E a \in Addresses : Reconfigure(e, a)
         \/ \E m \in Modules : RemoveDevice(e, m)
  PROVE  IInv'
<1>0. TypeOK
  BY DEF IInv
<1>1. HasEntry(e)
  BY DEF Delete, Setup, Reconfigure, RemoveDevice, HasEntry
<1>2. entry[e] \in Entries /\ entry[e].phase \notin {"none", "ignored"}
  BY <1>0, <1>1 DEF TypeOK, HasEntry
<1>3. /\ UNCHANGED <<network, probed, flow>> /\ events' \in Nat
      /\ reached' \in [Meters -> Modules \cup {None}]
  <2>1. UNCHANGED <<network, probed, flow>>
    BY DEF Delete, Setup, Reconfigure, RemoveDevice
  <2>2. UNCHANGED events \/ Spend
    BY DEF Delete, Setup, Reaches, Reconfigure, RemoveDevice
  <2>3. UNCHANGED reached \/ \E m \in Modules \cup {None} : reached' = [reached EXCEPT ![e] = m]
    BY DEF Delete, Setup, Reaches, Reconfigure, RemoveDevice
  <2> QED
    BY <1>0, <2>1, <2>2, <2>3 DEF Spend, TypeOK
<1>4. flow' \in [Replies -> Flows] /\ (\A r \in Replies : flow'[r] = flow[r])
      /\ \A r \in Offers' : flow'[r].meter # e
  BY <1>0, <1>1, <1>3, InUseNotOffered DEF Offers, TypeOK
<1>5. ASSUME NEW m \in Modules, Reaches(e, m)
      PROVE  IInv'
  <2> DEFINE k == [entry[e] EXCEPT !.phase = "loaded", !.modules = (@ \ Outlived(e, m)) \cup {m}]
             u(d) == [entry[d] EXCEPT !.modules = @ \ Outlived(e, m)]
  <2>1. entry' = [d \in Meters |-> IF d = e THEN k ELSE u(d)]
    BY <1>5 DEF Reaches
  <2>2. (entry[e].modules \ Outlived(e, m)) \cup {m} = {m}
    BY DEF Outlived
  <2>3. k \in Entries
    <3>1. PICK a \in Addresses : TRUE
      BY <1>2, EntryFields
    <3> QED
      BY <1>2, <2>2, <3>1, EntryUpdated
  <2>4. ASSUME NEW d \in Meters PROVE u(d) \in Entries /\ u(d).phase = entry[d].phase
    <3>1. entry[d] \in Entries
      BY <1>0 DEF TypeOK
    <3>2. CASE entry[d].phase \in {"none", "ignored"}
      <4>1. entry[d].modules = {} /\ entry[d] \in {NoEntry, [NoEntry EXCEPT !.phase = "ignored"]}
        BY <3>1, <3>2 DEF Entries, NoEntry
      <4>2. u(d) = entry[d]
        BY <4>1 DEF NoEntry
      <4> QED
        BY <3>1, <4>2
    <3>3. CASE entry[d].phase \notin {"none", "ignored"}
      <4>1. PICK a \in Addresses : TRUE
        BY <3>1, <3>3, EntryFields
      <4>2. entry[d].modules \ Outlived(e, m) \in {{n} : n \in Modules} \cup {{}}
        BY <3>1, EntryFields
      <4>3. u(d) \in Entries
        BY <3>1, <3>3, <4>1, <4>2, EntryUpdated
      <4> QED
        BY <3>1, <3>3, <4>3, EntryFields
    <3> QED
      BY <3>2, <3>3
  <2> HIDE DEF k, u
  <2>5. entry' \in [Meters -> Entries]
    BY <2>1, <2>3, <2>4
  <2>6. \A r \in Offers', d \in Meters :
          flow'[r].meter = d => entry'[d].phase \in {entry[d].phase, "none"}
    BY <1>4, <2>1, <2>4
  <2> QED
    BY <1>3, <1>4, <2>5, <2>6, EntriesStep
<1>6. CASE \E m \in Modules : Reaches(e, m)
  BY <1>5, <1>6
<1>7. CASE ~ \E m \in Modules : Reaches(e, m)
  <2>1. SUFFICES \E o \in Entries : entry' = [entry EXCEPT ![e] = o]
    BY <1>3, <1>4, EntryStep
  <2>2. CASE Delete(e)
    BY <2>2 DEF Delete, Entries
  <2>3. ASSUME NEW a \in Addresses, Reconfigure(e, a)
        PROVE  \E o \in Entries : entry' = [entry EXCEPT ![e] = o]
    <3> DEFINE o == [entry[e] EXCEPT !.host = a, !.phase = "trying"]
    <3>1. o \in Entries
      BY <1>2, EntryUpdated, EntryFields
    <3>2. entry' = [entry EXCEPT ![e] = o]
      BY <1>0, <2>3 DEF Reconfigure, TypeOK
    <3> QED
      BY <3>1, <3>2
  <2>4. CASE Setup(e)
    <3> DEFINE w == [entry[e] EXCEPT !.phase = "wrong"]
               l == [entry[e] EXCEPT !.phase = "loaded"]
    <3>1. w \in Entries /\ l \in Entries
      <4>1. PICK a \in Addresses : TRUE
        BY <1>2, EntryFields
      <4> QED
        BY <1>2, <4>1, EntryUpdated
    <3>2. entry' = [entry EXCEPT ![e] = w] \/ entry' = [entry EXCEPT ![e] = l]
      BY <1>0, <1>7, <2>4 DEF Setup, TypeOK
    <3> QED
      BY <3>1, <3>2
  <2>5. ASSUME NEW m \in Modules, RemoveDevice(e, m)
        PROVE  \E o \in Entries : entry' = [entry EXCEPT ![e] = o]
    <3> DEFINE o == [entry[e] EXCEPT !.modules = @ \ {m}]
    <3>1. entry[e].modules \ {m} \in {{n} : n \in Modules} \cup {{}}
      BY <1>2, EntryFields
    <3>2. o \in Entries
      <4>1. PICK a \in Addresses : TRUE
        BY <1>2, EntryFields
      <4> QED
        BY <1>2, <3>1, <4>1, EntryUpdated
    <3>3. entry' = [entry EXCEPT ![e] = o]
      BY <1>0, <2>5 DEF RemoveDevice, TypeOK
    <3> QED
      BY <3>2, <3>3
  <2> QED
    BY <2>2, <2>3, <2>4, <2>5
<1> QED
  BY <1>6, <1>7

\* A restart ends all flows and sets every entry up again.
LEMMA RestartStep ==
  ASSUME IInv, HomeAssistantRestarts
  PROVE  IInv'
<1>0. TypeOK
  BY DEF IInv
<1>1. \A e \in Meters :
        (IF HasEntry(e) THEN [entry[e] EXCEPT !.phase = "trying"] ELSE entry[e]) \in Entries
  <2> SUFFICES ASSUME NEW e \in Meters, HasEntry(e)
               PROVE  [entry[e] EXCEPT !.phase = "trying"] \in Entries
    BY <1>0 DEF TypeOK
  <2>1. entry[e] \in Entries /\ entry[e].phase \notin {"none", "ignored"}
    BY <1>0 DEF TypeOK, HasEntry
  <2>2. PICK a \in Addresses : TRUE
    BY <2>1, EntryFields
  <2> QED
    BY <2>1, <2>2, EntryUpdated
<1>2. entry' \in [Meters -> Entries]
  BY <1>1 DEF HomeAssistantRestarts
<1>3. TypeOK'
  BY <1>0, <1>2, IdleAgain DEF HomeAssistantRestarts, TypeOK, network, Spend
<1>4. \A r \in Replies : flow'[r] = Idle
  BY DEF HomeAssistantRestarts
<1> QED
  BY <1>3, <1>4, IdleAgain DEF IInv, NamedOnce, Offers

\* Modules that move or are fitted elsewhere touch no flow and no entry.
LEMMA NetworkStep ==
  ASSUME IInv,
         \/ \E m \in Modules, a \in Addresses \cup {Off} : Readdressed(m, a)
         \/ \E m, n \in Modules : Refitted(m, n)
  PROVE  IInv'
<1>1. UNCHANGED <<entry, reached, probed, flow>>
  BY DEF Readdressed, Refitted
<1>2. TypeOK'
  BY <1>1 DEF IInv, TypeOK, Readdressed, Refitted, Spend
<1> QED
  BY <1>1, <1>2 DEF IInv, NamedOnce, Offers

LEMMA NextIInv == IInv /\ [Next]_vars => IInv'
<1> SUFFICES ASSUME IInv, [Next]_vars PROVE IInv'
  OBVIOUS
<1>1. ASSUME NEW m \in Modules, NEW a \in Addresses, Hears(m, a) PROVE IInv'
  BY <1>1, HearsStep
<1>2. ASSUME NEW r \in Replies,
             Dispatch(r) \/ ProbeAnswers(r) \/ ProbeFails(r) \/ CheckFails(r)
      PROVE  IInv'
  BY <1>2, ReplyStep
<1>3. ASSUME NEW r \in Replies, Follow(r) PROVE IInv'
  BY <1>3, FollowStep
<1>4. ASSUME NEW r \in Replies, Confirm(r) \/ Dismiss(r) PROVE IInv'
  BY <1>4, OfferStep
<1>5. ASSUME NEW e \in Meters, NEW a \in Addresses, AddByHand(e, a) PROVE IInv'
  <2>1. Create(e, a) /\ UNCHANGED <<network, reached, probed>> /\ events' \in Nat
    BY <1>5 DEF AddByHand, Spend, IInv, TypeOK
  <2> QED
    BY <2>1, CreateStep
<1>6. ASSUME NEW e \in Meters,
             \/ Delete(e) \/ Setup(e)
             \/ \E a \in Addresses : Reconfigure(e, a)
             \/ \E m \in Modules : RemoveDevice(e, m)
      PROVE  IInv'
  BY <1>6, EntryAloneStep
<1>7. CASE HomeAssistantRestarts
  BY <1>7, RestartStep
<1>8. CASE \/ \E m \in Modules, a \in Addresses \cup {Off} : Readdressed(m, a)
           \/ \E m, n \in Modules : Refitted(m, n)
  BY <1>8, NetworkStep
<1>9. CASE UNCHANGED vars
  BY <1>9 DEF vars, network, IInv, TypeOK, NamedOnce, Offers
<1> QED
  BY <1>1, <1>2, <1>3, <1>4, <1>5, <1>6, <1>7, <1>8, <1>9 DEF Next

-----------------------------------------------------------------------------

\* The invariant holds in every state of the search.
THEOREM SpecIInv == Spec => []IInv
<1> QED
  BY InitIInv, NextIInv, PTL DEF Spec

\* Every state of modules, entries and flows is well typed.
THEOREM TypeCorrect == Spec => []TypeOK
<1>1. IInv => TypeOK
  BY DEF IInv
<1> QED
  BY <1>1, SpecIInv, PTL

\* Whatever replies, probes, setups and users do in whatever order, a meter is
\* offered once, and not when it has an entry or is ignored.
THEOREM OffersAreUnique == Spec => []OfferedOnce
<1>1. ASSUME IInv PROVE OfferedOnce
  <2>1. \A r \in Offers : flow[r].meter \in Meters
    BY <1>1, FlowFields DEF IInv, TypeOK, Offers
  <2> QED
    BY <1>1, <2>1, ModuleSearchAssumption DEF IInv, NamedOnce, OfferedOnce, Offers
<1> QED
  BY <1>1, SpecIInv, PTL
=============================================================================
