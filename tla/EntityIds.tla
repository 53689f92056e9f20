------------------------------ MODULE EntityIds ------------------------------
(***************************************************************************)
(* Entity ids, by which Home Assistant keeps the history of a sensor: the  *)
(* ids of a YAML modbus block that a setup adopts (migration.py), the ids  *)
(* an earlier version built from the address that it renames               *)
(* (entity_id_rename.py), and those the sensor platform generates.         *)
(*                                                                         *)
(* The entity registry is Home Assistant's and external: it gives a sensor *)
(* that is created again the id it had, if that is free, and adds a number *)
(* to a wanted id that is not.  Every state belongs to a registered sensor *)
(* here, so an id no sensor has is free.  The user's settings of an        *)
(* entity, which travel with an adopted id, are left out.                  *)
(***************************************************************************)
EXTENDS Naturals, FiniteSets

CONSTANTS
  Meters,      \* meters, by serial, each with an entry of its own
  Fields,      \* the readings the YAML block had sensors for
  Hosts,       \* the hosts an entry can have
  DeviceName,  \* the device name of each meter
  YamlName,    \* what the sensors of the YAML block were named after
  None,        \* no id, no meter
  MaxEvents    \* bound: what users do and networks fail to do

Names == Hosts \cup {YamlName} \cup {DeviceName[e] : e \in Meters}
Keys == (Meters \cup {"modbus"}) \X Fields

\* The id of a sensor named after something, with a number if that was taken.
Ids == Names \X Fields \X (0 .. Cardinality(Keys))

ASSUME EntityIdsAssumption ==
  /\ IsFiniteSet(Keys) /\ "modbus" \notin Meters
  /\ None \notin Ids \cup Meters /\ MaxEvents \in Nat

VARIABLES
  registry,  \* the id each sensor has, and the id it had when it was removed
  named,     \* the sensors a platform of this version or an earlier one added
  adopted,   \* history: the sensors that still have the id they adopted
  phase,     \* the entry of each meter
  host,      \* entry.data["host"]
  adopting,  \* the adoption that is under way
  live,      \* the sensors of the YAML block that are served
  events

vars == <<registry, named, adopted, phase, host, adopting, live, events>>

Legacy(f) == <<"modbus", f>>
IdsOrNone == Ids \cup {None}
Registries == [ids : [Keys -> IdsOrNone], gone : [Keys -> IdsOrNone]]
Distinct(g) == \A j, k \in Keys : g.ids[j] = g.ids[k] => j = k \/ g.ids[j] = None
Idle == [meter |-> None, todo |-> {}, before |-> [k \in Keys |-> None]]

TypeOK ==
  /\ registry \in Registries
  /\ named \cup adopted \subseteq {k \in Keys : registry.ids[k] # None}
  /\ phase \in [Meters -> {"none", "down", "adding", "loaded"}]
  /\ host \in [Meters -> Hosts]
  /\ adopting \in [meter : Meters \cup {None}, todo : SUBSET Fields,
                   before : [Keys -> IdsOrNone]]
  /\ live \subseteq Fields /\ events \in Nat

Generated(name, f) == <<name, f, 0>>

\* With a YAML block, or with an entry of an earlier version that named its
\* sensors after the host.
Init ==
  /\ host \in [Meters -> Hosts] /\ live \in {{}, Fields}
  /\ phase \in [Meters -> {"none", "down"}]
  /\ \A d, e \in Meters : d # e => host[d] # host[e]
  /\ named = {k \in Keys : k[1] \in Meters /\ phase[k[1]] = "down"}
  /\ registry =
       [ids |-> [k \in Keys |->
                   IF k \in named THEN Generated(host[k[1]], k[2])
                   ELSE IF k[1] = "modbus" /\ live # {} THEN Generated(YamlName, k[2])
                   ELSE None],
        gone |-> [k \in Keys |-> None]]
  /\ Distinct(registry)
  /\ adopted = {} /\ adopting = Idle /\ events = MaxEvents

Spend == events > 0 /\ events' = events - 1

-----------------------------------------------------------------------------
(* The entity registry of Home Assistant.                                  *)

Free(g, i) == \A k \in Keys : g.ids[k] # i

\* async_generate_entity_id: numbered when it is taken.
Numbered(g, i) ==
  IF Free(g, i) THEN i
  ELSE CHOOSE j \in Ids : j[1] = i[1] /\ j[2] = i[2] /\ Free(g, j)

Remove(g, k) == [ids  |-> [g.ids EXCEPT ![k] = None],
                 gone |-> [g.gone EXCEPT ![k] = g.ids[k]]]

\* async_get_or_create: what a removed sensor had comes before what is suggested.
Create(g, k, i) ==
  IF g.ids[k] # None THEN g
  ELSE [ids  |-> [g.ids EXCEPT ![k] = IF g.gone[k] # None /\ Free(g, g.gone[k])
                                        THEN g.gone[k] ELSE Numbered(g, i)],
        gone |-> [g.gone EXCEPT ![k] = None]]

\* What a plausible mistake would make of the definitions below it.
NeverHeld(g, e, f) == FALSE
NeverInTheWay(g, e, f) == FALSE
RenameRefuses ==
  LET e == adopting.meter
      wanted(k) == Generated(DeviceName[e], k[2])
      old == {k \in named : k[1] = e /\ registry.ids[k] = Generated(host[e], k[2])}
  IN /\ adopting # Idle /\ adopting.todo = {}
     /\ adopting' = Idle
     /\ IF \A k \in old : Free(registry, wanted(k))
          THEN /\ registry' = [registry EXCEPT !.ids =
                                 [k \in Keys |-> IF k \in old THEN wanted(k) ELSE @[k]]]
               /\ phase' = [phase EXCEPT ![e] = "adding"]
          ELSE UNCHANGED <<registry, phase>>
     /\ UNCHANGED <<named, adopted, host, live, events>>

-----------------------------------------------------------------------------
(* Setting up: adopt, rename, then let the platform add the sensors.       *)

\* The YAML block's sensors that are still registered.
Left(g) == {f \in Fields : g.ids[Legacy(f)] # None}

\* The three reasons of _resolve to refuse an adoption.
YamlActive(f) == f \in live
Held(g, e, f) == g.ids[<<e, f>>] # None
InTheWay(g, e, f) == g.gone[<<e, f>>] \notin {None, g.ids[Legacy(f)]}

Resolved(e) ==
  \A f \in Left(registry) :
    ~(YamlActive(f) \/ Held(registry, e, f) \/ InTheWay(registry, e, f))

\* _resolve refuses before anything is changed, or lists what to adopt.
Resolve(e) ==
  /\ phase[e] = "down" /\ adopting = Idle /\ Resolved(e)
  /\ adopting' = [meter |-> e, todo |-> Left(registry), before |-> registry.ids]
  /\ UNCHANGED <<registry, named, adopted, phase, host, live, events>>

\* One turn of the loop of async_adopt_legacy_entities.  The last branch undoes
\* the turn and raises, when the id went elsewhere.
Adopt(f) ==
  LET e == adopting.meter
      i == registry.ids[Legacy(f)]
      created == Create(Remove(registry, Legacy(f)), <<e, f>>, i)
  IN /\ f \in adopting.todo
     /\ IF created.ids[<<e, f>>] = i
          THEN /\ registry' = created /\ adopted' = adopted \cup {<<e, f>>}
               /\ adopting' = [adopting EXCEPT !.todo = @ \ {f}]
          ELSE /\ registry' = Create(Remove(created, <<e, f>>), Legacy(f), i)
               /\ adopting' = Idle /\ UNCHANGED adopted
     /\ UNCHANGED <<named, phase, host, live, events>>

\* async_rename_generated_entity_ids: an id Home Assistant generated from the
\* saved host, if the sensor's name is known and the new id is free.
Renames(g, e, k) ==
  /\ k[1] = e /\ k \in named /\ g.ids[k] = Generated(host[e], k[2])
  /\ Free(g, Generated(DeviceName[e], k[2]))

Rename ==
  LET e == adopting.meter IN
  /\ adopting # Idle /\ adopting.todo = {}
  /\ registry' = [registry EXCEPT !.ids = [k \in Keys |->
       IF Renames(registry, e, k) THEN Generated(DeviceName[e], k[2]) ELSE @[k]]]
  /\ phase' = [phase EXCEPT ![e] = "adding"]
  /\ adopting' = Idle
  /\ UNCHANGED <<named, adopted, host, live, events>>

\* async_add_entities after the first polls, sensor by sensor.
AddSensor(e, f) ==
  /\ phase[e] = "adding" /\ adopting = Idle /\ <<e, f>> \notin named
  /\ registry' = Create(registry, <<e, f>>, Generated(DeviceName[e], f))
  /\ named' = named \cup {<<e, f>>}
  /\ UNCHANGED <<adopted, phase, host, adopting, live, events>>

SensorsAdded(e) ==
  /\ phase[e] = "adding" /\ adopting = Idle /\ \A f \in Fields : <<e, f>> \in named
  /\ phase' = [phase EXCEPT ![e] = "loaded"]
  /\ UNCHANGED <<registry, named, adopted, host, adopting, live, events>>

-----------------------------------------------------------------------------
(* What users do, the YAML block does, and networks fail to do.            *)

\* A removed sensor comes back as a new one, without a name at first.
Forget(ks) == named' = named \ ks /\ adopted' = adopted \ ks

\* A poll fails, a reload, a restart of Home Assistant.
Down(e) ==
  /\ phase[e] \in {"adding", "loaded"} /\ Spend
  /\ phase' = [phase EXCEPT ![e] = "down"]
  /\ UNCHANGED <<registry, named, adopted, host, adopting, live>>

Unused(h) == \A e \in Meters : phase[e] # "none" => host[e] # h

AddEntry(e, h) ==
  /\ phase[e] = "none" /\ Unused(h) /\ Spend
  /\ phase' = [phase EXCEPT ![e] = "down"] /\ host' = [host EXCEPT ![e] = h]
  /\ UNCHANGED <<registry, named, adopted, adopting, live>>

\* async_move_entry, and the reload that follows.
Move(e, h) ==
  /\ phase[e] # "none" /\ Unused(h) /\ Spend
  /\ phase' = [phase EXCEPT ![e] = "down"] /\ host' = [host EXCEPT ![e] = h]
  /\ UNCHANGED <<registry, named, adopted, adopting, live>>

DeleteEntry(e) ==
  /\ phase[e] \in {"down", "loaded"} /\ Spend
  /\ phase' = [phase EXCEPT ![e] = "none"]
  /\ LET its == {k \in Keys : k[1] = e /\ registry.ids[k] # None} IN
       /\ registry' = [ids  |-> [k \in Keys |-> IF k \in its THEN None ELSE registry.ids[k]],
                       gone |-> [k \in Keys |-> IF k \in its THEN registry.ids[k]
                                                ELSE registry.gone[k]]]
       /\ Forget(its)
  /\ UNCHANGED <<host, adopting, live>>

Served(k) == IF k[1] = "modbus" THEN k[2] \in live ELSE phase[k[1]] \in {"adding", "loaded"}

UserRemoves(k) ==
  /\ registry.ids[k] # None /\ ~Served(k) /\ Spend
  /\ registry' = Remove(registry, k) /\ Forget({k})
  /\ UNCHANGED <<phase, host, adopting, live>>

UserRenames(k, name) ==
  /\ registry.ids[k] # None /\ Free(registry, Generated(name, k[2])) /\ Spend
  /\ registry' = [registry EXCEPT !.ids[k] = Generated(name, k[2])]
  /\ adopted' = adopted \ {k}
  /\ UNCHANGED <<named, phase, host, adopting, live>>

\* The YAML block is taken out, and Home Assistant restarted.
YamlTakenOut ==
  /\ live # {} /\ Spend /\ live' = {}
  /\ UNCHANGED <<registry, named, adopted, phase, host, adopting>>

\* The YAML block serves a sensor: it is put back, or the user enables it.
YamlAddsSensor(f) ==
  /\ f \notin live /\ Spend /\ live' = live \cup {f}
  /\ registry' = Create(registry, Legacy(f), Generated(YamlName, f))
  /\ UNCHANGED <<named, adopted, phase, host, adopting>>

\* A sensor that is disabled has no state, whatever the YAML block says.
UserDisables(f) ==
  /\ f \in live /\ Spend /\ live' = live \ {f}
  /\ UNCHANGED <<registry, named, adopted, phase, host, adopting>>

SetupOf(e) ==
  \/ Resolve(e) \/ SensorsAdded(e) \/ \E f \in Fields : AddSensor(e, f)
  \/ adopting.meter = e /\ (Rename \/ \E f \in Fields : Adopt(f))

SetupStep == \E e \in Meters : SetupOf(e)

\* An adoption and the renames after it run without an await.
Elsewhere ==
  /\ adopting = Idle
  /\ \/ \E e \in Meters : Down(e) \/ DeleteEntry(e)
     \/ \E e \in Meters, h \in Hosts : AddEntry(e, h) \/ Move(e, h)
     \/ \E k \in Keys : UserRemoves(k) \/ \E name \in Names : UserRenames(k, name)
     \/ YamlTakenOut
     \/ \E f \in Fields : YamlAddsSensor(f) \/ UserDisables(f)

Next == SetupStep \/ Elsewhere

Spec == Init /\ [][Next]_vars

\* A setup that is refused or fails is tried again, and one that runs ends.
FairSpec == Spec /\ \A e \in Meters : WF_vars(SetupOf(e))

-----------------------------------------------------------------------------
(* What becomes of the ids.                                                *)

\* Two meters whose serials end alike share a device name, so an id a setup wants
\* may be another sensor's, a sensor of the other meter or one that was renamed.
\* entity_id_rename.py:15: "one id that cannot move is not a reason to leave the
\* meter unloadable": in the end only the adoption keeps a meter from loading.
EveryMeterLoads ==
  \A e \in Meters : <>[](phase[e] \in {"none", "loaded"} \/ ~Resolved(e))

\* Adoption is all or nothing: when it has begun it ends with every sensor the
\* YAML block had left adopted under the id it had, whatever the user renamed,
\* removed and deleted before, and whatever Home Assistant remembers of it.
AdoptedWhole ==
  [][adopting # Idle /\ adopting' = Idle =>
       \A f \in Fields :
         LET i == adopting.before[Legacy(f)] IN
         i # None => /\ registry'.ids[<<adopting.meter, f>>] = i
                     /\ registry'.ids[Legacy(f)] = None]_vars

\* A setup takes the id of no sensor away, but to give it to the sensor that has
\* the same reading.
NoSensorLost ==
  [][SetupStep =>
       \A k \in Keys :
         registry.ids[k] # None /\ registry'.ids[k] = None
           => \E e \in Meters : registry'.ids[<<e, k[2]>>] = registry.ids[k]]_vars

\* The README: "Entities adopted from a YAML modbus: block keep their old entity
\* ids" - until the user renames or removes them.
AdoptedIdsKept ==
  [][\A k \in adopted \cap adopted' : registry'.ids[k] = registry.ids[k]]_vars
=============================================================================
