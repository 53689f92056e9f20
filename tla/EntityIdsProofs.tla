--------------------------- MODULE EntityIdsProofs ---------------------------
(***************************************************************************)
(* Adoption and renames keep ids apart and lose none, for any number of    *)
(* meters, readings and hosts.                                             *)
(***************************************************************************)
EXTENDS EntityIds, FiniteSetTheorems, TLAPS

-----------------------------------------------------------------------------
(* The registry.                                                           *)

\* The keys of a meter's sensors and of the YAML block's are different.
LEMMA KeysApart ==
  ASSUME NEW e \in Meters, NEW f \in Fields, NEW h \in Fields
  PROVE  /\ <<e, f>> \in Keys /\ Legacy(f) \in Keys
         /\ Legacy(f) # <<e, h>> /\ Legacy(f)[1] = "modbus" /\ Legacy(f)[2] = f
         /\ Legacy(f) = Legacy(h) => f = h
         /\ <<e, f>> = <<e, h>> => f = h
BY EntityIdsAssumption DEF Keys, Legacy

LEMMA GeneratedIsId ==
  ASSUME NEW name \in Names, NEW f \in Fields
  PROVE  Generated(name, f) \in Ids
<1>1. Cardinality(Keys) \in Nat  BY FS_CardinalityType, EntityIdsAssumption
<1> QED  BY <1>1 DEF Generated, Ids

LEMMA NoneIsNoId == None \notin Ids
BY EntityIdsAssumption

\* There are more numbers than sensors, so that a wanted id, numbered if need be,
\* is free.
LEMMA NumberedIsFree ==
  ASSUME NEW g \in Registries, NEW i \in Ids
  PROVE  Numbered(g, i) \in Ids /\ Free(g, Numbered(g, i))
<1> DEFINE N == Cardinality(Keys)
<1> DEFINE J(n) == <<i[1], i[2], n>>
<1>1. N \in Nat  BY FS_CardinalityType, EntityIdsAssumption
<1>2. i \in Names \X Fields \X (0 .. N)  BY DEF Ids
<1>3. i[1] \in Names /\ i[2] \in Fields  BY <1>2
<1>4. \A n \in 0 .. N : J(n) \in Ids /\ J(n)[1] = i[1] /\ J(n)[2] = i[2]
  BY <1>3 DEF Ids
<1>5. \E n \in 0 .. N : Free(g, J(n))
  <2> SUFFICES ASSUME \A n \in 0 .. N : \E k \in Keys : g.ids[k] = J(n)  PROVE FALSE
    BY DEF Free
  <2> DEFINE T == 0 .. N
  <2> DEFINE m == [k \in Keys |-> IF \E n \in T : g.ids[k] = J(n)
                                    THEN CHOOSE n \in T : g.ids[k] = J(n) ELSE 0]
  <2>1. m \in [Keys -> T]  BY <1>1
  <2>2. \A n \in T : \E k \in Keys : m[k] = n
    <3> TAKE n \in T
    <3>1. PICK k \in Keys : g.ids[k] = J(n)  OBVIOUS
    <3>2. m[k] = CHOOSE o \in T : g.ids[k] = J(o)  BY <3>1
    <3>3. m[k] \in T /\ g.ids[k] = J(m[k])  BY <3>1, <3>2
    <3>4. J(m[k]) = J(n)  BY <3>1, <3>3
    <3>5. m[k] = n  BY <3>4
    <3> QED  BY <3>5
  <2> HIDE DEF m
  <2>3. m \in Surjection(Keys, T)  BY <2>1, <2>2 DEF Surjection
  <2>4. Cardinality(T) <= N  BY <2>3, FS_Surjection, EntityIdsAssumption
  <2>5. Cardinality(T) = N + 1  BY <1>1, FS_Interval
  <2> QED  BY <1>1, <2>4, <2>5
<1>6. \E j \in Ids : j[1] = i[1] /\ j[2] = i[2] /\ Free(g, j)
  <2>1. PICK n \in 0 .. N : Free(g, J(n))  BY <1>5
  <2> QED  BY <1>4, <2>1
<1>7. CASE Free(g, i)  BY <1>7 DEF Numbered
<1>8. CASE ~Free(g, i)
  <2> DEFINE c == CHOOSE j \in Ids : j[1] = i[1] /\ j[2] = i[2] /\ Free(g, j)
  <2>1. c \in Ids /\ Free(g, c)  BY <1>6
  <2>2. Numbered(g, i) = c  BY <1>8 DEF Numbered
  <2> QED  BY <2>1, <2>2
<1> QED  BY <1>7, <1>8

\* What async_get_or_create returns and leaves alone.
LEMMA CreateAddsOne ==
  ASSUME NEW g \in Registries, Distinct(g), NEW k \in Keys, NEW i \in Ids
  PROVE  /\ Create(g, k, i) \in Registries /\ Distinct(Create(g, k, i))
         /\ Create(g, k, i).ids[k] # None
         /\ \A j \in Keys : j # k => /\ Create(g, k, i).ids[j] = g.ids[j]
                                     /\ Create(g, k, i).gone[j] = g.gone[j]
         /\ g.ids[k] = None /\ g.gone[k] \in {None, i} /\ Free(g, i)
              => Create(g, k, i).ids[k] = i
<1> DEFINE c == IF g.gone[k] # None /\ Free(g, g.gone[k]) THEN g.gone[k] ELSE Numbered(g, i)
<1>1. CASE g.ids[k] # None  BY <1>1 DEF Create
<1>2. CASE g.ids[k] = None
  <2>1. c \in Ids /\ Free(g, c)
    <3>1. g.gone[k] \in Ids \cup {None}  BY DEF Registries, IdsOrNone
    <3> QED  BY <3>1, NumberedIsFree
  <2>2. Create(g, k, i) = [ids |-> [g.ids EXCEPT ![k] = c], gone |-> [g.gone EXCEPT ![k] = None]]
    BY <1>2 DEF Create
  <2>3. g.gone[k] \in {None, i} /\ Free(g, i) => c = i  BY DEF Numbered
  <2> HIDE DEF c
  <2> DEFINE o == Create(g, k, i)
  <2>4. o.ids = [g.ids EXCEPT ![k] = c] /\ o.gone = [g.gone EXCEPT ![k] = None]  BY <2>2
  <2>5. g.ids \in [Keys -> IdsOrNone] /\ g.gone \in [Keys -> IdsOrNone]  BY DEF Registries
  <2>6. o.ids \in [Keys -> IdsOrNone] /\ o.gone \in [Keys -> IdsOrNone]
    BY <2>1, <2>4, <2>5 DEF IdsOrNone
  <2>7. o \in Registries  BY <2>2, <2>4, <2>6 DEF Registries
  <2>8. o.ids[k] = c /\ \A j \in Keys : j # k => o.ids[j] = g.ids[j] /\ o.gone[j] = g.gone[j]
    BY <2>4, <2>5
  <2>9. Distinct(o)  BY <2>1, <2>8 DEF Distinct, Free
  <2> QED  BY <2>1, <2>3, <2>7, <2>8, <2>9, NoneIsNoId
<1> QED  BY <1>1, <1>2

\* What async_remove frees and leaves alone.
LEMMA RemoveFreesOne ==
  ASSUME NEW g \in Registries, Distinct(g), NEW k \in Keys
  PROVE  /\ Remove(g, k) \in Registries /\ Distinct(Remove(g, k))
         /\ Remove(g, k).ids[k] = None
         /\ \A j \in Keys : j # k => /\ Remove(g, k).ids[j] = g.ids[j]
                                     /\ Remove(g, k).gone[j] = g.gone[j]
         /\ g.ids[k] # None => Free(Remove(g, k), g.ids[k])
<1> DEFINE o == Remove(g, k)
<1>1. o = [ids |-> [g.ids EXCEPT ![k] = None], gone |-> [g.gone EXCEPT ![k] = g.ids[k]]]
  BY DEF Remove
<1>2. o.ids = [g.ids EXCEPT ![k] = None] /\ o.gone = [g.gone EXCEPT ![k] = g.ids[k]]  BY <1>1
<1>3. g.ids \in [Keys -> IdsOrNone] /\ g.gone \in [Keys -> IdsOrNone]  BY DEF Registries
<1>4. o.ids \in [Keys -> IdsOrNone] /\ o.gone \in [Keys -> IdsOrNone]
  BY <1>2, <1>3 DEF IdsOrNone
<1>5. o \in Registries  BY <1>1, <1>2, <1>4 DEF Registries
<1>6. o.ids[k] = None /\ \A j \in Keys : j # k => o.ids[j] = g.ids[j] /\ o.gone[j] = g.gone[j]
  BY <1>2, <1>3
<1>7. Distinct(o) /\ (g.ids[k] # None => Free(o, g.ids[k]))  BY <1>6 DEF Distinct, Free
<1> QED  BY <1>5, <1>6, <1>7

-----------------------------------------------------------------------------
(* The inductive invariant.                                                *)

\* Where a turn of the adoption loop is: a sensor still to adopt is as _resolve
\* saw it, an adopted one has its id.
TurnOK(f) ==
  LET e == adopting.meter
      i == adopting.before[Legacy(f)]
  IN IF f \in adopting.todo
       THEN /\ i # None /\ registry.ids[Legacy(f)] = i
            /\ registry.ids[<<e, f>>] = None /\ registry.gone[<<e, f>>] \in {None, i}
       ELSE i # None => /\ registry.ids[<<e, f>>] = i /\ registry.ids[Legacy(f)] = None
                        /\ <<e, f>> \notin named

Sound ==
  adopting # Idle => adopting.meter \in Meters /\ \A f \in Fields : TurnOK(f)

OwnOnly == \A k \in named \cup adopted : k[1] \in Meters

\* An id that was free when it was given is nobody else's.
IdsApart == Distinct(registry)

IInv == TypeOK /\ IdsApart /\ OwnOnly /\ Sound

\* The parts of a state that a change of the registry can disturb.
Registered(g, ks) == \A k \in ks : g.ids[k] # None

LEMMA InitIInv == Init => IInv
<1> SUFFICES ASSUME Init  PROVE IInv  OBVIOUS
<1>1. adopting = Idle /\ Sound  BY DEF Init, Sound
<1>2. named \in SUBSET Keys /\ OwnOnly  BY DEF Init, OwnOnly
<1>3. \A k \in Keys : registry.ids[k] \in IdsOrNone
  <2>1. \A e \in Meters : host[e] \in Names  BY DEF Init, Names
  <2>2. YamlName \in Names  BY DEF Names
  <2>3. \A k \in Keys : k[2] \in Fields  BY DEF Keys
  <2>4. \A k \in named : k[1] \in Meters  BY DEF Init
  <2>5. \A k \in named : Generated(host[k[1]], k[2]) \in Ids
    BY <1>2, <2>1, <2>3, <2>4, GeneratedIsId
  <2>6. \A k \in Keys : Generated(YamlName, k[2]) \in Ids  BY <2>2, <2>3, GeneratedIsId
  <2> QED  BY <2>5, <2>6 DEF Init, IdsOrNone
<1>4. registry \in Registries
  <2>1. registry = [ids |-> registry.ids, gone |-> registry.gone]  BY DEF Init
  <2>2. registry.ids = [k \in Keys |-> registry.ids[k]]  BY DEF Init
  <2>3. registry.ids \in [Keys -> IdsOrNone]  BY <1>3, <2>2
  <2>4. registry.gone \in [Keys -> IdsOrNone]  BY DEF Init, IdsOrNone
  <2> QED  BY <2>1, <2>3, <2>4 DEF Registries
<1>5. Registered(registry, named)
  <2>1. \A k \in named : /\ registry.ids[k] = Generated(host[k[1]], k[2])
                         /\ host[k[1]] \in Names /\ k[2] \in Fields
    BY <1>2 DEF Init, Keys, Names
  <2> QED  BY <2>1, GeneratedIsId, NoneIsNoId DEF Registered
<1>6. Idle \in [meter : Meters \cup {None}, todo : SUBSET Fields, before : [Keys -> IdsOrNone]]
  BY DEF Idle, IdsOrNone
<1>7. TypeOK
  BY <1>1, <1>2, <1>4, <1>5, <1>6, EntityIdsAssumption DEF Init, TypeOK, Registered
<1> QED  BY <1>1, <1>2, <1>7 DEF IInv, IdsApart, Init

\* What every step that leaves the adoption alone has to show.
LEMMA QuietStep ==
  ASSUME IInv, adopting = Idle, adopting' = Idle,
         registry' \in Registries, Distinct(registry'),
         named' \subseteq Keys, adopted' \subseteq Keys,
         Registered(registry', named' \cup adopted'),
         \A k \in named' \cup adopted' : k[1] \in Meters,
         phase' \in [Meters -> {"none", "down", "adding", "loaded"}],
         host' \in [Meters -> Hosts], live' \subseteq Fields, events' \in Nat
  PROVE  IInv'
<1>1. TypeOK'  BY DEF IInv, TypeOK, Registered
<1>2. IdsApart' /\ OwnOnly' /\ Sound'  BY DEF IdsApart, OwnOnly, Sound
<1> QED  BY <1>1, <1>2 DEF IInv

LEMMA SpendCounts == ASSUME events \in Nat, Spend  PROVE events' \in Nat
BY DEF Spend

LEMMA ResolveKeeps ==
  ASSUME IInv, NEW e \in Meters, Resolve(e)  PROVE IInv'
<1> USE DEF Resolve
<1>1. adopting' = [meter |-> e, todo |-> Left(registry), before |-> registry.ids]  OBVIOUS
<1>2. registry \in Registries  BY DEF IInv, TypeOK
<1>3. registry.ids \in [Keys -> IdsOrNone]  BY <1>2 DEF Registries
<1>4. Left(registry) \subseteq Fields  BY DEF Left
<1>5. TypeOK'  BY <1>1, <1>3, <1>4 DEF IInv, TypeOK
<1>6. adopting'.meter = e /\ adopting'.todo = Left(registry) /\ adopting'.before = registry.ids
  BY <1>1
<1>7. \A f \in Fields : TurnOK(f)'
  <2> TAKE f \in Fields
  <2>1. CASE f \in Left(registry)
    <3>1. registry.ids[<<e, f>>] = None
      BY <2>1 DEF Resolved, Held
    <3>2. registry.gone[<<e, f>>] \in {None, registry.ids[Legacy(f)]}
      BY <2>1 DEF Resolved, InTheWay
    <3>3. registry.ids[Legacy(f)] # None  BY <2>1 DEF Left
    <3> QED  BY <1>6, <2>1, <3>1, <3>2, <3>3 DEF TurnOK, Legacy
  <2>2. CASE f \notin Left(registry)
    <3>1. registry.ids[Legacy(f)] = None  BY <2>2 DEF Left
    <3> QED  BY <1>6, <2>2, <3>1 DEF TurnOK, Legacy
  <2> QED  BY <2>1, <2>2
<1>8. Sound'  BY <1>6, <1>7 DEF Sound
<1>9. IdsApart' /\ OwnOnly'  BY DEF IInv, IdsApart, OwnOnly
<1> QED  BY <1>5, <1>8, <1>9 DEF IInv

\* The heart of it: the id of a turn goes where it should, so the branch that
\* undoes a turn is never taken.
LEMMA TurnAdopts ==
  ASSUME IInv, NEW f \in Fields, Adopt(f)
  PROVE  LET e == adopting.meter
             i == registry.ids[Legacy(f)]
         IN /\ adopting # Idle /\ e \in Meters /\ f \in adopting.todo
            /\ i # None /\ i = adopting.before[Legacy(f)]
            /\ registry' \in Registries /\ Distinct(registry')
            /\ registry'.ids[<<e, f>>] = i /\ registry'.ids[Legacy(f)] = None
            /\ \A k \in Keys \ {<<e, f>>, Legacy(f)} :
                 registry'.ids[k] = registry.ids[k] /\ registry'.gone[k] = registry.gone[k]
            /\ adopted' = adopted \cup {<<e, f>>}
            /\ adopting' = [adopting EXCEPT !.todo = @ \ {f}]
<1> DEFINE e == adopting.meter
<1> DEFINE i == registry.ids[Legacy(f)]
<1> DEFINE r == Remove(registry, Legacy(f))
<1> DEFINE c == Create(r, <<e, f>>, i)
<1>1. f \in adopting.todo  BY DEF Adopt
<1>2. adopting # Idle  BY <1>1 DEF Idle
<1>3. e \in Meters /\ TurnOK(f)  BY <1>2 DEF IInv, Sound
<1>4. /\ i # None /\ i = adopting.before[Legacy(f)] /\ registry.ids[<<e, f>>] = None
      /\ registry.gone[<<e, f>>] \in {None, i}
  BY <1>1, <1>3 DEF TurnOK
<1>5. <<e, f>> \in Keys /\ Legacy(f) \in Keys /\ Legacy(f) # <<e, f>>  BY <1>3, KeysApart
<1>6. registry \in Registries /\ Distinct(registry)  BY DEF IInv, TypeOK, IdsApart
<1>7. i \in Ids  BY <1>4, <1>5, <1>6 DEF Registries, IdsOrNone
<1>8. /\ r \in Registries /\ Distinct(r) /\ r.ids[Legacy(f)] = None /\ Free(r, i)
      /\ \A j \in Keys : j # Legacy(f) => r.ids[j] = registry.ids[j] /\ r.gone[j] = registry.gone[j]
  BY <1>4, <1>5, <1>6, RemoveFreesOne
<1>9. r.ids[<<e, f>>] = None /\ r.gone[<<e, f>>] \in {None, i}  BY <1>4, <1>5, <1>8
<1> HIDE DEF r
<1>10. /\ c \in Registries /\ Distinct(c) /\ c.ids[<<e, f>>] = i
       /\ \A j \in Keys : j # <<e, f>> => c.ids[j] = r.ids[j] /\ c.gone[j] = r.gone[j]
  BY <1>5, <1>7, <1>8, <1>9, CreateAddsOne
<1>11. registry' = c /\ adopted' = adopted \cup {<<e, f>>}
       /\ adopting' = [adopting EXCEPT !.todo = @ \ {f}]
  BY <1>10 DEF Adopt, r
<1> HIDE DEF c
<1>12. registry'.ids[Legacy(f)] = None  BY <1>5, <1>8, <1>10, <1>11
<1>13. \A k \in Keys \ {<<e, f>>, Legacy(f)} :
         registry'.ids[k] = registry.ids[k] /\ registry'.gone[k] = registry.gone[k]
  BY <1>8, <1>10, <1>11
<1> QED  BY <1>1, <1>2, <1>3, <1>4, <1>10, <1>11, <1>12, <1>13

LEMMA AdoptKeeps ==
  ASSUME IInv, NEW f \in Fields, Adopt(f)  PROVE IInv'
<1> DEFINE e == adopting.meter
<1> DEFINE i == registry.ids[Legacy(f)]
<1>1. /\ adopting # Idle /\ e \in Meters /\ f \in adopting.todo
      /\ i # None /\ i = adopting.before[Legacy(f)]
      /\ registry' \in Registries /\ Distinct(registry')
      /\ registry'.ids[<<e, f>>] = i /\ registry'.ids[Legacy(f)] = None
      /\ \A k \in Keys \ {<<e, f>>, Legacy(f)} :
           registry'.ids[k] = registry.ids[k] /\ registry'.gone[k] = registry.gone[k]
      /\ adopted' = adopted \cup {<<e, f>>}
      /\ adopting' = [adopting EXCEPT !.todo = @ \ {f}]
  BY TurnAdopts
<1>2. UNCHANGED <<named, phase, host, live, events>>  BY DEF Adopt
<1>3. adopting \in [meter : Meters \cup {None}, todo : SUBSET Fields, before : [Keys -> IdsOrNone]]
  BY DEF IInv, TypeOK
<1>4. /\ adopting'.meter = e /\ adopting'.todo = adopting.todo \ {f}
      /\ adopting'.before = adopting.before
      /\ adopting' \in [meter : Meters \cup {None}, todo : SUBSET Fields,
                        before : [Keys -> IdsOrNone]]
  BY <1>1, <1>3
<1>5. <<e, f>> \in Keys /\ Legacy(f) \in Keys /\ Legacy(f)[1] = "modbus" /\ "modbus" \notin Meters
  BY <1>1, KeysApart, EntityIdsAssumption
<1>6. \A k \in named \cup adopted : k \in Keys /\ registry.ids[k] # None /\ k[1] \in Meters
  BY DEF IInv, TypeOK, OwnOnly
<1>7. \A k \in named' \cup adopted' : k \in Keys /\ registry'.ids[k] # None /\ k[1] \in Meters
  <2> TAKE k \in named' \cup adopted'
  <2>1. CASE k = <<e, f>>  BY <1>1, <1>5, <2>1
  <2>2. CASE k # <<e, f>>
    <3>1. k \in named \cup adopted  BY <1>1, <1>2, <2>2
    <3>2. k # Legacy(f)  BY <1>5, <1>6, <3>1
    <3> QED  BY <1>1, <1>6, <2>2, <3>1, <3>2
  <2> QED  BY <2>1, <2>2
<1>8. TypeOK'  BY <1>1, <1>2, <1>4, <1>7 DEF IInv, TypeOK
<1>9. \A h \in Fields : TurnOK(h)'
  <2> TAKE h \in Fields
  <2>1. TurnOK(h)  BY <1>1 DEF IInv, Sound
  <2>2. CASE h = f
    <3>1. registry.ids[<<e, f>>] = None  BY <1>1, <2>1, <2>2 DEF TurnOK
    <3>2. <<e, f>> \notin named'  BY <1>2, <1>6, <3>1
    <3> QED  BY <1>1, <1>4, <2>2, <3>2 DEF TurnOK, Legacy
  <2>3. CASE h # f
    <3>1. /\ <<e, h>> \in Keys \ {<<e, f>>, Legacy(f)}
          /\ Legacy(h) \in Keys \ {<<e, f>>, Legacy(f)}
      BY <1>1, <2>3, KeysApart DEF Legacy
    <3>2. /\ registry'.ids[<<e, h>>] = registry.ids[<<e, h>>]
          /\ registry'.gone[<<e, h>>] = registry.gone[<<e, h>>]
          /\ registry'.ids[Legacy(h)] = registry.ids[Legacy(h)]
      BY <1>1, <3>1
    <3>3. h \in adopting'.todo <=> h \in adopting.todo  BY <1>4, <2>3
    <3> QED  BY <1>2, <1>4, <2>1, <3>2, <3>3 DEF TurnOK, Legacy
  <2> QED  BY <2>2, <2>3
<1>10. Sound'  BY <1>1, <1>4, <1>9 DEF Sound
<1>11. IdsApart' /\ OwnOnly'  BY <1>1, <1>7 DEF IdsApart, OwnOnly
<1> QED  BY <1>8, <1>10, <1>11 DEF IInv

\* A rename gives an id nobody has, and only to a sensor of the entry.
LEMMA RenameMoves ==
  ASSUME IInv, Rename
  PROVE  LET e == adopting.meter IN
         /\ e \in Meters /\ registry' \in Registries /\ Distinct(registry')
         /\ \A k \in Keys : /\ registry.ids[k] # None => registry'.ids[k] # None
                            /\ k[1] # e => registry'.ids[k] = registry.ids[k]
<1> DEFINE e == adopting.meter
<1> DEFINE new(k) == Generated(DeviceName[e], k[2])
<1>1. e \in Meters  BY DEF Rename, IInv, Sound
<1>2. registry \in Registries /\ Distinct(registry)  BY DEF IInv, TypeOK, IdsApart
<1>3. registry.ids \in [Keys -> IdsOrNone] /\ registry.gone \in [Keys -> IdsOrNone]
  BY <1>2 DEF Registries
<1>4. \A k \in Keys : new(k) \in Ids
  <2>1. DeviceName[e] \in Names  BY <1>1 DEF Names
  <2>2. \A k \in Keys : k[2] \in Fields  BY DEF Keys
  <2> QED  BY <2>1, <2>2, GeneratedIsId
<1>5. registry' = [registry EXCEPT !.ids =
                     [k \in Keys |-> IF Renames(registry, e, k) THEN new(k) ELSE registry.ids[k]]]
  BY DEF Rename
<1> HIDE DEF new
<1>6. /\ registry'.gone = registry.gone
      /\ registry'.ids = [k \in Keys |-> IF Renames(registry, e, k) THEN new(k)
                                         ELSE registry.ids[k]]
  BY <1>2, <1>5 DEF Registries
<1>7. registry'.ids \in [Keys -> IdsOrNone]  BY <1>3, <1>4, <1>6 DEF IdsOrNone
<1>8. registry' \in Registries  BY <1>2, <1>3, <1>5, <1>6, <1>7 DEF Registries
<1>9. ASSUME NEW j \in Keys, NEW k \in Keys, registry'.ids[j] = registry'.ids[k], j # k
      PROVE  registry'.ids[j] = None
  <2>1. CASE Renames(registry, e, j) /\ Renames(registry, e, k)
    <3>1. new(j) = new(k)  BY <1>6, <1>9, <2>1
    <3>2. j[2] = k[2] /\ j[1] = k[1]  BY <2>1, <3>1 DEF Renames, new, Generated
    <3> QED  BY <1>9, <3>2 DEF Keys
  <2>2. CASE Renames(registry, e, j) /\ ~Renames(registry, e, k)
    BY <1>6, <1>9, <2>2 DEF Renames, Free, new
  <2>3. CASE ~Renames(registry, e, j) /\ Renames(registry, e, k)
    BY <1>6, <1>9, <2>3 DEF Renames, Free, new
  <2>4. CASE ~Renames(registry, e, j) /\ ~Renames(registry, e, k)
    BY <1>2, <1>6, <1>9, <2>4 DEF Distinct
  <2> QED  BY <2>1, <2>2, <2>3, <2>4
<1>10. Distinct(registry')  BY <1>9 DEF Distinct
<1>11. \A k \in Keys : registry.ids[k] # None => registry'.ids[k] # None
  BY <1>4, <1>6, NoneIsNoId
<1>12. \A k \in Keys : k[1] # e => registry'.ids[k] = registry.ids[k]
  BY <1>6 DEF Renames
<1> QED  BY <1>1, <1>8, <1>10, <1>11, <1>12

LEMMA RenameKeeps == ASSUME IInv, Rename  PROVE IInv'
<1>1. registry' \in Registries /\ Distinct(registry') /\ adopting.meter \in Meters
      /\ \A k \in Keys : registry.ids[k] # None => registry'.ids[k] # None
  BY RenameMoves
<1>2. adopting' = Idle /\ UNCHANGED <<named, adopted, host, live, events>>  BY DEF Rename
<1>3. phase' \in [Meters -> {"none", "down", "adding", "loaded"}]
  BY <1>1 DEF Rename, IInv, TypeOK
<1>4. named' \cup adopted' \subseteq {k \in Keys : registry'.ids[k] # None}
  BY <1>1, <1>2 DEF IInv, TypeOK
<1>5. Idle \in [meter : Meters \cup {None}, todo : SUBSET Fields, before : [Keys -> IdsOrNone]]
  BY DEF Idle, IdsOrNone
<1>6. TypeOK'  BY <1>1, <1>2, <1>3, <1>4, <1>5 DEF IInv, TypeOK
<1>7. IdsApart' /\ OwnOnly' /\ Sound'  BY <1>1, <1>2 DEF IInv, IdsApart, OwnOnly, Sound
<1> QED  BY <1>6, <1>7 DEF IInv

\* A sensor is created, of a meter or of the YAML block; the others stay.
LEMMA CreateKeeps ==
  ASSUME IInv, adopting = Idle, adopting' = Idle, NEW k \in Keys, NEW i \in Ids,
         registry' = Create(registry, k, i),
         named' = named \/ (named' = named \cup {k} /\ k[1] \in Meters),
         UNCHANGED <<adopted, phase, host>>, live' \subseteq Fields, events' \in Nat
  PROVE  IInv'
<1>1. registry \in Registries /\ Distinct(registry)  BY DEF IInv, TypeOK, IdsApart
<1>2. /\ registry' \in Registries /\ Distinct(registry') /\ registry'.ids[k] # None
      /\ \A j \in Keys : j # k => registry'.ids[j] = registry.ids[j]
  BY <1>1, CreateAddsOne
<1>3. named' \subseteq Keys /\ adopted' \subseteq Keys  BY DEF IInv, TypeOK
<1>4. \A j \in named' \cup adopted' : j = k \/ j \in named \cup adopted  OBVIOUS
<1>5. Registered(registry', named' \cup adopted')
  BY <1>2, <1>3, <1>4 DEF IInv, TypeOK, Registered
<1>6. \A j \in named' \cup adopted' : j[1] \in Meters  BY DEF IInv, OwnOnly
<1> QED  BY <1>2, <1>3, <1>5, <1>6, QuietStep DEF IInv, TypeOK

LEMMA AddSensorKeeps ==
  ASSUME IInv, NEW e \in Meters, NEW f \in Fields, AddSensor(e, f)  PROVE IInv'
<1>1. <<e, f>> \in Keys /\ <<e, f>>[1] \in Meters  BY KeysApart
<1>2. Generated(DeviceName[e], f) \in Ids  BY GeneratedIsId DEF Names
<1>3. live' \subseteq Fields /\ events' \in Nat  BY DEF AddSensor, IInv, TypeOK
<1> QED  BY <1>1, <1>2, <1>3, CreateKeeps DEF AddSensor

LEMMA YamlAddsKeeps ==
  ASSUME IInv, adopting = Idle, NEW f \in Fields, YamlAddsSensor(f)  PROVE IInv'
<1>1. Legacy(f) \in Keys  BY EntityIdsAssumption DEF Keys, Legacy
<1>2. Generated(YamlName, f) \in Ids  BY GeneratedIsId DEF Names
<1>3. live' \subseteq Fields /\ events' \in Nat
  BY SpendCounts DEF YamlAddsSensor, IInv, TypeOK
<1> QED  BY <1>1, <1>2, <1>3, CreateKeeps DEF YamlAddsSensor

\* Sensors go: what is left keeps its id, and what is gone is forgotten.
LEMMA ForgetKeeps ==
  ASSUME IInv, adopting = Idle, adopting' = Idle, NEW ks, Forget(ks),
         registry' \in Registries, Distinct(registry'),
         \A j \in Keys \ ks : registry'.ids[j] = registry.ids[j],
         phase' \in [Meters -> {"none", "down", "adding", "loaded"}],
         UNCHANGED <<host, live>>, events' \in Nat
  PROVE  IInv'
<1>1. named' \subseteq named \ ks /\ adopted' \subseteq adopted \ ks  BY DEF Forget
<1>2. Registered(registry', named' \cup adopted')
  BY <1>1 DEF IInv, TypeOK, Registered
<1>3. \A j \in named' \cup adopted' : j[1] \in Meters  BY <1>1 DEF IInv, OwnOnly
<1>4. named' \subseteq Keys /\ adopted' \subseteq Keys  BY <1>1 DEF IInv, TypeOK
<1> QED  BY <1>2, <1>3, <1>4, QuietStep DEF IInv, TypeOK

LEMMA DeleteEntryKeeps ==
  ASSUME IInv, adopting = Idle, NEW e \in Meters, DeleteEntry(e)  PROVE IInv'
<1> DEFINE its == {k \in Keys : k[1] = e /\ registry.ids[k] # None}
<1> DEFINE o == [ids  |-> [k \in Keys |-> IF k \in its THEN None ELSE registry.ids[k]],
                 gone |-> [k \in Keys |-> IF k \in its THEN registry.ids[k] ELSE registry.gone[k]]]
<1>1. registry \in Registries /\ Distinct(registry) /\ events \in Nat
  BY DEF IInv, TypeOK, IdsApart
<1>2. registry' = o /\ Forget(its)  BY DEF DeleteEntry
<1> HIDE DEF its
<1>3. /\ o.ids = [k \in Keys |-> IF k \in its THEN None ELSE registry.ids[k]]
      /\ o.gone = [k \in Keys |-> IF k \in its THEN registry.ids[k] ELSE registry.gone[k]]
  OBVIOUS
<1>4. registry.ids \in [Keys -> IdsOrNone] /\ registry.gone \in [Keys -> IdsOrNone]
  BY <1>1 DEF Registries
<1>5. o.ids \in [Keys -> IdsOrNone] /\ o.gone \in [Keys -> IdsOrNone]
  BY <1>3, <1>4 DEF IdsOrNone
<1>6. o \in Registries  BY <1>3, <1>5 DEF Registries
<1> HIDE DEF o
<1>7. Distinct(o)  BY <1>1, <1>3 DEF Distinct
<1>8. \A j \in Keys \ its : o.ids[j] = registry.ids[j]  BY <1>3
<1>9. /\ phase' \in [Meters -> {"none", "down", "adding", "loaded"}] /\ events' \in Nat
      /\ UNCHANGED <<host, live, adopting>>
  BY <1>1, SpendCounts DEF DeleteEntry, IInv, TypeOK
<1> QED  BY <1>2, <1>6, <1>7, <1>8, <1>9, ForgetKeeps

LEMMA UserRemovesKeeps ==
  ASSUME IInv, adopting = Idle, NEW k \in Keys, UserRemoves(k)  PROVE IInv'
<1>1. registry \in Registries /\ Distinct(registry) /\ events \in Nat
  BY DEF IInv, TypeOK, IdsApart
<1>2. /\ registry' = Remove(registry, k) /\ Forget({k}) /\ UNCHANGED <<phase, host, adopting, live>>
  BY DEF UserRemoves
<1>3. /\ registry' \in Registries /\ Distinct(registry')
      /\ \A j \in Keys \ {k} : registry'.ids[j] = registry.ids[j]
  BY <1>1, <1>2, RemoveFreesOne
<1>4. events' \in Nat /\ phase' \in [Meters -> {"none", "down", "adding", "loaded"}]
  BY <1>1, <1>2, SpendCounts DEF UserRemoves, IInv, TypeOK
<1> QED  BY <1>2, <1>3, <1>4, ForgetKeeps

LEMMA UserRenamesKeeps ==
  ASSUME IInv, adopting = Idle, NEW k \in Keys, NEW name \in Names, UserRenames(k, name)
  PROVE  IInv'
<1> DEFINE i == Generated(name, k[2])
<1>1. registry \in Registries /\ Distinct(registry) /\ events \in Nat
  BY DEF IInv, TypeOK, IdsApart
<1>2. i \in Ids  BY GeneratedIsId DEF Keys
<1>3. Free(registry, i) /\ registry' = [registry EXCEPT !.ids[k] = i]  BY DEF UserRenames
<1> HIDE DEF i
<1>4. registry.ids \in [Keys -> IdsOrNone] /\ registry.gone \in [Keys -> IdsOrNone]
  BY <1>1 DEF Registries
<1>5. registry'.ids = [registry.ids EXCEPT ![k] = i] /\ registry'.gone = registry.gone
  BY <1>1, <1>3 DEF Registries
<1>6. registry'.ids \in [Keys -> IdsOrNone]  BY <1>2, <1>4, <1>5 DEF IdsOrNone
<1>7. registry' \in Registries  BY <1>1, <1>3, <1>4, <1>5, <1>6 DEF Registries
<1>8. registry'.ids[k] = i /\ \A j \in Keys : j # k => registry'.ids[j] = registry.ids[j]
  BY <1>4, <1>5
<1>9. Distinct(registry')  BY <1>1, <1>3, <1>8 DEF Distinct, Free
<1>10. \A j \in Keys : registry.ids[j] # None => registry'.ids[j] # None
  BY <1>2, <1>8, NoneIsNoId
<1>11. named' = named /\ adopted' \subseteq adopted /\ UNCHANGED <<phase, host, adopting, live>>
  BY DEF UserRenames
<1>12. Registered(registry', named' \cup adopted')
  BY <1>10, <1>11 DEF IInv, TypeOK, Registered
<1>13. events' \in Nat  BY <1>1, SpendCounts DEF UserRenames
<1>14. named' \subseteq Keys /\ adopted' \subseteq Keys
       /\ \A j \in named' \cup adopted' : j[1] \in Meters
  BY <1>11 DEF IInv, TypeOK, OwnOnly
<1> QED  BY <1>7, <1>9, <1>11, <1>12, <1>13, <1>14, QuietStep DEF IInv, TypeOK

\* The steps that leave the registry alone.
LEMMA RegistryLeftAlone ==
  ASSUME IInv, adopting = Idle,
         \/ \E e \in Meters : SensorsAdded(e) \/ Down(e)
         \/ \E e \in Meters, h \in Hosts : AddEntry(e, h) \/ Move(e, h)
         \/ YamlTakenOut
         \/ \E f \in Fields : UserDisables(f)
  PROVE  IInv'
<1>1. UNCHANGED <<registry, named, adopted, adopting>>
  BY DEF SensorsAdded, Down, AddEntry, Move, YamlTakenOut, UserDisables
<1>2. events' \in Nat
  BY SpendCounts DEF SensorsAdded, Down, AddEntry, Move, YamlTakenOut, UserDisables, IInv, TypeOK
<1>3. live' \subseteq Fields
  BY DEF SensorsAdded, Down, AddEntry, Move, YamlTakenOut, UserDisables, IInv, TypeOK
<1>4. phase' \in [Meters -> {"none", "down", "adding", "loaded"}] /\ host' \in [Meters -> Hosts]
  BY DEF SensorsAdded, Down, AddEntry, Move, YamlTakenOut, UserDisables, IInv, TypeOK
<1>5. TypeOK'  BY <1>1, <1>2, <1>3, <1>4 DEF IInv, TypeOK
<1>6. IdsApart' /\ OwnOnly' /\ Sound'
  BY <1>1 DEF IInv, IdsApart, OwnOnly, Sound
<1> QED  BY <1>5, <1>6 DEF IInv

LEMMA NextKeeps == IInv /\ [Next]_vars => IInv'
<1> SUFFICES ASSUME IInv, [Next]_vars  PROVE IInv'  OBVIOUS
<1>1. CASE SetupStep
  <2> SUFFICES ASSUME NEW e \in Meters, SetupOf(e)  PROVE IInv'  BY <1>1 DEF SetupStep
  <2>1. CASE Resolve(e)  BY <2>1, ResolveKeeps
  <2>2. CASE SensorsAdded(e)  BY <2>2, RegistryLeftAlone DEF SensorsAdded
  <2>3. CASE \E f \in Fields : AddSensor(e, f)  BY <2>3, AddSensorKeeps
  <2>4. CASE \E f \in Fields : Adopt(f)  BY <2>4, AdoptKeeps
  <2>5. CASE Rename  BY <2>5, RenameKeeps
  <2> QED  BY <2>1, <2>2, <2>3, <2>4, <2>5 DEF SetupOf
<1>2. CASE Elsewhere
  <2>1. adopting = Idle  BY <1>2 DEF Elsewhere
  <2>2. CASE \E e \in Meters : Down(e)  BY <2>1, <2>2, RegistryLeftAlone
  <2>3. CASE \E e \in Meters : DeleteEntry(e)  BY <2>1, <2>3, DeleteEntryKeeps
  <2>4. CASE \E e \in Meters, h \in Hosts : AddEntry(e, h) \/ Move(e, h)
    BY <2>1, <2>4, RegistryLeftAlone
  <2>5. CASE \E k \in Keys : UserRemoves(k)  BY <2>1, <2>5, UserRemovesKeeps
  <2>6. CASE \E k \in Keys, name \in Names : UserRenames(k, name)
    BY <2>1, <2>6, UserRenamesKeeps
  <2>7. CASE YamlTakenOut  BY <2>1, <2>7, RegistryLeftAlone
  <2>8. CASE \E f \in Fields : YamlAddsSensor(f)  BY <2>1, <2>8, YamlAddsKeeps
  <2>9. CASE \E f \in Fields : UserDisables(f)  BY <2>1, <2>9, RegistryLeftAlone
  <2> QED  BY <1>2, <2>2, <2>3, <2>4, <2>5, <2>6, <2>7, <2>8, <2>9 DEF Elsewhere
<1>3. CASE UNCHANGED vars
  <2>1. UNCHANGED <<registry, named, adopted, phase, host, adopting, live, events>>
    BY <1>3 DEF vars
  <2>2. TypeOK'  BY <2>1 DEF IInv, TypeOK
  <2>3. IdsApart' /\ OwnOnly' /\ Sound'  BY <2>1 DEF IInv, IdsApart, OwnOnly, Sound, TurnOK
  <2> QED  BY <2>2, <2>3 DEF IInv
<1> QED  BY <1>1, <1>2, <1>3 DEF Next

\* The inductive invariant holds in every state, whatever is set up, moved,
\* renamed and removed in between (migration.py, entity_id_rename.py).
THEOREM SpecIInv == Spec => []IInv
BY InitIInv, NextKeeps, PTL DEF Spec

-----------------------------------------------------------------------------
(* The theorems.                                                           *)

\* The registry, the entries and the adoption under way have their types, and
\* every sensor a platform added or a setup adopted is registered.
THEOREM TypeCorrect == Spec => []TypeOK
<1>1. IInv => TypeOK  BY DEF IInv
<1> QED  BY <1>1, SpecIInv, PTL

\* async_adopt_legacy_entities adopts all of the ids or refuses before the first:
\* an adoption that has begun never ends in its undo branch.
THEOREM AdoptionIsWhole == Spec => AdoptedWhole
<1> DEFINE Whole == adopting # Idle /\ adopting' = Idle =>
                      \A f \in Fields :
                        LET i == adopting.before[Legacy(f)] IN
                        i # None => /\ registry'.ids[<<adopting.meter, f>>] = i
                                    /\ registry'.ids[Legacy(f)] = None
<1>1. IInv /\ [Next]_vars => [Whole]_vars
  <2> SUFFICES ASSUME IInv, Next, adopting # Idle, adopting' = Idle,
                      NEW f \in Fields, adopting.before[Legacy(f)] # None
               PROVE  /\ registry'.ids[<<adopting.meter, f>>] = adopting.before[Legacy(f)]
                      /\ registry'.ids[Legacy(f)] = None
    OBVIOUS
  <2>1. adopting.meter \in Meters /\ TurnOK(f)  BY DEF IInv, Sound
  <2>2. ~ \E h \in Fields : Adopt(h)
    <3> SUFFICES ASSUME NEW h \in Fields, Adopt(h)  PROVE FALSE  OBVIOUS
    <3>1. adopting' = [adopting EXCEPT !.todo = @ \ {h}]  BY TurnAdopts
    <3>2. adopting \in [meter : Meters \cup {None}, todo : SUBSET Fields,
                        before : [Keys -> IdsOrNone]]
      BY DEF IInv, TypeOK
    <3>3. adopting'.meter = adopting.meter  BY <3>1, <3>2
    <3>4. Idle.meter = None  BY DEF Idle
    <3> QED  BY <2>1, <3>3, <3>4, EntityIdsAssumption
  <2>3. Rename
    BY <2>2 DEF Next, SetupStep, SetupOf, Elsewhere, Resolve, SensorsAdded, AddSensor
  <2>4. adopting.todo = {} /\ registry \in Registries  BY <2>3 DEF Rename, IInv, TypeOK
  <2>5. /\ registry.ids[<<adopting.meter, f>>] = adopting.before[Legacy(f)]
        /\ registry.ids[Legacy(f)] = None /\ <<adopting.meter, f>> \notin named
    BY <2>1, <2>4 DEF TurnOK
  <2>6. /\ <<adopting.meter, f>> \in Keys /\ Legacy(f) \in Keys
        /\ Legacy(f)[1] = "modbus" /\ "modbus" \notin Meters
    BY <2>1, KeysApart, EntityIdsAssumption
  <2>7. registry'.ids[Legacy(f)] = None  BY <2>1, <2>3, <2>5, <2>6, RenameMoves
  <2>8. registry'.ids[<<adopting.meter, f>>] = registry.ids[<<adopting.meter, f>>]
    <3>1. ~Renames(registry, adopting.meter, <<adopting.meter, f>>)  BY <2>5 DEF Renames
    <3>2. registry' = [registry EXCEPT !.ids =
            [k \in Keys |-> IF Renames(registry, adopting.meter, k)
                              THEN Generated(DeviceName[adopting.meter], k[2])
                              ELSE registry.ids[k]]]
      BY <2>3 DEF Rename
    <3>3. registry'.ids =
            [k \in Keys |-> IF Renames(registry, adopting.meter, k)
                              THEN Generated(DeviceName[adopting.meter], k[2])
                              ELSE registry.ids[k]]
      BY <2>4, <3>2 DEF Registries
    <3> QED  BY <2>6, <3>1, <3>3
  <2> QED  BY <2>5, <2>7, <2>8
<1>2. Spec => [][Whole]_vars  BY <1>1, SpecIInv, PTL DEF Spec
<1> QED  BY <1>2 DEF AdoptedWhole

\* A setup removes a sensor only to give its id to the sensor of an entry that
\* has the same reading: no history is cut off.
THEOREM NoSensorIsLost == Spec => NoSensorLost
<1> DEFINE Given(k) == \E e \in Meters : registry'.ids[<<e, k[2]>>] = registry.ids[k]
<1> DEFINE Kept == SetupStep => \A k \in Keys :
                     registry.ids[k] # None /\ registry'.ids[k] = None => Given(k)
<1>1. IInv /\ [Next]_vars => [Kept]_vars
  <2> SUFFICES ASSUME IInv, SetupStep, NEW k \in Keys,
                      registry.ids[k] # None, registry'.ids[k] = None
               PROVE  Given(k)
    OBVIOUS
  <2>1. registry # registry'  OBVIOUS
  <2>2. registry \in Registries /\ Distinct(registry)  BY DEF IInv, TypeOK, IdsApart
  <2>3. ~ \E e \in Meters : Resolve(e) \/ SensorsAdded(e)
    BY <2>1 DEF Resolve, SensorsAdded
  <2>4. ~ Rename  BY RenameMoves
  <2>5. ~ \E e \in Meters, f \in Fields : AddSensor(e, f)
    <3> SUFFICES ASSUME NEW e \in Meters, NEW f \in Fields, AddSensor(e, f)  PROVE FALSE
      OBVIOUS
    <3>1. <<e, f>> \in Keys  BY KeysApart
    <3>2. Generated(DeviceName[e], f) \in Ids  BY GeneratedIsId DEF Names
    <3>3. registry' = Create(registry, <<e, f>>, Generated(DeviceName[e], f))
      BY DEF AddSensor
    <3> QED  BY <2>2, <3>1, <3>2, <3>3, CreateAddsOne
  <2>6. PICK f \in Fields : Adopt(f)  BY <2>3, <2>4, <2>5 DEF SetupStep, SetupOf
  <2>7. /\ adopting.meter \in Meters /\ registry.ids[Legacy(f)] # None
        /\ registry'.ids[<<adopting.meter, f>>] = registry.ids[Legacy(f)]
        /\ \A j \in Keys \ {<<adopting.meter, f>>, Legacy(f)} :
             registry'.ids[j] = registry.ids[j]
    BY <2>6, TurnAdopts
  <2>8. k = Legacy(f)  BY <2>7
  <2>9. k[2] = f  BY <2>7, <2>8, KeysApart
  <2> QED  BY <2>7, <2>8, <2>9
<1>2. Spec => [][Kept]_vars  BY <1>1, SpecIInv, PTL DEF Spec
<1> QED  BY <1>2 DEF NoSensorLost
=============================================================================
