-------------------------- MODULE ModulePagesProofs --------------------------
(* What the module pages promise, for any number of open pages, addresses, *)
(* host names and timeouts.                                                *)
EXTENDS ModulePages, TLAPS

\* What a page carries from its opening to its end: it knows every setting it
\* submits other than it read it, and a page that read the address in use read
\* the one its entry was reached at, or that DHCP gave it.
Carries(p) ==
  /\ page[p].step # "shown" =>
       \A k \in Keys : page[p].current[k] # page[p].settings[k] => k \in page[p].touched
  /\ page[p].applied = TRUE /\ page[p].opened \in Addresses =>
       page[p].opened = page[p].current.ip_address \/ page[p].current.dhcp = TRUE

\* The inductive invariant.
IInv ==
  /\ TypeOK
  /\ \A p \in Pages : page[p] \in Open => Carries(p)

AnyPage == Opening \cup Open \cup {Closed}

\* The step of a page tells what kind of record it is.
LEMMA PageKinds ==
  ASSUME NEW o \in AnyPage
  PROVE  /\ o \in Opening <=> o.step = "opening"
         /\ o \in Open <=> o.step \in {"shown", "writing", "written"}
         /\ o = Closed <=> o.step = "closed"
<1>1. \A q \in Opening : q.step = "opening"
  BY DEF Opening
<1>2. \A q \in Open : q.step \in {"shown", "writing", "written"}
  BY DEF Open
<1>3. Closed.step = "closed"
  BY DEF Closed
<1> QED
  BY <1>1, <1>2, <1>3 DEF AnyPage

\* A page that opens has read no address yet.
LEMMA OpeningPage ==
  ASSUME TypeOK, NEW p \in Pages, OpenPage(p)
  PROVE  page'[p] \in Opening /\ page'[p] \notin Open
<1> DEFINE o == [step |-> "opening", timeout |-> blocks.timeout, opened |-> host,
                 alive |-> TRUE]
<1>1. page'[p] = o
  BY DEF OpenPage, TypeOK
<1>2. o \in Opening
  BY DEF TypeOK, Opening, Settings
<1> HIDE DEF o
<1> QED
  BY <1>1, <1>2, PageKinds DEF AnyPage

\* A page just shown is an open one that carries what it should.
LEMMA ShownPage ==
  ASSUME TypeOK, NEW p \in Pages, ShowPage(p)
  PROVE  page'[p] \in Open /\ Carries(p)'
<1> DEFINE read == [blocks EXCEPT !.timeout = page[p].timeout]
           o == [step |-> "shown", current |-> read, settings |-> read,
                 touched |-> {}, failed |-> FALSE, opened |-> page[p].opened,
                 applied |-> NetworkInUse, seen |-> page[p].opened, alive |-> TRUE]
<1>1. page[p] \in Opening
  BY PageKinds DEF ShowPage, IsOpening, TypeOK, AnyPage
<1>2. page[p].timeout \in Timeouts /\ page[p].opened \in Addresses \cup Names
  BY <1>1 DEF Opening
<1>3. /\ read \in Settings /\ read.ip_address = blocks.ip_address
      /\ read.dhcp = blocks.dhcp
  BY <1>2 DEF TypeOK, Settings
<1>4. page'[p] = o
  BY DEF ShowPage, TypeOK
<1> HIDE DEF read
<1>5. NetworkInUse \in BOOLEAN
  BY DEF NetworkInUse
<1>6. o \in Open
  BY <1>2, <1>3, <1>5 DEF Open
<1>7. ASSUME NetworkInUse, page[p].opened \in Addresses
      PROVE  page[p].opened = read.ip_address \/ read.dhcp = TRUE
  <2>1. Reaches(page[p].opened) /\ page[p].opened \notin Names
    BY <1>7, ModulePagesAssumption DEF ShowPage, CanRead
  <2>2. page[p].opened = ModuleAt /\ inUse.dhcp \in BOOLEAN
    BY <2>1 DEF Reaches, TypeOK, Settings
  <2> QED
    BY <1>3, <1>7, <2>2 DEF ModuleAt, NetworkInUse
<1>8. /\ o.step = "shown" /\ o.opened = page[p].opened /\ o.current = read
      /\ o.applied = NetworkInUse
  OBVIOUS
<1> HIDE DEF o
<1>9. o.applied = TRUE /\ o.opened \in Addresses =>
        o.opened = o.current.ip_address \/ o.current.dhcp = TRUE
  BY <1>7, <1>8
<1>10. Carries(p)'
  BY <1>4, <1>8, <1>9 DEF Carries
<1> QED
  BY <1>4, <1>6, <1>10

\* The same, from one step to the next, of a page that keeps what Carries is about.
LEMMA CarriesOn ==
  ASSUME NEW p \in Pages, Carries(p),
         page'[p].current = page[p].current,
         page'[p].settings = page[p].settings,
         page'[p].touched = page[p].touched,
         page'[p].applied = page[p].applied,
         page'[p].opened = page[p].opened,
         page'[p].step = "shown" \/ page[p].step # "shown"
  PROVE  Carries(p)'
BY DEF Carries

\* A page that is submitted carries on with what it submits.
LEMMA SubmittedPage ==
  ASSUME TypeOK, NEW p \in Pages, NEW s \in Settings, Submit(p, s), Carries(p)
  PROVE  page'[p] = Closed \/ (page'[p] \in Open /\ Carries(p)')
<1> DEFINE o == [page[p] EXCEPT !.step = "writing", !.settings = s,
                  !.touched = @ \cup {k \in Keys : page[p].current[k] # s[k]},
                  !.seen = host, !.alive = TRUE]
<1>1. page[p] \in Open
  BY PageKinds DEF Submit, TypeOK, AnyPage
<1>2. page'[p] = Closed \/ page'[p] = o
  BY DEF Submit, TypeOK
<1>3. o \in Open
  BY <1>1 DEF Open, TypeOK
<1>4. /\ o.current = page[p].current /\ o.settings = s
      /\ o.touched = page[p].touched \cup {k \in Keys : page[p].current[k] # s[k]}
      /\ o.applied = page[p].applied /\ o.opened = page[p].opened
  BY <1>1 DEF Open
<1> HIDE DEF o
<1>5. ASSUME page'[p] = o PROVE Carries(p)'
  BY <1>4, <1>5 DEF Carries
<1> QED
  BY <1>2, <1>3, <1>5

\* What a write makes of the registers is a whole set of settings.
LEMMA ResultType ==
  ASSUME TypeOK, NEW p \in Pages, page[p] \in Open
  PROVE  Result(p) \in Settings
<1>1. page[p].settings \in Settings /\ blocks \in Settings
  BY DEF TypeOK, Open
<1>2. /\ Result(p) = [k \in Keys |-> Result(p)[k]]
      /\ \A k \in Keys : Result(p)[k] \in {page[p].settings[k], blocks[k]}
  BY DEF Result
<1> DEFINE r == [timeout |-> Result(p)["timeout"], dhcp |-> Result(p)["dhcp"],
                 ip_address |-> Result(p)["ip_address"]]
<1>3. r \in Settings
  BY <1>1, <1>2 DEF Settings, Keys
<1>4. Result(p) = r
  BY <1>2 DEF Keys
<1> QED
  BY <1>3, <1>4

\* A reload only takes the API object from under the pages that wait for it.
LEMMA ReloadedPage ==
  ASSUME NEW f \in [Pages -> AnyPage], NEW p \in Pages
  PROVE  /\ Reloading(f)[p] = f[p]
            \/ /\ f[p] # Closed /\ f[p].step \in {"opening", "writing"}
               /\ Reloading(f)[p] = [f[p] EXCEPT !.alive = FALSE]
               /\ Reloading(f)[p].step = f[p].step
         /\ Reloading(f)[p] \in AnyPage
         /\ Reloading(f)[p] \in Open <=> f[p] \in Open
<1> DEFINE o == [f[p] EXCEPT !.alive = FALSE]
<1>1. ASSUME f[p] \in Open PROVE o \in Open /\ o.step = f[p].step
  BY <1>1 DEF Open
<1>2. ASSUME f[p] \in Opening PROVE o \in Opening /\ o.step = f[p].step
  BY <1>2 DEF Opening
<1>3. \/ Reloading(f)[p] = f[p]
      \/ f[p] # Closed /\ f[p].step \in {"opening", "writing"} /\ Reloading(f)[p] = o
  BY DEF Reloading
<1> HIDE DEF o
<1>4. CASE f[p] # Closed
  <2>1. f[p] \in Open \/ f[p] \in Opening
    BY <1>4 DEF AnyPage
  <2> QED
    BY <1>1, <1>2, <1>3, <2>1, PageKinds DEF AnyPage, o
<1>5. CASE f[p] = Closed
  BY <1>3, <1>5
<1> QED
  BY <1>4, <1>5

-----------------------------------------------------------------------------

\* The settings are read, written and lost whole.
LEMMA SettingsFields ==
  ASSUME NEW a \in Settings, NEW b \in Settings
  PROVE  /\ [a EXCEPT !.timeout = b.timeout] \in Settings
         /\ (\A k \in Keys : a[k] = b[k]) => a = b
BY DEF Settings, Keys

\* Before anything happened every page is closed.
LEMMA InitIInv == Init => IInv
<1> SUFFICES ASSUME Init PROVE IInv
  OBVIOUS
<1>1. TypeOK
  BY ModulePagesAssumption DEF Init, TypeOK
<1>2. \A p \in Pages : page[p] = Closed
  BY DEF Init
<1>3. Closed \notin Open
  BY PageKinds DEF AnyPage, Closed
<1> QED
  BY <1>1, <1>2, <1>3 DEF IInv

\* What a step does to one page keeps the invariant of that page; the module,
\* the entry and the network keep their types.
LEMMA PageStep ==
  ASSUME IInv, NEW p \in Pages,
         \/ OpenPage(p) \/ ShowPage(p) \/ OpenFails(p) \/ Leave(p)
         \/ \E s \in Settings : Submit(p, s)
         \/ WriteStored(p) \/ WriteFails(p)
  PROVE  IInv'
<1>0. TypeOK /\ \A q \in Pages : page[q] \in Open => Carries(q)
  BY DEF IInv
<1> SUFFICES
      /\ blocks' \in Settings /\ stored' \in Settings /\ inUse' \in Settings
      /\ lease' = lease /\ host' = host /\ entry' = entry /\ events' \in Nat
      /\ page' = [page EXCEPT ![p] = page'[p]]
      /\ page'[p] \in AnyPage /\ (page'[p] \in Open => Carries(p)')
  <2> DEFINE o == page'[p]
  <2>1. o \in AnyPage
    OBVIOUS
  <2> HIDE DEF o
  <2>2. page' = [page EXCEPT ![p] = o]
    BY DEF o
  <2>3. TypeOK'
    BY <1>0, <2>1, <2>2 DEF TypeOK, AnyPage
  <2>4. ASSUME NEW q \in Pages, page'[q] \in Open PROVE Carries(q)'
    <3>1. CASE q = p
      BY <2>4, <3>1
    <3>2. CASE q # p
      <4>1. page'[q] = page[q]
        BY <1>0, <2>2, <3>2 DEF TypeOK
      <4> QED
        BY <1>0, <2>4, <4>1, CarriesOn
    <3> QED
      BY <3>1, <3>2
  <2> QED
    BY <2>3, <2>4 DEF IInv
<1>1. CASE OpenPage(p)
  <2>1. page'[p] \in AnyPage /\ page'[p] \notin Open
    BY <1>0, <1>1, OpeningPage DEF AnyPage
  <2>2. /\ page' = [page EXCEPT ![p] = page'[p]]
        /\ UNCHANGED <<module, lease, host, entry>> /\ events' \in Nat
    BY <1>0, <1>1 DEF OpenPage, Spend, TypeOK
  <2> QED
    BY <1>0, <2>1, <2>2 DEF TypeOK, module
<1>2. CASE ShowPage(p)
  <2>1. page'[p] \in AnyPage /\ Carries(p)'
    BY <1>0, <1>2, ShownPage DEF AnyPage
  <2>2. /\ page' = [page EXCEPT ![p] = page'[p]]
        /\ UNCHANGED <<module, lease, host, entry, events>>
    BY <1>0, <1>2 DEF ShowPage, TypeOK
  <2> QED
    BY <1>0, <2>1, <2>2 DEF TypeOK, module
<1>3. CASE OpenFails(p) \/ Leave(p)
  <2>1. /\ page' = [page EXCEPT ![p] = Closed] /\ page'[p] = Closed
        /\ UNCHANGED <<module, lease, host, entry>> /\ events' \in Nat
    BY <1>0, <1>3 DEF OpenFails, Leave, Spend, TypeOK
  <2>2. Closed \in AnyPage /\ Closed \notin Open
    BY PageKinds DEF AnyPage, Closed
  <2> QED
    BY <1>0, <2>1, <2>2 DEF TypeOK, module
<1>4. ASSUME NEW s \in Settings, Submit(p, s)
      PROVE  /\ page' = [page EXCEPT ![p] = page'[p]]
             /\ UNCHANGED <<module, lease, host, entry, events>>
             /\ page'[p] \in AnyPage /\ (page'[p] \in Open => Carries(p)')
  <2>1. page[p] \in Open
    BY <1>0, <1>4, PageKinds DEF Submit, TypeOK, AnyPage
  <2>2. page'[p] = Closed \/ (page'[p] \in Open /\ Carries(p)')
    BY <1>0, <1>4, <2>1, SubmittedPage
  <2>3. Closed \notin Open
    BY PageKinds DEF AnyPage, Closed
  <2> QED
    BY <1>0, <1>4, <2>2, <2>3 DEF Submit, TypeOK, AnyPage
<1>5. CASE WriteStored(p)
  <2>1. page[p] \in Open /\ page[p].step = "writing" /\ Carries(p)
    BY <1>0, <1>5, PageKinds DEF WriteStored, Writing, TypeOK, AnyPage
  <2> DEFINE o == [page[p] EXCEPT !.step = "written"]
  <2>2. page' = [page EXCEPT ![p] = o] /\ page'[p] = o
    BY <1>0, <1>5 DEF WriteStored, TypeOK
  <2>3. o \in Open
    BY <2>1 DEF Open
  <2>4. Carries(p)'
    BY <2>1, <2>2, CarriesOn DEF Open
  <2>5. Result(p) \in Settings
    BY <1>0, <2>1, ResultType
  <2>6. /\ blocks' \in Settings /\ stored' \in Settings /\ inUse' \in Settings
        /\ lease' = lease /\ host' = host /\ entry' = entry /\ events' \in Nat
    BY <1>0, <1>5, <2>5 DEF WriteStored, Spend, TypeOK
  <2> QED
    BY <2>2, <2>3, <2>4, <2>6 DEF AnyPage
<1>6. CASE WriteFails(p)
  <2>1. page[p] \in Open /\ page[p].step = "writing" /\ Carries(p)
    BY <1>0, <1>6, PageKinds DEF WriteFails, Writing, TypeOK, AnyPage
  <2> DEFINE o == [page[p] EXCEPT !.step = "shown", !.failed = TRUE, !.alive = TRUE,
                    !.settings = page[p].current, !.seen = page[p].opened]
  <2>2. page' = [page EXCEPT ![p] = o] /\ page'[p] = o
    BY <1>0, <1>6 DEF WriteFails, TypeOK
  <2>3. o \in Open
    BY <2>1 DEF Open
  <2>4. Carries(p)'
    <3>1. /\ o.step = "shown" /\ o.applied = page[p].applied
          /\ o.opened = page[p].opened /\ o.current = page[p].current
      BY <2>1 DEF Open
    <3> HIDE DEF o
    <3> QED
      BY <2>1, <2>2, <3>1 DEF Carries
  <2>5. Result(p) \in Settings /\ [blocks EXCEPT !.timeout = Result(p).timeout] \in Settings
    BY <1>0, <2>1, ResultType, SettingsFields DEF TypeOK
  <2>6. /\ blocks' \in Settings /\ stored' \in Settings /\ inUse' \in Settings
        /\ lease' = lease /\ host' = host /\ entry' = entry /\ events' \in Nat
    BY <1>0, <1>6, <2>5 DEF WriteFails, Spend, TypeOK
  <2> QED
    BY <2>2, <2>3, <2>4, <2>6 DEF AnyPage
<1> QED
  <2>1. CASE \E s \in Settings : Submit(p, s)
    BY <1>0, <1>4, <2>1 DEF TypeOK, module
  <2> QED
    BY <1>1, <1>2, <1>3, <1>5, <1>6, <2>1

\* A reload, with page p gone or with all pages as they were.
LEMMA ReloadStep ==
  ASSUME IInv, NEW f \in [Pages -> AnyPage],
         \A q \in Pages : f[q] \in {page[q], Closed},
         page' = Reloading(f),
         UNCHANGED module, lease' = lease, events' \in Nat,
         host' \in Addresses \cup Names, entry' \in {"loaded", "reloading", "removed"}
  PROVE  IInv'
<1>0. TypeOK /\ \A q \in Pages : page[q] \in Open => Carries(q)
  BY DEF IInv
<1>1. TypeOK'
  <2>1. page' \in [Pages -> AnyPage]
    BY ReloadedPage DEF Reloading
  <2> QED
    BY <1>0, <2>1 DEF TypeOK, AnyPage, module
<1>2. ASSUME NEW q \in Pages, page'[q] \in Open PROVE Carries(q)'
  <2>1. f[q] \in Open /\ (page'[q] = f[q] \/ page'[q] = [f[q] EXCEPT !.alive = FALSE])
    BY <1>2, ReloadedPage
  <2>2. Closed \notin Open
    BY PageKinds DEF AnyPage, Closed
  <2>3. f[q] = page[q] /\ page[q] \in Open /\ Carries(q)
    BY <1>0, <2>1, <2>2
  <2>4. CASE page'[q] = f[q]
    BY <2>3, <2>4, CarriesOn
  <2>5. CASE page'[q] = [f[q] EXCEPT !.alive = FALSE]
    <3>1. /\ page'[q].current = page[q].current /\ page'[q].settings = page[q].settings
          /\ page'[q].touched = page[q].touched /\ page'[q].applied = page[q].applied
          /\ page'[q].opened = page[q].opened /\ page'[q].step = page[q].step
      BY <2>3, <2>5 DEF Open
    <3> QED
      BY <2>3, <3>1, CarriesOn
  <2> QED
    BY <2>1, <2>4, <2>5
<1> QED
  BY <1>1, <1>2 DEF IInv

\* A step that leaves the pages alone keeps what they carry.
LEMMA PagesKept ==
  ASSUME IInv, TypeOK', page' = page
  PROVE  IInv'
BY CarriesOn DEF IInv

\* Every step keeps the invariant.
LEMMA StepIInv == ASSUME IInv, [Next]_vars PROVE IInv'
<1>0. TypeOK
  BY DEF IInv
<1>1. CASE UNCHANGED vars
  <2>1. TypeOK' /\ page' = page
    BY <1>0, <1>1 DEF vars, module, TypeOK
  <2> QED
    BY <2>1, PagesKept
<1>2. ASSUME NEW p \in Pages,
             \/ OpenPage(p) \/ ShowPage(p) \/ OpenFails(p) \/ Leave(p)
             \/ \E s \in Settings : Submit(p, s)
             \/ WriteStored(p) \/ WriteFails(p)
      PROVE  IInv'
  BY <1>2, PageStep
<1>3. ASSUME NEW p \in Pages, PageDone(p) PROVE IInv'
  <2> DEFINE f == [page EXCEPT ![p] = Closed]
  <2>1. f \in [Pages -> AnyPage] /\ \A q \in Pages : f[q] \in {page[q], Closed}
    BY <1>0 DEF TypeOK, AnyPage
  <2>2. page[p] \in Open
    BY <1>0, <1>3, PageKinds DEF PageDone, TypeOK, AnyPage
  <2>3. page[p].settings.ip_address \in Addresses
    BY <2>2 DEF Open, Settings
  <2>4. host' \in Addresses \cup Names /\ entry' \in {"loaded", "reloading", "removed"}
    BY <1>0, <1>3, <2>3 DEF PageDone, TypeOK
  <2>5. page' = Reloading(f) /\ UNCHANGED module /\ lease' = lease /\ events' \in Nat
    BY <1>0, <1>3 DEF PageDone, TypeOK
  <2> HIDE DEF f
  <2> QED
    BY <2>1, <2>4, <2>5, ReloadStep
<1>4. CASE ReloadDone
  <2>1. TypeOK' /\ page' = page
    BY <1>0, <1>4 DEF ReloadDone, module, TypeOK
  <2> QED
    BY <2>1, PagesKept
<1>5. CASE HostChanged
  <2>1. /\ page \in [Pages -> AnyPage]
        /\ host' \in Addresses \cup Names /\ entry' = "reloading"
        /\ page' = Reloading(page) /\ UNCHANGED module /\ lease' = lease /\ events' \in Nat
    BY <1>0, <1>5 DEF HostChanged, Spend, TypeOK, AnyPage, ModuleAt, Settings
  <2> QED
    BY <2>1, ReloadStep
<1>6. CASE RemoveEntry
  <2>1. /\ page \in [Pages -> AnyPage]
        /\ host' \in Addresses \cup Names /\ entry' = "removed"
        /\ page' = Reloading(page) /\ UNCHANGED module /\ lease' = lease /\ events' \in Nat
    BY <1>0, <1>6 DEF RemoveEntry, Spend, TypeOK, AnyPage
  <2> QED
    BY <2>1, ReloadStep
<1>7. CASE ToolWrites \/ ModuleRestarts
  <2>1. TypeOK' /\ page' = page
    BY <1>0, <1>7 DEF ToolWrites, ModuleRestarts, Spend, TypeOK
  <2> QED
    BY <2>1, PagesKept
<1> QED
  BY <1>1, <1>2, <1>3, <1>4, <1>5, <1>6, <1>7 DEF Next

\* The inductive invariant holds in every state of the pages.
THEOREM SpecIInv == Spec => []IInv
BY InitIInv, StepIInv, PTL DEF Spec

\* Every variable of the pages keeps its type.
THEOREM TypeCorrect == Spec => []TypeOK
<1>1. IInv => TypeOK
  BY DEF IInv
<1> QED
  BY <1>1, SpecIInv, PTL

-----------------------------------------------------------------------------

\* Only its own write takes a page from writing to written.
LEMMA ThroughIsWriteStored ==
  ASSUME IInv, Next, NEW p \in Pages, Through(p)
  PROVE  WriteStored(p) /\ page[p] \in Open
<1>0. /\ TypeOK /\ page[p] \in Open /\ page[p].step = "writing"
      /\ page'[p] # Closed /\ page'[p].step = "written"
  BY PageKinds DEF IInv, Through, Writing, TypeOK, AnyPage
<1>1. page'[p] # page[p]
  BY <1>0
<1>2. ASSUME NEW q \in Pages, OpenPage(q) \/ ShowPage(q) \/ OpenFails(q) \/ Leave(q)
      PROVE  FALSE
  BY <1>0, <1>2 DEF OpenPage, ShowPage, OpenFails, IsOpening, Leave, TypeOK
<1>3. ASSUME NEW q \in Pages, NEW s \in Settings, Submit(q, s) PROVE FALSE
  BY <1>0, <1>3 DEF Submit, TypeOK
<1>4. ASSUME NEW q \in Pages, WriteFails(q) PROVE FALSE
  <2>1. CASE q = p
    <3>1. page'[p].step = "shown"
      BY <1>0, <1>4, <2>1 DEF WriteFails, TypeOK, Open
    <3> QED
      BY <1>0, <3>1
  <2>2. CASE q # p
    BY <1>0, <1>4, <2>2 DEF WriteFails, TypeOK
  <2> QED
    BY <2>1, <2>2
<1>5. ASSUME NEW q \in Pages, WriteStored(q) PROVE q = p
  BY <1>0, <1>5 DEF WriteStored, TypeOK
<1>6. ASSUME NEW f \in [Pages -> AnyPage], f[p] \in {page[p], Closed},
             page' = Reloading(f)
      PROVE  FALSE
  <2>1. CASE page'[p] = f[p]
    BY <1>0, <1>6, <2>1
  <2>2. CASE f[p] # Closed /\ page'[p].step = f[p].step
    BY <1>0, <1>6, <2>2
  <2> QED
    BY <1>6, <2>1, <2>2, ReloadedPage
<1>7. ASSUME NEW q \in Pages, PageDone(q) PROVE FALSE
  <2> DEFINE f == [page EXCEPT ![q] = Closed]
  <2>1. f \in [Pages -> AnyPage] /\ f[p] \in {page[p], Closed}
    BY <1>0 DEF TypeOK, AnyPage
  <2>2. page' = Reloading(f)
    BY <1>7 DEF PageDone
  <2> HIDE DEF f
  <2> QED
    BY <1>6, <2>1, <2>2
<1>8. CASE HostChanged \/ RemoveEntry
  <2>1. page' = Reloading(page) /\ page \in [Pages -> AnyPage]
    BY <1>0, <1>8 DEF HostChanged, RemoveEntry, TypeOK, AnyPage
  <2> QED
    BY <1>6, <2>1
<1>9. CASE ReloadDone \/ ToolWrites \/ ModuleRestarts
  BY <1>1, <1>9 DEF ReloadDone, ToolWrites, ModuleRestarts
<1> QED
  BY <1>0, <1>2, <1>3, <1>4, <1>5, <1>7, <1>8, <1>9 DEF Next

\* Only its own end closes a page whose write went through.
LEMMA DoneIsPageDone ==
  ASSUME IInv, Next, NEW p \in Pages, Done(p)
  PROVE  PageDone(p) /\ page[p] \in Open
<1>0. /\ TypeOK /\ page[p] \in Open /\ page[p].step = "written"
      /\ page[p] # Closed /\ page'[p] = Closed
  BY PageKinds DEF IInv, Done, TypeOK, AnyPage
<1>1. ASSUME NEW q \in Pages, OpenPage(q) PROVE FALSE
  BY <1>0, <1>1, OpeningPage, PageKinds DEF OpenPage, TypeOK, AnyPage
<1>2. ASSUME NEW q \in Pages, ShowPage(q) \/ OpenFails(q) \/ Leave(q) PROVE FALSE
  BY <1>0, <1>2 DEF ShowPage, OpenFails, IsOpening, Leave, TypeOK
<1>3. ASSUME NEW q \in Pages, NEW s \in Settings, Submit(q, s) PROVE FALSE
  BY <1>0, <1>3 DEF Submit, TypeOK
<1>4. ASSUME NEW q \in Pages, WriteStored(q) \/ WriteFails(q) PROVE FALSE
  BY <1>0, <1>4 DEF WriteStored, WriteFails, Writing, TypeOK
<1>5. ASSUME NEW f \in [Pages -> AnyPage], f[p] = page[p],
             page' = Reloading(f)
      PROVE  FALSE
  BY <1>0, <1>5, ReloadedPage
<1>6. ASSUME NEW q \in Pages, PageDone(q), q # p PROVE FALSE
  <2> DEFINE f == [page EXCEPT ![q] = Closed]
  <2>1. f \in [Pages -> AnyPage] /\ f[p] = page[p]
    BY <1>0, <1>6 DEF TypeOK, AnyPage
  <2>2. page' = Reloading(f)
    BY <1>6 DEF PageDone
  <2> HIDE DEF f
  <2> QED
    BY <1>5, <2>1, <2>2
<1>7. CASE HostChanged \/ RemoveEntry
  <2>1. page' = Reloading(page) /\ page \in [Pages -> AnyPage]
    BY <1>0, <1>7 DEF HostChanged, RemoveEntry, TypeOK, AnyPage
  <2> QED
    BY <1>5, <2>1
<1>8. CASE ReloadDone \/ ToolWrites \/ ModuleRestarts
  BY <1>0, <1>8 DEF ReloadDone, ToolWrites, ModuleRestarts
<1> QED
  BY <1>0, <1>1, <1>2, <1>3, <1>4, <1>6, <1>7, <1>8 DEF Next

\* A page whose write failed leaves the module with exactly what it shows.
THEOREM RetriesHeal == Spec => RetryHeals
<1> DEFINE A == \A p \in Pages :
                  Through(p) /\ page[p].failed =>
                    blocks' = page[p].settings /\ stored' = page[p].settings
<1>1. IInv /\ [Next]_vars => [A]_vars
  <2> SUFFICES ASSUME IInv, Next, NEW p \in Pages, Through(p), page[p].failed
               PROVE  blocks' = page[p].settings /\ stored' = page[p].settings
    OBVIOUS
  <2>1. WriteStored(p) /\ page[p] \in Open
    BY ThroughIsWriteStored
  <2>2. Result(p) \in Settings /\ page[p].settings \in Settings
    BY <2>1, ResultType DEF IInv, Open
  <2>3. \A k \in Keys : Result(p)[k] = page[p].settings[k]
    BY DEF Result, WrittenKeys
  <2>4. Result(p) = page[p].settings
    BY <2>2, <2>3, SettingsFields
  <2> QED
    BY <2>1, <2>4 DEF WriteStored
<1>2. Spec => [][A]_vars
  BY <1>1, SpecIInv, PTL DEF Spec
<1> QED
  BY <1>2 DEF RetryHeals

\* A first write takes back no change the module got since the page was read.
THEOREM FirstWritesKeepOthers == Spec => FirstWriteKeepsOthers
<1> DEFINE A == \A p \in Pages :
                  Through(p) /\ ~page[p].failed =>
                    \A k \in Untouched(p) : stored'[k] = blocks[k]
<1>1. IInv /\ [Next]_vars => [A]_vars
  <2> SUFFICES ASSUME IInv, Next, NEW p \in Pages, Through(p), ~page[p].failed,
                      NEW k \in Untouched(p)
               PROVE  stored'[k] = blocks[k]
    OBVIOUS
  <2>1. WriteStored(p) /\ page[p] \in Open
    BY ThroughIsWriteStored
  <2>2. k \in Keys /\ k \notin page[p].touched
    BY DEF Untouched
  <2>3. Carries(p) /\ page[p].step # "shown"
    BY <2>1 DEF IInv, Through, Writing
  <2>4. page[p].current[k] = page[p].settings[k]
    BY <2>2, <2>3 DEF Carries
  <2>5. k \notin WrittenKeys(p, page[p].settings)
    BY <2>4 DEF WrittenKeys
  <2>6. Result(p)[k] = blocks[k]
    BY <2>2, <2>5 DEF Result
  <2> QED
    BY <2>1, <2>6 DEF WriteStored
<1>2. Spec => [][A]_vars
  BY <1>1, SpecIInv, PTL DEF Spec
<1> QED
  BY <1>2 DEF FirstWriteKeepsOthers

\* An entry reached by an address ends where the module goes.
THEOREM EntryFollows == Spec => EntryFollowsModule
<1> DEFINE A == \A p \in Pages :
                  Done(p) /\ SameEntry(p) /\ page[p].applied /\ stored = page[p].settings =>
                    stored.dhcp \/ host' = stored.ip_address
<1>1. IInv /\ [Next]_vars => [A]_vars
  <2> SUFFICES ASSUME IInv, Next, NEW p \in Pages, Done(p), SameEntry(p),
                      page[p].applied, stored = page[p].settings, ~stored.dhcp
               PROVE  host' = stored.ip_address
    OBVIOUS
  <2>1. PageDone(p) /\ page[p] \in Open /\ Carries(p)
    BY DoneIsPageDone DEF IInv, Done
  <2>2. /\ entry # "removed" /\ host \in Addresses
        /\ page[p].opened = host /\ page[p].seen = host
    BY DEF SameEntry
  <2>3. host' = IF Follows(p) THEN page[p].settings.ip_address ELSE host
    BY <2>1, <2>2 DEF PageDone
  <2>4. page[p].applied = TRUE /\ page[p].applied \in BOOLEAN
    BY <2>1 DEF Open
  <2>5. page[p].opened = page[p].current.ip_address \/ page[p].current.dhcp = TRUE
    BY <2>1, <2>2, <2>4 DEF Carries
  <2>6. ReachedTheModule(p)
    BY <2>2, <2>5 DEF ReachedTheModule
  <2>7. CASE host = page[p].settings.ip_address
    BY <2>3, <2>7
  <2>8. CASE host # page[p].settings.ip_address
    <3>1. Follows(p)
      BY <2>2, <2>6, <2>8 DEF Follows
    <3> QED
      BY <2>3, <3>1
  <2> QED
    BY <2>7, <2>8
<1>2. Spec => [][A]_vars
  BY <1>1, SpecIInv, PTL DEF Spec
<1> QED
  BY <1>2 DEF EntryFollowsModule
=============================================================================
