-------------------------- MODULE WagoModuleProofs --------------------------
(***************************************************************************)
(* The writes of WagoModule keep what FieldWrites promises, for any number *)
(* of writers, fields and values.                                          *)
(*                                                                         *)
(* The argument: a writer whose requests still reach the module holds the  *)
(* lock (HolderInv), so between its first read and its last write nothing  *)
(* but its own requests changes the blocks, and what it holds of them is   *)
(* what they hold, but for its own changes (Snapshot).  Writing whole      *)
(* blocks is then the same as writing the changed fields.                  *)
(* A second invariant, of the lock alone, says that nobody waits for it in *)
(* vain (LineInv).                                                         *)
(***************************************************************************)
EXTENDS WagoModule, SequenceTheorems, TLAPS

Live(w) == pc[w] \in Critical /\ w \notin stale

HolderInv == \A w \in Writers : Live(w) => lock = w

Snapshot(w) ==
  /\ pc[w] = "read_network" =>
       \A f \in SettingsFields : words[w][f] = blocks[f]
  /\ pc[w] \in {"write_settings", "write_network"} =>
       words[w] = Merged(blocks, changes[w])
  /\ pc[w] = "write_network" =>
       \A f \in SettingsFields : words[w][f] = blocks[f]
  /\ pc[w] = "store" => blocks = Merged(blocks, changes[w])
  /\ pc[w] = "apply" => stored = Merged(stored, changes[w])

SnapshotInv == \A w \in Writers : Live(w) => Snapshot(w)

IInv == TypeOK /\ HolderInv /\ SnapshotInv

LEMMA MergedType ==
  ASSUME NEW old \in Registers, NEW c \in Changes
  PROVE  Merged(old, c) \in Registers
BY SMT DEF Merged, Registers, Changes

LEMMA WithBlockType ==
  ASSUME NEW old \in Registers, NEW new \in Registers, NEW block
  PROVE  WithBlock(old, block, new) \in Registers
BY SMT DEF WithBlock, Registers

LEMMA InitIInv == Init => IInv
BY WagoModuleAssumption, SMT DEF Init, IInv, TypeOK, HolderInv, SnapshotInv, Live,
   Critical, Reading, Writing, Ended, Changes, Nothing

-----------------------------------------------------------------------------
(* The lock.                                                               *)

\* Only the first in the queue, or nobody, has the lock after its holder.
LEMMA ReleaseFact ==
  ASSUME TypeOK, NEW w \in Writers, Release(w)
  PROVE  /\ lock' \in Writers \cup {Free} /\ queue' \in Seq(Writers)
         /\ lock # w => lock' = lock
<1>1. CASE lock # w
  BY <1>1 DEF Release, TypeOK
<1>2. CASE lock = w /\ queue = <<>>
  BY <1>2 DEF Release, TypeOK
<1>3. CASE lock = w /\ queue # <<>>
  <2>1. Head(queue) \in Writers /\ Tail(queue) \in Seq(Writers)
    BY <1>3, HeadTailProperties DEF TypeOK
  <2>2. QED
    BY <1>3, <2>1 DEF Release
<1>4. QED
  BY <1>1, <1>2, <1>3

\* A write that ends leaves every other writer as it was.
LEMMA EndsFact ==
  ASSUME IInv, NEW w \in Writers, NEW how \in Ended, Ends(w, how)
  PROVE  /\ lock' \in Writers \cup {Free} /\ queue' \in Seq(Writers)
         /\ pc' \in [Writers -> Ended \cup {"waiting"} \cup Critical]
         /\ changes' \in [Writers -> Changes] /\ words' \in [Writers -> Changes]
         /\ stale' \subseteq Writers
         /\ HolderInv'
         /\ \A v \in Writers : Live(v)' =>
              /\ v # w /\ Live(v)
              /\ pc'[v] = pc[v] /\ changes'[v] = changes[v] /\ words'[v] = words[v]
<1> USE DEF IInv, TypeOK
<1>1. Nothing \in Changes
  BY DEF Nothing, Changes
<1>2. lock' \in Writers \cup {Free} /\ queue' \in Seq(Writers) /\ (lock # w => lock' = lock)
  BY ReleaseFact DEF Ends
<1>3. /\ pc' = [pc EXCEPT ![w] = how] /\ stale' = stale \ {w}
      /\ changes' = [changes EXCEPT ![w] = Nothing]
      /\ words' = [words EXCEPT ![w] = Nothing]
  BY DEF Ends
<1>4. \A v \in Writers : Live(v)' => v # w /\ Live(v)
  BY <1>3, SMT DEF Live, Critical, Reading, Writing, Ended
<1>5. ASSUME NEW v \in Writers, Live(v)' PROVE lock' = v
  <2>1. v # w /\ Live(v)
    BY <1>4, <1>5
  <2>2. lock = v
    BY <2>1 DEF HolderInv
  <2>3. QED
    BY <1>2, <2>1, <2>2
<1>6. HolderInv'
  BY <1>5 DEF HolderInv
<1>7. QED
  BY <1>1, <1>2, <1>3, <1>4, <1>6, SMT

\* What the lock is for: two live writers are one.
LEMMA OneLive ==
  ASSUME IInv, NEW v \in Writers, NEW w \in Writers, Live(v), Live(w)
  PROVE  v = w
BY DEF IInv, HolderInv

-----------------------------------------------------------------------------
(* The requests.                                                           *)

\* A live writer's request sets its own fields of one block to its changes,
\* copies the blocks to the flash, or the flash to what is in use.
LEMMA LandsFact ==
  ASSUME IInv, NEW w \in Writers, Live(w), Lands(w)
  PROVE  /\ blocks' \in Registers /\ stored' \in Registers /\ inUse' \in Registers
         /\ \/ /\ pc[w] = "write_settings"
               /\ blocks' = FieldWrites!Changed(blocks, changes[w], SettingsFields)
               /\ blocks' = WithBlock(blocks, SettingsFields, words[w])
               /\ UNCHANGED <<stored, inUse>>
            \/ /\ pc[w] = "write_network"
               /\ blocks' = FieldWrites!Changed(blocks, changes[w], NetworkFields)
               /\ blocks' = WithBlock(blocks, NetworkFields, words[w])
               /\ UNCHANGED <<stored, inUse>>
            \/ pc[w] = "store" /\ stored' = blocks /\ UNCHANGED <<blocks, inUse>>
            \/ pc[w] = "apply" /\ inUse' = stored /\ UNCHANGED <<blocks, stored>>
<1> USE DEF IInv, TypeOK
<1>1. Snapshot(w)
  BY DEF SnapshotInv
<1>2. ASSUME words[w] = Merged(blocks, changes[w]), NEW block
      PROVE  /\ WithBlock(blocks, block, words[w])
                  = FieldWrites!Changed(blocks, changes[w], block)
             /\ WithBlock(blocks, block, words[w]) \in Registers
  <2>1. changes[w] \in Changes
    OBVIOUS
  <2>2. words[w] \in Registers
    BY <1>2, <2>1, MergedType
  <2>3. WithBlock(blocks, block, words[w]) \in Registers
    BY <2>2, WithBlockType
  <2>4. ASSUME NEW f \in Fields
        PROVE  (IF f \in block THEN words[w][f] ELSE blocks[f])
                 = IF f \in block /\ changes[w][f] # Keep THEN changes[w][f] ELSE blocks[f]
    BY <1>2 DEF Merged
  <2>5. WithBlock(blocks, block, words[w])
          = FieldWrites!Changed(blocks, changes[w], block)
    BY <2>4 DEF WithBlock, FieldWrites!Changed, Fields, FieldWrites!Fields
  <2>6. QED
    BY <2>3, <2>5
<1>3. CASE pc[w] = "write_settings"
  BY <1>1, <1>2, <1>3 DEF Lands, Snapshot
<1>4. CASE pc[w] = "write_network"
  BY <1>1, <1>2, <1>4 DEF Lands, Snapshot
<1>5. CASE pc[w] = "store"
  BY <1>5 DEF Lands
<1>6. CASE pc[w] = "apply"
  BY <1>6 DEF Lands
<1>7. QED
  BY <1>3, <1>4, <1>5, <1>6 DEF Lands

\* A writer for which nothing changed holds what it held.
LEMMA SameSnapshot ==
  ASSUME NEW v \in Writers, Snapshot(v), UNCHANGED registers,
         pc'[v] = pc[v], changes'[v] = changes[v], words'[v] = words[v]
  PROVE  Snapshot(v)'
BY DEF Snapshot, registers, Merged

\* The steps of a writer that go on: pc moves, the lock and `stale` do not.
LEMMA GoesFact ==
  ASSUME IInv, NEW w \in Writers, NEW step \in Critical, Live(w), Goes(w, step)
  PROVE  /\ pc' \in [Writers -> Ended \cup {"waiting"} \cup Critical] /\ pc'[w] = step
         /\ lock' \in Writers \cup {Free} /\ queue' \in Seq(Writers) /\ stale' \subseteq Writers
         /\ HolderInv'
         /\ \A v \in Writers : Live(v)' => v = w
<1> USE DEF IInv, TypeOK
<1>1. pc' = [pc EXCEPT ![w] = step] /\ UNCHANGED <<lock, queue, stale>>
  BY DEF Goes
<1>2. ASSUME NEW v \in Writers, Live(v)' PROVE v = w
  <2>1. CASE v # w
    <3>1. Live(v)
      BY <1>1, <1>2, <2>1, SMT DEF Live
    <3>2. QED
      BY <3>1, OneLive
  <2>2. QED
    BY <2>1
<1>3. lock = w
  BY DEF HolderInv
<1>4. HolderInv'
  BY <1>1, <1>2, <1>3 DEF HolderInv
<1>5. QED
  BY <1>1, <1>2, <1>4, SMT

LEMMA LockStepsIInv ==
  ASSUME IInv, NEW w \in Writers, Call(w) \/ Acquired(w)
  PROVE  IInv'
<1> USE DEF IInv, TypeOK
<1>1. CASE Call(w)
  <2>1. /\ pc' = [pc EXCEPT ![w] = "read_settings"] \/ pc' = [pc EXCEPT ![w] = "waiting"]
        /\ UNCHANGED <<registers, words, stale>>
    BY <1>1 DEF Call
  <2>2. changes' \in [Writers -> Changes] /\ \A v \in Writers \ {w} : changes'[v] = changes[v]
    BY <1>1, WagoModuleAssumption DEF Call
  <2>3. lock' \in Writers \cup {Free} /\ queue' \in Seq(Writers)
    BY <1>1, AppendProperties DEF Call
  <2>4. events' \in Nat
    BY <1>1, SMT DEF Call, Spend
  <2>5. TypeOK'
    BY <2>1, <2>2, <2>3, <2>4, SMT DEF registers, Critical, Reading, Ended
  <2>6. \A v \in Writers \ {w} : Live(v)' => Live(v) /\ pc'[v] = pc[v]
    BY <2>1, SMT DEF Live
  <2>7. ASSUME NEW v \in Writers, Live(v)' PROVE lock' = v
    <3>1. CASE v = w
      <4>1. pc'[w] # "waiting"
        BY <2>1, <2>7, <3>1, SMT DEF Live, Critical, Reading, Writing
      <4>2. LockIsFree
        BY <1>1, <4>1, SMT DEF Call
      <4>3. QED
        BY <1>1, <3>1, <4>2 DEF Call
    <3>2. CASE v # w
      <4>1. lock = v
        BY <2>6, <2>7, <3>2 DEF HolderInv
      <4>2. ~LockIsFree
        BY <4>1, WagoModuleAssumption DEF LockIsFree
      <4>3. QED
        BY <1>1, <4>1, <4>2 DEF Call
    <3>3. QED
      BY <3>1, <3>2
  <2>8. ASSUME NEW v \in Writers, Live(v)' PROVE Snapshot(v)'
    <3>1. CASE v = w
      BY <2>1, <3>1, SMT DEF Snapshot
    <3>2. CASE v # w
      BY <2>1, <2>2, <2>6, <2>8, <3>2, SameSnapshot DEF SnapshotInv
    <3>3. QED
      BY <3>1, <3>2
  <2>9. QED
    BY <2>5, <2>7, <2>8 DEF HolderInv, SnapshotInv
<1>2. CASE Acquired(w)
  <2>1. /\ pc' = [pc EXCEPT ![w] = "read_settings"] /\ lock = w
        /\ UNCHANGED <<registers, lock, queue, changes, words, stale, events>>
    BY <1>2 DEF Acquired
  <2>2. TypeOK'
    BY <2>1, SMT DEF registers, Critical, Reading
  <2>3. \A v \in Writers \ {w} : Live(v)' => Live(v) /\ pc'[v] = pc[v]
    BY <2>1, SMT DEF Live
  <2>4. HolderInv'
    BY <2>1, <2>3 DEF HolderInv
  <2>5. ASSUME NEW v \in Writers, Live(v)' PROVE Snapshot(v)'
    <3>1. CASE v = w
      BY <2>1, <3>1, SMT DEF Snapshot
    <3>2. CASE v # w
      BY <2>1, <2>3, <2>5, <3>2, SameSnapshot DEF SnapshotInv
    <3>3. QED
      BY <3>1, <3>2
  <2>6. QED
    BY <2>2, <2>4, <2>5 DEF SnapshotInv
<1>3. QED
  BY <1>1, <1>2

LEMMA ReadsIInv ==
  ASSUME IInv, NEW w \in Writers, ReadSettings(w) \/ ReadNetwork(w)
  PROVE  IInv'
<1> USE DEF IInv, TypeOK
<1>1. Live(w) /\ UNCHANGED <<registers, changes, events>>
  BY DEF ReadSettings, ReadNetwork, At, Live, Critical, Reading
<1>2. Snapshot(w)
  BY <1>1 DEF SnapshotInv
<1>3. CASE ReadSettings(w)
  <2>1. Goes(w, "read_network") /\ "read_network" \in Critical
    BY <1>3 DEF ReadSettings, Critical, Reading
  <2>2. words' = [words EXCEPT ![w] = WithBlock(words[w], SettingsFields, blocks)]
    BY <1>3 DEF ReadSettings
  <2>3. WithBlock(words[w], SettingsFields, blocks) \in Changes
    BY SMT DEF WithBlock, Changes, Registers
  <2>4. TypeOK' /\ HolderInv'
    BY <1>1, <2>1, <2>2, <2>3, GoesFact DEF registers
  <2>5. Snapshot(w)'
    BY <1>1, <2>1, <2>2, GoesFact, SMT DEF Snapshot, WithBlock, Fields, registers
  <2>6. QED
    BY <1>1, <2>1, <2>4, <2>5, GoesFact DEF SnapshotInv
<1>4. CASE ReadNetwork(w)
  <2>1. Goes(w, "write_settings") /\ "write_settings" \in Critical
    BY <1>4 DEF ReadNetwork, Critical, Writing
  <2>2. words' = [words EXCEPT ![w] =
          Merged(WithBlock(words[w], NetworkFields, blocks), changes[w])]
    BY <1>4 DEF ReadNetwork
  <2>3. \A f \in Fields : WithBlock(words[w], NetworkFields, blocks)[f] = blocks[f]
    BY <1>2, <1>4, SMT DEF ReadNetwork, At, Snapshot, WithBlock, Fields
  <2>4. Merged(WithBlock(words[w], NetworkFields, blocks), changes[w])
          = Merged(blocks, changes[w])
    BY <2>3 DEF Merged
  <2>5. Merged(blocks, changes[w]) \in Changes
    BY MergedType, SMT DEF Changes, Registers
  <2>6. TypeOK' /\ HolderInv'
    BY <1>1, <2>1, <2>2, <2>4, <2>5, GoesFact DEF registers
  <2>7. Snapshot(w)'
    BY <1>1, <2>1, <2>2, <2>4, GoesFact, SMT DEF Snapshot, registers
  <2>8. QED
    BY <1>1, <2>1, <2>6, <2>7, GoesFact DEF SnapshotInv
<1>5. QED
  BY <1>3, <1>4

LEMMA WritesIInv ==
  ASSUME IInv, NEW w \in Writers, WriteSettings(w) \/ WriteNetwork(w) \/ Store(w)
  PROVE  IInv'
<1> USE DEF IInv, TypeOK
<1>1. PICK step \in Writing, next \in Writing :
        /\ Writes(w, step, next)
        /\ <<step, next>> \in {<<"write_settings", "write_network">>,
                               <<"write_network", "store">>, <<"store", "apply">>}
  BY DEF WriteSettings, WriteNetwork, Store, Writing
<1>2. /\ Live(w) /\ Lands(w) /\ Goes(w, next) /\ next \in Critical /\ pc[w] = step
      /\ UNCHANGED <<changes, words, events>>
  BY <1>1 DEF Writes, At, Live, Critical
<1>3. blocks' \in Registers /\ stored' \in Registers /\ inUse' \in Registers
  BY <1>2, LandsFact
<1>4. TypeOK' /\ HolderInv' /\ pc'[w] = next /\ \A v \in Writers : Live(v)' => v = w
  BY <1>2, <1>3, GoesFact
<1>5. Snapshot(w)
  BY <1>2 DEF SnapshotInv
<1>6. CASE pc[w] = "write_settings"
  <2>1. blocks' = WithBlock(blocks, SettingsFields, words[w])
    BY <1>2, <1>6, LandsFact
  <2>2. pc'[w] = "write_network"
    BY <1>1, <1>2, <1>4, <1>6
  <2>3. words[w] = Merged(blocks, changes[w])
    BY <1>5, <1>6 DEF Snapshot
  <2>4. \A f \in SettingsFields : words[w][f] = blocks'[f]
    BY <2>1 DEF WithBlock, Fields
  <2>5. Merged(blocks', changes[w]) = Merged(blocks, changes[w])
    BY <2>1, <2>3, SMT DEF Merged, WithBlock
  <2>6. Snapshot(w)'
    BY <1>2, <2>2, <2>3, <2>4, <2>5, SMT DEF Snapshot
  <2>7. QED
    BY <1>4, <2>6 DEF SnapshotInv
<1>7. CASE pc[w] = "write_network"
  <2>1. blocks' = WithBlock(blocks, NetworkFields, words[w])
    BY <1>2, <1>7, LandsFact
  <2>2. pc'[w] = "store"
    BY <1>1, <1>2, <1>4, <1>7
  <2>3. /\ words[w] = Merged(blocks, changes[w])
        /\ \A f \in SettingsFields : words[w][f] = blocks[f]
    BY <1>5, <1>7 DEF Snapshot
  <2>4. words[w] \in Registers
    BY <2>3, MergedType
  <2>5. blocks' = words[w]
    BY <2>1, <2>3, <2>4, SMT DEF WithBlock, Registers, Fields
  <2>6. Merged(words[w], changes[w]) = words[w]
    BY <2>3, SMT DEF Merged
  <2>7. Snapshot(w)'
    BY <1>2, <2>2, <2>5, <2>6, SMT DEF Snapshot
  <2>8. QED
    BY <1>4, <2>7 DEF SnapshotInv
<1>8. CASE pc[w] = "store"
  <2>1. stored' = blocks /\ UNCHANGED blocks
    BY <1>2, <1>8, LandsFact
  <2>2. pc'[w] = "apply"
    BY <1>1, <1>2, <1>4, <1>8
  <2>3. Snapshot(w)'
    BY <1>2, <1>5, <1>8, <2>1, <2>2, SMT DEF Snapshot
  <2>4. QED
    BY <1>4, <2>3 DEF SnapshotInv
<1>9. QED
  BY <1>1, <1>2, <1>6, <1>7, <1>8

LEMMA EndingIInv ==
  ASSUME IInv, NEW w \in Writers, Apply(w) \/ Fails(w) \/ WaitedInVain(w)
  PROVE  IInv'
<1> USE DEF IInv, TypeOK
<1>1. PICK how \in Ended : Ends(w, how)
  BY DEF Apply, Fails, WaitedInVain, Ended
<1>2. events' \in Nat
  BY SMT DEF Apply, Fails, WaitedInVain, Spend
<1>3. UNCHANGED registers \/ (Live(w) /\ Lands(w))
  BY SMT DEF Apply, Fails, WaitedInVain, At, Live, Critical, Writing
<1>4. blocks' \in Registers /\ stored' \in Registers /\ inUse' \in Registers
  BY <1>3, LandsFact DEF registers
<1>5. TypeOK' /\ HolderInv'
  BY <1>1, <1>2, <1>4, EndsFact
<1>6. ASSUME NEW v \in Writers, Live(v)' PROVE Snapshot(v)'
  <2>1. /\ v # w /\ Live(v)
        /\ pc'[v] = pc[v] /\ changes'[v] = changes[v] /\ words'[v] = words[v]
    BY <1>1, <1>6, EndsFact
  <2>2. UNCHANGED registers
    BY <1>3, <2>1, OneLive
  <2>3. QED
    BY <2>1, <2>2, SameSnapshot DEF SnapshotInv
<1>7. QED
  BY <1>5, <1>6 DEF SnapshotInv

\* After a reload or a restart no writer is live.
LEMMA NobodyLive ==
  ASSUME IInv, Reload \/ Restart
  PROVE  IInv'
<1> USE DEF IInv, TypeOK
<1>1. \A v \in Writers : ~Live(v)'
  BY SMT DEF Reload, Restart, Live, Critical, Reading, Writing, Ended
<1>2. TypeOK'
  <2>1. CASE Reload
    BY <2>1, SMT DEF Reload, NewLock, Spend, registers
  <2>2. CASE Restart
    BY <2>2, SMT DEF Restart, Spend
  <2>3. QED
    BY <2>1, <2>2
<1>3. QED
  BY <1>1, <1>2 DEF HolderInv, SnapshotInv

LEMMA StepIInv == IInv /\ [Next]_vars => IInv'
<1> SUFFICES ASSUME IInv, [Next]_vars PROVE IInv'
  OBVIOUS
<1>1. CASE UNCHANGED vars
  BY <1>1 DEF vars, registers, IInv, TypeOK, HolderInv, SnapshotInv, Live, Snapshot, Merged
<1>2. CASE Next
  BY <1>2, LockStepsIInv, ReadsIInv, WritesIInv, EndingIInv, NobodyLive
     DEF Next, WriterStep
<1>3. QED
  BY <1>1, <1>2

THEOREM SpecIInv == Spec => []IInv
BY InitIInv, StepIInv, PTL DEF Spec

-----------------------------------------------------------------------------
(* What a reader should know of.                                           *)

\* Every variable keeps its type.
THEOREM TypeCorrect == Spec => []TypeOK
<1>1. IInv => TypeOK
  BY DEF IInv
<1>2. QED
  BY <1>1, SpecIInv, PTL

\* Two writers that can reach the module are never both in their critical part.
THEOREM MutualExclusion == Spec => []OneWriter
<1>1. ASSUME IInv, NEW v \in Writers, NEW w \in Writers,
             {pc[v], pc[w]} \subseteq Critical, {v, w} \cap stale = {}
      PROVE  v = w
  <2>1. Live(v) /\ Live(w)
    BY <1>1 DEF Live
  <2>2. QED
    BY <1>1, <2>1, OneLive
<1>2. IInv => OneWriter
  BY <1>1 DEF OneWriter
<1>3. QED
  BY <1>2, SpecIInv, PTL

\* What a write reports as stored is in the flash.
THEOREM ReportsAreTrue == Spec => ReportedIsStored
<1>1. ASSUME IInv, [Next]_vars, NEW w \in Writers,
             pc'[w] \in {"done", "not_applied"}, pc[w] # pc'[w], w \notin stale,
             NEW f \in Fields, changes[w][f] # Keep
      PROVE  stored'[f] = changes[w][f]
  <2> USE DEF IInv, TypeOK
  <2>1. pc[w] = "apply" /\ (Apply(w) \/ Fails(w))
    <3>1. ~(Reload \/ Restart \/ UNCHANGED vars)
      BY <1>1 DEF Reload, Restart, vars
    <3>2. PICK v \in Writers : Call(v) \/ WriterStep(v)
      BY <1>1, <3>1 DEF Next
    <3>3. v = w
      BY <1>1, <3>2, SMT DEF Call, WriterStep, Acquired, ReadSettings, ReadNetwork, Goes,
         WriteSettings, WriteNetwork, Store, Writes, Apply, Fails, WaitedInVain, Ends
    <3>4. QED
      BY <1>1, <3>2, <3>3, SMT DEF Call, WriterStep, Acquired, ReadSettings, ReadNetwork,
         Goes, WriteSettings, WriteNetwork, Store, Writes, Apply, Fails, WaitedInVain,
         Ends, At
  <2>2. Live(w)
    BY <1>1, <2>1 DEF Live, Critical, Writing
  <2>3. stored = Merged(stored, changes[w])
    BY <1>1, <2>1, <2>2 DEF SnapshotInv, Snapshot
  <2>4. stored' = stored
    BY <1>1, <2>1, SMT DEF Apply, Fails, Lands, registers
  <2>5. QED
    BY <1>1, <2>3, <2>4 DEF Merged
<1>2. ASSUME IInv, [Next]_vars
      PROVE  \A w \in Writers :
               pc'[w] \in {"done", "not_applied"} /\ pc[w] # pc'[w] /\ w \notin stale =>
                 \A f \in Fields : changes[w][f] # Keep => stored'[f] = changes[w][f]
  BY <1>1, <1>2
<1>3. QED
  BY <1>2, SpecIInv, PTL DEF Spec, ReportedIsStored

\* WagoModule implements FieldWrites: whole blocks under the lock change no more
\* than the fields each write was called with.
THEOREM Refinement == Spec => OnlyOwnFields
<1>1. Init => FieldWrites!Init
  BY DEF Init, FieldWrites!Init, Registers, Fields, FieldWrites!Fields, Nothing,
         FieldWrites!Nothing
<1>2. ASSUME IInv, [Next]_vars PROVE [FieldWrites!Next]_(FieldWrites!vars)
  <2> USE DEF IInv, TypeOK
  <2>1. CASE UNCHANGED vars \/ Reload
    BY <2>1 DEF vars, registers, Reload, FieldWrites!vars
  <2>2. CASE Restart
    BY <2>2 DEF Restart, FieldWrites!Next, FieldWrites!Restart
  <2>3. ASSUME NEW w \in Writers, Call(w) PROVE FieldWrites!Next
    <3>1. FieldWrites!Ask(w)
      BY <2>3, WagoModuleAssumption
         DEF Call, FieldWrites!Ask, registers, Changes, FieldWrites!Changes, Fields,
             FieldWrites!Fields
    <3>2. QED
      BY <3>1 DEF FieldWrites!Next
  <2>4. ASSUME NEW w \in Writers, Acquired(w) \/ ReadSettings(w) \/ ReadNetwork(w)
        PROVE  UNCHANGED FieldWrites!vars
    BY <2>4 DEF Acquired, ReadSettings, ReadNetwork, registers, FieldWrites!vars
  <2>5. ASSUME NEW w \in Writers, Live(w), Lands(w), FieldWrites!MayEnd(w)
        PROVE  FieldWrites!Next
    <3>1. FieldWrites!Write(w) \/ FieldWrites!Store(w) \/ FieldWrites!Apply(w)
      BY <1>2, <2>5, LandsFact DEF FieldWrites!Write, FieldWrites!Store, FieldWrites!Apply
    <3>2. QED
      BY <3>1 DEF FieldWrites!Next
  <2>6. ASSUME NEW w \in Writers, WriteSettings(w) \/ WriteNetwork(w) \/ Store(w)
        PROVE  FieldWrites!Next
    <3>1. Live(w) /\ Lands(w) /\ changes' = changes
      BY <2>6 DEF WriteSettings, WriteNetwork, Store, Writes, At, Live, Critical, Writing
    <3>2. QED
      BY <2>5, <3>1 DEF FieldWrites!MayEnd
  <2>7. ASSUME NEW w \in Writers, Apply(w) \/ Fails(w) \/ WaitedInVain(w)
        PROVE  FieldWrites!Next
    <3>1. changes' = [changes EXCEPT ![w] = FieldWrites!Nothing]
      BY <2>7 DEF Apply, Fails, WaitedInVain, Ends, Nothing, FieldWrites!Nothing, Fields,
                  FieldWrites!Fields
    <3>2. CASE UNCHANGED registers
      BY <3>1, <3>2 DEF FieldWrites!Next, FieldWrites!End, registers
    <3>3. CASE Live(w) /\ Lands(w)
      BY <2>5, <3>1, <3>3 DEF FieldWrites!MayEnd
    <3>4. QED
      BY <2>7, <3>2, <3>3, SMT DEF Apply, Fails, WaitedInVain, At, Live, Critical, Writing
  <2>8. QED
    BY <1>2, <2>1, <2>2, <2>3, <2>4, <2>6, <2>7 DEF Next, WriterStep, FieldWrites!Next
<1>3. QED
  BY <1>1, <1>2, SpecIInv, PTL DEF Spec, OnlyOwnFields, FieldWrites!Spec

-----------------------------------------------------------------------------
(* Nobody is left behind: who waits for the lock stands in line behind a   *)
(* write that is under way.                                                *)

Waiters == {w \in Writers : pc[w] = "waiting" /\ w \notin stale}

\* The lock is held by a write under way or by the waiter that was woken for it.
HolderBusy ==
  /\ lock = Free => queue = <<>>
  /\ lock # Free => lock \in Waiters \/ pc[lock] \in Critical

\* The queue has each of its waiters once, and not the one that has the lock.
QueueWaits ==
  \A i \in 1..Len(queue) :
    /\ queue[i] \in Waiters /\ queue[i] # lock
    /\ \A j \in 1..Len(queue) : queue[i] = queue[j] => i = j

InQueue(w) == \E i \in 1..Len(queue) : queue[i] = w

InLine == \A w \in Waiters : w = lock \/ InQueue(w)

StaleBusy == \A w \in stale : pc[w] \notin Ended

LineInv == HolderBusy /\ QueueWaits /\ InLine /\ StaleBusy

LEMMA InitLineInv == Init => LineInv
BY SMT DEF Init, LineInv, HolderBusy, QueueWaits, InLine, StaleBusy, Waiters

\* A step that takes nothing from the line and leaves who waits as it was.
LEMMA SameLine ==
  ASSUME TypeOK, LineInv, UNCHANGED <<lock, queue>>,
         Waiters' = Waiters,
         lock # Free => (pc[lock] \in Critical => pc'[lock] \in Critical),
         StaleBusy'
  PROVE  LineInv'
<1>1. HolderBusy'
  BY DEF LineInv, HolderBusy, TypeOK
<1>2. \A i \in 1..Len(queue) : queue[i] \in Writers
  BY DEF TypeOK
<1>3. QueueWaits'
  BY <1>2 DEF LineInv, QueueWaits
<1>4. InLine'
  BY DEF LineInv, InLine, InQueue
<1> QED
  BY <1>1, <1>3, <1>4 DEF LineInv

\* A write that is called takes a lock nobody waits for, or the end of the line.
LEMMA CallLine ==
  ASSUME TypeOK, LineInv, NEW w \in Writers, Call(w) PROVE LineInv'
<1> USE DEF LineInv
<1>0. pc[w] \in Ended /\ stale' = stale /\ w \notin stale /\ Free \notin Writers
  BY WagoModuleAssumption DEF Call, StaleBusy
<1>1. \A i \in 1..Len(queue) : queue[i] \in Writers
  BY DEF TypeOK
<1>2. CASE LockIsFree
  <2>1. /\ lock' = w /\ queue = <<>> /\ queue' = <<>> /\ lock = Free
        /\ pc' = [pc EXCEPT ![w] = "read_settings"]
    BY <1>2 DEF Call, LockIsFree
  <2>2. Waiters = {}
    BY <1>0, <2>1 DEF InLine, InQueue, Waiters
  <2>3. Waiters' = {}
    BY <1>0, <2>1, <2>2 DEF Waiters, TypeOK
  <2>4. pc'[w] = "read_settings" /\ "read_settings" \in Critical
    BY <2>1 DEF TypeOK, Critical, Reading
  <2>5. HolderBusy'
    BY <1>0, <2>1, <2>4 DEF HolderBusy
  <2>6. QueueWaits' /\ InLine'
    BY <2>1, <2>3 DEF QueueWaits, InLine
  <2>7. StaleBusy'
    BY <1>0, <2>1 DEF StaleBusy, TypeOK
  <2> QED
    BY <2>5, <2>6, <2>7
<1>3. CASE ~LockIsFree
  <2>1. /\ lock' = lock /\ queue' = Append(queue, w)
        /\ pc' = [pc EXCEPT ![w] = "waiting"]
    BY <1>3 DEF Call
  <2>2. lock # Free /\ lock # w
    <3>1. lock # Free
      BY <1>3 DEF HolderBusy, LockIsFree
    <3> QED
      BY <1>0, <3>1 DEF HolderBusy, Waiters, Critical, Reading, Writing, Ended
  <2>3. /\ Len(queue') = Len(queue) + 1 /\ queue'[Len(queue) + 1] = w
        /\ \A i \in 1..Len(queue) : queue'[i] = queue[i]
        /\ Len(queue) \in Nat
    BY <2>1, AppendProperties DEF TypeOK
  <2>4. Waiters' = Waiters \cup {w} /\ w \notin Waiters
    BY <1>0, <2>1 DEF Waiters, TypeOK, Ended
  <2>5. \A i \in 1..Len(queue) : queue[i] # w
    BY <2>4 DEF QueueWaits
  <2>6. HolderBusy'
    BY <2>1, <2>2, <2>4, <1>0 DEF HolderBusy, TypeOK
  <2>7. QueueWaits'
    <3> SUFFICES ASSUME NEW i \in 1..Len(queue'), NEW j \in 1..Len(queue')
                 PROVE  /\ queue'[i] \in Waiters' /\ queue'[i] # lock'
                        /\ queue'[i] = queue'[j] => i = j
      BY DEF QueueWaits
    <3>1. /\ i \in 1..Len(queue) \/ i = Len(queue) + 1
          /\ j \in 1..Len(queue) \/ j = Len(queue) + 1
      BY <2>3
    <3>2. queue'[i] = queue'[j] => i = j
      BY <2>3, <2>5, <3>1 DEF QueueWaits
    <3>3. CASE i = Len(queue) + 1
      BY <2>1, <2>2, <2>3, <2>4, <3>2, <3>3
    <3>4. CASE i \in 1..Len(queue)
      <4>1. queue'[i] = queue[i] /\ queue[i] \in Writers \ {w}
        BY <1>1, <2>3, <2>5, <3>4
      <4>2. queue[i] \in Waiters /\ queue[i] # lock
        BY <3>4 DEF QueueWaits
      <4> QED
        BY <2>1, <2>4, <3>2, <4>1, <4>2
    <3> QED
      BY <3>1, <3>3, <3>4
  <2>8. InLine'
    <3> SUFFICES ASSUME NEW v \in Waiters'
                 PROVE  v = lock' \/ \E i \in 1..Len(queue') : queue'[i] = v
      BY DEF InLine, InQueue
    <3>1. CASE v = w
      BY <2>3, <3>1
    <3>2. CASE v # w
      <4>1. v = lock \/ \E i \in 1..Len(queue) : queue[i] = v
        BY <2>4, <3>2 DEF InLine, InQueue
      <4> QED
        BY <2>1, <2>3, <4>1
    <3> QED
      BY <3>1, <3>2
  <2>9. StaleBusy'
    BY <1>0, <2>1 DEF StaleBusy, TypeOK, Ended
  <2> QED
    BY <2>6, <2>7, <2>8, <2>9
<1> QED
  BY <1>2, <1>3

\* A write that ends hands the lock to the first in line; one that does not have
\* it, after a reload, is not in line either.
LEMMA EndsLine ==
  ASSUME TypeOK, LineInv, NEW w \in Writers, NEW how \in Ended, Ends(w, how), w \notin Waiters
  PROVE  LineInv'
<1> USE DEF LineInv
<1>1. pc' = [pc EXCEPT ![w] = how] /\ stale' = stale \ {w} /\ Release(w)
  BY DEF Ends
<1>2. Waiters' = Waiters
  BY <1>1 DEF Waiters, TypeOK, Ended
<1>3. StaleBusy'
  BY <1>1 DEF StaleBusy, TypeOK
<1>4. CASE lock # w
  <2>1. UNCHANGED <<lock, queue>>
    BY <1>1, <1>4 DEF Release
  <2>2. lock # Free => pc'[lock] = pc[lock]
    BY <1>1, <1>4 DEF TypeOK
  <2> QED
    BY <1>2, <1>3, <2>1, <2>2, SameLine
<1>5. CASE lock = w /\ queue = <<>>
  <2>1. lock' = Free /\ queue' = <<>>
    BY <1>1, <1>5 DEF Release
  <2>2. Waiters = {}
    BY <1>5 DEF InLine, InQueue
  <2> QED
    BY <1>2, <1>3, <2>1, <2>2 DEF HolderBusy, QueueWaits, InLine
<1>6. CASE lock = w /\ queue # <<>>
  <2>1. lock' = Head(queue) /\ queue' = Tail(queue)
    BY <1>1, <1>6 DEF Release
  <2>2. /\ lock' = queue[1] /\ Len(queue') = Len(queue) - 1 /\ Len(queue) \in Nat \ {0}
        /\ \A i \in 1..Len(queue') : queue'[i] = queue[i + 1]
    BY <1>6, <2>1, HeadTailProperties, EmptySeq DEF TypeOK
  <2>3. \A i \in 1..Len(queue) : queue[i] \in Writers
    BY DEF TypeOK
  <2>4. lock' \in Waiters'
    BY <1>2, <2>2, <2>3 DEF QueueWaits
  <2>5. lock' # Free
    BY <2>2, <2>3, WagoModuleAssumption
  <2>6. HolderBusy'
    BY <2>4, <2>5 DEF HolderBusy
  <2>7. QueueWaits'
    <3> SUFFICES ASSUME NEW i \in 1..Len(queue'), NEW j \in 1..Len(queue')
                 PROVE  /\ queue'[i] \in Waiters' /\ queue'[i] # lock'
                        /\ queue'[i] = queue'[j] => i = j
      BY DEF QueueWaits
    <3>1. i + 1 \in 1..Len(queue) /\ j + 1 \in 1..Len(queue) /\ 1 \in 1..Len(queue)
      BY <2>2
    <3>2. queue'[i] = queue[i + 1] /\ queue'[j] = queue[j + 1]
      BY <2>2
    <3>3. queue[i + 1] # queue[1] /\ (queue[i + 1] = queue[j + 1] => i + 1 = j + 1)
      BY <3>1 DEF QueueWaits
    <3>4. queue[i + 1] \in Waiters'
      BY <1>2, <2>3, <3>1 DEF QueueWaits
    <3> QED
      BY <2>2, <3>2, <3>3, <3>4
  <2>8. InLine'
    <3> SUFFICES ASSUME NEW v \in Waiters
                 PROVE  v = lock' \/ \E i \in 1..Len(queue') : queue'[i] = v
      BY <1>2 DEF InLine, InQueue
    <3>1. PICK k \in 1..Len(queue) : queue[k] = v
      BY <1>6 DEF InLine, InQueue
    <3>2. CASE k = 1
      BY <2>2, <3>1, <3>2
    <3>3. CASE k # 1
      <4>1. k - 1 \in 1..Len(queue') /\ queue'[k - 1] = v
        BY <2>2, <3>1, <3>3
      <4> QED
        BY <4>1
    <3> QED
      BY <3>2, <3>3
  <2> QED
    BY <1>3, <2>6, <2>7, <2>8
<1> QED
  BY <1>4, <1>5, <1>6

\* Requests keep their writer under way, and who waits waits on.
LEMMA WriterLine ==
  ASSUME TypeOK, LineInv, NEW w \in Writers, WriterStep(w) PROVE LineInv'
<1>1. CASE Acquired(w)
  <2>1. /\ lock = w /\ pc' = [pc EXCEPT ![w] = "read_settings"]
        /\ UNCHANGED <<lock, queue, stale>>
    BY <1>1 DEF Acquired
  <2>2. pc'[w] = "read_settings" /\ Waiters' = Waiters \ {w}
    BY <2>1 DEF Waiters, TypeOK
  <2>3. pc'[w] \in Critical
    BY <2>2 DEF Critical, Reading
  <2>4. HolderBusy'
    BY <2>1, <2>3 DEF LineInv, HolderBusy
  <2>5. \A i \in 1..Len(queue) : queue[i] \in Writers \ {w}
    BY <2>1 DEF LineInv, QueueWaits, TypeOK
  <2>6. QueueWaits'
    BY <2>1, <2>2, <2>5 DEF LineInv, QueueWaits
  <2>7. InLine'
    BY <2>1, <2>2, <2>3 DEF LineInv, InLine, InQueue
  <2>8. StaleBusy'
    BY <2>1 DEF LineInv, StaleBusy, TypeOK, Ended
  <2> QED
    BY <2>4, <2>6, <2>7, <2>8 DEF LineInv
<1>2. CASE ReadSettings(w) \/ ReadNetwork(w) \/ WriteSettings(w) \/ WriteNetwork(w) \/ Store(w)
  <2>1. PICK step \in Critical : pc[w] \in Critical /\ Goes(w, step)
    BY <1>2 DEF ReadSettings, ReadNetwork, WriteSettings, WriteNetwork, Store, Writes, At,
                Critical, Reading, Writing
  <2>2. pc' = [pc EXCEPT ![w] = step] /\ UNCHANGED <<lock, queue, stale>>
    BY <2>1 DEF Goes
  <2>3. Waiters' = Waiters /\ \A v \in Writers : pc[v] \in Critical => pc'[v] \in Critical
    BY <2>1, <2>2 DEF Waiters, TypeOK, Critical, Reading, Writing
  <2>4. StaleBusy'
    BY <2>1, <2>2 DEF LineInv, StaleBusy, TypeOK, Ended, Critical, Reading, Writing
  <2>5. lock # Free => lock \in Writers
    BY DEF TypeOK
  <2> QED
    BY <2>2, <2>3, <2>4, <2>5, SameLine
<1>3. CASE Apply(w) \/ Fails(w) \/ WaitedInVain(w)
  <2>1. PICK how \in Ended : Ends(w, how)
    BY <1>3 DEF Apply, Fails, WaitedInVain, Ended
  <2>2. w \notin Waiters
    BY <1>3 DEF Apply, Fails, WaitedInVain, At, Waiters, Critical, Reading, Writing
  <2> QED
    BY <2>1, <2>2, EndsLine
<1> QED
  BY <1>1, <1>2, <1>3 DEF WriterStep

\* A reload leaves nobody waiting for the new lock; a restart moves nobody.
LEMMA ModuleLine == ASSUME TypeOK, LineInv, Reload \/ Restart PROVE LineInv'
<1>1. CASE Reload
  <2>1. /\ lock' = Free /\ queue' = <<>> /\ pc' = pc
        /\ stale' = {w \in Writers : pc[w] \notin Ended}
    BY <1>1 DEF Reload, NewLock
  <2>2. Waiters' = {}
    BY <2>1 DEF Waiters, Ended
  <2> QED
    BY <2>1, <2>2 DEF LineInv, HolderBusy, QueueWaits, InLine, StaleBusy
<1>2. CASE Restart
  <2>1. /\ UNCHANGED <<lock, queue, pc>>
        /\ stale' = stale \cup {w \in Writers : pc[w] \in Critical}
    BY <1>2 DEF Restart
  <2>2. Waiters' = Waiters
    BY <2>1 DEF Waiters, Critical, Reading, Writing
  <2>3. StaleBusy'
    BY <2>1 DEF LineInv, StaleBusy, Ended, Critical, Reading, Writing
  <2> QED
    BY <2>1, <2>2, <2>3, SameLine
<1> QED
  BY <1>1, <1>2

\* The line is kept by every step.
THEOREM SpecLineInv == Spec => [](TypeOK /\ LineInv)
<1>1. ASSUME TypeOK, LineInv, [Next]_vars PROVE LineInv'
  <2>1. CASE UNCHANGED vars
    <3>1. UNCHANGED <<lock, queue, pc, stale>> /\ Waiters' = Waiters
      BY <2>1 DEF vars, Waiters
    <3>2. StaleBusy'
      BY <1>1, <3>1 DEF LineInv, StaleBusy
    <3> QED
      BY <1>1, <3>1, <3>2, SameLine
  <2>2. CASE Next
    BY <1>1, <2>2, CallLine, WriterLine, ModuleLine DEF Next
  <2> QED
    BY <1>1, <2>1, <2>2
<1> QED
  BY <1>1, InitLineInv, TypeCorrect, PTL DEF Spec

\* A write that waits has a write under way before it and its place in the line,
\* after any failure, reload or restart, for any number of writers.
THEOREM NobodyWaitsInVain == Spec => []NobodyStranded
<1>1. TypeOK /\ LineInv => NobodyStranded
  <2> SUFFICES ASSUME TypeOK, LineInv, NEW w \in Waiters
               PROVE  /\ lock \in Writers /\ pc[lock] \notin Ended
                      /\ w = lock \/ \E i \in DOMAIN queue : queue[i] = w
    BY DEF NobodyStranded, Waiters
  <2>1. w = lock \/ \E i \in 1..Len(queue) : queue[i] = w
    BY DEF LineInv, InLine, InQueue
  <2>2. lock # Free
    BY <2>1, WagoModuleAssumption DEF LineInv, HolderBusy, Waiters
  <2>3. lock \in Writers /\ pc[lock] \notin Ended
    BY <2>2 DEF TypeOK, LineInv, HolderBusy, Waiters, Ended, Critical, Reading, Writing
  <2>4. DOMAIN queue = 1..Len(queue)
    BY DEF TypeOK
  <2> QED
    BY <2>1, <2>3, <2>4
<1> QED
  BY <1>1, SpecLineInv, PTL
=============================================================================
