----------------------------- MODULE WagoModule -----------------------------
(***************************************************************************)
(* WagoModule.async_write of wago_879_api/device.py: each write reads both *)
(* setting blocks of the 879-9000, puts its changes in, writes both blocks *)
(* back whole, then "store" and "apply", all under one asyncio.Lock that   *)
(* belongs to the API object a setup of the entry created.                 *)
(*                                                                         *)
(* Every request is an await, so other writes run in between.  A request   *)
(* may fail before or after the module did what it asked.  A reload of the *)
(* entry closes the connection under the writes of the old API object and  *)
(* makes a new object with a new lock; a restart of the module breaks the  *)
(* request that is under way.                                              *)
(***************************************************************************)
EXTENDS Naturals, Sequences

CONSTANTS
  Writers, SettingsFields, NetworkFields, Values, Keep,
  Requests,    \* the changes a write can be called with
  Free,        \* the lock when nobody holds it
  MaxEvents    \* bound: calls, failed requests, reloads and restarts together

Fields == SettingsFields \cup NetworkFields
Changes == [Fields -> Values \cup {Keep}]
Nothing == [f \in Fields |-> Keep]

ASSUME WagoModuleAssumption ==
  /\ SettingsFields \cap NetworkFields = {}
  /\ Keep \notin Values /\ Free \notin Writers
  /\ Requests \subseteq Changes
  /\ MaxEvents \in Nat

VARIABLES
  blocks,   \* what the module's holding registers show
  stored,   \* what its flash holds
  inUse,    \* what it works with
  lock,     \* the writer that has the lock, or was woken to take it
  queue,    \* the writers that wait for the lock, first come first
  pc,       \* the await each writer is at, or how its last write ended
  changes,  \* what each write under way was called with
  words,    \* what each write under way holds of the two blocks
  stale,    \* writers whose request under way cannot succeed any more
  events    \* what is left of MaxEvents

registers == <<blocks, stored, inUse>>
vars == <<registers, lock, queue, pc, changes, words, stale, events>>

Reading  == {"read_settings", "read_network"}
Writing  == {"write_settings", "write_network", "store", "apply"}
Critical == Reading \cup Writing
Ended    == {"idle", "done", "failed", "not_applied"}
Registers == [Fields -> Values]

TypeOK ==
  /\ blocks \in Registers /\ stored \in Registers /\ inUse \in Registers
  /\ lock \in Writers \cup {Free}
  /\ queue \in Seq(Writers)
  /\ pc \in [Writers -> Ended \cup {"waiting"} \cup Critical]
  /\ changes \in [Writers -> Changes]
  /\ words \in [Writers -> Changes]
  /\ stale \subseteq Writers
  /\ events \in Nat

Init ==
  /\ blocks \in Registers /\ stored = blocks /\ inUse = blocks
  /\ lock = Free /\ queue = <<>>
  /\ pc = [w \in Writers |-> "idle"]
  /\ changes = [w \in Writers |-> Nothing]
  /\ words = [w \in Writers |-> Nothing]
  /\ stale = {}
  /\ events = MaxEvents

Spend == events > 0 /\ events' = events - 1

\* `old` with the words of one block taken from `new`.
WithBlock(old, block, new) ==
  [f \in Fields |-> IF f \in block THEN new[f] ELSE old[f]]

\* What a plausible mistake would make of the definitions below it.
NoLock == TRUE
KeepsLock(w) == UNCHANGED <<lock, queue>>
WritesChangesOnly(old, c) == c

\* The changes put into the words that were read.
Merged(old, c) == [f \in Fields |-> IF c[f] # Keep THEN c[f] ELSE old[f]]

-----------------------------------------------------------------------------
(* async with self._write_lock                                             *)

LockIsFree == lock = Free /\ queue = <<>>

\* async_write is called: the lock is taken at once or waited for.
Call(w) ==
  /\ Spend
  /\ pc[w] \in Ended
  /\ \E c \in Requests : changes' = [changes EXCEPT ![w] = c]
  /\ IF LockIsFree
       THEN /\ lock' = w /\ UNCHANGED queue
            /\ pc' = [pc EXCEPT ![w] = "read_settings"]
       ELSE /\ queue' = Append(queue, w) /\ UNCHANGED lock
            /\ pc' = [pc EXCEPT ![w] = "waiting"]
  /\ UNCHANGED <<registers, words, stale>>

\* A woken waiter goes on; nobody who came later got in between.
Acquired(w) ==
  /\ pc[w] = "waiting" /\ lock = w
  /\ pc' = [pc EXCEPT ![w] = "read_settings"]
  /\ UNCHANGED <<registers, lock, queue, changes, words, stale, events>>

\* Leaving the block, however it is left, wakes the first in the queue.
Release(w) ==
  IF lock # w THEN UNCHANGED <<lock, queue>>
  ELSE IF queue = <<>> THEN lock' = Free /\ UNCHANGED queue
  ELSE lock' = Head(queue) /\ queue' = Tail(queue)

Ends(w, how) ==
  /\ pc' = [pc EXCEPT ![w] = how]
  /\ changes' = [changes EXCEPT ![w] = Nothing]
  /\ words' = [words EXCEPT ![w] = Nothing]
  /\ stale' = stale \ {w}
  /\ Release(w)

-----------------------------------------------------------------------------
(* The requests.                                                           *)

At(w, step) == pc[w] = step /\ w \notin stale
Goes(w, step) == pc' = [pc EXCEPT ![w] = step] /\ UNCHANGED <<lock, queue, stale>>

ReadSettings(w) ==
  /\ At(w, "read_settings")
  /\ words' = [words EXCEPT ![w] = WithBlock(words[w], SettingsFields, blocks)]
  /\ Goes(w, "read_network")
  /\ UNCHANGED <<registers, changes, events>>

ReadNetwork(w) ==
  /\ At(w, "read_network")
  /\ words' = [words EXCEPT ![w] =
       Merged(WithBlock(words[w], NetworkFields, blocks), changes[w])]
  /\ Goes(w, "write_settings")
  /\ UNCHANGED <<registers, changes, events>>

\* What the module does with the request a writer has under way.
Lands(w) ==
  \/ /\ pc[w] = "write_settings"
     /\ blocks' = WithBlock(blocks, SettingsFields, words[w])
     /\ UNCHANGED <<stored, inUse>>
  \/ /\ pc[w] = "write_network"
     /\ blocks' = WithBlock(blocks, NetworkFields, words[w])
     /\ UNCHANGED <<stored, inUse>>
  \/ pc[w] = "store" /\ stored' = blocks /\ UNCHANGED <<blocks, inUse>>
  \/ pc[w] = "apply" /\ inUse' = stored /\ UNCHANGED <<blocks, stored>>

Writes(w, step, next) ==
  /\ At(w, step) /\ Lands(w) /\ Goes(w, next)
  /\ UNCHANGED <<changes, words, events>>

WriteSettings(w) == Writes(w, "write_settings", "write_network")
WriteNetwork(w) == Writes(w, "write_network", "store")
Store(w) == Writes(w, "store", "apply")

Apply(w) ==
  /\ At(w, "apply") /\ Lands(w) /\ Ends(w, "done")
  /\ UNCHANGED events

\* ModbusError: the request did not reach the module, or its answer was lost.
\* Only "apply" failing is told apart, as ModuleNotApplied.
Fails(w) ==
  /\ pc[w] \in Critical
  /\ \/ w \in stale /\ UNCHANGED <<registers, events>>
     \/ w \notin stale /\ Spend /\ (Lands(w) \/ UNCHANGED registers)
  /\ Ends(w, IF pc[w] = "apply" THEN "not_applied" ELSE "failed")

\* A waiter on the lock of an API object that was replaced gets that lock in
\* the end, and its first request fails.
WaitedInVain(w) ==
  /\ pc[w] = "waiting" /\ w \in stale
  /\ Ends(w, "failed")
  /\ UNCHANGED <<registers, events>>

-----------------------------------------------------------------------------
NewLock == lock' = Free /\ queue' = <<>>

\* A reload of the entry: a new WagoModule, and no connection for the old one.
Reload ==
  /\ Spend /\ NewLock
  /\ stale' = {w \in Writers : pc[w] \notin Ended}
  /\ UNCHANGED <<registers, pc, changes, words>>

\* The module restarts with what is in its flash.
Restart ==
  /\ Spend
  /\ blocks' = stored /\ inUse' = stored /\ UNCHANGED stored
  /\ stale' = stale \cup {w \in Writers : pc[w] \in Critical}
  /\ UNCHANGED <<lock, queue, pc, changes, words>>

WriterStep(w) ==
  \/ Acquired(w) \/ ReadSettings(w) \/ ReadNetwork(w)
  \/ WriteSettings(w) \/ WriteNetwork(w) \/ Store(w) \/ Apply(w)
  \/ Fails(w) \/ WaitedInVain(w)

Next == Reload \/ Restart \/ \E w \in Writers : Call(w) \/ WriterStep(w)

Spec == Init /\ [][Next]_vars

\* Each request is answered or times out.
FairSpec == Spec /\ \A w \in Writers : WF_vars(WriterStep(w))

-----------------------------------------------------------------------------
(* What the writes promise.                                                *)

\* Two writes that can still reach the module are never both between their
\* first read and their last write (device.py:275).
OneWriter ==
  \A v, w \in Writers :
    {pc[v], pc[w]} \subseteq Critical /\ {v, w} \cap stale = {} => v = w

\* A write that reports success, or that only "apply" failed, is in the flash:
\* nothing another write did on the way took it out of the blocks again.
ReportedIsStored ==
  [][\A w \in Writers :
       pc'[w] \in {"done", "not_applied"} /\ pc[w] # pc'[w] /\ w \notin stale =>
         \A f \in Fields : changes[w][f] # Keep => stored'[f] = changes[w][f]]_vars

\* Every write that was called ends, the ones that wait for others included,
\* whatever became of the writes before it.
WritesEnd == \A w \in Writers : pc[w] \notin Ended ~> pc[w] \in Ended

\* No release, failure, reload or restart strands a write that waits for the lock:
\* a write under way holds it, or was woken to take it, and every waiter will be
\* woken in its turn.  With WriterStep fair it is why every write ends.
NobodyStranded ==
  \A w \in Writers : pc[w] = "waiting" /\ w \notin stale =>
    /\ lock \in Writers /\ pc[lock] \notin Ended
    /\ w = lock \/ \E i \in DOMAIN queue : queue[i] = w

FieldWrites == INSTANCE FieldWrites WITH asked <- changes

\* A write changes only the fields it was called with (device.py:270-271), even
\* though it writes whole blocks.
OnlyOwnFields == FieldWrites!Spec
=============================================================================
