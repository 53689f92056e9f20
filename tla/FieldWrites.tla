---------------------------- MODULE FieldWrites ----------------------------
(***************************************************************************)
(* What the writes to an 879-9000 module promise, whoever writes at the    *)
(* same time: the blocks change only in fields that a write under way was  *)
(* asked to change, only to the value it was asked for, and the module's   *)
(* flash takes what the blocks hold.  Nothing is said of locks, of reading *)
(* first, or of whole blocks: those are how device.py keeps the promise.   *)
(***************************************************************************)
CONSTANTS
  Writers,         \* who may write at the same time
  SettingsFields,  \* the writable fields of the block at 0x0000
  NetworkFields,   \* the writable fields of the block at 0x0064
  Values,
  Keep             \* "not in the changes", not a value

Fields == SettingsFields \cup NetworkFields
Changes == [Fields -> Values \cup {Keep}]
Nothing == [f \in Fields |-> Keep]

VARIABLES
  blocks,   \* what the module's holding registers show
  stored,   \* what its flash holds
  inUse,    \* what it works with
  asked     \* the changes of the writes under way

vars == <<blocks, stored, inUse, asked>>

\* The registers after the changes `c` to the fields of one block.
Changed(before, c, block) ==
  [f \in Fields |-> IF f \in block /\ c[f] # Keep THEN c[f] ELSE before[f]]

Init ==
  /\ blocks \in [Fields -> Values] /\ stored = blocks /\ inUse = blocks
  /\ asked = [w \in Writers |-> Nothing]

\* A write may end with any of its steps: the answer to it may be lost.
MayEnd(w) == asked' \in {asked, [asked EXCEPT ![w] = Nothing]}

Ask(w) ==
  /\ \E c \in Changes : asked' = [asked EXCEPT ![w] = c]
  /\ UNCHANGED <<blocks, stored, inUse>>

Write(w) ==
  /\ \E block \in {SettingsFields, NetworkFields} :
       blocks' = Changed(blocks, asked[w], block)
  /\ MayEnd(w) /\ UNCHANGED <<stored, inUse>>

Store(w) == stored' = blocks /\ MayEnd(w) /\ UNCHANGED <<blocks, inUse>>

Apply(w) == inUse' = stored /\ MayEnd(w) /\ UNCHANGED <<blocks, stored>>

End(w) == asked' = [asked EXCEPT ![w] = Nothing] /\ UNCHANGED <<blocks, stored, inUse>>

\* The module's power fails: what is not in its flash is gone.
Restart == blocks' = stored /\ inUse' = stored /\ UNCHANGED <<stored, asked>>

Next ==
  \/ Restart
  \/ \E w \in Writers : Ask(w) \/ Write(w) \/ Store(w) \/ Apply(w) \/ End(w)

Spec == Init /\ [][Next]_vars
=============================================================================
