----------------------------- MODULE MutationRun -----------------------------
(***************************************************************************)
(* One run of the mutation harness (.github/scripts/mutate.py): each case  *)
(* of the plan breaks one file of a tree, runs the tests that must notice  *)
(* and puts the file back.  With more jobs than one every worker thread    *)
(* takes a copy of the repository from a queue for each of its cases; with *)
(* one job the cases run in the repository itself.                         *)
(*                                                                         *)
(* External: ThreadPoolExecutor, which starts the cases in plan order,     *)
(* hands out the results in that order, and on the first exception among   *)
(* them cancels what has not started and waits for what has; pytest and    *)
(* the file system.  Which of the free trees a worker is handed makes no   *)
(* difference, so the queue is a set.                                      *)
(***************************************************************************)
EXTENDS Naturals, FiniteSets

CONSTANTS
  MaxCases,    \* bound: cases of a plan
  MaxJobs,     \* bound: --jobs
  MaxFaults    \* bound: failed writes and interrupts together

Repo == 0
Copies == 1..MaxJobs
Trees == {Repo} \cup Copies

ASSUME MutationRunAssumption ==
  MaxCases \in Nat /\ MaxJobs \in Nat \ {0} /\ MaxFaults \in Nat

VARIABLES
  jobs, cases,   \* of this run: the number of workers, the cases of its plan
  main,          \* what main is doing
  taken,         \* the results main has taken, in plan order
  code,          \* how the run ends: "none", "error", "survived" or "caught"
  copies,        \* the worker copies: "none", "there", "removed" or "left"
  step,          \* of each case
  at,            \* the tree each case was given
  free,          \* free_trees
  broken,        \* of each tree: the cases whose damage it holds
  verdict,       \* of each case: "none", "caught", "survived", or "error" if it raised
  seen,          \* history: what the tree of each case held when its tests began
  lost,          \* history: whether damage could not be undone
  hurried,       \* history: whether main was interrupted while it waited for cases
  faults

run == <<jobs, cases>>
mainly == <<main, taken, code, copies>>
vars == <<run, mainly, step, at, free, broken, verdict, seen, lost, hurried, faults>>

AllCases == 1..MaxCases
Cases == 1..cases
Broken == {"applied", "testing", "reverting"}
Holding == Broken \cup {"applying", "returning"}
Active == Holding \cup {"waiting"}
Verdicts == {"caught", "survived"}

TypeOK ==
  /\ jobs \in 1..MaxJobs /\ cases \in 0..MaxCases
  /\ main \in {"preparing", "collecting", "waiting", "removing", "ended"}
  /\ taken \in 0..cases
  /\ code \in Verdicts \cup {"none", "error"}
  /\ copies \in {"none", "there", "removed", "left"}
  /\ step \in [AllCases -> Active \cup {"pending", "done", "cancelled"}]
  /\ at \in [AllCases -> Trees]
  /\ free \subseteq Trees
  /\ broken \in [Trees -> SUBSET Cases]
  /\ verdict \in [AllCases -> Verdicts \cup {"none", "error"}]
  /\ seen \in [AllCases -> SUBSET Cases]
  /\ lost \in BOOLEAN /\ hurried \in BOOLEAN
  /\ faults \in Nat

Init ==
  /\ jobs \in 1..MaxJobs /\ cases \in 0..MaxCases
  /\ main = "preparing" /\ taken = 0 /\ code = "none" /\ copies = "none"
  /\ step = [c \in AllCases |-> "pending"]
  /\ at = [c \in AllCases |-> Repo]
  /\ free = {}
  /\ broken = [t \in Trees |-> {}]
  /\ verdict = [c \in AllCases |-> "none"]
  /\ seen = [c \in AllCases |-> {}]
  /\ lost = FALSE /\ hurried = FALSE
  /\ faults = MaxFaults

Fault == faults > 0 /\ faults' = faults - 1

\* What a plausible mistake would make of the definitions below it.
KeptInQueue(t) == free
NeverReverted(c) == broken
UnlessItRaised(c) ==
  IF verdict[c] = "error" THEN broken ELSE [broken EXCEPT ![at[c]] = @ \ {c}]
NotAfterAnError(c) == IF verdict[c] = "error" THEN free ELSE free \cup {at[c]}
PutsCaseBack(c) == free \cup {c}

-----------------------------------------------------------------------------
(* One case.                                                               *)

\* A worker takes up the next case; with one job main does, once the last one is
\* through.
Starts(c) ==
  /\ step[c] = "pending" /\ \A d \in 1..(c - 1) : step[d] # "pending"
  /\ IF jobs = 1
     THEN main = "collecting" /\ \A d \in 1..(c - 1) : step[d] = "done" /\ verdict[d] # "error"
     ELSE main \in {"collecting", "waiting"} \/ hurried
  /\ Cardinality({d \in Cases : step[d] \in Active}) < jobs
  /\ step' = [step EXCEPT ![c] = "waiting"]
  /\ UNCHANGED <<run, mainly, at, free, broken, verdict, seen, lost, hurried, faults>>

WithoutTree(t) == free \ {t}

TakesTree(c) ==
  /\ step[c] = "waiting"
  /\ \E t \in free :
       /\ at' = [at EXCEPT ![c] = t]
       /\ free' = WithoutTree(t)
  /\ step' = [step EXCEPT ![c] = "applying"]
  /\ UNCHANGED <<run, mainly, broken, verdict, seen, lost, hurried, faults>>

\* The snippet is there once: the file is broken on purpose.
Applies(c) ==
  /\ step[c] = "applying"
  /\ step' = [step EXCEPT ![c] = "applied"]
  /\ broken' = [broken EXCEPT ![at[c]] = @ \cup {c}]
  /\ UNCHANGED <<run, mainly, at, free, verdict, seen, lost, hurried, faults>>

Raises(c, next) ==
  /\ step' = [step EXCEPT ![c] = next]
  /\ verdict' = [verdict EXCEPT ![c] = "error"]

\* It is not there, or more than once: nothing is written.
NotApplicable(c) ==
  /\ step[c] = "applying"
  /\ Raises(c, "returning")
  /\ UNCHANGED <<run, mainly, at, free, broken, seen, lost, hurried, faults>>

\* The write fails half-way, and the restore is not reached.
ApplyFails(c) ==
  /\ step[c] = "applying" /\ Fault
  /\ Raises(c, "returning")
  /\ broken' = [broken EXCEPT ![at[c]] = @ \cup {c}]
  /\ lost' = TRUE
  /\ UNCHANGED <<run, mainly, at, free, seen, hurried>>

TestsBegin(c) ==
  /\ step[c] = "applied"
  /\ step' = [step EXCEPT ![c] = "testing"]
  /\ seen' = [seen EXCEPT ![c] = broken[at[c]]]
  /\ UNCHANGED <<run, mainly, at, free, broken, verdict, lost, hurried, faults>>

\* Of all exit codes two say something of the mutation; any other, no test that
\* ran and 900 seconds without an end raise.
TellingOutcomes == Verdicts

TestsEnd(c) ==
  /\ step[c] = "testing"
  /\ \E v \in TellingOutcomes \cup {"error"} : verdict' = [verdict EXCEPT ![c] = v]
  /\ step' = [step EXCEPT ![c] = "reverting"]
  /\ UNCHANGED <<run, mainly, at, free, broken, seen, lost, hurried, faults>>

\* The bytes that were there before are written back, whatever happened.
Restored(c) == [broken EXCEPT ![at[c]] = @ \ {c}]

Reverts(c) ==
  /\ step[c] = "reverting"
  /\ step' = [step EXCEPT ![c] = "returning"]
  /\ broken' = Restored(c)
  /\ UNCHANGED <<run, mainly, at, free, verdict, seen, lost, hurried, faults>>

\* That write fails, or Ctrl-C comes into it.
RevertFails(c) ==
  /\ step[c] = "reverting" /\ Fault
  /\ Raises(c, "returning")
  /\ lost' = TRUE
  /\ UNCHANGED <<run, mainly, at, free, broken, seen, hurried>>

PutBack(c) == free \cup {at[c]}

ReturnsTree(c) ==
  /\ step[c] = "returning"
  /\ step' = [step EXCEPT ![c] = "done"]
  /\ free' = PutBack(c)
  /\ UNCHANGED <<run, mainly, at, broken, verdict, seen, lost, hurried, faults>>

-----------------------------------------------------------------------------
(* main.                                                                   *)

\* An empty plan, tests that cannot be collected, a selector that names none, or
\* a copy that lacks a file of the plan end the run before anything is broken.
CannotRun ==
  /\ main = "preparing"
  /\ code' = "error"
  /\ \/ main' = "ended" /\ UNCHANGED copies
     \/ jobs > 1 /\ cases > 0 /\ main' = "removing" /\ copies' = "there"
  /\ UNCHANGED <<run, taken, step, at, free, broken, verdict, seen, lost, hurried, faults>>

Prepares ==
  /\ main = "preparing" /\ cases > 0
  /\ main' = "collecting"
  /\ free' = IF jobs = 1 THEN {Repo} ELSE 1..jobs
  /\ copies' = IF jobs = 1 THEN "none" ELSE "there"
  /\ UNCHANGED <<run, taken, code, step, at, broken, verdict, seen, lost, hurried, faults>>

\* The next result in plan order; the exception of a case ends the run.
TakesResult ==
  /\ main = "collecting" /\ taken < cases /\ step[taken + 1] = "done"
  /\ IF verdict[taken + 1] = "error"
     THEN main' = "waiting" /\ code' = "error" /\ UNCHANGED taken
     ELSE taken' = taken + 1 /\ UNCHANGED <<main, code>>
  /\ UNCHANGED <<run, copies, step, at, free, broken, verdict, seen, lost, hurried, faults>>

\* Ctrl-C while main waits for a result, or is between two cases of its own; the
\* tests of a worker may get it, too.
InterruptsMain ==
  /\ main = "collecting" /\ Fault
  /\ jobs = 1 => \A c \in Cases : step[c] \notin Active
  /\ main' = "waiting" /\ code' = "error"
  /\ UNCHANGED <<run, taken, copies, step, at, free, broken, verdict, seen, lost, hurried>>

\* Ctrl-C while the pool waits for the cases that run: the copies are removed
\* under them, and what becomes of these cases is not looked at any more.
InterruptsWait ==
  /\ jobs > 1 /\ main = "waiting" /\ Fault
  /\ main' = "removing" /\ code' = "error" /\ hurried' = TRUE
  /\ UNCHANGED <<run, taken, copies, step, at, free, broken, verdict, seen, lost>>

\* Ctrl-C in the one case that runs in the repository: a file broken before the
\* try was reached, or being written, is not put back.
InterruptsCase(c) ==
  /\ jobs = 1 /\ step[c] \in {"applying", "applied", "testing"} /\ Fault
  /\ Raises(c, IF step[c] = "testing" THEN "reverting" ELSE "returning")
  /\ lost' = (lost \/ step[c] = "applied")
  /\ UNCHANGED <<run, mainly, at, free, broken, seen, hurried>>

\* After an exception: what no worker took up yet.
Cancels(c) ==
  /\ main \in {"waiting", "removing", "ended"} /\ code = "error" /\ step[c] = "pending"
  /\ step' = [step EXCEPT ![c] = "cancelled"]
  /\ UNCHANGED <<run, mainly, at, free, broken, verdict, seen, lost, hurried, faults>>

AllTaken ==
  /\ main = "collecting" /\ taken = cases
  /\ main' = "waiting"
  /\ code' = IF \A c \in Cases : verdict[c] = "caught" THEN "caught" ELSE "survived"
  /\ UNCHANGED <<run, taken, copies, step, at, free, broken, verdict, seen, lost, hurried, faults>>

NoneRuns == \A c \in Cases : step[c] \in {"done", "cancelled"}

PoolCloses ==
  /\ main = "waiting" /\ NoneRuns
  /\ main' = IF jobs = 1 THEN "ended" ELSE "removing"
  /\ UNCHANGED <<run, taken, code, copies, step, at, free, broken, verdict, seen, lost, hurried, faults>>

\* Copies that cannot be removed are only warned of.
RemovesCopies ==
  /\ main = "removing"
  /\ main' = "ended"
  /\ copies' \in {"removed", "left"}
  /\ UNCHANGED <<run, taken, code, step, at, free, broken, verdict, seen, lost, hurried, faults>>

CaseStep(c) ==
  \/ Starts(c) \/ TakesTree(c) \/ Applies(c) \/ NotApplicable(c) \/ ApplyFails(c)
  \/ TestsBegin(c) \/ TestsEnd(c) \/ Reverts(c) \/ RevertFails(c) \/ ReturnsTree(c)

MainStep ==
  CannotRun \/ Prepares \/ TakesResult \/ AllTaken \/ PoolCloses \/ RemovesCopies

Next ==
  \/ \E c \in Cases : CaseStep(c) \/ Cancels(c) \/ InterruptsCase(c)
  \/ MainStep \/ InterruptsMain \/ InterruptsWait

Spec == Init /\ [][Next]_vars

\* Threads are scheduled, and tests end or are ended.
FairSpec ==
  /\ Spec /\ WF_vars(MainStep)
  /\ \A c \in AllCases : WF_vars(c \in Cases /\ (CaseStep(c) \/ Cancels(c)))

-----------------------------------------------------------------------------
(* What the harness promises.                                              *)

\* "Each worker breaks only its own file": a tree is handed to one case at a time,
\* and is not in the queue while a case holds it (build_worktrees).
OneCasePerTree ==
  \A c \in Cases : step[c] \in Holding =>
    /\ at[c] \notin free
    /\ \A d \in Cases \ {c} : step[d] \in Holding => at[d] # at[c]

\* A worker finds a tree in the queue whenever it asks for one: the wait for it,
\* which has no end of its own, never begins (run_in_parallel.one).
TreeForEveryWorker == \A c \in Cases : step[c] = "waiting" => free # {}

\* A run that reports its results got each of them with nothing but that case's
\* mutation in the tree, whatever was left broken by a case that raised; and it
\* says that all were caught only of a plan with cases, each of which was.
ResultsProve ==
  code \in Verdicts =>
    /\ cases > 0
    /\ \A c \in Cases : verdict[c] \in Verdicts /\ seen[c] = {c}
    /\ code = "caught" => \A c \in Cases : verdict[c] = "caught"

\* The copies go only when no case uses one, also after the exception of a case or
\* an interrupt, unless another interrupt ends that waiting (run_in_parallel).
CopiesOutliveCases ==
  main \in {"removing", "ended"} /\ ~hurried => \A c \in Cases : step[c] \notin Active

\* "Every mutation is reverted afterwards, including on failure": the repository
\* ends as it was, and with copies it is never touched. Where a failed write or an
\* interrupt between the write and the try leaves it broken, it is by one mutation
\* only, of a case that raised, and the run ends with that error and no results
\* (run_case).
RepositoryAsFound ==
  /\ jobs > 1 => broken[Repo] = {}
  /\ main = "ended" =>
       \/ broken[Repo] = {}
       \/ /\ lost /\ code = "error"
          /\ \E c \in Cases : broken[Repo] = {c} /\ verdict[c] = "error"

\* The run ends with all its cases: none waits for a tree that never comes back.
RunEnds == <>[](main = "ended" /\ \A c \in Cases : step[c] \notin Active)
=============================================================================
