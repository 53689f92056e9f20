-------------------------- MODULE MutationRunProofs --------------------------
(* What holds of a run of the mutation harness for any plan, any number of *)
(* jobs and any number of failed writes and interrupts.                    *)
EXTENDS MutationRun, FiniteSetTheorems, TLAPS

USE DEF Repo, Trees, Copies, AllCases, Cases, Verdicts

\* A tree is with one case or in the queue, and with copies never the repository.
Held ==
  /\ OneCasePerTree
  /\ jobs > 1 =>
       /\ Repo \notin free
       /\ \A c \in Cases : step[c] \in Holding => at[c] # Repo

\* What a tree holds is the mutation of the case it is with, or the damage of a
\* case that raised and could not undo it.
Damage ==
  /\ jobs > 1 => broken[Repo] = {}
  /\ \A c \in Cases : step[c] \in Broken => c \in broken[at[c]]
  /\ \A t \in Trees : \A c \in broken[t] :
       \/ step[c] \in Broken /\ at[c] = t
       \/ verdict[c] = "error" /\ lost

\* A verdict is given once, and what raised nothing was got in a tree with
\* nothing beside its mutation but the damage of cases that raised.
Told ==
  \A c \in Cases :
    /\ step[c] \in {"pending", "waiting", "applying", "applied", "testing"} =>
         verdict[c] = "none"
    /\ step[c] \in {"reverting", "returning", "done"} => verdict[c] # "none"
    /\ step[c] \in {"testing", "reverting", "returning", "done"} /\ verdict[c] # "error" =>
         /\ c \in seen[c]
         /\ \A d \in seen[c] \ {c} : verdict[d] = "error"

\* Where main is: nothing runs before it prepared and, unless it was interrupted
\* while it waited, after the pool has closed; the results taken raised nothing.
Mainly ==
  /\ main = "preparing" =>
       free = {} /\ code = "none" /\ \A c \in Cases : step[c] = "pending"
  /\ main = "collecting" => code = "none" /\ cases > 0
  /\ main = "waiting" => cases > 0
  /\ hurried => main \in {"removing", "ended"} /\ jobs > 1 /\ code = "error"
  /\ CopiesOutliveCases
  /\ \A c \in 1..taken : step[c] = "done" /\ verdict[c] # "error"
  /\ code \in Verdicts => taken = cases /\ cases > 0
  /\ code = "caught" => \A c \in Cases : verdict[c] = "caught"

\* The inductive invariant.
IInv == TypeOK /\ Held /\ Damage /\ Told /\ Mainly

\* A run begins with every tree whole and in nobody's hands.
LEMMA InitIInv == Init => IInv
<1> SUFFICES ASSUME Init PROVE IInv
  OBVIOUS
<1> USE MutationRunAssumption
<1>1. TypeOK
  <2>1. /\ jobs \in 1..MaxJobs /\ cases \in 0..MaxCases /\ taken \in 0..cases
        /\ faults \in Nat /\ free \subseteq Trees
    BY DEF Init
  <2>2. /\ step \in [AllCases -> Active \cup {"pending", "done", "cancelled"}]
        /\ at \in [AllCases -> Trees] /\ broken \in [Trees -> SUBSET Cases]
        /\ verdict \in [AllCases -> Verdicts \cup {"none", "error"}]
        /\ seen \in [AllCases -> SUBSET Cases]
    BY DEF Init
  <2> QED
    BY <2>1, <2>2 DEF Init, TypeOK
<1>2. \A c \in Cases : step[c] = "pending" /\ verdict[c] = "none"
  BY DEF Init
<1>3. Held
  BY <1>2 DEF Init, Held, OneCasePerTree, Holding, Broken
<1>4. Damage
  BY <1>2 DEF Init, Damage, Broken
<1>5. Told /\ Mainly
  BY <1>2 DEF Init, Told, Mainly, CopiesOutliveCases
<1> QED
  BY <1>1, <1>3, <1>4, <1>5 DEF IInv

\* The steps of one case, interrupts among them.
OfACase(c) ==
  \/ Starts(c) \/ TakesTree(c) \/ Applies(c) \/ NotApplicable(c) \/ ApplyFails(c)
  \/ TestsBegin(c) \/ TestsEnd(c) \/ Reverts(c) \/ RevertFails(c) \/ ReturnsTree(c)
  \/ Cancels(c) \/ InterruptsCase(c)

\* Every case of the plan is one of those the functions are over.
LEMMA CasesOfPlan == ASSUME TypeOK PROVE Cases \subseteq AllCases
BY MutationRunAssumption DEF TypeOK

\* What any of them leaves alone.
LEMMA OwnStep ==
  ASSUME IInv, NEW c \in Cases, OfACase(c)
  PROVE  /\ UNCHANGED <<jobs, cases, main, taken, code, copies, hurried>>
         /\ \A d \in Cases \ {c} :
              /\ step'[d] = step[d] /\ at'[d] = at[d]
              /\ verdict'[d] = verdict[d] /\ seen'[d] = seen[d]
         /\ lost => lost'
<1>1. TypeOK /\ Cases \subseteq AllCases
  BY CasesOfPlan DEF IInv
<1> HIDE DEF Cases, AllCases
<1>2. CASE Starts(c) \/ TakesTree(c) \/ Applies(c) \/ ReturnsTree(c)
  BY <1>1, <1>2 DEF TypeOK, Starts, TakesTree, Applies, ReturnsTree, run, mainly
<1>3. CASE NotApplicable(c) \/ ApplyFails(c) \/ RevertFails(c) \/ InterruptsCase(c)
  BY <1>1, <1>3
     DEF TypeOK, NotApplicable, ApplyFails, RevertFails, InterruptsCase, Raises, run, mainly
<1>4. CASE TestsBegin(c) \/ TestsEnd(c) \/ Reverts(c) \/ Cancels(c)
  BY <1>1, <1>4 DEF TypeOK, TestsBegin, TestsEnd, Reverts, Cancels, run, mainly
<1> QED
  BY <1>2, <1>3, <1>4 DEF OfACase

\* The steps of a case keep every type.
LEMMA OwnType == ASSUME IInv, NEW c \in Cases, OfACase(c) PROVE TypeOK'
<1>0. TypeOK /\ c \in AllCases
  BY MutationRunAssumption DEF IInv, TypeOK
<1> USE <1>0, MutationRunAssumption DEF TypeOK, Active, Holding, Broken, run, mainly
<1>1. CASE Starts(c)
  BY <1>1 DEF Starts
<1>2. CASE TakesTree(c)
  BY <1>2 DEF TakesTree, WithoutTree
<1>3. CASE Applies(c)
  BY <1>3 DEF Applies
<1>4. CASE NotApplicable(c)
  BY <1>4 DEF NotApplicable, Raises
<1>5. CASE ApplyFails(c)
  BY <1>5 DEF ApplyFails, Raises, Fault
<1>6. CASE TestsBegin(c)
  BY <1>6 DEF TestsBegin
<1>7. CASE TestsEnd(c)
  BY <1>7 DEF TestsEnd, TellingOutcomes
<1>8. CASE Reverts(c)
  BY <1>8 DEF Reverts, Restored
<1>9. CASE RevertFails(c)
  BY <1>9 DEF RevertFails, Raises, Fault
<1>10. CASE ReturnsTree(c)
  BY <1>10 DEF ReturnsTree, PutBack
<1>11. CASE Cancels(c)
  BY <1>11 DEF Cancels
<1>12. CASE InterruptsCase(c)
  BY <1>12 DEF InterruptsCase, Raises, Fault
<1> QED
  BY <1>1, <1>2, <1>3, <1>4, <1>5, <1>6, <1>7, <1>8, <1>9, <1>10, <1>11, <1>12 DEF OfACase

\* A case takes a tree out of the queue, and puts that one back.
LEMMA OwnHeld == ASSUME IInv, NEW c \in Cases, OfACase(c) PROVE Held'
<1>0. /\ TypeOK /\ Held /\ c \in AllCases
      /\ \A d \in Cases \ {c} : step'[d] = step[d] /\ at'[d] = at[d]
      /\ cases' = cases /\ jobs' = jobs
  BY OwnStep, CasesOfPlan DEF IInv, TypeOK
<1>1. CASE TakesTree(c)
  <2>1. PICK t \in free : at' = [at EXCEPT ![c] = t] /\ free' = free \ {t}
    BY <1>1 DEF TakesTree, WithoutTree
  <2>2. step' = [step EXCEPT ![c] = "applying"]
    BY <1>1 DEF TakesTree
  <2>3. at'[c] = t /\ t \notin free' /\ \A d \in Cases : step[d] \in Holding => at[d] # t
    BY <1>0, <2>1 DEF TypeOK, Held, OneCasePerTree
  <2> QED
    BY <1>0, <2>1, <2>2, <2>3 DEF TypeOK, Held, OneCasePerTree
<1>2. CASE ReturnsTree(c)
  <2>1. step[c] \in Holding /\ step'[c] \notin Holding /\ free' = free \cup {at[c]} /\ at' = at
    BY <1>0, <1>2 DEF TypeOK, ReturnsTree, PutBack, Holding, Broken
  <2> QED
    BY <1>0, <2>1 DEF TypeOK, Held, OneCasePerTree
<1>3. CASE ~TakesTree(c) /\ ~ReturnsTree(c)
  <2>1. free' = free /\ at' = at
    BY <1>3 DEF OfACase, Starts, Applies, NotApplicable, ApplyFails, TestsBegin, TestsEnd,
                Reverts, RevertFails, Cancels, InterruptsCase
  <2>2. step'[c] \in Holding => step[c] \in Holding
    BY <1>0, <1>3
       DEF OfACase, TypeOK, Starts, Applies, NotApplicable, ApplyFails, TestsBegin, TestsEnd,
           Reverts, RevertFails, Cancels, InterruptsCase, Raises, Holding, Broken
  <2> QED
    BY <1>0, <2>1, <2>2 DEF Held, OneCasePerTree
<1> QED
  BY <1>1, <1>2, <1>3

\* A case breaks only the tree it holds, and undoes only its own damage.
LEMMA OwnDamage == ASSUME IInv, NEW c \in Cases, OfACase(c) PROVE Damage'
<1>0. /\ TypeOK /\ Held /\ Damage /\ Told /\ c \in AllCases
      /\ \A d \in Cases \ {c} :
           step'[d] = step[d] /\ at'[d] = at[d] /\ verdict'[d] = verdict[d]
      /\ cases' = cases /\ jobs' = jobs /\ (lost => lost')
  BY OwnStep, CasesOfPlan DEF IInv, TypeOK
<1>a. \A d \in Cases : step[d] \in Broken => step[d] \in Holding
  BY DEF Holding
<1>b. /\ at[c] \in Trees /\ Repo \in Trees
      /\ \A t \in Trees : broken[t] \subseteq Cases
  BY <1>0 DEF TypeOK
<1>1. CASE Starts(c) \/ TakesTree(c) \/ Cancels(c) \/ NotApplicable(c)
  <2>1. /\ broken' = broken /\ step[c] \notin Broken /\ step'[c] \notin Broken
        /\ verdict[c] = "none" \/ verdict'[c] = verdict[c]
    BY <1>0, <1>1 DEF TypeOK, Told, Starts, TakesTree, Cancels, NotApplicable, Raises, Broken
  <2>2. \A t \in Trees : c \notin broken[t]
    BY <1>0, <1>1, <2>1
       DEF Damage, Told, Starts, TakesTree, Cancels, NotApplicable
  <2> QED
    BY <1>0, <1>b, <2>1, <2>2 DEF Damage
<1>2. CASE Applies(c)
  <2>1. /\ step[c] = "applying" /\ step'[c] \in Broken /\ at' = at /\ verdict' = verdict
        /\ broken' = [broken EXCEPT ![at[c]] = @ \cup {c}]
        /\ lost' = lost
    BY <1>0, <1>2 DEF TypeOK, Applies, Broken
  <2>2. jobs > 1 => at[c] # Repo
    BY <1>0, <2>1 DEF Held, Holding
  <2>3. \A d \in Cases \ {c} : step[d] \in Broken => d \in broken'[at[d]]
    BY <1>0, <1>b, <2>1 DEF Damage, TypeOK
  <2>4. \A t \in Trees : c \in broken[t] => at[c] = t
    BY <1>0, <2>1 DEF Damage, Told, Broken
  <2>5. broken'[at[c]] = broken[at[c]] \cup {c}
          /\ \A t \in Trees \ {at[c]} : broken'[t] = broken[t]
    BY <1>0, <1>b, <2>1 DEF TypeOK
  <2>6. \A t \in Trees : \A d \in broken'[t] :
          \/ step'[d] \in Broken /\ at'[d] = t
          \/ verdict'[d] = "error" /\ lost'
    <3> SUFFICES ASSUME NEW t \in Trees, NEW d \in broken'[t]
                 PROVE  \/ step'[d] \in Broken /\ at'[d] = t
                        \/ verdict'[d] = "error" /\ lost'
      OBVIOUS
    <3>1. CASE d = c
      BY <2>1, <2>4, <2>5, <3>1
    <3>2. CASE d # c
      BY <1>0, <1>b, <2>1, <2>5, <3>2 DEF Damage
    <3> QED
      BY <3>1, <3>2
  <2> QED
    BY <1>0, <1>b, <2>1, <2>2, <2>3, <2>5, <2>6 DEF Damage
<1>3. CASE ApplyFails(c)
  <2>1. /\ step[c] = "applying" /\ step'[c] \notin Broken /\ at' = at
        /\ broken' = [broken EXCEPT ![at[c]] = @ \cup {c}]
        /\ verdict'[c] = "error" /\ lost'
    BY <1>0, <1>3 DEF TypeOK, ApplyFails, Raises, Broken
  <2>2. jobs > 1 => at[c] # Repo
    BY <1>0, <2>1 DEF Held, Holding
  <2>3. broken'[at[c]] = broken[at[c]] \cup {c}
          /\ \A t \in Trees \ {at[c]} : broken'[t] = broken[t]
    BY <1>0, <1>b, <2>1 DEF TypeOK
  <2>4. \A d \in Cases \ {c} : step[d] \in Broken => d \in broken'[at[d]]
    BY <1>0, <2>1, <2>3 DEF Damage, TypeOK
  <2> QED
    BY <1>0, <1>b, <2>1, <2>2, <2>3, <2>4 DEF Damage
<1>4. CASE TestsBegin(c) \/ TestsEnd(c)
  <2>1. /\ broken' = broken /\ step[c] \in Broken /\ step'[c] \in Broken /\ at' = at
        /\ lost' = lost
    BY <1>0, <1>4 DEF TypeOK, TestsBegin, TestsEnd, Broken
  <2>2. \A t \in Trees : c \in broken[t] => at[c] = t
    BY <1>0, <1>4 DEF Damage, Told, TestsBegin, TestsEnd
  <2> QED
    BY <1>0, <1>b, <2>1, <2>2 DEF Damage
<1>5. CASE Reverts(c)
  <2>1. /\ step[c] \in Broken /\ step'[c] \notin Broken /\ at' = at /\ verdict' = verdict
        /\ broken' = [broken EXCEPT ![at[c]] = @ \ {c}]
        /\ lost' = lost
    BY <1>0, <1>5 DEF TypeOK, Reverts, Restored, Broken
  <2>2. broken'[at[c]] = broken[at[c]] \ {c}
          /\ \A t \in Trees \ {at[c]} : broken'[t] = broken[t]
    BY <1>0, <1>b, <2>1 DEF TypeOK
  <2>3. \A d \in Cases \ {c} : step[d] \in Broken => at[d] # at[c] /\ d \in broken'[at[d]]
    BY <1>0, <1>a, <2>1, <2>2 DEF Damage, Held, OneCasePerTree, TypeOK
  <2>4. \A t \in Trees : \A d \in broken'[t] :
          \/ step'[d] \in Broken /\ at'[d] = t
          \/ verdict'[d] = "error" /\ lost'
    <3> SUFFICES ASSUME NEW t \in Trees, NEW d \in broken'[t]
                 PROVE  \/ step'[d] \in Broken /\ at'[d] = t
                        \/ verdict'[d] = "error" /\ lost'
      OBVIOUS
    <3>1. d \in broken[t] /\ d \in Cases /\ (d = c => t # at[c])
      BY <1>b, <2>2
    <3>2. (step[d] \in Broken /\ at[d] = t) \/ (verdict[d] = "error" /\ lost)
      BY <1>0, <3>1 DEF Damage
    <3> QED
      BY <1>0, <2>1, <3>1, <3>2
  <2>5. jobs > 1 => broken'[Repo] = {}
    BY <1>0, <1>b, <2>2 DEF Damage
  <2> QED
    BY <1>0, <1>b, <2>1, <2>3, <2>4, <2>5 DEF Damage
<1>6. CASE RevertFails(c)
  <2>1. /\ broken' = broken /\ at' = at /\ step[c] \in Broken /\ step'[c] \notin Broken
        /\ verdict'[c] = "error" /\ lost'
    BY <1>0, <1>6 DEF TypeOK, RevertFails, Raises, Broken
  <2> QED
    BY <1>0, <1>b, <2>1 DEF Damage
<1>7. CASE ReturnsTree(c)
  <2>1. /\ broken' = broken /\ at' = at /\ step[c] \notin Broken /\ step'[c] \notin Broken
        /\ verdict' = verdict /\ lost' = lost
    BY <1>0, <1>7 DEF TypeOK, ReturnsTree, Broken
  <2> QED
    BY <1>0, <1>b, <2>1 DEF Damage
<1>8. CASE InterruptsCase(c)
  <2>1. /\ broken' = broken /\ at' = at /\ verdict'[c] = "error" /\ verdict[c] = "none"
        /\ lost' = (lost \/ step[c] = "applied")
        /\ step[c] \in {"applying", "applied", "testing"}
        /\ step'[c] = IF step[c] = "testing" THEN "reverting" ELSE "returning"
    BY <1>0, <1>8 DEF TypeOK, Told, InterruptsCase, Raises
  <2>2. \A t \in Trees : c \in broken[t] => step[c] \in Broken /\ at[c] = t
    BY <1>0, <2>1 DEF Damage
  <2>3. CASE step[c] = "testing"
    BY <1>0, <1>b, <2>1, <2>2, <2>3 DEF Damage, Broken
  <2>4. CASE step[c] # "testing"
    <3>1. step'[c] \notin Broken /\ (step[c] \in Broken => lost')
      BY <2>1, <2>4 DEF Broken
    <3> QED
      BY <1>0, <1>b, <2>1, <2>2, <3>1 DEF Damage
  <2> QED
    BY <2>3, <2>4
<1> QED
  BY <1>1, <1>2, <1>3, <1>4, <1>5, <1>6, <1>7, <1>8 DEF OfACase

\* A verdict that is no exception was got with no damage but that of cases that raised.
LEMMA OwnTold == ASSUME IInv, NEW c \in Cases, OfACase(c) PROVE Told'
<1>0. /\ TypeOK /\ Held /\ Damage /\ Told /\ c \in AllCases
      /\ \A d \in Cases \ {c} :
           step'[d] = step[d] /\ verdict'[d] = verdict[d] /\ seen'[d] = seen[d]
      /\ cases' = cases /\ \A d \in Cases : seen[d] \subseteq Cases
  BY OwnStep, CasesOfPlan DEF IInv, TypeOK
<1>1. verdict[c] = "error" => verdict'[c] = "error"
  BY <1>0
     DEF OfACase, TypeOK, Told, Starts, TakesTree, Applies, NotApplicable, ApplyFails, TestsBegin,
         TestsEnd, Reverts, RevertFails, ReturnsTree, Cancels, InterruptsCase, Raises
<1>2. \A d \in Cases : verdict[d] = "error" => verdict'[d] = "error"
  BY <1>0, <1>1
<1>3. /\ step'[c] \in {"pending", "waiting", "applying", "applied", "testing"} =>
           verdict'[c] = "none"
      /\ step'[c] \in {"reverting", "returning", "done"} => verdict'[c] # "none"
  <2>1. CASE Starts(c) \/ TakesTree(c) \/ Applies(c) \/ TestsBegin(c) \/ Cancels(c)
    BY <1>0, <2>1 DEF TypeOK, Told, Starts, TakesTree, Applies, TestsBegin, Cancels
  <2>2. CASE NotApplicable(c) \/ ApplyFails(c) \/ RevertFails(c) \/ InterruptsCase(c)
    BY <1>0, <2>2
       DEF TypeOK, NotApplicable, ApplyFails, RevertFails, InterruptsCase, Raises
  <2>3. CASE TestsEnd(c) \/ Reverts(c) \/ ReturnsTree(c)
    BY <1>0, <2>3 DEF TypeOK, Told, TestsEnd, TellingOutcomes, Reverts, ReturnsTree
  <2> QED
    BY <2>1, <2>2, <2>3 DEF OfACase
<1>4. ASSUME step'[c] \in {"testing", "reverting", "returning", "done"}, verdict'[c] # "error"
      PROVE  c \in seen'[c] /\ \A d \in seen'[c] \ {c} : verdict'[d] = "error"
  <2>1. CASE TestsBegin(c)
    <3>1. seen'[c] = broken[at[c]] /\ step[c] = "applied" /\ at[c] \in Trees
      BY <1>0, <2>1 DEF TypeOK, TestsBegin
    <3>2. c \in broken[at[c]] /\ broken[at[c]] \subseteq Cases
      BY <1>0, <3>1 DEF TypeOK, Damage, Broken
    <3>3. \A d \in broken[at[c]] \ {c} : verdict[d] = "error"
      BY <1>0, <3>1, <3>2 DEF Damage, Held, OneCasePerTree, Holding, Broken
    <3> QED
      BY <1>2, <3>1, <3>2, <3>3
  <2>2. CASE ~TestsBegin(c)
    <3>1. /\ seen' = seen /\ step[c] \in {"testing", "reverting", "returning", "done"}
          /\ verdict[c] # "error"
      BY <1>0, <1>1, <1>4, <2>2
         DEF OfACase, TypeOK, Told, Starts, TakesTree, Applies, NotApplicable, ApplyFails,
             TestsEnd, Reverts, RevertFails, ReturnsTree, Cancels, InterruptsCase, Raises
    <3> QED
      BY <1>0, <1>2, <3>1 DEF Told
  <2> QED
    BY <2>1, <2>2
<1> QED
  BY <1>0, <1>2, <1>3, <1>4 DEF Told

\* No case runs before main prepared or after the pool has closed, and what main
\* has taken is done.
LEMMA OwnMainly == ASSUME IInv, NEW c \in Cases, OfACase(c) PROVE Mainly'
<1>0. /\ TypeOK /\ Told /\ Mainly /\ c \in AllCases
      /\ jobs' = jobs /\ cases' = cases /\ main' = main /\ taken' = taken /\ code' = code
      /\ hurried' = hurried
      /\ \A d \in Cases \ {c} : step'[d] = step[d] /\ verdict'[d] = verdict[d]
  BY OwnStep, CasesOfPlan DEF IInv
<1>1. main # "preparing"
  BY <1>0
     DEF OfACase, Mainly, TypeOK, Starts, TakesTree, Applies, NotApplicable, ApplyFails, TestsBegin,
         TestsEnd, Reverts, RevertFails, ReturnsTree, Cancels, InterruptsCase
<1>2. step[c] # "done"
  BY <1>0
     DEF OfACase, Starts, TakesTree, Applies, NotApplicable, ApplyFails, TestsBegin,
         TestsEnd, Reverts, RevertFails, ReturnsTree, Cancels, InterruptsCase
<1>3. \A d \in 1..taken : d \in Cases /\ d # c /\ step'[d] = "done" /\ verdict'[d] # "error"
  BY <1>0, <1>2 DEF Mainly, TypeOK
<1>4. code \notin Verdicts
  BY <1>0, <1>2 DEF Mainly
<1>5. main \in {"removing", "ended"} /\ ~hurried => step'[c] \notin Active
  BY <1>0, <1>1
     DEF OfACase, Mainly, CopiesOutliveCases, TypeOK, Starts, TakesTree, Applies, NotApplicable,
         ApplyFails, TestsBegin, TestsEnd, Reverts, RevertFails, ReturnsTree, Cancels,
         InterruptsCase, Active, Holding, Broken
<1> QED
  BY <1>0, <1>1, <1>3, <1>4, <1>5 DEF Mainly, CopiesOutliveCases

\* The steps of main, interrupts among them.
OfMain == MainStep \/ InterruptsMain \/ InterruptsWait

\* What any of them leaves alone.
LEMMA MainsStep ==
  ASSUME IInv, OfMain
  PROVE  UNCHANGED <<jobs, cases, step, at, broken, verdict, seen, lost>>
BY DEF OfMain, MainStep, CannotRun, Prepares, TakesResult, AllTaken, PoolCloses, RemovesCopies,
       InterruptsMain, InterruptsWait, run

\* They keep every type, what is held, the damage and the verdicts.
LEMMA MainsOthers == ASSUME IInv, OfMain PROVE TypeOK' /\ Held' /\ Damage' /\ Told'
<1>0. /\ TypeOK /\ Held /\ Damage /\ Told /\ Mainly
      /\ UNCHANGED <<jobs, cases, step, at, broken, verdict, seen, lost>>
  BY MainsStep DEF IInv
<1>1. \/ free' = free
      \/ /\ main = "preparing" /\ free' = IF jobs = 1 THEN {Repo} ELSE 1..jobs
  BY DEF OfMain, MainStep, CannotRun, Prepares, TakesResult, AllTaken, PoolCloses, RemovesCopies,
         InterruptsMain, InterruptsWait
<1>2. free' \subseteq Trees
  <2>1. free \subseteq Trees /\ 1..jobs \subseteq 1..MaxJobs
    BY <1>0, MutationRunAssumption DEF TypeOK
  <2> QED
    BY <1>1, <2>1
<1>3. TypeOK'
  <2>1. /\ main' \in {"preparing", "collecting", "waiting", "removing", "ended"}
        /\ taken' \in 0..cases /\ code' \in Verdicts \cup {"none", "error"}
        /\ copies' \in {"none", "there", "removed", "left"}
        /\ hurried' \in BOOLEAN /\ faults' \in Nat
    <3> USE <1>0, MutationRunAssumption DEF TypeOK
    <3>1. CASE CannotRun \/ Prepares \/ AllTaken
      BY <3>1 DEF CannotRun, Prepares, AllTaken
    <3>2. CASE TakesResult
      BY <3>2 DEF TakesResult
    <3>3. CASE PoolCloses \/ RemovesCopies
      BY <3>3 DEF PoolCloses, RemovesCopies
    <3>4. CASE InterruptsMain \/ InterruptsWait
      <4>1. faults' \in Nat
        BY <3>4 DEF InterruptsMain, InterruptsWait, Fault
      <4>2. /\ taken' = taken /\ copies' = copies /\ code' = "error"
            /\ main' \in {"waiting", "removing"}
        BY <3>4 DEF InterruptsMain, InterruptsWait
      <4>3. hurried' = hurried \/ hurried' = TRUE
        BY <3>4 DEF InterruptsMain, InterruptsWait
      <4> QED
        BY <4>1, <4>2, <4>3
    <3> QED
      BY <3>1, <3>2, <3>3, <3>4 DEF OfMain, MainStep
  <2> QED
    BY <1>0, <1>2, <2>1 DEF TypeOK, Active, Holding, Broken
<1>4. Held'
  <2>1. CASE free' = free
    BY <1>0, <2>1 DEF Held, OneCasePerTree
  <2>2. CASE main = "preparing" /\ free' = IF jobs = 1 THEN {Repo} ELSE 1..jobs
    <3>1. \A c \in Cases : step[c] \notin Holding
      BY <1>0, <2>2 DEF Mainly, Holding, Broken
    <3>2. jobs > 1 => Repo \notin free'
      BY <1>0, <2>2 DEF TypeOK
    <3> QED
      BY <1>0, <3>1, <3>2 DEF Held, OneCasePerTree
  <2> QED
    BY <1>1, <2>1, <2>2
<1>5. Damage' /\ Told'
  BY <1>0 DEF Damage, Told
<1> QED
  BY <1>3, <1>4, <1>5

\* Main takes results that raised nothing, and removes the copies when none runs.
LEMMA MainsMainly == ASSUME IInv, OfMain PROVE Mainly'
<1>0. /\ TypeOK /\ Told /\ Mainly
      /\ UNCHANGED <<jobs, cases, step, at, broken, verdict, seen, lost>>
  BY MainsStep DEF IInv
<1> USE <1>0 DEF Mainly, TypeOK
<1>1. CASE CannotRun
  BY <1>1 DEF CannotRun, CopiesOutliveCases, Active, Holding, Broken
<1>2. CASE Prepares
  BY <1>2 DEF Prepares, CopiesOutliveCases
<1>3. CASE TakesResult
  <2>1. CASE verdict[taken + 1] = "error"
    BY <1>3, <2>1 DEF TakesResult, CopiesOutliveCases
  <2>2. CASE verdict[taken + 1] # "error"
    <3>1. /\ taken' = taken + 1 /\ step[taken + 1] = "done" /\ UNCHANGED <<main, code, hurried>>
          /\ main = "collecting"
      BY <1>3, <2>2 DEF TakesResult
    <3>2. \A c \in 1..taken' : step'[c] = "done" /\ verdict'[c] # "error"
      <4> TAKE c \in 1..taken'
      <4>1. c \in 1..taken \/ c = taken + 1
        BY <3>1
      <4> QED
        BY <2>2, <3>1, <4>1
    <3> QED
      BY <3>1, <3>2 DEF CopiesOutliveCases
  <2> QED
    BY <2>1, <2>2
<1>4. CASE AllTaken
  BY <1>4 DEF AllTaken, CopiesOutliveCases
<1>5. CASE PoolCloses
  BY <1>5 DEF PoolCloses, NoneRuns, CopiesOutliveCases, Active, Holding, Broken
<1>6. CASE RemovesCopies
  BY <1>6 DEF RemovesCopies, CopiesOutliveCases
<1>7. CASE InterruptsMain
  BY <1>7 DEF InterruptsMain, CopiesOutliveCases
<1>8. CASE InterruptsWait
  BY <1>8 DEF InterruptsWait, CopiesOutliveCases
<1> QED
  BY <1>1, <1>2, <1>3, <1>4, <1>5, <1>6, <1>7, <1>8 DEF OfMain, MainStep

\* Every step keeps the invariant.
LEMMA StepIInv == ASSUME IInv, [Next]_vars PROVE IInv'
<1>1. CASE UNCHANGED vars
  BY <1>1
     DEF vars, run, mainly, IInv, TypeOK, Held, OneCasePerTree, Damage, Told, Mainly,
         CopiesOutliveCases
<1>2. ASSUME NEW c \in Cases, OfACase(c) PROVE IInv'
  BY <1>2, OwnType, OwnHeld, OwnDamage, OwnTold, OwnMainly DEF IInv
<1>3. CASE OfMain
  BY <1>3, MainsOthers, MainsMainly DEF IInv
<1> QED
  BY <1>1, <1>2, <1>3 DEF Next, CaseStep, OfACase, OfMain

\* The inductive invariant holds in every state of a run.
THEOREM SpecIInv == Spec => []IInv
BY InitIInv, StepIInv, PTL DEF Spec

\* Every variable of a run keeps its type.
THEOREM TypeCorrect == Spec => []TypeOK
<1>1. IInv => TypeOK
  BY DEF IInv
<1> QED
  BY <1>1, SpecIInv, PTL

\* No tree is with two cases, or with one and in the queue, whatever raises.
THEOREM TreesExclusive == Spec => []OneCasePerTree
<1>1. IInv => OneCasePerTree
  BY DEF IInv, Held
<1> QED
  BY <1>1, SpecIInv, PTL

\* Reported results were each got with nothing but the mutation of their case in
\* the tree, though a case that raised may have left a broken tree in the queue.
THEOREM ReportsProve == Spec => []ResultsProve
<1>1. IInv => ResultsProve
  <2> SUFFICES ASSUME IInv, code \in Verdicts
               PROVE  /\ cases > 0
                      /\ \A c \in Cases : verdict[c] \in Verdicts /\ seen[c] = {c}
                      /\ code = "caught" => \A c \in Cases : verdict[c] = "caught"
    BY DEF ResultsProve
  <2>1. /\ cases > 0 /\ (code = "caught" => \A c \in Cases : verdict[c] = "caught")
        /\ \A c \in Cases : step[c] = "done" /\ verdict[c] # "error"
    BY DEF IInv, Mainly
  <2>2. ASSUME NEW c \in Cases PROVE verdict[c] \in Verdicts /\ seen[c] = {c}
    <3>1. /\ verdict[c] \in Verdicts \cup {"none", "error"} /\ seen[c] \subseteq Cases
          /\ verdict[c] # "none" /\ c \in seen[c]
          /\ \A d \in seen[c] \ {c} : verdict[d] = "error"
      BY <2>1, MutationRunAssumption DEF IInv, TypeOK, Told
    <3> QED
      BY <2>1, <3>1
  <2> QED
    BY <2>1, <2>2
<1> QED
  BY <1>1, SpecIInv, PTL

\* The copies are not removed under a case, unless the waiting for it is interrupted.
THEOREM CopiesStay == Spec => []CopiesOutliveCases
<1>1. IInv => CopiesOutliveCases
  BY DEF IInv, Mainly
<1> QED
  BY <1>1, SpecIInv, PTL

-----------------------------------------------------------------------------
(* What damage the repository may end with: with one job a case begins     *)
(* only when all before it were done and raised nothing.                   *)

\* With one job the cases run in plan order up to the first that raises; no run
\* that is over has nothing to say.
InTurn ==
  /\ main \in {"waiting", "removing", "ended"} => code # "none"
  /\ \A c \in Cases : step[c] = "cancelled" => verdict[c] = "none"
  /\ jobs = 1 =>
       \A c, d \in Cases : c < d /\ step[d] \notin {"pending", "cancelled"} =>
         step[c] = "done" /\ verdict[c] # "error"

\* A case is begun only in its turn, and nothing changes of one that is done.
LEMMA OwnInTurn == ASSUME IInv, InTurn, NEW c \in Cases, OfACase(c) PROVE InTurn'
<1>0. /\ TypeOK /\ Told /\ c \in AllCases
      /\ UNCHANGED <<jobs, cases, main, code>>
      /\ \A d \in Cases \ {c} : step'[d] = step[d] /\ verdict'[d] = verdict[d]
  BY OwnStep, CasesOfPlan DEF IInv
<1>1. step[c] # "done"
  BY DEF OfACase, Starts, TakesTree, Applies, NotApplicable, ApplyFails, TestsBegin,
         TestsEnd, Reverts, RevertFails, ReturnsTree, Cancels, InterruptsCase
<1>2. \A d \in Cases : step'[d] = "cancelled" => verdict'[d] = "none"
  <2>1. CASE Cancels(c)
    BY <1>0, <2>1 DEF Cancels, TypeOK, Told, InTurn
  <2>2. CASE ~Cancels(c)
    <3>1. step'[c] # "cancelled"
      BY <1>0, <2>2
         DEF OfACase, TypeOK, Starts, TakesTree, Applies, NotApplicable, ApplyFails, TestsBegin,
             TestsEnd, Reverts, RevertFails, ReturnsTree, InterruptsCase, Raises
    <3> QED
      BY <1>0, <3>1 DEF InTurn
  <2> QED
    BY <2>1, <2>2
<1>3. ASSUME jobs = 1, NEW b \in Cases, NEW d \in Cases, b < d,
             step'[d] \notin {"pending", "cancelled"}
      PROVE  step'[b] = "done" /\ verdict'[b] # "error"
  <2>1. CASE Starts(c) /\ d = c
    <3>1. b \in 1..(c - 1) /\ b # c
      BY <1>3, <2>1, MutationRunAssumption DEF TypeOK
    <3>2. step[b] = "done" /\ verdict[b] # "error"
      BY <1>3, <2>1, <3>1 DEF Starts
    <3> QED
      BY <1>0, <3>1, <3>2
  <2>2. CASE ~(Starts(c) /\ d = c)
    <3>1. step[d] \notin {"pending", "cancelled"}
      BY <1>0, <1>3, <2>2
         DEF OfACase, TypeOK, TakesTree, Applies, NotApplicable, ApplyFails, TestsBegin,
             TestsEnd, Reverts, RevertFails, ReturnsTree, Cancels, InterruptsCase, Raises
    <3>2. step[b] = "done" /\ verdict[b] # "error"
      BY <1>3, <3>1 DEF InTurn
    <3> QED
      BY <1>0, <1>1, <3>2
  <2> QED
    BY <2>1, <2>2
<1> QED
  BY <1>0, <1>2, <1>3 DEF InTurn

\* The repository ends as it was found, or the run ends with the error of the one
\* case that could not undo its mutation.
THEOREM RepositoryKept == Spec => []RepositoryAsFound
<1>1. Init => InTurn
  <2> SUFFICES ASSUME Init PROVE InTurn
    OBVIOUS
  <2>1. \A c \in Cases : step[c] = "pending"
    BY MutationRunAssumption DEF Init
  <2> QED
    BY <2>1 DEF Init, InTurn
<1>2. IInv /\ InTurn /\ [Next]_vars => InTurn'
  <2> SUFFICES ASSUME IInv, InTurn, [Next]_vars PROVE InTurn'
    OBVIOUS
  <2>1. CASE UNCHANGED vars
    BY <2>1 DEF vars, run, mainly, InTurn
  <2>2. ASSUME NEW c \in Cases, OfACase(c) PROVE InTurn'
    BY <2>2, OwnInTurn
  <2>3. CASE OfMain
    <3>1. UNCHANGED <<jobs, cases, step, verdict>>
      BY <2>3, MainsStep
    <3>2. main' \in {"waiting", "removing", "ended"} => code' # "none"
      BY <2>3
         DEF OfMain, MainStep, CannotRun, Prepares, TakesResult, AllTaken, PoolCloses,
             RemovesCopies, InterruptsMain, InterruptsWait, InTurn
    <3> QED
      BY <3>1, <3>2 DEF InTurn
  <2> QED
    BY <2>1, <2>2, <2>3 DEF Next, CaseStep, OfACase, OfMain
<1>3. IInv /\ InTurn => RepositoryAsFound
  <2> SUFFICES ASSUME IInv, InTurn, main = "ended", NEW c \in broken[Repo]
               PROVE  /\ lost /\ code = "error"
                      /\ broken[Repo] = {c} /\ verdict[c] = "error" /\ c \in Cases
    BY DEF IInv, TypeOK, Damage, RepositoryAsFound
  <2>1. /\ jobs = 1 /\ broken[Repo] \subseteq Cases /\ Cases \subseteq Nat
        /\ code \in Verdicts \cup {"none", "error"}
    BY MutationRunAssumption DEF IInv, TypeOK, Damage
  <2>2. \A d \in Cases : step[d] \notin Active
    BY <2>1 DEF IInv, Mainly, CopiesOutliveCases
  <2>3. \A d \in broken[Repo] : verdict[d] = "error" /\ lost
    BY <2>1, <2>2 DEF IInv, Damage, Active, Holding
  <2>4. \A d \in Cases : verdict[d] = "error" => step[d] \notin {"pending", "cancelled"}
    BY DEF IInv, Told, InTurn
  <2>5. ASSUME NEW d \in broken[Repo], d # c PROVE FALSE
    <3>1. c < d \/ d < c
      BY <2>1, <2>5
    <3> QED
      BY <2>1, <2>3, <2>4, <3>1 DEF InTurn
  <2>6. code \notin Verdicts
    BY <2>1, <2>3 DEF IInv, Mainly
  <2> QED
    BY <2>1, <2>3, <2>5, <2>6 DEF InTurn
<1> QED
  BY <1>1, <1>2, <1>3, SpecIInv, PTL DEF Spec

-----------------------------------------------------------------------------
(* Why no worker waits for a tree: none is lost, and there are as many as  *)
(* workers.                                                                *)

\* The trees of this run.
Prepared == IF jobs = 1 THEN {Repo} ELSE 1..jobs

ActiveCases == {c \in Cases : step[c] \in Active}

AtWork == main \in {"collecting", "waiting"} \/ hurried

\* Once main prepared them, every tree is in the queue or with a case.
Conserved ==
  AtWork => \A t \in Prepared : t \in free \/ \E c \in Cases : step[c] \in Holding /\ at[c] = t

\* There are never more cases under way than workers.
Staffed == Cardinality(ActiveCases) <= jobs

\* The cases of a plan are finitely many, and so are those under way.
LEMMA FewCases ==
  ASSUME TypeOK
  PROVE  IsFiniteSet(ActiveCases) /\ Cardinality(ActiveCases) \in Nat
<1>1. cases \in Int /\ ActiveCases \subseteq 1..cases
  BY MutationRunAssumption DEF TypeOK, ActiveCases
<1>2. IsFiniteSet(1..cases)
  BY <1>1, FS_Interval
<1> QED
  BY <1>1, <1>2, FS_Subset, FS_CardinalityType

\* A case begins only when a worker is idle; no other step makes one active.
LEMMA OwnStaffed == ASSUME IInv, Staffed, NEW c \in Cases, OfACase(c) PROVE Staffed'
<1>0. /\ TypeOK /\ c \in AllCases /\ jobs' = jobs /\ cases' = cases /\ jobs \in Nat
      /\ \A d \in Cases \ {c} : step'[d] = step[d]
  BY OwnStep, CasesOfPlan, MutationRunAssumption DEF IInv, TypeOK
<1>1. IsFiniteSet(ActiveCases) /\ Cardinality(ActiveCases) \in Nat
  BY <1>0, FewCases
<1>2. CASE Starts(c)
  <2>1. Cardinality(ActiveCases) < jobs
    BY <1>2 DEF Starts, ActiveCases
  <2>2. ActiveCases' \subseteq ActiveCases \cup {c}
    BY <1>0 DEF ActiveCases
  <2>3. /\ IsFiniteSet(ActiveCases \cup {c})
        /\ Cardinality(ActiveCases \cup {c}) <= Cardinality(ActiveCases) + 1
    BY <1>1, FS_AddElement
  <2>4. Cardinality(ActiveCases \cup {c}) \in Nat
    BY <2>3, FS_CardinalityType
  <2>5. /\ Cardinality(ActiveCases') <= Cardinality(ActiveCases \cup {c})
        /\ Cardinality(ActiveCases') \in Nat
    BY <2>2, <2>3, FS_Subset, FS_CardinalityType
  <2> QED
    BY <1>0, <1>1, <2>1, <2>3, <2>4, <2>5 DEF Staffed
<1>3. CASE ~Starts(c)
  <2>1. step'[c] \in Active => step[c] \in Active
    BY <1>0, <1>3
       DEF OfACase, TypeOK, TakesTree, Applies, NotApplicable, ApplyFails, TestsBegin, TestsEnd,
           Reverts, RevertFails, ReturnsTree, Cancels, InterruptsCase, Raises, Active, Holding,
           Broken
  <2>2. ActiveCases' \subseteq ActiveCases
    BY <1>0, <2>1 DEF ActiveCases
  <2>3. Cardinality(ActiveCases') <= Cardinality(ActiveCases) /\ Cardinality(ActiveCases') \in Nat
    BY <1>1, <2>2, FS_Subset, FS_CardinalityType
  <2> QED
    BY <1>0, <1>1, <2>3 DEF Staffed
<1> QED
  BY <1>2, <1>3

\* A tree leaves the queue with the case that takes it, and comes back whatever it raised.
LEMMA OwnConserved == ASSUME IInv, Conserved, NEW c \in Cases, OfACase(c) PROVE Conserved'
<1>0. /\ TypeOK /\ c \in AllCases /\ UNCHANGED <<jobs, cases, main, hurried>>
      /\ \A d \in Cases \ {c} : step'[d] = step[d] /\ at'[d] = at[d]
  BY OwnStep, CasesOfPlan DEF IInv
<1> SUFFICES ASSUME AtWork, NEW t \in Prepared
             PROVE  t \in free' \/ \E d \in Cases : step'[d] \in Holding /\ at'[d] = t
  BY <1>0 DEF Conserved, AtWork, Prepared
<1>1. t \in free \/ \E d \in Cases : step[d] \in Holding /\ at[d] = t
  BY DEF Conserved
<1>2. CASE TakesTree(c)
  <2>1. PICK u \in free : at' = [at EXCEPT ![c] = u] /\ free' = free \ {u}
    BY <1>2 DEF TakesTree, WithoutTree
  <2>2. step[c] = "waiting" /\ step'[c] = "applying" /\ at'[c] = u
    BY <1>0, <1>2, <2>1 DEF TakesTree, TypeOK
  <2> QED
    BY <1>0, <1>1, <2>1, <2>2 DEF Holding, Broken
<1>3. CASE ReturnsTree(c)
  <2>1. free' = free \cup {at[c]} /\ at' = at
    BY <1>3 DEF ReturnsTree, PutBack
  <2> QED
    BY <1>0, <1>1, <2>1
<1>4. CASE ~TakesTree(c) /\ ~ReturnsTree(c)
  <2>1. free' = free /\ at' = at
    BY <1>4 DEF OfACase, Starts, Applies, NotApplicable, ApplyFails, TestsBegin, TestsEnd,
                Reverts, RevertFails, Cancels, InterruptsCase
  <2>2. step[c] \in Holding => step'[c] \in Holding
    BY <1>0, <1>4
       DEF OfACase, TypeOK, Starts, Applies, NotApplicable, ApplyFails, TestsBegin, TestsEnd,
           Reverts, RevertFails, Cancels, InterruptsCase, Raises, Holding, Broken
  <2> QED
    BY <1>0, <1>1, <2>1, <2>2
<1> QED
  BY <1>2, <1>3, <1>4

\* Main fills the queue with every tree, and takes none out of it.
LEMMA MainsConserved == ASSUME IInv, Conserved, OfMain PROVE Conserved'
<1>0. TypeOK /\ Mainly /\ UNCHANGED <<jobs, cases, step, at>>
  BY MainsStep DEF IInv
<1>1. CASE Prepares
  BY <1>0, <1>1 DEF Prepares, Conserved, Prepared
<1>2. CASE ~Prepares
  <2>1. AtWork' => AtWork /\ free' = free
    BY <1>0, <1>2
       DEF OfMain, MainStep, AtWork, CannotRun, TakesResult, AllTaken, PoolCloses, RemovesCopies,
           InterruptsMain, InterruptsWait, Mainly
  <2> QED
    BY <1>0, <2>1 DEF Conserved, Prepared
<1> QED
  BY <1>1, <1>2

\* No tree is lost, and none is needed that is not there, whatever raises.
THEOREM TreesConserved == Spec => [](Conserved /\ Staffed)
<1>1. Init => Conserved /\ Staffed
  <2> SUFFICES ASSUME Init PROVE Conserved /\ Staffed
    OBVIOUS
  <2>1. ActiveCases = {} /\ jobs \in Nat /\ ~AtWork
    BY MutationRunAssumption DEF Init, ActiveCases, Active, Holding, Broken, AtWork
  <2>2. Cardinality(ActiveCases) = 0
    BY <2>1, FS_EmptySet
  <2> QED
    BY <2>1, <2>2 DEF Conserved, Staffed
<1>2. IInv /\ Conserved /\ Staffed /\ [Next]_vars => (Conserved /\ Staffed)'
  <2> SUFFICES ASSUME IInv, Conserved, Staffed, [Next]_vars PROVE (Conserved /\ Staffed)'
    OBVIOUS
  <2>1. CASE UNCHANGED vars
    BY <2>1 DEF vars, run, mainly, Conserved, Staffed, AtWork, Prepared, ActiveCases
  <2>2. ASSUME NEW c \in Cases, OfACase(c) PROVE (Conserved /\ Staffed)'
    BY <2>2, OwnConserved, OwnStaffed
  <2>3. CASE OfMain
    BY <2>3, MainsConserved, MainsStep DEF Staffed, ActiveCases
  <2> QED
    BY <2>1, <2>2, <2>3 DEF Next, CaseStep, OfACase, OfMain
<1> QED
  BY <1>1, <1>2, SpecIInv, PTL DEF Spec

\* Of the trees and the cases under way there are as many, so while one of the
\* cases waits a tree is free.
LEMMA WaitingFindsTree == ASSUME IInv, Conserved, Staffed PROVE TreeForEveryWorker
<1> SUFFICES ASSUME NEW c \in Cases, step[c] = "waiting", free = {} PROVE FALSE
  BY DEF TreeForEveryWorker
<1>0. TypeOK /\ Mainly /\ jobs \in Nat /\ jobs > 0 /\ Cases \subseteq AllCases
  BY CasesOfPlan, MutationRunAssumption DEF IInv, TypeOK
<1>1. AtWork
  BY <1>0 DEF Mainly, CopiesOutliveCases, TypeOK, AtWork, Active
<1> DEFINE S == {d \in Cases : step[d] \in Holding /\ at[d] \in Prepared}
           f == [d \in S |-> at[d]]
<1>2. f \in Surjection(S, Prepared)
  <2>1. \A t \in Prepared : \E d \in S : f[d] = t
    BY <1>1 DEF Conserved
  <2> QED
    BY <2>1 DEF Surjection
<1>3. IsFiniteSet(ActiveCases) /\ Cardinality(ActiveCases) \in Nat
  BY <1>0, FewCases
<1>4. /\ IsFiniteSet(ActiveCases \ {c})
      /\ Cardinality(ActiveCases \ {c}) = Cardinality(ActiveCases) - 1
  <2>1. c \in ActiveCases
    BY DEF ActiveCases, Active
  <2> QED
    BY <1>3, <2>1, FS_RemoveElement
<1>5. S \subseteq ActiveCases \ {c}
  BY DEF ActiveCases, Active, Holding, Broken
<1>6. /\ IsFiniteSet(S) /\ Cardinality(S) \in Nat
      /\ Cardinality(S) <= Cardinality(ActiveCases) - 1
  BY <1>4, <1>5, FS_Subset, FS_CardinalityType
<1>7. Cardinality(Prepared) = jobs
  <2>1. CASE jobs = 1
    BY <2>1, FS_Singleton DEF Prepared
  <2>2. CASE jobs # 1
    BY <1>0, <2>2, FS_Interval DEF Prepared
  <2> QED
    BY <2>1, <2>2
<1>8. Cardinality(Prepared) <= Cardinality(S)
  BY <1>2, <1>6, FS_Surjection
<1> QED
  BY <1>0, <1>3, <1>6, <1>7, <1>8 DEF Staffed

\* A worker never waits for a tree: with any number of workers, cases and faults the
\* queue holds one when it asks, so no run hangs in get().
THEOREM WorkersFindTrees == Spec => []TreeForEveryWorker
BY WaitingFindsTree, SpecIInv, TreesConserved, PTL
=============================================================================
