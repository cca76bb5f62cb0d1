--------------------------- MODULE BuildWaitProofs ---------------------------
(***************************************************************************)
(* Proofs about BuildWait for every set of builds, every number of recipes *)
(* and every retry count: the budget of a build is never exceeded, a wait  *)
(* that returns without an error leaves finished builds, and what one      *)
(* returns at its deadline is not older than its last retry.               *)
(***************************************************************************)
EXTENDS BuildWait, TLAPS

USE DEF pollVars, retryVars, histVars

-----------------------------------------------------------------------------
(***************************************************************************)
(* The retry budget.  RetryBudget says nothing of the map of remaining     *)
(* retries; what is inductive is that spent and remaining retries do not   *)
(* exceed the budget, and that builds to be retried have some left.        *)
(***************************************************************************)

BudgetInv ==
  /\ remaining \in [Build -> Int]
  /\ accepted \in [Build -> Nat]
  /\ \A b \in Build :
       /\ remaining[b] >= Unseen
       /\ remaining[b] = Unseen => accepted[b] = 0
       /\ remaining[b] # Unseen => accepted[b] + remaining[b] <= InitBudget
  /\ todo \subseteq Build /\ posting \subseteq Build
  /\ \A b \in todo \cup posting : remaining[b] > 0
  /\ todo \cap posting = {} /\ (posting # {} => stage = "post")

LEMMA InitBudgetType ==
  InitBudget \in Nat /\ (InitBudget > 0 => InitBudget < RetryCount)
BY WaitAssumption DEF WaitAssumption, InitBudget

LEMMA BudgetInit == Init => BudgetInv
BY DEF Init, WaitInit, BudgetInv, Unseen

LEMMA BudgetNext ==
  ASSUME BudgetInv, [Next]_vars
  PROVE  BudgetInv'
<1> USE DEF BudgetInv, Unseen
<1>1. CASE ListOK
  BY <1>1, InitBudgetType DEF ListOK, Seed
<1>2. CASE EndPoll
  BY <1>2 DEF EndPoll, Retryable
<1>3. ASSUME NEW b \in Build, RetryAccepted(b) PROVE BudgetInv'
  BY <1>3, InitBudgetType DEF RetryAccepted, Accepted
<1>4. ASSUME NEW b \in Build, RetryFails(b) PROVE BudgetInv'
  <2>1. accepted' = accepted \/ accepted' = [accepted EXCEPT ![b] = @ + 1]
    BY <1>4 DEF RetryFails, Accepted
  <2>2. /\ b \in posting /\ posting' = {} /\ todo' = todo
        /\ todo \cap posting = {}
        /\ remaining' = [remaining EXCEPT ![b] = 0]
    BY <1>4 DEF RetryFails
  <2>3. remaining[b] \in Int /\ remaining[b] > 0 /\ accepted[b] \in Nat
    BY <2>2
  <2>4. accepted[b] + 1 <= InitBudget
    BY <2>3, InitBudgetType
  <2>5. QED
    BY <2>1, <2>2, <2>4, InitBudgetType
<1>5. ASSUME NEW b \in Build, RetryStarts(b) PROVE BudgetInv'
  BY <1>5 DEF RetryStarts
<1>6. CASE /\ UNCHANGED <<remaining, accepted, todo, posting>>
           /\ stage # "post" \/ UNCHANGED stage
  BY <1>6
<1>7. QED
  BY <1>1, <1>2, <1>3, <1>4, <1>5, <1>6
     DEF Next, WaitStep, Top, ListError, RetryStopped, RetryDone, Settled,
         ClockRead, Sleep, Cancel, DeadlinePasses, Launchpad, waitVars, vars

\* No build gets more than RetryCount attempts in one wait, however its state
\* moves under the loop and whatever calls fail.
THEOREM BudgetKept == Spec => []RetryBudget
<1>1. BudgetInv => RetryBudget
  BY InitBudgetType, WaitAssumption
     DEF BudgetInv, RetryBudget, Unseen, WaitAssumption
<1>2. QED
  BY <1>1, BudgetInit, BudgetNext, PTL DEF Spec

-----------------------------------------------------------------------------
(***************************************************************************)
(* The snapshot at the deadline.  A retry that the snapshot does not show  *)
(* is refreshed before the clock is looked at, or the wait was cancelled.  *)
(***************************************************************************)

FreshInv ==
  /\ stale \subseteq Build
  /\ stale # {} => stage \in {"retry", "post", "settle", "returned"}
  /\ verdict = "timeout" => stage = "returned" /\ stale = {}

LEMMA FreshInit == Init => FreshInv
BY DEF Init, WaitInit, FreshInv

LEMMA FreshNext ==
  ASSUME FreshInv, [Next]_vars
  PROVE  FreshInv'
<1> USE DEF FreshInv
<1>1. CASE UNCHANGED <<stage, stale, verdict>>
  BY <1>1
<1>2. CASE Top \/ Settled
  BY <1>2 DEF Top, Settled, StartPoll
<1>3. CASE EndPoll
  BY <1>3 DEF EndPoll, Give
<1>4. CASE RetryStopped \/ RetryDone
  BY <1>4 DEF RetryStopped, RetryDone, Give
<1>5. ASSUME NEW b \in Build, RetryStarts(b) \/ RetryAccepted(b) \/ RetryFails(b)
      PROVE  FreshInv'
  <2>1. stale' \in {stale, stale \cup {b}}
    BY <1>5 DEF RetryStarts, RetryAccepted, RetryFails, Accepted
  <2>2. stage' \in {"retry", "post"} /\ verdict' = verdict /\ stage # "returned"
    BY <1>5 DEF RetryStarts, RetryAccepted, RetryFails
  <2>3. QED
    BY <2>1, <2>2
<1>6. CASE ClockRead \/ Sleep
  BY <1>6 DEF ClockRead, Sleep, Give
<1>7. QED
  BY <1>1, <1>2, <1>3, <1>4, <1>5, <1>6
     DEF Next, WaitStep, ListOK, ListError, Cancel, DeadlinePasses, Launchpad,
         waitVars, vars

\* What a wait returns at its deadline shows every retry it issued, whenever the
\* deadline passes and however many retries were accepted.
THEOREM DeadlineIsFresh == Spec => []FreshAtDeadline
<1>1. FreshInv => FreshAtDeadline
  BY DEF FreshInv, FreshAtDeadline
<1>2. QED
  BY <1>1, FreshInit, FreshNext, PTL DEF Spec

-----------------------------------------------------------------------------
(***************************************************************************)
(* Finished builds.  A build found terminal stays so, unless the loop      *)
(* itself has it retried; so it matters where a retry can be pending.      *)
(***************************************************************************)

QueuedInv ==
  \A b \in Build : build[b].queued =>
    \/ stage \in {"retry", "post"} /\ b \in stale
    \/ stage \in {"settle", "returned"}
    \/ stage = "poll" /\ purpose = "last"

\* The polls that only refresh the snapshot, and the last one, decide nothing.
FinishedInv ==
  /\ stage \in {"retry", "post"} => purpose = "decide" /\ terminal
  /\ verdict = "ok" => stage = "returned" /\ purpose = "decide"
  /\ \/ stage = "poll" /\ terminal /\ purpose = "decide"
     \/ stage \in {"retry", "post"}
     \/ verdict = "ok"
     => \A b \in Build :
          snap[b] # Absent /\ b \notin stale =>
            build[b].state \in Terminal /\ ~build[b].queued

IInv == BuildTypeOK /\ QueuedInv /\ FinishedInv /\ FreshInv

USE DEF BuildTypeOK, Record, At, Absent

LEMMA TerminalNeverMoves == \A s \in Terminal : Moves[s] = {}
BY DEF Terminal, Moves, States

LEMMA InitIInv == Init => IInv
BY FreshInit DEF Init, WaitInit, IInv, QueuedInv, FinishedInv, States

\* Launchpad moves unfinished builds, and finished ones that were retried.
LEMMA LaunchpadIInv ==
  ASSUME IInv, Launchpad
  PROVE  IInv'
<1> USE DEF IInv, waitVars
<1>1. UNCHANGED waitVars
  BY DEF Launchpad
<1>0. FreshInv'
  BY <1>1 DEF FreshInv
<1>2. ASSUME NEW b \in Build, Advance(b)
      PROVE  IInv'
  <2>1. PICK s \in Moves[build[b].state], retry \in BOOLEAN :
          build' = [build EXCEPT ![b] = [At(s) EXCEPT !.canRetry = retry]]
    BY <1>2 DEF Advance
  <2>2. s \in States /\ build[b].state \notin Terminal
    BY <2>1, TerminalNeverMoves DEF Moves, States
  <2>3. BuildTypeOK'
    BY <2>1, <2>2
  <2>4. QueuedInv'
    BY <1>1, <2>1 DEF QueuedInv
  <2>5. FinishedInv'
    BY <1>1, <2>1, <2>2 DEF FinishedInv
  <2>6. QED
    BY <1>0, <2>3, <2>4, <2>5
<1>3. ASSUME NEW b \in Build, Requeue(b)
      PROVE  IInv'
  <2>1. build[b].queued /\ build' = [build EXCEPT ![b] = At("Pending")]
    BY <1>3 DEF Requeue
  <2>2. BuildTypeOK'
    BY <2>1 DEF States
  <2>3. QueuedInv'
    BY <1>1, <2>1 DEF QueuedInv
  <2>4. FinishedInv'
    BY <1>1, <2>1 DEF FinishedInv, QueuedInv
  <2>5. QED
    BY <1>0, <2>2, <2>3, <2>4
<1>4. QED
  BY <1>2, <1>3 DEF Launchpad, LaunchpadStep

LEMMA WaitIInv ==
  ASSUME IInv, WaitStep
  PROVE  IInv'
<1> USE DEF IInv, QueuedInv, FinishedInv
<1>0. FreshInv'
  BY FreshNext DEF Next
<1>1. CASE Top
  BY <1>0, <1>1 DEF Top, StartPoll
<1>2. CASE ListOK
  <2>1. stale = {}
    BY <1>2 DEF ListOK, FreshInv
  <2>2. QED
    BY <1>0, <1>2, <2>1 DEF ListOK, BuildsOf
<1>3. CASE ListError
  BY <1>0, <1>3 DEF ListError
<1>4. CASE EndPoll
  BY <1>0, <1>4 DEF EndPoll, Give
<1>5. CASE RetryStopped
  BY <1>0, <1>5 DEF RetryStopped, Give
<1>6. CASE RetryDone
  <2>1. CASE retried
    BY <1>0, <1>6, <2>1 DEF RetryDone
  <2>2. CASE ~retried
    BY <1>0, <1>6, <2>2 DEF RetryDone, Give
  <2>3. QED
    BY <2>1, <2>2
<1>7. CASE Settled
  BY <1>0, <1>7 DEF Settled, StartPoll
<1>8. CASE ClockRead \/ Sleep
  BY <1>0, <1>8 DEF ClockRead, Sleep, Give
<1>9. ASSUME NEW b \in Build, RetryStarts(b) \/ RetryAccepted(b) \/ RetryFails(b)
      PROVE  IInv'
  <2>1. \/ UNCHANGED <<build, stale>>
        \/ build' = [build EXCEPT ![b].queued = TRUE] /\ stale' = stale \cup {b}
    BY <1>9 DEF RetryStarts, RetryAccepted, RetryFails, Accepted, AcceptRetry
  <2>2. /\ stage \in {"retry", "post"} /\ stage' \in {"retry", "post"}
        /\ UNCHANGED <<purpose, terminal, snap, verdict>>
    BY <1>9 DEF RetryStarts, RetryAccepted, RetryFails
  <2>3. BuildTypeOK'
    BY <2>1
  <2>4. \A d \in Build : d = b \/ build'[d] = build[d]
    BY <2>1
  <2>5. QueuedInv'
    BY <2>1, <2>2, <2>4
  <2>6. FinishedInv'
    BY <2>1, <2>2, <2>4
  <2>7. QED
    BY <1>0, <2>3, <2>5, <2>6
<1>10. QED
  BY <1>1, <1>2, <1>3, <1>4, <1>5, <1>6, <1>7, <1>8, <1>9 DEF WaitStep

LEMMA NextIInv == IInv /\ [Next]_vars => IInv'
<1> SUFFICES ASSUME IInv, [Next]_vars PROVE IInv'
  OBVIOUS
<1>1. CASE Cancel \/ DeadlinePasses \/ UNCHANGED vars
  BY <1>1
     DEF Cancel, DeadlinePasses, vars, waitVars, IInv, QueuedInv, FinishedInv, FreshInv
<1>2. QED
  BY <1>1, LaunchpadIInv, WaitIInv DEF Next

\* When the wait returns without an error, the builds it listed are finished and
\* stay so, but for those whose retry was accepted and answered with an error, for every number of recipes and every order of Launchpad's moves.
THEOREM OkStaysFinished == Spec => []ListedFinished
<1>1. IInv => ListedFinished
  BY DEF IInv, FinishedInv, ListedFinished
<1>2. QED
  BY <1>1, InitIInv, NextIInv, PTL DEF Spec
-----------------------------------------------------------------------------
(***************************************************************************)
(* Type correctness.                                                       *)
(***************************************************************************)

PollType ==
  /\ turn \in 1..Recipes + 1
  /\ snap \in [Build -> Record]
  /\ listErrors \in 0..MaxListErrors /\ retryErrors \in 0..MaxRetryErrors

StageType ==
  /\ stage \in {"top", "poll", "retry", "post", "settle", "clock", "sleep", "returned"}
  /\ purpose \in {"decide", "refresh", "last"}
  /\ verdict \in {"none", "ok", "timeout", "cancelled"}

FlagType ==
  /\ terminal \in BOOLEAN /\ retried \in BOOLEAN
  /\ cancelled \in BOOLEAN /\ late \in BOOLEAN

LEMMA TypeInit == Init => PollType /\ StageType /\ FlagType
<1> SUFFICES ASSUME Init PROVE PollType /\ StageType /\ FlagType
  OBVIOUS
<1>1. PollType
  BY WaitAssumption DEF Init, WaitInit, PollType, WaitAssumption
<1>2. StageType
  BY DEF Init, WaitInit, StageType
<1>3. FlagType
  BY Zenon DEF Init, WaitInit, FlagType
<1>4. QED
  BY <1>1, <1>2, <1>3

LEMMA PollTypeNext ==
  ASSUME BuildTypeOK, PollType, [Next]_vars
  PROVE  PollType'
<1> USE WaitAssumption DEF PollType, WaitAssumption
<1>1. CASE UNCHANGED <<turn, snap, listErrors, retryErrors>>
  BY <1>1
<1>2. CASE Top \/ Settled
  <2>1. /\ turn' = 1 /\ snap' = [b \in Build |-> Absent]
        /\ UNCHANGED <<listErrors, retryErrors>>
    BY <1>2, Zenon DEF Top, Settled, StartPoll
  <2>2. QED
    BY <2>1
<1>3. CASE ListOK
  <2>1. snap' \in [Build -> Record]
    <3>1. ASSUME NEW R, build \in [Build -> R], snap \in [Build -> R]
          PROVE  snap' \in [Build -> R]
      BY <1>3, <3>1 DEF ListOK
    <3>2. QED
      BY <3>1
  <2>2. QED
    BY <1>3, <2>1 DEF ListOK
<1>4. CASE ListError
  BY <1>4 DEF ListError
<1>5. ASSUME NEW b \in Build, RetryFails(b) PROVE PollType'
  BY <1>5 DEF RetryFails
<1>6. QED
  BY <1>1, <1>2, <1>3, <1>4, <1>5
     DEF Next, WaitStep, EndPoll, RetryStopped, RetryStarts, RetryAccepted, RetryDone,
         ClockRead, Sleep, Cancel, DeadlinePasses, Launchpad, waitVars, vars

LEMMA StageTypeNext ==
  ASSUME StageType, [Next]_vars
  PROVE  StageType'
BY DEF StageType, Next, WaitStep, Top, ListOK, ListError, EndPoll, RetryStopped,
       RetryStarts, RetryAccepted, RetryFails, RetryDone, Settled, ClockRead, Sleep, StartPoll,
       Give, Cancel, DeadlinePasses, Launchpad, waitVars, vars

LEMMA FlagTypeNext ==
  ASSUME FlagType, [Next]_vars
  PROVE  FlagType'
<1> USE DEF FlagType
<1>1. CASE UNCHANGED <<terminal, retried, cancelled, late>>
  BY <1>1, Zenon
<1>2. CASE Top \/ Settled
  BY <1>2, Zenon DEF Top, Settled, StartPoll
<1>3. CASE ListOK
  <2>1. terminal' = (terminal /\ \A b \in BuildsOf(turn) : build[b].state \in Terminal)
    BY <1>3, Zenon DEF ListOK
  <2>2. terminal' \in BOOLEAN
    BY <2>1, Zenon
  <2>3. QED
    BY <1>3, <2>2, Zenon DEF ListOK
<1>4. CASE EndPoll
  BY <1>4, Zenon DEF EndPoll
<1>5. CASE \E b \in Build : RetryAccepted(b)
  BY <1>5, Zenon DEF RetryAccepted
<1>6. CASE Cancel \/ DeadlinePasses
  BY <1>6, Zenon DEF Cancel, DeadlinePasses
<1>7. QED
  BY <1>1, <1>2, <1>3, <1>4, <1>5, <1>6, Zenon
     DEF Next, WaitStep, ListError, RetryStarts, RetryFails, RetryStopped, RetryDone, ClockRead,
         Sleep, Launchpad, waitVars, vars

\* Every variable has its type.
THEOREM TypeCorrect == Spec => []TypeOK
<1> DEFINE Inv == IInv /\ BudgetInv /\ FreshInv /\ PollType /\ StageType /\ FlagType
<1>1. Init => Inv
  BY InitIInv, BudgetInit, FreshInit, TypeInit
<1>2. Inv /\ [Next]_vars => Inv'
  BY NextIInv, BudgetNext, FreshNext, PollTypeNext, StageTypeNext, FlagTypeNext
     DEF IInv
<1>3. ASSUME Inv PROVE TypeOK
  <2>1. ASSUME NEW b \in Build
        PROVE  remaining[b] \in {Unseen} \cup {i \in 0..RetryCount : i > 0 => i < RetryCount}
    BY <1>3, InitBudgetType, WaitAssumption DEF BudgetInv, Unseen, WaitAssumption
  <2>2. remaining \in
          [Build -> {Unseen} \cup {i \in 0..RetryCount : i > 0 => i < RetryCount}]
    BY <1>3, <2>1 DEF BudgetInv
  <2>3. QED
    BY <1>3, <2>2, Zenon DEF TypeOK, IInv, BudgetInv, FreshInv, PollType, StageType, FlagType
<1>4. QED
  BY <1>1, <1>2, <1>3, PTL DEF Spec
=============================================================================
