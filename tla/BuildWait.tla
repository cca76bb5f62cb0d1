----------------------------- MODULE BuildWait -----------------------------
(***************************************************************************)
(* waitForBuilds of the build service                                      *)
(* (internal/core/service/build/service.go): it lists the builds of every  *)
(* recipe until all are terminal, retries failed ones within a budget per  *)
(* build, and gives up at a deadline or when its context is cancelled.     *)
(* Launchpad moves the builds between any two of its calls.  X_Bug is a    *)
(* faulty variant of X.                                                    *)
(***************************************************************************)
EXTENDS LaunchpadBuilds, Integers

CONSTANTS
  Recipes,       \* number of recipes; they are listed in the order 1..Recipes
  RecipeOf,      \* the recipe of each build
  RetryCount,    \* attempts per build
  MaxListErrors, \* bound: calls of ListBuilds that fail before a cancel
  MaxRetryErrors \* bound: calls of RetryBuild that fail before a cancel

ASSUME WaitAssumption ==
  /\ Recipes \in Nat \ {0}
  /\ RecipeOf \in [Build -> 1..Recipes]
  /\ RetryCount \in Nat
  /\ MaxListErrors \in Nat
  /\ MaxRetryErrors \in Nat

\* A build without an entry in the map of remaining retries.
Unseen == -1

VARIABLES
  stage,      \* where waitForBuilds is
  purpose,    \* what the poll under way is for
  turn,       \* the recipe that poll lists next
  snap,       \* allBuilds: the records it has read, Absent for the others
  terminal,   \* allTerminal
  remaining,  \* remaining retries of each build seen
  todo,       \* builds of the snapshot the retry loop still has to retry
  posting,    \* the build whose retry it is posting, if any
  retried,    \* the retry loop issued a retry
  verdict,    \* how waitForBuilds returned
  cancelled,  \* the context is done
  late,       \* the deadline has passed
  accepted,   \* history: retries Launchpad accepted, per build
  stale,      \* history: builds retried since the snapshot's records were read
  listErrors, \* history: failed calls of ListBuilds
  retryErrors \* history: failed calls of RetryBuild

pollVars == <<purpose, turn, snap, terminal>>
retryVars == <<todo, posting, retried>>
histVars == <<accepted, stale, listErrors, retryErrors>>
waitVars == <<stage, purpose, turn, snap, terminal, remaining, todo, posting,
              retried, verdict, cancelled, late, accepted, stale, listErrors, retryErrors>>
vars == <<build, waitVars>>

InitBudget_Bug == RetryCount

\* Budget seeded at the first sight of a build: that sight was attempt 1.
InitBudget == IF RetryCount > 0 THEN RetryCount - 1 ELSE 0

BuildsOf(r) == {b \in Build : RecipeOf[b] = r /\ build[b] # Absent}

WaitInit ==
  /\ stage = "top" /\ purpose = "decide" /\ turn = 1
  /\ snap = [b \in Build |-> Absent]
  /\ terminal = TRUE
  /\ remaining = [b \in Build |-> Unseen]
  /\ todo = {} /\ posting = {} /\ retried = FALSE
  /\ verdict = "none"
  /\ cancelled = FALSE /\ late = FALSE
  /\ accepted = [b \in Build |-> 0] /\ stale = {}
  /\ listErrors = 0 /\ retryErrors = 0

\* Builds that exist when the wait begins, in any state but unfinished retries.
Init ==
  /\ WaitInit
  /\ build \in [Build -> [state : States, canRetry : BOOLEAN, queued : {FALSE}]]
  /\ \A b \in Build : build[b].canRetry => build[b].state \in Terminal

-----------------------------------------------------------------------------
\* The context and the clock.

Cancel ==
  /\ ~cancelled /\ verdict = "none"
  /\ cancelled' = TRUE
  /\ UNCHANGED <<build, stage, pollVars, remaining, retryVars, verdict, late, histVars>>

DeadlinePasses ==
  /\ ~late /\ verdict = "none"
  /\ late' = TRUE
  /\ UNCHANGED <<build, stage, pollVars, remaining, retryVars, verdict, cancelled, histVars>>

-----------------------------------------------------------------------------
\* A poll: one ListBuilds per recipe, none of them atomic with another.

StartPoll(p) ==
  /\ stage' = "poll" /\ purpose' = p /\ turn' = 1
  /\ snap' = [b \in Build |-> Absent]
  /\ terminal' = TRUE
  /\ stale' = {}

Give(v) == stage' = "returned" /\ verdict' = v

Top ==
  /\ stage = "top"
  /\ StartPoll(IF cancelled THEN "last" ELSE "decide")
  /\ UNCHANGED <<build, remaining, retryVars, verdict, cancelled, late,
                 accepted, listErrors, retryErrors>>

Seed_Bug(seen) ==
  [b \in Build |-> IF b \in seen THEN InitBudget ELSE remaining[b]]

Seed(seen) ==
  [b \in Build |-> IF b \in seen /\ remaining[b] = Unseen THEN InitBudget
                                                          ELSE remaining[b]]

ListOK_Bug ==
  /\ stage = "poll" /\ turn <= Recipes
  /\ snap' = [b \in Build |-> IF b \in BuildsOf(turn) THEN build[b] ELSE snap[b]]
  /\ terminal' = (\A b \in BuildsOf(turn) : build[b].state \in Terminal)
  /\ remaining' = Seed(BuildsOf(turn))
  /\ turn' = turn + 1
  /\ UNCHANGED <<build, stage, purpose, retryVars, verdict, cancelled, late, histVars>>

ListOK ==
  /\ stage = "poll" /\ turn <= Recipes
  /\ snap' = [b \in Build |-> IF b \in BuildsOf(turn) THEN build[b] ELSE snap[b]]
  /\ terminal' = (terminal /\ \A b \in BuildsOf(turn) : build[b].state \in Terminal)
  /\ remaining' = Seed(BuildsOf(turn))
  /\ turn' = turn + 1
  /\ UNCHANGED <<build, stage, purpose, retryVars, verdict, cancelled, late, histVars>>

\* The error is logged and the recipe left out.  A call under a context that is
\* done may fail any number of times.
ListError ==
  /\ stage = "poll" /\ turn <= Recipes
  /\ \/ cancelled /\ UNCHANGED listErrors
     \/ listErrors < MaxListErrors /\ listErrors' = listErrors + 1
  /\ turn' = turn + 1
  /\ UNCHANGED <<build, stage, purpose, snap, terminal, remaining, retryVars,
                 verdict, cancelled, late, accepted, stale, retryErrors>>

Retryable(b) ==
  /\ snap[b].state \in Failure /\ snap[b].canRetry
  /\ remaining[b] > 0

EndPoll ==
  /\ stage = "poll" /\ turn > Recipes
  /\ \/ /\ purpose = "last"
        /\ Give("cancelled")
        /\ UNCHANGED retryVars
     \/ /\ purpose = "refresh" \/ (purpose = "decide" /\ ~terminal)
        /\ stage' = "clock"
        /\ UNCHANGED <<verdict, retryVars>>
     \/ /\ purpose = "decide" /\ terminal
        /\ stage' = "retry"
        /\ todo' = {b \in Build : snap[b] # Absent /\ Retryable(b)}
        /\ retried' = FALSE
        /\ UNCHANGED <<posting, verdict>>
  /\ UNCHANGED <<build, pollVars, remaining, cancelled, late, histVars>>

-----------------------------------------------------------------------------
\* The retry loop, over the snapshot's builds.

RetryStopped ==
  /\ stage = "retry" /\ todo # {} /\ cancelled
  /\ Give("cancelled")
  /\ UNCHANGED <<build, pollVars, remaining, retryVars, cancelled, late, histVars>>

\* The context is looked at before the retry is posted, so a cancel may come while
\* it is.
RetryStarts(b) ==
  /\ stage = "retry" /\ b \in todo /\ ~cancelled
  /\ stage' = "post" /\ posting' = {b}
  /\ todo' = todo \ {b}
  /\ UNCHANGED <<build, pollVars, remaining, retried, verdict, cancelled, late, histVars>>

Accepted(b) ==
  /\ AcceptRetry(b)
  /\ accepted' = [accepted EXCEPT ![b] = @ + 1]
  /\ stale' = stale \cup {b}

RetryAccepted(b) ==
  /\ stage = "post" /\ b \in posting
  /\ Accepted(b)
  /\ remaining' = [remaining EXCEPT ![b] = @ - 1]
  /\ retried' = TRUE
  /\ stage' = "retry" /\ posting' = {}
  /\ UNCHANGED <<pollVars, todo, verdict, cancelled, late, listErrors, retryErrors>>

\* Launchpad refuses, because the build has moved since; or the request or its
\* answer is lost, with the context that ends or without, and then the retry may
\* have been accepted.
RetryFails(b) ==
  /\ stage = "post" /\ b \in posting
  /\ \/ ~CanAccept(b) /\ UNCHANGED <<build, accepted, stale, retryErrors>>
     \/ /\ \/ cancelled /\ UNCHANGED retryErrors
           \/ retryErrors < MaxRetryErrors /\ retryErrors' = retryErrors + 1
        /\ Accepted(b) \/ UNCHANGED <<build, accepted, stale>>
  /\ remaining' = [remaining EXCEPT ![b] = 0]
  /\ stage' = "retry" /\ posting' = {}
  /\ UNCHANGED <<pollVars, todo, retried, verdict, cancelled, late, listErrors>>

RetryDone_Bug ==
  /\ stage = "retry" /\ todo = {}
  /\ Give("ok")
  /\ UNCHANGED <<build, pollVars, remaining, retryVars, cancelled, late, histVars>>

RetryDone ==
  /\ stage = "retry" /\ todo = {}
  /\ IF retried THEN stage' = "settle" /\ UNCHANGED verdict
                ELSE Give("ok")
  /\ UNCHANGED <<build, pollVars, remaining, retryVars, cancelled, late, histVars>>

\* The settle delay is assumed to be long enough for Launchpad to show the
\* retries it accepted; a cancel does not wait for it.
Settled_Bug ==
  /\ stage = "settle"
  /\ stage' = "clock"
  /\ UNCHANGED <<build, pollVars, remaining, retryVars, verdict, cancelled, late, histVars>>

Settled ==
  /\ stage = "settle"
  /\ \/ cancelled /\ StartPoll("last")
     \/ (\A b \in Build : ~build[b].queued) /\ StartPoll("refresh")
  /\ UNCHANGED <<build, remaining, retryVars, verdict, cancelled, late,
                 accepted, listErrors, retryErrors>>

\* The deadline is looked at after a poll and after a round of retries.
ClockRead_Bug ==
  /\ stage = "clock"
  /\ IF late /\ ~retried THEN Give("timeout")
                         ELSE stage' = "sleep" /\ UNCHANGED verdict
  /\ UNCHANGED <<build, pollVars, remaining, retryVars, cancelled, late, histVars>>

ClockRead ==
  /\ stage = "clock"
  /\ IF late THEN Give("timeout") ELSE stage' = "sleep" /\ UNCHANGED verdict
  /\ UNCHANGED <<build, pollVars, remaining, retryVars, cancelled, late, histVars>>

Sleep ==
  /\ stage = "sleep"
  /\ \/ cancelled /\ Give("cancelled")
     \/ stage' = "top" /\ UNCHANGED verdict
  /\ UNCHANGED <<build, pollVars, remaining, retryVars, cancelled, late, histVars>>

WaitStep ==
  \/ Top \/ ListOK \/ ListError \/ EndPoll
  \/ RetryStopped \/ RetryDone \/ Settled \/ ClockRead \/ Sleep
  \/ \E b \in Build : RetryStarts(b) \/ RetryAccepted(b) \/ RetryFails(b)

Launchpad == LaunchpadStep /\ UNCHANGED waitVars

Next == WaitStep \/ Cancel \/ DeadlinePasses \/ Launchpad

Spec == Init /\ [][Next]_vars

\* The goroutine runs, calls and timers end, the deadline comes, and Launchpad
\* shows the retries it accepted; builds need not end, nobody need cancel.
Fairness ==
  /\ WF_vars(WaitStep)
  /\ WF_vars(DeadlinePasses)
  /\ \A b \in Build : WF_vars(Requeue(b) /\ UNCHANGED waitVars)

FairSpec == Spec /\ Fairness

-----------------------------------------------------------------------------
TypeOK ==
  /\ BuildTypeOK
  /\ stage \in {"top", "poll", "retry", "post", "settle", "clock", "sleep", "returned"}
  /\ purpose \in {"decide", "refresh", "last"}
  /\ turn \in 1..Recipes + 1
  /\ snap \in [Build -> Record]
  /\ terminal \in BOOLEAN /\ retried \in BOOLEAN
  /\ remaining \in [Build -> {Unseen} \cup {i \in 0..RetryCount : i > 0 => i < RetryCount}]
  /\ todo \in SUBSET Build /\ posting \in SUBSET Build /\ stale \in SUBSET Build
  /\ verdict \in {"none", "ok", "timeout", "cancelled"}
  /\ cancelled \in BOOLEAN /\ late \in BOOLEAN
  /\ accepted \in [Build -> Nat]
  /\ listErrors \in 0..MaxListErrors /\ retryErrors \in 0..MaxRetryErrors

\* A build gets at most RetryCount attempts in one wait, the first one included,
\* however often it fails, moves under the loop, or drops out of a failed list.
RetryBudget == \A b \in Build : accepted[b] > 0 => accepted[b] < RetryCount

\* A wait that returns without an error found the builds it listed terminal, and
\* they still are: none runs again, though each was read at another moment.  A
\* build whose retry Launchpad accepted and answered with an error since the last
\* poll is excepted: the loop gives up on it (service.go:673-678) and returns.
ListedFinished ==
  verdict = "ok" =>
    \A b \in Build :
      snap[b] # Absent /\ b \notin stale =>
        build[b].state \in Terminal /\ ~build[b].queued

\* "waitForBuilds polls Launchpad for the given recipes' builds until all
\* terminal" (service.go:604): without an error, no build of them still runs.
\* The code does not keep this: a list that fails counts as one without builds,
\* and a retry whose answer is lost as one that was refused.
OkMeansFinished == verdict = "ok" => \A b \in Build : build[b].state \in Terminal

\* The snapshot a deadline returns shows the state after the retries, not the
\* failure before them (service.go:687): every retry is followed by a refresh.
FreshAtDeadline == verdict = "timeout" => stale = {}

\* "context cancellation immediately after retry POST must return a snapshot
\* that reflects the post-retry state, not the stale failure state"
\* (service_test.go:1546).  The code does not keep this: it looks at the context
\* between two retries.
FreshAtCancel ==
  verdict = "cancelled" => \A b \in stale : snap[b].state \notin Failure

\* The wait ends, by its deadline if nothing else ends it.
WaitReturns == <>(verdict # "none")
=============================================================================
