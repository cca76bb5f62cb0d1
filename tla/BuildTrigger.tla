---------------------------- MODULE BuildTrigger ----------------------------
(***************************************************************************)
(* What Trigger of the build service                                       *)
(* (internal/core/service/build/service.go) does to one recipe: it looks   *)
(* at the recipe and its builds (assessRecipe), acts on what it saw        *)
(* (executeAction), and waits for the records of the builds it requested   *)
(* (waitForBuildRecords).  Several calls follow each other or overlap, and *)
(* Launchpad moves between any two requests.  X_Bug is a faulty variant    *)
(* of X.                                                                   *)
(***************************************************************************)
EXTENDS LaunchpadBuilds, FiniteSets

CONSTANTS
  Call,        \* callers of Trigger; each makes its calls one after the other
  RetryLater,  \* RetryCount > 1: retries are left to the wait for the builds
  MaxCalls,    \* bound: calls in all
  MaxErrors    \* bound: failing requests to Launchpad, and record waits that
               \* time out, in all

ASSUME TriggerAssumption ==
  /\ RetryLater \in BOOLEAN
  /\ MaxCalls \in Nat /\ MaxErrors \in Nat

VARIABLES
  exists,      \* Launchpad has the recipe
  requests,    \* build requests Launchpad accepted and has not processed
  pc,          \* where each call is
  todo,        \* builds it still has to retry
  outcome,     \* how it ended for the recipe
  errors,      \* history: errors so far
  calls,       \* history: calls begun
  blind,       \* history: calls overlapped, or one did not see the builds of
               \* an accepted request before it went on
  duplicate    \* history: builds were requested while earlier ones were not done

callVars == <<pc, todo, outcome>>
histVars == <<errors, calls, blind, duplicate>>
vars == <<build, exists, requests, callVars, histVars>>

Present(bs) == {b \in Build : bs[b] # Absent}

Init ==
  /\ build = [b \in Build |-> Absent]
  /\ exists \in BOOLEAN
  /\ requests = 0
  /\ pc = [c \in Call |-> "new"]
  /\ todo = [c \in Call |-> {}]
  /\ outcome = [c \in Call |-> "none"]
  /\ errors = 0 /\ calls = 0 /\ blind = FALSE /\ duplicate = FALSE

Goto(c, l) == pc' = [pc EXCEPT ![c] = l] /\ UNCHANGED outcome

End(c, o) ==
  /\ pc' = [pc EXCEPT ![c] = "done"]
  /\ outcome' = [outcome EXCEPT ![c] = o]

\* A request to Launchpad fails.
Error == errors < MaxErrors /\ errors' = errors + 1

Idle(c) == pc[c] \in {"new", "done"}

Begin(c) ==
  /\ Idle(c) /\ calls < MaxCalls
  /\ pc' = [pc EXCEPT ![c] = "get"]
  /\ outcome' = [outcome EXCEPT ![c] = "none"]
  /\ calls' = calls + 1
  /\ blind' = (blind \/ \E d \in Call : ~Idle(d))
  /\ UNCHANGED <<build, exists, requests, todo, errors, duplicate>>

-----------------------------------------------------------------------------
\* assessRecipe.

GetRecipe(c) ==
  /\ pc[c] = "get"
  /\ \/ exists /\ Goto(c, "list") /\ UNCHANGED errors
     \/ ~exists /\ Goto(c, "create") /\ UNCHANGED errors
     \/ Error /\ Goto(c, "create")
  /\ UNCHANGED <<build, exists, requests, todo, calls, blind, duplicate>>

Assess_Bug(bs) ==
  LET Seen(S) == \E b \in Present(bs) : bs[b].state \in S
  IN  IF \A b \in Present(bs) : bs[b].state = "Succeeded" THEN "download"
      ELSE IF Seen(States \ Terminal) THEN "monitor"
      ELSE IF Seen(Failure) THEN "retry"
      ELSE "request"

\* The action for the builds seen; monitoring is preferred to retrying.
Assess(bs) ==
  LET Seen(S) == \E b \in Present(bs) : bs[b].state \in S
  IN  IF Present(bs) = {} THEN "request"
      ELSE IF \A b \in Present(bs) : bs[b].state = "Succeeded" THEN "download"
      ELSE IF Seen(States \ Terminal) THEN "monitor"
      ELSE IF Seen(Failure) THEN "retry"
      ELSE "request"

ListBuilds(c) ==
  /\ pc[c] = "list"
  /\ LET action == Assess(build)
     IN  \/ action = "request" /\ Goto(c, "request") /\ UNCHANGED todo
        \/ /\ action = "retry" /\ ~RetryLater
           /\ Goto(c, "retry")
           /\ todo' = [todo EXCEPT ![c] =
                {b \in Build : build[b].state \in Failure /\ build[b].canRetry}]
        \/ /\ action \in {"monitor", "download"} \/ (action = "retry" /\ RetryLater)
           /\ End(c, "ok") /\ UNCHANGED todo
  /\ UNCHANGED <<build, exists, requests, histVars>>

\* A list that fails counts as a recipe without builds.
ListFails(c) ==
  /\ pc[c] = "list"
  /\ Error
  /\ Goto(c, "request")
  /\ blind' = TRUE
  /\ UNCHANGED <<build, exists, requests, todo, calls, duplicate>>

-----------------------------------------------------------------------------
\* executeAction.

\* Launchpad refuses a second recipe of the same name.  Attempts that fail while
\* the git ref is not known yet change nothing and are left out.
CreateRecipe(c) ==
  /\ pc[c] = "create"
  /\ \/ ~exists /\ exists' = TRUE /\ Goto(c, "request") /\ UNCHANGED errors
     \/ exists /\ End(c, "error") /\ UNCHANGED <<exists, errors>>
     \/ Error /\ End(c, "error") /\ UNCHANGED exists
  /\ UNCHANGED <<build, requests, todo, calls, blind, duplicate>>

Unfinished ==
  requests > 0 \/ \E b \in Present(build) : build[b].state \notin Terminal

RequestBuilds(c) ==
  /\ pc[c] = "request"
  /\ requests' = requests + 1
  /\ duplicate' = (duplicate \/ Unfinished)
  /\ Goto(c, "records")
  /\ UNCHANGED <<build, exists, todo, errors, calls, blind>>

\* SetProcessors or RequestBuilds fails; Launchpad may have taken the request.
RequestFails(c) ==
  /\ pc[c] = "request"
  /\ Error
  /\ End(c, "error")
  /\ \/ UNCHANGED <<requests, blind, duplicate>>
     \/ /\ requests' = requests + 1
        /\ blind' = TRUE
        /\ duplicate' = (duplicate \/ Unfinished)
  /\ UNCHANGED <<build, exists, todo, calls>>

\* An error is passed over, also that of a retry that Launchpad took.
RetryBuild(c) ==
  /\ pc[c] = "retry"
  /\ \E b \in todo[c] :
       /\ todo' = [todo EXCEPT ![c] = @ \ {b}]
       /\ \/ AcceptRetry(b) /\ (Error \/ UNCHANGED errors)
          \/ ~CanAccept(b) /\ UNCHANGED <<build, errors>>
          \/ Error /\ UNCHANGED build
  /\ UNCHANGED <<exists, requests, pc, outcome, calls, blind, duplicate>>

RetriesDone(c) ==
  /\ pc[c] = "retry" /\ todo[c] = {}
  /\ End(c, "ok")
  /\ UNCHANGED <<build, exists, requests, todo, histVars>>

-----------------------------------------------------------------------------
\* waitForBuildRecords.  A list that fails, or shows no build, is asked again.

RecordsAppear_Bug(c) ==
  /\ pc[c] = "records"
  /\ End(c, "ok")
  /\ UNCHANGED <<build, exists, requests, todo, histVars>>

\* Any build will do, one of an earlier request too.
RecordsAppear(c) ==
  /\ pc[c] = "records"
  /\ Present(build) # {}
  /\ End(c, "ok")
  /\ blind' = (blind \/ requests > 0)
  /\ UNCHANGED <<build, exists, requests, todo, errors, calls, duplicate>>

\* Two minutes pass, or the context is done: no builds, and no error.
RecordsGivenUp(c) ==
  /\ pc[c] = "records"
  /\ Error
  /\ End(c, "ok")
  /\ blind' = TRUE
  /\ UNCHANGED <<build, exists, requests, todo, calls, duplicate>>

Step(c) ==
  \/ Begin(c) \/ GetRecipe(c) \/ ListBuilds(c) \/ ListFails(c)
  \/ CreateRecipe(c) \/ RequestBuilds(c) \/ RequestFails(c)
  \/ RetryBuild(c) \/ RetriesDone(c)
  \/ RecordsAppear(c) \/ RecordsGivenUp(c)

\* Launchpad makes the build record of a request.
Process ==
  /\ requests > 0
  /\ requests' = requests - 1
  /\ \E b \in Build \ Present(build) : build' = [build EXCEPT ![b] = At("Pending")]
  /\ UNCHANGED <<exists, callVars, histVars>>

Launchpad == LaunchpadStep /\ UNCHANGED <<exists, requests, callVars, histVars>>

Next == Process \/ Launchpad \/ \E c \in Call : Step(c)

Spec == Init /\ [][Next]_vars

-----------------------------------------------------------------------------
TypeOK ==
  /\ BuildTypeOK
  /\ exists \in BOOLEAN /\ requests \in Nat
  /\ pc \in [Call -> {"new", "get", "list", "create", "request", "retry",
                      "records", "done"}]
  /\ todo \in [Call -> SUBSET Build]
  /\ outcome \in [Call -> {"none", "ok", "error"}]
  /\ errors \in 0..MaxErrors /\ calls \in 0..MaxCalls
  /\ blind \in BOOLEAN /\ duplicate \in BOOLEAN

\* A call that reports no error for a recipe leaves a recipe that has builds or
\* an accepted request for them, whatever failed and whoever else called.
EffectiveCall ==
  \A c \in Call : outcome[c] = "ok" => exists /\ (requests > 0 \/ Present(build) # {})

\* Builds are requested while earlier ones are not done only when calls overlap
\* or when one did not see the builds of an accepted request: an error, a wait
\* given up, or records of older builds (RecordsAppear).
DuplicateHasCause == duplicate => blind

\* Trigger is "re-entrant: calling it multiple times for the same recipes picks
\* up where it left off" (service.go:161).  The code does not keep this: any
\* build, also an older one, ends the wait for the records of a request.
NoDuplicate == ~duplicate
=============================================================================
