-------------------------- MODULE LaunchpadBuilds --------------------------
(***************************************************************************)
(* The builds that Launchpad keeps, as the build service sees them through *)
(* ListBuilds and RetryBuild.  The states are those the adapter parses     *)
(* (internal/adapter/secondary/launchpad), with the sets of states of      *)
(* pkg/dto/v1/build.go; how builds move between them is Launchpad's.       *)
(***************************************************************************)
EXTENDS Naturals

CONSTANT Build  \* SelfLinks

VARIABLE build  \* build[b]: the record Launchpad keeps of b

States == {"Pending", "Building", "Succeeded", "Failed", "Cancelled",
           "Cancelling", "Superseded"}

Terminal == {"Succeeded", "Failed", "Cancelled", "Superseded"}

Failure == {"Failed", "Cancelled"}

\* canRetry is can_be_retried; queued says that a retry was accepted and the
\* record does not show it yet.
Record == [state : States \cup {"absent"}, canRetry : BOOLEAN, queued : BOOLEAN]

At(s) == [state |-> s, canRetry |-> FALSE, queued |-> FALSE]

Absent == At("absent")

BuildTypeOK == build \in [Build -> Record]

\* What a build may become.  The adapter takes a buildstate it cannot parse for
\* pending, so a build may go back to Pending, and stay there.
Moves ==
  [s \in States \cup {"absent"} |->
     CASE s = "Pending"    -> {"Building", "Superseded"}
       [] s = "Building"   -> {"Succeeded", "Failed", "Cancelling", "Pending"}
       [] s = "Cancelling" -> {"Cancelled"}
       [] OTHER            -> {}]

Advance(b) ==
  \E s \in Moves[build[b].state], retry \in BOOLEAN :
    /\ retry => s \in Terminal
    /\ build' = [build EXCEPT ![b] = [At(s) EXCEPT !.canRetry = retry]]

CanAccept(b) ==
  build[b].state \in Failure /\ build[b].canRetry /\ ~build[b].queued

\* Launchpad accepts a retry now and shows the build as pending later.
AcceptRetry(b) ==
  /\ CanAccept(b)
  /\ build' = [build EXCEPT ![b].queued = TRUE]

Requeue(b) ==
  /\ build[b].queued
  /\ build' = [build EXCEPT ![b] = At("Pending")]

LaunchpadStep == \E b \in Build : Advance(b) \/ Requeue(b)
=============================================================================
