------------------------- MODULE OperationLifecycle -------------------------
(***************************************************************************)
(* What the operation service promises for the state of a job, without     *)
(* store calls, goroutines or callers: a job is driven by the server       *)
(* process that accepted it, it runs before it is settled, and it is       *)
(* declared interrupted only when the process that owned it is gone.       *)
(* OperationService is shown to implement this specification.              *)
(***************************************************************************)

CONSTANTS
  Job,          \* identifiers of operation jobs
  Persistent    \* TRUE: jobs survive the process (bbolt store)

VARIABLES
  status,       \* status[j]: what a client reads as the state of job j
  owned         \* the jobs the current server process is responsible for

vars == <<status, owned>>

Unsettled == {"queued", "running"}
Verdicts  == {"succeeded", "failed", "cancelled"}
Terminal  == Verdicts \cup {"interrupted"}
States    == Unsettled \cup Terminal
Status    == States \cup {"absent"}

Init ==
  /\ status = [j \in Job |-> "absent"]
  /\ owned = {}

Submit(j) ==
  /\ status[j] = "absent"
  /\ status' = [status EXCEPT ![j] = "queued"]
  /\ owned' = owned \cup {j}

Begin(j) ==
  /\ j \in owned
  /\ status[j] = "queued"
  /\ status' = [status EXCEPT ![j] = "running"]
  /\ UNCHANGED owned

Settle(j) ==
  /\ j \in owned
  /\ status[j] = "running"
  /\ \E v \in Verdicts : status' = [status EXCEPT ![j] = v]
  /\ UNCHANGED owned

Interrupt(j) ==
  /\ j \notin owned
  /\ status[j] \in Unsettled
  /\ status' = [status EXCEPT ![j] = "interrupted"]
  /\ UNCHANGED owned

\* The server process ends. Without a persistent store its jobs go with it.
Exit ==
  /\ owned' = {}
  /\ status' = IF Persistent THEN status ELSE [j \in Job |-> "absent"]

Next ==
  \/ \E j \in Job : Submit(j) \/ Begin(j) \/ Settle(j) \/ Interrupt(j)
  \/ Exit

Spec == Init /\ [][Next]_vars

=============================================================================
