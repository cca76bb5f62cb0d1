-------------------------- MODULE OperationService --------------------------
(***************************************************************************)
(* The long-running operation service of the server                        *)
(* (internal/core/service/operation/service.go) over its job store         *)
(* (internal/adapter/secondary/operationstore).                            *)
(*                                                                         *)
(* A step is one store transaction, one critical section of Service.mu or  *)
(* one channel operation, so a read-modify-write of a snapshot is two      *)
(* steps and anything may happen between them.  Per job there are the      *)
(* caller of Start and the goroutine runJob; clients of Cancel and Wait    *)
(* come and go; the server process may exit at any step and be started     *)
(* again, when recoverInterruptedJobs runs before the service serves.      *)
(*                                                                         *)
(* Abstracted: timestamps, kind, attributes, summaries and error texts; a  *)
(* progress snapshot is only its presence.  The function a job runs is     *)
(* the environment: it reports and returns as it likes, but returns        *)
(* context.Canceled only when its context was cancelled.                   *)
(***************************************************************************)
EXTENDS Naturals, Sequences

CONSTANTS
  Job,         \* identifiers newID can return
  Canceller,   \* clients inside Cancel
  Waiter,      \* clients inside Wait
  NoJob,       \* no job
  Persistent,  \* TRUE: bbolt store, FALSE: memory store
  MaxFaults,   \* bound: store transactions that fail
  MaxExits,    \* bound: exits of the server process
  MaxEvents    \* bound: events of a job before the optional ones stop

ASSUME ConstantsAssumption ==
  /\ NoJob \notin Job
  /\ Persistent \in BOOLEAN
  /\ MaxFaults \in Nat
  /\ MaxExits \in Nat
  /\ MaxEvents \in Nat

VARIABLES
  jobs,       \* store: the snapshot of each job, Absent when there is none
  events,     \* store: the event stream of each job
  server,     \* phase of the server process
  listed,     \* recovery: snapshots List returned, not yet handled
  recovered,  \* recovery: the job whose event is still to be appended
  startPc,    \* Start: where the call that creates the job is
  runPc,      \* runJob: where the goroutine of the job is
  snap,       \* runJob: the snapshot it read and will write back
  verdict,    \* runJob: the state finishJob is about to persist
  cancels,    \* keys of Service.cancels
  dones,      \* keys of Service.dones
  closed,     \* jobs whose done channel is closed
  cancelled,  \* jobs whose run context is cancelled
  canceller,  \* the clients inside Cancel
  waiter,     \* the clients inside Wait
  faults,     \* store transactions that failed so far
  exits       \* exits of the process so far

storeVars   == <<jobs, events>>
recoverVars == <<listed, recovered>>
runVars     == <<runPc, snap, verdict>>
regVars     == <<cancels, dones, closed, cancelled>>
clientVars  == <<canceller, waiter>>
vars == <<storeVars, server, recoverVars, startPc, runVars, regVars,
          clientVars, faults, exits>>

Unsettled == {"queued", "running"}
Verdicts  == {"succeeded", "failed", "cancelled"}
Terminal  == Verdicts \cup {"interrupted"}
States    == Unsettled \cup Terminal

EventType == {"queued", "started", "event", "progress", "cancel_requested"}
               \cup Terminal

Snapshot == [state : States \cup {"absent"}, started : BOOLEAN,
             cancellable : BOOLEAN, progress : BOOLEAN]

Absent == [state |-> "absent", started |-> FALSE,
           cancellable |-> FALSE, progress |-> FALSE]

How == {"channel", "early", "store"}

RunPc == {"none", "begin", "beginPut", "beginLog", "running", "progressPut",
          "progressLog", "finish", "finishPut", "finishLog", "signal",
          "close", "done", "dead"}

StoreTypeOK ==
  /\ jobs \in [Job -> Snapshot]
  /\ events \in [Job -> Seq(EventType)]
  /\ faults \in Nat

ServerTypeOK ==
  /\ server \in {"down", "recovering", "serving", "closing"}
  /\ listed \in [Job -> Snapshot]
  /\ recovered \in Job \cup {NoJob}
  /\ exits \in Nat

RunTypeOK ==
  /\ startPc \in [Job -> {"idle", "created", "logged", "launched", "failed"}]
  /\ runPc \in [Job -> RunPc]
  /\ snap \in [Job -> Snapshot]
  /\ verdict \in [Job -> Verdicts \cup {"none"}]

RegTypeOK ==
  /\ cancels \in SUBSET Job
  /\ dones \in SUBSET Job
  /\ closed \in SUBSET Job
  /\ cancelled \in SUBSET Job

CancellerType == [pc : {"idle", "log", "call"}, job : Job \cup {NoJob}]
WaiterType    == [pc : {"idle", "blocked", "fetch", "returned"},
                  job : Job \cup {NoJob}, how : How,
                  got : States \cup {"absent"}]

TypeOK ==
  /\ StoreTypeOK
  /\ ServerTypeOK
  /\ RunTypeOK
  /\ RegTypeOK
  /\ canceller \in [Canceller -> CancellerType]
  /\ waiter \in [Waiter -> WaiterType]

-----------------------------------------------------------------------------
(***************************************************************************)
(* The store.  A bbolt transaction is atomic, and fails once the store is  *)
(* closed or, at most MaxFaults times, for a reason of its own.  The       *)
(* memory store never fails.                                               *)
(***************************************************************************)

StoreOpen == server \in {"recovering", "serving"}

Put(j, s) ==
  /\ StoreOpen
  /\ jobs' = [jobs EXCEPT ![j] = s]
  /\ UNCHANGED <<events, faults>>

AppendEvent(j, type) ==
  /\ StoreOpen
  /\ events' = [events EXCEPT ![j] = Append(@, type)]
  /\ UNCHANGED <<jobs, faults>>

Get(j, s) ==
  /\ StoreOpen
  /\ s = jobs[j]
  /\ UNCHANGED <<storeVars, faults>>

StoreFails ==
  /\ \/ ~StoreOpen /\ UNCHANGED faults
     \/ StoreOpen /\ Persistent /\ faults < MaxFaults /\ faults' = faults + 1
  /\ UNCHANGED storeVars

(***************************************************************************)
(* What the service changes in a snapshot, and which snapshots a new       *)
(* process recovers.  (A definition named X_Bug is a faulty variant of X:  *)
(* the properties are shown to tell the two apart.)                        *)
(***************************************************************************)

Queued == [state |-> "queued", started |-> FALSE,
           cancellable |-> TRUE, progress |-> FALSE]

Running_Bug(s) == [s EXCEPT !.started = TRUE]
Running(s) == [s EXCEPT !.state = "running", !.started = TRUE]

Finished(s, v) == [s EXCEPT !.state = v, !.cancellable = FALSE]

Recoverable_BugAll(s)     == s # Absent
Recoverable_BugRunning(s) == s.state = "running"
Recoverable(s) == s.state \in Unsettled

IsNew_Bug(j) == TRUE
IsNew(j) == jobs[j] = Absent

Init ==
  /\ jobs = [j \in Job |-> Absent]
  /\ events = [j \in Job |-> <<>>]
  /\ server = "down"
  /\ listed = [j \in Job |-> Absent]
  /\ recovered = NoJob
  /\ startPc = [j \in Job |-> "idle"]
  /\ runPc = [j \in Job |-> "none"]
  /\ snap = [j \in Job |-> Absent]
  /\ verdict = [j \in Job |-> "none"]
  /\ cancels = {}
  /\ dones = {}
  /\ closed = {}
  /\ cancelled = {}
  /\ canceller = [c \in Canceller |-> [pc |-> "idle", job |-> NoJob]]
  /\ waiter = [w \in Waiter |-> [pc |-> "idle", job |-> NoJob,
                                 how |-> "store", got |-> "absent"]]
  /\ faults = 0
  /\ exits = 0

-----------------------------------------------------------------------------
(***************************************************************************)
(* Start: the job is created and its first event appended before the job   *)
(* can be cancelled or awaited; a failed append abandons the stored job.   *)
(***************************************************************************)

StartCreate(j) ==
  /\ server = "serving"
  /\ startPc[j] = "idle"
  /\ IsNew(j)
  /\ Put(j, Queued)
  /\ startPc' = [startPc EXCEPT ![j] = "created"]
  /\ UNCHANGED <<server, recoverVars, runVars, regVars, clientVars, exits>>

StartLog(j) ==
  /\ startPc[j] = "created"
  /\ \/ AppendEvent(j, "queued") /\ startPc' = [startPc EXCEPT ![j] = "logged"]
     \/ StoreFails /\ startPc' = [startPc EXCEPT ![j] = "failed"]
  /\ UNCHANGED <<server, recoverVars, runVars, regVars, clientVars, exits>>

StartLaunch(j) ==
  /\ startPc[j] = "logged"
  /\ startPc' = [startPc EXCEPT ![j] = "launched"]
  /\ cancels' = cancels \cup {j}
  /\ dones' = dones \cup {j}
  /\ runPc' = [runPc EXCEPT ![j] = "begin"]
  /\ UNCHANGED <<storeVars, server, recoverVars, snap, verdict, closed,
                 cancelled, clientVars, faults, exits>>

-----------------------------------------------------------------------------
(***************************************************************************)
(* The goroutine of a job: runJob up to the call of the job's function.    *)
(***************************************************************************)

Goto(j, pc) == runPc' = [runPc EXCEPT ![j] = pc]

\* What the steps of a job's goroutine that touch only the store leave alone.
RunOnly == UNCHANGED <<server, recoverVars, startPc, regVars, clientVars, exits>>

\* updateJob, first transaction: the snapshot the mutation will start from.
RunBegin(j) ==
  /\ runPc[j] = "begin"
  /\ \/ \E s \in {jobs[j]} : Get(j, s) /\ snap' = [snap EXCEPT ![j] = s]
        /\ Goto(j, "beginPut")
     \/ StoreFails /\ Goto(j, "dead") /\ UNCHANGED snap
  /\ UNCHANGED verdict
  /\ RunOnly

\* A goroutine that cannot mark its job running returns without finishJob.
RunBeginPut(j) ==
  /\ runPc[j] = "beginPut"
  /\ \/ /\ Put(j, Running(snap[j]))
        /\ Goto(j, "beginLog")
     \/ StoreFails /\ Goto(j, "dead")
  /\ UNCHANGED <<snap, verdict>>
  /\ RunOnly

RunBeginLog(j) ==
  /\ runPc[j] = "beginLog"
  /\ AppendEvent(j, "started") \/ StoreFails
  /\ Goto(j, "running")
  /\ UNCHANGED <<snap, verdict>>
  /\ RunOnly

(***************************************************************************)
(* The job's function: Reporter.Event, Reporter.Progress (a snapshot is    *)
(* read, written back with the progress, and logged), and its return.      *)
(***************************************************************************)

ReportEvent(j) ==
  /\ runPc[j] = "running"
  /\ Len(events[j]) < MaxEvents
  /\ AppendEvent(j, "event")
  /\ UNCHANGED runVars
  /\ RunOnly

ReportProgress(j) ==
  /\ runPc[j] = "running"
  /\ Len(events[j]) < MaxEvents
  /\ \E s \in {jobs[j]} : Get(j, s) /\ snap' = [snap EXCEPT ![j] = s]
  /\ Goto(j, "progressPut")
  /\ UNCHANGED verdict
  /\ RunOnly

ReportProgressPut(j) ==
  /\ runPc[j] = "progressPut"
  /\ \/ Put(j, [snap[j] EXCEPT !.progress = TRUE]) /\ Goto(j, "progressLog")
     \/ StoreFails /\ Goto(j, "running")
  /\ UNCHANGED <<snap, verdict>>
  /\ RunOnly

ReportProgressLog(j) ==
  /\ runPc[j] = "progressLog"
  /\ AppendEvent(j, "progress") \/ StoreFails
  /\ Goto(j, "running")
  /\ UNCHANGED <<snap, verdict>>
  /\ RunOnly

\* errors.Is(err, context.Canceled) needs a cancelled run context.
ReturnVerdict(j) ==
  \E v \in Verdicts :
    /\ v = "cancelled" => j \in cancelled
    /\ verdict' = [verdict EXCEPT ![j] = v]

RunReturn_BugKeepsCancel(j) ==
  /\ runPc[j] = "running"
  /\ ReturnVerdict(j)
  /\ Goto(j, "finish")
  /\ UNCHANGED <<storeVars, server, recoverVars, startPc, snap, regVars,
                 clientVars, faults, exits>>

RunReturn_BugSignals(j) ==
  /\ runPc[j] = "running"
  /\ ReturnVerdict(j)
  /\ cancels' = cancels \ {j}
  /\ dones' = dones \ {j}
  /\ closed' = closed \cup {j}
  /\ Goto(j, "finish")
  /\ UNCHANGED <<storeVars, server, recoverVars, startPc, snap, cancelled,
                 clientVars, faults, exits>>

\* The function returns and finishJob withdraws the job from Cancel.
RunReturn(j) ==
  /\ runPc[j] = "running"
  /\ ReturnVerdict(j)
  /\ cancels' = cancels \ {j}
  /\ Goto(j, "finish")
  /\ UNCHANGED <<storeVars, server, recoverVars, startPc, snap, dones, closed,
                 cancelled, clientVars, faults, exits>>

(***************************************************************************)
(* finishJob: the verdict is persisted, then logged, and only then are the *)
(* waiters released; a failure to persist skips the event.                 *)
(***************************************************************************)

FinishGet(j) ==
  /\ runPc[j] = "finish"
  /\ \/ \E s \in {jobs[j]} : Get(j, s) /\ snap' = [snap EXCEPT ![j] = s]
        /\ Goto(j, "finishPut")
     \/ StoreFails /\ Goto(j, "signal") /\ UNCHANGED snap
  /\ UNCHANGED verdict
  /\ RunOnly

FinishPut_Bug(j) ==
  /\ runPc[j] = "finishPut"
  /\ Put(j, Finished(snap[j], verdict[j])) \/ StoreFails
  /\ Goto(j, "finishLog")
  /\ UNCHANGED <<snap, verdict>>
  /\ RunOnly

FinishPut(j) ==
  /\ runPc[j] = "finishPut"
  /\ \/ Put(j, Finished(snap[j], verdict[j])) /\ Goto(j, "finishLog")
     \/ StoreFails /\ Goto(j, "signal")
  /\ UNCHANGED <<snap, verdict>>
  /\ RunOnly

FinishLog(j) ==
  /\ runPc[j] = "finishLog"
  /\ AppendEvent(j, verdict[j]) \/ StoreFails
  /\ Goto(j, "signal")
  /\ UNCHANGED <<snap, verdict>>
  /\ RunOnly

\* signalDone: forget the channel under the lock, then close it.
SignalForget(j) ==
  /\ runPc[j] = "signal"
  /\ dones' = dones \ {j}
  /\ Goto(j, "close")
  /\ UNCHANGED <<storeVars, server, recoverVars, startPc, snap, verdict,
                 cancels, closed, cancelled, clientVars, faults, exits>>

SignalClose_Bug(j) ==
  /\ runPc[j] = "close"
  /\ Goto(j, "done")
  /\ UNCHANGED <<storeVars, server, recoverVars, startPc, snap, verdict,
                 regVars, clientVars, faults, exits>>

SignalClose(j) ==
  /\ runPc[j] = "close"
  /\ closed' = closed \cup {j}
  /\ Goto(j, "done")
  /\ UNCHANGED <<storeVars, server, recoverVars, startPc, snap, verdict,
                 cancels, dones, cancelled, clientVars, faults, exits>>

-----------------------------------------------------------------------------
(***************************************************************************)
(* Cancel, as the cancel endpoint calls it for a job that exists: the      *)
(* cancel function is looked up, the request logged, the context cancelled.*)
(* A job that is not registered is refused without a state change.         *)
(***************************************************************************)

ClientOnly == UNCHANGED <<server, recoverVars, startPc, runVars, exits>>

CancelLookup(c, j) ==
  /\ server = "serving"
  /\ canceller[c].pc = "idle"
  /\ jobs[j] # Absent
  /\ j \in cancels
  /\ Len(events[j]) < MaxEvents
  /\ canceller' = [canceller EXCEPT ![c] = [pc |-> "log", job |-> j]]
  /\ UNCHANGED <<storeVars, regVars, waiter, faults>>
  /\ ClientOnly

CancelLog_Bug(c) ==
  /\ canceller[c].pc = "log"
  /\ AppendEvent(canceller[c].job, "cancel_requested") \/ StoreFails
  /\ canceller' = [canceller EXCEPT ![c].pc = "call"]
  /\ UNCHANGED <<regVars, waiter>>
  /\ ClientOnly

CancelLog(c) ==
  /\ canceller[c].pc = "log"
  /\ \/ /\ AppendEvent(canceller[c].job, "cancel_requested")
        /\ canceller' = [canceller EXCEPT ![c].pc = "call"]
     \/ StoreFails /\ canceller' = [canceller EXCEPT ![c].pc = "idle"]
  /\ UNCHANGED <<regVars, waiter>>
  /\ ClientOnly

CancelCall(c) ==
  /\ canceller[c].pc = "call"
  /\ cancelled' = cancelled \cup {canceller[c].job}
  /\ canceller' = [canceller EXCEPT ![c].pc = "idle"]
  /\ UNCHANGED <<storeVars, cancels, dones, closed, waiter, faults>>
  /\ ClientOnly

(***************************************************************************)
(* Wait: a registered job is awaited on its channel, any other is read at  *)
(* once.  "how" remembers which, and whether Start had stored but not      *)
(* registered the job when Wait looked it up.                              *)
(***************************************************************************)

WaitLookup(w, j) ==
  /\ server = "serving"
  /\ waiter[w].pc \in {"idle", "returned"}
  /\ jobs[j] # Absent
  /\ waiter' = [waiter EXCEPT ![w] =
       [pc |-> IF j \in dones THEN "blocked" ELSE "fetch", job |-> j,
        how |-> IF j \in dones THEN "channel"
                ELSE IF startPc[j] \in {"created", "logged", "failed"} THEN "early"
                ELSE "store",
        got |-> "absent"]]
  /\ UNCHANGED <<storeVars, regVars, canceller, faults>>
  /\ ClientOnly

WaitWake(w) ==
  /\ waiter[w].pc = "blocked"
  /\ waiter[w].job \in closed
  /\ waiter' = [waiter EXCEPT ![w].pc = "fetch"]
  /\ UNCHANGED <<storeVars, regVars, canceller, faults>>
  /\ ClientOnly

\* The caller's context ends first.
WaitGiveUp(w) ==
  /\ waiter[w].pc = "blocked"
  /\ waiter' = [waiter EXCEPT ![w].pc = "idle"]
  /\ UNCHANGED <<storeVars, regVars, canceller, faults>>
  /\ ClientOnly

WaitFetch(w) ==
  /\ waiter[w].pc = "fetch"
  /\ \/ \E s \in {jobs[waiter[w].job]} :
          /\ Get(waiter[w].job, s)
          /\ waiter' = [waiter EXCEPT ![w].pc = "returned", ![w].got = s.state]
     \/ StoreFails /\ waiter' = [waiter EXCEPT ![w].pc = "idle"]
  /\ UNCHANGED <<regVars, canceller>>
  /\ ClientOnly

-----------------------------------------------------------------------------
(***************************************************************************)
(* The server process.  NewService recovers the jobs a previous process    *)
(* left unsettled; nobody uses the service meanwhile (it is built inside a *)
(* sync.Once).  App.Close closes a bbolt store while goroutines of jobs     *)
(* still run, and requests too: the server waits 10 s for them to end and  *)
(* goes on.  The process may exit at any time.                             *)
(***************************************************************************)

ServerOnly ==
  UNCHANGED <<startPc, runVars, regVars, clientVars, exits>>

NewService ==
  /\ server = "down"
  /\ \/ /\ listed' = [j \in Job |-> IF Recoverable(jobs[j])
                                    THEN jobs[j] ELSE Absent]
        /\ server' = "recovering"
        /\ UNCHANGED faults
     \/ /\ Persistent
        /\ faults < MaxFaults
        /\ faults' = faults + 1
        /\ server' = "serving"
        /\ UNCHANGED listed
  /\ UNCHANGED <<storeVars, recovered>>
  /\ ServerOnly

RecoverPut(j) ==
  /\ server = "recovering"
  /\ recovered = NoJob
  /\ listed[j] # Absent
  /\ listed' = [listed EXCEPT ![j] = Absent]
  /\ \/ Put(j, Finished(listed[j], "interrupted")) /\ recovered' = j
     \/ StoreFails /\ UNCHANGED recovered
  /\ UNCHANGED server
  /\ ServerOnly

RecoverLog ==
  /\ recovered # NoJob
  /\ AppendEvent(recovered, "interrupted") \/ StoreFails
  /\ recovered' = NoJob
  /\ UNCHANGED <<server, listed>>
  /\ ServerOnly

RecoverDone_Bug ==
  /\ server = "recovering"
  /\ recovered = NoJob
  /\ listed' = [j \in Job |-> Absent]
  /\ server' = "serving"
  /\ UNCHANGED <<storeVars, recovered, faults>>
  /\ ServerOnly

RecoverDone ==
  /\ server = "recovering"
  /\ recovered = NoJob
  /\ \A j \in Job : listed[j] = Absent
  /\ server' = "serving"
  /\ UNCHANGED <<storeVars, recoverVars, faults>>
  /\ ServerOnly

CloseStore ==
  /\ server = "serving"
  /\ Persistent
  /\ server' = "closing"
  /\ UNCHANGED <<storeVars, recoverVars, faults>>
  /\ ServerOnly

Exit ==
  /\ server # "down"
  /\ exits < MaxExits
  /\ exits' = exits + 1
  /\ server' = "down"
  /\ IF Persistent THEN UNCHANGED storeVars
     ELSE /\ jobs' = [j \in Job |-> Absent]
          /\ events' = [j \in Job |-> <<>>]
  /\ listed' = [j \in Job |-> Absent]
  /\ recovered' = NoJob
  /\ startPc' = [j \in Job |-> "idle"]
  /\ runPc' = [j \in Job |-> "none"]
  /\ snap' = [j \in Job |-> Absent]
  /\ verdict' = [j \in Job |-> "none"]
  /\ cancels' = {}
  /\ dones' = {}
  /\ closed' = {}
  /\ cancelled' = {}
  /\ canceller' = [c \in Canceller |-> [pc |-> "idle", job |-> NoJob]]
  /\ waiter' = [w \in Waiter |-> [pc |-> "idle", job |-> NoJob,
                                  how |-> "store", got |-> "absent"]]
  /\ UNCHANGED faults

-----------------------------------------------------------------------------
StartStep(j) == StartCreate(j) \/ StartLog(j) \/ StartLaunch(j)

RunStep(j) ==
  \/ RunBegin(j) \/ RunBeginPut(j) \/ RunBeginLog(j)
  \/ ReportEvent(j)
  \/ ReportProgress(j) \/ ReportProgressPut(j) \/ ReportProgressLog(j)
  \/ RunReturn(j)
  \/ FinishGet(j) \/ FinishPut(j) \/ FinishLog(j)
  \/ SignalForget(j) \/ SignalClose(j)

CancelStep(c) == (\E j \in Job : CancelLookup(c, j)) \/ CancelLog(c) \/ CancelCall(c)

WaitStep(w) ==
  \/ \E j \in Job : WaitLookup(w, j)
  \/ WaitWake(w) \/ WaitGiveUp(w) \/ WaitFetch(w)

RecoverStep == (\E j \in Job : RecoverPut(j)) \/ RecoverLog \/ RecoverDone

Next ==
  \/ \E j \in Job : StartStep(j) \/ RunStep(j)
  \/ \E c \in Canceller : CancelStep(c)
  \/ \E w \in Waiter : WaitStep(w)
  \/ NewService \/ RecoverStep \/ CloseStore \/ Exit

Spec == Init /\ [][Next]_vars

(***************************************************************************)
(* Goroutines are scheduled and a job's function returns (an assumption on *)
(* the function); clients, exits and restarts are not obliged to happen.   *)
(***************************************************************************)
Fairness ==
  /\ \A j \in Job :
       /\ WF_vars(StartLog(j)) /\ WF_vars(StartLaunch(j))
       /\ WF_vars(RunBegin(j) \/ RunBeginPut(j) \/ RunBeginLog(j))
       /\ WF_vars(ReportProgressPut(j) \/ ReportProgressLog(j))
       /\ SF_vars(RunReturn(j))
       /\ WF_vars(FinishGet(j) \/ FinishPut(j) \/ FinishLog(j))
       /\ WF_vars(SignalForget(j) \/ SignalClose(j))
  /\ \A w \in Waiter : WF_vars(WaitWake(w)) /\ WF_vars(WaitFetch(w))
  /\ WF_vars(RecoverStep)

FairSpec == Spec /\ Fairness

-----------------------------------------------------------------------------
(***************************************************************************)
(* What the service must never do.                                         *)
(***************************************************************************)

\* Every goroutine, restart and client leaves the snapshot of a settled job
\* alone: progress is written back by read-modify-write of the whole snapshot
\* (updateJob, Reporter.Progress, recoverInterruptedJobs), so any write-back
\* of an older snapshot would lose a verdict.  A memory store ends with its
\* process.
FinalKept ==
  \A j \in Job : jobs[j].state \in Terminal =>
    jobs'[j] = jobs[j] \/ (~Persistent /\ server' = "down")

FinalIsFinal == [][FinalKept]_vars

\* The event stream never announces an outcome the job does not have:
\* finishJob and recoverInterruptedJobs persist first, then append.
VerdictIsPersisted ==
  \A j \in Job : \A i \in 1..Len(events[j]) :
    events[j][i] \in Terminal => jobs[j].state = events[j][i]

\* After the outcome of a job its stream only grows by a Cancel that looked
\* the job up before it finished; in particular a job has one outcome, even
\* when it finishes, the server exits and a new one recovers.
NothingAfterVerdict ==
  \A j \in Job : \A i, k \in 1..Len(events[j]) :
    i < k /\ events[j][i] \in Terminal => events[j][k] = "cancel_requested"

\* A job is "cancelled" only if its stream shows who asked: Cancel appends the
\* request before it cancels the context, and gives up when it cannot append.
CancelledWasRequested ==
  \A j \in Job : jobs[j].state = "cancelled" =>
    \E i \in 1..Len(events[j]) : events[j][i] = "cancel_requested"

\* While no store transaction fails, a server that serves never shows a job
\* unsettled that nobody drives: its Start call or its goroutine is alive.
NoOrphan ==
  server = "serving" /\ faults = 0 =>
    \A j \in Job : jobs[j].state \in Unsettled =>
      startPc[j] \in {"created", "logged"} \/ runPc[j] \notin {"none", "dead", "done"}

\* Cancel finds only jobs that can still be stopped: finishJob withdraws the
\* cancel function before the outcome is stored.
CancelFindsUnsettled ==
  \A j \in cancels : jobs[j].state \in Unsettled

\* A Wait returns its job's outcome, however the finishing goroutine, the removal
\* of the channel and its closing interleave (the promise of service.go:125 and
\* of the comment at 252).  Two cases are left out because the code breaks it
\* there: a Wait between Start's store.Create and its registration of the channel
\* ("early"), and a transaction that fails while the outcome is persisted.
WaitSeesFinal ==
  \A w \in Waiter :
    faults = 0 /\ waiter[w].pc = "returned" /\ waiter[w].how # "early" =>
      waiter[w].got \in Terminal

(***************************************************************************)
(* What it must eventually do, while no store transaction fails.           *)
(***************************************************************************)

\* A stored job is settled, by its goroutine or by the recovery of the next
\* process, unless the server is down or closing.
JobsSettle ==
  \A j \in Job :
    jobs[j].state \in Unsettled /\ server \in {"recovering", "serving"}
      ~> jobs[j].state \notin Unsettled \/ server \in {"down", "closing"} \/ faults > 0

\* A Wait that blocks on the channel of a job returns, unless the store is
\* closed under the job.
WaitersReturn ==
  \A w \in Waiter :
    waiter[w].pc = "blocked" ~>
      waiter[w].pc # "blocked" \/ server = "closing" \/ faults > 0

(***************************************************************************)
(* The service implements the life cycle it promises: a job is owned by    *)
(* the process in which Start stored it.                                   *)
(***************************************************************************)
Lifecycle == INSTANCE OperationLifecycle WITH
  status <- [j \in Job |-> jobs[j].state],
  owned  <- {j \in Job : startPc[j] # "idle"}

LifecycleSpec == Lifecycle!Spec
=============================================================================
