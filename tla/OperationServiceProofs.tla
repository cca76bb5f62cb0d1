----------------------- MODULE OperationServiceProofs -----------------------
(***************************************************************************)
(* Proofs about OperationService for every set of jobs and clients and     *)
(* every bound: type correctness, the permanence of a settled job, the     *)
(* implementation of OperationLifecycle, the event streams, Cancel, Wait,  *)
(* and that every unsettled job has someone who drives it.                 *)
(***************************************************************************)
EXTENDS OperationService, TLAPS

\* The groups of variables are always seen through.
USE DEF storeVars, recoverVars, runVars, regVars, clientVars

-----------------------------------------------------------------------------
(***************************************************************************)
(* Type correctness.  TypeOK is not inductive: a step that stores or logs  *)
(* a verdict needs one, and a client that is not idle needs a job.         *)
(***************************************************************************)

Storing == {"finish", "finishPut", "finishLog"}

RunInv ==
  /\ RunTypeOK
  /\ \A j \in Job : runPc[j] \in Storing => verdict[j] \in Verdicts

CancellerInv ==
  /\ canceller \in [Canceller -> CancellerType]
  /\ \A c \in Canceller : canceller[c].pc # "idle" => canceller[c].job \in Job

WaiterInv ==
  /\ waiter \in [Waiter -> WaiterType]
  /\ \A w \in Waiter : waiter[w].pc # "idle" => waiter[w].job \in Job

TypeInv ==
  StoreTypeOK /\ ServerTypeOK /\ RunInv /\ RegTypeOK /\ CancellerInv /\ WaiterInv

LEMMA AbsentIsSnapshot == Absent \in Snapshot
BY DEF Absent, Snapshot, States, Terminal, Verdicts, Unsettled

\* What the service writes back is a snapshot.
LEMMA SnapshotsStaySnapshots ==
  ASSUME NEW s \in Snapshot
  PROVE  /\ Running(s) \in Snapshot
         /\ \A v \in Terminal : Finished(s, v) \in Snapshot
         /\ [s EXCEPT !.progress = TRUE] \in Snapshot
         /\ Queued \in Snapshot
BY DEF Running, Finished, Queued, Snapshot, States, Terminal, Verdicts, Unsettled

\* Every store transaction, failed or not, leaves a well-typed store.
LEMMA PutType ==
  ASSUME StoreTypeOK, NEW j \in Job, NEW s \in Snapshot, Put(j, s)
  PROVE  StoreTypeOK'
BY DEF StoreTypeOK, Put

LEMMA AppendType ==
  ASSUME StoreTypeOK, NEW j \in Job, NEW e \in EventType, AppendEvent(j, e)
  PROVE  StoreTypeOK'
BY DEF StoreTypeOK, AppendEvent

LEMMA FailType ==
  ASSUME StoreTypeOK, StoreFails
  PROVE  StoreTypeOK'
BY DEF StoreTypeOK, StoreFails

LEMMA GetType ==
  ASSUME StoreTypeOK, NEW j \in Job, NEW s, Get(j, s)
  PROVE  StoreTypeOK' /\ s \in Snapshot
BY DEF StoreTypeOK, Get

LEMMA InitTypeInv == Init => TypeInv
BY AbsentIsSnapshot
   DEF Init, TypeInv, StoreTypeOK, ServerTypeOK, RunInv, RunTypeOK, RegTypeOK,
       CancellerInv, WaiterInv, CancellerType, WaiterType, RunPc, Storing,
       States, EventType, How

LEMMA StartTypeInv ==
  ASSUME TypeInv, NEW j \in Job, StartStep(j)
  PROVE  TypeInv'
<1> USE DEF TypeInv, ServerTypeOK, RunInv, RunTypeOK, RegTypeOK, CancellerInv, WaiterInv
<1>1. CASE StartCreate(j)
  BY <1>1, SnapshotsStaySnapshots, AbsentIsSnapshot, PutType DEF StartCreate
<1>2. CASE StartLog(j)
  BY <1>2, AppendType, FailType DEF StartLog, EventType
<1>3. CASE StartLaunch(j)
  BY <1>3 DEF StartLaunch, StoreTypeOK, Storing, RunPc
<1>4. QED
  BY <1>1, <1>2, <1>3 DEF StartStep

\* A goroutine's step that only touches the store and its own variables.
LEMMA RunOnlyTypeInv ==
  ASSUME TypeInv, RunOnly, StoreTypeOK', RunInv'
  PROVE  TypeInv'
BY DEF TypeInv, RunOnly, ServerTypeOK, RegTypeOK, CancellerInv, WaiterInv

LEMMA RunTypeInv ==
  ASSUME TypeInv, NEW j \in Job, RunStep(j)
  PROVE  TypeInv'
<1> USE DEF Goto
<1>1. ASSUME NEW pc \in RunPc \ Storing, Goto(j, pc),
             UNCHANGED <<startPc, verdict>>,
             \/ UNCHANGED snap
             \/ \E s \in Snapshot : snap' = [snap EXCEPT ![j] = s]
      PROVE  RunInv'
  BY <1>1 DEF TypeInv, RunInv, RunTypeOK
<1>2. ASSUME NEW pc \in RunPc, Goto(j, pc), runPc[j] \in Storing,
             UNCHANGED <<startPc, verdict>>,
             \/ UNCHANGED snap
             \/ \E s \in Snapshot : snap' = [snap EXCEPT ![j] = s]
      PROVE  RunInv'
  BY <1>2 DEF TypeInv, RunInv, RunTypeOK
<1>3. StoreTypeOK /\ snap[j] \in Snapshot
  BY DEF TypeInv, RunInv, RunTypeOK
<1>4. runPc[j] \in Storing => verdict[j] \in Terminal /\ verdict[j] \in EventType
  BY DEF TypeInv, RunInv, Terminal, EventType
<1>5. /\ {"beginPut", "dead", "beginLog", "running", "progressPut", "progressLog",
          "signal", "close", "done"} \subseteq RunPc \ Storing
      /\ {"finishPut", "finishLog"} \subseteq RunPc
  BY DEF RunPc, Storing
<1>6. CASE RunBegin(j)
  <2>1. RunInv' BY <1>1, <1>3, <1>5, <1>6, GetType DEF RunBegin, RunOnly
  <2>2. StoreTypeOK' BY <1>3, <1>6, GetType, FailType DEF RunBegin
  <2>3. QED BY <1>6, <2>1, <2>2, RunOnlyTypeInv DEF RunBegin
<1>7. CASE RunBeginPut(j)
  <2>1. RunInv' BY <1>1, <1>5, <1>7 DEF RunBeginPut, RunOnly
  <2>2. StoreTypeOK'
    BY <1>3, <1>7, SnapshotsStaySnapshots, PutType, FailType DEF RunBeginPut
  <2>3. QED BY <1>7, <2>1, <2>2, RunOnlyTypeInv DEF RunBeginPut
<1>8. CASE RunBeginLog(j)
  <2>1. RunInv' BY <1>1, <1>5, <1>8 DEF RunBeginLog, RunOnly
  <2>2. StoreTypeOK' BY <1>3, <1>8, AppendType, FailType DEF RunBeginLog, EventType
  <2>3. QED BY <1>8, <2>1, <2>2, RunOnlyTypeInv DEF RunBeginLog
<1>9. CASE ReportEvent(j)
  <2>1. RunInv' BY <1>9 DEF ReportEvent, RunOnly, TypeInv, RunInv, RunTypeOK
  <2>2. StoreTypeOK' BY <1>3, <1>9, AppendType DEF ReportEvent, EventType
  <2>3. QED BY <1>9, <2>1, <2>2, RunOnlyTypeInv DEF ReportEvent
<1>10. CASE ReportProgress(j)
  <2>1. RunInv' BY <1>1, <1>3, <1>5, <1>10, GetType DEF ReportProgress, RunOnly
  <2>2. StoreTypeOK' BY <1>3, <1>10, GetType DEF ReportProgress
  <2>3. QED BY <1>10, <2>1, <2>2, RunOnlyTypeInv DEF ReportProgress
<1>11. CASE ReportProgressPut(j)
  <2>1. RunInv' BY <1>1, <1>5, <1>11 DEF ReportProgressPut, RunOnly
  <2>2. StoreTypeOK'
    BY <1>3, <1>11, SnapshotsStaySnapshots, PutType, FailType DEF ReportProgressPut
  <2>3. QED BY <1>11, <2>1, <2>2, RunOnlyTypeInv DEF ReportProgressPut
<1>12. CASE ReportProgressLog(j)
  <2>1. RunInv' BY <1>1, <1>5, <1>12 DEF ReportProgressLog, RunOnly
  <2>2. StoreTypeOK'
    BY <1>3, <1>12, AppendType, FailType DEF ReportProgressLog, EventType
  <2>3. QED BY <1>12, <2>1, <2>2, RunOnlyTypeInv DEF ReportProgressLog
<1>13. CASE RunReturn(j)
  <2>1. RunInv'
    BY <1>13 DEF RunReturn, ReturnVerdict, TypeInv, RunInv, RunTypeOK, RunPc
  <2>2. QED
    BY <1>13, <2>1
       DEF RunReturn, TypeInv, StoreTypeOK, ServerTypeOK, RegTypeOK, CancellerInv,
           WaiterInv
<1>14. CASE FinishGet(j)
  <2>0. runPc[j] \in Storing BY <1>14 DEF FinishGet, Storing
  <2>1. RunInv' BY <2>0, <1>2, <1>3, <1>5, <1>14, GetType DEF FinishGet, RunOnly
  <2>2. StoreTypeOK' BY <1>3, <1>14, GetType, FailType DEF FinishGet
  <2>3. QED BY <1>14, <2>1, <2>2, RunOnlyTypeInv DEF FinishGet
<1>15. CASE FinishPut(j)
  <2>0. runPc[j] \in Storing BY <1>15 DEF FinishPut, Storing
  <2>1. RunInv' BY <2>0, <1>2, <1>5, <1>15 DEF FinishPut, RunOnly
  <2>2. StoreTypeOK'
    BY <2>0, <1>3, <1>4, <1>15, SnapshotsStaySnapshots, PutType, FailType DEF FinishPut
  <2>3. QED BY <1>15, <2>1, <2>2, RunOnlyTypeInv DEF FinishPut
<1>16. CASE FinishLog(j)
  <2>0. runPc[j] \in Storing BY <1>16 DEF FinishLog, Storing
  <2>1. RunInv' BY <2>0, <1>2, <1>5, <1>16 DEF FinishLog, RunOnly
  <2>2. StoreTypeOK'
    BY <2>0, <1>3, <1>4, <1>16, AppendType, FailType DEF FinishLog
  <2>3. QED BY <1>16, <2>1, <2>2, RunOnlyTypeInv DEF FinishLog
<1>17. CASE SignalForget(j)
  <2>1. RunInv' BY <1>1, <1>5, <1>17 DEF SignalForget
  <2>2. QED
    BY <1>17, <2>1 DEF SignalForget, TypeInv, StoreTypeOK, ServerTypeOK, RegTypeOK,
                       CancellerInv, WaiterInv
<1>18. CASE SignalClose(j)
  <2>1. RunInv' BY <1>1, <1>5, <1>18 DEF SignalClose
  <2>2. QED
    BY <1>18, <2>1 DEF SignalClose, TypeInv, StoreTypeOK, ServerTypeOK, RegTypeOK,
                       CancellerInv, WaiterInv
<1>19. QED
  BY <1>6, <1>7, <1>8, <1>9, <1>10, <1>11, <1>12, <1>13, <1>14, <1>15, <1>16,
     <1>17, <1>18 DEF RunStep

LEMMA ClientTypeInv ==
  ASSUME TypeInv,
         \/ \E c \in Canceller : CancelStep(c)
         \/ \E w \in Waiter : WaitStep(w)
  PROVE  TypeInv'
<1> USE DEF TypeInv, ServerTypeOK, RunInv, RunTypeOK, ClientOnly
<1>1. CASE \E c \in Canceller, j \in Job : CancelLookup(c, j)
  BY <1>1 DEF CancelLookup, StoreTypeOK, RegTypeOK, CancellerInv, CancellerType,
              WaiterInv
<1>2. CASE \E c \in Canceller : CancelLog(c)
  <2>1. PICK c \in Canceller : CancelLog(c) BY <1>2
  <2>2. StoreTypeOK'
    BY <2>1, AppendType, FailType DEF CancelLog, CancellerInv, EventType
  <2>3. CancellerInv' BY <2>1 DEF CancelLog, CancellerInv, CancellerType
  <2>4. QED BY <2>1, <2>2, <2>3 DEF CancelLog, RegTypeOK, WaiterInv
<1>3. CASE \E c \in Canceller : CancelCall(c)
  <2>1. PICK c \in Canceller : CancelCall(c) BY <1>3
  <2>2. CancellerInv' BY <2>1 DEF CancelCall, CancellerInv, CancellerType
  <2>3. RegTypeOK' BY <2>1 DEF CancelCall, RegTypeOK, CancellerInv
  <2>4. QED BY <2>1, <2>2, <2>3 DEF CancelCall, StoreTypeOK, WaiterInv
<1>4. CASE \E w \in Waiter, j \in Job : WaitLookup(w, j)
  <2>1. PICK w \in Waiter, j \in Job : WaitLookup(w, j) BY <1>4
  <2>2. WaiterInv' BY <2>1 DEF WaitLookup, WaiterInv, WaiterType, How
  <2>3. QED BY <2>1, <2>2 DEF WaitLookup, StoreTypeOK, RegTypeOK, CancellerInv
<1>5. CASE \E w \in Waiter : WaitWake(w) \/ WaitGiveUp(w)
  <2>1. PICK w \in Waiter : WaitWake(w) \/ WaitGiveUp(w) BY <1>5
  <2>2. WaiterInv' BY <2>1 DEF WaitWake, WaitGiveUp, WaiterInv, WaiterType
  <2>3. QED
    BY <2>1, <2>2 DEF WaitWake, WaitGiveUp, StoreTypeOK, RegTypeOK, CancellerInv
<1>6. CASE \E w \in Waiter : WaitFetch(w)
  <2>1. PICK w \in Waiter : WaitFetch(w) BY <1>6
  <2>2. waiter[w].job \in Job BY <2>1 DEF WaitFetch, WaiterInv
  <2>3. StoreTypeOK' BY <2>1, <2>2, GetType, FailType DEF WaitFetch
  <2>4. jobs[waiter[w].job].state \in States \cup {"absent"}
    BY <2>2 DEF StoreTypeOK, Snapshot
  <2>5. WaiterInv' BY <2>1, <2>4 DEF WaitFetch, WaiterInv, WaiterType
  <2>6. QED BY <2>1, <2>3, <2>5 DEF WaitFetch, RegTypeOK, CancellerInv
<1>7. QED
  BY <1>1, <1>2, <1>3, <1>4, <1>5, <1>6 DEF CancelStep, WaitStep

LEMMA ServerTypeInv ==
  ASSUME TypeInv, NewService \/ RecoverStep \/ CloseStore \/ Exit
  PROVE  TypeInv'
<1> USE AbsentIsSnapshot
    DEF TypeInv, ServerTypeOK, RunInv, RunTypeOK, CancellerInv, WaiterInv, ServerOnly
<1>1. CASE NewService
  <2>1. StoreTypeOK' BY <1>1 DEF NewService, StoreTypeOK
  <2>2. listed' \in [Job -> Snapshot] BY <1>1 DEF NewService, StoreTypeOK
  <2>3. QED BY <1>1, <2>1, <2>2 DEF NewService, RegTypeOK
<1>2. CASE \E j \in Job : RecoverPut(j)
  <2>1. PICK j \in Job : RecoverPut(j) BY <1>2
  <2>2. StoreTypeOK'
    BY <2>1, SnapshotsStaySnapshots, PutType, FailType DEF RecoverPut, Terminal
  <2>3. QED BY <2>1, <2>2 DEF RecoverPut, RegTypeOK
<1>3. CASE RecoverLog
  <2>1. StoreTypeOK'
    BY <1>3, AppendType, FailType DEF RecoverLog, EventType, Terminal
  <2>2. QED BY <1>3, <2>1 DEF RecoverLog, RegTypeOK
<1>4. CASE RecoverDone
  BY <1>4 DEF RecoverDone, StoreTypeOK, RegTypeOK
<1>5. CASE CloseStore
  BY <1>5 DEF CloseStore, StoreTypeOK, RegTypeOK
<1>6. CASE Exit
  <2>1. StoreTypeOK'
    <3>1. CASE Persistent
      <4>1. UNCHANGED storeVars BY <1>6, <3>1, Zenon DEF Exit
      <4>2. QED BY <1>6, <4>1 DEF Exit, StoreTypeOK
    <3>2. CASE ~Persistent
      <4>1. /\ jobs' = [j \in Job |-> Absent]
            /\ events' = [j \in Job |-> <<>>]
        BY <1>6, <3>2, Zenon DEF Exit
      <4>2. <<>> \in Seq(EventType) OBVIOUS
      <4>3. faults' = faults BY <1>6 DEF Exit
      <4>4. QED BY <4>1, <4>2, <4>3 DEF StoreTypeOK
    <3>3. QED BY <3>1, <3>2
  <2>2. CancellerInv' BY <1>6 DEF Exit, CancellerType
  <2>3. WaiterInv' BY <1>6 DEF Exit, WaiterType, How
  <2>4. QED
    BY <1>6, <2>1, <2>2, <2>3 DEF Exit, RegTypeOK, RunPc, Storing
<1>7. QED
  BY <1>1, <1>2, <1>3, <1>4, <1>5, <1>6 DEF RecoverStep

LEMMA StepTypeInv ==
  ASSUME TypeInv, [Next]_vars
  PROVE  TypeInv'
<1>1. CASE UNCHANGED vars
  BY <1>1 DEF vars, TypeInv, StoreTypeOK, ServerTypeOK, RunInv, RunTypeOK,
              RegTypeOK, CancellerInv, WaiterInv
<1>2. CASE Next
  BY <1>2, StartTypeInv, RunTypeInv, ClientTypeInv, ServerTypeInv DEF Next
<1>3. QED
  BY <1>1, <1>2

LEMMA TypeInvariance == Spec => []TypeInv
<1>1. QED
  BY InitTypeInv, StepTypeInv, PTL DEF Spec

\* Every reachable state of the service is well typed.
THEOREM TypeCorrect == Spec => []TypeOK
<1>1. TypeInv => TypeOK
  BY DEF TypeInv, TypeOK, RunInv, CancellerInv, WaiterInv
<1>2. QED
  BY <1>1, TypeInvariance, PTL

-----------------------------------------------------------------------------
(***************************************************************************)
(* Who drives a job knows its state.  The goroutine of a job and the       *)
(* recovery write whole snapshots back, so the argument that no outcome is *)
(* lost is that a snapshot between its read and its write-back is current: *)
(* the goroutine is the only writer of its job, and the recovery runs when *)
(* there is none.                                                          *)
(***************************************************************************)

Reading  == {"beginPut", "progressPut", "finishPut"}
Beginning == {"begin", "beginPut"}
Working  == {"beginLog", "running", "progressPut", "progressLog", "finish",
             "finishPut"}

DriverInv ==
  /\ \A j \in Job :
       /\ startPc[j] # "launched" => runPc[j] = "none"
       /\ startPc[j] \in {"created", "logged"} => jobs[j].state = "queued"
       /\ runPc[j] \in Beginning => jobs[j].state = "queued"
       /\ runPc[j] \in Working => jobs[j].state = "running"
       /\ runPc[j] \in Reading => snap[j] = jobs[j]
       /\ listed[j] # Absent => /\ server = "recovering"
                                /\ listed[j] = jobs[j]
                                /\ jobs[j].state \in Unsettled
  /\ server \in {"down", "recovering"} => \A j \in Job : startPc[j] = "idle"

LEMMA InitDriverInv == Init => DriverInv
BY DEF Init, DriverInv, Beginning, Working, Reading

\* A step of the goroutine of j that leaves the store alone.
LEMMA SilentRunStep ==
  ASSUME TypeInv, DriverInv, NEW j \in Job, NEW pc \in RunPc, Goto(j, pc),
         startPc[j] = "launched",
         UNCHANGED <<jobs, startPc, listed, server>>,
         \/ UNCHANGED snap
         \/ snap' = [snap EXCEPT ![j] = jobs[j]],
         pc \in Beginning => jobs[j].state = "queued",
         pc \in Working => jobs[j].state = "running",
         pc \in Reading => snap'[j] = jobs[j]
  PROVE  DriverInv'
BY DEF Goto, DriverInv, TypeInv, RunInv, RunTypeOK

\* A step of the goroutine of j that writes s.
LEMMA WritingRunStep ==
  ASSUME TypeInv, DriverInv, NEW j \in Job, NEW pc \in RunPc, NEW s \in Snapshot,
         Goto(j, pc), startPc[j] = "launched",
         UNCHANGED <<startPc, listed, server, snap>>,
         jobs' = [jobs EXCEPT ![j] = s],
         pc \notin Beginning \cup Reading,
         pc \in Working => s.state = "running"
  PROVE  DriverInv'
BY DEF Goto, DriverInv, TypeInv, RunInv, RunTypeOK, StoreTypeOK, Unsettled,
       ServerTypeOK

LEMMA RunDriverInv ==
  ASSUME TypeInv, DriverInv, NEW j \in Job, RunStep(j)
  PROVE  DriverInv'
<1> USE DEF Beginning, Working, Reading
<1>1. runPc[j] # "none" => startPc[j] = "launched"
  BY DEF DriverInv
<1>2. snap[j] \in Snapshot
  BY DEF TypeInv, RunInv, RunTypeOK
<1>3. /\ runPc[j] \in Beginning => jobs[j].state = "queued"
      /\ runPc[j] \in Working => jobs[j].state = "running"
      /\ runPc[j] \in Reading => snap[j] = jobs[j]
  BY DEF DriverInv
<1>4. /\ snap \in [Job -> Snapshot]
      /\ runPc[j] \in Storing => verdict[j] \in Terminal
  BY DEF TypeInv, RunInv, RunTypeOK, Terminal
<1>5. CASE RunBegin(j)
  BY <1>1, <1>3, <1>4, <1>5, SilentRunStep
     DEF RunBegin, RunOnly, Get, StoreFails, RunPc
<1>6. CASE RunBeginPut(j)
  <2>1. CASE Put(j, Running(snap[j])) /\ Goto(j, "beginLog")
    <3>1. Running(snap[j]).state = "running" BY <1>2 DEF Running, Snapshot
    <3>2. QED
      BY <1>1, <1>2, <1>6, <2>1, <3>1, SnapshotsStaySnapshots, WritingRunStep
         DEF RunBeginPut, RunOnly, Put, RunPc
  <2>2. CASE StoreFails /\ Goto(j, "dead")
    BY <1>1, <1>6, <2>2, SilentRunStep DEF RunBeginPut, RunOnly, StoreFails, RunPc
  <2>3. QED BY <1>6, <2>1, <2>2 DEF RunBeginPut
<1>7. CASE RunBeginLog(j)
  BY <1>1, <1>3, <1>7, SilentRunStep
     DEF RunBeginLog, RunOnly, AppendEvent, StoreFails, RunPc
<1>8. CASE ReportEvent(j)
  BY <1>8 DEF ReportEvent, RunOnly, AppendEvent, DriverInv
<1>9. CASE ReportProgress(j)
  BY <1>1, <1>3, <1>4, <1>9, SilentRunStep DEF ReportProgress, RunOnly, Get, RunPc
<1>10. CASE ReportProgressPut(j)
  <2>1. CASE Put(j, [snap[j] EXCEPT !.progress = TRUE]) /\ Goto(j, "progressLog")
    <3>1. [snap[j] EXCEPT !.progress = TRUE].state = "running"
      BY <1>2, <1>3, <1>10 DEF ReportProgressPut, Snapshot
    <3>2. QED
      BY <1>1, <1>2, <1>10, <2>1, <3>1, SnapshotsStaySnapshots, WritingRunStep
         DEF ReportProgressPut, RunOnly, Put, RunPc
  <2>2. CASE StoreFails /\ Goto(j, "running")
    BY <1>1, <1>3, <1>10, <2>2, SilentRunStep
       DEF ReportProgressPut, RunOnly, StoreFails, RunPc
  <2>3. QED BY <1>10, <2>1, <2>2 DEF ReportProgressPut
<1>11. CASE ReportProgressLog(j)
  BY <1>1, <1>3, <1>11, SilentRunStep
     DEF ReportProgressLog, RunOnly, AppendEvent, StoreFails, RunPc
<1>12. CASE RunReturn(j)
  BY <1>1, <1>3, <1>12, SilentRunStep DEF RunReturn, RunPc
<1>13. CASE FinishGet(j)
  BY <1>1, <1>3, <1>4, <1>13, SilentRunStep
     DEF FinishGet, RunOnly, Get, StoreFails, RunPc
<1>14. CASE FinishPut(j)
  <2>1. CASE Put(j, Finished(snap[j], verdict[j])) /\ Goto(j, "finishLog")
    BY <1>1, <1>2, <1>4, <1>14, <2>1, SnapshotsStaySnapshots, WritingRunStep
       DEF FinishPut, RunOnly, Put, RunPc, Storing
  <2>2. CASE StoreFails /\ Goto(j, "signal")
    BY <1>1, <1>14, <2>2, SilentRunStep DEF FinishPut, RunOnly, StoreFails, RunPc
  <2>3. QED BY <1>14, <2>1, <2>2 DEF FinishPut
<1>15. CASE FinishLog(j)
  BY <1>1, <1>15, SilentRunStep
     DEF FinishLog, RunOnly, AppendEvent, StoreFails, RunPc
<1>16. CASE SignalForget(j)
  BY <1>1, <1>16, SilentRunStep DEF SignalForget, RunPc
<1>17. CASE SignalClose(j)
  BY <1>1, <1>17, SilentRunStep DEF SignalClose, RunPc
<1>18. QED
  BY <1>5, <1>6, <1>7, <1>8, <1>9, <1>10, <1>11, <1>12, <1>13, <1>14, <1>15,
     <1>16, <1>17 DEF RunStep

LEMMA StartDriverInv ==
  ASSUME TypeInv, DriverInv, NEW j \in Job, StartStep(j)
  PROVE  DriverInv'
<1> USE DEF DriverInv, TypeInv, RunInv, RunTypeOK, StoreTypeOK, Beginning, Working,
            Reading
<1>1. CASE StartCreate(j)
  BY <1>1 DEF StartCreate, Put, Queued
<1>2. CASE StartLog(j)
  BY <1>2 DEF StartLog, AppendEvent, StoreFails
<1>3. CASE StartLaunch(j)
  BY <1>3 DEF StartLaunch
<1>4. QED
  BY <1>1, <1>2, <1>3 DEF StartStep

LEMMA ClientDriverInv ==
  ASSUME DriverInv,
         \/ \E c \in Canceller : CancelStep(c)
         \/ \E w \in Waiter : WaitStep(w)
  PROVE  DriverInv' /\ UNCHANGED <<jobs, startPc>>
<1>1. UNCHANGED <<jobs, startPc, runPc, snap, listed, server>>
  BY DEF CancelStep, CancelLookup, CancelLog, CancelCall, WaitStep, WaitLookup,
         WaitWake, WaitGiveUp, WaitFetch, ClientOnly, AppendEvent, Get, StoreFails
<1>2. QED
  BY <1>1 DEF DriverInv

LEMMA ServerDriverInv ==
  ASSUME TypeInv, DriverInv, NewService \/ RecoverStep \/ CloseStore \/ Exit
  PROVE  DriverInv'
<1> USE DEF DriverInv, TypeInv, ServerOnly
<1>1. CASE NewService
  BY <1>1 DEF NewService, Recoverable
<1>2. CASE \E j \in Job : RecoverPut(j)
  BY <1>2 DEF RecoverPut, Put, StoreFails, StoreTypeOK, ServerTypeOK, Beginning,
              Working, Reading
<1>3. CASE RecoverLog
  BY <1>3 DEF RecoverLog, AppendEvent, StoreFails
<1>4. CASE RecoverDone
  BY <1>4 DEF RecoverDone
<1>5. CASE CloseStore
  BY <1>5 DEF CloseStore
<1>6. CASE Exit
  BY <1>6 DEF Exit, Beginning, Working, Reading
<1>7. QED
  BY <1>1, <1>2, <1>3, <1>4, <1>5, <1>6 DEF RecoverStep

IInv == TypeInv /\ DriverInv

LEMMA StepIInv ==
  ASSUME IInv, [Next]_vars
  PROVE  IInv'
<1>1. CASE UNCHANGED vars
  BY <1>1, StepTypeInv DEF vars, IInv, DriverInv
<1>2. CASE Next
  BY <1>2, StepTypeInv, StartDriverInv, RunDriverInv, ClientDriverInv,
     ServerDriverInv DEF Next, IInv
<1>3. QED
  BY <1>1, <1>2

LEMMA Invariance == Spec => []IInv
<1>1. Init => IInv
  BY InitTypeInv, InitDriverInv DEF IInv
<1>2. QED
  BY <1>1, StepIInv, PTL DEF Spec

-----------------------------------------------------------------------------
(***************************************************************************)
(* What a step does to the stored jobs, read off the current snapshot: the *)
(* write-backs of old snapshots are gone.                                  *)
(***************************************************************************)

Owned == {j \in Job : startPc[j] # "idle"}

Silent == jobs' = jobs /\ Owned' = Owned

Creates(j) ==
  /\ jobs[j] = Absent
  /\ jobs' = [jobs EXCEPT ![j] = Queued]
  /\ Owned' = Owned \cup {j}

Begins(j) ==
  /\ j \in Owned
  /\ jobs[j].state = "queued"
  /\ jobs' = [jobs EXCEPT ![j] = Running(jobs[j])]
  /\ Owned' = Owned

Progresses(j) ==
  /\ jobs[j].state = "running"
  /\ jobs' = [jobs EXCEPT ![j] = [jobs[j] EXCEPT !.progress = TRUE]]
  /\ Owned' = Owned

Settles(j) ==
  /\ j \in Owned
  /\ jobs[j].state = "running"
  /\ verdict[j] \in Verdicts
  /\ jobs' = [jobs EXCEPT ![j] = Finished(jobs[j], verdict[j])]
  /\ Owned' = Owned

Interrupts(j) ==
  /\ j \notin Owned
  /\ jobs[j].state \in Unsettled
  /\ jobs' = [jobs EXCEPT ![j] = Finished(jobs[j], "interrupted")]
  /\ Owned' = Owned

LEMMA RunEffect ==
  ASSUME IInv, NEW j \in Job, RunStep(j)
  PROVE  Silent \/ Begins(j) \/ Progresses(j) \/ Settles(j)
<1>1. UNCHANGED startPc
  BY DEF RunStep, RunBegin, RunBeginPut, RunBeginLog, ReportEvent, ReportProgress,
         ReportProgressPut, ReportProgressLog, RunReturn, FinishGet, FinishPut,
         FinishLog, SignalForget, SignalClose, RunOnly
<1>2. Owned' = Owned
  BY <1>1 DEF Owned
<1>3. runPc[j] # "none" => j \in Owned
  BY DEF IInv, DriverInv, Owned
<1>4. CASE RunBeginPut(j)
  <2>1. snap[j] = jobs[j] /\ jobs[j].state = "queued" /\ j \in Owned
    BY <1>3, <1>4 DEF RunBeginPut, IInv, DriverInv, Reading, Beginning
  <2>2. CASE Put(j, Running(snap[j]))
    BY <1>2, <2>1, <2>2 DEF Put, Begins
  <2>3. CASE StoreFails
    BY <1>2, <2>3 DEF StoreFails, Silent
  <2>4. QED BY <1>4, <2>2, <2>3 DEF RunBeginPut
<1>5. CASE ReportProgressPut(j)
  <2>1. snap[j] = jobs[j] /\ jobs[j].state = "running"
    BY <1>5 DEF ReportProgressPut, IInv, DriverInv, Reading, Working
  <2>2. CASE Put(j, [snap[j] EXCEPT !.progress = TRUE])
    BY <1>2, <2>1, <2>2 DEF Put, Progresses
  <2>3. CASE StoreFails
    BY <1>2, <2>3 DEF StoreFails, Silent
  <2>4. QED BY <1>5, <2>2, <2>3 DEF ReportProgressPut
<1>6. CASE FinishPut(j)
  <2>1. snap[j] = jobs[j] /\ jobs[j].state = "running" /\ j \in Owned
    BY <1>3, <1>6 DEF FinishPut, IInv, DriverInv, Reading, Working
  <2>2. verdict[j] \in Verdicts
    BY <1>6 DEF FinishPut, IInv, TypeInv, RunInv, Storing
  <2>3. CASE Put(j, Finished(snap[j], verdict[j]))
    BY <1>2, <2>1, <2>2, <2>3 DEF Put, Settles
  <2>4. CASE StoreFails
    BY <1>2, <2>4 DEF StoreFails, Silent
  <2>5. QED BY <1>6, <2>3, <2>4 DEF FinishPut
<1>7. CASE ~(RunBeginPut(j) \/ ReportProgressPut(j) \/ FinishPut(j))
  <2>1. UNCHANGED jobs
    BY <1>7 DEF RunStep, RunBegin, RunBeginLog, ReportEvent, ReportProgress,
                ReportProgressLog, RunReturn, FinishGet, FinishLog, SignalForget,
                SignalClose, AppendEvent, Get, StoreFails
  <2>2. QED BY <1>2, <2>1 DEF Silent
<1>8. QED
  BY <1>4, <1>5, <1>6, <1>7

LEMMA StartEffect ==
  ASSUME IInv, NEW j \in Job, StartStep(j)
  PROVE  Silent \/ Creates(j)
<1> USE DEF IInv, TypeInv, RunInv, RunTypeOK, Owned
<1>1. CASE StartCreate(j)
  BY <1>1 DEF StartCreate, Put, IsNew, Creates
<1>2. CASE StartLog(j)
  BY <1>2 DEF StartLog, AppendEvent, StoreFails, Silent
<1>3. CASE StartLaunch(j)
  BY <1>3 DEF StartLaunch, Silent
<1>4. QED
  BY <1>1, <1>2, <1>3 DEF StartStep

LEMMA ServerEffect ==
  ASSUME IInv, NewService \/ RecoverStep \/ CloseStore
  PROVE  Silent \/ \E j \in Job : Interrupts(j)
<1>1. UNCHANGED startPc
  BY DEF NewService, RecoverStep, RecoverPut, RecoverLog, RecoverDone, CloseStore,
         ServerOnly
<1>2. Owned' = Owned
  BY <1>1 DEF Owned
<1>3. ASSUME NEW j \in Job, RecoverPut(j)
      PROVE  Silent \/ Interrupts(j)
  <2>1. listed[j] = jobs[j] /\ jobs[j].state \in Unsettled /\ j \notin Owned
    BY <1>3 DEF RecoverPut, IInv, DriverInv, Owned
  <2>2. CASE Put(j, Finished(listed[j], "interrupted"))
    BY <1>2, <2>1, <2>2 DEF Put, Interrupts
  <2>3. CASE StoreFails
    BY <1>2, <2>3 DEF StoreFails, Silent
  <2>4. QED BY <1>3, <2>2, <2>3 DEF RecoverPut
<1>4. CASE NewService \/ RecoverLog \/ RecoverDone \/ CloseStore
  BY <1>2, <1>4 DEF NewService, RecoverLog, RecoverDone, CloseStore, AppendEvent,
                    StoreFails, Silent
<1>5. QED
  BY <1>3, <1>4 DEF RecoverStep

LEMMA Effect ==
  ASSUME IInv, [Next]_vars
  PROVE  \/ Silent
         \/ \E j \in Job : Creates(j) \/ Begins(j) \/ Progresses(j) \/ Settles(j)
                             \/ Interrupts(j)
         \/ Exit
<1>1. CASE UNCHANGED vars
  BY <1>1 DEF vars, Silent, Owned
<1>2. CASE \E j \in Job : StartStep(j) \/ RunStep(j)
  BY <1>2, StartEffect, RunEffect
<1>3. CASE (\E c \in Canceller : CancelStep(c)) \/ (\E w \in Waiter : WaitStep(w))
  BY <1>3, ClientDriverInv DEF IInv, Silent, Owned
<1>4. CASE NewService \/ RecoverStep \/ CloseStore
  BY <1>4, ServerEffect
<1>5. QED
  BY <1>1, <1>2, <1>3, <1>4 DEF Next

-----------------------------------------------------------------------------
LEMMA StatesDiffer ==
  /\ Terminal \cap Unsettled = {}
  /\ "queued" \in Unsettled /\ "running" \in Unsettled
  /\ Absent.state \notin Terminal
BY DEF Terminal, Verdicts, Unsettled, Absent

\* A settled job keeps its snapshot, or goes with its process and the memory store.
LEMMA SettledStays ==
  ASSUME IInv, [Next]_vars, NEW j \in Job, jobs[j].state \in Terminal
  PROVE  jobs'[j] = jobs[j] \/ (~Persistent /\ Exit)
<1>1. CASE Silent
  BY <1>1 DEF Silent
<1>2. ASSUME NEW i \in Job, \/ Creates(i) \/ Begins(i) \/ Progresses(i)
                            \/ Settles(i) \/ Interrupts(i)
      PROVE  jobs'[j] = jobs[j]
  <2>1. i # j
    BY <1>2, StatesDiffer DEF Creates, Begins, Progresses, Settles, Interrupts
  <2>2. \E s : jobs' = [jobs EXCEPT ![i] = s]
    BY <1>2 DEF Creates, Begins, Progresses, Settles, Interrupts
  <2>3. QED
    BY <2>1, <2>2 DEF IInv, TypeInv, StoreTypeOK
<1>3. CASE Exit /\ Persistent
  <2>1. UNCHANGED storeVars BY <1>3, Zenon DEF Exit
  <2>2. QED BY <2>1
<1>4. QED
  BY <1>1, <1>2, <1>3, Effect

\* The outcome of a job is never changed: not by the goroutines and clients of
\* the process that ran it, nor by the recovery of a later one.
THEOREM FinalForever == Spec => FinalIsFinal
<1>1. IInv /\ [Next]_vars => [FinalKept]_vars
  BY SettledStays DEF FinalKept, Exit
<1>2. QED
  BY <1>1, Invariance, PTL DEF Spec, FinalIsFinal

LEMMA LifecycleInit == Init => Lifecycle!Init
BY DEF Init, Lifecycle!Init, Absent

LEMMA LifecycleStep ==
  ASSUME IInv, [Next]_vars
  PROVE  [Lifecycle!Next]_(Lifecycle!vars)
<1> DEFINE status == [j \in Job |-> jobs[j].state]
<1>1. jobs \in [Job -> Snapshot]
  BY DEF IInv, TypeInv, StoreTypeOK
<1>2. ASSUME NEW i \in Job, NEW s, jobs' = [jobs EXCEPT ![i] = s]
      PROVE  status' = [status EXCEPT ![i] = s.state]
  BY <1>1, <1>2
<1>3. CASE Silent
  BY <1>3 DEF Silent, Owned, Lifecycle!vars
<1>4. ASSUME NEW i \in Job, Creates(i)
      PROVE  Lifecycle!Submit(i)
  <2>1. Queued.state = "queued" /\ jobs[i].state = "absent"
    BY <1>4 DEF Creates, Queued, Absent
  <2>2. status' = [status EXCEPT ![i] = "queued"]
    BY <1>2, <1>4, <2>1 DEF Creates
  <2>3. QED
    BY <1>4, <2>1, <2>2 DEF Creates, Owned, Lifecycle!Submit
<1>5. ASSUME NEW i \in Job, Begins(i)
      PROVE  Lifecycle!Begin(i)
  <2>1. Running(jobs[i]).state = "running"
    BY <1>1 DEF Running, Snapshot
  <2>2. QED
    BY <1>2, <1>5, <2>1 DEF Begins, Owned, Lifecycle!Begin
<1>6. ASSUME NEW i \in Job, Progresses(i)
      PROVE  UNCHANGED Lifecycle!vars
  <2>1. [jobs[i] EXCEPT !.progress = TRUE].state = jobs[i].state
    BY <1>1 DEF Snapshot
  <2>2. status' = status
    BY <1>1, <1>2, <1>6, <2>1 DEF Progresses
  <2>3. QED
    BY <1>6, <2>2 DEF Progresses, Owned, Lifecycle!vars
<1>7. ASSUME NEW i \in Job, Settles(i)
      PROVE  Lifecycle!Settle(i)
  <2>1. \A v : Finished(jobs[i], v).state = v
    BY <1>1 DEF Finished, Snapshot
  <2>2. status' = [status EXCEPT ![i] = verdict[i]]
    <3>1. jobs' = [jobs EXCEPT ![i] = Finished(jobs[i], verdict[i])]
      BY <1>7 DEF Settles
    <3>2. status' = [status EXCEPT ![i] = Finished(jobs[i], verdict[i]).state]
      BY ONLY <1>2, <1>7, <3>1
    <3>3. QED
      BY <2>1, <3>2
  <2>3. QED
    BY <1>7, <2>2 DEF Settles, Owned, Verdicts, Lifecycle!Settle, Lifecycle!Verdicts
<1>8. ASSUME NEW i \in Job, Interrupts(i)
      PROVE  Lifecycle!Interrupt(i)
  <2>1. \A v : Finished(jobs[i], v).state = v
    BY <1>1 DEF Finished, Snapshot
  <2>2. status' = [status EXCEPT ![i] = "interrupted"]
    BY <1>2, <1>8, <2>1 DEF Interrupts
  <2>3. QED
    BY <1>8, <2>2
       DEF Interrupts, Owned, Unsettled, Lifecycle!Interrupt, Lifecycle!Unsettled
<1>9. ASSUME Exit
      PROVE  Lifecycle!Exit
  <2>1. Owned' = {}
    BY <1>9 DEF Exit, Owned
  <2>2. CASE Persistent
    <3>1. UNCHANGED storeVars BY <1>9, <2>2, Zenon DEF Exit
    <3>2. QED BY <2>1, <2>2, <3>1 DEF Owned, Lifecycle!Exit
  <2>3. CASE ~Persistent
    <3>1. jobs' = [j \in Job |-> Absent] BY <1>9, <2>3, Zenon DEF Exit
    <3>2. status' = [j \in Job |-> "absent"] BY <3>1 DEF Absent
    <3>3. QED BY <2>1, <2>3, <3>2 DEF Owned, Lifecycle!Exit
  <2>4. QED
    BY <2>2, <2>3
<1>10. QED
  BY <1>3, <1>4, <1>5, <1>6, <1>7, <1>8, <1>9, Effect DEF Lifecycle!Next

\* The service with its store calls, goroutines, clients, recovery and exits
\* implements the life cycle that OperationLifecycle promises.
THEOREM ImplementsLifecycle == Spec => LifecycleSpec
<1>1. QED
  BY LifecycleInit, LifecycleStep, Invariance, PTL
     DEF Spec, LifecycleSpec, Lifecycle!Spec
-----------------------------------------------------------------------------
(***************************************************************************)
(* The event stream.  An outcome is announced by the goroutine that stored *)
(* it, or by the recovery that did; both are between the two steps at most *)
(* once, because the job they store an outcome for had none.               *)
(***************************************************************************)

Unannounced(j) == \A i \in 1..Len(events[j]) : events[j][i] \notin Terminal

AnnounceInv ==
  /\ \A j \in Job : runPc[j] = "finishLog" =>
       jobs[j].state = verdict[j] /\ Unannounced(j)
  /\ recovered # NoJob => /\ server = "recovering"
                          /\ jobs[recovered].state = "interrupted"
                          /\ Unannounced(recovered)

StreamInv == VerdictIsPersisted /\ NothingAfterVerdict /\ AnnounceInv

LEMMA UnsettledUnannounced ==
  ASSUME VerdictIsPersisted, NEW j \in Job, jobs[j].state \in Unsettled
  PROVE  Unannounced(j)
BY StatesDiffer DEF VerdictIsPersisted, Unannounced

\* What may be appended to the stream of j, the store of jobs left alone.
Announces(j, t) ==
  /\ events' = [events EXCEPT ![j] = Append(@, t)]
  /\ jobs' = jobs
  /\ t \in Terminal => jobs[j].state = t
  /\ t = "cancel_requested" \/ Unannounced(j)

LEMMA StartAnnounces ==
  ASSUME IInv, StreamInv, NEW j \in Job, StartStep(j)
  PROVE  events' = events \/ Announces(j, "queued")
<1>1. CASE StartLog(j)
  <2>1. Unannounced(j)
    BY <1>1, UnsettledUnannounced DEF StartLog, StreamInv, IInv, DriverInv, Unsettled
  <2>2. QED
    BY <1>1, <2>1
       DEF StartLog, AppendEvent, StoreFails, Announces, Terminal, Verdicts
<1>2. CASE ~StartLog(j)
  BY <1>2 DEF StartStep, StartCreate, StartLaunch, Put
<1>3. QED
  BY <1>1, <1>2

LEMMA RunAnnounces ==
  ASSUME IInv, StreamInv, NEW j \in Job, RunStep(j)
  PROVE  \/ events' = events
         \/ \E t \in EventType \ {"cancel_requested"} : Announces(j, t)
<1>1. CASE RunBeginLog(j) \/ ReportEvent(j) \/ ReportProgressLog(j)
  <2>1. Unannounced(j)
    BY <1>1, UnsettledUnannounced
       DEF RunBeginLog, ReportEvent, ReportProgressLog, StreamInv, IInv, DriverInv,
           Working, Unsettled
  <2>2. PICK t \in {"started", "event", "progress"} :
          AppendEvent(j, t) \/ StoreFails
    BY <1>1 DEF RunBeginLog, ReportEvent, ReportProgressLog
  <2>3. t \notin Terminal /\ t \in EventType \ {"cancel_requested"}
    BY DEF Terminal, Verdicts, EventType
  <2>4. QED
    BY <2>1, <2>2, <2>3 DEF AppendEvent, StoreFails, Announces
<1>2. CASE FinishLog(j)
  <2>1. jobs[j].state = verdict[j] /\ Unannounced(j)
    BY <1>2 DEF FinishLog, StreamInv, AnnounceInv
  <2>2. verdict[j] \in EventType \ {"cancel_requested"}
    BY <1>2 DEF FinishLog, IInv, TypeInv, RunInv, Storing, EventType, Terminal, Verdicts
  <2>3. AppendEvent(j, verdict[j]) \/ StoreFails
    BY <1>2 DEF FinishLog
  <2>4. QED
    BY <2>1, <2>2, <2>3 DEF AppendEvent, StoreFails, Announces
<1>3. CASE ~(RunBeginLog(j) \/ ReportEvent(j) \/ ReportProgressLog(j) \/ FinishLog(j))
  BY <1>3 DEF RunStep, RunBegin, RunBeginPut, ReportProgress, ReportProgressPut,
              RunReturn, FinishGet, FinishPut, SignalForget, SignalClose, Put, Get,
              StoreFails
<1>4. QED
  BY <1>1, <1>2, <1>3

LEMMA StepAnnounces ==
  ASSUME IInv, StreamInv, [Next]_vars
  PROVE  \/ events' = events
         \/ \E j \in Job, t \in EventType : Announces(j, t)
         \/ ~Persistent /\ Exit
<1>1. CASE \E j \in Job : StartStep(j) \/ RunStep(j)
  BY <1>1, StartAnnounces, RunAnnounces DEF EventType
<1>2. CASE \E c \in Canceller : CancelStep(c)
  <2>1. PICK c \in Canceller : CancelStep(c)
    BY <1>2
  <2>2. CASE CancelLog(c)
    <3>1. canceller[c].job \in Job
      BY <2>2 DEF CancelLog, IInv, TypeInv, CancellerInv
    <3>2. AppendEvent(canceller[c].job, "cancel_requested") \/ StoreFails
      BY <2>2 DEF CancelLog
    <3>3. QED
      BY <3>1, <3>2
         DEF AppendEvent, StoreFails, Announces, Terminal, Verdicts, EventType
  <2>3. CASE ~CancelLog(c)
    BY <2>1, <2>3 DEF CancelStep, CancelLookup, CancelCall
  <2>4. QED
    BY <2>2, <2>3
<1>3. CASE \E w \in Waiter : WaitStep(w)
  BY <1>3 DEF WaitStep, WaitLookup, WaitWake, WaitGiveUp, WaitFetch, Get, StoreFails
<1>4. CASE RecoverLog
  <2>1. recovered \in Job /\ jobs[recovered].state = "interrupted"
          /\ Unannounced(recovered)
    BY <1>4 DEF RecoverLog, StreamInv, AnnounceInv, IInv, TypeInv, ServerTypeOK
  <2>2. AppendEvent(recovered, "interrupted") \/ StoreFails
    BY <1>4 DEF RecoverLog
  <2>3. QED
    BY <2>1, <2>2 DEF AppendEvent, StoreFails, Announces, Terminal, EventType
<1>5. CASE NewService \/ (\E j \in Job : RecoverPut(j)) \/ RecoverDone \/ CloseStore
  BY <1>5 DEF NewService, RecoverPut, RecoverDone, CloseStore, Put, StoreFails
<1>6. CASE Exit
  <2>1. Persistent => UNCHANGED storeVars
    BY <1>6, Zenon DEF Exit
  <2>2. QED
    BY <1>6, <2>1
<1>7. CASE UNCHANGED vars
  BY <1>7 DEF vars
<1>8. QED
  BY <1>1, <1>2, <1>3, <1>4, <1>5, <1>6, <1>7 DEF Next, RecoverStep

LEMMA AnnounceStep ==
  ASSUME IInv, StreamInv, NEW j \in Job, NEW t \in EventType, Announces(j, t),
         [Next]_vars
  PROVE  VerdictIsPersisted' /\ NothingAfterVerdict'
<1> DEFINE old == events[j]
           new == Append(old, t)
<1>1. events \in [Job -> Seq(EventType)] /\ old \in Seq(EventType)
  BY DEF IInv, TypeInv, StoreTypeOK
<1>2. events' = [events EXCEPT ![j] = new] /\ jobs' = jobs
  BY DEF Announces
<1>3. /\ events'[j] = new /\ Len(new) = Len(old) + 1 /\ new[Len(old) + 1] = t
      /\ \A i \in 1..Len(old) : new[i] = old[i]
      /\ Len(old) \in Nat
  BY <1>1, <1>2
<1>4. \A k \in Job : k # j => events'[k] = events[k]
  BY <1>1, <1>2
<1> HIDE DEF new
<1>5. VerdictIsPersisted'
  <2>1. ASSUME NEW i \in 1..Len(new), new[i] \in Terminal
        PROVE  jobs[j].state = new[i]
    <3>1. CASE i \in 1..Len(old)
      BY <1>3, <2>1, <3>1 DEF StreamInv, VerdictIsPersisted
    <3>2. CASE i = Len(old) + 1
      BY <1>3, <2>1, <3>2 DEF Announces
    <3>3. QED
      BY <1>3, <3>1, <3>2
  <2>2. QED
    BY <1>2, <1>3, <1>4, <2>1 DEF StreamInv, VerdictIsPersisted
<1>6. NothingAfterVerdict'
  <2>1. ASSUME NEW i \in 1..Len(new), NEW k \in 1..Len(new), i < k, new[i] \in Terminal
        PROVE  new[k] = "cancel_requested"
    <3>1. i \in 1..Len(old) /\ old[i] \in Terminal
      BY <1>3, <2>1
    <3>2. CASE k \in 1..Len(old)
      BY <1>3, <2>1, <3>1, <3>2 DEF StreamInv, NothingAfterVerdict
    <3>3. CASE k = Len(old) + 1
      BY <1>3, <3>1, <3>3 DEF Announces, Unannounced
    <3>4. QED
      BY <1>3, <3>2, <3>3
  <2>2. QED
    BY <1>3, <1>4, <2>1 DEF StreamInv, NothingAfterVerdict
<1>7. QED
  BY <1>5, <1>6

LEMMA StepStream ==
  ASSUME IInv, StreamInv, [Next]_vars
  PROVE  VerdictIsPersisted' /\ NothingAfterVerdict'
<1>1. CASE events' = events
  <2>1. ASSUME NEW j \in Job, NEW i \in 1..Len(events[j]), events[j][i] \in Terminal
        PROVE  jobs'[j].state = events[j][i] \/ (~Persistent /\ Exit)
    <3>1. jobs[j].state = events[j][i]
      BY <2>1 DEF StreamInv, VerdictIsPersisted
    <3>2. QED
      BY <2>1, <3>1, SettledStays
  <2>2. CASE ~(~Persistent /\ Exit)
    BY <1>1, <2>1, <2>2 DEF StreamInv, VerdictIsPersisted, NothingAfterVerdict
  <2>3. CASE ~Persistent /\ Exit
    <3>1. events' = [j \in Job |-> <<>>]
      BY <2>3, Zenon DEF Exit
    <3>2. QED
      BY <3>1 DEF VerdictIsPersisted, NothingAfterVerdict
  <2>4. QED
    BY <2>2, <2>3
<1>2. CASE \E j \in Job, t \in EventType : Announces(j, t)
  BY <1>2, AnnounceStep
<1>3. CASE ~Persistent /\ Exit
  <2>1. events' = [j \in Job |-> <<>>]
    BY <1>3, Zenon DEF Exit
  <2>2. QED
    BY <2>1 DEF VerdictIsPersisted, NothingAfterVerdict
<1>4. QED
  BY <1>1, <1>2, <1>3, StepAnnounces

\* While there are callers of Start or goroutines, no recovery is under way.
LEMMA NoRecovery ==
  ASSUME IInv, AnnounceInv, NEW j \in Job, startPc[j] # "idle"
  PROVE  recovered = NoJob
BY DEF IInv, DriverInv, AnnounceInv

LEMMA StartAnnounceInv ==
  ASSUME IInv, StreamInv, NEW j \in Job, StartStep(j)
  PROVE  AnnounceInv'
<1>1. runPc[j] = "none" /\ UNCHANGED <<recovered, verdict>>
  BY DEF StartStep, StartCreate, StartLog, StartLaunch, IInv, DriverInv
<1>2. recovered = NoJob
  BY NoRecovery DEF StartStep, StartCreate, StartLog, StartLaunch, StreamInv, AnnounceInv
<1>3. runPc' = [runPc EXCEPT ![j] = runPc'[j]] /\ runPc'[j] # "finishLog"
  BY <1>1 DEF StartStep, StartCreate, StartLog, StartLaunch, IInv, TypeInv, RunInv,
              RunTypeOK
<1>4. \A i \in Job : i # j => jobs'[i] = jobs[i] /\ events'[i] = events[i]
  BY DEF StartStep, StartCreate, StartLog, StartLaunch, Put, AppendEvent, StoreFails,
         IInv, TypeInv, StoreTypeOK
<1>5. QED
  BY <1>1, <1>2, <1>3, <1>4 DEF StreamInv, AnnounceInv, Unannounced, IInv, TypeInv,
                                RunInv, RunTypeOK

LEMMA RunAnnounceInv ==
  ASSUME IInv, StreamInv, NEW j \in Job, RunStep(j)
  PROVE  AnnounceInv'
<1>1. runPc[j] # "none" /\ UNCHANGED recovered
  BY DEF RunStep, RunBegin, RunBeginPut, RunBeginLog, ReportEvent, ReportProgress,
         ReportProgressPut, ReportProgressLog, RunReturn, FinishGet, FinishPut,
         FinishLog, SignalForget, SignalClose, RunOnly
<1>2. recovered' = NoJob
  BY <1>1, NoRecovery DEF IInv, DriverInv, StreamInv
<1>3. \A i \in Job : i # j => /\ runPc'[i] = runPc[i] /\ verdict'[i] = verdict[i]
                             /\ jobs'[i] = jobs[i] /\ events'[i] = events[i]
  BY DEF RunStep, RunBegin, RunBeginPut, RunBeginLog, ReportEvent, ReportProgress,
         ReportProgressPut, ReportProgressLog, RunReturn, ReturnVerdict, FinishGet,
         FinishPut, FinishLog, SignalForget, SignalClose, RunOnly, Goto, Put,
         AppendEvent, Get, StoreFails, IInv, TypeInv, StoreTypeOK, RunInv, RunTypeOK
<1>4. ASSUME runPc'[j] = "finishLog"
      PROVE  jobs'[j].state = verdict'[j] /\ Unannounced(j)'
  <2>1. FinishPut(j)
    BY <1>4 DEF RunStep, RunBegin, RunBeginPut, RunBeginLog, ReportEvent,
         ReportProgress, ReportProgressPut, ReportProgressLog, RunReturn, FinishGet,
         FinishLog, SignalForget, SignalClose, Goto, IInv, TypeInv, RunInv, RunTypeOK
  <2>2. Put(j, Finished(snap[j], verdict[j])) /\ UNCHANGED verdict
    BY <1>4, <2>1 DEF FinishPut, Goto, IInv, TypeInv, RunInv, RunTypeOK
  <2>3. jobs[j].state = "running"
    BY <2>1 DEF FinishPut, IInv, DriverInv, Working
  <2>4. Unannounced(j)
    BY <2>3, UnsettledUnannounced DEF StreamInv, Unsettled
  <2>5. Finished(snap[j], verdict[j]).state = verdict[j]
    BY DEF Finished, IInv, TypeInv, RunInv, RunTypeOK, Snapshot
  <2>6. QED
    BY <2>2, <2>4, <2>5 DEF Put, Unannounced, IInv, TypeInv, StoreTypeOK
<1>5. QED
  BY <1>2, <1>3, <1>4 DEF StreamInv, AnnounceInv, Unannounced

LEMMA ClientAnnounceInv ==
  ASSUME IInv, StreamInv,
         \/ \E c \in Canceller : CancelStep(c)
         \/ \E w \in Waiter : WaitStep(w)
  PROVE  AnnounceInv'
<1>1. UNCHANGED <<jobs, runPc, verdict, recovered, server>>
  BY DEF CancelStep, CancelLookup, CancelLog, CancelCall, WaitStep, WaitLookup,
         WaitWake, WaitGiveUp, WaitFetch, ClientOnly, AppendEvent, Get, StoreFails
<1>2. \/ events' = events
      \/ \E c \in Canceller : CancelLog(c) /\ AppendEvent(canceller[c].job, "cancel_requested")
  BY DEF CancelStep, CancelLookup, CancelLog, CancelCall, WaitStep, WaitLookup,
         WaitWake, WaitGiveUp, WaitFetch, Get, StoreFails
<1>3. ASSUME NEW c \in Canceller, CancelLog(c),
             AppendEvent(canceller[c].job, "cancel_requested"),
             NEW i \in Job, Unannounced(i)
      PROVE  Unannounced(i)'
  <2>1. events \in [Job -> Seq(EventType)] /\ "cancel_requested" \notin Terminal
    BY DEF IInv, TypeInv, StoreTypeOK, Terminal, Verdicts
  <2>2. events'[i] = events[i] \/ events'[i] = Append(events[i], "cancel_requested")
    BY <1>3, <2>1 DEF AppendEvent
  <2>3. QED
    BY <1>3, <2>1, <2>2 DEF Unannounced
<1>4. \A i \in Job : Unannounced(i) => Unannounced(i)'
  BY <1>2, <1>3 DEF Unannounced
<1>5. recovered \in Job \cup {NoJob}
  BY DEF IInv, TypeInv, ServerTypeOK
<1>6. recovered # NoJob => (Unannounced(recovered))'
  BY <1>1, <1>4, <1>5 DEF StreamInv, AnnounceInv, Unannounced
<1>7. QED
  BY <1>1, <1>4, <1>6 DEF StreamInv, AnnounceInv

LEMMA ServerAnnounceInv ==
  ASSUME IInv, StreamInv, NewService \/ RecoverStep \/ CloseStore \/ Exit
  PROVE  AnnounceInv'
<1> USE DEF StreamInv, AnnounceInv, ServerOnly
<1>1. CASE NewService
  BY <1>1 DEF NewService, Unannounced
<1>2. ASSUME NEW j \in Job, RecoverPut(j)
      PROVE  AnnounceInv'
  <2>1. \A i \in Job : runPc[i] = "none"
    BY <1>2 DEF RecoverPut, IInv, DriverInv
  <2>2. UNCHANGED <<runPc, events, server>> /\ server = "recovering" /\ recovered = NoJob
    BY <1>2 DEF RecoverPut, Put, StoreFails
  <2>3. CASE Put(j, Finished(listed[j], "interrupted")) /\ recovered' = j
    <3>1. Unannounced(j)
      BY <1>2, UnsettledUnannounced DEF RecoverPut, IInv, DriverInv
    <3>2. jobs'[j].state = "interrupted"
      BY <2>3 DEF Put, Finished, IInv, TypeInv, ServerTypeOK, StoreTypeOK, Snapshot
    <3>3. QED
      BY <2>1, <2>2, <2>3, <3>1, <3>2 DEF Unannounced
  <2>4. CASE UNCHANGED recovered
    BY <2>1, <2>2, <2>4
  <2>5. QED
    BY <1>2, <2>3, <2>4 DEF RecoverPut
<1>3. CASE RecoverLog
  <2>1. \A i \in Job : runPc[i] = "none"
    BY <1>3 DEF RecoverLog, IInv, DriverInv
  <2>2. QED
    BY <1>3, <2>1 DEF RecoverLog
<1>4. CASE RecoverDone \/ CloseStore
  BY <1>4 DEF RecoverDone, CloseStore, Unannounced
<1>5. CASE Exit
  BY <1>5 DEF Exit
<1>6. QED
  BY <1>1, <1>2, <1>3, <1>4, <1>5 DEF RecoverStep

LEMMA StreamInvariance == Spec => []StreamInv
<1>1. Init => StreamInv
  BY DEF Init, StreamInv, VerdictIsPersisted, NothingAfterVerdict, AnnounceInv
<1>2. ASSUME IInv, StreamInv, [Next]_vars
      PROVE  StreamInv'
  <2>1. CASE UNCHANGED vars
    BY <1>2, <2>1 DEF vars, storeVars, recoverVars, runVars, StreamInv, AnnounceInv,
                      VerdictIsPersisted, NothingAfterVerdict, Unannounced
  <2>2. CASE Next
    BY <1>2, <2>2, StepStream, StartAnnounceInv, RunAnnounceInv, ClientAnnounceInv,
       ServerAnnounceInv DEF Next, StreamInv
  <2>3. QED
    BY <1>2, <2>1, <2>2
<1>3. QED
  BY <1>1, <1>2, Invariance, PTL DEF Spec

\* No stream ever announces an outcome that is not the stored one, whatever
\* transaction fails and wherever the process ends.
THEOREM AnnouncedIsStored == Spec => []VerdictIsPersisted
<1>1. StreamInv => VerdictIsPersisted
  BY DEF StreamInv
<1>2. QED
  BY <1>1, StreamInvariance, PTL

\* A stream has one outcome, and after it at most requests of Cancel that were
\* on their way.
THEOREM OutcomeEndsStream == Spec => []NothingAfterVerdict
<1>1. StreamInv => NothingAfterVerdict
  BY DEF StreamInv
<1>2. QED
  BY <1>1, StreamInvariance, PTL

-----------------------------------------------------------------------------
(***************************************************************************)
(* Cancel.  The cancel function of a job is registered from the launch of  *)
(* its goroutine to the return of its function; a request is logged before *)
(* it takes effect, and stays in the stream for as long as its effect can. *)
(***************************************************************************)

Open == {"begin", "beginPut", "beginLog", "running", "progressPut", "progressLog",
         "dead"}

CancelInv == \A j \in cancels : runPc[j] \in Open /\ jobs[j].state \in Unsettled

LEMMA StepCancelInv ==
  ASSUME IInv, CancelInv, [Next]_vars
  PROVE  CancelInv'
<1> USE DEF CancelInv, IInv, TypeInv
<1>1. CASE UNCHANGED vars
  BY <1>1 DEF vars, storeVars, runVars, regVars
<1>2. ASSUME NEW j \in Job, StartStep(j)
      PROVE  CancelInv'
  <2>1. runPc[j] = "none" /\ j \notin cancels
    BY <1>2 DEF StartStep, StartCreate, StartLog, StartLaunch, DriverInv, Open
  <2>2. CASE StartCreate(j)
    <3>1. \A i \in cancels : jobs'[i] = jobs[i]
      BY <2>1, <2>2 DEF StartCreate, Put, StoreTypeOK, RegTypeOK
    <3>2. QED
      BY <2>2, <3>1 DEF StartCreate
  <2>3. CASE StartLog(j)
    BY <2>3 DEF StartLog, AppendEvent, StoreFails
  <2>4. CASE StartLaunch(j)
    BY <2>1, <2>4 DEF StartLaunch, DriverInv, Open, Unsettled, RunInv, RunTypeOK, RegTypeOK
  <2>5. QED
    BY <1>2, <2>2, <2>3, <2>4 DEF StartStep
<1>3. ASSUME NEW j \in Job, RunStep(j)
      PROVE  CancelInv'
  <2>1. \A i \in Job : i # j => runPc'[i] = runPc[i] /\ jobs'[i] = jobs[i]
    BY <1>3 DEF RunStep, RunBegin, RunBeginPut, RunBeginLog, ReportEvent,
         ReportProgress, ReportProgressPut, ReportProgressLog, RunReturn, FinishGet,
         FinishPut, FinishLog, SignalForget, SignalClose, RunOnly, Goto, Put,
         AppendEvent, Get, StoreFails, StoreTypeOK, RunInv, RunTypeOK
  <2>2. cancels' \subseteq cancels
    BY <1>3 DEF RunStep, RunBegin, RunBeginPut, RunBeginLog, ReportEvent,
         ReportProgress, ReportProgressPut, ReportProgressLog, RunReturn, FinishGet,
         FinishPut, FinishLog, SignalForget, SignalClose, RunOnly, regVars
  <2>3. ASSUME j \in cancels'
        PROVE  runPc'[j] \in Open
    <3>1. runPc[j] \in Open
      BY <2>2, <2>3
    <3>2. QED
      BY <1>3, <2>3, <3>1
         DEF Open, RunStep, RunBegin, RunBeginPut, RunBeginLog, ReportEvent,
             ReportProgress, ReportProgressPut, ReportProgressLog, RunReturn,
             FinishGet, FinishPut, FinishLog, SignalForget, SignalClose, Goto,
             RunInv, RunTypeOK
  <2>4. ASSUME j \in cancels'
        PROVE  jobs'[j].state \in Unsettled
    <3>1. runPc[j] \in Open /\ jobs[j].state \in Unsettled
      BY <2>2, <2>4
    <3>2. CASE RunBeginPut(j)
      BY <3>1, <3>2 DEF RunBeginPut, Put, StoreFails, Running, Unsettled, RunInv,
                        RunTypeOK, StoreTypeOK, Snapshot
    <3>3. CASE ReportProgressPut(j)
      <4>1. snap[j] = jobs[j] /\ jobs[j] \in Snapshot
        BY <3>3 DEF ReportProgressPut, DriverInv, Reading, StoreTypeOK
      <4>2. [snap[j] EXCEPT !.progress = TRUE].state = jobs[j].state
        BY <4>1 DEF Snapshot
      <4>3. QED
        BY <3>1, <3>3, <4>2 DEF ReportProgressPut, Put, StoreFails, StoreTypeOK
    <3>4. CASE ~RunBeginPut(j) /\ ~ReportProgressPut(j)
      <4>1. UNCHANGED jobs
        BY <1>3, <3>1, <3>4
           DEF Open, RunStep, RunBegin, RunBeginLog, ReportEvent, ReportProgress,
               ReportProgressLog, RunReturn, FinishGet, FinishPut, FinishLog,
               SignalForget, SignalClose, AppendEvent, Get, StoreFails
      <4>2. QED
        BY <3>1, <4>1
    <3>5. QED
      BY <3>2, <3>3, <3>4
  <2>5. QED
    BY <2>1, <2>2, <2>3, <2>4 DEF RegTypeOK
<1>4. CASE (\E c \in Canceller : CancelStep(c)) \/ (\E w \in Waiter : WaitStep(w))
  BY <1>4 DEF CancelStep, CancelLookup, CancelLog, CancelCall, WaitStep, WaitLookup,
              WaitWake, WaitGiveUp, WaitFetch, ClientOnly, AppendEvent, Get, StoreFails,
              regVars, runVars
<1>5. CASE \E j \in Job : RecoverPut(j)
  <2>1. cancels = {}
    BY <1>5 DEF RecoverPut, DriverInv, Open, RegTypeOK
  <2>2. QED
    BY <1>5, <2>1 DEF RecoverPut, ServerOnly, regVars
<1>6. CASE NewService \/ RecoverLog \/ RecoverDone \/ CloseStore
  BY <1>6 DEF NewService, RecoverLog, RecoverDone, CloseStore, ServerOnly, AppendEvent,
              StoreFails, regVars, runVars, storeVars
<1>7. CASE Exit
  BY <1>7 DEF Exit
<1>8. QED
  BY <1>1, <1>2, <1>3, <1>4, <1>5, <1>6, <1>7 DEF Next, RecoverStep

\* Cancel never finds a job that is already settled, also when the transaction
\* that should have stored its outcome failed.
THEOREM CancelIsTimely == Spec => []CancelFindsUnsettled
<1>1. Init => CancelInv
  BY DEF Init, CancelInv
<1>2. CancelInv => CancelFindsUnsettled
  BY DEF CancelInv, CancelFindsUnsettled
<1>3. QED
  BY <1>1, <1>2, StepCancelInv, Invariance, PTL DEF Spec

Requested(j) == \E i \in 1..Len(events[j]) : events[j][i] = "cancel_requested"

RequestInv ==
  /\ \A j \in Job : jobs[j].state = "cancelled" \/ verdict[j] = "cancelled"
                      => Requested(j)
  /\ \A j \in cancelled : Requested(j)
  /\ \A c \in Canceller : canceller[c].pc = "call" => Requested(canceller[c].job)

\* While the process lives, what a stream says stays said.
LEMMA RequestedStays ==
  ASSUME IInv, StreamInv, [Next]_vars, ~Exit, NEW j \in Job, Requested(j)
  PROVE  Requested(j)'
<1>1. CASE events' = events
  BY <1>1 DEF Requested
<1>2. ASSUME NEW k \in Job, NEW t \in EventType, Announces(k, t)
      PROVE  Requested(j)'
  <2>1. events[k] \in Seq(EventType) /\ events' = [events EXCEPT ![k] = Append(events[k], t)]
    BY <1>2 DEF Announces, IInv, TypeInv, StoreTypeOK
  <2>2. CASE j # k
    BY <2>1, <2>2 DEF Requested, IInv, TypeInv, StoreTypeOK
  <2>3. CASE j = k
    <3>1. events'[j] = Append(events[j], t)
      BY <2>1, <2>3 DEF IInv, TypeInv, StoreTypeOK
    <3>2. PICK i \in 1..Len(events[j]) : events[j][i] = "cancel_requested"
      BY DEF Requested
    <3>3. i \in 1..Len(events'[j]) /\ events'[j][i] = "cancel_requested"
      BY <2>1, <2>3, <3>1, <3>2
    <3>4. QED
      BY <3>3 DEF Requested
  <2>4. QED
    BY <2>2, <2>3
<1>3. QED
  BY <1>1, <1>2, StepAnnounces

\* A verdict "cancelled" comes from a cancelled context.
LEMMA CancelledVerdict ==
  ASSUME IInv, [Next]_vars, ~Exit, NEW j \in Job, verdict'[j] = "cancelled"
  PROVE  verdict[j] = "cancelled" \/ j \in cancelled
<1>1. ASSUME NEW k \in Job, RunReturn(k)
      PROVE  verdict[j] = "cancelled" \/ j \in cancelled
  <2>1. PICK v \in Verdicts : /\ v = "cancelled" => k \in cancelled
                              /\ verdict' = [verdict EXCEPT ![k] = v]
    BY <1>1 DEF RunReturn, ReturnVerdict
  <2>2. QED
    BY <2>1 DEF IInv, TypeInv, RunInv, RunTypeOK
<1>2. ASSUME NEW k \in Job, RunStep(k), ~RunReturn(k)
      PROVE  UNCHANGED verdict
  BY <1>2 DEF RunStep, RunBegin, RunBeginPut, RunBeginLog, ReportEvent, ReportProgress,
              ReportProgressPut, ReportProgressLog, FinishGet, FinishPut, FinishLog,
              SignalForget, SignalClose
<1>3. ASSUME NEW k \in Job, StartStep(k)
      PROVE  UNCHANGED verdict
  BY <1>3 DEF StartStep, StartCreate, StartLog, StartLaunch
<1>4. CASE (\E c \in Canceller : CancelStep(c)) \/ (\E w \in Waiter : WaitStep(w))
  BY <1>4 DEF CancelStep, CancelLookup, CancelLog, CancelCall, WaitStep, WaitLookup,
              WaitWake, WaitGiveUp, WaitFetch, ClientOnly
<1>5. CASE NewService \/ RecoverStep \/ CloseStore
  BY <1>5 DEF NewService, RecoverStep, RecoverPut, RecoverLog, RecoverDone, CloseStore,
              ServerOnly
<1>6. CASE UNCHANGED vars
  BY <1>6 DEF vars
<1>7. QED
  BY <1>1, <1>2, <1>3, <1>4, <1>5, <1>6 DEF Next

\* A context is cancelled, and a client about to cancel one, after the request
\* was logged.
LEMMA CancelSteps ==
  ASSUME IInv, [Next]_vars, ~Exit
  PROVE  \/ UNCHANGED <<cancelled, canceller>>
         \/ UNCHANGED cancelled /\ \E c \in Canceller, j \in Job :
              canceller' = [canceller EXCEPT ![c] = [pc |-> "log", job |-> j]]
         \/ \E c \in Canceller : CancelLog(c) \/ CancelCall(c)
<1>1. ASSUME NEW j \in Job, StartStep(j)
      PROVE  UNCHANGED <<cancelled, canceller>>
  BY <1>1 DEF StartStep, StartCreate, StartLog, StartLaunch
<1>2. ASSUME NEW j \in Job, RunStep(j)
      PROVE  UNCHANGED <<cancelled, canceller>>
  BY <1>2 DEF RunStep, RunBegin, RunBeginPut, RunBeginLog, ReportEvent, ReportProgress,
              ReportProgressPut, ReportProgressLog, RunReturn, FinishGet, FinishPut,
              FinishLog, SignalForget, SignalClose, RunOnly
<1>3. CASE \E w \in Waiter : WaitStep(w)
  BY <1>3 DEF WaitStep, WaitLookup, WaitWake, WaitGiveUp, WaitFetch
<1>4. CASE NewService \/ RecoverStep \/ CloseStore
  BY <1>4 DEF NewService, RecoverStep, RecoverPut, RecoverLog, RecoverDone, CloseStore,
              ServerOnly
<1>5. ASSUME NEW c \in Canceller, NEW j \in Job, CancelLookup(c, j)
      PROVE  /\ UNCHANGED cancelled
             /\ canceller' = [canceller EXCEPT ![c] = [pc |-> "log", job |-> j]]
  BY <1>5 DEF CancelLookup
<1>6. CASE UNCHANGED vars
  BY <1>6 DEF vars
<1>7. QED
  BY <1>1, <1>2, <1>3, <1>4, <1>5, <1>6 DEF Next, CancelStep

LEMMA StepRequestInv ==
  ASSUME IInv, StreamInv, RequestInv, [Next]_vars
  PROVE  RequestInv'
<1>1. CASE Exit
  <2>1. Persistent => UNCHANGED storeVars
    BY <1>1, Zenon DEF Exit
  <2>2. ~Persistent => jobs' = [j \in Job |-> Absent]
    BY <1>1, Zenon DEF Exit
  <2>3. /\ verdict' = [j \in Job |-> "none"]
        /\ cancelled' = {}
        /\ canceller' = [c \in Canceller |-> [pc |-> "idle", job |-> NoJob]]
    BY <1>1, Zenon DEF Exit
  <2>4. QED
    BY <2>1, <2>2, <2>3 DEF RequestInv, Requested, Absent
<1>2. CASE ~Exit
  <2>1. \A j \in Job : Requested(j) => Requested(j)'
    BY <1>2, RequestedStays
  <2>2. ASSUME NEW j \in Job, jobs'[j].state = "cancelled"
        PROVE  Requested(j)
    <3>1. CASE Silent
      BY <2>2, <3>1 DEF Silent, RequestInv
    <3>2. ASSUME NEW i \in Job, \/ Creates(i) \/ Begins(i) \/ Progresses(i)
                                \/ Settles(i) \/ Interrupts(i)
          PROVE  Requested(j)
      <4>1. PICK s \in Snapshot : /\ jobs' = [jobs EXCEPT ![i] = s]
                                  /\ s.state = "cancelled" => verdict[i] = "cancelled"
        <5>1. jobs[i] \in Snapshot
          BY DEF IInv, TypeInv, StoreTypeOK
        <5>2. CASE Creates(i)
          <6>1. Queued \in Snapshot
            BY <5>1, SnapshotsStaySnapshots
          <6>2. Queued.state # "cancelled"
            BY DEF Queued
          <6>3. QED
            BY <5>2, <6>1, <6>2 DEF Creates
        <5>3. CASE Begins(i)
          BY <5>1, <5>3, SnapshotsStaySnapshots DEF Begins, Running, Snapshot
        <5>4. CASE Progresses(i)
          <6>1. [jobs[i] EXCEPT !.progress = TRUE] \in Snapshot
            BY <5>1, SnapshotsStaySnapshots
          <6>2. [jobs[i] EXCEPT !.progress = TRUE].state = jobs[i].state
            BY <5>1 DEF Snapshot
          <6>3. QED
            BY <5>4, <6>1, <6>2 DEF Progresses
        <5>5. ASSUME NEW v \in Terminal
              PROVE  Finished(jobs[i], v) \in Snapshot /\ Finished(jobs[i], v).state = v
          BY <5>1, SnapshotsStaySnapshots DEF Finished, Snapshot
        <5>6. CASE Settles(i)
          BY <5>5, <5>6 DEF Settles, Terminal
        <5>7. CASE Interrupts(i)
          BY <5>5, <5>7 DEF Interrupts, Terminal
        <5>8. QED
          BY <3>2, <5>2, <5>3, <5>4, <5>6, <5>7
      <4>2. CASE i = j
        BY <2>2, <4>1, <4>2 DEF RequestInv, IInv, TypeInv, StoreTypeOK
      <4>3. CASE i # j
        BY <2>2, <4>1, <4>3 DEF RequestInv, IInv, TypeInv, StoreTypeOK
      <4>4. QED
        BY <4>2, <4>3
    <3>3. QED
      BY <1>2, <3>1, <3>2, Effect
  <2>3. ASSUME NEW j \in Job, verdict'[j] = "cancelled"
        PROVE  Requested(j)
    BY <1>2, <2>3, CancelledVerdict DEF RequestInv
  <2>4. /\ \A j \in cancelled' : Requested(j)'
        /\ \A c \in Canceller : canceller'[c].pc = "call" => Requested(canceller[c].job)'
                                  /\ canceller'[c].job = canceller[c].job
    <3> USE DEF RequestInv, IInv, TypeInv, RegTypeOK, CancellerInv
    <3>1. CASE UNCHANGED <<cancelled, canceller>>
      BY <2>1, <3>1
    <3>2. ASSUME NEW k \in Canceller, NEW j \in Job, UNCHANGED cancelled,
                 canceller' = [canceller EXCEPT ![k] = [pc |-> "log", job |-> j]]
          PROVE  <2>4
      BY <2>1, <3>2
    <3>3. ASSUME NEW k \in Canceller, CancelLog(k)
          PROVE  <2>4
      <4>1. UNCHANGED cancelled /\ canceller[k].job \in Job
        BY <3>3 DEF CancelLog
      <4>2. CASE AppendEvent(canceller[k].job, "cancel_requested")
                   /\ canceller' = [canceller EXCEPT ![k].pc = "call"]
        <5>1. events[canceller[k].job] \in Seq(EventType)
          BY <4>1 DEF StoreTypeOK
        <5>2. events'[canceller[k].job]
                = Append(events[canceller[k].job], "cancel_requested")
          BY <4>1, <4>2 DEF AppendEvent, StoreTypeOK
        <5>3. /\ Len(events'[canceller[k].job]) \in 1..Len(events'[canceller[k].job])
              /\ events'[canceller[k].job][Len(events'[canceller[k].job])]
                   = "cancel_requested"
          BY <5>1, <5>2
        <5>4. Requested(canceller[k].job)'
          BY <4>2, <5>3 DEF Requested
        <5>5. QED
          BY <2>1, <4>1, <4>2, <5>4
      <4>3. CASE canceller' = [canceller EXCEPT ![k].pc = "idle"]
        BY <2>1, <4>1, <4>3
      <4>4. QED
        BY <3>3, <4>2, <4>3 DEF CancelLog
    <3>4. ASSUME NEW k \in Canceller, CancelCall(k)
          PROVE  <2>4
      BY <2>1, <3>4 DEF CancelCall
    <3>5. QED
      BY <1>2, <3>1, <3>2, <3>3, <3>4, CancelSteps
  <2>5. QED
    BY <2>1, <2>2, <2>3, <2>4 DEF RequestInv
<1>3. QED
  BY <1>1, <1>2

\* A job is stored as cancelled only after its stream shows the request.
THEOREM CancelledAsRequested == Spec => []CancelledWasRequested
<1>1. Init => RequestInv
  BY DEF Init, RequestInv, Absent
<1>2. RequestInv => CancelledWasRequested
  BY DEF RequestInv, CancelledWasRequested, Requested
<1>3. QED
  BY <1>1, <1>2, StepRequestInv, Invariance, StreamInvariance, PTL DEF Spec
-----------------------------------------------------------------------------
(***************************************************************************)
(* Who drives an unsettled job.  NoOrphan is not inductive: it does not    *)
(* say that a goroutine past its verdict leaves a settled job, nor that a  *)
(* recovery has listed every job nobody drives.                            *)
(***************************************************************************)

OrphanInv ==
  faults = 0 =>
    \A j \in Job : jobs[j].state \in Unsettled =>
      /\ server = "serving" =>
           startPc[j] \in {"created", "logged"} \/ runPc[j] \in Beginning \cup Working
      /\ server = "recovering" => listed[j] # Absent

\* A failed transaction is not forgotten.
LEMMA FaultsGrow ==
  ASSUME IInv, [Next]_vars, faults' = 0
  PROVE  faults = 0
<1> USE DEF IInv, TypeInv, StoreTypeOK, Put, AppendEvent, Get, StoreFails
<1>1. CASE \E j \in Job : StartStep(j) \/ RunStep(j)
  BY <1>1 DEF StartStep, StartCreate, StartLog, StartLaunch, RunStep, RunBegin,
       RunBeginPut, RunBeginLog, ReportEvent, ReportProgress, ReportProgressPut,
       ReportProgressLog, RunReturn, FinishGet, FinishPut, FinishLog, SignalForget,
       SignalClose
<1>2. CASE (\E c \in Canceller : CancelStep(c)) \/ (\E w \in Waiter : WaitStep(w))
  <2>1. faults' = faults \/ StoreFails
    BY <1>2 DEF CancelStep, CancelLookup, CancelLog, CancelCall, WaitStep, WaitLookup,
                WaitWake, WaitGiveUp, WaitFetch
  <2>2. QED
    BY <2>1
<1>3. CASE NewService \/ RecoverStep \/ CloseStore \/ Exit
  BY <1>3 DEF NewService, RecoverStep, RecoverPut, RecoverLog, RecoverDone,
              CloseStore, Exit
<1>4. QED
  BY <1>1, <1>2, <1>3 DEF Next, vars

\* While none fails, a transaction fails only on a closed store.
LEMMA NoFailure ==
  ASSUME IInv, StoreFails, faults' = 0
  PROVE  server \notin {"recovering", "serving"}
BY DEF StoreFails, StoreOpen, IInv, TypeInv, StoreTypeOK

\* A step of one goroutine leaves the other jobs, Start and the server alone.
LEMMA RunFrame ==
  ASSUME IInv, NEW j \in Job, RunStep(j)
  PROVE  /\ UNCHANGED <<startPc, server, listed, waiter>>
         /\ \A i \in Job : i # j => runPc'[i] = runPc[i] /\ jobs'[i] = jobs[i]
BY DEF RunStep, RunBegin, RunBeginPut, RunBeginLog, ReportEvent, ReportProgress,
       ReportProgressPut, ReportProgressLog, RunReturn, FinishGet, FinishPut,
       FinishLog, SignalForget, SignalClose, RunOnly, Goto, Put, AppendEvent, Get,
       StoreFails, IInv, TypeInv, StoreTypeOK, RunInv, RunTypeOK

\* The goroutine of j stays with its job until the outcome is stored.
LEMMA RunDrives ==
  ASSUME IInv, OrphanInv, NEW j \in Job, RunStep(j), server = "serving",
         faults = 0, faults' = 0, jobs'[j].state \in Unsettled
  PROVE  runPc'[j] \in Beginning \cup Working
<1> USE DEF Beginning, Working
<1>1. ~StoreFails
  BY NoFailure
<1>2. startPc[j] = "launched"
  BY DEF IInv, DriverInv, RunStep, RunBegin, RunBeginPut, RunBeginLog, ReportEvent,
         ReportProgress, ReportProgressPut, ReportProgressLog, RunReturn, FinishGet,
         FinishPut, FinishLog, SignalForget, SignalClose
<1>3. CASE RunBegin(j) \/ RunBeginPut(j) \/ RunBeginLog(j) \/ ReportEvent(j)
             \/ ReportProgress(j) \/ ReportProgressPut(j) \/ ReportProgressLog(j)
             \/ RunReturn(j) \/ FinishGet(j)
  BY <1>1, <1>3 DEF RunBegin, RunBeginPut, RunBeginLog, ReportEvent, ReportProgress,
       ReportProgressPut, ReportProgressLog, RunReturn, FinishGet, Goto, IInv, TypeInv,
       RunInv, RunTypeOK
<1>4. ~FinishPut(j)
  <2> SUFFICES ASSUME FinishPut(j) PROVE FALSE
    OBVIOUS
  <2>1. Put(j, Finished(snap[j], verdict[j])) /\ verdict[j] \in Verdicts
    BY <1>1 DEF FinishPut, IInv, TypeInv, RunInv, Storing
  <2>2. Finished(snap[j], verdict[j]).state = verdict[j]
    BY DEF Finished, IInv, TypeInv, RunInv, RunTypeOK, Snapshot
  <2>3. jobs'[j].state = verdict[j]
    BY <2>1, <2>2 DEF Put, IInv, TypeInv, StoreTypeOK
  <2>4. QED
    BY <2>1, <2>3, StatesDiffer DEF Terminal
<1>5. ~(FinishLog(j) \/ SignalForget(j) \/ SignalClose(j))
  BY <1>1, <1>2 DEF FinishLog, SignalForget, SignalClose, AppendEvent, OrphanInv
<1>6. QED
  BY <1>3, <1>4, <1>5 DEF RunStep

LEMMA StepOrphan ==
  ASSUME IInv, OrphanInv, [Next]_vars
  PROVE  OrphanInv'
<1> SUFFICES ASSUME faults' = 0, NEW j \in Job, jobs'[j].state \in Unsettled
             PROVE  /\ server' = "serving" =>
                         \/ startPc'[j] \in {"created", "logged"}
                         \/ runPc'[j] \in Beginning \cup Working
                    /\ server' = "recovering" => listed'[j] # Absent
  BY DEF OrphanInv
<1> DEFINE Goal == /\ server' = "serving" =>
                        \/ startPc'[j] \in {"created", "logged"}
                        \/ runPc'[j] \in Beginning \cup Working
                   /\ server' = "recovering" => listed'[j] # Absent
<1>1. faults = 0
  BY FaultsGrow
<1>2. ASSUME UNCHANGED <<jobs, server, startPc, runPc, listed>>
      PROVE  Goal
  BY <1>1, <1>2 DEF OrphanInv
<1>3. ASSUME NEW i \in Job, StartStep(i)
      PROVE  Goal
  <2> USE DEF IInv, TypeInv, StoreTypeOK, RunInv, RunTypeOK
  <2>1. server # "recovering" /\ UNCHANGED <<server, listed>>
    BY <1>3 DEF StartStep, StartCreate, StartLog, StartLaunch, DriverInv
  <2>2. CASE StartCreate(i)
    BY <1>1, <2>1, <2>2 DEF StartCreate, Put, OrphanInv
  <2>3. CASE StartLog(i)
    BY <1>1, <2>1, <2>3, NoFailure DEF StartLog, AppendEvent, StoreFails, OrphanInv
  <2>4. CASE StartLaunch(i)
    BY <1>1, <2>1, <2>4 DEF StartLaunch, OrphanInv, Beginning
  <2>5. QED
    BY <1>3, <2>2, <2>3, <2>4 DEF StartStep
<1>4. ASSUME NEW i \in Job, RunStep(i)
      PROVE  Goal
  <2>1. CASE i = j
    <3>1. server # "recovering"
      BY <1>4 DEF IInv, DriverInv, RunStep, RunBegin, RunBeginPut, RunBeginLog,
           ReportEvent, ReportProgress, ReportProgressPut, ReportProgressLog, RunReturn,
           FinishGet, FinishPut, FinishLog, SignalForget, SignalClose
    <3>2. QED
      BY <1>1, <1>4, <2>1, <3>1, RunFrame, RunDrives
  <2>2. CASE i # j
    BY <1>1, <1>4, <2>2, RunFrame DEF OrphanInv
  <2>3. QED
    BY <2>1, <2>2
<1>5. CASE (\E c \in Canceller : CancelStep(c)) \/ (\E w \in Waiter : WaitStep(w))
  BY <1>2, <1>5 DEF CancelStep, CancelLookup, CancelLog, CancelCall, WaitStep,
       WaitLookup, WaitWake, WaitGiveUp, WaitFetch, ClientOnly, AppendEvent, Get,
       StoreFails
<1>6. CASE NewService
  <2>1. Absent.state \notin Unsettled
    BY DEF Absent, Unsettled
  <2>2. /\ jobs' = jobs /\ server' = "recovering"
        /\ listed' = [i \in Job |-> IF Recoverable(jobs[i]) THEN jobs[i] ELSE Absent]
    BY <1>1, <1>6 DEF NewService
  <2>3. QED
    BY <2>1, <2>2 DEF Recoverable
<1>7. ASSUME NEW i \in Job, RecoverPut(i)
      PROVE  Goal
  <2>1. server = "recovering" /\ server' = "recovering"
    BY <1>7 DEF RecoverPut
  <2>2. Put(i, Finished(listed[i], "interrupted"))
    BY <1>7, <2>1, NoFailure DEF RecoverPut
  <2>3. Finished(listed[i], "interrupted").state = "interrupted"
    BY DEF Finished, IInv, TypeInv, ServerTypeOK, Snapshot
  <2>4. i # j
    BY <2>2, <2>3 DEF Put, Unsettled, IInv, TypeInv, StoreTypeOK
  <2>5. jobs'[j] = jobs[j] /\ listed'[j] = listed[j]
    BY <1>7, <2>2, <2>4 DEF Put, RecoverPut, IInv, TypeInv, StoreTypeOK, ServerTypeOK
  <2>6. QED
    BY <1>1, <2>1, <2>5 DEF OrphanInv
<1>8. CASE RecoverLog
  BY <1>2, <1>8 DEF RecoverLog, ServerOnly, AppendEvent, StoreFails
<1>9. CASE RecoverDone
  BY <1>1, <1>9 DEF RecoverDone, ServerOnly, OrphanInv
<1>10. CASE CloseStore \/ Exit
  BY <1>10 DEF CloseStore, Exit
<1>11. CASE UNCHANGED vars
  BY <1>2, <1>11 DEF vars
<1>12. QED
  BY <1>3, <1>4, <1>5, <1>6, <1>7, <1>8, <1>9, <1>10, <1>11 DEF Next, RecoverStep

LEMMA OrphanInvariance == Spec => []OrphanInv
<1>1. Init => OrphanInv
  BY DEF Init, OrphanInv, Absent, Unsettled
<1>2. QED
  BY <1>1, StepOrphan, Invariance, PTL DEF Spec

\* A job nobody drives is never left unsettled in a server that serves, over
\* every number of exits and recoveries in which the transactions succeed.
THEOREM NoJobIsOrphaned == Spec => []NoOrphan
<1>1. OrphanInv => NoOrphan
  BY DEF OrphanInv, NoOrphan, Beginning, Working
<1>2. QED
  BY <1>1, OrphanInvariance, PTL
-----------------------------------------------------------------------------
(***************************************************************************)
(* Wait.  The channel of a job is closed after its goroutine stored the    *)
(* outcome, and a job without a channel that Start is not about to         *)
(* register has one or had one; WaitSeesFinal says neither.                *)
(***************************************************************************)

RegisterInv ==
  \A j \in Job :
    /\ jobs[j] # Absent => jobs[j].state \in States
    /\ startPc[j] # "idle" => jobs[j] # Absent
    /\ startPc[j] = "launched" => j \in dones \/ runPc[j] \in {"close", "done"}
    /\ j \in dones => startPc[j] = "launched"
    /\ j \in closed => runPc[j] = "done"

WaitInv ==
  /\ server \in {"down", "recovering"} => \A w \in Waiter : waiter[w].pc = "idle"
  /\ \A w \in Waiter :
       faults = 0 /\ waiter[w].how # "early" =>
         /\ waiter[w].pc = "fetch" /\ server = "serving" =>
              jobs[waiter[w].job].state \in Terminal
         /\ waiter[w].pc = "returned" => waiter[w].got \in Terminal

\* A stored job has a state, and stays stored while its process runs.
LEMMA StepStored ==
  ASSUME IInv, RegisterInv, [Next]_vars, ~Exit, NEW j \in Job
  PROVE  /\ jobs[j] # Absent => jobs'[j] # Absent
         /\ jobs'[j] # Absent => jobs'[j].state \in States
         /\ startPc'[j] # "idle" => jobs'[j] # Absent
<1>1. jobs \in [Job -> Snapshot]
  BY DEF IInv, TypeInv, StoreTypeOK
<1>2. startPc'[j] # "idle" <=> j \in Owned'
  BY DEF Owned
<1>3. j \in Owned => jobs[j] # Absent
  BY DEF Owned, RegisterInv
<1>4. CASE Silent
  BY <1>2, <1>3, <1>4 DEF Silent, RegisterInv
<1>5. ASSUME NEW i \in Job, NEW s \in Snapshot, s.state \in States,
             jobs' = [jobs EXCEPT ![i] = s],
             Owned' = Owned \/ Owned' = Owned \cup {i}
      PROVE  /\ jobs[j] # Absent => jobs'[j] # Absent
             /\ jobs'[j] # Absent => jobs'[j].state \in States
             /\ startPc'[j] # "idle" => jobs'[j] # Absent
  <2>1. s # Absent
    BY <1>5 DEF Absent, States, Unsettled, Terminal, Verdicts
  <2>2. QED
    BY <1>1, <1>2, <1>3, <1>5, <2>1 DEF RegisterInv
<1>6. ASSUME NEW i \in Job, \/ Creates(i) \/ Begins(i) \/ Progresses(i)
                            \/ Settles(i) \/ Interrupts(i)
      PROVE  \E s \in Snapshot : /\ s.state \in States
                                 /\ jobs' = [jobs EXCEPT ![i] = s]
                                 /\ Owned' = Owned \/ Owned' = Owned \cup {i}
  <2>1. jobs[i] \in Snapshot
    BY <1>1
  <2>2. CASE Creates(i)
    <3>1. Queued \in Snapshot /\ Queued.state \in States
      BY <2>1, SnapshotsStaySnapshots DEF Queued, States, Unsettled
    <3>2. QED
      BY <2>2, <3>1 DEF Creates
  <2>3. CASE Begins(i)
    <3>1. Running(jobs[i]) \in Snapshot
      BY <2>1, SnapshotsStaySnapshots
    <3>2. Running(jobs[i]).state = "running"
      BY <2>1 DEF Running, Snapshot
    <3>3. QED
      BY <2>3, <3>1, <3>2 DEF Begins, States, Unsettled
  <2>4. CASE Progresses(i)
    <3>1. /\ [jobs[i] EXCEPT !.progress = TRUE] \in Snapshot
          /\ [jobs[i] EXCEPT !.progress = TRUE].state = "running"
      BY <2>1, <2>4, SnapshotsStaySnapshots DEF Progresses, Snapshot
    <3>2. QED
      BY <2>4, <3>1 DEF Progresses, States, Unsettled
  <2>5. ASSUME NEW v \in Terminal
        PROVE  Finished(jobs[i], v) \in Snapshot /\ Finished(jobs[i], v).state \in States
    <3>1. Finished(jobs[i], v) \in Snapshot
      BY <2>1, SnapshotsStaySnapshots
    <3>2. Finished(jobs[i], v).state = v
      BY <2>1 DEF Finished, Snapshot
    <3>3. QED
      BY <3>1, <3>2 DEF States
  <2>6. CASE Settles(i)
    BY <2>5, <2>6 DEF Settles, Terminal
  <2>7. CASE Interrupts(i)
    BY <2>5, <2>7 DEF Interrupts, Terminal
  <2>8. QED
    BY <1>6, <2>2, <2>3, <2>4, <2>6, <2>7
<1>7. QED
  BY <1>4, <1>5, <1>6, Effect

LEMMA StepRegister ==
  ASSUME IInv, RegisterInv, [Next]_vars
  PROVE  RegisterInv'
<1> USE DEF IInv, TypeInv, RunInv, RunTypeOK, RegTypeOK
<1>1. CASE Exit
  <2>1. /\ startPc' = [j \in Job |-> "idle"] /\ dones' = {} /\ closed' = {}
        /\ Persistent => UNCHANGED storeVars
        /\ ~Persistent => jobs' = [j \in Job |-> Absent]
    BY <1>1, Zenon DEF Exit
  <2>2. QED
    BY <2>1 DEF RegisterInv
<1>2. CASE ~Exit
  <2> SUFFICES ASSUME NEW j \in Job
               PROVE  /\ startPc'[j] = "launched" =>
                           j \in dones' \/ runPc'[j] \in {"close", "done"}
                      /\ j \in dones' => startPc'[j] = "launched"
                      /\ j \in closed' => runPc'[j] = "done"
    BY <1>2, StepStored DEF RegisterInv
  <2> DEFINE Goal == /\ startPc'[j] = "launched" =>
                          j \in dones' \/ runPc'[j] \in {"close", "done"}
                     /\ j \in dones' => startPc'[j] = "launched"
                     /\ j \in closed' => runPc'[j] = "done"
  <2>1. ASSUME UNCHANGED <<startPc, dones, closed, runPc>>
        PROVE  Goal
    BY <2>1 DEF RegisterInv
  <2>2. ASSUME NEW i \in Job, StartStep(i)
        PROVE  Goal
    <3>1. runPc[i] = "none" /\ startPc[i] # "launched"
      BY <2>2 DEF StartStep, StartCreate, StartLog, StartLaunch, DriverInv
    <3>2. QED
      BY <2>2, <3>1 DEF StartStep, StartCreate, StartLog, StartLaunch, RegisterInv
  <2>3. ASSUME NEW i \in Job, RunStep(i)
        PROVE  Goal
    <3>1. runPc[i] \notin {"none", "done"}
      BY <2>3 DEF RunStep, RunBegin, RunBeginPut, RunBeginLog, ReportEvent,
           ReportProgress, ReportProgressPut, ReportProgressLog, RunReturn, FinishGet,
           FinishPut, FinishLog, SignalForget, SignalClose
    <3>2. UNCHANGED startPc /\ \A k \in Job : k # i => runPc'[k] = runPc[k]
      BY <2>3, RunFrame
    <3>3. CASE SignalForget(i) \/ SignalClose(i)
      BY <3>1, <3>2, <3>3 DEF SignalForget, SignalClose, Goto, RegisterInv
    <3>4. CASE ~(SignalForget(i) \/ SignalClose(i))
      <4>1. UNCHANGED <<dones, closed>> /\ runPc[i] # "close"
        BY <2>3, <3>4 DEF RunStep, RunBegin, RunBeginPut, RunBeginLog, ReportEvent,
             ReportProgress, ReportProgressPut, ReportProgressLog, RunReturn,
             FinishGet, FinishPut, FinishLog, RunOnly
      <4>2. QED
        BY <3>1, <3>2, <4>1 DEF RegisterInv
    <3>5. QED
      BY <3>3, <3>4
  <2>4. CASE (\E c \in Canceller : CancelStep(c)) \/ (\E w \in Waiter : WaitStep(w))
    BY <2>1, <2>4 DEF CancelStep, CancelLookup, CancelLog, CancelCall, WaitStep,
         WaitLookup, WaitWake, WaitGiveUp, WaitFetch, ClientOnly
  <2>5. CASE NewService \/ RecoverStep \/ CloseStore
    BY <2>1, <2>5 DEF NewService, RecoverStep, RecoverPut, RecoverLog, RecoverDone,
                      CloseStore, ServerOnly
  <2>6. CASE UNCHANGED vars
    BY <2>1, <2>6 DEF vars
  <2>7. QED
    BY <1>2, <2>2, <2>3, <2>4, <2>5, <2>6 DEF Next
<1>3. QED
  BY <1>1, <1>2

\* A stored job that is not about to be registered, and one whose channel is
\* closed, has its outcome.
LEMMA SettledWhenFree ==
  ASSUME IInv, OrphanInv, RegisterInv, NEW j \in Job,
         server = "serving", faults = 0, jobs[j] # Absent,
         \/ j \in closed
         \/ j \notin dones /\ startPc[j] \notin {"created", "logged", "failed"}
  PROVE  jobs[j].state \in Terminal
<1>1. startPc[j] \in {"idle", "created", "logged", "launched", "failed"}
  BY DEF IInv, TypeInv, RunInv, RunTypeOK
<1>2. startPc[j] # "launched" => runPc[j] = "none"
  BY DEF IInv, DriverInv
<1>3. runPc[j] \in {"none", "close", "done"} /\ startPc[j] \notin {"created", "logged"}
  BY <1>1, <1>2 DEF RegisterInv
<1>4. jobs[j].state \notin Unsettled
  BY <1>3 DEF OrphanInv, Beginning, Working
<1>5. QED
  BY <1>4 DEF RegisterInv, States

\* Steps of others keep what a Wait relies on.
LEMMA OthersKeepWait ==
  ASSUME IInv, WaitInv, [Next]_vars, ~Exit, UNCHANGED waiter, faults' = 0 => faults = 0,
         /\ server' = "recovering" => server \in {"down", "recovering"}
         /\ server' = "serving" => server \in {"down", "recovering", "serving"}
         /\ server' = "down" => server = "down"
  PROVE  WaitInv'
<1>1. server' \in {"down", "recovering"} => \A w \in Waiter : waiter'[w].pc = "idle"
  BY DEF WaitInv
<1>2. ASSUME NEW w \in Waiter, faults' = 0, waiter[w].how # "early",
             waiter[w].pc = "fetch", server' = "serving"
      PROVE  jobs'[waiter[w].job].state \in Terminal
  <2>1. server = "serving"
    BY <1>2 DEF WaitInv
  <2>2. waiter[w].job \in Job /\ jobs[waiter[w].job].state \in Terminal
    BY <1>2, <2>1 DEF WaitInv, IInv, TypeInv, WaiterInv
  <2>3. QED
    BY <2>2, SettledStays
<1>3. QED
  BY <1>1, <1>2 DEF WaitInv

LEMMA StepWait ==
  ASSUME IInv, OrphanInv, RegisterInv, WaitInv, [Next]_vars
  PROVE  WaitInv'
<1>1. faults' = 0 => faults = 0
  BY FaultsGrow
<1>2. CASE Exit
  BY <1>2 DEF Exit, WaitInv
<1>3. ASSUME NEW w \in Waiter, WaitStep(w)
      PROVE  WaitInv'
  <2>1. /\ UNCHANGED <<jobs, server>>
        /\ \A v \in Waiter : v # w => waiter'[v] = waiter[v]
    BY <1>3 DEF WaitStep, WaitLookup, WaitWake, WaitGiveUp, WaitFetch, ClientOnly, Get,
         StoreFails, IInv, TypeInv, WaiterInv
  <2>2. server \notin {"down", "recovering"}
    BY <1>3 DEF WaitInv, WaitStep, WaitLookup, WaitWake, WaitGiveUp, WaitFetch
  <2>3. waiter[w] \in WaiterType /\ waiter \in [Waiter -> WaiterType]
    BY DEF IInv, TypeInv, WaiterInv
  <2>4. waiter[w].pc # "idle" => waiter[w].job \in Job
    BY DEF IInv, TypeInv, WaiterInv
  <2> DEFINE Goal == /\ waiter'[w].pc = "fetch" /\ server = "serving" =>
                          jobs[waiter'[w].job].state \in Terminal
                     /\ waiter'[w].pc = "returned" => waiter'[w].got \in Terminal
  <2>5. ASSUME faults' = 0, waiter'[w].how # "early"
        PROVE  Goal
    <3>1. ASSUME NEW j \in Job, WaitLookup(w, j)
          PROVE  Goal
      <4>1. waiter'[w] = [pc |-> IF j \in dones THEN "blocked" ELSE "fetch", job |-> j,
                          how |-> IF j \in dones THEN "channel"
                                  ELSE IF startPc[j] \in {"created", "logged", "failed"}
                                  THEN "early" ELSE "store",
                          got |-> "absent"]
        BY <2>3, <3>1 DEF WaitLookup
      <4>2. CASE j \in dones
        BY <4>1, <4>2
      <4>3. CASE j \notin dones
        <5>1. startPc[j] \notin {"created", "logged", "failed"}
          BY <2>5, <4>1, <4>3
        <5>2. jobs[j].state \in Terminal
          BY <1>1, <2>5, <3>1, <4>3, <5>1, SettledWhenFree DEF WaitLookup
        <5>3. QED
          BY <4>1, <4>3, <5>2
      <4>4. QED
        BY <4>2, <4>3
    <3>2. CASE WaitWake(w)
      <4>1. /\ waiter'[w].pc = "fetch" /\ waiter'[w].job = waiter[w].job
            /\ waiter[w].job \in Job /\ waiter[w].job \in closed
        BY <2>3, <2>4, <3>2 DEF WaitWake, WaiterType
      <4>2. jobs[waiter[w].job] # Absent
        BY <4>1 DEF RegisterInv, IInv, DriverInv
      <4>3. QED
        BY <1>1, <2>5, <4>1, <4>2, SettledWhenFree
    <3>3. CASE WaitGiveUp(w)
      BY <2>3, <3>3 DEF WaitGiveUp, WaiterType
    <3>4. CASE WaitFetch(w)
      <4> DEFINE got == jobs[waiter[w].job].state
      <4>1. CASE waiter' = [waiter EXCEPT ![w].pc = "idle"]
        BY <2>3, <4>1 DEF WaiterType
      <4>2. CASE StoreOpen /\ waiter' = [waiter EXCEPT ![w].pc = "returned", ![w].got = got]
        <5>1. waiter'[w] = [waiter[w] EXCEPT !.pc = "returned", !.got = got]
          BY <2>3, <4>2
        <5>2. /\ waiter'[w].pc = "returned" /\ waiter'[w].how = waiter[w].how
              /\ waiter'[w].got = got
          BY <2>3, <5>1 DEF WaiterType
        <5>3. got \in Terminal
          BY <1>1, <2>2, <2>5, <3>4, <4>2, <5>2 DEF WaitFetch, StoreOpen, WaitInv
        <5>4. QED
          BY <5>2, <5>3
      <4>3. QED
        BY <3>4, <4>1, <4>2 DEF WaitFetch, Get
    <3>5. QED
      BY <1>3, <3>1, <3>2, <3>3, <3>4 DEF WaitStep
  <2>6. QED
    BY <1>1, <2>1, <2>2, <2>5 DEF WaitInv
<1>4. CASE ~Exit /\ ~\E w \in Waiter : WaitStep(w)
  <2> DEFINE Phases == /\ UNCHANGED waiter
                       /\ server' = "recovering" => server \in {"down", "recovering"}
                       /\ server' = "serving" =>
                            server \in {"down", "recovering", "serving"}
                       /\ server' = "down" => server = "down"
  <2>1. ASSUME \E j \in Job : StartStep(j)
        PROVE  Phases
    BY <2>1 DEF StartStep, StartCreate, StartLog, StartLaunch
  <2>2. ASSUME \E j \in Job : RunStep(j)
        PROVE  Phases
    BY <2>2, RunFrame
  <2>3. ASSUME \E c \in Canceller : CancelStep(c)
        PROVE  Phases
    BY <2>3 DEF CancelStep, CancelLookup, CancelLog, CancelCall, ClientOnly
  <2>4. ASSUME NewService \/ RecoverStep \/ CloseStore \/ UNCHANGED vars
        PROVE  Phases
    BY <2>4 DEF NewService, RecoverStep, RecoverPut, RecoverLog, RecoverDone,
                CloseStore, ServerOnly, vars
  <2>5. Phases
    BY <1>4, <2>1, <2>2, <2>3, <2>4 DEF Next
  <2>6. QED
    BY <1>1, <1>4, <2>5, OthersKeepWait
<1>5. QED
  BY <1>2, <1>3, <1>4

\* A Wait returns an outcome, whatever interleaves with its lookup, its wake-up
\* and its read, and through every exit and recovery.
THEOREM WaitReturnsOutcome == Spec => []WaitSeesFinal
<1>1. Init => RegisterInv /\ WaitInv
  BY DEF Init, RegisterInv, WaitInv
<1>2. WaitInv => WaitSeesFinal
  BY DEF WaitInv, WaitSeesFinal
<1>3. QED
  BY <1>1, <1>2, StepRegister, StepWait, Invariance, OrphanInvariance, PTL DEF Spec
=============================================================================
