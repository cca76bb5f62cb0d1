----------------------------- MODULE WorkerPool -----------------------------
(***************************************************************************)
(* The bounded worker pool of the build service                            *)
(* (internal/core/service/build/service.go): Trigger runs the action of    *)
(* each recipe in it, Cleanup deletes recipes and branches in it.  Items   *)
(* go to the workers over an unbuffered channel, results come back over a  *)
(* channel with room for all of them, and the context may be cancelled at  *)
(* any step.  What a worker does with an item is abstracted.               *)
(***************************************************************************)
EXTENDS Naturals, FiniteSets

CONSTANTS
  Worker,  \* the workers: min(defaultConcurrency, N), so often fewer than items
  N        \* number of items

ASSUME PoolAssumption ==
  /\ N \in Nat
  /\ IsFiniteSet(Worker)
  /\ Worker = {} => N = 0

Item == 1..N
NoItem == 0

VARIABLES
  cancelled,  \* the context is done
  next,       \* the item the dispatcher sends next
  caller,     \* where the function that owns the pool is
  worker,     \* worker[w]: where the worker is and the last item it took
  handled     \* the items a worker is done with

poolVars == <<cancelled, next, caller, worker, handled>>

PoolTypeOK ==
  /\ cancelled \in BOOLEAN
  /\ next \in 1..N + 1
  /\ caller \in {"check", "send", "wait", "returned"}
  /\ worker \in [Worker -> [pc : {"receive", "got", "busy", "exited"},
                            item : Item \cup {NoItem}]]
  /\ handled \in SUBSET Item

PoolInit ==
  /\ cancelled = FALSE
  /\ next = 1
  /\ caller = "check"
  /\ worker = [w \in Worker |-> [pc |-> "receive", item |-> NoItem]]
  /\ handled = {}

WorkerGoto(w, pc) == worker' = [worker EXCEPT ![w].pc = pc]

\* operation.Cancel, or the end of the request that runs the pool.
Cancel ==
  /\ ~cancelled
  /\ caller # "returned"
  /\ cancelled' = TRUE
  /\ UNCHANGED <<next, caller, worker, handled>>

\* The dispatch loop: it stops, and closes the channel of items, at its end or
\* when it finds the context done.  (X_Bug is a faulty variant of X.)
DispatchCheck_Bug ==
  /\ caller = "check"
  /\ caller' = IF cancelled \/ next >= N THEN "wait" ELSE "send"
  /\ UNCHANGED <<cancelled, next, worker, handled>>

DispatchCheck ==
  /\ caller = "check"
  /\ caller' = IF cancelled \/ next > N THEN "wait" ELSE "send"
  /\ UNCHANGED <<cancelled, next, worker, handled>>

\* The rendezvous of the dispatcher and a worker on the unbuffered channel.
Send(w) ==
  /\ caller = "send"
  /\ worker[w].pc = "receive"
  /\ worker' = [worker EXCEPT ![w] = [pc |-> "got", item |-> next]]
  /\ caller' = "check"
  /\ next' = next + 1
  /\ UNCHANGED <<cancelled, handled>>

\* A worker that finds the context done drops its item and ends.
WorkerCheck(w) ==
  /\ worker[w].pc = "got"
  /\ WorkerGoto(w, IF cancelled THEN "exited" ELSE "busy")
  /\ UNCHANGED <<cancelled, next, caller, handled>>

\* The result of an item, if it has one, fits the results channel.
WorkerFinish(w) ==
  /\ worker[w].pc = "busy"
  /\ WorkerGoto(w, "receive")
  /\ handled' = handled \cup {worker[w].item}
  /\ UNCHANGED <<cancelled, next, caller>>

\* The range over the closed channel of items ends.
WorkerExit_Bug(w) ==
  /\ cancelled \/ caller = "wait"
  /\ worker[w].pc = "receive"
  /\ WorkerGoto(w, "exited")
  /\ UNCHANGED <<cancelled, next, caller, handled>>

WorkerExit(w) ==
  /\ caller = "wait"
  /\ worker[w].pc = "receive"
  /\ WorkerGoto(w, "exited")
  /\ UNCHANGED <<cancelled, next, caller, handled>>

\* wg.Wait returns.  The faulty variant counts results instead.
Return_Bug ==
  /\ caller = "wait"
  /\ handled = Item
  /\ caller' = "returned"
  /\ UNCHANGED <<cancelled, next, worker, handled>>

Return ==
  /\ caller = "wait"
  /\ \A w \in Worker : worker[w].pc = "exited"
  /\ caller' = "returned"
  /\ UNCHANGED <<cancelled, next, worker, handled>>

WorkerStep(w) == WorkerCheck(w) \/ WorkerFinish(w) \/ WorkerExit(w)

PoolNext ==
  \/ Cancel
  \/ DispatchCheck \/ Return
  \/ \E w \in Worker : Send(w) \/ WorkerStep(w)

PoolSpec == PoolInit /\ [][PoolNext]_poolVars

\* Goroutines are scheduled, and what a worker does with an item ends.
PoolFairness ==
  /\ WF_poolVars(DispatchCheck) /\ WF_poolVars(Return)
  /\ WF_poolVars(\E w \in Worker : Send(w))
  /\ \A w \in Worker : WF_poolVars(WorkerStep(w))

FairPoolSpec == PoolSpec /\ PoolFairness

-----------------------------------------------------------------------------
\* The dispatcher waits for a receiver and every worker has ended.
Stranded == caller = "send" /\ \A w \in Worker : worker[w].pc = "exited"

\* A pool that was not cancelled returns only when every item is done with:
\* the close of the channel, the end of the ranges and wg.Wait lose none.
AllHandled == caller = "returned" /\ ~cancelled => handled = Item

\* What it takes to strand the dispatcher (service.go:336-339, 353-357): a
\* cancel, and each worker having dropped an item of its own because of it, so
\* as many items as there are workers, and one more that nobody receives.
StrandedByDrops ==
  Stranded =>
    /\ cancelled
    /\ \A w \in Worker : worker[w].item \in 1..next - 1 /\ worker[w].item \notin handled
    /\ \A v, w \in Worker : v # w => worker[v].item # worker[w].item

\* Nothing else keeps the pool from returning: wg.Wait returns, or the
\* dispatcher is stranded.
PoolSettles == <>(caller = "returned" \/ Stranded)

\* Trigger leaves out of its result what was "skipped due to context
\* cancellation" (service.go:372), and the deletes return what they deleted so
\* far, so the pool should return, cancelled or not.  The code does not keep
\* this: a cancelled pool may be Stranded.
PoolReturns == <>(caller = "returned")
=============================================================================
