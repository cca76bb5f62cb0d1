--------------------------- MODULE BugCacheProofs ---------------------------
(***************************************************************************)
(* Proofs about BugCache, for all tasks, statuses and clients: the type    *)
(* invariant, and that the cache forgets nothing.                          *)
(***************************************************************************)
EXTENDS BugCache, TLAPS

Tasks == [Task -> Status \cup {Absent}]

TypesOfCache ==
  /\ remote \in Tasks /\ cached \in Tasks
  /\ synced \in BOOLEAN /\ compatible \in BOOLEAN
  /\ recent \in SUBSET Task /\ duplicates \in SUBSET Task
  /\ edits \in Nat /\ lossy \in BOOLEAN

TypesOfClients ==
  /\ pc \in [Client -> {"idle", "find", "check", "write", "list", "merge", "replace"}]
  /\ full \in [Client -> BOOLEAN]
  /\ wanted \in [Client -> SUBSET Task] /\ todo \in [Client -> SUBSET Task]
  /\ view \in [Client -> Tasks]
  /\ touched \in [Client -> SUBSET Task]

\* What p holds of t is of Launchpad, or t was modified since p began, or no
\* search returns it.
Fresh(p, t) == view[p][t] = remote[t] \/ t \in touched[p] \cup duplicates

\* An incremental synchronisation asked for all that is in "recent", unless
\* it was modified since, and goes on with the cache it began with.
Asked(p) ==
  /\ wanted[p] \subseteq Known(remote)
  /\ ~lossy => /\ synced /\ compatible
               /\ recent \subseteq wanted[p] \cup touched[p]

\* What a client holds at each of its steps.
ClientInv(p) ==
  /\ pc[p] = "idle" => touched[p] = {}
  /\ pc[p] \in {"find", "check", "write"} => \A t \in todo[p] : Fresh(p, t)
  /\ pc[p] \in {"list", "merge"} /\ ~full[p] => Asked(p)
  /\ pc[p] = "list" /\ full[p] => wanted[p] = Task
  /\ pc[p] = "merge" =>
       /\ ~full[p]
       /\ \A t \in Task \ touched[p] :
            view[p][t] = IF t \in wanted[p] \ duplicates THEN remote[t] ELSE Absent
  /\ pc[p] = "replace" /\ (full[p] \/ ~lossy) => \A t \in Task : Fresh(p, t)

\* What was modified under an operation is what the next request returns.
Remembered ==
  /\ recent \subseteq Known(remote)
  /\ \A p \in Client : touched[p] \subseteq Known(remote)
  /\ synced => \A p \in Client : touched[p] \subseteq recent

IInv ==
  /\ TypesOfCache /\ TypesOfClients
  /\ Remembered
  /\ \A p \in Client : ClientInv(p)
  /\ NothingForgotten

\* A client that returns, and holds nothing any more.
LEMMA ReturnType ==
  ASSUME TypesOfClients, NEW p \in Client, Return(p)
  PROVE  TypesOfClients'
BY DEF TypesOfClients, Tasks, Return, Goto, Nothing

\* Every step preserves the types.
LEMMA TypeStep ==
  ASSUME TypesOfCache, TypesOfClients, [Next]_vars
  PROVE  TypesOfCache' /\ TypesOfClients'
<1> USE CacheAssumption DEF CacheAssumption, TypesOfCache, TypesOfClients, Tasks
<1>1. ASSUME NEW p \in Client, NEW t \in Task, NEW s \in Status, UpdateRemote(p, t, s)
      PROVE  TypesOfCache' /\ TypesOfClients'
  BY <1>1 DEF UpdateRemote, Modify, Goto, clientVars, cacheVars, Nothing, Known
<1>2. ASSUME NEW p \in Client, FindRow(p)
      PROVE  TypesOfCache' /\ TypesOfClients'
  <2>1. TypesOfCache'
    BY <1>2 DEF FindRow, cacheVars
  <2>2. TypesOfClients'
    BY <1>2, ReturnType DEF FindRow, Goto
  <2> QED
    BY <2>1, <2>2
<1>3. ASSUME NEW p \in Client, ReadFresh(p)
      PROVE  TypesOfCache' /\ TypesOfClients'
  BY <1>3 DEF ReadFresh, Goto, cacheVars, Known, Nothing
<1>4. ASSUME NEW p \in Client, NEW t \in Task, UpdateTask(p, t)
      PROVE  TypesOfCache' /\ TypesOfClients'
  BY <1>4 DEF UpdateTask, Nothing, Known
<1>5. ASSUME NEW p \in Client, Written(p)
      PROVE  TypesOfCache' /\ TypesOfClients'
  BY <1>5, ReturnType DEF Written, cacheVars
<1>6. ASSUME NEW p \in Client, BeginSync(p)
      PROVE  TypesOfCache' /\ TypesOfClients'
  BY <1>6 DEF BeginSync, Goto, cacheVars, Nothing, Known
<1>7. ASSUME NEW p \in Client, ListTasks(p)
      PROVE  TypesOfCache' /\ TypesOfClients'
  BY <1>7 DEF ListTasks, Goto, cacheVars, Nothing, Known
<1>8. ASSUME NEW p \in Client, Stop(p)
      PROVE  TypesOfCache' /\ TypesOfClients'
  BY <1>8, ReturnType DEF Stop, cacheVars
<1>9. ASSUME NEW p \in Client, ReadExisting(p)
      PROVE  TypesOfCache' /\ TypesOfClients'
  <2>1. view' \in [Client -> Tasks]
    <3>1. CASE view' = [view EXCEPT ![p] = Merge(cached, @)]
      <4>1. Merge(cached, view[p]) \in Tasks
        BY DEF Merge
      <4> QED
        BY <3>1, <4>1
    <3>2. CASE UNCHANGED view
      BY <3>2
    <3> QED
      BY <1>9, <3>1, <3>2 DEF ReadExisting
  <2> QED
    BY <1>9, <2>1 DEF ReadExisting, Goto, cacheVars
<1>10. ASSUME NEW p \in Client, ReplaceProject(p)
      PROVE  TypesOfCache' /\ TypesOfClients'
  <2>1. TypesOfCache'
    BY <1>10 DEF ReplaceProject, Overlap, Busy
  <2>2. TypesOfClients'
    BY <1>10, ReturnType DEF ReplaceProject
  <2> QED
    BY <2>1, <2>2
<1>11. ASSUME NEW t \in Task, NEW s \in Status, Edit(t, s)
      PROVE  TypesOfCache' /\ TypesOfClients'
  BY <1>11 DEF Edit, Modify, Touch, Busy, cacheVars, clientVars, Nothing, Known
<1>12. ASSUME Remove
      PROVE  TypesOfCache' /\ TypesOfClients'
  BY <1>12 DEF Remove, clientVars, Nothing, Known
<1>13. ASSUME NEW t \in Task, Mark(t)
      PROVE  TypesOfCache' /\ TypesOfClients'
  BY <1>13 DEF Mark, Modify, Touch, Busy, cacheVars, clientVars, Nothing, Known
<1>14. ASSUME NEW p \in Client, IsSynced(p)
      PROVE  TypesOfCache' /\ TypesOfClients'
  <2>1. TypesOfCache'
    BY <1>14 DEF IsSynced, cacheVars
  <2>2. TypesOfClients'
    BY <1>14, ReturnType DEF IsSynced, Goto
  <2> QED
    BY <2>1, <2>2
<1>15. CASE UNCHANGED vars
  BY <1>15 DEF vars, cacheVars, clientVars
<1> QED
  BY <1>1, <1>2, <1>3, <1>4, <1>5, <1>6, <1>7, <1>8, <1>9, <1>10, <1>11, <1>12, <1>13, <1>14, <1>15 DEF Next, Step

\* Every step keeps what the clients hold fresh, and the cache with it.
LEMMA InvStep ==
  ASSUME IInv, [Next]_vars, TypesOfCache', TypesOfClients'
  PROVE  IInv'
<1> USE CacheAssumption DEF CacheAssumption, TypesOfCache, TypesOfClients, Tasks
<1> DEFINE Goal == Remembered' /\ (\A q \in Client : ClientInv(q)') /\ NothingForgotten'
<1>1. ASSUME NEW p \in Client, NEW t \in Task, NEW s \in Status, UpdateRemote(p, t, s)
      PROVE  Goal
  <2>1. Remembered'
    BY <1>1 DEF UpdateRemote, Modify, Goto, clientVars, cacheVars, Nothing, IInv, Remembered, Known
  <2>2. ASSUME NEW q \in Client
        PROVE  ClientInv(q)'
    <3>1. CASE q = p
      BY <1>1, <3>1 DEF UpdateRemote, Modify, Goto, clientVars, cacheVars, Nothing, IInv, Remembered, ClientInv, Fresh, Asked, Known, NothingForgotten
    <3>2. CASE q # p
      <4>1. /\ pc'[q] = pc[q] /\ full'[q] = full[q] /\ wanted'[q] = wanted[q]
            /\ todo'[q] = todo[q] /\ view'[q] = view[q]
        BY <1>1, <3>2 DEF UpdateRemote, Goto
      <4>2. /\ touched'[q] = touched[q] \cup (IF q \in Busy THEN {t} ELSE {})
            /\ recent' = recent \cup {t} /\ remote' = [remote EXCEPT ![t] = s]
            /\ UNCHANGED <<duplicates, synced, compatible, lossy>>
        BY <1>1, <3>2 DEF UpdateRemote, Modify, cacheVars
      <4>3. ClientInv(q) /\ Remembered
        BY DEF IInv
      <4> QED
        BY <4>1, <4>2, <4>3 DEF ClientInv, Fresh, Asked, Known, Remembered, Busy
    <3> QED
      BY <3>1, <3>2
  <2>3. NothingForgotten'
    BY <1>1 DEF UpdateRemote, Modify, Goto, clientVars, cacheVars, Nothing, IInv, Remembered, NothingForgotten, ClientInv, Fresh
  <2> QED
    BY <2>1, <2>2, <2>3
<1>2. ASSUME NEW p \in Client, FindRow(p)
      PROVE  Goal
  <2>1. Remembered'
    <3>1. touched' = touched \/ touched' = [touched EXCEPT ![p] = {}]
      BY <1>2 DEF FindRow, Return
    <3>2. UNCHANGED <<remote, recent, synced>>
      BY <1>2 DEF FindRow, cacheVars
    <3>3. \A q \in Client : touched'[q] \subseteq touched[q]
      BY <3>1
    <3> QED
      BY <3>2, <3>3 DEF IInv, Remembered, Known
  <2>2. ASSUME NEW q \in Client
        PROVE  ClientInv(q)'
    <3>1. CASE q = p
      BY <1>2, <3>1 DEF FindRow, Goto, Return, cacheVars, IInv, Remembered, ClientInv, Fresh, Asked, Known, NothingForgotten
    <3>2. CASE q # p
      BY <1>2, <2>2, <3>2 DEF FindRow, Goto, Return, cacheVars, IInv, Remembered, ClientInv, Fresh, Asked, Known, NothingForgotten
    <3> QED
      BY <3>1, <3>2
  <2>3. NothingForgotten'
    BY <1>2 DEF FindRow, Goto, Return, cacheVars, IInv, Remembered, NothingForgotten, ClientInv, Fresh
  <2> QED
    BY <2>1, <2>2, <2>3
<1>3. ASSUME NEW p \in Client, ReadFresh(p)
      PROVE  Goal
  <2>1. Remembered'
    BY <1>3 DEF ReadFresh, Goto, cacheVars, IInv, Remembered, Known
  <2>2. ASSUME NEW q \in Client
        PROVE  ClientInv(q)'
    BY <1>3, <2>2 DEF ReadFresh, Goto, cacheVars, IInv, Remembered, ClientInv, Fresh, Asked, Known, NothingForgotten
  <2>3. NothingForgotten'
    BY <1>3 DEF ReadFresh, Goto, cacheVars, IInv, Remembered, NothingForgotten, ClientInv, Fresh
  <2> QED
    BY <2>1, <2>2, <2>3
<1>4. ASSUME NEW p \in Client, NEW t \in Task, UpdateTask(p, t)
      PROVE  Goal
  <2>1. Remembered'
    BY <1>4 DEF UpdateTask, IInv, Remembered, Known
  <2>2. ASSUME NEW q \in Client
        PROVE  ClientInv(q)'
    BY <1>4, <2>2 DEF UpdateTask, IInv, Remembered, ClientInv, Fresh, Asked, Known, NothingForgotten
  <2>3. NothingForgotten'
    BY <1>4 DEF UpdateTask, IInv, Remembered, NothingForgotten, ClientInv, Fresh
  <2> QED
    BY <2>1, <2>2, <2>3
<1>5. ASSUME NEW p \in Client, Written(p)
      PROVE  Goal
  <2>1. Remembered'
    BY <1>5 DEF Written, Goto, Return, cacheVars, IInv, Remembered, Known
  <2>2. ASSUME NEW q \in Client
        PROVE  ClientInv(q)'
    BY <1>5, <2>2 DEF Written, Goto, Return, cacheVars, IInv, Remembered, ClientInv, Fresh, Asked, Known, NothingForgotten
  <2>3. NothingForgotten'
    BY <1>5 DEF Written, Goto, Return, cacheVars, IInv, Remembered, NothingForgotten, ClientInv, Fresh
  <2> QED
    BY <2>1, <2>2, <2>3
<1>6. ASSUME NEW p \in Client, BeginSync(p)
      PROVE  Goal
  <2>1. Remembered'
    BY <1>6 DEF BeginSync, Goto, cacheVars, IInv, Remembered, Known
  <2>2. ASSUME NEW q \in Client
        PROVE  ClientInv(q)'
    BY <1>6, <2>2 DEF BeginSync, Goto, cacheVars, IInv, Remembered, ClientInv, Fresh, Asked, Known, NothingForgotten
  <2>3. NothingForgotten'
    BY <1>6 DEF BeginSync, Goto, cacheVars, IInv, Remembered, NothingForgotten, ClientInv, Fresh
  <2> QED
    BY <2>1, <2>2, <2>3
<1>7. ASSUME NEW p \in Client, ListTasks(p)
      PROVE  Goal
  <2>1. Remembered'
    BY <1>7 DEF ListTasks, Goto, cacheVars, IInv, Remembered, Known
  <2>2. ASSUME NEW q \in Client
        PROVE  ClientInv(q)'
    BY <1>7, <2>2 DEF ListTasks, Goto, cacheVars, IInv, Remembered, ClientInv, Fresh, Asked, Known, NothingForgotten
  <2>3. NothingForgotten'
    BY <1>7 DEF ListTasks, Goto, cacheVars, IInv, Remembered, NothingForgotten, ClientInv, Fresh
  <2> QED
    BY <2>1, <2>2, <2>3
<1>8. ASSUME NEW p \in Client, Stop(p)
      PROVE  Goal
  <2>1. Remembered'
    BY <1>8 DEF Stop, Goto, Return, cacheVars, IInv, Remembered, Known
  <2>2. ASSUME NEW q \in Client
        PROVE  ClientInv(q)'
    BY <1>8, <2>2 DEF Stop, Goto, Return, cacheVars, IInv, Remembered, ClientInv, Fresh, Asked, Known, NothingForgotten
  <2>3. NothingForgotten'
    BY <1>8 DEF Stop, Goto, Return, cacheVars, IInv, Remembered, NothingForgotten, ClientInv, Fresh
  <2> QED
    BY <2>1, <2>2, <2>3
<1>9. ASSUME NEW p \in Client, ReadExisting(p)
      PROVE  Goal
  <2>1. Remembered'
    BY <1>9 DEF ReadExisting, Goto, Merge, cacheVars, IInv, Remembered, Known
  <2>2. ASSUME NEW q \in Client
        PROVE  ClientInv(q)'
    BY <1>9, <2>2 DEF ReadExisting, Goto, Merge, cacheVars, IInv, Remembered, ClientInv, Fresh, Asked, Known, NothingForgotten
  <2>3. NothingForgotten'
    BY <1>9 DEF ReadExisting, Goto, Merge, cacheVars, IInv, Remembered, NothingForgotten, ClientInv, Fresh
  <2> QED
    BY <2>1, <2>2, <2>3
<1>10. ASSUME NEW p \in Client, ReplaceProject(p)
      PROVE  Goal
  <2>1. Remembered'
    <3>1. \A q \in Client : touched[q] \subseteq Overlap
      BY DEF Overlap, Busy, IInv, ClientInv
    <3>2. Overlap \subseteq Known(remote)
      BY DEF Overlap, Busy, IInv, Remembered
    <3> QED
      BY <1>10, <3>1, <3>2 DEF ReplaceProject, Goto, Return, IInv, Remembered, Known
  <2>2. ASSUME NEW q \in Client
        PROVE  ClientInv(q)'
    <3>1. CASE q = p
      BY <1>10, <3>1 DEF ReplaceProject, Goto, Return, Overlap, Busy, IInv, Remembered, ClientInv, Fresh, Asked, Known, NothingForgotten
    <3>2. CASE q # p
      BY <1>10, <2>2, <3>2 DEF ReplaceProject, Goto, Return, Overlap, Busy, IInv, Remembered, ClientInv, Fresh, Asked, Known, NothingForgotten
    <3> QED
      BY <3>1, <3>2
  <2>3. NothingForgotten'
    BY <1>10 DEF ReplaceProject, Goto, Return, Overlap, Busy, IInv, Remembered, NothingForgotten, ClientInv, Fresh
  <2> QED
    BY <2>1, <2>2, <2>3
<1>11. ASSUME NEW t \in Task, NEW s \in Status, Edit(t, s)
      PROVE  Goal
  <2>1. Remembered'
    BY <1>11 DEF Edit, Modify, Touch, Busy, cacheVars, clientVars, IInv, Remembered, Known
  <2>2. ASSUME NEW q \in Client
        PROVE  ClientInv(q)'
    BY <1>11, <2>2 DEF Edit, Modify, Touch, Busy, cacheVars, clientVars, IInv, Remembered, ClientInv, Fresh, Asked, Known, NothingForgotten
  <2>3. NothingForgotten'
    BY <1>11 DEF Edit, Modify, Touch, Busy, cacheVars, clientVars, IInv, Remembered, NothingForgotten, ClientInv, Fresh
  <2> QED
    BY <2>1, <2>2, <2>3
<1>12. ASSUME Remove
      PROVE  Goal
  <2>1. Remembered'
    BY <1>12 DEF Remove, clientVars, Nothing, IInv, Remembered, Known
  <2>2. ASSUME NEW q \in Client
        PROVE  ClientInv(q)'
    BY <1>12, <2>2 DEF Remove, clientVars, Nothing, IInv, Remembered, ClientInv, Fresh, Asked, Known, NothingForgotten
  <2>3. NothingForgotten'
    BY <1>12 DEF Remove, clientVars, Nothing, IInv, Remembered, NothingForgotten, ClientInv, Fresh
  <2> QED
    BY <2>1, <2>2, <2>3
<1>13. ASSUME NEW t \in Task, Mark(t)
      PROVE  Goal
  <2>1. Remembered'
    BY <1>13 DEF Mark, Modify, Touch, Busy, cacheVars, clientVars, IInv, Remembered, Known
  <2>2. ASSUME NEW q \in Client
        PROVE  ClientInv(q)'
    BY <1>13, <2>2 DEF Mark, Modify, Touch, Busy, cacheVars, clientVars, IInv, Remembered, ClientInv, Fresh, Asked, Known, NothingForgotten
  <2>3. NothingForgotten'
    BY <1>13 DEF Mark, Modify, Touch, Busy, cacheVars, clientVars, IInv, Remembered, NothingForgotten, ClientInv, Fresh
  <2> QED
    BY <2>1, <2>2, <2>3
<1>14. ASSUME NEW p \in Client, IsSynced(p)
      PROVE  Goal
  <2>1. Remembered'
    <3>1. touched' = touched \/ touched' = [touched EXCEPT ![p] = {}]
      BY <1>14 DEF IsSynced, Return
    <3>2. UNCHANGED <<remote, recent, synced>>
      BY <1>14 DEF IsSynced, cacheVars
    <3>3. \A q \in Client : touched'[q] \subseteq touched[q]
      BY <3>1
    <3> QED
      BY <3>2, <3>3 DEF IInv, Remembered, Known
  <2>2. ASSUME NEW q \in Client
        PROVE  ClientInv(q)'
    <3>1. CASE q = p
      BY <1>14, <3>1 DEF IsSynced, Goto, Return, cacheVars, IInv, Remembered, ClientInv, Fresh, Asked, Known, NothingForgotten
    <3>2. CASE q # p
      BY <1>14, <2>2, <3>2 DEF IsSynced, Goto, Return, cacheVars, IInv, Remembered, ClientInv, Fresh, Asked, Known, NothingForgotten
    <3> QED
      BY <3>1, <3>2
  <2>3. NothingForgotten'
    BY <1>14 DEF IsSynced, Goto, Return, cacheVars, IInv, Remembered, NothingForgotten, ClientInv, Fresh
  <2> QED
    BY <2>1, <2>2, <2>3
<1>15. CASE UNCHANGED vars
  BY <1>15 DEF vars, cacheVars, clientVars, IInv, Remembered, ClientInv, Fresh, Asked, Known, NothingForgotten
<1> QED
  BY <1>1, <1>2, <1>3, <1>4, <1>5, <1>6, <1>7, <1>8, <1>9, <1>10, <1>11, <1>12, <1>13, <1>14, <1>15 DEF Next, Step, IInv

\* The initial states satisfy it.
LEMMA InvInit ==
  ASSUME Init
  PROVE  IInv
<1>1. TypesOfCache /\ TypesOfClients
  BY CacheAssumption DEF CacheAssumption, Init, Nothing, Tasks, TypesOfCache, TypesOfClients
<1>2. Remembered /\ NothingForgotten
  BY DEF Init, Remembered, NothingForgotten
<1>3. \A p \in Client : ClientInv(p)
  BY DEF Init, ClientInv
<1> QED
  BY <1>1, <1>2, <1>3 DEF IInv

\* The inductive invariant holds in every behaviour.
LEMMA Invariance == Spec => []IInv
<1>1. IInv /\ [Next]_vars => IInv'
  BY TypeStep, InvStep DEF IInv
<1> QED
  BY <1>1, InvInit, PTL DEF Spec

\* The rows of the cache, and what the clients hold, are of their types.
THEOREM Types == Spec => []TypeOK
<1>1. IInv => TypeOK
  BY DEF IInv, TypesOfCache, TypesOfClients, Tasks, TypeOK
<1> QED
  BY <1>1, Invariance, PTL

\* Of any number of tasks and clients, a row that is stale or missing is one
\* the next synchronisation asks for.
THEOREM Forgets == Spec => []NothingForgotten
<1>1. IInv => NothingForgotten
  BY DEF IInv
<1> QED
  BY <1>1, Invariance, PTL
=============================================================================
