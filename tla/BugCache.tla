------------------------------ MODULE BugCache ------------------------------
(***************************************************************************)
(* The cache of a project's bug tasks                                      *)
(* (internal/adapter/secondary/bugcache): clients that update a task, look *)
(* a bug up afresh, synchronise or clear the cache, step by step, while    *)
(* people work on Launchpad.  A synchronisation after the first one asks   *)
(* Launchpad only for what was modified since 24 hours before the last.    *)
(* No search of Launchpad's returns the tasks of a duplicate.              *)
(*                                                                         *)
(* Time is abstracted to the set "recent" of the tasks the next such       *)
(* request would return.  No operation lasts 24 hours, so at the end of a  *)
(* synchronisation it has at least what was modified during an operation   *)
(* that is still under way; it is taken to have no more.                   *)
(* X_Bug is a faulty variant of X.                                         *)
(***************************************************************************)
EXTENDS Naturals, FiniteSets

CONSTANTS
  Task,     \* the tasks of the project
  Status,   \* their statuses
  Absent,   \* a task Launchpad, or the cache, does not have
  Client,   \* callers of the tracker; each makes one call after the other
  MaxEdits  \* bound: changes on Launchpad, in all

ASSUME CacheAssumption == Absent \notin Status /\ MaxEdits \in Nat

VARIABLES
  remote,      \* the tasks on Launchpad
  duplicates,  \* those of a bug marked as a duplicate
  cached,      \* the rows of the project's bucket
  synced,      \* it has a last_sync
  compatible,  \* its schema is the current one
  recent,      \* what was modified since 24 hours before last_sync
  pc,          \* the step each client is at
  full,        \* its synchronisation does not restrict the request
  wanted,      \* its request covers these, and what is modified from now on
  view,        \* the tasks it holds
  todo,        \* those it has not written
  touched,     \* history: tasks modified since its operation began
  edits,       \* history: changes so far
  lossy        \* history: the cache was cleared, or could not be read, under
               \* an incremental synchronisation

cacheVars == <<cached, synced, compatible>>
clientVars == <<pc, full, wanted, view, todo>>
vars == <<remote, duplicates, cacheVars, recent, clientVars, touched, edits, lossy>>

Nothing == [t \in Task |-> Absent]
Known(tasks) == {t \in Task : tasks[t] # Absent}
Busy == {p \in Client : pc[p] # "idle"}

Init ==
  /\ remote \in [Task -> Status \cup {Absent}] /\ duplicates = {}
  /\ \/ cached = Nothing /\ synced = FALSE /\ compatible = TRUE
     \/ cached \in [Task -> Status \cup {Absent}] /\ synced = TRUE /\ compatible = FALSE
  /\ recent = {}
  /\ pc = [p \in Client |-> "idle"] /\ full = [p \in Client |-> FALSE]
  /\ wanted = [p \in Client |-> {}] /\ todo = [p \in Client |-> {}]
  /\ view = [p \in Client |-> Nothing]
  /\ touched = [p \in Client |-> {}]
  /\ edits = 0 /\ lossy = FALSE

Goto(p, l) == pc' = [pc EXCEPT ![p] = l]

Return(p) ==
  /\ Goto(p, "idle")
  /\ full' = [full EXCEPT ![p] = FALSE]
  /\ wanted' = [wanted EXCEPT ![p] = {}] /\ todo' = [todo EXCEPT ![p] = {}]
  /\ view' = [view EXCEPT ![p] = Nothing]
  /\ touched' = [touched EXCEPT ![p] = {}]

-----------------------------------------------------------------------------
(***************************************************************************)
(* Changes on Launchpad, by people and by clients.                         *)
(***************************************************************************)
Modify(t) ==
  /\ edits < MaxEdits /\ edits' = edits + 1
  /\ recent' = recent \cup {t}

Touch(t) == touched' = [p \in Client |-> touched[p] \cup (IF p \in Busy THEN {t} ELSE {})]

Edit(t, s) ==
  /\ remote[t] # s /\ remote' = [remote EXCEPT ![t] = s]
  /\ Modify(t) /\ Touch(t)
  /\ UNCHANGED <<duplicates, cacheVars, clientVars, lossy>>

\* Its bug is marked as a duplicate, or is one no longer.
Mark(t) ==
  /\ remote[t] # Absent
  /\ duplicates' = IF t \in duplicates THEN duplicates \ {t} ELSE duplicates \cup {t}
  /\ Modify(t) /\ Touch(t)
  /\ UNCHANGED <<remote, cacheVars, clientVars, lossy>>

-----------------------------------------------------------------------------
(***************************************************************************)
(* UpdateBugTaskStatus: Launchpad first, then the row, if there are a      *)
(* last_sync and one.  (The two are looked for one after the other; when   *)
(* the cache is cleared in between there is no row.)                       *)
(***************************************************************************)
UpdateRemote(p, t, s) ==
  /\ pc[p] = "idle" /\ remote[t] # Absent
  /\ remote' = [remote EXCEPT ![t] = s] /\ Modify(t)
  /\ touched' = [q \in Client |->
                   touched[q] \cup (IF q \in Busy \cup {p} THEN {t} ELSE {})]
  /\ Goto(p, "find")
  /\ view' = [view EXCEPT ![p] = [Nothing EXCEPT ![t] = s]]
  /\ todo' = [todo EXCEPT ![p] = {t}]
  /\ UNCHANGED <<duplicates, cacheVars, full, wanted, lossy>>

FindRow(p) ==
  /\ pc[p] = "find"
  /\ IF synced /\ todo[p] \subseteq Known(cached)
        THEN Goto(p, "write") /\ UNCHANGED <<full, wanted, view, todo, touched>>
        ELSE Return(p)
  /\ UNCHANGED <<remote, duplicates, cacheVars, recent, edits, lossy>>

(***************************************************************************)
(* GetBugFresh: the bug of Launchpad, its tasks written to existing rows   *)
(* in a transaction each.                                                  *)
(***************************************************************************)
ReadFresh(p) ==
  /\ pc[p] = "idle"
  /\ Goto(p, "check")
  /\ view' = [view EXCEPT ![p] = remote]
  /\ todo' = [todo EXCEPT ![p] = Known(remote)]
  /\ UNCHANGED <<remote, duplicates, cacheVars, recent, full, wanted, touched, edits, lossy>>

IsSynced(p) ==
  /\ pc[p] = "check"
  /\ IF synced
        THEN Goto(p, "write") /\ UNCHANGED <<full, wanted, view, todo, touched>>
        ELSE Return(p)
  /\ UNCHANGED <<remote, duplicates, cacheVars, recent, edits, lossy>>

\* A row that cannot be written is logged and passed over.
UpdateTask(p, t) ==
  /\ pc[p] = "write" /\ t \in todo[p]
  /\ \/ cached' = IF cached[t] = Absent THEN cached ELSE [cached EXCEPT ![t] = view[p][t]]
     \/ UNCHANGED cached
  /\ todo' = [todo EXCEPT ![p] = @ \ {t}]
  /\ UNCHANGED <<remote, duplicates, synced, compatible, recent, pc, full, wanted, view,
                 touched, edits, lossy>>

Written(p) ==
  /\ pc[p] = "write" /\ todo[p] = {}
  /\ Return(p)
  /\ UNCHANGED <<remote, duplicates, cacheVars, recent, edits, lossy>>

-----------------------------------------------------------------------------
(***************************************************************************)
(* Sync: list, merge with the rows there are, replace the project.         *)
(***************************************************************************)
BeginSync(p) ==
  /\ pc[p] = "idle"
  /\ Goto(p, "list")
  /\ full' = [full EXCEPT ![p] = ~synced \/ ~compatible]
  /\ wanted' = [wanted EXCEPT ![p] = IF synced /\ compatible THEN recent ELSE Task]
  /\ UNCHANGED <<remote, duplicates, cacheVars, recent, view, todo, touched, edits, lossy>>

ListTasks(p) ==
  /\ pc[p] = "list"
  /\ view' = [view EXCEPT ![p] =
                [t \in Task |-> IF t \in (wanted[p] \cup touched[p]) \ duplicates
                                  THEN remote[t] ELSE Absent]]
  /\ Goto(p, IF full[p] THEN "replace" ELSE "merge")
  /\ UNCHANGED <<remote, duplicates, cacheVars, recent, full, wanted, todo, touched, edits, lossy>>

\* A request or a transaction fails, or the process ends: what a client has
\* not written by then it does not write.
Stop(p) ==
  /\ pc[p] # "idle"
  /\ Return(p)
  /\ UNCHANGED <<remote, duplicates, cacheVars, recent, edits, lossy>>

Merge(existing, incoming) ==
  [t \in Task |-> IF incoming[t] = Absent THEN existing[t] ELSE incoming[t]]

\* An error of reading the rows is dropped, and there seem to be none.
ReadExisting(p) ==
  /\ pc[p] = "merge"
  /\ \/ view' = [view EXCEPT ![p] = Merge(cached, @)] /\ UNCHANGED lossy
     \/ UNCHANGED view /\ lossy' = TRUE
  /\ Goto(p, "replace")
  /\ UNCHANGED <<remote, duplicates, cacheVars, recent, full, wanted, todo, touched, edits>>

Overlap_Bug == {}

\* What was modified within 24 hours before now.
Overlap == UNION {touched[p] : p \in Busy}

ReplaceProject(p) ==
  /\ pc[p] = "replace"
  /\ cached' = view[p] /\ synced' = TRUE /\ compatible' = TRUE
  /\ recent' = Overlap
  /\ Return(p)
  /\ UNCHANGED <<remote, duplicates, edits, lossy>>

\* cache clear: the rows and last_sync go, the schema stays.
Remove ==
  /\ cached' = Nothing /\ synced' = FALSE /\ recent' = {}
  /\ compatible' = TRUE
  /\ lossy' = (lossy \/ \E p \in Client : pc[p] \in {"list", "merge"} /\ ~full[p])
  /\ UNCHANGED <<remote, duplicates, clientVars, touched, edits>>

Step(p) ==
  \/ \E t \in Task, s \in Status : UpdateRemote(p, t, s)
  \/ FindRow(p) \/ ReadFresh(p) \/ IsSynced(p)
  \/ (\E t \in Task : UpdateTask(p, t)) \/ Written(p)
  \/ BeginSync(p) \/ ListTasks(p) \/ ReadExisting(p) \/ ReplaceProject(p) \/ Stop(p)

Next ==
  \/ \E t \in Task, s \in Status : Edit(t, s)
  \/ \E t \in Task : Mark(t)
  \/ \E p \in Client : Step(p)
  \/ Remove

Spec == Init /\ [][Next]_vars

-----------------------------------------------------------------------------
TypeOK ==
  /\ remote \in [Task -> Status \cup {Absent}] /\ cached \in [Task -> Status \cup {Absent}]
  /\ synced \in BOOLEAN /\ compatible \in BOOLEAN
  /\ recent \in SUBSET Task /\ duplicates \in SUBSET Task
  /\ pc \in [Client -> {"idle", "find", "check", "write", "list", "merge", "replace"}]
  /\ full \in [Client -> BOOLEAN]
  /\ wanted \in [Client -> SUBSET Task] /\ todo \in [Client -> SUBSET Task]
  /\ view \in [Client -> [Task -> Status \cup {Absent}]]
  /\ touched \in [Client -> SUBSET Task]
  /\ edits \in Nat /\ lossy \in BOOLEAN

\* Nothing is stale for good: a row that differs from Launchpad, or is missing,
\* is one the next synchronisation asks for, however clients' write-throughs,
\* lookups and synchronisations were interleaved, failed or ended half way.
\* Excepted are duplicates: no synchronisation sees them, and their rows stay.
NothingForgotten ==
  synced /\ compatible /\ ~lossy =>
    \A t \in Task : cached[t] # remote[t] => t \in recent \cup duplicates
=============================================================================
