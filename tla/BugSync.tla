------------------------------- MODULE BugSync -------------------------------
(***************************************************************************)
(* bug sync (internal/core/service/bugsync/service.go) for one bug: from   *)
(* the commits of the source projects that refer to it, and the revisions  *)
(* released to the stable channels, it adds the tasks the bug lacks on     *)
(* Launchpad and raises the status of those it has.  Several runs, of all  *)
(* or some of the projects, and people change the tasks between any two    *)
(* requests.  X_Bug is a faulty variant of X.                              *)
(*                                                                         *)
(* A run collects its evidence anew: another run may have had other        *)
(* commits, branches and revisions before it, or has them at the same      *)
(* time.  A project whose branches cannot be listed is one without commits *)
(* and stable branches.  The configured development focus of a Launchpad   *)
(* project is taken to be the one Launchpad has.                           *)
(***************************************************************************)
EXTENDS Naturals, FiniteSets, FiniteSetsExt

CONSTANTS
  Project,    \* source projects
  LP,         \* Launchpad projects
  LPOf,       \* lpProjectMap: the Launchpad projects of a source project
  Series,     \* the series, in the order of their numbers
  Stable,     \* those that have a stable branch
  Supported,  \* configuredSeries of a Launchpad project
  Focus,      \* the series in development of a Launchpad project
  OnLP,       \* tasks of series that Launchpad has
  Commit,     \* commits that refer to the bug
  ProjectOf,  \* the source project of a commit
  KindOf,     \* how it refers to the bug: Closes-Bug, Partial-Bug or Related-Bug
  Evidence,   \* bound: what a run may collect.  on: the branches a commit is on;
              \* read: the stable branches of a project whose commits could be
              \* listed; tags: whether the tags of a project's stable revisions
              \* contain a closing commit, if the tags were read
  Found,      \* bound: the tasks the bug may have before the runs
  Scope,      \* what a run may be about: the projects, and whether they and
              \* the bug were named, which declares them affected
  Run,        \* runs of bug sync
  MaxEvents   \* bound: changes people make to the tasks, and failing requests

main == 0   \* also: no series
Branch == {main} \cup Stable
Reference == {"Closes", "Partial", "Related"}
Task == LP \X ({main} \cup Series)
Absent == "absent"
Status == {"New", "In Progress", "Fix Committed", "Fix Released"}

\* Tags are only read for a series whose stable branch has a commit that counts.
Collected ==
  {e \in [on : [Commit -> SUBSET Branch], read : [Project -> SUBSET Stable],
          tags : [Project \X Series -> SUBSET BOOLEAN]] :
     \A x \in Project \X Series : e.tags[x] # {} => x[2] \in e.read[x[1]]}

ASSUME SyncAssumption ==
  /\ Series \subseteq Nat \ {0} /\ IsFiniteSet(Series) /\ Stable \subseteq Series
  /\ LPOf \in [Project -> (SUBSET LP) \ {{}}]
  /\ Supported \in [LP -> (SUBSET Series) \ {{}}] /\ Focus \in [LP -> Series]
  /\ OnLP \subseteq Task
  /\ ProjectOf \in [Commit -> Project] /\ KindOf \in [Commit -> Reference]
  /\ Evidence \subseteq Collected
  /\ Found \subseteq [Task -> Status \cup {Absent}]
  /\ Scope \subseteq (SUBSET Project) \X BOOLEAN
  /\ MaxEvents \in Nat

VARIABLES
  remote,   \* the tasks of the bug on Launchpad
  pc,       \* the phase of each run
  scope,    \* its projects
  named,    \* they are declared affected
  seen,     \* the evidence it collected
  todo,     \* what it still has to handle in this phase, by the tasks it fetched
  done,     \* the actions of its result
  errors,   \* it reports an error
  first,    \* history: the tasks it fetched first
  quiet,    \* history: a request failed that it does not report
  alone,    \* history: nobody else has changed the tasks under it
  crossed,  \* history: tasks changed, since it fetched those it updates, by people
            \* or by a run with another scope or other evidence
  edits,    \* history: changes of people
  faults    \* history: failing requests

runVars == <<pc, scope, named, seen, todo, done, errors, first, quiet>>
vars == <<remote, runVars, alone, crossed, edits, faults>>

-----------------------------------------------------------------------------
(***************************************************************************)
(* The evidence.  Commits that the development branch shares with the      *)
(* oldest supported branch are too old to count, and on a stable branch    *)
(* only those count that the development branch does not have.  A stable   *)
(* branch that cannot be listed is left out, also as the oldest one.       *)
(***************************************************************************)
Nothing == [on |-> [k \in Commit |-> {}], read |-> [p \in Project |-> {}],
            tags |-> [x \in Project \X Series |-> {}]]

Supports(e, p) == e.read[p] \cap UNION {Supported[l] : l \in LPOf[p]}

Counted(e, p, b) ==
  {k \in Commit :
     /\ ProjectOf[k] = p /\ b \in e.on[k]
     /\ IF b = main THEN Supports(e, p) = {} \/ Min(Supports(e, p)) \notin e.on[k]
                   ELSE b \in e.read[p] /\ main \notin e.on[k]}

Collect(e, p) == UNION {{<<b, KindOf[k]>> : k \in Counted(e, p, b)} : b \in Branch}

\* Branches on which commits of p close the bug, or a part of it.
Refers(c, p, kinds) == {ref[1] : ref \in {r \in Collect(seen[c], p) : r[2] \in kinds}}
Affected(c, p) == Refers(c, p, {"Closes", "Partial"})

\* The branches whose commits say something about a task.
CountFor(t) == IF t[2] = main THEN Branch
               ELSE {t[2]} \cup (IF Focus[t[1]] = t[2] THEN {main} ELSE {})

Rank(s) == CASE s = "In Progress" -> 1 [] s = "Fix Committed" -> 2
             [] s = "Fix Released" -> 3 [] OTHER -> 0

Released_Bug(c, p, s) == TRUE \in seen[c].tags[<<p, s>>]

\* Every stable revision contains the fix.
Released(c, p, s) == seen[c].tags[<<p, s>>] = {TRUE}

\* What the commits of p say of a task they affect.
Component(c, p, t) ==
  IF Refers(c, p, {"Closes"}) \cap CountFor(t) = {} THEN "In Progress"
  ELSE IF t[2] # main /\ Released(c, p, t[2]) THEN "Fix Released" ELSE "Fix Committed"

Components(c, t) ==
  {p \in scope[c] : t[1] \in LPOf[p] /\ Affected(c, p) \cap CountFor(t) # {}}

\* targetStatus: the weakest of what the affected components say.
Targeted(c, t) ==
  (t[2] = main \/ t[2] \in Supported[t[1]]) /\ Components(c, t) # {}

TargetStatus(c, t) ==
  CHOOSE s \in {Component(c, p, t) : p \in Components(c, t)} :
    \A p \in Components(c, t) : Rank(s) <= Rank(Component(c, p, t))

Raises(c, t, status) ==
  /\ Targeted(c, t)
  /\ status # "Fix Released" /\ status # TargetStatus(c, t)
  /\ ~(status = "Fix Committed" /\ TargetStatus(c, t) = "In Progress")

-----------------------------------------------------------------------------
(***************************************************************************)
(* The tasks a run adds, given those there are.                            *)
(***************************************************************************)
Known(tasks) == {t \in Task : tasks[t] # Absent}

Involved(c) == {p \in scope[c] : named[c] \/ Affected(c, p) # {}}

\* ensureProjectTasks: a task of a series of the project will do.
MissingProjects(c, tasks) ==
  {<<l, main>> :
     l \in (UNION {LPOf[p] : p \in Involved(c)}) \ {t[1] : t \in Known(tasks)}}

\* assignToSeries
MissingSeries(c, tasks) ==
  {t \in OnLP \ Known(tasks) :
     \E p \in scope[c] :
       /\ t[1] \in LPOf[p]
       /\ \E b \in Affected(c, p) : IF b = main THEN t[2] = Focus[t[1]]
                                 ELSE b = t[2] /\ b \in Supported[t[1]]}

Add_Bug(tasks, new) == tasks

\* appendPlannedTasks
Add(tasks, new) == [t \in Task |-> IF t \in new THEN "New" ELSE tasks[t]]

AddActions(ts) == {<<t, "New">> : t \in ts}

\* What a dry run of c lists, on these tasks.
Plan(c, tasks) ==
  LET projects == MissingProjects(c, tasks)
      series == MissingSeries(c, Add(tasks, projects))
      all == Add(tasks, projects \cup series)
  IN  AddActions(projects \cup series)
        \cup {<<t, TargetStatus(c, t)>> : t \in {u \in Known(all) : Raises(c, u, all[u])}}

-----------------------------------------------------------------------------
(***************************************************************************)
(* A run                                                                   *)
(***************************************************************************)
None == [t \in Task |-> Absent]

Init ==
  /\ remote \in Found
  /\ pc = [c \in Run |-> "new"]
  /\ scope = [c \in Run |-> {}] /\ named = [c \in Run |-> FALSE]
  /\ seen = [c \in Run |-> Nothing]
  /\ first = [c \in Run |-> None]
  /\ todo = [c \in Run |-> {}] /\ done = [c \in Run |-> {}]
  /\ errors = [c \in Run |-> FALSE] /\ quiet = [c \in Run |-> FALSE]
  /\ alone = [c \in Run |-> TRUE] /\ crossed = [c \in Run |-> {}]
  /\ edits = 0 /\ faults = 0

Running == {c \in Run : pc[c] \notin {"new", "end"}}

Fault == edits + faults < MaxEvents /\ faults' = faults + 1

Goto(c, l) == pc' = [pc EXCEPT ![c] = l]

\* The bug is fetched, and the next phase handles some of its tasks.
Fetch(c, l, ts) ==
  /\ todo' = [todo EXCEPT ![c] = ts]
  /\ Goto(c, l)

Unread(c) ==
  /\ Fault /\ Goto(c, "end")
  /\ errors' = [errors EXCEPT ![c] = TRUE]

\* Sync, for a bug that commits affect or whose projects are declared: the evidence
\* is collected, then the bug is fetched.
Begin(c) ==
  /\ pc[c] = "new"
  /\ UNCHANGED <<remote, done, quiet, alone, crossed, edits>>
  /\ \E s \in Scope, e \in Evidence :
       /\ scope' = [scope EXCEPT ![c] = s[1]] /\ named' = [named EXCEPT ![c] = s[2]]
       /\ seen' = [seen EXCEPT ![c] = e]
       /\ s[2] \/ \E p \in s[1] : Affected(c, p)' # {}
  /\ first' = [first EXCEPT ![c] = remote]
  /\ \/ /\ Goto(c, "projects")
        /\ todo' = [todo EXCEPT ![c] = MissingProjects(c, remote)']
        /\ UNCHANGED <<errors, faults>>
     \/ Unread(c) /\ UNCHANGED todo

FetchAgain_Bug(c) ==
  /\ pc[c] \in {"projects", "series"} /\ todo[c] = {}
  /\ IF pc[c] = "projects"
       THEN Fetch(c, "series", MissingSeries(c, remote))
       ELSE Fetch(c, "status", {t \in Known(remote) : Raises(c, t, first[c][t])})
  /\ UNCHANGED <<remote, scope, named, seen, done, errors, first, quiet, alone, crossed,
                 edits, faults>>

FetchAgain(c) ==
  /\ pc[c] \in {"projects", "series"} /\ todo[c] = {}
  /\ \/ /\ IF pc[c] = "projects"
             THEN Fetch(c, "series", MissingSeries(c, remote))
             ELSE Fetch(c, "status", {t \in Known(remote) : Raises(c, t, remote[t])})
        /\ UNCHANGED <<errors, faults>>
     \/ Unread(c) /\ UNCHANGED <<todo>>
  /\ UNCHANGED <<remote, scope, named, seen, done, first, quiet, alone, crossed, edits>>

Handled(c, t) == todo' = [todo EXCEPT ![c] = @ \ {t}]

Alike(c, d) == scope[d] = scope[c] /\ seen[d] = seen[c]

\* Launchpad does what c asked.
Changes(c, t, s) ==
  /\ remote' = [remote EXCEPT ![t] = s]
  /\ alone' = [d \in Run |-> alone[d] /\ (d = c \/ d \notin Running)]
  /\ crossed' = [d \in Run |-> crossed[d] \cup
                  (IF d # c /\ pc[d] = "status" /\ ~Alike(c, d) THEN {t} ELSE {})]

Acted(c, t, s) ==
  /\ Changes(c, t, s)
  /\ done' = [done EXCEPT ![c] = @ \cup {<<t, s>>}]
  /\ UNCHANGED <<errors, quiet, faults>>

\* The tasks of a phase are handled in a fixed order.
Due(c, t) == todo[c] # {} /\ t = CHOOSE u \in todo[c] : TRUE

Report_Bug(c) == UNCHANGED <<errors, quiet>>

\* Errors are reported, those for a series task are only logged.
Report(c) ==
  IF pc[c] = "series" THEN quiet' = [quiet EXCEPT ![c] = TRUE] /\ UNCHANGED errors
                      ELSE errors' = [errors EXCEPT ![c] = TRUE] /\ UNCHANGED quiet

Refused(c) == Report(c) /\ UNCHANGED <<remote, done, alone, crossed, faults>>

\* A request fails, before Launchpad did what it asks or when only its answer is lost.
Failed(c, t, s) ==
  /\ Fault /\ Report(c) /\ UNCHANGED done
  /\ Changes(c, t, s) \/ UNCHANGED <<remote, alone, crossed>>

\* Launchpad refuses to add a task the bug has.
AddTask(c, t) ==
  /\ pc[c] \in {"projects", "series"} /\ Due(c, t)
  /\ Handled(c, t)
  /\ \/ remote[t] = Absent /\ (Acted(c, t, "New") \/ Failed(c, t, "New"))
     \/ remote[t] # Absent /\ Refused(c)
  /\ UNCHANGED <<pc, scope, named, seen, first, edits>>

UpdateStatus(c, t) ==
  /\ pc[c] = "status" /\ Due(c, t)
  /\ Handled(c, t)
  /\ Acted(c, t, TargetStatus(c, t)) \/ Failed(c, t, TargetStatus(c, t))
  /\ UNCHANGED <<pc, scope, named, seen, first, edits>>

End(c) ==
  /\ pc[c] = "status" /\ todo[c] = {}
  /\ Goto(c, "end")
  /\ UNCHANGED <<remote, scope, named, seen, todo, done, errors, first, quiet, alone,
                 crossed, edits, faults>>

\* People add tasks and change their status.
Edit(t, s) ==
  /\ edits + faults < MaxEvents /\ edits' = edits + 1
  /\ remote[t] # s /\ (remote[t] = Absent => s = "New" /\ t \in OnLP)
  /\ remote' = [remote EXCEPT ![t] = s]
  /\ alone' = [d \in Run |-> alone[d] /\ d \notin Running]
  /\ crossed' = [d \in Run |-> crossed[d] \cup (IF pc[d] = "status" THEN {t} ELSE {})]
  /\ UNCHANGED <<runVars, faults>>

Step(c) ==
  \/ Begin(c) \/ FetchAgain(c) \/ End(c)
  \/ \E t \in Task : AddTask(c, t) \/ UpdateStatus(c, t)

Next ==
  \/ \E c \in Run : Step(c)
  \/ \E t \in Task, s \in Status : Edit(t, s)

Spec == Init /\ [][Next]_vars

-----------------------------------------------------------------------------
TypeOK ==
  /\ remote \in [Task -> Status \cup {Absent}]
  /\ pc \in [Run -> {"new", "projects", "series", "status", "end"}]
  /\ scope \in [Run -> SUBSET Project] /\ named \in [Run -> BOOLEAN]
  /\ seen \in [Run -> Evidence \cup {Nothing}]
  /\ first \in [Run -> [Task -> Status \cup {Absent}]]
  /\ todo \in [Run -> SUBSET Task] /\ done \in [Run -> SUBSET (Task \X Status)]
  /\ errors \in [Run -> BOOLEAN] /\ quiet \in [Run -> BOOLEAN]
  /\ alone \in [Run -> BOOLEAN] /\ crossed \in [Run -> SUBSET Task]
  /\ edits \in 0..MaxEvents /\ faults \in 0..MaxEvents

\* "A series task becomes Fix Released only when the fix is reachable from the
\* tag" of every stable revision, and "shared tasks aggregate all affected
\* components" (README.md): every commit the run found for its projects that
\* counts for the task is of a project that also has a closing one that counts,
\* and whose revisions all have the fix.
Counts(c, k, t) == \E b \in CountFor(t) : k \in Counted(seen[c], ProjectOf[k], b)

ReleasedIsShipped ==
  \A c \in Run, t \in Task :
    <<t, "Fix Released">> \in done[c] =>
      \A k \in Commit :
        /\ ProjectOf[k] \in scope[c] /\ t[1] \in LPOf[ProjectOf[k]]
        /\ KindOf[k] # "Related" /\ Counts(c, k, t)
        => /\ FALSE \notin seen[c].tags[<<ProjectOf[k], t[2]>>]
           /\ \E j \in Commit : ProjectOf[j] = ProjectOf[k] /\ KindOf[j] = "Closes" /\ Counts(c, j, t)

\* A run lowers no status that it, or a run alike, could see: not what another run
\* with newer evidence or people set before it fetched the tasks it updates, nor what
\* a run of the same scope and evidence sets after that.  What the others set between
\* that fetch and the update, it may lower.
NeverLowered ==
  [][\A t \in Task :
       Rank(remote'[t]) < Rank(remote[t]) =>
         \/ edits' # edits
         \/ \E c \in Run : pc[c] = "status" /\ t \in todo[c] \ todo'[c] /\ t \in crossed[c]]_vars

\* A dry run tells what the run does: a run without errors, under which nobody else
\* changed the tasks, took the actions that were planned on the tasks it found.
PlanIsWhatRuns ==
  \A c \in Run :
    pc[c] = "end" /\ ~errors[c] /\ ~quiet[c] /\ alone[c] => done[c] = Plan(c, first[c])

\* A run that reports no error has done all there is, also when other runs with
\* the same scope and evidence were under way: a next one would do nothing, unless
\* people changed the tasks, a series task was refused, which is not reported, or a
\* request of a run that reports an error failed: that run goes on without the
\* task of the project, which a third one, that has read the bug before, may add
\* when this run is done.
CleanMeansDone ==
  \A c \in Run :
    /\ pc[c] = "end" /\ ~errors[c] /\ ~quiet[c]
    /\ edits = 0 /\ \A d \in Run : pc[d] = "new" \/ Alike(c, d)
    /\ (\E d \in Run : errors[d]) => faults = 0
    => Plan(c, remote) = {}
=============================================================================
