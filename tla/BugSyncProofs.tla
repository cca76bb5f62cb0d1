---------------------------- MODULE BugSyncProofs ----------------------------
(***************************************************************************)
(* Proofs about BugSync for every number of runs, projects, series,        *)
(* commits and faults, for every mapping of source projects to Launchpad   *)
(* projects, all tasks the bug may have before, and all evidence the runs  *)
(* may collect: what is released has shipped, no status is lowered that a  *)
(* run or one alike could see, a dry run tells what a run does, and a run  *)
(* without an error leaves nothing to do.                                  *)
(***************************************************************************)
EXTENDS BugSync, TLAPS

Value == Status \cup {Absent}

\* The types the arguments below use.  The flags are only known to be functions.
ShapeInv ==
  /\ remote \in [Task -> Value]
  /\ pc \in [Run -> {"new", "projects", "series", "status", "end"}]
  /\ scope \in [Run -> SUBSET Project]
  /\ first \in [Run -> [Task -> Value]]
  /\ todo \in [Run -> SUBSET Task]
  /\ done \in [Run -> SUBSET (Task \X Status)]
  /\ crossed \in [Run -> SUBSET Task]
  /\ edits \in 0..MaxEvents /\ faults \in 0..MaxEvents

FlagInv ==
  /\ named = [c \in Run |-> named[c]]
  /\ seen = [c \in Run |-> seen[c]]
  /\ alone = [c \in Run |-> alone[c]]
  /\ errors = [c \in Run |-> errors[c]]
  /\ quiet = [c \in Run |-> quiet[c]]

LEMMA InitShape == Init => ShapeInv /\ FlagInv
<1> SUFFICES ASSUME Init PROVE ShapeInv /\ FlagInv
  OBVIOUS
<1>1. ShapeInv
  BY SyncAssumption DEF Init, ShapeInv, SyncAssumption, None, Value
<1>2. FlagInv
  BY DEF Init, FlagInv
<1>3. QED
  BY <1>1, <1>2

LEMMA NextFlags == FlagInv /\ [Next]_vars => FlagInv'
<1> SUFFICES ASSUME FlagInv, [Next]_vars PROVE FlagInv'
  OBVIOUS
<1>1. ASSUME NEW c \in Run, Begin(c) PROVE FlagInv'
  BY <1>1 DEF FlagInv, Begin, Unread, Fault
<1>2. ASSUME NEW c \in Run, FetchAgain(c) PROVE FlagInv'
  BY <1>2 DEF FlagInv, FetchAgain, Unread, Fault
<1>3. ASSUME NEW c \in Run, NEW t \in Task, AddTask(c, t) \/ UpdateStatus(c, t) PROVE FlagInv'
  <2>1. named' = named /\ seen' = seen
    BY <1>3 DEF AddTask, UpdateStatus
  <2>2. Report(c) \/ UNCHANGED <<errors, quiet>>
    BY <1>3 DEF AddTask, UpdateStatus, Acted, Failed, Refused
  <2>3. (\E s : Changes(c, t, s)) \/ alone' = alone
    BY <1>3 DEF AddTask, UpdateStatus, Acted, Failed, Refused
  <2>4. alone' = [d \in Run |-> alone'[d]]
    BY <2>3 DEF FlagInv, Changes
  <2>5. QED
    BY <2>1, <2>2, <2>4 DEF FlagInv, Report
<1>4. ASSUME NEW t \in Task, NEW s \in Status, Edit(t, s) PROVE FlagInv'
  BY <1>4 DEF FlagInv, Edit, runVars
<1>5. CASE UNCHANGED <<named, seen, errors, quiet, alone>>
  BY <1>5 DEF FlagInv
<1>6. QED
  BY <1>1, <1>2, <1>3, <1>4, <1>5 DEF Next, Step, End, vars, runVars

-----------------------------------------------------------------------------
\* What the operators of a run yield.
Goals == {"In Progress", "Fix Committed", "Fix Released"}

LEMMA ComponentGoal ==
  ASSUME NEW c, NEW p, NEW t
  PROVE  Component(c, p, t) \in Goals
BY DEF Component, Goals

\* The target is what the weakest component says, of those there are.
Weakest(c, t, s) ==
  /\ s \in Goals
  /\ \E p \in Components(c, t) : s = Component(c, p, t)
  /\ \A p \in Components(c, t) : Rank(s) <= Rank(Component(c, p, t))

\* The ranks, as equations, and the order they give.
LEMMA Ranks ==
  ASSUME NEW s
  PROVE  /\ s = "In Progress" => Rank(s) = 1
         /\ s = "Fix Committed" => Rank(s) = 2
         /\ s = "Fix Released" => Rank(s) = 3
         /\ s \notin Goals => Rank(s) = 0
BY DEF Rank, Goals

LEMMA GoalRanks ==
  ASSUME NEW s \in Goals
  PROVE  Rank(s) = 1 \/ Rank(s) = 2 \/ Rank(s) = 3
BY DEF Rank, Goals

LEMMA AnyRank ==
  ASSUME NEW s
  PROVE  Rank(s) \in 0..3
BY DEF Rank

LEMMA RankOrder ==
  ASSUME NEW r, NEW s
  PROVE  /\ Rank(r) < Rank(s) <=> ~(Rank(s) <= Rank(r))
         /\ Rank(r) <= Rank(s) /\ Rank(s) <= Rank(r) => Rank(r) = Rank(s)
         /\ Rank(r) = 0 \/ Rank(s) = 3 \/ Rank(r) = Rank(s) => Rank(r) <= Rank(s)
         /\ Rank(r) = 1 /\ Rank(s) # 0 => Rank(r) <= Rank(s)
         /\ Rank(r) = 2 /\ (Rank(s) = 2 \/ Rank(s) = 3) => Rank(r) <= Rank(s)
BY AnyRank

LEMMA SameRank ==
  ASSUME NEW r \in Goals, NEW s \in Goals, Rank(r) = Rank(s)
  PROVE  r = s
<1>1. /\ Rank("In Progress") = 1 /\ Rank("Fix Committed") = 2 /\ Rank("Fix Released") = 3
  BY Ranks
<1>2. CASE r = "In Progress"
  <2>1. Rank(s) = 1
    BY <1>1, <1>2, Zenon
  <2>2. Rank(s) # 2 /\ Rank(s) # 3
    BY <2>1
  <2>3. QED
    BY <1>1, <1>2, <2>2, Zenon DEF Goals
<1>3. CASE r = "Fix Committed"
  <2>1. Rank(s) = 2
    BY <1>1, <1>3, Zenon
  <2>2. Rank(s) # 1 /\ Rank(s) # 3
    BY <2>1
  <2>3. QED
    BY <1>1, <1>3, <2>2, Zenon DEF Goals
<1>4. CASE r = "Fix Released"
  <2>1. Rank(s) = 3
    BY <1>1, <1>4, Zenon
  <2>2. Rank(s) # 1 /\ Rank(s) # 2
    BY <2>1
  <2>3. QED
    BY <1>1, <1>4, <2>2, Zenon DEF Goals
<1>5. QED
  BY <1>2, <1>3, <1>4 DEF Goals

LEMMA WeakestExists ==
  ASSUME NEW c, NEW t, Components(c, t) # {}
  PROVE  \E s : Weakest(c, t, s)
<1>1. CASE \E p \in Components(c, t) : Component(c, p, t) = "In Progress"
  <2>1. \A p \in Components(c, t) : Rank(Component(c, p, t)) # 0
    BY ComponentGoal, GoalRanks
  <2>2. Rank("In Progress") = 1
    BY Ranks
  <2>3. \A p \in Components(c, t) : Rank("In Progress") <= Rank(Component(c, p, t))
    BY <2>1, <2>2, RankOrder, Zenon
  <2>4. Weakest(c, t, "In Progress")
    BY <1>1, <2>3, Zenon DEF Weakest, Goals
  <2>5. QED
    BY <2>4
<1>2. CASE /\ \A p \in Components(c, t) : Component(c, p, t) # "In Progress"
           /\ \E p \in Components(c, t) : Component(c, p, t) = "Fix Committed"
  <2>1. \A p \in Components(c, t) :
          Component(c, p, t) = "Fix Committed" \/ Component(c, p, t) = "Fix Released"
    BY <1>2, ComponentGoal DEF Goals
  <2>2. \A p \in Components(c, t) : Rank(Component(c, p, t)) = 2 \/ Rank(Component(c, p, t)) = 3
    BY <2>1, Ranks, Zenon
  <2>3. Rank("Fix Committed") = 2
    BY Ranks
  <2>4. \A p \in Components(c, t) : Rank("Fix Committed") <= Rank(Component(c, p, t))
    BY <2>2, <2>3, RankOrder, Zenon
  <2>5. Weakest(c, t, "Fix Committed")
    BY <1>2, <2>4, Zenon DEF Weakest, Goals
  <2>6. QED
    BY <2>5
<1>3. CASE \A p \in Components(c, t) : Component(c, p, t) = "Fix Released"
  <2>1. \A p \in Components(c, t) : Rank("Fix Released") <= Rank(Component(c, p, t))
    BY <1>3, RankOrder, Zenon
  <2>2. Weakest(c, t, "Fix Released")
    BY <1>3, <2>1, Zenon DEF Weakest, Goals
  <2>3. QED
    BY <2>2
<1>4. QED
  BY <1>1, <1>2, <1>3, ComponentGoal DEF Goals

LEMMA WeakestIsTarget ==
  ASSUME NEW c, NEW t, Components(c, t) # {}
  PROVE  Weakest(c, t, TargetStatus(c, t))
<1>1. PICK s : Weakest(c, t, s)
  BY WeakestExists
<1> DEFINE S == {Component(c, p, t) : p \in Components(c, t)}
           Least(x) == \A p \in Components(c, t) : Rank(x) <= Rank(Component(c, p, t))
<1>2. s \in S /\ Least(s)
  BY <1>1 DEF Weakest
<1>3. TargetStatus(c, t) = CHOOSE x \in S : Least(x)
  BY DEF TargetStatus
<1> HIDE DEF S, Least
<1>4. TargetStatus(c, t) \in S /\ Least(TargetStatus(c, t))
  BY <1>2, <1>3
<1>5. QED
  BY <1>4, ComponentGoal DEF S, Least, Weakest

LEMMA WeakestIsUnique ==
  ASSUME NEW c, NEW t, NEW r, NEW s, Weakest(c, t, r), Weakest(c, t, s)
  PROVE  r = s
<1>1. r \in Goals /\ s \in Goals
  BY DEF Weakest
<1>2. Rank(r) <= Rank(s) /\ Rank(s) <= Rank(r)
  BY DEF Weakest
<1>3. Rank(r) = Rank(s)
  BY <1>2, RankOrder, Zenon
<1>4. QED
  BY <1>1, <1>3, SameRank

\* The target depends on the evidence and on the projects of the run alone: it is
\* that of a run alike, and the one it was before a step.
LEMMA SameTarget ==
  ASSUME NEW c, NEW d, Alike(c, d), NEW t
  PROVE  /\ Components(c, t) = Components(d, t)
         /\ Targeted(c, t) = Targeted(d, t)
         /\ Targeted(c, t) => TargetStatus(c, t) = TargetStatus(d, t)
<1>1. \A p : Affected(c, p) = Affected(d, p) /\ Component(c, p, t) = Component(d, p, t)
  BY DEF Alike, Affected, Refers, Component, Released
<1>2. Components(c, t) = Components(d, t)
  BY <1>1 DEF Alike, Components
<1>3. Targeted(c, t) = Targeted(d, t)
  BY <1>2 DEF Targeted
<1>4. ASSUME Targeted(c, t) PROVE TargetStatus(c, t) = TargetStatus(d, t)
  <2>1. Weakest(c, t, TargetStatus(c, t)) /\ Weakest(d, t, TargetStatus(d, t))
    BY <1>2, <1>4, WeakestIsTarget DEF Targeted
  <2>2. Weakest(c, t, TargetStatus(d, t))
    BY <1>1, <1>2, <2>1 DEF Weakest
  <2>3. QED
    BY <2>1, <2>2, WeakestIsUnique
<1>5. QED
  BY <1>2, <1>3, <1>4

LEMMA TargetStays ==
  ASSUME NEW c, scope'[c] = scope[c], seen'[c] = seen[c], NEW t
  PROVE  /\ Components(c, t)' = Components(c, t)
         /\ \A p : Component(c, p, t)' = Component(c, p, t)
         /\ Targeted(c, t)' = Targeted(c, t)
         /\ Targeted(c, t) => TargetStatus(c, t)' = TargetStatus(c, t)
<1>1. \A p : Affected(c, p)' = Affected(c, p)
  BY DEF Affected, Refers
<1>2. Components(c, t)' = Components(c, t)
  BY <1>1 DEF Components
<1>3. \A p : Component(c, p, t)' = Component(c, p, t)
  BY DEF Component, Refers, Released
<1>4. Targeted(c, t)' = Targeted(c, t)
  BY <1>2 DEF Targeted
<1>5. ASSUME Targeted(c, t) PROVE TargetStatus(c, t)' = TargetStatus(c, t)
  <2>1. Components(c, t) # {} /\ Weakest(c, t, TargetStatus(c, t))
    BY <1>5, WeakestIsTarget DEF Targeted
  <2> DEFINE s == TargetStatus(c, t)
             S == {Component(c, p, t) : p \in Components(c, t)}
             Least(x) == \A p \in Components(c, t) : Rank(x) <= Rank(Component(c, p, t))
  <2>2. PICK u : u = TargetStatus(c, t)
    OBVIOUS
  <2>3. u \in S' /\ Least(u)'
    BY <1>2, <1>3, <2>1, <2>2 DEF Weakest
  <2>4. TargetStatus(c, t)' = CHOOSE x \in S' : Least(x)'
    BY DEF TargetStatus
  <2>5. PICK v : v = TargetStatus(c, t)'
    OBVIOUS
  <2>6. v \in S' /\ Least(v)'
    BY <2>3, <2>4, <2>5
  <2>7. v \in S /\ Least(v)
    BY <1>2, <1>3, <2>6
  <2>8. Weakest(c, t, v)
    BY <2>7, ComponentGoal DEF Weakest
  <2>9. QED
    BY <2>1, <2>2, <2>5, <2>8, WeakestIsUnique
<1>6. QED
  BY <1>2, <1>3, <1>4, <1>5

\* A task that is raised is targeted, and its target is not below what it has.
LEMMA RaisesUp ==
  ASSUME NEW c, NEW t, NEW s \in Value, Raises(c, t, s)
  PROVE  Targeted(c, t) /\ TargetStatus(c, t) \in Goals /\ Rank(s) <= Rank(TargetStatus(c, t))
<1>1. Targeted(c, t) /\ TargetStatus(c, t) \in Goals
  BY WeakestIsTarget DEF Raises, Targeted, Weakest
<1>2. CASE s \notin Goals
  <2>1. Rank(s) = 0
    BY <1>2, Ranks
  <2>2. QED
    BY <1>1, <2>1, RankOrder, Zenon
<1>3. CASE s = "In Progress"
  <2>1. Rank(s) = 1
    BY <1>3, Ranks
  <2>2. Rank(TargetStatus(c, t)) # 0
    BY <1>1, GoalRanks
  <2>3. QED
    BY <1>1, <2>1, <2>2, RankOrder, Zenon
<1>4. CASE s = "Fix Committed"
  <2>1. TargetStatus(c, t) = "Fix Released"
    BY <1>1, <1>4 DEF Raises, Goals
  <2>2. Rank(TargetStatus(c, t)) = 3
    BY <2>1, Ranks
  <2>3. QED
    BY <1>1, <2>2, RankOrder, Zenon
<1>5. QED
  BY <1>1, <1>2, <1>3, <1>4 DEF Raises, Goals

LEMMA MissingTypes ==
  ASSUME NEW c, scope[c] \subseteq Project, NEW tasks
  PROVE  MissingProjects(c, tasks) \subseteq Task /\ MissingSeries(c, tasks) \subseteq Task
<1>1. \A p \in Project : LPOf[p] \subseteq LP
  BY SyncAssumption DEF SyncAssumption
<1>2. UNION {LPOf[p] : p \in Involved(c)} \subseteq LP
  BY <1>1 DEF Involved
<1>3. MissingProjects(c, tasks) \subseteq Task
  BY <1>2 DEF MissingProjects, Task
<1>4. MissingSeries(c, tasks) \subseteq Task
  BY SyncAssumption DEF MissingSeries, SyncAssumption
<1>5. QED
  BY <1>3, <1>4

-----------------------------------------------------------------------------
\* What a step leaves alone, and what it changes.

\* The run c is as it was.
Kept(c) ==
  /\ pc'[c] = pc[c] /\ scope'[c] = scope[c] /\ named'[c] = named[c]
  /\ seen'[c] = seen[c] /\ first'[c] = first[c]
  /\ todo'[c] = todo[c] /\ done'[c] = done[c]
  /\ errors'[c] = errors[c] /\ quiet'[c] = quiet[c]

\* The run c is about what it was about.
Stays(c) ==
  /\ scope'[c] = scope[c] /\ named'[c] = named[c]
  /\ seen'[c] = seen[c] /\ first'[c] = first[c]

LEMMA KeptStays == ASSUME NEW c, Kept(c) PROVE Stays(c)
BY DEF Kept, Stays

LEMMA OthersKept ==
  ASSUME ShapeInv, FlagInv, NEW c \in Run, NEW d \in Run, c # d, Step(c)
  PROVE  Kept(d)
<1>1. CASE Begin(c)
  BY <1>1 DEF ShapeInv, FlagInv, Begin, Unread, Goto, Kept
<1>2. CASE FetchAgain(c)
  BY <1>2 DEF ShapeInv, FlagInv, FetchAgain, Fetch, Unread, Goto, Kept
<1>3. CASE End(c)
  BY <1>3 DEF ShapeInv, FlagInv, End, Goto, Kept
<1>4. ASSUME NEW t \in Task, AddTask(c, t) \/ UpdateStatus(c, t) PROVE Kept(d)
  BY <1>4 DEF ShapeInv, FlagInv, AddTask, UpdateStatus, Handled, Acted, Failed, Refused, Report, Kept
<1>5. QED
  BY <1>1, <1>2, <1>3, <1>4 DEF Step

LEMMA EditKeeps ==
  ASSUME NEW t, NEW s, Edit(t, s), NEW d
  PROVE  Kept(d) /\ edits' = edits + 1
BY DEF Edit, Kept, runVars

\* A run that has begun stays about the same.
LEMMA BegunStays ==
  ASSUME NEW c \in Run, Step(c), pc[c] # "new"
  PROVE  Stays(c)
BY Zenon DEF Step, Begin, FetchAgain, End, AddTask, UpdateStatus, Stays

LEMMA BeginEffect ==
  ASSUME ShapeInv, FlagInv, NEW c \in Run, Begin(c)
  PROVE  /\ pc[c] = "new" /\ UNCHANGED <<remote, alone, crossed, edits>>
         /\ scope'[c] \subseteq Project /\ first'[c] = remote /\ done' = done
         /\ \/ /\ pc'[c] = "projects" /\ todo'[c] = MissingProjects(c, remote)'
               /\ UNCHANGED <<errors, faults>>
            \/ pc'[c] = "end" /\ errors'[c] /\ faults' = faults + 1
<1>1. PICK s \in Scope : scope' = [scope EXCEPT ![c] = s[1]]
  BY Zenon DEF Begin
<1>2. s[1] \subseteq Project
  BY SyncAssumption DEF SyncAssumption
<1>3. scope'[c] \subseteq Project
  BY <1>1, <1>2 DEF ShapeInv
<1>4. /\ pc[c] = "new" /\ UNCHANGED <<remote, alone, crossed, edits>>
      /\ first'[c] = remote /\ done' = done
  BY DEF Begin, ShapeInv
<1>5. CASE Goto(c, "projects") /\ todo' = [todo EXCEPT ![c] = MissingProjects(c, remote)']
             /\ UNCHANGED <<errors, faults>>
  BY <1>3, <1>4, <1>5 DEF Goto, ShapeInv
<1>6. CASE Unread(c)
  BY <1>3, <1>4, <1>6 DEF Unread, Fault, Goto, ShapeInv, FlagInv
<1>7. QED
  BY <1>5, <1>6 DEF Begin

LEMMA FetchEffect ==
  ASSUME ShapeInv, FlagInv, NEW c \in Run, FetchAgain(c)
  PROVE  /\ UNCHANGED <<remote, alone, crossed, edits, done>>
         /\ quiet' = quiet /\ todo[c] = {} /\ pc[c] \in {"projects", "series"}
         /\ \/ /\ pc[c] = "projects" /\ pc'[c] = "series"
               /\ todo'[c] = MissingSeries(c, remote) /\ UNCHANGED <<errors, faults>>
            \/ /\ pc[c] = "series" /\ pc'[c] = "status"
               /\ todo'[c] = {t \in Known(remote) : Raises(c, t, remote[t])}
               /\ UNCHANGED <<errors, faults>>
            \/ pc'[c] = "end" /\ errors'[c] /\ faults' = faults + 1
<1>1. CASE Unread(c)
  BY <1>1 DEF FetchAgain, Unread, Fault, Goto, ShapeInv, FlagInv
<1>2. CASE pc[c] = "projects" /\ Fetch(c, "series", MissingSeries(c, remote))
             /\ UNCHANGED <<errors, faults>>
  BY <1>2 DEF FetchAgain, Fetch, Goto, ShapeInv
<1>3. CASE pc[c] = "series" /\ UNCHANGED <<errors, faults>>
             /\ Fetch(c, "status", {t \in Known(remote) : Raises(c, t, remote[t])})
  BY <1>3 DEF FetchAgain, Fetch, Goto, ShapeInv
<1>4. QED
  BY <1>1, <1>2, <1>3 DEF FetchAgain

LEMMA DueIsTodo == ASSUME NEW c, NEW t, Due(c, t) PROVE t \in todo[c]
BY Zenon DEF Due

\* A request that failed was carried out all the same, or not.
Moved(c, t, s) == Changes(c, t, s) \/ UNCHANGED <<remote, alone, crossed>>

\* The run reports the failure, or keeps it to itself.
Told(c) ==
  \/ pc[c] = "series" /\ quiet'[c] /\ errors' = errors
  \/ pc[c] # "series" /\ errors'[c] /\ quiet' = quiet

LEMMA ReportTells == ASSUME FlagInv, NEW c \in Run, Report(c) PROVE Told(c)
BY DEF Report, Told, FlagInv

LEMMA AddEffect ==
  ASSUME ShapeInv, FlagInv, NEW c \in Run, NEW t \in Task, AddTask(c, t)
  PROVE  /\ pc[c] \in {"projects", "series"} /\ pc' = pc /\ edits' = edits
         /\ t \in todo[c] /\ todo'[c] = todo[c] \ {t}
         /\ \/ /\ remote[t] = Absent /\ Changes(c, t, "New")
               /\ done'[c] = done[c] \cup {<<t, "New">>} /\ UNCHANGED <<errors, quiet, faults>>
            \/ /\ remote[t] = Absent /\ Moved(c, t, "New") /\ done' = done
               /\ Told(c) /\ faults' = faults + 1
            \/ /\ remote[t] # Absent /\ UNCHANGED <<remote, alone, crossed, done>>
               /\ Told(c) /\ faults' = faults
<1>1. /\ pc[c] \in {"projects", "series"} /\ pc' = pc /\ edits' = edits
      /\ t \in todo[c] /\ todo'[c] = todo[c] \ {t}
  BY DueIsTodo DEF AddTask, Handled, ShapeInv
<1>2. CASE remote[t] = Absent /\ Acted(c, t, "New")
  BY <1>1, <1>2 DEF Acted, ShapeInv
<1>3. CASE remote[t] = Absent /\ Failed(c, t, "New")
  BY <1>1, <1>3, ReportTells DEF Failed, Fault, Moved
<1>4. CASE remote[t] # Absent /\ Refused(c)
  BY <1>1, <1>4, ReportTells DEF Refused
<1>5. QED
  BY <1>2, <1>3, <1>4 DEF AddTask

LEMMA UpdateEffect ==
  ASSUME ShapeInv, FlagInv, NEW c \in Run, NEW t \in Task, UpdateStatus(c, t)
  PROVE  /\ pc[c] = "status" /\ pc' = pc /\ edits' = edits /\ quiet' = quiet
         /\ t \in todo[c] /\ todo'[c] = todo[c] \ {t}
         /\ \/ /\ Changes(c, t, TargetStatus(c, t))
               /\ done'[c] = done[c] \cup {<<t, TargetStatus(c, t)>>}
               /\ UNCHANGED <<errors, faults>>
            \/ /\ Moved(c, t, TargetStatus(c, t)) /\ done' = done /\ errors'[c]
               /\ faults' = faults + 1
<1>1. /\ pc[c] = "status" /\ pc' = pc /\ edits' = edits
      /\ t \in todo[c] /\ todo'[c] = todo[c] \ {t}
  BY DueIsTodo DEF UpdateStatus, Handled, ShapeInv
<1>2. CASE Acted(c, t, TargetStatus(c, t))
  BY <1>1, <1>2 DEF Acted, ShapeInv
<1>3. CASE Failed(c, t, TargetStatus(c, t))
  <2>1. Told(c)
    BY <1>3, ReportTells DEF Failed
  <2>2. QED
    BY <1>1, <1>3, <2>1 DEF Failed, Fault, Moved, Told
<1>4. QED
  BY <1>2, <1>3 DEF UpdateStatus

\* The tasks of a run, named for what they are about: those of the projects it
\* involves, and those of the series its commits affect.
MainTasks(c) == {<<l, main>> : l \in UNION {LPOf[p] : p \in Involved(c)}}

Critical(c) ==
  {t \in OnLP :
     \E p \in scope[c] :
       /\ t[1] \in LPOf[p]
       /\ \E b \in Affected(c, p) : IF b = main THEN t[2] = Focus[t[1]]
                                 ELSE b = t[2] /\ b \in Supported[t[1]]}

LEMMA MissingIsCritical ==
  ASSUME NEW c, NEW tasks
  PROVE  MissingSeries(c, tasks) = Critical(c) \ Known(tasks)
BY DEF MissingSeries, Critical

LEMMA MissingIsMain ==
  ASSUME NEW c, NEW tasks
  PROVE  /\ MissingProjects(c, tasks) \subseteq MainTasks(c)
         /\ \A t \in MainTasks(c) :
              t \in MissingProjects(c, tasks) \/ \E u \in Known(tasks) : u[1] = t[1]
<1>1. MissingProjects(c, tasks) \subseteq MainTasks(c)
  BY DEF MissingProjects, MainTasks
<1>2. ASSUME NEW t \in MainTasks(c), \A u \in Known(tasks) : u[1] # t[1]
      PROVE  t \in MissingProjects(c, tasks)
  <2>1. PICK l \in UNION {LPOf[p] : p \in Involved(c)} : t = <<l, main>>
    BY DEF MainTasks
  <2>2. t[1] = l
    BY <2>1
  <2>3. l \notin {u[1] : u \in Known(tasks)}
    BY <1>2, <2>2
  <2>4. l \in (UNION {LPOf[p] : p \in Involved(c)}) \ {u[1] : u \in Known(tasks)}
    BY <2>1, <2>3, Zenon
  <2>5. QED
    BY <2>1, <2>4, Zenon DEF MissingProjects
<1>3. QED
  BY <1>1, <1>2

LEMMA CriticalStays ==
  ASSUME NEW c, Stays(c)
  PROVE  /\ MainTasks(c)' = MainTasks(c) /\ Critical(c)' = Critical(c)
         /\ \A tasks : MissingProjects(c, tasks)' = MissingProjects(c, tasks)
<1>1. \A p : Affected(c, p)' = Affected(c, p)
  BY DEF Affected, Refers, Stays
<1>2. Involved(c)' = Involved(c)
  BY <1>1 DEF Involved, Stays
<1>3. MainTasks(c)' = MainTasks(c)
  BY <1>2 DEF MainTasks
<1>4. Critical(c)' = Critical(c)
  BY <1>1 DEF Critical, Stays
<1>5. QED
  BY <1>2, <1>3, <1>4 DEF MissingProjects

LEMMA RaisesStays ==
  ASSUME NEW c, scope'[c] = scope[c], seen'[c] = seen[c], NEW t, NEW s
  PROVE  Raises(c, t, s)' = Raises(c, t, s)
BY TargetStays DEF Raises

LEMMA TargetGoal ==
  ASSUME NEW c, NEW t, Targeted(c, t)
  PROVE  TargetStatus(c, t) \in Goals
BY WeakestIsTarget DEF Targeted, Weakest

LEMMA MissingNextTypes ==
  ASSUME NEW c, scope'[c] \subseteq Project
  PROVE  MissingProjects(c, remote)' \subseteq Task
<1>1. \A p \in Project : LPOf[p] \subseteq LP
  BY SyncAssumption DEF SyncAssumption
<1>2. UNION {LPOf[p] : p \in Involved(c)'} \subseteq LP
  BY <1>1 DEF Involved
<1>3. QED
  BY <1>2 DEF MissingProjects, Task

-----------------------------------------------------------------------------
\* What a run holds: nothing before it begins, then tasks of its phase.
Held(c) ==
  /\ pc[c] = "new" => scope[c] = {} /\ done[c] = {}
  /\ pc[c] = "projects" => todo[c] \subseteq MainTasks(c)
  /\ pc[c] = "series" => todo[c] \subseteq Critical(c)
  /\ pc[c] = "status" => todo[c] \subseteq Known(remote) /\ \A t \in todo[c] : Targeted(c, t)

TodoInv == \A c \in Run : Held(c)

LEMMA InitTodo == Init => TodoInv
BY DEF Init, TodoInv, Held

\* No task ever disappears.
LEMMA KnownGrows ==
  ASSUME ShapeInv, FlagInv, TodoInv, [Next]_vars
  PROVE  Known(remote) \subseteq Known(remote)'
<1>1. ASSUME NEW c \in Run, Begin(c) \/ FetchAgain(c) \/ End(c) PROVE remote' = remote
  BY <1>1 DEF Begin, FetchAgain, End
<1>2. ASSUME NEW c \in Run, NEW t \in Task, AddTask(c, t)
      PROVE  Known(remote) \subseteq Known(remote)'
  <2>1. remote' = remote \/ remote' = [remote EXCEPT ![t] = "New"]
    BY <1>2, AddEffect DEF Moved, Changes
  <2>2. "New" # Absent
    BY DEF Absent
  <2>3. QED
    BY <2>1, <2>2 DEF ShapeInv, Known
<1>3. ASSUME NEW c \in Run, NEW t \in Task, UpdateStatus(c, t)
      PROVE  Known(remote) \subseteq Known(remote)'
  <2>1. PICK s : s = TargetStatus(c, t)
    OBVIOUS
  <2>2. remote' = remote \/ remote' = [remote EXCEPT ![t] = s]
    BY <1>3, <2>1, UpdateEffect DEF Moved, Changes
  <2>3. pc[c] = "status" /\ t \in todo[c]
    BY <1>3, UpdateEffect
  <2>4. s \in Goals
    BY <2>1, <2>3, TargetGoal DEF TodoInv, Held
  <2>5. s # Absent
    BY <2>4 DEF Goals, Absent
  <2>6. QED
    BY <2>2, <2>5 DEF ShapeInv, Known
<1>4. ASSUME NEW t \in Task, NEW s \in Status, Edit(t, s)
      PROVE  Known(remote) \subseteq Known(remote)'
  <2>1. remote' = [remote EXCEPT ![t] = s] /\ s # Absent
    BY <1>4 DEF Edit, Status, Absent
  <2>2. QED
    BY <2>1 DEF ShapeInv, Known
<1>5. CASE UNCHANGED vars
  BY <1>5 DEF vars, Known
<1>6. QED
  BY <1>1, <1>2, <1>3, <1>4, <1>5 DEF Next, Step, Known

LEMMA NextShape == ShapeInv /\ FlagInv /\ TodoInv /\ [Next]_vars => ShapeInv'
<1> SUFFICES ASSUME ShapeInv, FlagInv, TodoInv, [Next]_vars PROVE ShapeInv'
  OBVIOUS
<1>1. ASSUME NEW c \in Run, Begin(c) PROVE ShapeInv'
  <2>1. PICK s \in Scope : scope' = [scope EXCEPT ![c] = s[1]]
    BY <1>1, Zenon DEF Begin
  <2>2. s[1] \subseteq Project
    BY SyncAssumption DEF SyncAssumption
  <2>3. scope' \in [Run -> SUBSET Project] /\ scope'[c] \subseteq Project
    BY <2>1, <2>2 DEF ShapeInv
  <2>4. MissingProjects(c, remote)' \subseteq Task
    BY <2>3, MissingNextTypes
  <2>5. first' \in [Run -> [Task -> Value]] /\ UNCHANGED <<remote, done, crossed, edits>>
    BY <1>1 DEF Begin, ShapeInv
  <2>6. PICK m : m = MissingProjects(c, remote)'
    OBVIOUS
  <2>7. \/ /\ pc' = [pc EXCEPT ![c] = "projects"] /\ todo' = [todo EXCEPT ![c] = m]
           /\ faults' = faults
        \/ /\ pc' = [pc EXCEPT ![c] = "end"] /\ todo' = todo
           /\ edits + faults < MaxEvents /\ faults' = faults + 1
    BY <1>1, <2>6 DEF Begin, Goto, Unread, Fault
  <2>8. /\ pc' \in [Run -> {"new", "projects", "series", "status", "end"}]
        /\ todo' \in [Run -> SUBSET Task]
    <3>1. pc' \in [Run -> {"new", "projects", "series", "status", "end"}]
      BY <2>7 DEF ShapeInv
    <3>2. m \subseteq Task
      BY <2>4, <2>6
    <3>3. todo' \in [Run -> SUBSET Task]
      BY <2>7, <3>2 DEF ShapeInv
    <3>4. QED
      BY <3>1, <3>3
  <2>9. faults' \in 0..MaxEvents
    BY <2>7, SyncAssumption DEF ShapeInv, SyncAssumption
  <2>10. QED
    BY <2>3, <2>5, <2>8, <2>9 DEF ShapeInv
<1>2. ASSUME NEW c \in Run, FetchAgain(c) PROVE ShapeInv'
  <2>1. PICK m : m = IF pc[c] = "projects" THEN MissingSeries(c, remote)
                     ELSE {t \in Known(remote) : Raises(c, t, remote[t])}
    OBVIOUS
  <2>2. m \subseteq Task
    BY <2>1, MissingTypes DEF ShapeInv, Known
  <2>3. UNCHANGED <<remote, scope, done, first, crossed, edits>>
    BY <1>2 DEF FetchAgain
  <2>4. \/ /\ \E l \in {"series", "status"} : pc' = [pc EXCEPT ![c] = l]
           /\ todo' = [todo EXCEPT ![c] = m] /\ faults' = faults
        \/ /\ pc' = [pc EXCEPT ![c] = "end"] /\ todo' = todo
           /\ edits + faults < MaxEvents /\ faults' = faults + 1
    BY <1>2, <2>1 DEF FetchAgain, Fetch, Goto, Unread, Fault
  <2>5. /\ pc' \in [Run -> {"new", "projects", "series", "status", "end"}]
        /\ todo' \in [Run -> SUBSET Task]
    BY <2>2, <2>4 DEF ShapeInv
  <2>6. faults' \in 0..MaxEvents
    BY <2>4, SyncAssumption DEF ShapeInv, SyncAssumption
  <2>7. QED
    BY <2>3, <2>5, <2>6 DEF ShapeInv
<1>3. ASSUME NEW c \in Run, End(c) PROVE ShapeInv'
  BY <1>3 DEF ShapeInv, End, Goto
<1>4. ASSUME NEW c \in Run, NEW t \in Task, NEW s \in Status, Changes(c, t, s)
      PROVE  remote' \in [Task -> Value] /\ crossed' \in [Run -> SUBSET Task]
  <2>1. remote' \in [Task -> Value]
    BY <1>4 DEF Changes, ShapeInv, Value
  <2>2. crossed' \in [Run -> SUBSET Task]
    BY <1>4 DEF Changes, ShapeInv
  <2>3. QED
    BY <2>1, <2>2
<1>5. ASSUME NEW c \in Run, NEW t \in Task, AddTask(c, t) \/ UpdateStatus(c, t) PROVE ShapeInv'
  <2>1. /\ UNCHANGED <<pc, scope, first, edits>> /\ todo' = [todo EXCEPT ![c] = @ \ {t}]
        /\ faults' = faults \/ (edits + faults < MaxEvents /\ faults' = faults + 1)
    BY <1>5 DEF AddTask, UpdateStatus, Handled, Acted, Failed, Refused, Fault
  <2>2. PICK s : s = IF pc[c] = "status" THEN TargetStatus(c, t) ELSE "New"
    OBVIOUS
  <2>3. s \in Status
    <3>1. CASE AddTask(c, t)
      BY <2>2, <3>1 DEF AddTask, Status
    <3>2. CASE UpdateStatus(c, t)
      <4>1. pc[c] = "status" /\ t \in todo[c]
        BY <3>2, UpdateEffect
      <4>2. QED
        BY <2>2, <4>1, TargetGoal DEF TodoInv, Held, Goals, Status
    <3>3. QED
      BY <1>5, <3>1, <3>2
  <2>4. /\ Changes(c, t, s) \/ UNCHANGED <<remote, crossed>>
        /\ done' = [done EXCEPT ![c] = @ \cup {<<t, s>>}] \/ done' = done
    <3>1. CASE AddTask(c, t)
      BY <2>2, <3>1 DEF AddTask, Acted, Failed, Refused
    <3>2. CASE UpdateStatus(c, t)
      BY <2>2, <3>2 DEF UpdateStatus, Acted, Failed
    <3>3. QED
      BY <1>5, <3>1, <3>2
  <2>5. remote' \in [Task -> Value] /\ crossed' \in [Run -> SUBSET Task]
    BY <1>4, <2>3, <2>4 DEF ShapeInv
  <2>6. done' \in [Run -> SUBSET (Task \X Status)]
    BY <2>3, <2>4 DEF ShapeInv
  <2>7. faults' \in 0..MaxEvents
    BY <2>1, SyncAssumption DEF ShapeInv, SyncAssumption
  <2>8. todo' \in [Run -> SUBSET Task]
    BY <2>1 DEF ShapeInv
  <2>9. QED
    BY <2>1, <2>5, <2>6, <2>7, <2>8 DEF ShapeInv
<1>6. ASSUME NEW t \in Task, NEW s \in Status, Edit(t, s) PROVE ShapeInv'
  <2>1. remote' \in [Task -> Value]
    BY <1>6 DEF Edit, ShapeInv, Value
  <2>2. crossed' \in [Run -> SUBSET Task]
    BY <1>6 DEF Edit, ShapeInv
  <2>3. edits' \in 0..MaxEvents
    BY <1>6, SyncAssumption DEF Edit, ShapeInv, SyncAssumption
  <2>4. QED
    BY <1>6, <2>1, <2>2, <2>3 DEF Edit, ShapeInv, runVars
<1>7. CASE UNCHANGED vars
  BY <1>7 DEF vars, runVars, ShapeInv
<1>8. QED
  BY <1>1, <1>2, <1>3, <1>5, <1>6, <1>7 DEF Next, Step

LEMMA NextTodo == ShapeInv /\ FlagInv /\ TodoInv /\ [Next]_vars => TodoInv'
<1> SUFFICES ASSUME ShapeInv, FlagInv, TodoInv, [Next]_vars, NEW d \in Run PROVE Held(d)'
  BY DEF TodoInv
<1>1. Held(d) /\ Known(remote) \subseteq Known(remote)'
  BY KnownGrows DEF TodoInv
<1>2. ASSUME Kept(d) PROVE Held(d)'
  <2>1. MainTasks(d)' = MainTasks(d) /\ Critical(d)' = Critical(d)
    BY <1>2, CriticalStays, KeptStays
  <2>2. \A t : Targeted(d, t)' = Targeted(d, t)
    BY <1>2, TargetStays DEF Kept
  <2>3. QED
    BY <1>1, <1>2, <2>1, <2>2 DEF Held, Kept
<1>3. CASE Begin(d)
  <2>1. \/ pc'[d] = "projects" /\ todo'[d] = MissingProjects(d, remote)'
        \/ pc'[d] = "end"
    BY <1>3, BeginEffect
  <2>2. MissingProjects(d, remote)' \subseteq MainTasks(d)'
    BY DEF MissingProjects, MainTasks
  <2>3. QED
    BY <2>1, <2>2 DEF Held
<1>4. CASE Step(d) /\ pc[d] # "new"
  <2>1. Stays(d)
    BY <1>4, BegunStays
  <2>2. MainTasks(d)' = MainTasks(d) /\ Critical(d)' = Critical(d)
    BY <2>1, CriticalStays
  <2>3. \A t : Targeted(d, t)' = Targeted(d, t)
    BY <2>1, TargetStays DEF Stays
  <2>4. CASE FetchAgain(d)
    <3>1. \/ pc'[d] = "series" /\ todo'[d] = MissingSeries(d, remote)
          \/ /\ pc'[d] = "status" /\ todo'[d] = {t \in Known(remote) : Raises(d, t, remote[t])}
          \/ pc'[d] = "end"
      BY <2>4, FetchEffect
    <3>2. \A t : Raises(d, t, remote[t]) => Targeted(d, t)
      BY DEF Raises
    <3>3. QED
      BY <1>1, <2>2, <2>3, <3>1, <3>2, MissingIsCritical DEF Held
  <2>5. CASE End(d)
    <3>1. pc'[d] = "end"
      BY <2>5 DEF End, Goto, ShapeInv
    <3>2. QED
      BY <3>1 DEF Held
  <2>6. ASSUME NEW t \in Task, AddTask(d, t) \/ UpdateStatus(d, t) PROVE Held(d)'
    <3>1. pc'[d] = pc[d] /\ todo'[d] \subseteq todo[d] /\ pc[d] # "new"
      BY <2>6, AddEffect, UpdateEffect
    <3>2. QED
      BY <1>1, <2>2, <2>3, <3>1 DEF Held
  <2>7. QED
    BY <1>4, <2>4, <2>5, <2>6 DEF Step, Begin
<1>5. CASE Step(d) /\ pc[d] = "new"
  BY <1>3, <1>5, AddEffect, UpdateEffect DEF Step, FetchAgain, End
<1>6. ASSUME NEW c \in Run, Step(c), c # d PROVE Kept(d)
  BY <1>6, OthersKept
<1>7. ASSUME NEW t \in Task, NEW s \in Status, Edit(t, s) PROVE Kept(d)
  BY <1>7, EditKeeps
<1>8. CASE UNCHANGED vars
  BY <1>2, <1>8 DEF vars, runVars, Kept
<1>9. QED
  BY <1>2, <1>4, <1>5, <1>6, <1>7, <1>8 DEF Next

\* What the arguments below rest on.
BaseInv == ShapeInv /\ FlagInv /\ TodoInv

LEMMA BaseInvariance ==
  /\ Init => BaseInv
  /\ BaseInv /\ [Next]_vars => BaseInv'
BY InitShape, InitTodo, NextShape, NextFlags, NextTodo DEF BaseInv

-----------------------------------------------------------------------------
\* A run sees nothing before it begins, then what may be collected.
SeenInv == seen \in [Run -> Evidence \cup {Nothing}]

LEMMA SeenTypes ==
  ASSUME SeenInv, NEW c \in Run
  PROVE  /\ seen[c].on \in [Commit -> SUBSET Branch] /\ seen[c].read \in [Project -> SUBSET Stable]
         /\ seen[c].tags \in [Project \X Series -> SUBSET BOOLEAN]
<1>1. CASE seen[c] \in Evidence
  BY <1>1, SyncAssumption DEF SyncAssumption, Collected
<1>2. CASE seen[c] = Nothing
  BY <1>2 DEF Nothing
<1>3. QED
  BY <1>1, <1>2 DEF SeenInv

LEMMA InitSeen == Init => SeenInv
BY DEF Init, SeenInv

LEMMA NextSeen == SeenInv /\ [Next]_vars => SeenInv'
<1> SUFFICES ASSUME SeenInv, [Next]_vars PROVE SeenInv'
  OBVIOUS
<1>1. ASSUME NEW c \in Run, Begin(c) PROVE SeenInv'
  <2>1. PICK e \in Evidence : seen' = [seen EXCEPT ![c] = e]
    BY <1>1, Zenon DEF Begin
  <2>2. QED
    BY <2>1 DEF SeenInv
<1>2. CASE seen' = seen
  BY <1>2 DEF SeenInv
<1>3. QED
  BY <1>1, <1>2, Zenon DEF Next, Step, FetchAgain, AddTask, UpdateStatus, End, Edit, vars, runVars

\* What a run released, every affected component says is released.
ReleasedBy(c) ==
  \A t \in Task :
    <<t, "Fix Released">> \in done[c] =>
      \A p \in Components(c, t) : Component(c, p, t) = "Fix Released"

ReleasedInv == \A c \in Run : ReleasedBy(c)

LEMMA ReleasedTarget ==
  ASSUME NEW c, NEW t, Targeted(c, t), TargetStatus(c, t) = "Fix Released",
         NEW p \in Components(c, t)
  PROVE  Component(c, p, t) = "Fix Released"
<1>1. Weakest(c, t, "Fix Released")
  BY WeakestIsTarget DEF Targeted
<1>2. "Fix Released" \in Goals /\ Component(c, p, t) \in Goals
  BY ComponentGoal DEF Goals
<1>3. Rank("Fix Released") <= Rank(Component(c, p, t))
  BY <1>1, Zenon DEF Weakest
<1>4. Rank(Component(c, p, t)) <= Rank("Fix Released")
  <2>1. Rank("Fix Released") = 3
    BY Ranks
  <2>2. QED
    BY <2>1, RankOrder, Zenon
<1>5. Rank("Fix Released") = Rank(Component(c, p, t))
  BY <1>3, <1>4, RankOrder, Zenon
<1>6. QED
  BY <1>2, <1>5, SameRank

LEMMA NextReleased == BaseInv /\ ReleasedInv /\ [Next]_vars => ReleasedInv'
<1> SUFFICES ASSUME BaseInv, ReleasedInv, [Next]_vars, NEW d \in Run PROVE ReleasedBy(d)'
  BY DEF ReleasedInv
<1> USE DEF BaseInv
<1>1. ReleasedBy(d) /\ Held(d)
  BY DEF ReleasedInv, TodoInv
<1>2. ASSUME scope'[d] = scope[d], seen'[d] = seen[d],
             \A t \in Task : <<t, "Fix Released">> \in done'[d] =>
               \/ <<t, "Fix Released">> \in done[d]
               \/ Targeted(d, t) /\ TargetStatus(d, t) = "Fix Released"
      PROVE  ReleasedBy(d)'
  <2> SUFFICES ASSUME NEW t \in Task, <<t, "Fix Released">> \in done'[d],
                      NEW p \in Components(d, t)'
               PROVE  Component(d, p, t)' = "Fix Released"
    BY DEF ReleasedBy
  <2>1. p \in Components(d, t) /\ Component(d, p, t)' = Component(d, p, t)
    BY <1>2, TargetStays
  <2>2. QED
    BY <1>1, <1>2, <2>1, ReleasedTarget DEF ReleasedBy
<1>3. ASSUME Kept(d) PROVE ReleasedBy(d)'
  BY <1>2, <1>3 DEF Kept
<1>4. CASE Begin(d)
  <2>1. done'[d] = {}
    BY <1>1, <1>4, BeginEffect DEF Held
  <2>2. QED
    BY <2>1 DEF ReleasedBy
<1>5. CASE FetchAgain(d) \/ End(d)
  BY <1>2, <1>5 DEF FetchAgain, End
<1>6. ASSUME NEW t \in Task, AddTask(d, t) PROVE ReleasedBy(d)'
  <2>1. scope'[d] = scope[d] /\ seen'[d] = seen[d]
    BY <1>6 DEF AddTask
  <2>2. done'[d] = done[d] \cup {<<t, "New">>} \/ done'[d] = done[d]
    BY <1>6, AddEffect
  <2>3. ASSUME NEW u \in Task, <<u, "Fix Released">> \in done'[d]
        PROVE  <<u, "Fix Released">> \in done[d]
    <3>1. <<u, "Fix Released">> # <<t, "New">>
      OBVIOUS
    <3>2. PICK x, y : x = <<u, "Fix Released">> /\ y = <<t, "New">>
      OBVIOUS
    <3>3. x \in done'[d] /\ x # y /\ (done'[d] = done[d] \cup {y} \/ done'[d] = done[d])
      BY <2>2, <2>3, <3>1, <3>2, Zenon
    <3>4. x \in done[d]
      BY <3>3
    <3>5. QED
      BY <3>2, <3>4
  <2>4. QED
    BY <1>2, <2>1, <2>3
<1>7. ASSUME NEW t \in Task, UpdateStatus(d, t) PROVE ReleasedBy(d)'
  <2>1. scope'[d] = scope[d] /\ seen'[d] = seen[d]
    BY <1>7 DEF UpdateStatus
  <2>2. Targeted(d, t)
    BY <1>1, <1>7, UpdateEffect DEF Held
  <2>3. done'[d] = done[d] \cup {<<t, TargetStatus(d, t)>>} \/ done'[d] = done[d]
    BY <1>7, UpdateEffect
  <2>4. ASSUME NEW u \in Task, <<u, "Fix Released">> \in done'[d]
        PROVE  \/ <<u, "Fix Released">> \in done[d]
               \/ Targeted(d, u) /\ TargetStatus(d, u) = "Fix Released"
    <3>1. CASE <<u, "Fix Released">> = <<t, TargetStatus(d, t)>>
      <4>1. u = t /\ TargetStatus(d, t) = "Fix Released"
        BY <3>1
      <4>2. QED
        BY <2>2, <4>1
    <3>2. QED
      BY <2>3, <2>4, <3>1
  <2>5. QED
    BY <1>2, <2>1, <2>4
<1>8. ASSUME NEW c \in Run, Step(c), c # d PROVE Kept(d)
  BY <1>8, OthersKept
<1>9. ASSUME NEW t \in Task, NEW s \in Status, Edit(t, s) PROVE Kept(d)
  BY <1>9, EditKeeps
<1>10. CASE UNCHANGED vars
  BY <1>3, <1>10 DEF vars, runVars, Kept
<1>11. QED
  BY <1>3, <1>4, <1>5, <1>6, <1>7, <1>8, <1>9, <1>10 DEF Next, Step

\* What is collected of a branch.
LEMMA CollectHas ==
  ASSUME NEW e, NEW p, NEW b \in Branch, NEW k \in Counted(e, p, b)
  PROVE  <<b, KindOf[k]>> \in Collect(e, p)
<1>1. <<b, KindOf[k]>> \in {<<b, KindOf[j]>> : j \in Counted(e, p, b)}
  BY Zenon
<1>2. QED
  BY <1>1, Zenon DEF Collect

LEMMA CollectFrom ==
  ASSUME NEW e, NEW p, NEW r \in Collect(e, p)
  PROVE  r = <<r[1], r[2]>> /\ \E k \in Counted(e, p, r[1]) : r[2] = KindOf[k]
<1>1. PICK b \in Branch : r \in {<<b, KindOf[k]>> : k \in Counted(e, p, b)}
  BY Zenon DEF Collect
<1>2. PICK k \in Counted(e, p, b) : r = <<b, KindOf[k]>>
  BY <1>1, Zenon
<1>3. r[1] = b /\ r[2] = KindOf[k]
  BY <1>2
<1>4. QED
  BY <1>2, <1>3

\* A project says "Fix Released" when it has a closing commit and all revisions
\* have the fix.
LEMMA ReleasedCloses ==
  ASSUME NEW c, NEW p \in Project, NEW t, Component(c, p, t) = "Fix Released"
  PROVE  /\ FALSE \notin seen[c].tags[<<p, t[2]>>]
         /\ \E j \in Commit : ProjectOf[j] = p /\ KindOf[j] = "Closes" /\ Counts(c, j, t)
<1>1. Refers(c, p, {"Closes"}) \cap CountFor(t) # {} /\ Released(c, p, t[2])
  BY DEF Component
<1>2. PICK b \in CountFor(t) : b \in Refers(c, p, {"Closes"})
  BY <1>1
<1>3. PICK r \in Collect(seen[c], p) : r[2] = "Closes" /\ b = r[1]
  BY <1>2 DEF Refers
<1>4. PICK j \in Counted(seen[c], p, b) : KindOf[j] = "Closes"
  <2>1. \E j \in Counted(seen[c], p, r[1]) : r[2] = KindOf[j]
    BY <1>3, CollectFrom, Zenon
  <2>2. QED
    BY <1>3, <2>1
<1>5. j \in Commit /\ ProjectOf[j] = p
  BY DEF Counted
<1>6. Counts(c, j, t)
  BY <1>2, <1>4, <1>5 DEF Counts
<1>7. FALSE \notin seen[c].tags[<<p, t[2]>>]
  BY <1>1 DEF Released
<1>8. QED
  BY <1>4, <1>5, <1>6, <1>7

LEMMA ReleasedShips ==
  ASSUME SeenInv, ReleasedInv
  PROVE  ReleasedIsShipped
<1> SUFFICES ASSUME NEW c \in Run, NEW t \in Task, <<t, "Fix Released">> \in done[c],
                    NEW k \in Commit, ProjectOf[k] \in scope[c], t[1] \in LPOf[ProjectOf[k]],
                    KindOf[k] # "Related", Counts(c, k, t)
             PROVE  /\ FALSE \notin seen[c].tags[<<ProjectOf[k], t[2]>>]
                    /\ \E j \in Commit : /\ ProjectOf[j] = ProjectOf[k]
                                         /\ KindOf[j] = "Closes" /\ Counts(c, j, t)
  BY DEF ReleasedIsShipped
<1>1. PICK p \in Project : p = ProjectOf[k]
  BY SyncAssumption DEF SyncAssumption
<1>2. PICK b \in CountFor(t) : k \in Counted(seen[c], p, b)
  BY <1>1 DEF Counts
<1>3. b \in Branch
  BY <1>2, SeenTypes DEF Counted
<1>4. KindOf[k] \in {"Closes", "Partial"}
  BY SyncAssumption DEF SyncAssumption, Reference
<1>5. <<b, KindOf[k]>> \in Collect(seen[c], p)
  BY <1>2, <1>3, CollectHas
<1>6. b \in Affected(c, p)
  <2>1. PICK r : r = <<b, KindOf[k]>>
    OBVIOUS
  <2>2. r \in Collect(seen[c], p) /\ r[1] = b /\ r[2] \in {"Closes", "Partial"}
    BY <1>4, <1>5, <2>1
  <2>3. QED
    BY <2>2, Zenon DEF Affected, Refers
<1>7. p \in Components(c, t)
  BY <1>1, <1>2, <1>6 DEF Components
<1>8. Component(c, p, t) = "Fix Released"
  BY <1>7 DEF ReleasedInv, ReleasedBy
<1>9. QED
  BY <1>1, <1>8, ReleasedCloses

\* A run makes a task Fix Released only when every commit of its projects that
\* counts for the task is of a project that has a closing one that counts, and
\* whose stable revisions all have the fix, whatever other runs and people do.
THEOREM ReleasedOnlyWhenShipped == Spec => []ReleasedIsShipped
<1>1. Init => BaseInv /\ SeenInv /\ ReleasedInv
  <2>1. Init => ReleasedInv
    BY DEF Init, ReleasedInv, ReleasedBy
  <2>2. QED
    BY <2>1, BaseInvariance, InitSeen
<1>2. BaseInv /\ SeenInv /\ ReleasedInv /\ [Next]_vars
        => (BaseInv /\ SeenInv /\ ReleasedInv)'
  BY BaseInvariance, NextSeen, NextReleased
<1>3. BaseInv /\ SeenInv /\ ReleasedInv => ReleasedIsShipped
  BY ReleasedShips DEF BaseInv
<1>4. QED
  BY <1>1, <1>2, <1>3, PTL DEF Spec

-----------------------------------------------------------------------------
\* What ShapeInv leaves out of the types.
TypeRest ==
  /\ SeenInv
  /\ named \in [Run -> BOOLEAN] /\ errors \in [Run -> BOOLEAN] /\ quiet \in [Run -> BOOLEAN]
  /\ alone \in [Run -> BOOLEAN]

LEMMA InitRest == Init => TypeRest
BY InitSeen DEF Init, TypeRest

LEMMA NextRest == TypeRest /\ [Next]_vars => TypeRest'
<1> SUFFICES ASSUME TypeRest, [Next]_vars PROVE TypeRest'
  OBVIOUS
<1>1. SeenInv'
  BY NextSeen DEF TypeRest
<1> DEFINE Flags == /\ named \in [Run -> BOOLEAN] /\ errors \in [Run -> BOOLEAN]
                    /\ quiet \in [Run -> BOOLEAN] /\ alone \in [Run -> BOOLEAN]
<1>2. Flags
  BY DEF TypeRest
<1>3. ASSUME NEW c \in Run, Begin(c) PROVE Flags'
  <2>1. PICK s \in Scope : named' = [named EXCEPT ![c] = s[2]]
    BY <1>3, Zenon DEF Begin
  <2>2. s[2] \in BOOLEAN
    BY SyncAssumption DEF SyncAssumption
  <2>3. /\ quiet' = quiet /\ alone' = alone
        /\ errors' = errors \/ errors' = [errors EXCEPT ![c] = TRUE]
    BY <1>3 DEF Begin, Unread
  <2>4. QED
    BY <1>2, <2>1, <2>2, <2>3
<1>4. ASSUME NEW c \in Run, FetchAgain(c) PROVE Flags'
  BY <1>2, <1>4 DEF FetchAgain, Unread
<1>5. ASSUME NEW c \in Run, NEW t \in Task, AddTask(c, t) \/ UpdateStatus(c, t) PROVE Flags'
  <2>1. named' = named /\ (Report(c) \/ UNCHANGED <<errors, quiet>>)
    BY <1>5 DEF AddTask, UpdateStatus, Acted, Failed, Refused
  <2>2. (\E s : Changes(c, t, s)) \/ alone' = alone
    BY <1>5 DEF AddTask, UpdateStatus, Acted, Failed, Refused
  <2>3. alone' \in [Run -> BOOLEAN]
    BY <1>2, <2>2 DEF Changes
  <2>4. QED
    BY <1>2, <2>1, <2>3 DEF Report
<1>6. ASSUME NEW t \in Task, NEW s \in Status, Edit(t, s) PROVE Flags'
  BY <1>2, <1>6 DEF Edit, runVars
<1>7. Flags'
  BY <1>2, <1>3, <1>4, <1>5, <1>6 DEF Next, Step, End, vars, runVars
<1>8. QED
  BY <1>1, <1>7 DEF TypeRest

\* Every variable keeps its type: what a run sets a task to is a status, because it
\* only handles tasks that some component says something of.
THEOREM TypeCorrect == Spec => []TypeOK
<1>1. Init => BaseInv /\ TypeRest
  BY BaseInvariance, InitRest
<1>2. BaseInv /\ TypeRest /\ [Next]_vars => (BaseInv /\ TypeRest)'
  BY BaseInvariance, NextRest
<1>3. BaseInv /\ TypeRest => TypeOK
  BY DEF BaseInv, ShapeInv, TypeRest, SeenInv, TypeOK, Value
<1>4. QED
  BY <1>1, <1>2, <1>3, PTL DEF Spec

-----------------------------------------------------------------------------
\* A task that a run still has to update is not above the target, or was changed,
\* after it fetched it, by people or by a run with another scope or evidence.
Below(c) ==
  pc[c] = "status" =>
    \A t \in todo[c] \ crossed[c] : Rank(remote[t]) <= Rank(TargetStatus(c, t))

LowInv == \A c \in Run : Below(c)

LEMMA CrossedGrows ==
  ASSUME ShapeInv, FlagInv, [Next]_vars, NEW d \in Run
  PROVE  crossed[d] \subseteq crossed'[d]
<1>1. ASSUME NEW c, NEW t, NEW s, Changes(c, t, s) PROVE crossed[d] \subseteq crossed'[d]
  BY <1>1 DEF Changes
<1>2. CASE crossed' = crossed
  BY <1>2
<1>3. ASSUME NEW t, NEW s, Edit(t, s) PROVE crossed[d] \subseteq crossed'[d]
  BY <1>3 DEF Edit
<1>4. ASSUME NEW c \in Run, NEW t \in Task, AddTask(c, t) \/ UpdateStatus(c, t)
      PROVE  crossed[d] \subseteq crossed'[d]
  <2>1. (\E s : Changes(c, t, s)) \/ crossed' = crossed
    BY <1>4 DEF AddTask, UpdateStatus, Acted, Failed, Refused
  <2>2. QED
    BY <1>1, <1>2, <2>1
<1>5. QED
  BY <1>2, <1>3, <1>4 DEF Next, Step, Begin, FetchAgain, End, vars

\* Another run sets the same target, or crosses.
LEMMA OtherBelow ==
  ASSUME BaseInv, NEW c \in Run, NEW d \in Run, c # d, Step(c), Below(d),
         pc[d] = "status", NEW t \in todo[d] \ crossed[d], t \notin crossed'[d]
  PROVE  Rank(remote'[t]) <= Rank(TargetStatus(d, t))
<1> USE DEF BaseInv
<1>1. Rank(remote[t]) <= Rank(TargetStatus(d, t))
  BY Zenon DEF Below
<1>2. CASE remote' = remote
  BY <1>1, <1>2
<1>3. t \in Task /\ Targeted(d, t)
  BY DEF TodoInv, Held, ShapeInv
<1>4. ASSUME NEW u \in Task, AddTask(c, u) PROVE Rank(remote'[t]) <= Rank(TargetStatus(d, t))
  <2>1. remote' = remote \/ remote' = [remote EXCEPT ![u] = "New"]
    BY <1>4, AddEffect DEF Moved, Changes
  <2>2. remote'[t] = remote[t] \/ remote'[t] = "New"
    BY <1>3, <2>1 DEF ShapeInv
  <2>3. CASE remote'[t] = "New"
    <3>1. Rank("New") = 0
      BY Ranks DEF Goals
    <3>2. QED
      BY <2>3, <3>1, RankOrder, Zenon
  <2>4. QED
    BY <1>1, <2>2, <2>3, Zenon
<1>5. ASSUME NEW u \in Task, UpdateStatus(c, u)
      PROVE  Rank(remote'[t]) <= Rank(TargetStatus(d, t))
  <2>1. CASE Changes(c, u, TargetStatus(c, u)) /\ u = t
    <3>1. Alike(c, d)
      BY <2>1 DEF Changes
    <3>2. TargetStatus(d, t) = TargetStatus(c, t)
      BY <1>3, <3>1, SameTarget DEF Alike
    <3>3. remote'[t] = TargetStatus(d, t)
      BY <1>3, <2>1, <3>2 DEF ShapeInv, Changes
    <3>4. QED
      BY <3>3, RankOrder, Zenon
  <2>2. CASE Changes(c, u, TargetStatus(c, u)) /\ u # t
    <3>1. remote'[t] = remote[t]
      BY <1>3, <2>2 DEF ShapeInv, Changes
    <3>2. QED
      BY <1>1, <3>1, Zenon
  <2>3. QED
    BY <1>2, <1>5, <2>1, <2>2, UpdateEffect DEF Moved
<1>6. QED
  BY <1>2, <1>4, <1>5 DEF Step, Begin, FetchAgain, End

LEMMA NextLow == BaseInv /\ LowInv /\ [Next]_vars => LowInv'
<1> SUFFICES ASSUME BaseInv, LowInv, [Next]_vars, NEW d \in Run PROVE Below(d)'
  BY DEF LowInv
<1> USE DEF BaseInv
<1>1. Below(d) /\ crossed[d] \subseteq crossed'[d]
  BY CrossedGrows DEF LowInv
<1>2. ASSUME scope'[d] = scope[d], seen'[d] = seen[d], NEW t, Targeted(d, t)
      PROVE  TargetStatus(d, t)' = TargetStatus(d, t)
  BY <1>2, TargetStays
<1>3. pc[d] = "status" => todo[d] \subseteq Task /\ \A t \in todo[d] : Targeted(d, t)
  BY DEF TodoInv, Held, ShapeInv
<1>4. ASSUME scope'[d] = scope[d], seen'[d] = seen[d],
             pc[d] = "status", todo'[d] \subseteq todo[d],
             \A t \in todo'[d] \ crossed'[d] : Rank(remote'[t]) <= Rank(TargetStatus(d, t))
      PROVE  Below(d)'
  <2> SUFFICES ASSUME NEW t \in todo'[d] \ crossed'[d]
               PROVE  Rank(remote'[t]) <= Rank(TargetStatus(d, t)')
    BY Zenon DEF Below
  <2>1. TargetStatus(d, t)' = TargetStatus(d, t)
    BY <1>2, <1>3, <1>4
  <2>2. QED
    BY <1>4, <2>1, Zenon
<1>5. CASE Begin(d) \/ End(d)
  <2>1. pc'[d] # "status"
    BY <1>5, BeginEffect DEF End, Goto, ShapeInv
  <2>2. QED
    BY <2>1 DEF Below
<1>6. CASE FetchAgain(d)
  <2> SUFFICES ASSUME pc'[d] = "status" PROVE Below(d)'
    BY DEF Below
  <2>1. /\ remote' = remote /\ scope'[d] = scope[d] /\ seen'[d] = seen[d]
        /\ todo'[d] = {t \in Known(remote) : Raises(d, t, remote[t])}
    BY <1>6, FetchEffect DEF FetchAgain
  <2> SUFFICES ASSUME NEW t \in todo'[d]
               PROVE  Rank(remote'[t]) <= Rank(TargetStatus(d, t)')
    BY Zenon DEF Below
  <2>2. Raises(d, t, remote[t]) /\ remote[t] \in Value
    BY <2>1 DEF Known, ShapeInv
  <2>3. Targeted(d, t) /\ Rank(remote[t]) <= Rank(TargetStatus(d, t))
    BY <2>2, RaisesUp
  <2>4. TargetStatus(d, t)' = TargetStatus(d, t)
    BY <1>2, <2>1, <2>3
  <2>5. QED
    BY <2>1, <2>3, <2>4, Zenon
<1>7. ASSUME NEW u \in Task, AddTask(d, u) PROVE Below(d)'
  BY <1>7, AddEffect DEF Below
<1>8. ASSUME NEW u \in Task, UpdateStatus(d, u) PROVE Below(d)'
  <2>1. /\ pc[d] = "status" /\ todo'[d] = todo[d] \ {u}
        /\ scope'[d] = scope[d] /\ seen'[d] = seen[d]
        /\ remote' = remote \/ remote' = [remote EXCEPT ![u] = TargetStatus(d, u)]
    BY <1>8, UpdateEffect DEF UpdateStatus, Moved, Changes
  <2>2. ASSUME NEW t \in todo'[d] \ crossed'[d]
        PROVE  Rank(remote'[t]) <= Rank(TargetStatus(d, t))
    <3>1. t \in todo[d] \ crossed[d] /\ t \in Task /\ t # u
      BY <1>1, <1>3, <2>1
    <3>2. remote'[t] = remote[t]
      BY <2>1, <3>1 DEF ShapeInv
    <3>3. QED
      BY <1>1, <2>1, <3>1, <3>2, Zenon DEF Below
  <2>3. QED
    BY <1>4, <2>1, <2>2
<1>9. ASSUME NEW c \in Run, c # d, Step(c) PROVE Below(d)'
  <2>1. Kept(d)
    BY <1>9, OthersKept
  <2>2. CASE pc[d] # "status"
    BY <2>1, <2>2 DEF Kept, Below
  <2>3. CASE pc[d] = "status"
    <3>1. \A t \in todo'[d] \ crossed'[d] : Rank(remote'[t]) <= Rank(TargetStatus(d, t))
      BY <1>1, <1>9, <2>1, <2>3, OtherBelow DEF Kept
    <3>2. QED
      BY <1>4, <2>1, <2>3, <3>1 DEF Kept
  <2>4. QED
    BY <2>2, <2>3
<1>10. ASSUME NEW u \in Task, NEW s \in Status, Edit(u, s) PROVE Below(d)'
  <2>1. Kept(d)
    BY <1>10, EditKeeps
  <2>2. CASE pc[d] # "status"
    BY <2>1, <2>2 DEF Kept, Below
  <2>3. CASE pc[d] = "status"
    <3>1. ASSUME NEW t \in todo'[d] \ crossed'[d]
          PROVE  Rank(remote'[t]) <= Rank(TargetStatus(d, t))
      <4>1. t \in todo[d] \ crossed[d] /\ t \in Task
        BY <1>1, <1>3, <2>1, <2>3, <3>1 DEF Kept
      <4>2. u \in crossed'[d]
        BY <1>10, <2>3 DEF Edit
      <4>3. remote'[t] = remote[t]
        BY <1>10, <4>1, <4>2 DEF Edit, ShapeInv
      <4>4. QED
        BY <1>1, <2>3, <4>1, <4>3, Zenon DEF Below
    <3>2. QED
      BY <1>4, <2>1, <2>3, <3>1 DEF Kept
  <2>4. QED
    BY <2>2, <2>3
<1>11. CASE UNCHANGED vars
  <2>1. Kept(d) /\ remote' = remote /\ crossed' = crossed
    BY <1>11 DEF vars, runVars, Kept
  <2>2. CASE pc[d] # "status"
    BY <2>1, <2>2 DEF Kept, Below
  <2>3. CASE pc[d] = "status"
    <3>1. \A t \in todo'[d] \ crossed'[d] : Rank(remote'[t]) <= Rank(TargetStatus(d, t))
      BY <1>1, <2>1, <2>3, Zenon DEF Kept, Below
    <3>2. QED
      BY <1>4, <2>1, <2>3, <3>1 DEF Kept
  <2>4. QED
    BY <2>2, <2>3
<1>12. QED
  BY <1>5, <1>6, <1>7, <1>8, <1>9, <1>10, <1>11 DEF Next, Step

\* The property of a step.
Lowers(t) ==
  Rank(remote'[t]) < Rank(remote[t]) =>
    \/ edits' # edits
    \/ \E c \in Run : pc[c] = "status" /\ t \in todo[c] \ todo'[c] /\ t \in crossed[c]

LEMMA StepLowers ==
  ASSUME BaseInv, LowInv, [Next]_vars, NEW t \in Task
  PROVE  Lowers(t)
<1> USE DEF BaseInv
<1>1. ASSUME ~(Rank(remote'[t]) < Rank(remote[t])) PROVE Lowers(t)
  BY <1>1, Zenon DEF Lowers
<1>2. ASSUME remote'[t] = remote[t] PROVE Lowers(t)
  <2>1. Rank(remote[t]) <= Rank(remote'[t])
    BY <1>2, RankOrder, Zenon
  <2>2. QED
    BY <1>1, <2>1, RankOrder, Zenon
<1>3. ASSUME NEW c \in Run, NEW u \in Task, AddTask(c, u) PROVE Lowers(t)
  <2>1. CASE remote[u] = Absent /\ remote' = [remote EXCEPT ![u] = "New"] /\ u = t
    <3>1. Rank(remote[t]) = 0
      BY <2>1, Ranks DEF Absent, Goals
    <3>2. QED
      BY <1>1, <3>1, RankOrder, Zenon
  <2>2. CASE remote' = remote \/ (u # t /\ remote' = [remote EXCEPT ![u] = "New"])
    BY <1>2, <2>2 DEF ShapeInv
  <2>3. QED
    BY <1>3, <2>1, <2>2, AddEffect DEF Moved, Changes
<1>4. ASSUME NEW c \in Run, NEW u \in Task, UpdateStatus(c, u) PROVE Lowers(t)
  <2>1. CASE remote' = [remote EXCEPT ![u] = TargetStatus(c, u)] /\ u = t
    <3>1. pc[c] = "status" /\ t \in todo[c] \ todo'[c]
      BY <1>4, <2>1, UpdateEffect
    <3>2. CASE t \in crossed[c]
      BY <3>1, <3>2 DEF Lowers
    <3>3. CASE t \notin crossed[c]
      <4>1. Below(c)
        BY DEF LowInv
      <4>2. Rank(remote[t]) <= Rank(TargetStatus(c, t))
        BY <3>1, <3>3, <4>1 DEF Below
      <4>3. remote'[t] = TargetStatus(c, t)
        BY <2>1 DEF ShapeInv
      <4>4. QED
        BY <1>1, <4>2, <4>3, RankOrder, Zenon
    <3>4. QED
      BY <3>2, <3>3
  <2>2. CASE remote' = remote \/ (u # t /\ remote' = [remote EXCEPT ![u] = TargetStatus(c, u)])
    BY <1>2, <2>2 DEF ShapeInv
  <2>3. QED
    BY <1>4, <2>1, <2>2, UpdateEffect DEF Moved, Changes
<1>5. ASSUME NEW u \in Task, NEW s \in Status, Edit(u, s) PROVE Lowers(t)
  <2>1. edits' = edits + 1 /\ edits \in Nat
    BY <1>5 DEF Edit, ShapeInv
  <2>2. edits' # edits
    BY <2>1
  <2>3. QED
    BY <2>2, Zenon DEF Lowers
<1>6. CASE remote' = remote
  BY <1>2, <1>6
<1>7. QED
  BY <1>3, <1>4, <1>5, <1>6 DEF Next, Step, Begin, FetchAgain, End, vars

\* No run lowers a status: not one that people or another run, of other projects
\* and with other evidence, set before it fetched the tasks it updates, nor one
\* that a run alike sets after that.
THEOREM StatusNeverLowered == Spec => NeverLowered
<1>1. Init => BaseInv /\ LowInv
  <2>1. Init => LowInv
    BY DEF Init, LowInv, Below
  <2>2. QED
    BY <2>1, BaseInvariance
<1>2. BaseInv /\ LowInv /\ [Next]_vars => (BaseInv /\ LowInv)'
  BY BaseInvariance, NextLow
<1>3. BaseInv /\ LowInv /\ [Next]_vars => \A t \in Task : Lowers(t)
  BY StepLowers
<1>4. (\A t \in Task : Lowers(t)) =>
        [\A t \in Task :
           Rank(remote'[t]) < Rank(remote[t]) =>
             \/ edits' # edits
             \/ \E c \in Run : pc[c] = "status" /\ t \in todo[c] \ todo'[c] /\ t \in crossed[c]]_vars
  BY Zenon DEF Lowers
<1>5. QED
  BY <1>1, <1>2, <1>3, <1>4, PTL DEF Spec, NeverLowered

-----------------------------------------------------------------------------
\* The plan of a run for the tasks it fetched first, phase by phase.
FirstProjects(c) == MissingProjects(c, first[c])
FirstSeries(c) == MissingSeries(c, Add(first[c], FirstProjects(c)))
FirstAll(c) == Add(first[c], FirstProjects(c) \cup FirstSeries(c))
FirstRaised(c) == {t \in Known(FirstAll(c)) : Raises(c, t, FirstAll(c)[t])}

Updates(c, ts) == {<<t, TargetStatus(c, t)>> : t \in ts}

LEMMA PlanParts ==
  ASSUME NEW c
  PROVE  Plan(c, first[c]) =
           AddActions(FirstProjects(c) \cup FirstSeries(c)) \cup Updates(c, FirstRaised(c))
BY Zenon DEF Plan, FirstRaised, FirstAll, FirstSeries, FirstProjects, Updates

LEMMA FirstStays ==
  ASSUME [Next]_vars, NEW c, Stays(c)
  PROVE  /\ FirstProjects(c)' = FirstProjects(c) /\ FirstSeries(c)' = FirstSeries(c)
         /\ FirstRaised(c)' = FirstRaised(c)
         /\ \A ts : ts \subseteq FirstRaised(c) =>
              {<<t, TargetStatus(c, t)'>> : t \in ts} = Updates(c, ts)
<1>1. PICK F : F = first[c]
  OBVIOUS
<1>2. first'[c] = F /\ scope'[c] = scope[c] /\ seen'[c] = seen[c]
  BY <1>1 DEF Stays
<1>3. \A tasks : MissingProjects(c, tasks)' = MissingProjects(c, tasks)
  BY CriticalStays
<1>4. Critical(c)' = Critical(c)
  BY CriticalStays
<1>5. PICK P : P = MissingProjects(c, F)
  OBVIOUS
<1>6. FirstProjects(c) = P /\ FirstProjects(c)' = P
  BY <1>1, <1>2, <1>3, <1>5 DEF FirstProjects
<1>7. PICK S : S = Critical(c) \ Known(Add(F, P))
  OBVIOUS
<1>8. FirstSeries(c) = S
  BY <1>1, <1>6, <1>7, MissingIsCritical DEF FirstSeries
<1>9. FirstSeries(c)' = S
  <2>1. FirstSeries(c)' = Critical(c)' \ Known(Add(F, P))
    BY <1>2, <1>6 DEF FirstSeries, MissingSeries, Critical
  <2>2. QED
    BY <1>4, <1>7, <2>1
<1>10. PICK A : A = Add(F, P \cup S)
  OBVIOUS
<1>11. FirstAll(c) = A /\ FirstAll(c)' = A
  BY <1>1, <1>2, <1>6, <1>8, <1>9, <1>10 DEF FirstAll
<1>12. \A t, s : Raises(c, t, s)' = Raises(c, t, s)
  BY <1>2, RaisesStays
<1>13. PICK R : R = {t \in Known(A) : Raises(c, t, A[t])}
  OBVIOUS
<1>14. FirstRaised(c) = R
  BY <1>11, <1>13 DEF FirstRaised
<1>15. FirstRaised(c)' = R
  <2>1. FirstRaised(c)' = {t \in Known(A) : Raises(c, t, A[t])'}
    BY <1>11, Zenon DEF FirstRaised
  <2>2. \A t : Raises(c, t, A[t])' = Raises(c, t, A[t])
    BY <1>12
  <2>3. QED
    BY <1>13, <2>1, <2>2
<1>16. ASSUME NEW ts, ts \subseteq FirstRaised(c)
       PROVE  {<<t, TargetStatus(c, t)'>> : t \in ts} = Updates(c, ts)
  <2>1. \A t \in ts : Targeted(c, t)
    BY <1>16 DEF FirstRaised, Raises
  <2>2. \A t \in ts : TargetStatus(c, t)' = TargetStatus(c, t)
    BY <1>2, <2>1, TargetStays
  <2>3. QED
    BY <2>2, Zenon DEF Updates
<1>17. QED
  BY <1>6, <1>8, <1>9, <1>14, <1>15, <1>16

\* A run that nobody disturbs.
Undisturbed(c) == ~errors[c] /\ ~quiet[c] /\ alone[c]

Planned(c) ==
  /\ pc[c] = "projects" =>
       /\ todo[c] \subseteq FirstProjects(c)
       /\ remote = Add(first[c], FirstProjects(c) \ todo[c])
       /\ done[c] = AddActions(FirstProjects(c) \ todo[c])
  /\ pc[c] = "series" =>
       /\ todo[c] \subseteq FirstSeries(c)
       /\ remote = Add(first[c], FirstProjects(c) \cup (FirstSeries(c) \ todo[c]))
       /\ done[c] = AddActions(FirstProjects(c) \cup (FirstSeries(c) \ todo[c]))
  /\ pc[c] = "status" =>
       /\ todo[c] \subseteq FirstRaised(c)
       /\ done[c] = AddActions(FirstProjects(c) \cup FirstSeries(c))
                      \cup Updates(c, FirstRaised(c) \ todo[c])
  /\ pc[c] = "end" =>
       done[c] = AddActions(FirstProjects(c) \cup FirstSeries(c))
                   \cup Updates(c, FirstRaised(c))

PlanInv == \A c \in Run : Undisturbed(c) => Planned(c)

\* Histories only grow.
LEMMA Grows ==
  ASSUME BaseInv, [Next]_vars, NEW d \in Run
  PROVE  /\ done[d] \subseteq done'[d]
         /\ errors[d] => errors'[d]
         /\ quiet[d] => quiet'[d]
         /\ edits' = edits \/ edits' = edits + 1
         /\ faults' = faults \/ faults' = faults + 1
<1> USE DEF BaseInv
<1>1. ASSUME NEW c \in Run, Begin(c) \/ FetchAgain(c)
      PROVE  /\ done' = done /\ quiet' = quiet /\ edits' = edits
             /\ errors[d] => errors'[d]
             /\ faults' = faults \/ faults' = faults + 1
  BY <1>1 DEF Begin, FetchAgain, Unread, Fault, FlagInv
<1>2. ASSUME NEW c \in Run, NEW t \in Task, AddTask(c, t) \/ UpdateStatus(c, t)
      PROVE  /\ done[d] \subseteq done'[d] /\ edits' = edits
             /\ (errors[d] => errors'[d]) /\ (quiet[d] => quiet'[d])
             /\ faults' = faults \/ faults' = faults + 1
  <2>1. done[d] \subseteq done'[d]
    BY <1>2 DEF AddTask, UpdateStatus, Acted, Failed, Refused, ShapeInv
  <2>2. Report(c) \/ UNCHANGED <<errors, quiet>>
    BY <1>2 DEF AddTask, UpdateStatus, Acted, Failed, Refused
  <2>3. (errors[d] => errors'[d]) /\ (quiet[d] => quiet'[d])
    BY <2>2 DEF Report, FlagInv
  <2>4. edits' = edits /\ (faults' = faults \/ faults' = faults + 1)
    BY <1>2 DEF AddTask, UpdateStatus, Acted, Failed, Refused, Fault
  <2>5. QED
    BY <2>1, <2>3, <2>4
<1>3. ASSUME NEW t, NEW s, Edit(t, s)
      PROVE  UNCHANGED <<done, errors, quiet, faults>> /\ edits' = edits + 1
  BY <1>3 DEF Edit, runVars
<1>4. ASSUME NEW c \in Run, End(c) PROVE UNCHANGED <<done, errors, quiet, faults, edits>>
  BY <1>4 DEF End
<1>5. CASE UNCHANGED vars
  BY <1>5 DEF vars, runVars
<1>6. QED
  BY <1>1, <1>2, <1>3, <1>4, <1>5 DEF Next, Step

LEMMA UndisturbedBefore ==
  ASSUME BaseInv, [Next]_vars, NEW c \in Run, Undisturbed(c)'
  PROVE  Undisturbed(c)
<1> USE DEF BaseInv
<1>1. ~errors[c] /\ ~quiet[c]
  BY Grows DEF Undisturbed
<1>2. ASSUME NEW d, NEW t, NEW s, Changes(d, t, s) PROVE alone[c]
  BY <1>2 DEF Changes, Undisturbed
<1>3. ASSUME NEW t, NEW s, Edit(t, s) PROVE alone[c]
  BY <1>3 DEF Edit, Undisturbed
<1>4. ASSUME alone' = alone PROVE alone[c]
  BY <1>4 DEF Undisturbed
<1>5. ASSUME NEW d \in Run, NEW t \in Task, AddTask(d, t) \/ UpdateStatus(d, t) PROVE alone[c]
  <2>1. (\E s : Changes(d, t, s)) \/ alone' = alone
    BY <1>5 DEF AddTask, UpdateStatus, Acted, Failed, Refused
  <2>2. QED
    BY <1>2, <1>4, <2>1
<1>6. alone[c]
  BY <1>3, <1>4, <1>5 DEF Next, Step, Begin, FetchAgain, End, vars
<1>7. QED
  BY <1>1, <1>6 DEF Undisturbed

LEMMA AddOne ==
  ASSUME NEW F, NEW Y, NEW t \in Task
  PROVE  /\ Add(F, Y \cup {t}) = [Add(F, Y) EXCEPT ![t] = "New"]
         /\ AddActions(Y \cup {t}) = AddActions(Y) \cup {<<t, "New">>}
<1>1. Add(F, Y \cup {t}) = [Add(F, Y) EXCEPT ![t] = "New"]
  BY DEF Add
<1>2. AddActions(Y \cup {t}) = AddActions(Y) \cup {<<t, "New">>}
  BY DEF AddActions
<1>3. QED
  BY <1>1, <1>2

LEMMA AddNone ==
  ASSUME NEW F \in [Task -> Value]
  PROVE  Add(F, {}) = F /\ AddActions({}) = {}
<1>1. Add(F, {}) = F
  BY DEF Add
<1>2. AddActions({}) = {}
  BY DEF AddActions
<1>3. QED
  BY <1>1, <1>2

LEMMA UpdateOne ==
  ASSUME NEW c, NEW Y, NEW t
  PROVE  /\ Updates(c, Y \cup {t}) = Updates(c, Y) \cup {<<t, TargetStatus(c, t)>>}
         /\ Updates(c, {}) = {}
BY DEF Updates

\* The steps of the run itself.
LEMMA BeginPlanned ==
  ASSUME BaseInv, [Next]_vars, NEW c \in Run, Begin(c), Undisturbed(c)'
  PROVE  Planned(c)'
<1> USE DEF BaseInv
<1>1. /\ remote' = remote /\ first'[c] = remote /\ done'[c] = {}
      /\ pc'[c] = "projects" /\ todo'[c] = MissingProjects(c, remote)'
  BY BeginEffect DEF Undisturbed, TodoInv, Held
<1>2. todo'[c] = FirstProjects(c)'
  BY <1>1 DEF FirstProjects
<1>3. FirstProjects(c)' \ todo'[c] = {}
  BY <1>2
<1>4. /\ remote' = Add(first'[c], FirstProjects(c)' \ todo'[c])
      /\ done'[c] = AddActions(FirstProjects(c)' \ todo'[c])
  BY <1>1, <1>3, AddNone DEF ShapeInv
<1>5. QED
  BY <1>1, <1>2, <1>4 DEF Planned

LEMMA FetchPlanned ==
  ASSUME BaseInv, [Next]_vars, NEW c \in Run, FetchAgain(c), Undisturbed(c)', Planned(c)
  PROVE  Planned(c)'
<1> USE DEF BaseInv
<1>1. /\ remote' = remote /\ done' = done /\ todo[c] = {}
      /\ \/ /\ pc[c] = "projects" /\ pc'[c] = "series"
            /\ todo'[c] = MissingSeries(c, remote)
         \/ /\ pc[c] = "series" /\ pc'[c] = "status"
            /\ todo'[c] = {t \in Known(remote) : Raises(c, t, remote[t])}
  BY FetchEffect DEF Undisturbed
<1>2. Stays(c)
  BY FetchEffect DEF FetchAgain, Stays
<1>3. PICK P, S, R, F : P = FirstProjects(c) /\ S = FirstSeries(c) /\ R = FirstRaised(c) /\ F = first[c]
  OBVIOUS
<1>4. /\ FirstProjects(c)' = P /\ FirstSeries(c)' = S /\ FirstRaised(c)' = R /\ first'[c] = F
      /\ {<<t, TargetStatus(c, t)'>> : t \in {}} = Updates(c, {})
  <2>1. {} \subseteq FirstRaised(c)
    OBVIOUS
  <2>2. QED
    BY <1>2, <1>3, <2>1, FirstStays DEF Stays
<1>5. CASE pc[c] = "projects"
  <2>1. pc'[c] = "series" /\ todo'[c] = MissingSeries(c, remote)
    BY <1>1, <1>5
  <2>2. P \ todo[c] = P
    BY <1>1
  <2>3. remote = Add(F, P) /\ done[c] = AddActions(P)
    BY <1>3, <1>5, <2>2 DEF Planned
  <2>4. todo'[c] = S
    BY <1>3, <2>1, <2>3 DEF FirstSeries
  <2>5. P \cup (S \ todo'[c]) = P
    BY <2>4
  <2>6. remote' = Add(F, P \cup (S \ todo'[c])) /\ done'[c] = AddActions(P \cup (S \ todo'[c]))
    BY <1>1, <2>3, <2>5
  <2>7. QED
    BY <1>4, <2>1, <2>4, <2>6 DEF Planned
<1>6. CASE pc[c] = "series"
  <2>1. pc'[c] = "status" /\ todo'[c] = {t \in Known(remote) : Raises(c, t, remote[t])}
    BY <1>1, <1>6
  <2>2. P \cup (S \ todo[c]) = P \cup S
    BY <1>1
  <2>3. remote = Add(F, P \cup S) /\ done[c] = AddActions(P \cup S)
    BY <1>3, <1>6, <2>2 DEF Planned
  <2>4. todo'[c] = R
    BY <1>3, <2>1, <2>3 DEF FirstRaised, FirstAll
  <2>5. R \ todo'[c] = {}
    BY <2>4
  <2>6. Updates(c, FirstRaised(c) \ todo[c])' = {<<t, TargetStatus(c, t)'>> : t \in R \ todo'[c]}
    BY <1>4 DEF Updates
  <2>7. Updates(c, FirstRaised(c) \ todo[c])' = {}
    BY <1>4, <2>5, <2>6, UpdateOne
  <2>8. done'[c] = AddActions(P \cup S) \cup Updates(c, FirstRaised(c) \ todo[c])'
    BY <1>1, <2>3, <2>7
  <2>9. QED
    BY <1>4, <2>1, <2>4, <2>8 DEF Planned
<1>7. QED
  BY <1>1, <1>5, <1>6

LEMMA AddPlanned ==
  ASSUME BaseInv, [Next]_vars, NEW c \in Run, NEW t \in Task, AddTask(c, t), Undisturbed(c)', Planned(c)
  PROVE  Planned(c)'
<1> USE DEF BaseInv
<1>1. /\ pc[c] \in {"projects", "series"} /\ pc' = pc
      /\ t \in todo[c] /\ todo'[c] = todo[c] \ {t}
      /\ remote' = [remote EXCEPT ![t] = "New"] /\ done'[c] = done[c] \cup {<<t, "New">>}
  BY AddEffect DEF Undisturbed, Told, Changes
<1>2. Stays(c)
  BY DEF AddTask, Stays
<1>3. PICK P, S, F : P = FirstProjects(c) /\ S = FirstSeries(c) /\ F = first[c]
  OBVIOUS
<1>4. FirstProjects(c)' = P /\ FirstSeries(c)' = S /\ first'[c] = F
  BY <1>2, <1>3, FirstStays DEF Stays
<1>5. CASE pc[c] = "projects"
  <2>1. PICK Y : Y = P \ todo[c]
    OBVIOUS
  <2>2. todo[c] \subseteq P /\ remote = Add(F, Y) /\ done[c] = AddActions(Y)
    BY <1>3, <1>5, <2>1 DEF Planned
  <2>3. P \ todo'[c] = Y \cup {t} /\ todo'[c] \subseteq P
    BY <1>1, <2>1, <2>2
  <2>4. remote' = Add(F, Y \cup {t}) /\ done'[c] = AddActions(Y \cup {t})
    BY <1>1, <2>2, AddOne
  <2>5. pc'[c] = "projects"
    BY <1>1, <1>5
  <2>6. QED
    BY <1>4, <2>3, <2>4, <2>5 DEF Planned
<1>6. CASE pc[c] = "series"
  <2>1. PICK Y : Y = P \cup (S \ todo[c])
    OBVIOUS
  <2>2. todo[c] \subseteq S /\ remote = Add(F, Y) /\ done[c] = AddActions(Y)
    BY <1>3, <1>6, <2>1 DEF Planned
  <2>3. P \cup (S \ todo'[c]) = Y \cup {t} /\ todo'[c] \subseteq S
    BY <1>1, <2>1, <2>2
  <2>4. remote' = Add(F, Y \cup {t}) /\ done'[c] = AddActions(Y \cup {t})
    BY <1>1, <2>2, AddOne
  <2>5. pc'[c] = "series"
    BY <1>1, <1>6
  <2>6. QED
    BY <1>4, <2>3, <2>4, <2>5 DEF Planned
<1>7. QED
  BY <1>1, <1>5, <1>6

LEMMA UpdatePlanned ==
  ASSUME BaseInv, [Next]_vars, NEW c \in Run, NEW t \in Task, UpdateStatus(c, t), Undisturbed(c)',
         Planned(c)
  PROVE  Planned(c)'
<1> USE DEF BaseInv
<1>1. /\ pc[c] = "status" /\ pc'[c] = "status"
      /\ t \in todo[c] /\ todo'[c] = todo[c] \ {t}
      /\ done'[c] = done[c] \cup {<<t, TargetStatus(c, t)>>}
  BY UpdateEffect DEF Undisturbed
<1>2. Stays(c)
  BY DEF UpdateStatus, Stays
<1>3. PICK P, S, R : P = FirstProjects(c) /\ S = FirstSeries(c) /\ R = FirstRaised(c)
  OBVIOUS
<1>4. /\ FirstProjects(c)' = P /\ FirstSeries(c)' = S /\ FirstRaised(c)' = R
      /\ \A ts : ts \subseteq R => {<<u, TargetStatus(c, u)'>> : u \in ts} = Updates(c, ts)
  BY <1>2, <1>3, FirstStays
<1>5. PICK Y : Y = R \ todo[c]
  OBVIOUS
<1>6. todo[c] \subseteq R /\ done[c] = AddActions(P \cup S) \cup Updates(c, Y)
  BY <1>1, <1>3, <1>5 DEF Planned
<1>7. R \ todo'[c] = Y \cup {t} /\ todo'[c] \subseteq R /\ Y \cup {t} \subseteq R
  BY <1>1, <1>5, <1>6
<1>8. done'[c] = AddActions(P \cup S) \cup Updates(c, Y \cup {t})
  BY <1>1, <1>6, UpdateOne
<1>9. Updates(c, FirstRaised(c) \ todo[c])' = Updates(c, Y \cup {t})
  <2>1. Updates(c, FirstRaised(c) \ todo[c])' = {<<u, TargetStatus(c, u)'>> : u \in Y \cup {t}}
    BY <1>4, <1>7 DEF Updates
  <2>2. QED
    BY <1>4, <1>7, <2>1
<1>10. QED
  BY <1>1, <1>4, <1>7, <1>8, <1>9 DEF Planned

\* A step that leaves the run as it was, and the tasks while it is under way.
LEMMA KeptPlanned ==
  ASSUME BaseInv, [Next]_vars, NEW c \in Run, Kept(c), c \in Running => remote' = remote,
         Planned(c)
  PROVE  Planned(c)'
<1>1. Stays(c)
  BY KeptStays
<1>2. PICK P, S, R, F : P = FirstProjects(c) /\ S = FirstSeries(c) /\ R = FirstRaised(c) /\ F = first[c]
  OBVIOUS
<1>3. /\ FirstProjects(c)' = P /\ FirstSeries(c)' = S /\ FirstRaised(c)' = R /\ first'[c] = F
      /\ \A ts : ts \subseteq R => {<<u, TargetStatus(c, u)'>> : u \in ts} = Updates(c, ts)
  BY <1>1, <1>2, FirstStays DEF Stays
<1>4. /\ Updates(c, FirstRaised(c) \ todo[c])' = Updates(c, R \ todo[c])
      /\ Updates(c, FirstRaised(c))' = Updates(c, R)
  <2>1. /\ Updates(c, FirstRaised(c) \ todo[c])' = {<<u, TargetStatus(c, u)'>> : u \in R \ todo[c]}
        /\ Updates(c, FirstRaised(c))' = {<<u, TargetStatus(c, u)'>> : u \in R}
    BY <1>3 DEF Updates, Kept
  <2>2. R \ todo[c] \subseteq R /\ R \subseteq R
    OBVIOUS
  <2>3. QED
    BY <1>3, <2>1, <2>2
<1>5. pc[c] \in {"projects", "series"} => remote' = remote
  BY DEF Running
<1>6. QED
  BY <1>2, <1>3, <1>4, <1>5 DEF Planned, Kept

LEMMA NextPlan == BaseInv /\ PlanInv /\ [Next]_vars => PlanInv'
<1> SUFFICES ASSUME BaseInv, PlanInv, [Next]_vars, NEW c \in Run, Undisturbed(c)' PROVE Planned(c)'
  BY DEF PlanInv
<1> USE DEF BaseInv
<1>1. Undisturbed(c) /\ Planned(c)
  BY UndisturbedBefore DEF PlanInv
<1>2. CASE Begin(c)
  BY <1>2, BeginPlanned
<1>3. CASE FetchAgain(c)
  BY <1>1, <1>3, FetchPlanned
<1>4. CASE End(c)
  <2>1. /\ pc[c] = "status" /\ todo[c] = {} /\ pc'[c] = "end" /\ done' = done /\ Stays(c)
    BY <1>4 DEF End, Goto, ShapeInv, Stays
  <2>2. PICK P, S, R : P = FirstProjects(c) /\ S = FirstSeries(c) /\ R = FirstRaised(c)
    OBVIOUS
  <2>3. /\ FirstProjects(c)' = P /\ FirstSeries(c)' = S /\ FirstRaised(c)' = R
        /\ \A ts : ts \subseteq R => {<<u, TargetStatus(c, u)'>> : u \in ts} = Updates(c, ts)
    BY <2>1, <2>2, FirstStays
  <2>4. R \ todo[c] = R
    BY <2>1
  <2>5. done[c] = AddActions(P \cup S) \cup Updates(c, R)
    BY <1>1, <2>1, <2>2, <2>4 DEF Planned
  <2>6. Updates(c, FirstRaised(c))' = {<<u, TargetStatus(c, u)'>> : u \in R}
    BY <2>3 DEF Updates
  <2>7. R \subseteq R
    OBVIOUS
  <2>8. Updates(c, FirstRaised(c))' = Updates(c, R)
    BY <2>3, <2>6, <2>7
  <2>9. QED
    BY <2>1, <2>3, <2>5, <2>8 DEF Planned
<1>5. ASSUME NEW t \in Task, AddTask(c, t) PROVE Planned(c)'
  BY <1>1, <1>5, AddPlanned
<1>6. ASSUME NEW t \in Task, UpdateStatus(c, t) PROVE Planned(c)'
  BY <1>1, <1>6, UpdatePlanned
<1>7. ASSUME NEW d \in Run, d # c, Step(d) PROVE Planned(c)'
  <2>1. Kept(c)
    BY <1>7, OthersKept
  <2>2. ASSUME c \in Running, NEW t, NEW s, Changes(d, t, s) PROVE FALSE
    BY <1>7, <2>2 DEF Changes, Undisturbed
  <2>3. ASSUME c \in Running, NEW t \in Task, AddTask(d, t) \/ UpdateStatus(d, t)
        PROVE  remote' = remote
    BY <2>2, <2>3, AddEffect, UpdateEffect DEF Moved
  <2>4. c \in Running => remote' = remote
    BY <1>7, <2>3 DEF Step, Begin, FetchAgain, End
  <2>5. QED
    BY <1>1, <2>1, <2>4, KeptPlanned
<1>8. ASSUME NEW t \in Task, NEW s \in Status, Edit(t, s) PROVE Planned(c)'
  <2>1. Kept(c)
    BY <1>8, EditKeeps
  <2>2. c \notin Running
    BY <1>8 DEF Edit, Undisturbed
  <2>3. QED
    BY <1>1, <2>1, <2>2, KeptPlanned
<1>9. CASE UNCHANGED vars
  BY <1>1, <1>9, KeptPlanned DEF vars, runVars, Kept
<1>10. QED
  BY <1>2, <1>3, <1>4, <1>5, <1>6, <1>7, <1>8, <1>9 DEF Next, Step

\* A run without errors, under which nobody else changed the tasks, took exactly
\* the actions that a dry run would have listed for the tasks it fetched first,
\* whatever they were, although it fetches them again before each phase.
THEOREM DryRunTells == Spec => []PlanIsWhatRuns
<1>1. Init => BaseInv /\ PlanInv
  <2>1. Init => PlanInv
    BY DEF Init, PlanInv, Planned
  <2>2. QED
    BY <2>1, BaseInvariance
<1>2. BaseInv /\ PlanInv /\ [Next]_vars => (BaseInv /\ PlanInv)'
  BY BaseInvariance, NextPlan
<1>3. PlanInv => PlanIsWhatRuns
  <2> SUFFICES ASSUME PlanInv, NEW c \in Run, pc[c] = "end", Undisturbed(c)
               PROVE  done[c] = Plan(c, first[c])
    BY DEF PlanIsWhatRuns, Undisturbed
  <2>1. Planned(c)
    BY DEF PlanInv
  <2>2. done[c] = AddActions(FirstProjects(c) \cup FirstSeries(c)) \cup Updates(c, FirstRaised(c))
    BY <2>1 DEF Planned
  <2>3. QED
    BY <2>2, PlanParts
<1>4. QED
  BY <1>1, <1>2, <1>3, PTL DEF Spec

-----------------------------------------------------------------------------
\* Nobody changed the tasks by hand, and no request failed of a run that reports it.
Calm == edits = 0 /\ ((\E d \in Run : errors[d]) => faults = 0)

\* A project has a task, and it is the one of the project or no run will add that.
Covered(l) ==
  /\ \E t \in Known(remote) : t[1] = l
  /\ \/ <<l, main>> \in Known(remote)
     \/ \A d \in Run : pc[d] = "projects" => <<l, main>> \notin todo[d]

\* The projects of a run are covered once it has handled them, as is every project
\* that has a task.
MainThere(c) ==
  \A t \in MainTasks(c) :
    /\ pc[c] = "projects" => t \in todo[c] \/ Covered(t[1])
    /\ pc[c] \in {"series", "status", "end"} => Covered(t[1])

MainInv ==
  Calm => /\ \A t \in Known(remote) : Covered(t[1])
          /\ \A c \in Run : MainThere(c)

\* A run that is told of no failure, while all runs are about the same projects and
\* saw the same.
Clean(c) == ~errors[c] /\ ~quiet[c] /\ \A d \in Run : pc[d] = "new" \/ Alike(c, d)

\* What the run would still raise.
Raised(c) == {t \in Known(remote) : Raises(c, t, remote[t])}

\* Its series tasks are there, and its statuses raised, but for what it has to do.
SeriesThere(c) ==
  /\ pc[c] = "series" => Critical(c) \subseteq Known(remote) \cup todo[c]
  /\ pc[c] \in {"status", "end"} => Critical(c) \subseteq Known(remote)
  /\ pc[c] = "status" => Raised(c) \subseteq todo[c]
  /\ pc[c] = "end" => Raised(c) = {}

DoneInv == Calm => \A c \in Run : Clean(c) => SeriesThere(c)

LEMMA CalmBefore ==
  ASSUME BaseInv, [Next]_vars, Calm'
  PROVE  /\ Calm /\ edits' = edits
         /\ \A c \in Run : errors'[c] => faults' = faults
<1>1. edits \in Nat /\ faults \in Nat
  BY DEF BaseInv, ShapeInv
<1>2. \A d \in Run : errors[d] => errors'[d]
  BY Grows
<1>3. CASE Run = {}
  <2>1. edits' = edits \/ edits' = edits + 1
    BY <1>3 DEF Next, Edit, vars
  <2>2. faults' = faults
    BY <1>3 DEF Next, Edit, vars
  <2>3. QED
    BY <1>1, <1>3, <2>1, <2>2 DEF Calm
<1>4. QED
  BY <1>1, <1>2, <1>3, Grows DEF Calm

\* A task of a project is in the place of its series tasks.
LEMMA MainOfCritical ==
  ASSUME NEW c, NEW t \in Critical(c)
  PROVE  <<t[1], main>> \in MainTasks(c)
<1>1. PICK p \in scope[c] : t[1] \in LPOf[p] /\ Affected(c, p) # {}
  BY DEF Critical
<1>2. p \in Involved(c)
  BY <1>1 DEF Involved
<1>3. QED
  BY <1>1, <1>2 DEF MainTasks

LEMMA AddedKnown ==
  ASSUME ShapeInv, NEW c, NEW t \in Task, NEW s, s # Absent, Changes(c, t, s)
  PROVE  Known(remote') = Known(remote) \cup {t}
BY DEF ShapeInv, Known, Changes

LEMMA MainTwice ==
  ASSUME NEW c, NEW t \in MainTasks(c)
  PROVE  t = <<t[1], main>>
BY DEF MainTasks

\* A step either leaves the tasks there are, or a run adds one of its own.
LEMMA KnownEffect ==
  ASSUME BaseInv, [Next]_vars, edits' = edits
  PROVE  \/ Known(remote)' = Known(remote)
         \/ \E c \in Run, t \in Task :
              /\ AddTask(c, t) /\ t \in todo[c] /\ remote[t] = Absent
              /\ Known(remote)' = Known(remote) \cup {t}
<1> USE DEF BaseInv
<1>1. ASSUME NEW c \in Run, Begin(c) \/ FetchAgain(c) \/ End(c) PROVE remote' = remote
  BY <1>1 DEF Begin, FetchAgain, End
<1>2. ASSUME NEW c \in Run, NEW t \in Task, AddTask(c, t)
      PROVE  \/ remote' = remote
             \/ /\ t \in todo[c] /\ remote[t] = Absent
                /\ Known(remote') = Known(remote) \cup {t}
  <2>1. "New" # Absent
    BY DEF Absent
  <2>2. QED
    BY <1>2, <2>1, AddEffect, AddedKnown DEF Moved
<1>3. ASSUME NEW c \in Run, NEW t \in Task, UpdateStatus(c, t)
      PROVE  Known(remote') = Known(remote)
  <2>1. PICK s : s = TargetStatus(c, t)
    OBVIOUS
  <2>2. remote' = remote \/ Changes(c, t, s)
    BY <1>3, <2>1, UpdateEffect DEF Moved
  <2>3. pc[c] = "status" /\ t \in todo[c]
    BY <1>3, UpdateEffect
  <2>4. s \in Goals /\ t \in Known(remote)
    BY <2>1, <2>3, TargetGoal DEF TodoInv, Held
  <2>5. s # Absent
    BY <2>4 DEF Goals, Absent
  <2>6. QED
    BY <2>2, <2>4, <2>5, AddedKnown
<1>4. ASSUME NEW t \in Task, NEW s \in Status, Edit(t, s) PROVE FALSE
  BY <1>4 DEF Edit, ShapeInv
<1>5. CASE UNCHANGED vars
  BY <1>5 DEF vars
<1>6. Known(remote)' = Known(remote')
  BY DEF Known
<1>7. QED
  BY <1>1, <1>2, <1>3, <1>4, <1>5, <1>6 DEF Next, Step

\* A run that will add the task of a project goes on from before, or has fetched
\* the bug without a task of that project.
LEMMA WantsMain ==
  ASSUME BaseInv, [Next]_vars, NEW d \in Run, pc'[d] = "projects", NEW t \in todo'[d]
  PROVE  \/ pc[d] = "projects" /\ t \in todo[d]
         \/ \A u \in Known(remote) : u[1] # t[1]
<1> USE DEF BaseInv
<1>1. CASE Begin(d)
  <2>1. t \in MissingProjects(d, remote)' /\ remote' = remote
    BY <1>1, BeginEffect
  <2>2. PICK l : t = <<l, main>> /\ l \notin {u[1] : u \in Known(remote)}
    BY <2>1, Zenon DEF MissingProjects, Known
  <2>3. QED
    BY <2>2
<1>2. CASE FetchAgain(d)
  BY <1>2, FetchEffect
<1>3. CASE End(d)
  BY <1>3 DEF End, Goto, ShapeInv
<1>4. ASSUME NEW u \in Task, AddTask(d, u) \/ UpdateStatus(d, u)
      PROVE  pc[d] = "projects" /\ t \in todo[d]
  BY <1>4, AddEffect, UpdateEffect
<1>5. ASSUME NEW c \in Run, c # d, Step(c) PROVE pc[d] = "projects" /\ t \in todo[d]
  BY <1>5, OthersKept DEF Kept
<1>6. ASSUME NEW u \in Task, NEW s \in Status, Edit(u, s)
      PROVE  pc[d] = "projects" /\ t \in todo[d]
  BY <1>6, EditKeeps DEF Kept
<1>7. CASE UNCHANGED vars
  BY <1>7 DEF vars, runVars
<1>8. QED
  BY <1>1, <1>2, <1>3, <1>4, <1>5, <1>6, <1>7 DEF Next, Step

LEMMA CoveredStays ==
  ASSUME BaseInv, [Next]_vars, NEW l, Covered(l)
  PROVE  Covered(l)'
<1>1. Known(remote) \subseteq Known(remote)'
  BY KnownGrows DEF BaseInv
<1>2. PICK u \in Known(remote) : u[1] = l
  BY DEF Covered
<1>3. ASSUME NEW d \in Run, pc'[d] = "projects", <<l, main>> \in todo'[d]
      PROVE  pc[d] = "projects" /\ <<l, main>> \in todo[d]
  <2>1. <<l, main>>[1] = l
    OBVIOUS
  <2>2. QED
    BY <1>2, <1>3, <2>1, WantsMain
<1>4. <<l, main>> \in Known(remote)' \/
        \A d \in Run : pc'[d] = "projects" => <<l, main>> \notin todo'[d]
  BY <1>1, <1>3 DEF Covered
<1>5. QED
  BY <1>1, <1>2, <1>4 DEF Covered

LEMMA MainStep ==
  ASSUME BaseInv, [Next]_vars, MainInv, Calm'
  PROVE  \A t \in Known(remote)' : Covered(t[1])'
<1> USE DEF BaseInv
<1>1. /\ Calm /\ edits' = edits
      /\ \A t \in Known(remote) : Covered(t[1])
      /\ \A c \in Run : MainThere(c)
  BY CalmBefore DEF MainInv
<1>2. ASSUME NEW t \in Known(remote) PROVE Covered(t[1])'
  BY <1>1, CoveredStays
<1>3. ASSUME NEW c \in Run, NEW t \in Task, AddTask(c, t), t \in todo[c],
             Known(remote)' = Known(remote) \cup {t}
      PROVE  Covered(t[1])'
  <2>1. CASE pc[c] = "projects"
    <3>1. t \in MainTasks(c)
      BY <1>3, <2>1 DEF TodoInv, Held
    <3>2. t = <<t[1], main>> /\ t \in Known(remote)'
      BY <1>3, <3>1, MainTwice
    <3>3. QED
      BY <3>2 DEF Covered
  <2>2. CASE pc[c] = "series"
    <3>1. t \in Critical(c)
      BY <1>3, <2>2 DEF TodoInv, Held
    <3>2. <<t[1], main>> \in MainTasks(c)
      BY <3>1, MainOfCritical
    <3>3. Covered(<<t[1], main>>[1])
      BY <1>1, <2>2, <3>2 DEF MainThere
    <3>4. QED
      BY <3>3, CoveredStays
  <2>3. QED
    BY <1>3, <2>1, <2>2 DEF AddTask
<1>4. QED
  BY <1>1, <1>2, <1>3, KnownEffect

\* A run that a step leaves about the same, and in its phase or in a later one.
LEMMA MainKept ==
  ASSUME BaseInv, [Next]_vars, NEW c \in Run, Stays(c), MainThere(c),
         \/ /\ pc'[c] = pc[c]
            /\ pc[c] = "projects" => \A t \in todo[c] : t \in todo'[c] \/ Covered(t[1])'
         \/ pc[c] = "projects" /\ todo[c] = {}
         \/ pc[c] \in {"series", "status"} /\ pc'[c] \in {"status", "end"}
  PROVE  MainThere(c)'
<1>1. \A l : Covered(l) => Covered(l)'
  BY CoveredStays
<1>2. MainTasks(c)' = MainTasks(c)
  BY CriticalStays
<1> SUFFICES ASSUME NEW t \in MainTasks(c)
             PROVE  /\ pc'[c] = "projects" => t \in todo'[c] \/ Covered(t[1])'
                    /\ pc'[c] \in {"series", "status", "end"} => Covered(t[1])'
  BY <1>2 DEF MainThere
<1>3. /\ pc[c] = "projects" => t \in todo[c] \/ Covered(t[1])
      /\ pc[c] \in {"series", "status", "end"} => Covered(t[1])
      /\ Covered(t[1]) => Covered(t[1])'
  BY <1>1 DEF MainThere
<1>4. QED
  BY <1>3

LEMMA NextMain == BaseInv /\ MainInv /\ [Next]_vars => MainInv'
<1> SUFFICES ASSUME BaseInv, MainInv, [Next]_vars, Calm', NEW c \in Run PROVE MainThere(c)'
  BY MainStep DEF MainInv
<1> USE DEF BaseInv
<1>1. /\ Calm /\ (errors'[c] => faults' = faults)
      /\ \A t \in Known(remote) : Covered(t[1])
      /\ MainThere(c) /\ faults \in Nat
  BY CalmBefore DEF MainInv, ShapeInv
<1>2. ASSUME Kept(c) PROVE MainThere(c)'
  BY <1>1, <1>2, KeptStays, MainKept DEF Kept
<1>3. CASE Begin(c)
  <2>1. pc'[c] = "projects" /\ todo'[c] = MissingProjects(c, remote)' /\ remote' = remote
    BY <1>1, <1>3, BeginEffect
  <2>2. ASSUME NEW t \in MainTasks(c)', t \notin todo'[c] PROVE Covered(t[1])'
    <3>1. PICK l \in UNION {LPOf[p] : p \in Involved(c)'} : t = <<l, main>>
      BY <2>2 DEF MainTasks
    <3>2. l \in {u[1] : u \in Known(remote)}
      BY <2>1, <2>2, <3>1 DEF MissingProjects, Known
    <3>3. PICK u \in Known(remote) : u[1] = l
      BY <3>2
    <3>4. Covered(l)
      BY <1>1, <3>3
    <3>5. t[1] = l
      BY <3>1
    <3>6. QED
      BY <3>4, <3>5, CoveredStays
  <2>3. QED
    BY <2>1, <2>2 DEF MainThere
<1>4. CASE FetchAgain(c)
  <2>1. Stays(c)
    BY <1>4 DEF FetchAgain, Stays
  <2>2. QED
    BY <1>1, <1>4, <2>1, FetchEffect, MainKept
<1>5. CASE End(c)
  <2>1. Stays(c) /\ pc[c] = "status" /\ pc'[c] = "end"
    BY <1>5 DEF End, Goto, Stays, ShapeInv
  <2>2. QED
    BY <1>1, <2>1, MainKept
<1>6. ASSUME NEW t \in Task, AddTask(c, t) PROVE MainThere(c)'
  <2>1. Stays(c) /\ pc'[c] = pc[c] /\ todo'[c] = todo[c] \ {t} /\ t \in todo[c]
    BY <1>6, AddEffect DEF AddTask, Stays
  <2>2. ASSUME pc[c] = "projects" PROVE Covered(t[1])'
    <3>1. Changes(c, t, "New") \/ (remote' = remote /\ remote[t] # Absent)
      BY <1>1, <1>6, <2>2, AddEffect DEF Told
    <3>2. t \in Known(remote)'
      BY <3>1 DEF Known, ShapeInv, Absent, Changes
    <3>3. t = <<t[1], main>>
      BY <2>1, <2>2, MainTwice DEF TodoInv, Held
    <3>4. QED
      BY <3>2, <3>3 DEF Covered
  <2>3. QED
    BY <1>1, <2>1, <2>2, MainKept
<1>7. ASSUME NEW t \in Task, UpdateStatus(c, t) PROVE MainThere(c)'
  <2>1. Stays(c) /\ pc'[c] = pc[c] /\ pc[c] = "status"
    BY <1>7, UpdateEffect DEF UpdateStatus, Stays
  <2>2. QED
    BY <1>1, <2>1, MainKept
<1>8. ASSUME NEW d \in Run, d # c, Step(d) PROVE Kept(c)
  BY <1>8, OthersKept
<1>9. ASSUME NEW t \in Task, NEW s \in Status, Edit(t, s) PROVE Kept(c)
  BY <1>9, EditKeeps
<1>10. CASE UNCHANGED vars
  BY <1>2, <1>10 DEF vars, runVars, Kept
<1>11. QED
  BY <1>2, <1>3, <1>4, <1>5, <1>6, <1>7, <1>8, <1>9, <1>10 DEF Next, Step

LEMMA CleanBefore ==
  ASSUME BaseInv, [Next]_vars, NEW c \in Run, Clean(c)', Stays(c)
  PROVE  Clean(c)
<1> USE DEF BaseInv
<1>1. ~errors[c] /\ ~quiet[c]
  BY Grows DEF Clean
<1>2. ASSUME NEW d \in Run, pc[d] # "new" PROVE Alike(c, d)
  <2>1. ASSUME Step(d) PROVE Stays(d) /\ pc'[d] # "new"
    <3>1. Stays(d)
      BY <1>2, <2>1, BegunStays
    <3>2. pc'[d] # "new"
      BY <1>2, <2>1, FetchEffect, AddEffect, UpdateEffect DEF Step, Begin, End, Goto, ShapeInv
    <3>3. QED
      BY <3>1, <3>2
  <2>2. ASSUME NEW e \in Run, e # d, Step(e) PROVE Stays(d) /\ pc'[d] # "new"
    BY <1>2, <2>2, OthersKept, KeptStays DEF Kept
  <2>3. ASSUME NEW t \in Task, NEW s \in Status, Edit(t, s) PROVE Stays(d) /\ pc'[d] # "new"
    BY <1>2, <2>3, EditKeeps, KeptStays DEF Kept
  <2>4. ASSUME UNCHANGED vars PROVE Stays(d) /\ pc'[d] # "new"
    BY <1>2, <2>4 DEF vars, runVars, Stays
  <2>5. Stays(d) /\ pc'[d] # "new"
    BY <2>1, <2>2, <2>3, <2>4 DEF Next
  <2>6. Alike(c, d)'
    BY <2>5 DEF Clean
  <2>7. QED
    BY <2>5, <2>6 DEF Alike, Stays
<1>3. QED
  BY <1>1, <1>2 DEF Clean

\* A task at its target is not raised.
LEMMA AtTarget ==
  ASSUME NEW c, NEW d, Alike(c, d), NEW t, Targeted(c, t)
  PROVE  ~Raises(d, t, TargetStatus(c, t))
BY SameTarget DEF Raises

\* What is raised on tasks that a step leaves alone.
LEMMA RaisedSame ==
  ASSUME [Next]_vars, NEW c, Stays(c), remote' = remote
  PROVE  Raised(c)' = Raised(c)
<1>1. \A t, s : Raises(c, t, s)' = Raises(c, t, s)
  BY RaisesStays DEF Stays
<1>2. Known(remote)' = Known(remote)
  BY DEF Known
<1>3. PICK R, K : R = remote /\ K = Known(remote)
  OBVIOUS
<1>4. Raised(c)' = {t \in K : Raises(c, t, R[t])'}
  BY <1>2, <1>3, Zenon DEF Raised
<1>5. \A t : Raises(c, t, R[t])' = Raises(c, t, R[t])
  BY <1>1
<1>6. Raised(c) = {t \in K : Raises(c, t, R[t])}
  BY <1>3 DEF Raised
<1>7. QED
  BY <1>4, <1>5, <1>6

\* A task set to a status that is not raised is the only one that changes.
LEMMA RaisedLess ==
  ASSUME BaseInv, [Next]_vars, NEW c, Stays(c), NEW t \in Task,
         NEW d, NEW s, Changes(d, t, s), ~Raises(c, t, s)
  PROVE  Raised(c)' \subseteq Raised(c) \ {t}
<1>1. \A u, v : Raises(c, u, v)' = Raises(c, u, v)
  BY RaisesStays DEF Stays
<1>2. ASSUME NEW u \in Raised(c)' PROVE u \in Raised(c) \ {t}
  <2>1. PICK v : v = remote'[u]
    OBVIOUS
  <2>2. u \in Task /\ Raises(c, u, v)' /\ v # Absent
    BY <1>2, <2>1 DEF Raised, Known
  <2>3. Raises(c, u, v)
    BY <1>1, <2>2
  <2>4. u # t
    BY <2>1, <2>3 DEF BaseInv, ShapeInv, Changes
  <2>5. v = remote[u]
    BY <2>1, <2>2, <2>4 DEF BaseInv, ShapeInv, Changes
  <2>6. QED
    BY <2>2, <2>3, <2>4, <2>5 DEF Raised, Known
<1>3. QED
  BY <1>2

\* A task of a project that a run would raise is one that it sees to.
LEMMA TargetedIsMain ==
  ASSUME NEW c, NEW t, Targeted(c, t), t = <<t[1], main>>
  PROVE  t \in MainTasks(c)
<1>1. PICK p \in scope[c] : t[1] \in LPOf[p] /\ Affected(c, p) # {}
  BY DEF Targeted, Components
<1>2. p \in Involved(c)
  BY <1>1 DEF Involved
<1>3. QED
  BY <1>1, <1>2 DEF MainTasks

\* Another run alike adds nothing that this one would raise, and sets what this one
\* would set.
LEMMA OtherDone ==
  ASSUME BaseInv, MainInv, [Next]_vars, Calm, NEW c \in Run, NEW d \in Run, c # d,
         Step(d), Kept(c), Clean(c), SeriesThere(c), pc[c] \in {"status", "end"}
  PROVE  Raised(c)' \subseteq Raised(c)
<1> USE DEF BaseInv
<1>1. /\ Stays(c) /\ Critical(c) \subseteq Known(remote)
      /\ \A t \in MainTasks(c) : Covered(t[1])
  BY KeptStays DEF MainInv, MainThere, SeriesThere
<1>2. ASSUME remote' = remote PROVE Raised(c)' \subseteq Raised(c)
  BY <1>1, <1>2, RaisedSame
<1>3. ASSUME NEW t \in Task, AddTask(d, t), remote[t] = Absent, Changes(d, t, "New")
      PROVE  Raised(c)' \subseteq Raised(c)
  <2>1. t \notin Known(remote) /\ t \in todo[d]
    BY <1>3, AddEffect DEF Known
  <2>2. CASE pc[d] = "projects"
    <3>1. t = <<t[1], main>>
      BY <2>1, <2>2, MainTwice DEF TodoInv, Held
    <3>2. t \notin MainTasks(c)
      BY <1>1, <2>1, <2>2, <3>1 DEF Covered
    <3>3. ~Raises(c, t, "New")
      BY <3>1, <3>2, TargetedIsMain DEF Raises
    <3>4. QED
      BY <1>1, <1>3, <3>3, RaisedLess
  <2>3. CASE pc[d] = "series"
    <3>1. t \in Critical(d)
      BY <2>1, <2>3 DEF TodoInv, Held
    <3>2. Alike(c, d)
      BY <2>3 DEF Clean
    <3>3. t \in Critical(c)
      BY <3>1, <3>2 DEF Alike, Critical, Affected, Refers
    <3>4. QED
      BY <1>1, <2>1, <3>3
  <2>4. QED
    BY <1>3, <2>2, <2>3, AddEffect
<1>4. ASSUME NEW t \in Task, UpdateStatus(d, t) PROVE Raised(c)' \subseteq Raised(c)
  <2>1. PICK s : s = TargetStatus(d, t)
    OBVIOUS
  <2>2. pc[d] = "status" /\ Targeted(d, t) /\ (remote' = remote \/ Changes(d, t, s))
    BY <1>4, <2>1, UpdateEffect DEF TodoInv, Held, Moved
  <2>3. Alike(c, d) /\ Alike(d, c)
    BY <2>2 DEF Clean, Alike
  <2>4. ~Raises(c, t, s)
    BY <2>1, <2>2, <2>3, AtTarget
  <2>5. QED
    BY <1>1, <1>2, <2>2, <2>4, RaisedLess
<1>5. ASSUME NEW t \in Task, AddTask(d, t) PROVE Raised(c)' \subseteq Raised(c)
  BY <1>2, <1>3, <1>5, AddEffect DEF Moved
<1>6. QED
  BY <1>2, <1>4, <1>5 DEF Step, Begin, FetchAgain, End

\* The steps of the run itself.
LEMMA FetchDone ==
  ASSUME BaseInv, [Next]_vars, NEW c \in Run, FetchAgain(c), ~errors'[c], SeriesThere(c)
  PROVE  SeriesThere(c)'
<1> USE DEF BaseInv
<1>1. /\ remote' = remote /\ todo[c] = {}
      /\ \/ /\ pc[c] = "projects" /\ pc'[c] = "series"
            /\ todo'[c] = MissingSeries(c, remote)
         \/ /\ pc[c] = "series" /\ pc'[c] = "status"
            /\ todo'[c] = {t \in Known(remote) : Raises(c, t, remote[t])}
  BY FetchEffect
<1>2. Stays(c)
  BY DEF FetchAgain, Stays
<1>3. /\ Known(remote)' = Known(remote) /\ Critical(c)' = Critical(c)
      /\ Raised(c)' = Raised(c)
  BY <1>1, <1>2, CriticalStays, RaisedSame DEF Known
<1>4. CASE pc[c] = "projects"
  BY <1>1, <1>3, <1>4, MissingIsCritical DEF SeriesThere
<1>5. CASE pc[c] = "series"
  <2>1. todo'[c] = Raised(c) /\ pc'[c] = "status"
    BY <1>1, <1>5 DEF Raised
  <2>2. Critical(c) \subseteq Known(remote)
    BY <1>1, <1>5 DEF SeriesThere
  <2>3. QED
    BY <1>3, <2>1, <2>2 DEF SeriesThere
<1>6. QED
  BY <1>1, <1>4, <1>5

LEMMA AddDone ==
  ASSUME BaseInv, [Next]_vars, NEW c \in Run, NEW t \in Task, AddTask(c, t), ~quiet'[c],
         SeriesThere(c)
  PROVE  SeriesThere(c)'
<1> USE DEF BaseInv
<1>1. Stays(c) /\ pc'[c] = pc[c] /\ pc[c] \in {"projects", "series"} /\ todo'[c] = todo[c] \ {t}
  BY AddEffect DEF AddTask, Stays
<1>2. Critical(c)' = Critical(c) /\ Known(remote) \subseteq Known(remote)'
  BY <1>1, CriticalStays, KnownGrows
<1>3. CASE pc[c] = "series"
  <2>1. Changes(c, t, "New")
    BY <1>3, AddEffect DEF Told
  <2>2. t \in Known(remote)'
    BY <2>1 DEF Known, ShapeInv, Absent, Changes
  <2>3. QED
    BY <1>1, <1>2, <1>3, <2>2 DEF SeriesThere
<1>4. CASE pc[c] = "projects"
  BY <1>1, <1>4 DEF SeriesThere
<1>5. QED
  BY <1>1, <1>3, <1>4

LEMMA UpdateDone ==
  ASSUME BaseInv, [Next]_vars, NEW c \in Run, NEW t \in Task, UpdateStatus(c, t), ~errors'[c],
         SeriesThere(c)
  PROVE  SeriesThere(c)'
<1> USE DEF BaseInv
<1>1. PICK s : s = TargetStatus(c, t)
  OBVIOUS
<1>2. /\ pc[c] = "status" /\ pc'[c] = "status" /\ todo'[c] = todo[c] \ {t} /\ t \in todo[c]
      /\ Changes(c, t, s)
  BY <1>1, UpdateEffect
<1>3. Stays(c)
  BY DEF UpdateStatus, Stays
<1>4. Critical(c)' = Critical(c) /\ Known(remote) \subseteq Known(remote)'
  BY <1>3, CriticalStays, KnownGrows
<1>5. Targeted(c, t)
  BY <1>2 DEF TodoInv, Held
<1>6. ~Raises(c, t, s)
  BY <1>1, <1>5, AtTarget DEF Alike
<1>7. Raised(c)' \subseteq Raised(c) \ {t}
  BY <1>2, <1>3, <1>6, RaisedLess
<1>8. QED
  BY <1>2, <1>4, <1>7 DEF SeriesThere

LEMMA NextDone == BaseInv /\ MainInv /\ DoneInv /\ [Next]_vars => DoneInv'
<1> SUFFICES ASSUME BaseInv, MainInv, DoneInv, [Next]_vars, Calm', NEW c \in Run, Clean(c)'
             PROVE  SeriesThere(c)'
  BY DEF DoneInv
<1> USE DEF BaseInv
<1>1. Calm /\ edits' = edits /\ ~errors'[c] /\ ~quiet'[c]
  BY CalmBefore DEF Clean
<1>2. ASSUME Stays(c) PROVE Clean(c) /\ SeriesThere(c)
  BY <1>1, <1>2, CleanBefore DEF DoneInv
<1>3. CASE Begin(c)
  <2>1. pc'[c] = "projects"
    BY <1>1, <1>3, BeginEffect
  <2>2. QED
    BY <2>1 DEF SeriesThere
<1>4. CASE FetchAgain(c)
  BY <1>1, <1>2, <1>4, FetchDone DEF FetchAgain, Stays
<1>5. CASE End(c)
  <2>1. /\ Stays(c) /\ remote' = remote /\ pc[c] = "status" /\ todo[c] = {} /\ pc'[c] = "end"
    BY <1>5 DEF End, Goto, Stays, ShapeInv
  <2>2. /\ Known(remote)' = Known(remote) /\ Critical(c)' = Critical(c)
        /\ Raised(c)' = Raised(c)
    BY <2>1, CriticalStays, RaisedSame DEF Known
  <2>3. QED
    BY <1>2, <2>1, <2>2 DEF SeriesThere
<1>6. ASSUME NEW t \in Task, AddTask(c, t) PROVE SeriesThere(c)'
  BY <1>1, <1>2, <1>6, AddDone DEF AddTask, Stays
<1>7. ASSUME NEW t \in Task, UpdateStatus(c, t) PROVE SeriesThere(c)'
  BY <1>1, <1>2, <1>7, UpdateDone DEF UpdateStatus, Stays
<1>8. ASSUME Kept(c), pc[c] \in {"status", "end"} => Raised(c)' \subseteq Raised(c)
      PROVE  SeriesThere(c)'
  <2>1. Stays(c)
    BY <1>8, KeptStays
  <2>2. Critical(c)' = Critical(c) /\ Known(remote) \subseteq Known(remote)'
    BY <2>1, CriticalStays, KnownGrows
  <2>3. QED
    BY <1>2, <1>8, <2>1, <2>2 DEF SeriesThere, Kept
<1>9. ASSUME NEW d \in Run, d # c, Step(d) PROVE SeriesThere(c)'
  <2>1. Kept(c)
    BY <1>9, OthersKept
  <2>2. QED
    BY <1>1, <1>2, <1>8, <1>9, <2>1, KeptStays, OtherDone
<1>10. ASSUME NEW t \in Task, NEW s \in Status, Edit(t, s) PROVE FALSE
  BY <1>1, <1>10 DEF Edit, ShapeInv
<1>11. CASE UNCHANGED vars
  <2>1. Kept(c) /\ remote' = remote
    BY <1>11 DEF vars, runVars, Kept
  <2>2. Raised(c)' = Raised(c)
    BY <2>1, KeptStays, RaisedSame
  <2>3. QED
    BY <1>8, <2>1, <2>2
<1>12. QED
  BY <1>3, <1>4, <1>5, <1>6, <1>7, <1>9, <1>10, <1>11 DEF Next, Step

\* Nothing is left to plan for a run that has its tasks and raised them.
LEMMA NothingPlanned ==
  ASSUME BaseInv, NEW c \in Run, \A t \in MainTasks(c) : Covered(t[1]),
         Critical(c) \subseteq Known(remote), Raised(c) = {}
  PROVE  Plan(c, remote) = {}
<1>1. MissingProjects(c, remote) = {}
  <2> SUFFICES ASSUME NEW l \in UNION {LPOf[p] : p \in Involved(c)},
                      l \notin {u[1] : u \in Known(remote)}
               PROVE  FALSE
    BY DEF MissingProjects
  <2>1. <<l, main>> \in MainTasks(c)
    BY DEF MainTasks
  <2>2. Covered(<<l, main>>[1])
    BY <2>1
  <2>3. QED
    BY <2>2 DEF Covered
<1>2. Add(remote, {}) = remote /\ AddActions({}) = {}
  BY AddNone DEF BaseInv, ShapeInv
<1>3. MissingSeries(c, remote) = {}
  BY MissingIsCritical
<1>4. {} \cup {} = {}
  OBVIOUS
<1>5. Plan(c, remote) =
        AddActions({}) \cup {<<t, TargetStatus(c, t)>> : t \in Raised(c)}
  BY <1>1, <1>2, <1>3, <1>4, Zenon DEF Plan, Raised
<1>6. QED
  BY <1>2, <1>5

\* A run that reports no error has done all there is, also when other runs of the
\* same projects and with the same evidence were under way, with the exceptions CleanMeansDone names: no
\* other run adds a task, or leaves a status, that this one would have to raise.
THEOREM CleanRunIsDone == Spec => []CleanMeansDone
<1>1. Init => BaseInv /\ MainInv /\ DoneInv
  <2>1. Init => MainInv /\ DoneInv
    BY DEF Init, MainInv, MainThere, Covered, DoneInv, SeriesThere
  <2>2. QED
    BY <2>1, BaseInvariance
<1>2. BaseInv /\ MainInv /\ DoneInv /\ [Next]_vars => (BaseInv /\ MainInv /\ DoneInv)'
  BY BaseInvariance, NextMain, NextDone
<1>3. BaseInv /\ MainInv /\ DoneInv => CleanMeansDone
  <2> SUFFICES ASSUME BaseInv, MainInv, DoneInv, NEW c \in Run, pc[c] = "end", Clean(c), Calm
               PROVE  Plan(c, remote) = {}
    BY Zenon DEF CleanMeansDone, Clean, Calm
  <2>1. MainThere(c) /\ SeriesThere(c)
    BY DEF MainInv, DoneInv
  <2>2. QED
    BY <2>1, NothingPlanned DEF MainThere, SeriesThere
<1>4. QED
  BY <1>1, <1>2, <1>3, PTL DEF Spec
=============================================================================
