------------------------- MODULE LocalPrepareProofs -------------------------
(***************************************************************************)
(* Proofs about LocalPrepare: the types of its state, what runs that share *)
(* a repository push to Launchpad, and the checkout they leave, for any    *)
(* number of runs, commits and failures.                                   *)
(***************************************************************************)
EXTENDS LocalPrepare, TLAPS

USE PrepareAssumption DEF PrepareAssumption

-----------------------------------------------------------------------------
(***************************************************************************)
(* Types.                                                                  *)
(***************************************************************************)
LEMMA InitTypes == Init => TypeOK
<1> SUFFICES ASSUME Init PROVE TypeOK
  OBVIOUS
<1>1. tip \in Commit /\ head \in Branch /\ faults \in 0..MaxFaults /\ indexed \in SUBSET Commit
  BY DEF Init, Commit, Branch, own
<1>2. local \in [Commit -> Source \cup {None}] /\ lp \in [Commit -> Source \cup {None}]
  BY DEF Init
<1>3. pc \in [Run -> Pc] /\ sha \in [Run -> Commit] /\ orig \in [Run -> Branch]
  BY DEF Init, Pc, Commit, Branch, own
<1>4. built \in [Run -> Source \cup {None}]
  BY DEF Init
<1>5. skip \in [Run -> BOOLEAN] /\ needs \in [Run -> BOOLEAN] /\ ok \in [Run -> BOOLEAN]
  BY DEF Init
<1>6. isolated \in BOOLEAN /\ remote \in BOOLEAN /\ onMain \in BOOLEAN /\ spoilt \in BOOLEAN
  BY DEF Init
<1>7. QED
  BY <1>1, <1>2, <1>3, <1>4, <1>5, <1>6 DEF TypeOK

LEMMA FaultTypes == TypeOK /\ (Fault \/ UNCHANGED faults) => faults' \in 0..MaxFaults
BY DEF TypeOK, Fault

LEMMA GotoTypes == ASSUME TypeOK, NEW r \in Run, NEW l \in Pc, Goto(r, l) PROVE pc' \in [Run -> Pc]
BY DEF TypeOK, Goto

LEMMA StartTypes == ASSUME TypeOK, NEW r \in Run, Start(r) PROVE TypeOK'
<1>1. Exists(head) /\ head # own => local[head][1] \in Commit
  BY DEF TypeOK, Exists, Branch, Source
<1>2. sha' \in [Run -> Commit]
  BY <1>1 DEF Start, TypeOK
<1>3. pc' \in [Run -> Pc] /\ ok' \in [Run -> BOOLEAN] /\ faults' \in 0..MaxFaults
  <2>1. Fault \/ UNCHANGED faults
    BY DEF Start, Works
  <2>2. Goto(r, "ref") \/ Goto(r, "end")
    BY DEF Start, Works, Fails
  <2>3. ok' \in [Run -> BOOLEAN]
    BY DEF Start, Works, Fails, TypeOK
  <2>4. "ref" \in Pc /\ "end" \in Pc
    BY DEF Pc
  <2>5. QED
    BY <2>1, <2>2, <2>3, <2>4, FaultTypes, GotoTypes
<1>4. UNCHANGED <<isolated, tip, head, local, remote, lp, indexed, onMain,
                  orig, skip, needs, built, spoilt>>
  BY DEF Start, checkout, launchpad
<1>5. QED
  BY <1>2, <1>3, <1>4 DEF TypeOK

LEMMA CheckRefTypes == ASSUME TypeOK, NEW r \in Run, CheckRef(r) PROVE TypeOK'
<1>1. skip' \in [Run -> BOOLEAN] /\ pc' \in [Run -> Pc] /\ faults' \in 0..MaxFaults
  <2>1. skip' \in [Run -> BOOLEAN]
    <3>1. skip \in [Run -> BOOLEAN]
      BY DEF TypeOK
    <3>2. CASE skip' = [skip EXCEPT ![r] = Name(sha[r]) \in indexed]
      BY <3>1, <3>2
    <3>3. CASE skip' = [skip EXCEPT ![r] = FALSE]
      BY <3>1, <3>3
    <3>4. QED
      BY <3>2, <3>3, Zenon DEF CheckRef
  <2>2. Fault \/ UNCHANGED faults
    BY DEF CheckRef
  <2>3. Goto(r, "add") \/ Goto(r, "wait") \/ Goto(r, "branch")
    <3>1. CASE isolated
      BY <3>1, Zenon DEF CheckRef
    <3>2. CASE ~isolated /\ skip'[r]
      BY <3>2, Zenon DEF CheckRef
    <3>3. CASE ~isolated /\ ~skip'[r]
      BY <3>3, Zenon DEF CheckRef
    <3>4. QED
      BY <3>1, <3>2, <3>3
  <2>4. "add" \in Pc /\ "wait" \in Pc /\ "branch" \in Pc
    BY DEF Pc
  <2>5. QED
    BY <2>1, <2>2, <2>3, <2>4, FaultTypes, GotoTypes
<1>2. UNCHANGED <<isolated, tip, head, local, remote, lp, indexed, onMain,
                  sha, orig, needs, ok, built, spoilt>>
  BY DEF CheckRef, checkout, launchpad
<1>3. QED
  BY <1>1, <1>2 DEF TypeOK

\* The steps that keep or change one branch of the repository.
LEMMA LocalTypes ==
  ASSUME TypeOK, NEW r \in Run,
         \/ AddWorktree(r) \/ CommitPrepared(r) \/ Cleanup(r)
         \/ CreateBranch(r) \/ DeleteBranch(r)
  PROVE  TypeOK'
<1> DEFINE b == Name(sha[r])
<1>1. b \in Commit /\ sha[r] \in Commit
  BY DEF TypeOK, Name
<1>2. /\ local' \in {local, [local EXCEPT ![b] = <<sha[r], FALSE>>],
                     [local EXCEPT ![b] = <<sha[r], TRUE>>], [local EXCEPT ![b] = None]}
  BY DEF AddWorktree, CommitPrepared, Cleanup, CreateBranch, DeleteBranch
<1>3. local' \in [Commit -> Source \cup {None}]
  <2> HIDE DEF b
  <2>1. <<sha[r], FALSE>> \in Source /\ <<sha[r], TRUE>> \in Source
    BY <1>1 DEF Source
  <2>2. QED
    BY <1>1, <1>2, <2>1 DEF TypeOK
<1>4. pc' \in [Run -> Pc]
  <2>1. PICK l \in Pc : Goto(r, l)
    BY DEF AddWorktree, CommitPrepared, Cleanup, CreateBranch, DeleteBranch, Works, Fails, Pc
  <2>2. QED
    BY <2>1 DEF TypeOK, Goto
<1>5. ok' \in [Run -> BOOLEAN] /\ spoilt' \in BOOLEAN
  BY DEF AddWorktree, CommitPrepared, Cleanup, CreateBranch, DeleteBranch, TypeOK,
         Works, Fails, Dropped
<1>6. faults' \in 0..MaxFaults
  <2>1. Fault \/ UNCHANGED faults
    BY DEF AddWorktree, CommitPrepared, Cleanup, CreateBranch, DeleteBranch, Works, Fails, Dropped
  <2>2. QED
    BY <2>1, FaultTypes
<1>7. QED
  <2>1. UNCHANGED <<isolated, tip, head, remote, lp, indexed, onMain, sha, orig, skip, needs, built>>
    BY DEF AddWorktree, CommitPrepared, Cleanup, CreateBranch, DeleteBranch, launchpad
  <2>2. QED
    BY <1>3, <1>4, <1>5, <1>6, <2>1 DEF TypeOK

\* The steps that keep or change the branch the checkout is on.
LEMMA HeadTypes ==
  ASSUME TypeOK, NEW r \in Run,
         RunCommand(r) \/ FindBranch(r) \/ Checkout(r) \/ Restore(r)
  PROVE  TypeOK'
<1>1. head' \in Branch /\ orig' \in [Run -> Branch]
  BY DEF RunCommand, FindBranch, Checkout, Restore, TypeOK, Name, Branch, checkout
<1>2. pc' \in [Run -> Pc]
  BY DEF RunCommand, FindBranch, Checkout, Restore, TypeOK, Works, Fails, Goto, Pc
<1>3. ok' \in [Run -> BOOLEAN] /\ spoilt' \in BOOLEAN
  BY DEF RunCommand, FindBranch, Checkout, Restore, TypeOK, Works, Fails, Dropped
<1>4. faults' \in 0..MaxFaults
  BY DEF RunCommand, FindBranch, Checkout, Restore, TypeOK, Works, Fails, Dropped, Fault
<1>5. QED
  BY <1>1, <1>2, <1>3, <1>4
  DEF RunCommand, FindBranch, Checkout, Restore, TypeOK, launchpad, checkout

\* The steps that keep or change the remote.
LEMMA RemoteTypes ==
  ASSUME TypeOK, NEW r \in Run,
         CheckMain(r) \/ UnsetRemote(r) \/ SetRemote(r) \/ DropRemote(r)
  PROVE  TypeOK'
<1>1. remote' \in BOOLEAN /\ needs' \in [Run -> BOOLEAN]
  BY DEF CheckMain, UnsetRemote, SetRemote, DropRemote, TypeOK, checkout
<1>2. pc' \in [Run -> Pc]
  BY DEF CheckMain, UnsetRemote, SetRemote, DropRemote, TypeOK, Works, Goto, Pushed, Pc
<1>3. ok' \in [Run -> BOOLEAN] /\ spoilt' \in BOOLEAN
  BY DEF CheckMain, UnsetRemote, SetRemote, DropRemote, TypeOK, Works, Dropped
<1>4. faults' \in 0..MaxFaults
  BY DEF CheckMain, UnsetRemote, SetRemote, DropRemote, TypeOK, Works, Dropped, Fault
<1>5. QED
  BY <1>1, <1>2, <1>3, <1>4
  DEF CheckMain, UnsetRemote, SetRemote, DropRemote, TypeOK, launchpad, checkout

\* The steps that keep or change Launchpad, and what was found there.
LEMMA LaunchpadTypes ==
  ASSUME TypeOK, NEW r \in Run,
         PushMain(r) \/ Push(r) \/ PushFails(r) \/ WaitForRef(r) \/ Killed(r)
  PROVE  TypeOK'
<1>1. Name(sha[r]) \in Commit
  BY DEF TypeOK, Name
<1>2. lp' \in [Commit -> Source \cup {None}] /\ onMain' \in BOOLEAN
  <2>1. lp' = lp \/ lp' = [lp EXCEPT ![Name(sha[r])] = local[Name(sha[r])]]
    <3>1. CASE Push(r)
      BY <3>1 DEF Push
    <3>2. CASE PushMain(r)
      BY <3>2 DEF PushMain
    <3>3. CASE PushFails(r) \/ WaitForRef(r) \/ Killed(r)
      BY <3>3 DEF PushFails, WaitForRef, Killed, launchpad
    <3>4. QED
      BY <3>1, <3>2, <3>3
  <2>2. onMain' = onMain \/ onMain' = TRUE
    <3>1. CASE PushMain(r)
      BY <3>1, Zenon DEF PushMain
    <3>2. CASE Push(r)
      BY <3>2, Zenon DEF Push
    <3>3. CASE PushFails(r) \/ WaitForRef(r) \/ Killed(r)
      BY <3>3, Zenon DEF PushFails, WaitForRef, Killed, launchpad
    <3>4. QED
      BY <3>1, <3>2, <3>3
  <2>3. lp' \in [Commit -> Source \cup {None}]
    BY <1>1, <2>1 DEF TypeOK
  <2>4. QED
    BY <2>2, <2>3 DEF TypeOK
<1>3. built' \in [Run -> Source \cup {None}]
  BY <1>1 DEF PushMain, Push, PushFails, WaitForRef, Killed, TypeOK
<1>4. pc' \in [Run -> Pc]
  BY DEF PushMain, Push, PushFails, WaitForRef, Killed, TypeOK, Works, Fails, Goto, Pc
<1>5. ok' \in [Run -> BOOLEAN] /\ spoilt' \in BOOLEAN
  BY DEF PushMain, Push, PushFails, WaitForRef, Killed, TypeOK, Works, Fails, Dropped
<1>6. faults' \in 0..MaxFaults
  BY DEF PushMain, Push, PushFails, WaitForRef, Killed, TypeOK, Works, Fails, Dropped, Fault
<1>7. QED
  BY <1>2, <1>3, <1>4, <1>5, <1>6
  DEF PushMain, Push, PushFails, WaitForRef, Killed, TypeOK, launchpad, checkout

LEMMA OthersTypes ==
  ASSUME TypeOK, UserCommit \/ UserReturns \/ \E b \in Commit : Index(b) \/ Delete(b)
  PROVE  TypeOK'
<1>1. CASE UserCommit
  BY <1>1 DEF UserCommit, TypeOK, Commit, launchpad, runVars
<1>2. CASE UserReturns
  BY <1>2 DEF UserReturns, TypeOK, Branch, launchpad, runVars
<1>3. ASSUME NEW b \in Commit, Index(b)  PROVE TypeOK'
  BY <1>3 DEF Index, TypeOK, checkout, runVars
<1>4. ASSUME NEW b \in Commit, Delete(b)  PROVE TypeOK'
  BY <1>4 DEF Delete, TypeOK, checkout, runVars
<1>5. QED
  BY <1>1, <1>2, <1>3, <1>4

LEMMA NextTypes == TypeOK /\ [Next]_vars => TypeOK'
<1> SUFFICES ASSUME TypeOK, [Next]_vars PROVE TypeOK'
  OBVIOUS
<1>1. ASSUME NEW r \in Run, Step(r) \/ Killed(r)  PROVE TypeOK'
  BY <1>1, StartTypes, CheckRefTypes, LocalTypes, HeadTypes, RemoteTypes, LaunchpadTypes
  DEF Step
<1>2. CASE UserCommit \/ UserReturns \/ \E b \in Commit : Index(b) \/ Delete(b)
  BY <1>2, OthersTypes
<1>3. CASE UNCHANGED vars
  BY <1>3 DEF vars, checkout, launchpad, runVars, TypeOK
<1>4. QED
  BY <1>1, <1>2, <1>3 DEF Next

\* The state of the runs, the repository and Launchpad has its types.
THEOREM Types == Spec => []TypeOK
BY InitTypes, NextTypes, PTL DEF Spec

-----------------------------------------------------------------------------
(***************************************************************************)
(* SourceOnLP.  With a prepare command a run owns its branch from the step *)
(* that adds the worktree to the one that removes it; without one, all     *)
(* runs that use a branch put the same commit there.                       *)
(***************************************************************************)
Dance == {"branch", "create", "checkout", "restore", "delete"}
Worktree == {"add", "run", "commit", "cleanup"}
Pushing == {"main", "unset", "set", "pushmain", "push"}
Owning == Pushing \cup {"run", "commit", "drop", "wait", "cleanup"}

\* A run is at a step of its own kind.
Places ==
  \A r \in Run :
    /\ isolated => pc[r] \notin Dance
    /\ ~isolated => pc[r] \notin Worktree

\* The branches of one commit all hold that commit.
LPTree == \A b \in Commit : lp[b] \in {None, <<b, isolated>>}
PlainTree == ~isolated => \A b \in Commit : local[b] \in {None, <<b, FALSE>>}

\* The branch of a worktree exists and has one owner, who pushes what it made.
Owned ==
  isolated =>
    \A r \in Run : pc[r] \in Owning =>
      /\ local[sha[r]] # None
      /\ \A s \in Run : s # r /\ pc[s] \in Owning => sha[s] # sha[r]
Prepared ==
  isolated => \A r \in Run : pc[r] \in Pushing => local[sha[r]] = <<sha[r], TRUE>>

Unbuilt == \A r \in Run : pc[r] = "new" => built[r] = None

TreeInv == Places /\ LPTree /\ PlainTree /\ Owned /\ Prepared /\ Unbuilt /\ SourceOnLP
IInv == TypeOK /\ TreeInv

LEMMA InitTree == Init => TreeInv
BY DEF Init, TreeInv, Places, LPTree, PlainTree, Owned, Prepared, Unbuilt, SourceOnLP,
       Dance, Worktree, Owning, Pushing

\* A run goes on to a step of its kind, and becomes no owner and no pusher.
LEMMA Moves ==
  ASSUME IInv, NEW r \in Run, NEW l \in Pc, Goto(r, l),
         UNCHANGED <<isolated, sha, local, lp, built>>,
         l # "new",
         isolated => l \notin Dance, ~isolated => l \notin Worktree,
         isolated /\ l \in Owning => pc[r] \in Owning,
         isolated /\ l \in Pushing => pc[r] \in Pushing
  PROVE  TreeInv'
<1>1. \A s \in Run : pc'[s] = IF s = r THEN l ELSE pc[s]
  BY DEF IInv, TypeOK, Goto
<1>2. Places'
  BY <1>1 DEF IInv, TreeInv, Places
<1>3. LPTree' /\ PlainTree' /\ SourceOnLP'
  BY DEF IInv, TreeInv, LPTree, PlainTree, SourceOnLP
<1>4. Owned'
  <2> SUFFICES ASSUME isolated, NEW q \in Run, pc'[q] \in Owning
               PROVE  /\ local[sha[q]] # None
                      /\ \A s \in Run : s # q /\ pc'[s] \in Owning => sha[s] # sha[q]
    BY DEF Owned
  <2>1. \A s \in Run : pc'[s] \in Owning => pc[s] \in Owning
    BY <1>1
  <2>2. QED
    BY <2>1 DEF IInv, TreeInv, Owned
<1>5. Prepared'
  BY <1>1 DEF IInv, TreeInv, Prepared
<1>6. Unbuilt'
  BY <1>1 DEF IInv, TreeInv, Unbuilt
<1>7. QED
  BY <1>2, <1>3, <1>4, <1>5, <1>6 DEF TreeInv

LEMMA QuietTree ==
  ASSUME IInv, NEW r \in Run,
         \/ CheckRef(r) \/ RunCommand(r) \/ FindBranch(r) \/ Checkout(r) \/ Restore(r)
         \/ CheckMain(r) \/ UnsetRemote(r) \/ SetRemote(r) \/ PushMain(r) \/ PushFails(r)
         \/ DropRemote(r) \/ Killed(r)
  PROVE  TreeInv'
<1> USE DEF Dance, Worktree, Owning, Pushing
<1>1. (isolated => pc[r] \notin Dance) /\ (~isolated => pc[r] \notin Worktree)
  BY DEF IInv, TreeInv, Places
<1>2. CASE CheckRef(r)
  <2>1. UNCHANGED <<isolated, sha, local, lp, built>>
    BY <1>2 DEF CheckRef, checkout, launchpad
  <2>2. CASE isolated
    <3>1. Goto(r, "add")
      BY <1>2, <2>2, Zenon DEF CheckRef
    <3>2. QED
      BY <2>1, <2>2, <3>1, Moves DEF Pc
  <2>3. CASE ~isolated
    <3>1. Goto(r, "wait") \/ Goto(r, "branch")
      BY <1>2, <2>3, Zenon DEF CheckRef
    <3>2. QED
      BY <2>1, <2>3, <3>1, Moves DEF Pc
  <2>4. QED
    BY <2>2, <2>3
<1>3. CASE RunCommand(r)
  <2>1. UNCHANGED <<isolated, sha, local, lp, built>> /\ pc[r] = "run"
    BY <1>3 DEF RunCommand, checkout, launchpad
  <2>2. Goto(r, "commit") \/ Goto(r, "cleanup")
    BY <1>3 DEF RunCommand, Works, Fails
  <2>3. QED
    BY <1>1, <2>1, <2>2, Moves DEF Pc
<1>4. CASE FindBranch(r)
  <2>1. UNCHANGED <<isolated, sha, local, lp, built>> /\ pc[r] = "branch"
    BY <1>4 DEF FindBranch, checkout, launchpad
  <2>2. Goto(r, "create") \/ Goto(r, "end")
    BY <1>4 DEF FindBranch, Works, Fails
  <2>3. QED
    BY <1>1, <2>1, <2>2, Moves DEF Pc
<1>5. CASE Checkout(r)
  <2>1. UNCHANGED <<isolated, sha, local, lp, built>> /\ pc[r] = "checkout"
    BY <1>5 DEF Checkout, launchpad
  <2>2. Goto(r, "main") \/ Goto(r, "end")
    BY <1>5 DEF Checkout, Works, Fails
  <2>3. QED
    BY <1>1, <2>1, <2>2, Moves DEF Pc
<1>6. CASE Restore(r)
  <2>1. UNCHANGED <<isolated, sha, local, lp, built>> /\ pc[r] = "restore"
    BY <1>6 DEF Restore, launchpad
  <2>2. Goto(r, "delete")
    BY <1>6 DEF Restore
  <2>3. QED
    BY <1>1, <2>1, <2>2, Moves DEF Pc
<1>7. CASE CheckMain(r)
  <2>1. UNCHANGED <<isolated, sha, local, lp, built>> /\ pc[r] = "main" /\ Goto(r, "unset")
    BY <1>7 DEF CheckMain, checkout, launchpad
  <2>2. QED
    BY <2>1, Moves DEF Pc
<1>8. CASE UnsetRemote(r)
  <2>1. UNCHANGED <<isolated, sha, local, lp, built>> /\ pc[r] = "unset" /\ Goto(r, "set")
    BY <1>8 DEF UnsetRemote, launchpad
  <2>2. QED
    BY <2>1, Moves DEF Pc
<1>9. CASE SetRemote(r)
  <2>1. UNCHANGED <<isolated, sha, local, lp, built>> /\ pc[r] = "set"
    BY <1>9 DEF SetRemote, launchpad
  <2>2. \/ Goto(r, "pushmain") \/ Goto(r, "push")
        \/ isolated /\ (Goto(r, "wait") \/ Goto(r, "cleanup"))
        \/ ~isolated /\ Goto(r, "restore")
    BY <1>9, Zenon DEF SetRemote, Works, Pushed
  <2>3. QED
    BY <2>1, <2>2, Moves DEF Pc
<1>10. CASE PushMain(r)
  <2>1. UNCHANGED <<isolated, sha, local, lp, built>> /\ pc[r] = "pushmain"
    BY <1>10 DEF PushMain, checkout
  <2>2. Goto(r, "push") \/ Goto(r, "drop")
    BY <1>10, Zenon DEF PushMain, Works, Fails
  <2>3. QED
    BY <2>1, <2>2, Moves DEF Pc
<1>11. CASE PushFails(r)
  <2>1. UNCHANGED <<isolated, sha, local, lp, built>> /\ pc[r] \in Pushing /\ Goto(r, "drop")
    BY <1>11 DEF PushFails, Fails, checkout, launchpad
  <2>2. QED
    BY <2>1, Moves DEF Pc
<1>12. CASE DropRemote(r)
  <2>1. UNCHANGED <<isolated, sha, local, lp, built>> /\ pc[r] = "drop"
    BY <1>12 DEF DropRemote, launchpad
  <2>2. \/ isolated /\ (Goto(r, "wait") \/ Goto(r, "cleanup"))
        \/ ~isolated /\ Goto(r, "restore")
    BY <1>12, Zenon DEF DropRemote, Pushed
  <2>3. QED
    BY <2>1, <2>2, Moves DEF Pc
<1>13. CASE Killed(r)
  <2>1. UNCHANGED <<isolated, sha, local, lp, built>> /\ Goto(r, "killed")
    BY <1>13 DEF Killed, checkout, launchpad
  <2>2. QED
    BY <2>1, Moves DEF Pc
<1>14. QED
  BY <1>2, <1>3, <1>4, <1>5, <1>6, <1>7, <1>8, <1>9, <1>10, <1>11, <1>12, <1>13

LEMMA StartTree == ASSUME IInv, NEW r \in Run, Start(r) PROVE TreeInv'
<1> USE DEF Dance, Worktree, Owning, Pushing
<1>1. UNCHANGED <<isolated, local, lp, built>> /\ pc[r] = "new"
  BY DEF Start, checkout, launchpad
<1>2. CASE Fails(r, "end") /\ UNCHANGED sha
  BY <1>1, <1>2, Moves DEF Fails, Pc
<1>3. CASE Goto(r, "ref") /\ \E c : sha' = [sha EXCEPT ![r] = c]
  <2>1. \A s \in Run : pc'[s] = IF s = r THEN "ref" ELSE pc[s]
    BY <1>3 DEF IInv, TypeOK, Goto
  <2>2. \A s \in Run : s # r => sha'[s] = sha[s]
    BY <1>3 DEF IInv, TypeOK
  <2>3. Places' /\ LPTree' /\ PlainTree' /\ Unbuilt'
    BY <1>1, <2>1 DEF IInv, TreeInv, Places, LPTree, PlainTree, Unbuilt
  <2>4. SourceOnLP'
    BY <1>1, <2>2 DEF IInv, TreeInv, Unbuilt, SourceOnLP
  <2>5. Prepared'
    BY <1>1, <2>1, <2>2 DEF IInv, TreeInv, Prepared
  <2>6. Owned'
    BY <1>1, <2>1, <2>2 DEF IInv, TreeInv, Owned
  <2>7. QED
    BY <2>3, <2>4, <2>5, <2>6 DEF TreeInv
<1>4. QED
  BY <1>2, <1>3 DEF Start, Works

\* A run puts something on its branch, and goes on as a run of its kind does.
LEMMA BranchTree ==
  ASSUME IInv, NEW r \in Run, NEW l \in Pc, NEW t, Goto(r, l),
         local' = [local EXCEPT ![sha[r]] = t],
         UNCHANGED <<isolated, sha, lp, built>>,
         l # "new",
         isolated => l \notin Dance, ~isolated => l \notin Worktree,
         ~isolated => t \in {None, <<sha[r], FALSE>>},
         isolated => \A s \in Run : s # r /\ pc[s] \in Owning => sha[s] # sha[r],
         isolated /\ l \in Owning => t # None,
         isolated /\ l \in Pushing => t = <<sha[r], TRUE>>
  PROVE  TreeInv'
<1>1. \A s \in Run : pc'[s] = IF s = r THEN l ELSE pc[s]
  BY DEF IInv, TypeOK, Goto
<1>2. sha \in [Run -> Commit] /\ \A b \in Commit : local'[b] = IF b = sha[r] THEN t ELSE local[b]
  BY DEF IInv, TypeOK
<1>3. Places' /\ Unbuilt'
  BY <1>1 DEF IInv, TreeInv, Places, Unbuilt
<1>4. LPTree' /\ SourceOnLP'
  BY DEF IInv, TreeInv, LPTree, SourceOnLP
<1>5. PlainTree'
  BY <1>2 DEF IInv, TreeInv, PlainTree
<1>6. Owned'
  <2> SUFFICES ASSUME isolated, NEW q \in Run, pc'[q] \in Owning
               PROVE  /\ local'[sha[q]] # None
                      /\ \A s \in Run : s # q /\ pc'[s] \in Owning => sha[s] # sha[q]
    BY DEF Owned
  <2>1. CASE q = r
    BY <1>1, <1>2, <2>1
  <2>2. CASE q # r
    <3>1. pc[q] \in Owning /\ sha[q] # sha[r]
      BY <1>1, <2>2
    <3>2. local'[sha[q]] # None
      BY <1>2, <3>1 DEF IInv, TreeInv, Owned
    <3>3. ASSUME NEW s \in Run, s # q, pc'[s] \in Owning  PROVE sha[s] # sha[q]
      <4>1. CASE s = r
        BY <3>1, <4>1
      <4>2. CASE s # r
        BY <1>1, <3>1, <3>3, <4>2 DEF IInv, TreeInv, Owned
      <4>3. QED
        BY <4>1, <4>2
    <3>4. QED
      BY <3>2, <3>3
  <2>3. QED
    BY <2>1, <2>2
<1>7. Prepared'
  <2> SUFFICES ASSUME isolated, NEW q \in Run, pc'[q] \in Pushing
               PROVE  local'[sha[q]] = <<sha[q], TRUE>>
    BY DEF Prepared
  <2>1. CASE q = r
    BY <1>1, <1>2, <2>1
  <2>2. CASE q # r
    <3>1. pc[q] \in Pushing /\ sha[q] # sha[r]
      BY <1>1, <2>2 DEF Owning
    <3>2. QED
      BY <1>2, <3>1 DEF IInv, TreeInv, Prepared
  <2>3. QED
    BY <2>1, <2>2
<1>8. QED
  BY <1>3, <1>4, <1>5, <1>6, <1>7 DEF TreeInv

LEMMA LocalTree ==
  ASSUME IInv, NEW r \in Run,
         \/ AddWorktree(r) \/ CommitPrepared(r) \/ Cleanup(r)
         \/ CreateBranch(r) \/ DeleteBranch(r)
  PROVE  TreeInv'
<1> USE DEF Dance, Worktree, Owning, Pushing
<1>0. /\ (isolated => pc[r] \notin Dance) /\ (~isolated => pc[r] \notin Worktree)
      /\ sha[r] \in Commit /\ Name(sha[r]) = sha[r]
      /\ <<sha[r], FALSE>> # None /\ <<sha[r], TRUE>> # None
  <2>1. sha[r] \in Commit /\ Name(sha[r]) = sha[r]
    BY DEF IInv, TypeOK, Name
  <2>2. <<sha[r], FALSE>> \in Source /\ <<sha[r], TRUE>> \in Source
    BY <2>1 DEF Source
  <2>3. <<sha[r], FALSE>> # None /\ <<sha[r], TRUE>> # None
    BY <2>2
  <2>4. QED
    BY <2>1, <2>3 DEF IInv, TreeInv, Places
<1>1. UNCHANGED <<isolated, sha, lp, built>>
  BY DEF AddWorktree, CommitPrepared, Cleanup, CreateBranch, DeleteBranch, launchpad
<1>2. CASE AddWorktree(r)
  <2>1. pc[r] = "add" /\ isolated
    BY <1>0, <1>2 DEF AddWorktree, IInv, TypeOK
  <2>2. CASE Goto(r, "end") /\ UNCHANGED local
    BY <1>1, <2>1, <2>2, Moves DEF Pc
  <2>3. CASE /\ ~Exists(sha[r]) /\ local' = [local EXCEPT ![sha[r]] = <<sha[r], FALSE>>]
             /\ Goto(r, "run")
    <3>1. \A s \in Run : s # r /\ pc[s] \in Owning => sha[s] # sha[r]
      BY <1>0, <2>1, <2>3 DEF Exists, IInv, TreeInv, Owned
    <3>2. QED
      BY <1>0, <1>1, <2>1, <2>3, <3>1, BranchTree DEF Pc
  <2>4. QED
    BY <1>0, <1>2, <2>2, <2>3 DEF AddWorktree, Works, Fails
<1>3. CASE CommitPrepared(r)
  <2>1. pc[r] = "commit" /\ isolated
    BY <1>0, <1>3 DEF CommitPrepared, IInv, TypeOK
  <2>2. CASE Goto(r, "cleanup") /\ UNCHANGED local
    BY <1>1, <2>1, <2>2, Moves DEF Pc
  <2>3. CASE /\ local' = [local EXCEPT ![sha[r]] = <<sha[r], TRUE>>]
             /\ Goto(r, "wait") \/ Goto(r, "main")
    <3>1. \A s \in Run : s # r /\ pc[s] \in Owning => sha[s] # sha[r]
      BY <2>1 DEF IInv, TreeInv, Owned
    <3>2. QED
      BY <1>0, <1>1, <2>1, <2>3, <3>1, BranchTree DEF Pc
  <2>4. QED
    BY <1>0, <1>3, <2>2, <2>3 DEF CommitPrepared, Works, Fails
<1>4. CASE Cleanup(r)
  <2>1. pc[r] = "cleanup" /\ isolated /\ Goto(r, "end")
    BY <1>0, <1>4 DEF Cleanup, IInv, TypeOK
  <2>2. CASE UNCHANGED local
    BY <1>1, <2>1, <2>2, Moves DEF Pc
  <2>3. CASE local' = [local EXCEPT ![sha[r]] = None]
    <3>1. \A s \in Run : s # r /\ pc[s] \in Owning => sha[s] # sha[r]
      BY <2>1 DEF IInv, TreeInv, Owned
    <3>2. QED
      BY <1>0, <1>1, <2>1, <2>3, <3>1, BranchTree DEF Pc
  <2>4. QED
    BY <1>0, <1>4, <2>2, <2>3 DEF Cleanup
<1>5. CASE CreateBranch(r)
  <2>1. pc[r] = "create" /\ ~isolated
    BY <1>0, <1>5 DEF CreateBranch
  <2>2. CASE Goto(r, "end") /\ UNCHANGED local
    BY <1>1, <2>1, <2>2, Moves DEF Pc
  <2>3. CASE local' = [local EXCEPT ![sha[r]] = <<sha[r], FALSE>>] /\ Goto(r, "checkout")
    BY <1>0, <1>1, <2>1, <2>3, BranchTree DEF Pc
  <2>4. QED
    BY <1>0, <1>5, <2>2, <2>3 DEF CreateBranch, Works, Fails
<1>6. CASE DeleteBranch(r)
  <2>1. pc[r] = "delete" /\ ~isolated
    BY <1>0, <1>6 DEF DeleteBranch
  <2>2. Goto(r, "wait") \/ Goto(r, "end")
    <3>1. CASE ok[r]
      BY <1>6, <3>1, Zenon DEF DeleteBranch
    <3>2. CASE ~ok[r]
      BY <1>6, <3>2, Zenon DEF DeleteBranch
    <3>3. QED
      BY <3>1, <3>2
  <2>3. CASE UNCHANGED local
    BY <1>1, <2>1, <2>2, <2>3, Moves DEF Pc
  <2>4. CASE local' = [local EXCEPT ![sha[r]] = None]
    BY <1>0, <1>1, <2>1, <2>2, <2>4, BranchTree DEF Pc
  <2>5. QED
    BY <1>0, <1>6, <2>3, <2>4 DEF DeleteBranch
<1>7. QED
  BY <1>2, <1>3, <1>4, <1>5, <1>6

\* A push takes what the branch holds, which is the run's own.
LEMMA PushTree == ASSUME IInv, NEW r \in Run, Push(r) PROVE TreeInv'
<1> DEFINE c == sha[r]
<1>1. /\ UNCHANGED <<isolated, sha, local, built>> /\ pc[r] = "push" /\ Goto(r, "drop")
      /\ lp' = [lp EXCEPT ![c] = local[c]] /\ c \in Commit /\ local[c] # None
  BY DEF Push, Pushable, Exists, Name, Works, Fails, checkout, IInv, TypeOK
<1>2. local[c] = <<c, isolated>>
  <2>1. CASE isolated
    <3>1. local[c] = <<c, TRUE>> /\ isolated = TRUE
      BY <1>1, <2>1 DEF IInv, TypeOK, TreeInv, Prepared, Pushing
    <3>2. QED
      BY <3>1
  <2>2. CASE ~isolated
    <3>1. local[c] = <<c, FALSE>> /\ isolated = FALSE
      BY <1>1, <2>2 DEF IInv, TypeOK, TreeInv, PlainTree
    <3>2. QED
      BY <3>1
  <2>3. QED
    BY <2>1, <2>2
<1>3. LPTree'
  <2> HIDE DEF c
  <2> QED  BY <1>1, <1>2 DEF IInv, TypeOK, TreeInv, LPTree
<1>4. \A s \in Run : pc'[s] = IF s = r THEN "drop" ELSE pc[s]
  BY <1>1 DEF IInv, TypeOK, Goto
<1>5. Places' /\ PlainTree' /\ Prepared' /\ Unbuilt' /\ SourceOnLP'
  BY <1>1, <1>4
  DEF IInv, TreeInv, Places, PlainTree, Prepared, Unbuilt, SourceOnLP, Dance, Worktree, Pushing
<1>6. Owned'
  BY <1>1, <1>4 DEF IInv, TreeInv, Owned, Owning, Pushing
<1>7. QED
  BY <1>3, <1>5, <1>6 DEF TreeInv

LEMMA WaitTree == ASSUME IInv, NEW r \in Run, WaitForRef(r) PROVE TreeInv'
<1>1. /\ UNCHANGED <<isolated, sha, local, lp>> /\ pc[r] = "wait" /\ sha[r] \in Commit
      /\ built' = built \/ built' = [built EXCEPT ![r] = lp[sha[r]]]
  BY DEF WaitForRef, Name, checkout, launchpad, IInv, TypeOK
<1>2. PICK l \in {"cleanup", "end"} : Goto(r, l) /\ (isolated <=> l = "cleanup")
  <2>1. CASE isolated
    <3>1. Goto(r, "cleanup")
      BY <2>1, Zenon DEF WaitForRef, Works, Fails
    <3>2. QED
      BY <2>1, <3>1
  <2>2. CASE ~isolated
    <3>1. Goto(r, "end")
      BY <2>2, Zenon DEF WaitForRef, Works, Fails
    <3>2. QED
      BY <2>2, <3>1
  <2>3. QED
    BY <2>1, <2>2
<1>3. \A s \in Run : pc'[s] = IF s = r THEN l ELSE pc[s]
  BY <1>2 DEF IInv, TypeOK, Goto
<1>4. lp[sha[r]] \in {None, <<sha[r], isolated>>}
  BY <1>1 DEF IInv, TreeInv, LPTree
<1>5. SourceOnLP'
  BY <1>1, <1>4 DEF IInv, TypeOK, TreeInv, SourceOnLP
<1>6. Unbuilt'
  BY <1>1, <1>2, <1>3 DEF IInv, TypeOK, TreeInv, Unbuilt
<1>7. Places' /\ LPTree' /\ PlainTree' /\ Prepared'
  BY <1>1, <1>2, <1>3
  DEF IInv, TreeInv, Places, LPTree, PlainTree, Prepared, Dance, Worktree, Pushing
<1>8. Owned'
  BY <1>1, <1>2, <1>3 DEF IInv, TreeInv, Owned, Owning, Pushing
<1>9. QED
  BY <1>5, <1>6, <1>7, <1>8 DEF TreeInv

LEMMA OthersTree ==
  ASSUME IInv,
         UserCommit \/ UserReturns \/ (\E b \in Commit : Index(b) \/ Delete(b)) \/ UNCHANGED vars
  PROVE  TreeInv'
<1> USE DEF IInv, TreeInv
<1>1. CASE UNCHANGED <<isolated, local, lp, runVars>>
  BY <1>1 DEF runVars, Places, LPTree, PlainTree, Owned, Prepared, Unbuilt, SourceOnLP
<1>2. ASSUME NEW b \in Commit, Delete(b)  PROVE TreeInv'
  <2>1. UNCHANGED <<isolated, local, runVars>> /\ lp' = [lp EXCEPT ![b] = None]
    BY <1>2 DEF Delete, checkout
  <2>2. LPTree'
    BY <2>1 DEF TypeOK, LPTree
  <2>3. QED
    BY <2>1, <2>2 DEF runVars, Places, PlainTree, Owned, Prepared, Unbuilt, SourceOnLP
<1>3. QED
  BY <1>1, <1>2 DEF UserCommit, UserReturns, Index, vars, launchpad, checkout

LEMMA NextTree == IInv /\ [Next]_vars => TreeInv'
<1> SUFFICES ASSUME IInv, [Next]_vars PROVE TreeInv'
  OBVIOUS
<1>1. ASSUME NEW r \in Run, Step(r) \/ Killed(r)  PROVE TreeInv'
  BY <1>1, QuietTree, StartTree, LocalTree, PushTree, WaitTree DEF Step
<1>2. QED
  BY <1>1, OthersTree DEF Next

\* Whatever runs did in the same repository and left there and on Launchpad, a
\* run finds the commit it began with on its branch, prepared if it prepares.
THEOREM SameTree == Spec => []SourceOnLP
<1>1. Init => IInv
  BY InitTypes, InitTree DEF IInv
<1>2. IInv /\ [Next]_vars => IInv'
  BY NextTypes, NextTree DEF IInv
<1>3. IInv => SourceOnLP
  BY DEF IInv, TreeInv
<1>4. QED
  BY <1>1, <1>2, <1>3, PTL DEF Spec

-----------------------------------------------------------------------------
(***************************************************************************)
(* RefsProcessed.  No step removes the main branch, and a run that does    *)
(* not push it has seen it.                                                *)
(***************************************************************************)
Seen ==
  \A r \in Run :
    /\ pc[r] = "push" => onMain
    /\ pc[r] \in {"unset", "set"} /\ ~needs[r] => onMain
MainInv == TypeOK /\ RefsProcessed /\ Seen

LEMMA InitMain == Init => RefsProcessed /\ Seen
BY DEF Init, RefsProcessed, Seen

LEMMA MainStays == [Next]_vars /\ onMain => onMain'
<1> SUFFICES ASSUME [Next]_vars, onMain PROVE onMain'
  OBVIOUS
<1>1. ASSUME NEW r \in Run, Step(r) \/ Killed(r)  PROVE onMain'
  <2>1. CASE PushMain(r)
    BY <2>1 DEF PushMain
  <2>2. CASE Push(r)
    BY <2>2 DEF Push
  <2>3. CASE Step(r) /\ ~PushMain(r) /\ ~Push(r)
    BY <2>3, Zenon
    DEF Step, Start, CheckRef, AddWorktree, RunCommand, CommitPrepared, Cleanup, FindBranch,
        CreateBranch, Checkout, Restore, DeleteBranch, CheckMain, UnsetRemote, SetRemote,
        PushFails, DropRemote, WaitForRef, launchpad
  <2>4. CASE Killed(r)
    BY <2>4 DEF Killed, launchpad
  <2>5. QED
    BY <1>1, <2>1, <2>2, <2>3, <2>4
<1>2. CASE UserCommit \/ UserReturns \/ (\E b \in Commit : Index(b) \/ Delete(b)) \/ UNCHANGED vars
  BY <1>2, Zenon DEF UserCommit, UserReturns, Index, Delete, launchpad, vars
<1>3. QED
  BY <1>1, <1>2 DEF Next

\* Where a run comes to the steps that Seen speaks of.
LEMMA SeenStep == ASSUME MainInv, NEW r \in Run, Step(r) \/ Killed(r) PROVE Seen'
<1>1. onMain => onMain'
  BY MainStays DEF Next
<1>2. PICK l : Goto(r, l) /\ (l \in {"unset", "set", "push"} =>
                                \/ CheckMain(r) /\ l = "unset"
                                \/ UnsetRemote(r) /\ l = "set"
                                \/ SetRemote(r) /\ l = "push" /\ ~needs[r]
                                \/ PushMain(r) /\ l = "push")
  <2>1. CASE CheckMain(r)
    BY <2>1 DEF CheckMain
  <2>2. CASE UnsetRemote(r)
    BY <2>2 DEF UnsetRemote
  <2>3. CASE SetRemote(r)
    <3>1. Goto(r, "pushmain") \/ (Goto(r, "push") /\ ~needs[r]) \/ Goto(r, "wait")
          \/ Goto(r, "cleanup") \/ Goto(r, "restore")
      BY <2>3, Zenon DEF SetRemote, Works, Pushed
    <3>2. QED
      BY <2>3, <3>1
  <2>4. CASE PushMain(r)
    <3>1. Goto(r, "push") \/ Goto(r, "drop")
      BY <2>4, Zenon DEF PushMain, Works, Fails
    <3>2. QED
      BY <2>4, <3>1
  <2>5. CASE Start(r) \/ CheckRef(r)
    <3>1. Goto(r, "ref") \/ Goto(r, "end") \/ Goto(r, "add") \/ Goto(r, "wait") \/ Goto(r, "branch")
      BY <2>5, Zenon DEF Start, CheckRef, Works, Fails
    <3>2. QED
      BY <3>1
  <2>6. CASE AddWorktree(r) \/ RunCommand(r) \/ CommitPrepared(r) \/ Cleanup(r)
    <3>1. \/ Goto(r, "run") \/ Goto(r, "end") \/ Goto(r, "commit") \/ Goto(r, "cleanup")
          \/ Goto(r, "wait") \/ Goto(r, "main")
      BY <2>6, Zenon DEF AddWorktree, RunCommand, CommitPrepared, Cleanup, Works, Fails
    <3>2. QED
      BY <3>1
  <2>7. CASE FindBranch(r) \/ CreateBranch(r) \/ Checkout(r) \/ Restore(r) \/ DeleteBranch(r)
    <3>1. \/ Goto(r, "create") \/ Goto(r, "end") \/ Goto(r, "checkout") \/ Goto(r, "main")
          \/ Goto(r, "delete") \/ Goto(r, "wait")
      BY <2>7, Zenon DEF FindBranch, CreateBranch, Checkout, Restore, DeleteBranch, Works, Fails
    <3>2. QED
      BY <3>1
  <2>8. CASE Push(r) \/ PushFails(r) \/ DropRemote(r) \/ WaitForRef(r) \/ Killed(r)
    <3>1. \/ Goto(r, "drop") \/ Goto(r, "wait") \/ Goto(r, "cleanup") \/ Goto(r, "restore")
          \/ Goto(r, "end") \/ Goto(r, "killed")
      BY <2>8, Zenon DEF Push, PushFails, DropRemote, WaitForRef, Killed, Pushed, Works, Fails
    <3>2. QED
      BY <3>1
  <2>9. QED
    BY <2>1, <2>2, <2>3, <2>4, <2>5, <2>6, <2>7, <2>8 DEF Step
<1>3. \A s \in Run : pc'[s] = IF s = r THEN l ELSE pc[s]
  BY <1>2 DEF MainInv, TypeOK, Goto
<1>4. \A s \in Run : s # r => needs'[s] = needs[s]
  <2>1. CASE CheckMain(r)
    BY <2>1 DEF CheckMain, MainInv, TypeOK
  <2>2. CASE Killed(r) \/ (Step(r) /\ ~CheckMain(r))
    <3>1. needs' = needs
      BY <2>2, Zenon
      DEF Step, Killed, Start, CheckRef, AddWorktree, RunCommand, CommitPrepared, Cleanup,
          FindBranch, CreateBranch, Checkout, Restore, DeleteBranch, UnsetRemote, SetRemote,
          PushMain, Push, PushFails, DropRemote, WaitForRef
    <3>2. QED
      BY <3>1
  <2>3. QED
    BY <2>1, <2>2
<1>5. l = "push" => onMain'
  <2> SUFFICES ASSUME l = "push" PROVE onMain'
    OBVIOUS
  <2>1. CASE SetRemote(r) /\ ~needs[r]
    BY <1>1, <2>1 DEF SetRemote, MainInv, Seen
  <2>2. CASE PushMain(r)
    BY <2>2 DEF PushMain
  <2>3. QED
    BY <1>2, <2>1, <2>2
<1>6. l \in {"unset", "set"} /\ ~needs'[r] => onMain'
  <2> SUFFICES ASSUME l \in {"unset", "set"}, ~needs'[r] PROVE onMain'
    OBVIOUS
  <2>1. CASE CheckMain(r)
    <3>1. \/ needs' = [needs EXCEPT ![r] = ~onMain] \/ needs' = [needs EXCEPT ![r] = TRUE]
      BY <2>1, Zenon DEF CheckMain
    <3>2. needs'[r] = ~onMain \/ needs'[r] = TRUE
      BY <3>1 DEF MainInv, TypeOK
    <3>3. QED
      BY <1>1, <3>2, Zenon DEF MainInv, TypeOK
  <2>2. CASE UnsetRemote(r)
    BY <1>1, <2>2 DEF UnsetRemote, MainInv, Seen
  <2>3. QED
    BY <1>2, <2>1, <2>2
<1>7. QED
  BY <1>1, <1>3, <1>4, <1>5, <1>6 DEF MainInv, Seen

LEMMA NextMain == MainInv /\ [Next]_vars => (RefsProcessed /\ Seen)'
<1> SUFFICES ASSUME MainInv, [Next]_vars PROVE RefsProcessed' /\ Seen'
  OBVIOUS
<1>1. onMain => onMain'
  BY MainStays
<1>2. RefsProcessed'
  <2> SUFFICES ASSUME NEW b \in Commit, lp'[b] # None PROVE onMain'
    BY DEF RefsProcessed
  <2>1. CASE \E r \in Run : Push(r)
    BY <1>1, <2>1 DEF Push, MainInv, Seen
  <2>2. CASE \E c \in Commit : Delete(c)
    BY <1>1, <2>2 DEF Delete, MainInv, TypeOK, RefsProcessed
  <2>3. CASE lp' = lp
    BY <1>1, <2>3 DEF MainInv, RefsProcessed
  <2>4. QED
    BY <2>1, <2>2, <2>3, Zenon
    DEF Next, Step, Killed, Start, CheckRef, AddWorktree, RunCommand, CommitPrepared, Cleanup,
        FindBranch, CreateBranch, Checkout, Restore, DeleteBranch, CheckMain, UnsetRemote,
        SetRemote, PushMain, PushFails, DropRemote, WaitForRef, UserCommit, UserReturns,
        Index, launchpad, vars
<1>3. Seen'
  <2>1. ASSUME NEW r \in Run, Step(r) \/ Killed(r)  PROVE Seen'
    BY <2>1, SeenStep
  <2>2. CASE UserCommit \/ UserReturns \/ (\E b \in Commit : Index(b) \/ Delete(b)) \/ UNCHANGED vars
    <3>1. UNCHANGED runVars
      BY <2>2, Zenon DEF UserCommit, UserReturns, Index, Delete, vars
    <3>2. QED
      BY <1>1, <3>1 DEF runVars, MainInv, Seen
  <2>3. QED
    BY <2>1, <2>2 DEF Next
<1>4. QED
  BY <1>2, <1>3

\* No branch is on Launchpad without a main branch, so that it is processed,
\* whichever requests fail and however runs overlap.
THEOREM MainFirst == Spec => []RefsProcessed
<1>1. Init => MainInv
  BY InitTypes, InitMain DEF MainInv
<1>2. MainInv /\ [Next]_vars => MainInv'
  BY NextTypes, NextMain DEF MainInv
<1>3. MainInv => RefsProcessed
  BY DEF MainInv
<1>4. QED
  BY <1>1, <1>2, <1>3, PTL DEF Spec
-----------------------------------------------------------------------------
(***************************************************************************)
(* CheckoutRestored.  It speaks of the end; all along, what is not as      *)
(* before has a run that is going to put it back.                          *)
(***************************************************************************)

\* Without worktrees, from the switch of the checkout to the way back.
Away == {"main", "unset", "set", "pushmain", "push", "drop", "restore"}

\* From the making of the shared remote to its removal.
Remoting == {"pushmain", "push", "drop"}

\* From the making of the temporary branch to its removal.
Keeping ==
  Pushing \cup {"drop"}
    \cup IF isolated THEN {"run", "commit", "wait", "cleanup"}
                     ELSE {"checkout", "restore", "delete"}

HomeInv == isolated => head = own
HeadInv == (\A r \in Run : pc[r] \notin Away) => head = own
OrigInv ==
  ~isolated => \A r \in Run : pc[r] \in Away \cup {"create", "checkout"} => orig[r] = own
RemoteInv == remote => \E r \in Run : pc[r] \in Remoting
LocalInv ==
  \A b \in Commit : local[b] # None => \E r \in Run : pc[r] \in Keeping /\ sha[r] = b

RestoreInv ==
  HomeInv /\ (~spoilt => HeadInv /\ OrigInv /\ RemoteInv /\ LocalInv)

LEMMA InitRestore == Init => RestoreInv
BY DEF Init, RestoreInv, HomeInv, HeadInv, OrigInv, RemoteInv, LocalInv, Away

\* No step repairs what git or a kill has left.
LEMMA SpoiltStays == ASSUME [Next]_vars, spoilt PROVE spoilt'
<1>1. ASSUME NEW r \in Run, Step(r) \/ Killed(r)  PROVE spoilt'
  BY <1>1, Zenon
  DEF Step, Killed, Start, CheckRef, AddWorktree, RunCommand, CommitPrepared, Cleanup,
      FindBranch, CreateBranch, Checkout, Restore, DeleteBranch, CheckMain, UnsetRemote,
      SetRemote, PushMain, Push, PushFails, DropRemote, WaitForRef, Dropped
<1>2. CASE UserCommit \/ UserReturns \/ (\E b \in Commit : Index(b) \/ Delete(b)) \/ UNCHANGED vars
  BY <1>2, Zenon DEF UserCommit, UserReturns, Index, Delete, vars
<1>3. QED
  BY <1>1, <1>2 DEF Next

\* A step of one run leaves the places, commits and branches of the others.
LEMMA StepFrame ==
  ASSUME IInv, NEW r \in Run, Step(r)
  PROVE  /\ UNCHANGED isolated
         /\ \A s \in Run : s # r => pc'[s] = pc[s] /\ sha'[s] = sha[s] /\ orig'[s] = orig[s]
<1>1. UNCHANGED isolated
  BY Zenon
  DEF Step, Start, CheckRef, AddWorktree, RunCommand, CommitPrepared, Cleanup,
      FindBranch, CreateBranch, Checkout, Restore, DeleteBranch, CheckMain, UnsetRemote,
      SetRemote, PushMain, Push, PushFails, DropRemote, WaitForRef
<1>2. \E l : Goto(r, l)
  BY Zenon
  DEF Step, Start, CheckRef, AddWorktree, RunCommand, CommitPrepared, Cleanup,
      FindBranch, CreateBranch, Checkout, Restore, DeleteBranch, CheckMain, UnsetRemote,
      SetRemote, PushMain, Push, PushFails, DropRemote, WaitForRef, Works, Fails
<1>3. \/ UNCHANGED <<sha, orig>>
      \/ \E c : sha' = [sha EXCEPT ![r] = c] /\ UNCHANGED orig
      \/ \E b : orig' = [orig EXCEPT ![r] = b] /\ UNCHANGED sha
  BY Zenon
  DEF Step, Start, CheckRef, AddWorktree, RunCommand, CommitPrepared, Cleanup,
      FindBranch, CreateBranch, Checkout, Restore, DeleteBranch, CheckMain, UnsetRemote,
      SetRemote, PushMain, Push, PushFails, DropRemote, WaitForRef
<1>4. QED
  BY <1>1, <1>2, <1>3 DEF IInv, TypeOK, Goto

\* The commit of a run is settled when it begins.
LEMMA ShaKept ==
  ASSUME IInv, NEW r \in Run, Step(r), pc[r] # "new"
  PROVE  UNCHANGED sha
BY Zenon
DEF Step, Start, CheckRef, AddWorktree, RunCommand, CommitPrepared, Cleanup,
    FindBranch, CreateBranch, Checkout, Restore, DeleteBranch, CheckMain, UnsetRemote,
    SetRemote, PushMain, Push, PushFails, DropRemote, WaitForRef

LEMMA PushedWhere ==
  ASSUME NEW r \in Run, Goto(r, Pushed(r))
  PROVE  /\ isolated => Goto(r, "wait") \/ Goto(r, "cleanup")
         /\ ~isolated => Goto(r, "restore")
BY Zenon DEF Pushed

\* The switch of the checkout ends with Restore.
LEMMA AwayEnds ==
  ASSUME IInv, ~isolated, NEW r \in Run, Step(r), pc[r] \in Away, pc'[r] \notin Away
  PROVE  Restore(r)
<1> USE DEF IInv, TypeOK, Goto, Away, Works, Fails
<1>1. ~CheckMain(r) /\ ~UnsetRemote(r) /\ ~PushMain(r) /\ ~Push(r) /\ ~PushFails(r)
  BY DEF CheckMain, UnsetRemote, PushMain, Push, PushFails
<1>2. ~SetRemote(r)
  <2> SUFFICES ASSUME SetRemote(r) PROVE FALSE
    OBVIOUS
  <2>1. Goto(r, "pushmain") \/ Goto(r, "push") \/ Goto(r, Pushed(r))
    BY Zenon DEF SetRemote
  <2>2. QED
    BY <2>1, PushedWhere
<1>3. ~DropRemote(r)
  BY PushedWhere DEF DropRemote
<1>4. QED
  BY <1>1, <1>2, <1>3
  DEF Step, Start, CheckRef, AddWorktree, RunCommand, CommitPrepared, Cleanup, FindBranch,
      CreateBranch, Checkout, DeleteBranch, WaitForRef

\* The remote's use ends with its removal.
LEMMA RemotingEnds ==
  ASSUME IInv, NEW r \in Run, Step(r), pc[r] \in Remoting, pc'[r] \notin Remoting
  PROVE  DropRemote(r)
<1> USE DEF IInv, TypeOK, Goto, Remoting, Works, Fails
<1>1. ~PushMain(r) /\ ~Push(r) /\ ~PushFails(r)
  BY DEF PushMain, Push, PushFails
<1>2. QED
  BY <1>1
  DEF Step, Start, CheckRef, AddWorktree, RunCommand, CommitPrepared, Cleanup, FindBranch,
      CreateBranch, Checkout, Restore, DeleteBranch, WaitForRef, CheckMain, UnsetRemote,
      SetRemote

\* The branch's use ends with its removal, or with a checkout that fails.
LEMMA KeepingEnds ==
  ASSUME IInv, NEW r \in Run, Step(r), pc[r] \in Keeping, pc'[r] \notin Keeping'
  PROVE  Cleanup(r) \/ DeleteBranch(r) \/ Checkout(r)
<1> USE DEF IInv, TypeOK, Goto, Works, Fails
<1>0. Keeping' = Keeping
  BY StepFrame DEF Keeping
<1>1. ~CheckMain(r) /\ ~UnsetRemote(r) /\ ~PushMain(r) /\ ~Push(r) /\ ~PushFails(r)
  BY <1>0 DEF CheckMain, UnsetRemote, PushMain, Push, PushFails, Keeping, Pushing
<1>2. ~SetRemote(r) /\ ~DropRemote(r)
  <2> SUFFICES ASSUME SetRemote(r) \/ DropRemote(r) PROVE FALSE
    OBVIOUS
  <2>1. Goto(r, "pushmain") \/ Goto(r, "push") \/ Goto(r, Pushed(r))
    BY Zenon DEF SetRemote, DropRemote
  <2>2. QED
    BY <1>0, <2>1, PushedWhere DEF Keeping, Pushing
<1>3. ~RunCommand(r) /\ ~CommitPrepared(r) /\ ~Restore(r)
  <2>1. ~(RunCommand(r) \/ Restore(r))
    BY <1>0 DEF RunCommand, Restore, Keeping, Pushing
  <2>2. ASSUME CommitPrepared(r) PROVE FALSE
    <3>1. Goto(r, "wait") \/ Goto(r, "main") \/ Goto(r, "cleanup")
      BY <2>2, Zenon DEF CommitPrepared
    <3>2. pc[r] = "commit" /\ isolated
      BY <2>2 DEF CommitPrepared, Keeping, Pushing
    <3>3. QED
      BY <1>0, <3>1, <3>2 DEF Keeping, Pushing
  <2>3. QED
    BY <2>1, <2>2
<1>4. ~WaitForRef(r)
  <2> SUFFICES ASSUME WaitForRef(r) PROVE FALSE
    OBVIOUS
  <2>1. pc[r] = "wait" /\ isolated
    BY DEF WaitForRef, Keeping, Pushing
  <2>2. Goto(r, "cleanup")
    BY <2>1, Zenon DEF WaitForRef
  <2>3. QED
    BY <1>0, <2>1, <2>2 DEF Keeping
<1>5. QED
  BY <1>1, <1>2, <1>3, <1>4
  DEF Step, Start, CheckRef, AddWorktree, FindBranch, CreateBranch, Keeping, Pushing
\* The checkout leaves the user's branch by Checkout alone, and a run that
\* begins to switch has noted where it was.
LEMMA HeadStep ==
  ASSUME IInv, RestoreInv, NEW r \in Run, Step(r), ~spoilt'
  PROVE  HomeInv' /\ HeadInv' /\ OrigInv'
<1>1. /\ UNCHANGED isolated
      /\ \A s \in Run : s # r => pc'[s] = pc[s] /\ orig'[s] = orig[s]
  BY StepFrame
<1>2. HomeInv /\ HeadInv /\ OrigInv
  BY SpoiltStays DEF RestoreInv, Next
<1>3. ASSUME isolated PROVE HomeInv' /\ HeadInv' /\ OrigInv'
  <2>1. ~Checkout(r) /\ ~Restore(r)
    BY <1>3 DEF Checkout, Restore, IInv, TreeInv, Places, Dance
  <2>2. head' = head
    BY <2>1, Zenon
    DEF Step, Start, CheckRef, AddWorktree, RunCommand, CommitPrepared, Cleanup, FindBranch,
        CreateBranch, DeleteBranch, CheckMain, UnsetRemote, SetRemote, PushMain, Push,
        PushFails, DropRemote, WaitForRef, checkout
  <2>3. QED
    BY <1>1, <1>2, <1>3, <2>2 DEF HomeInv, HeadInv, OrigInv
<1>4. ASSUME ~isolated PROVE HomeInv' /\ HeadInv' /\ OrigInv'
  <2> USE DEF IInv, TypeOK, Goto, Works, Fails
  <2>1. HomeInv'
    BY <1>1, <1>4 DEF HomeInv
  <2>2. CASE FindBranch(r)
    <3>1. head' = head /\ pc[r] = "branch"
      BY <2>2 DEF FindBranch, checkout
    <3>2. CASE orig' = [orig EXCEPT ![r] = head] /\ Goto(r, "create") /\ Switching = {}
      <4>1. \A s \in Run : pc[s] \notin Away
        BY <3>2 DEF Switching, Away
      <4>2. head = own
        BY <1>2, <4>1 DEF HeadInv
      <4>3. HeadInv'
        BY <3>1, <4>2 DEF HeadInv
      <4>4. OrigInv'
        BY <1>1, <1>2, <3>2, <4>2 DEF OrigInv
      <4>5. QED
        BY <2>1, <4>3, <4>4
    <3>3. CASE orig' = orig /\ Goto(r, "end")
      <4>1. HeadInv'
        BY <1>1, <1>2, <3>1, <3>3 DEF HeadInv, Away
      <4>2. OrigInv'
        BY <1>1, <1>2, <3>3 DEF OrigInv, Away
      <4>3. QED
        BY <2>1, <4>1, <4>2
    <3>4. QED
      BY <2>2, <3>2, <3>3 DEF FindBranch
  <2>3. CASE ~FindBranch(r)
    <3>1. orig' = orig
      BY <2>3, Zenon
      DEF Step, Start, CheckRef, AddWorktree, RunCommand, CommitPrepared, Cleanup,
          CreateBranch, Checkout, Restore, DeleteBranch, CheckMain, UnsetRemote, SetRemote,
          PushMain, Push, PushFails, DropRemote, WaitForRef
    <3>2. pc'[r] \in Away \cup {"create", "checkout"} => pc[r] \in Away \cup {"create", "checkout"}
      <4>1. CASE Start(r) \/ CheckRef(r)
        <5>1. Goto(r, "ref") \/ Goto(r, "end") \/ Goto(r, "add") \/ Goto(r, "wait")
              \/ Goto(r, "branch")
          BY <4>1, Zenon DEF Start, CheckRef, Works, Fails
        <5>2. QED
          BY <5>1 DEF Away
      <4>2. CASE AddWorktree(r) \/ RunCommand(r) \/ CommitPrepared(r) \/ Cleanup(r)
        BY <1>4, <4>2 DEF AddWorktree, RunCommand, CommitPrepared, Cleanup, TreeInv, Places, Worktree
      <4>3. CASE DeleteBranch(r) \/ WaitForRef(r)
        <5>1. Goto(r, "end") \/ Goto(r, "wait") \/ Goto(r, "cleanup")
          BY <4>3, Zenon DEF DeleteBranch, WaitForRef, Works, Fails
        <5>2. QED
          BY <5>1 DEF Away
      <4>4. QED
        BY <2>3, <4>1, <4>2, <4>3
        DEF Step, CreateBranch, Checkout, Restore, CheckMain, UnsetRemote, SetRemote, PushMain,
            Push, PushFails, DropRemote, Away
    <3>3. OrigInv'
      BY <1>1, <1>2, <3>1, <3>2 DEF OrigInv
    <3>4. CASE Restore(r)
      <4>1. orig[r] = own /\ Exists(orig[r])
        BY <1>2, <1>4, <3>4 DEF Restore, OrigInv, Away, Exists, own, Commit
      <4>2. head' = own
        BY <3>4, <4>1 DEF Restore, Dropped
      <4>3. QED
        BY <2>1, <3>3, <4>2 DEF HeadInv
    <3>5. CASE ~Restore(r)
      <4>1. pc[r] \in Away => pc'[r] \in Away
        BY <1>4, <3>5, AwayEnds
      <4>2. CASE Checkout(r) /\ pc'[r] = "main"
        BY <2>1, <3>3, <4>2 DEF HeadInv, Away
      <4>3. CASE Checkout(r) /\ pc'[r] # "main"
        <5>1. head' = head
          BY <4>3 DEF Checkout
        <5>2. HeadInv'
          BY <1>1, <1>2, <4>1, <5>1 DEF HeadInv
        <5>3. QED
          BY <2>1, <3>3, <5>2
      <4>4. CASE ~Checkout(r)
        <5>1. head' = head
          BY <2>3, <3>5, <4>4, Zenon
          DEF Step, Start, CheckRef, AddWorktree, RunCommand, CommitPrepared, Cleanup,
              CreateBranch, DeleteBranch, CheckMain, UnsetRemote, SetRemote, PushMain, Push,
              PushFails, DropRemote, WaitForRef, checkout
        <5>2. HeadInv'
          BY <1>1, <1>2, <4>1, <5>1 DEF HeadInv
        <5>3. QED
          BY <2>1, <3>3, <5>2
      <4>5. QED
        BY <4>2, <4>3, <4>4
    <3>6. QED
      BY <3>4, <3>5
  <2>4. QED
    BY <2>2, <2>3
<1>5. QED
  BY <1>3, <1>4

LEMMA RemoteStep ==
  ASSUME IInv, RemoteInv, NEW r \in Run, Step(r), ~spoilt'
  PROVE  RemoteInv'
<1>1. \A s \in Run : s # r => pc'[s] = pc[s]
  BY StepFrame
<1>2. CASE DropRemote(r) \/ UnsetRemote(r)
  <2>1. ~remote'
    BY <1>2, Zenon DEF DropRemote, UnsetRemote, Dropped
  <2>2. QED
    BY <2>1 DEF RemoteInv
<1>3. CASE SetRemote(r) /\ pc'[r] \in Remoting
  BY <1>3 DEF RemoteInv
<1>4. CASE SetRemote(r) /\ pc'[r] \notin Remoting
  <2>1. UNCHANGED remote
    <3>1. \/ UNCHANGED remote \/ Goto(r, "pushmain") \/ Goto(r, "push")
      BY <1>4, Zenon DEF SetRemote, Works
    <3>2. QED
      BY <1>4, <3>1 DEF Goto, Remoting, IInv, TypeOK
  <2>2. pc[r] \notin Remoting
    BY <1>4 DEF SetRemote, Remoting
  <2>3. QED
    BY <1>1, <2>1, <2>2 DEF RemoteInv
<1>5. CASE ~DropRemote(r) /\ ~UnsetRemote(r) /\ ~SetRemote(r)
  <2>1. UNCHANGED remote
    BY <1>5, Zenon
    DEF Step, Start, CheckRef, AddWorktree, RunCommand, CommitPrepared, Cleanup, FindBranch,
        CreateBranch, Checkout, Restore, DeleteBranch, CheckMain, PushMain, Push, PushFails,
        WaitForRef, checkout
  <2>2. pc[r] \in Remoting => pc'[r] \in Remoting
    BY <1>5, RemotingEnds
  <2>3. QED
    BY <1>1, <2>1, <2>2 DEF RemoteInv
<1>6. QED
  BY <1>2, <1>3, <1>4, <1>5

LEMMA LocalStep ==
  ASSUME IInv, LocalInv, NEW r \in Run, Step(r), ~spoilt'
  PROVE  LocalInv'
<1> DEFINE c == sha[r]
<1>1. /\ UNCHANGED isolated
      /\ \A s \in Run : s # r => pc'[s] = pc[s] /\ sha'[s] = sha[s]
  BY StepFrame
<1>2. Keeping' = Keeping /\ "new" \notin Keeping /\ c \in Commit /\ Name(c) = c
  BY <1>1 DEF Keeping, Pushing, Name, IInv, TypeOK
<1>3. ASSUME NEW b \in Commit, b # c, local'[b] = local[b], local[b] # None
      PROVE  \E s \in Run : pc'[s] \in Keeping' /\ sha'[s] = b
  BY <1>1, <1>2, <1>3 DEF LocalInv
<1>4. ASSUME \A b \in Commit : b # c => local'[b] = local[b],
             local'[c] = None \/ (pc'[r] \in Keeping /\ UNCHANGED sha)
      PROVE  LocalInv'
  BY <1>2, <1>3, <1>4 DEF LocalInv
<1>5. ASSUME UNCHANGED local,
             pc[r] \in Keeping => pc'[r] \in Keeping /\ UNCHANGED sha
      PROVE  LocalInv'
  <2> SUFFICES ASSUME NEW b \in Commit, local[b] # None
               PROVE  \E s \in Run : pc'[s] \in Keeping' /\ sha'[s] = b
    BY <1>5 DEF LocalInv
  <2>1. PICK s \in Run : pc[s] \in Keeping /\ sha[s] = b
    BY DEF LocalInv
  <2>2. QED
    BY <1>1, <1>2, <1>5, <2>1
<1>6. CASE Cleanup(r) \/ DeleteBranch(r)
  <2>1. local' = [local EXCEPT ![c] = None]
    BY <1>2, <1>6, Zenon DEF Cleanup, DeleteBranch, Dropped
  <2>2. QED
    BY <1>2, <1>4, <2>1 DEF IInv, TypeOK
<1>7. CASE Checkout(r)
  <2>1. UNCHANGED local /\ UNCHANGED sha
    BY <1>7 DEF Checkout
  <2>2. CASE pc'[r] = "main"
    BY <1>5, <2>1, <2>2 DEF Keeping, Pushing
  <2>3. CASE pc'[r] # "main"
    <3>1. Goto(r, "main") \/ ~Exists(c)
      BY <1>2, <1>7 DEF Checkout, Works, Dropped
    <3>2. ~Exists(c)
      BY <2>3, <3>1 DEF Goto, IInv, TypeOK
    <3>3. local'[c] = None
      BY <1>2, <2>1, <3>2 DEF Exists
    <3>4. QED
      BY <1>4, <2>1, <3>3
  <2>4. QED
    BY <2>2, <2>3
<1>8. CASE AddWorktree(r) \/ CommitPrepared(r) \/ CreateBranch(r)
  <2>1. UNCHANGED sha
    BY <1>8, Zenon DEF AddWorktree, CommitPrepared, CreateBranch
  <2>2. pc[r] \in Keeping => pc'[r] \in Keeping
    BY <1>2, <1>8, KeepingEnds
    DEF AddWorktree, CommitPrepared, CreateBranch, Cleanup, DeleteBranch, Checkout
  <2>3. \/ UNCHANGED local
        \/ /\ \E t : local' = [local EXCEPT ![c] = t]
           /\ pc'[r] \in Keeping
    <3>1. CASE AddWorktree(r) \/ CommitPrepared(r)
      <4>1. isolated
        BY <3>1 DEF AddWorktree, CommitPrepared, IInv, TreeInv, Places, Worktree
      <4>2. \/ UNCHANGED local
            \/ /\ \E t : local' = [local EXCEPT ![c] = t]
               /\ Goto(r, "run") \/ Goto(r, "wait") \/ Goto(r, "main")
        BY <1>2, <3>1, Zenon DEF AddWorktree, CommitPrepared, Works
      <4>3. QED
        BY <4>1, <4>2 DEF Goto, Keeping, Pushing, IInv, TypeOK
    <3>2. CASE CreateBranch(r)
      <4>1. ~isolated
        BY <3>2 DEF CreateBranch, IInv, TreeInv, Places, Dance
      <4>2. \/ UNCHANGED local
            \/ (\E t : local' = [local EXCEPT ![c] = t]) /\ Goto(r, "checkout")
        BY <1>2, <3>2, Zenon DEF CreateBranch, Works
      <4>3. QED
        BY <4>1, <4>2 DEF Goto, Keeping, IInv, TypeOK
    <3>3. QED
      BY <1>8, <3>1, <3>2
  <2>4. CASE UNCHANGED local
    BY <1>5, <2>1, <2>2, <2>4
  <2>5. ASSUME NEW t, local' = [local EXCEPT ![c] = t], pc'[r] \in Keeping
        PROVE  LocalInv'
    BY <1>4, <2>1, <2>5 DEF IInv, TypeOK
  <2>6. QED
    BY <2>3, <2>4, <2>5
<1>9. CASE ~(Cleanup(r) \/ DeleteBranch(r) \/ Checkout(r) \/ AddWorktree(r)
               \/ CommitPrepared(r) \/ CreateBranch(r))
  <2>1. UNCHANGED local
    BY <1>9, Zenon
    DEF Step, Start, CheckRef, RunCommand, FindBranch, Restore, CheckMain, UnsetRemote,
        SetRemote, PushMain, Push, PushFails, DropRemote, WaitForRef, checkout
  <2>2. pc[r] \in Keeping => pc'[r] \in Keeping /\ UNCHANGED sha
    BY <1>2, <1>9, KeepingEnds, ShaKept
  <2>3. QED
    BY <1>5, <2>1, <2>2
<1>10. QED
  BY <1>6, <1>7, <1>8, <1>9

LEMMA NextRestore == IInv /\ RestoreInv /\ [Next]_vars => RestoreInv'
<1> SUFFICES ASSUME IInv, RestoreInv, [Next]_vars PROVE RestoreInv'
  OBVIOUS
<1>1. spoilt => spoilt'
  BY SpoiltStays
<1>2. ASSUME NEW r \in Run, Step(r)  PROVE RestoreInv'
  <2>1. CASE ~spoilt'
    BY <1>1, <1>2, <2>1, HeadStep, RemoteStep, LocalStep DEF RestoreInv
  <2>2. CASE spoilt'
    <3>1. HomeInv'
      <4> SUFFICES ASSUME isolated' PROVE head' = own
        BY DEF HomeInv
      <4>1. isolated
        BY <1>2, StepFrame
      <4>2. ~Checkout(r) /\ ~Restore(r)
        BY <4>1 DEF Checkout, Restore, IInv, TreeInv, Places, Dance
      <4>3. head' = head
        BY <1>2, <4>2, Zenon
        DEF Step, Start, CheckRef, AddWorktree, RunCommand, CommitPrepared, Cleanup,
            FindBranch, CreateBranch, DeleteBranch, CheckMain, UnsetRemote, SetRemote,
            PushMain, Push, PushFails, DropRemote, WaitForRef, checkout
      <4>4. QED
        BY <4>1, <4>3 DEF RestoreInv, HomeInv
    <3>2. QED
      BY <2>2, <3>1 DEF RestoreInv
  <2>3. QED
    BY <2>1, <2>2
<1>3. ASSUME NEW r \in Run, Killed(r)  PROVE RestoreInv'
  <2>1. spoilt' /\ UNCHANGED <<isolated, head>>
    BY <1>3, Zenon DEF Killed, Dropped, checkout
  <2>2. QED
    BY <2>1 DEF RestoreInv, HomeInv
<1>4. CASE UserCommit \/ (\E b \in Commit : Index(b) \/ Delete(b)) \/ UNCHANGED vars
  <2>1. UNCHANGED <<isolated, head, local, remote, runVars, spoilt>>
    BY <1>4, Zenon DEF UserCommit, Index, Delete, checkout, vars
  <2>2. QED
    BY <2>1
    DEF runVars, RestoreInv, HomeInv, HeadInv, OrigInv, RemoteInv, LocalInv, Keeping
<1>5. CASE UserReturns
  <2>1. head' = own /\ UNCHANGED <<isolated, local, remote, runVars, spoilt>>
    BY <1>5, Zenon DEF UserReturns
  <2>2. QED
    BY <2>1
    DEF runVars, RestoreInv, HomeInv, HeadInv, OrigInv, RemoteInv, LocalInv, Keeping
<1>6. QED
  BY <1>2, <1>3, <1>4, <1>5 DEF Next

\* When the last run is over the checkout is on the user's branch and holds no
\* temporary branch and no remote, however runs with worktrees of their own
\* overlapped and whichever steps failed, but for those named in spoilt.
THEOREM NothingLeft == Spec => []CheckoutRestored
<1>1. Init => IInv /\ RestoreInv
  BY InitTypes, InitTree, InitRestore DEF IInv
<1>2. IInv /\ RestoreInv /\ [Next]_vars => (IInv /\ RestoreInv)'
  BY NextTypes, NextTree, NextRestore DEF IInv
<1>3. RestoreInv => CheckoutRestored
  <2> SUFFICES ASSUME RestoreInv, Running = {}, ~spoilt
               PROVE  head = own /\ ~remote /\ \A b \in Commit : local[b] = None
    BY DEF CheckoutRestored
  <2>1. \A r \in Run : pc[r] \in {"new", "end", "killed"}
    BY DEF Running
  <2>2. \A r \in Run : pc[r] \notin Away /\ pc[r] \notin Remoting /\ pc[r] \notin Keeping
    BY <2>1 DEF Away, Remoting, Keeping, Pushing
  <2>3. QED
    BY <2>2 DEF RestoreInv, HeadInv, RemoteInv, LocalInv
<1>4. QED
  BY <1>1, <1>2, <1>3, PTL DEF Spec
=============================================================================
