---------------------------- MODULE LocalPrepare ----------------------------
(***************************************************************************)
(* Local build preparation (frontend/build_prepare.go): watchtower build   *)
(* trigger --source local pushes the user's commit to a temporary branch   *)
(* of a repository on Launchpad.  With a prepare command it does so from a *)
(* worktree of its own, where it commits what the command made; without    *)
(* one, it checks the temporary branch out in the user's checkout and goes *)
(* back.  Several runs for one project share the checkout, step by step,   *)
(* and may fail or be killed; the user commits, and temporary branches on  *)
(* Launchpad are cleaned up.                                               *)
(*                                                                         *)
(* The prepare command makes the same of the same commit, and the first    *)
(* eight digits of a commit tell it from the others.  The user leaves the  *)
(* checkout alone while it is not on their branch, unless no run is left.  *)
(* X_Bug is a faulty variant of X.                                         *)
(***************************************************************************)
EXTENDS Naturals, FiniteSets

CONSTANTS
  Run,         \* runs of the command
  None,        \* no branch, and no source
  MaxCommits,  \* bound: commits on the user's branch
  MaxFaults    \* bound: failing steps, and runs that are killed

Commit == 1..MaxCommits
own == 0  \* the user's branch; a temporary one has the number of its commit
Branch == {own} \cup Commit
Source == Commit \X BOOLEAN  \* a commit, and whether it is one of the prepared tree
Pc == {"new", "ref", "add", "run", "commit", "branch", "create", "checkout", "main",
       "unset", "set", "pushmain", "push", "drop", "restore", "delete", "wait",
       "cleanup", "end", "killed"}

ASSUME PrepareAssumption ==
  MaxCommits \in Nat \ {0} /\ MaxFaults \in Nat /\ None \notin Branch \cup Source

VARIABLES
  isolated,  \* the project has a prepare command
  tip,       \* the commit the user's branch is at
  head,      \* the branch the checkout is on
  local,     \* where the temporary branches of the repository are at
  remote,    \* it has the remote watchtower-tmp
  lp,        \* where the branches on Launchpad are at
  indexed,   \* those that Launchpad has processed
  onMain,    \* Launchpad has a main branch
  pc,        \* the step each run is at
  sha,       \* the commit it builds
  orig,      \* the branch it goes back to
  skip,      \* its branch was on Launchpad already
  needs,     \* it has to push the main branch
  ok,        \* no step failed
  built,     \* history: what was on its branch when it was found on Launchpad
  faults,    \* history: failing steps so far
  spoilt     \* history: git failed to switch branches or to remove one, a run
             \* was killed, or two were in the user's checkout at once

checkout == <<tip, head, local, remote>>
launchpad == <<lp, indexed, onMain>>
runVars == <<pc, sha, orig, skip, needs, ok, built>>
vars == <<isolated, checkout, launchpad, runVars, faults, spoilt>>

Init ==
  /\ isolated \in BOOLEAN
  /\ tip = 1 /\ head = own /\ remote = FALSE
  /\ local = [b \in Commit |-> None]
  /\ lp = [b \in Commit |-> None] /\ indexed = {} /\ onMain \in BOOLEAN
  /\ pc = [r \in Run |-> "new"] /\ sha = [r \in Run |-> 1] /\ orig = [r \in Run |-> own]
  /\ skip = [r \in Run |-> FALSE] /\ needs = [r \in Run |-> FALSE]
  /\ ok = [r \in Run |-> TRUE]
  /\ built = [r \in Run |-> None]
  /\ faults = 0 /\ spoilt = FALSE

\* The branch is there.
Exists(b) == b \in Commit => local[b] # None

Running == {r \in Run : pc[r] \notin {"new", "end", "killed"}}
\* Runs that are about to use, or have to restore, the user's checkout.
Switching == {r \in Run : pc[r] \in {"create", "checkout", "main", "unset", "set", "pushmain",
                                     "push", "drop", "restore", "delete"}}

Goto(r, l) == pc' = [pc EXCEPT ![r] = l]

Fault == faults < MaxFaults /\ faults' = faults + 1

\* The run returns an error, after the steps it has deferred.
Fails(r, l) == Goto(r, l) /\ ok' = [ok EXCEPT ![r] = FALSE]

Works(r, l) == Goto(r, l) /\ UNCHANGED <<ok, faults>>

\* An error that is dropped, after which the checkout is not as it was.
Dropped == Fault /\ spoilt' = TRUE

-----------------------------------------------------------------------------
(***************************************************************************)
(* PrepareTrigger: which commit, and whether Launchpad has its branch.     *)
(***************************************************************************)
Name(c) == c

Start(r) ==
  /\ pc[r] = "new"
  /\ \/ /\ Exists(head)
        /\ sha' = [sha EXCEPT ![r] = IF head = own THEN tip ELSE local[head][1]]
        /\ Works(r, "ref")
     \/ Fails(r, "end") /\ (Fault \/ (~Exists(head) /\ UNCHANGED faults))
        /\ UNCHANGED sha
  /\ UNCHANGED <<isolated, checkout, launchpad, orig, skip, needs, built, spoilt>>

\* Any error of the request is taken for a missing branch.
CheckRef(r) ==
  /\ pc[r] = "ref"
  /\ \/ skip' = [skip EXCEPT ![r] = Name(sha[r]) \in indexed] /\ UNCHANGED faults
     \/ skip' = [skip EXCEPT ![r] = FALSE] /\ Fault
  /\ Goto(r, IF isolated THEN "add" ELSE IF skip'[r] THEN "wait" ELSE "branch")
  /\ UNCHANGED <<isolated, checkout, launchpad, sha, orig, needs, ok, built, spoilt>>

-----------------------------------------------------------------------------
(***************************************************************************)
(* prepareAndPush with a prepare command: git worktree add -b, which does  *)
(* not take a branch that exists, the command, and the commit.             *)
(***************************************************************************)
AddWorktree_Bug(r) ==
  /\ pc[r] = "add"
  /\ local' = [local EXCEPT ![Name(sha[r])] = <<sha[r], FALSE>>] /\ Works(r, "run")
  /\ UNCHANGED <<isolated, tip, head, remote, launchpad, sha, orig, skip, needs, built, spoilt>>

AddWorktree(r) ==
  /\ pc[r] = "add"
  /\ \/ /\ ~Exists(Name(sha[r]))
        /\ local' = [local EXCEPT ![Name(sha[r])] = <<sha[r], FALSE>>]
        /\ Works(r, "run")
     \/ /\ Fails(r, "end") /\ UNCHANGED local
        /\ Fault \/ (Exists(Name(sha[r])) /\ UNCHANGED faults)
  /\ UNCHANGED <<isolated, tip, head, remote, launchpad, sha, orig, skip, needs, built, spoilt>>

RunCommand(r) ==
  /\ pc[r] = "run"
  /\ Works(r, "commit") \/ (Fails(r, "cleanup") /\ Fault)
  /\ UNCHANGED <<isolated, checkout, launchpad, sha, orig, skip, needs, built, spoilt>>

CommitPrepared(r) ==
  /\ pc[r] = "commit"
  /\ \/ /\ local' = [local EXCEPT ![Name(sha[r])] = <<sha[r], TRUE>>]
        /\ Works(r, IF skip[r] THEN "wait" ELSE "main")
     \/ Fails(r, "cleanup") /\ Fault /\ UNCHANGED local
  /\ UNCHANGED <<isolated, tip, head, remote, launchpad, sha, orig, skip, needs, built, spoilt>>

\* The worktree is removed, then its branch, which git keeps while a worktree is
\* on it, and what is left of the worktree is pruned.  Of all this the others see
\* the branch go.
Cleanup(r) ==
  /\ pc[r] = "cleanup" /\ Goto(r, "end")
  /\ \/ local' = [local EXCEPT ![Name(sha[r])] = None] /\ UNCHANGED <<faults, spoilt>>
     \/ Dropped /\ UNCHANGED local
  /\ UNCHANGED <<isolated, tip, head, remote, launchpad, sha, orig, skip, needs, ok, built>>

-----------------------------------------------------------------------------
(***************************************************************************)
(* pushFromLocalPath: without a prepare command, in the user's checkout.   *)
(***************************************************************************)
FindBranch(r) ==
  /\ pc[r] = "branch"
  /\ \/ /\ Exists(head)
        /\ orig' = [orig EXCEPT ![r] = head]
        /\ Works(r, "create")
        /\ spoilt' = (spoilt \/ Switching # {})
     \/ Fails(r, "end") /\ (Fault \/ (~Exists(head) /\ UNCHANGED faults))
        /\ UNCHANGED <<orig, spoilt>>
  /\ UNCHANGED <<isolated, checkout, launchpad, sha, skip, needs, built>>

\* A branch that exists is moved to the commit.
CreateBranch(r) ==
  /\ pc[r] = "create"
  /\ \/ local' = [local EXCEPT ![Name(sha[r])] = <<sha[r], FALSE>>] /\ Works(r, "checkout")
     \/ Fails(r, "end") /\ Fault /\ UNCHANGED local
  /\ UNCHANGED <<isolated, tip, head, remote, launchpad, sha, orig, skip, needs, built, spoilt>>

\* Fails for uncommitted changes, among others, and leaves the branch.
Checkout(r) ==
  /\ pc[r] = "checkout"
  /\ \/ Exists(Name(sha[r])) /\ head' = Name(sha[r]) /\ Works(r, "main") /\ UNCHANGED spoilt
     \/ /\ Fails(r, "end") /\ UNCHANGED head
        /\ Dropped \/ (~Exists(Name(sha[r])) /\ UNCHANGED <<faults, spoilt>>)
  /\ UNCHANGED <<isolated, tip, local, remote, launchpad, sha, orig, skip, needs, built>>

Restore_Bug(r) ==
  /\ pc[r] = "restore" /\ Goto(r, IF ok[r] THEN "delete" ELSE "end")
  /\ head' = orig[r]
  /\ UNCHANGED <<isolated, tip, local, remote, launchpad, sha, orig, skip, needs, ok, built, faults, spoilt>>

\* Errors of going back are dropped.
Restore(r) ==
  /\ pc[r] = "restore" /\ Goto(r, "delete")
  /\ \/ Exists(orig[r]) /\ head' = orig[r] /\ UNCHANGED <<faults, spoilt>>
     \/ ~Exists(orig[r]) /\ UNCHANGED <<head, faults, spoilt>>
     \/ Dropped /\ UNCHANGED head
  /\ UNCHANGED <<isolated, tip, local, remote, launchpad, sha, orig, skip, needs, ok, built>>

\* It is removed also when the checkout is on it.
DeleteBranch(r) ==
  /\ pc[r] = "delete" /\ Goto(r, IF ok[r] THEN "wait" ELSE "end")
  /\ \/ local' = [local EXCEPT ![Name(sha[r])] = None] /\ UNCHANGED <<faults, spoilt>>
     \/ Dropped /\ UNCHANGED local
  /\ UNCHANGED <<isolated, tip, head, remote, launchpad, sha, orig, skip, needs, ok, built>>

-----------------------------------------------------------------------------
(***************************************************************************)
(* pushToLaunchpad, through a remote that all runs share.  Launchpad       *)
(* processes a branch only when there is a main branch.                    *)
(***************************************************************************)
Pushed(r) == IF isolated THEN IF ok'[r] THEN "wait" ELSE "cleanup" ELSE "restore"

CheckMain_Bug(r) ==
  /\ pc[r] = "main"
  /\ \/ needs' = [needs EXCEPT ![r] = ~onMain] /\ UNCHANGED faults
     \/ needs' = [needs EXCEPT ![r] = FALSE] /\ Fault
  /\ Goto(r, "unset")
  /\ UNCHANGED <<isolated, checkout, launchpad, sha, orig, skip, ok, built, spoilt>>

\* Any error of the request is taken for a missing branch.
CheckMain(r) ==
  /\ pc[r] = "main"
  /\ \/ needs' = [needs EXCEPT ![r] = ~onMain] /\ UNCHANGED faults
     \/ needs' = [needs EXCEPT ![r] = TRUE] /\ Fault
  /\ Goto(r, "unset")
  /\ UNCHANGED <<isolated, checkout, launchpad, sha, orig, skip, ok, built, spoilt>>

\* Errors of removing the remote are dropped.
UnsetRemote(r) ==
  /\ pc[r] = "unset" /\ Goto(r, "set")
  /\ (remote' = FALSE /\ UNCHANGED <<faults, spoilt>>) \/ (Dropped /\ UNCHANGED remote)
  /\ UNCHANGED <<isolated, tip, head, local, launchpad, sha, orig, skip, needs, ok, built>>

SetRemote(r) ==
  /\ pc[r] = "set"
  /\ \/ /\ ~remote /\ remote' = TRUE
        /\ Works(r, IF needs[r] THEN "pushmain" ELSE "push")
     \/ /\ ok' = [ok EXCEPT ![r] = FALSE] /\ Goto(r, Pushed(r)) /\ UNCHANGED remote
        /\ Fault \/ (remote /\ UNCHANGED faults)
  /\ UNCHANGED <<isolated, tip, head, local, launchpad, sha, orig, skip, needs, built, spoilt>>

\* The remote and the branch are looked up by their names.
Pushable(r) == remote /\ Exists(Name(sha[r]))

PushFails(r) ==
  /\ pc[r] \in {"pushmain", "push"}
  /\ Fails(r, "drop") /\ (Fault \/ (~Pushable(r) /\ UNCHANGED faults))
  /\ UNCHANGED <<isolated, checkout, launchpad, sha, orig, skip, needs, built, spoilt>>

\* A push that Launchpad took may return an error all the same.
PushMain(r) ==
  /\ pc[r] = "pushmain" /\ Pushable(r)
  /\ onMain' = TRUE
  /\ Works(r, "push") \/ (Fails(r, "drop") /\ Fault)
  /\ UNCHANGED <<isolated, checkout, lp, indexed, sha, orig, skip, needs, built, spoilt>>

Push(r) ==
  /\ pc[r] = "push" /\ Pushable(r)
  /\ lp' = [lp EXCEPT ![Name(sha[r])] = local[Name(sha[r])]]
  /\ Works(r, "drop") \/ (Fails(r, "drop") /\ Fault)
  /\ UNCHANGED <<isolated, checkout, indexed, onMain, sha, orig, skip, needs, built, spoilt>>

DropRemote(r) ==
  /\ pc[r] = "drop" /\ UNCHANGED ok /\ Goto(r, Pushed(r))
  /\ (remote' = FALSE /\ UNCHANGED <<faults, spoilt>>) \/ (Dropped /\ UNCHANGED remote)
  /\ UNCHANGED <<isolated, tip, head, local, launchpad, sha, orig, skip, needs, built>>

-----------------------------------------------------------------------------
\* WaitForGitRef, for ten minutes; then the artifacts are discovered.
WaitForRef(r) ==
  /\ pc[r] = "wait"
  /\ \/ /\ Name(sha[r]) \in indexed
        /\ built' = [built EXCEPT ![r] = lp[Name(sha[r])]]
        /\ Works(r, IF isolated THEN "cleanup" ELSE "end")
     \/ /\ Name(sha[r]) \notin indexed \/ lp[Name(sha[r])] = None
        /\ Fails(r, IF isolated THEN "cleanup" ELSE "end")
        /\ UNCHANGED <<built, faults>>
  /\ UNCHANGED <<isolated, checkout, launchpad, sha, orig, skip, needs, spoilt>>

\* No signal is handled.
Killed(r) ==
  /\ r \in Running /\ Goto(r, "killed") /\ Dropped
  /\ UNCHANGED <<isolated, checkout, launchpad, sha, orig, skip, needs, ok, built>>

\* The user commits on their branch, and goes back to it when no run will.
UserCommit ==
  /\ head = own /\ tip < MaxCommits /\ tip' = tip + 1
  /\ UNCHANGED <<isolated, head, local, remote, launchpad, runVars, faults, spoilt>>

UserReturns ==
  /\ head # own /\ Running = {} /\ head' = own
  /\ UNCHANGED <<isolated, tip, local, remote, launchpad, runVars, faults, spoilt>>

\* Launchpad processes what was pushed, and temporary branches are cleaned up.
Index(b) ==
  /\ onMain /\ lp[b] # None /\ b \notin indexed /\ indexed' = indexed \cup {b}
  /\ UNCHANGED <<isolated, checkout, lp, onMain, runVars, faults, spoilt>>

Delete(b) ==
  /\ lp[b] # None
  /\ lp' = [lp EXCEPT ![b] = None] /\ indexed' = indexed \ {b}
  /\ UNCHANGED <<isolated, checkout, onMain, runVars, faults, spoilt>>

Step(r) ==
  \/ Start(r) \/ CheckRef(r)
  \/ AddWorktree(r) \/ RunCommand(r) \/ CommitPrepared(r) \/ Cleanup(r)
  \/ FindBranch(r) \/ CreateBranch(r) \/ Checkout(r) \/ Restore(r) \/ DeleteBranch(r)
  \/ CheckMain(r) \/ UnsetRemote(r) \/ SetRemote(r) \/ PushMain(r) \/ Push(r)
  \/ PushFails(r) \/ DropRemote(r) \/ WaitForRef(r)

Next ==
  \/ \E r \in Run : Step(r) \/ Killed(r)
  \/ UserCommit \/ UserReturns
  \/ \E b \in Commit : Index(b) \/ Delete(b)

Spec == Init /\ [][Next]_vars

-----------------------------------------------------------------------------
TypeOK ==
  /\ isolated \in BOOLEAN /\ tip \in Commit /\ head \in Branch /\ remote \in BOOLEAN
  /\ local \in [Commit -> Source \cup {None}] /\ lp \in [Commit -> Source \cup {None}]
  /\ indexed \in SUBSET Commit /\ onMain \in BOOLEAN
  /\ pc \in [Run -> Pc] /\ sha \in [Run -> Commit] /\ orig \in [Run -> Branch]
  /\ skip \in [Run -> BOOLEAN] /\ needs \in [Run -> BOOLEAN] /\ ok \in [Run -> BOOLEAN]
  /\ built \in [Run -> Source \cup {None}]
  /\ faults \in 0..MaxFaults /\ spoilt \in BOOLEAN

\* What a run finds on its branch on Launchpad, and has built, is the commit it
\* began with, prepared if there is a prepare command, whatever other runs did
\* in the same repository and left there when they were killed.
SourceOnLP == \A r \in Run : built[r] \in {None, <<sha[r], isolated>>}

\* A branch on Launchpad is one it processes: no run waits for nothing because
\* the main branch is missing.
RefsProcessed == \A b \in Commit : lp[b] # None => onMain

\* When all runs have returned, the checkout is as before, on the user's branch
\* and without temporary branches and remote, unless git failed to switch or
\* remove branches, a run was killed, or two used the checkout at once.  Runs
\* with worktrees of their own may overlap.
CheckoutRestored ==
  Running = {} /\ ~spoilt =>
    head = own /\ ~remote /\ \A b \in Commit : local[b] = None
=============================================================================
