-------------------------- MODULE ArtifactDownload --------------------------
(***************************************************************************)
(* Download of the build service                                           *)
(* (internal/core/service/build/service.go): it discovers artifact files   *)
(* one after the other and transfers them concurrently, a few at a time,   *)
(* each into a temporary file that is renamed to its destination.  Files   *)
(* of the same destination are transferred in the order of discovery.      *)
(* X_Bug is a faulty variant of X.                                         *)
(***************************************************************************)
EXTENDS Naturals, FiniteSets

CONSTANTS
  Files,     \* number of files, in the order of discovery
  Dest,      \* destination paths
  DestOf,    \* the destination of each file
  Slots,     \* transfers at a time (defaultConcurrency)
  Attempts,  \* attempts per file
  NoFile

File == 1..Files

ASSUME DownloadAssumption ==
  /\ Files \in Nat
  /\ DestOf \in [File -> Dest]
  /\ Slots \in Nat \ {0}
  /\ Attempts \in Nat \ {0}
  /\ NoFile \notin File

VARIABLES
  caller,     \* where Download is in its loop over the files
  next,       \* the file it discovers next
  task,       \* where the transfer of each file is
  tries,      \* attempts begun per file
  result,     \* outcome of the last attempt of each file
  temp,       \* temporary file of each file
  dest,       \* what each destination path holds
  cancelled   \* the context is done

vars == <<caller, next, task, tries, result, temp, dest, cancelled>>

Content == [file : File \cup {NoFile}, whole : BOOLEAN]
Nothing == [file |-> NoFile, whole |-> TRUE]

Init ==
  /\ caller = "list" /\ next = 1
  /\ task = [f \in File |-> "idle"]
  /\ tries = [f \in File |-> 0]
  /\ result = [f \in File |-> "none"]
  /\ temp = [f \in File |-> "none"]
  /\ dest = [d \in Dest |-> Nothing]
  /\ cancelled = FALSE

fileVars == <<tries, result, temp, dest>>

InFlight(f) == task[f] \notin {"idle", "done"}
HoldsSlot(f) == InFlight(f) /\ task[f] # "closing"

Cancel ==
  /\ ~cancelled /\ caller # "returned"
  /\ cancelled' = TRUE
  /\ UNCHANGED <<caller, next, task, fileVars>>

-----------------------------------------------------------------------------
\* Discovery.

\* GetRecipe or ListBuilds fails: the error is returned, after the transfers
\* that were started.
DiscoveryFails ==
  /\ caller = "list" /\ next <= Files
  /\ caller' = "drain"
  /\ UNCHANGED <<next, task, fileVars, cancelled>>

\* The build did not succeed, or its file URLs cannot be had.
SkipFile ==
  /\ caller = "list" /\ next <= Files
  /\ next' = next + 1
  /\ UNCHANGED <<caller, task, fileVars, cancelled>>

FindFile ==
  /\ caller = "list" /\ next <= Files
  /\ caller' = "await"
  /\ UNCHANGED <<next, task, fileVars, cancelled>>

\* destinations[dest] holds the channel of the last file started for dest.
Previous(f) ==
  {g \in File : g < f /\ DestOf[g] = DestOf[f] /\ task[g] # "idle"}

Last(S) == CHOOSE f \in S : \A g \in S : g <= f

AwaitPrevious_Bug ==
  /\ caller = "await"
  /\ caller' = "slot"
  /\ UNCHANGED <<next, task, fileVars, cancelled>>

AwaitPrevious ==
  /\ caller = "await"
  /\ Previous(next) # {} => task[Last(Previous(next))] = "done"
  /\ caller' = "slot"
  /\ UNCHANGED <<next, task, fileVars, cancelled>>

Launch ==
  /\ caller = "slot"
  /\ Cardinality({f \in File : HoldsSlot(f)}) < Slots
  /\ task' = [task EXCEPT ![next] = "check"]
  /\ caller' = "list"
  /\ next' = next + 1
  /\ UNCHANGED <<fileVars, cancelled>>

DiscoveryEnds ==
  /\ caller = "list" /\ next > Files
  /\ caller' = "drain"
  /\ UNCHANGED <<next, task, fileVars, cancelled>>

Return_Bug ==
  /\ caller = "drain"
  /\ next <= Files \/ \A f \in File : ~InFlight(f)
  /\ caller' = "returned"
  /\ UNCHANGED <<next, task, fileVars, cancelled>>

\* wg.Wait, on the error paths too.
Return ==
  /\ caller = "drain"
  /\ \A f \in File : ~InFlight(f)
  /\ caller' = "returned"
  /\ UNCHANGED <<next, task, fileVars, cancelled>>

-----------------------------------------------------------------------------
\* One transfer.

Goto(f, pc) == task' = [task EXCEPT ![f] = pc]

\* A file name that cannot be used, or a directory that cannot be made.
Reject(f) ==
  /\ task[f] = "check" /\ tries[f] = 0
  /\ Goto(f, "release")
  /\ result' = [result EXCEPT ![f] = "permanent"]
  /\ UNCHANGED <<caller, next, tries, temp, dest, cancelled>>

CheckContext(f) ==
  /\ task[f] = "check"
  /\ IF cancelled
     THEN /\ Goto(f, "release")
          /\ result' = [result EXCEPT ![f] = "cancelled"]
          /\ UNCHANGED tries
     ELSE /\ Goto(f, "request")
          /\ tries' = [tries EXCEPT ![f] = @ + 1]
          /\ UNCHANGED result
  /\ UNCHANGED <<caller, next, temp, dest, cancelled>>

\* The next attempt, if one is left and the error may go away.
AfterFailure(f, kind) ==
  Goto(f, IF tries[f] = Attempts \/ kind # "transient" THEN "release" ELSE "check")

\* The connection fails, the status is not 200, or there is no temporary file.
RequestFails(f) ==
  /\ task[f] = "request"
  /\ \E kind \in {"transient", "permanent"} :
       /\ AfterFailure(f, kind)
       /\ result' = [result EXCEPT ![f] = kind]
  /\ UNCHANGED <<caller, next, tries, temp, dest, cancelled>>

RequestOK(f) ==
  /\ task[f] = "request"
  /\ Goto(f, "copy")
  /\ temp' = [temp EXCEPT ![f] = "partial"]
  /\ UNCHANGED <<caller, next, tries, result, dest, cancelled>>

CopyFails_Bug(f) ==
  /\ task[f] = "copy"
  /\ Goto(f, "rename")
  /\ UNCHANGED <<caller, next, fileVars, cancelled>>

\* The deferred Remove deletes what was written.
CopyFails(f) ==
  /\ task[f] = "copy"
  /\ AfterFailure(f, "transient")
  /\ result' = [result EXCEPT ![f] = "transient"]
  /\ temp' = [temp EXCEPT ![f] = "none"]
  /\ UNCHANGED <<caller, next, tries, dest, cancelled>>

CopyOK(f) ==
  /\ task[f] = "copy"
  /\ Goto(f, "rename")
  /\ temp' = [temp EXCEPT ![f] = "whole"]
  /\ UNCHANGED <<caller, next, tries, result, dest, cancelled>>

RenameOK(f) ==
  /\ task[f] = "rename"
  /\ Goto(f, "release")
  /\ dest' = [dest EXCEPT ![DestOf[f]] = [file |-> f, whole |-> temp[f] = "whole"]]
  /\ temp' = [temp EXCEPT ![f] = "none"]
  /\ result' = [result EXCEPT ![f] = "ok"]
  /\ UNCHANGED <<caller, next, tries, cancelled>>

\* Closing the temporary file fails, or the rename does.
RenameFails(f) ==
  /\ task[f] = "rename"
  /\ Goto(f, "release")
  /\ temp' = [temp EXCEPT ![f] = "none"]
  /\ result' = [result EXCEPT ![f] = "permanent"]
  /\ UNCHANGED <<caller, next, tries, dest, cancelled>>

ReleaseSlot(f) ==
  /\ task[f] = "release"
  /\ Goto(f, "closing")
  /\ UNCHANGED <<caller, next, fileVars, cancelled>>

CloseDone_Bug(f) ==
  /\ task[f] = "closing"
  /\ result[f] = "ok"
  /\ Goto(f, "done")
  /\ UNCHANGED <<caller, next, fileVars, cancelled>>

\* close(done), then wg.Done, which only wg.Wait can tell from it.
CloseDone(f) ==
  /\ task[f] = "closing"
  /\ Goto(f, "done")
  /\ UNCHANGED <<caller, next, fileVars, cancelled>>

Discovery ==
  \/ DiscoveryFails \/ SkipFile \/ FindFile \/ AwaitPrevious
  \/ Launch \/ DiscoveryEnds \/ Return

Transfer(f) ==
  \/ Reject(f) \/ CheckContext(f)
  \/ RequestFails(f) \/ RequestOK(f)
  \/ CopyFails(f) \/ CopyOK(f)
  \/ RenameFails(f) \/ RenameOK(f)
  \/ ReleaseSlot(f) \/ CloseDone(f)

\* The process ends: transfers stop where they are, the files stay.
Exit ==
  /\ caller # "returned"
  /\ caller' = "exited"
  /\ UNCHANGED <<next, task, fileVars, cancelled>>

Next ==
  /\ caller # "exited"
  /\ Cancel \/ Discovery \/ Exit \/ \E f \in File : Transfer(f)

Spec == Init /\ [][Next]_vars

\* Goroutines are scheduled, and calls and transfers end.
Fairness ==
  /\ WF_vars(caller # "exited" /\ Discovery)
  /\ \A f \in File : WF_vars(caller # "exited" /\ Transfer(f))

FairSpec == Spec /\ Fairness

-----------------------------------------------------------------------------
TypeOK ==
  /\ caller \in {"list", "await", "slot", "drain", "returned", "exited"}
  /\ next \in 1..Files + 1
  /\ task \in [File -> {"idle", "check", "request", "copy", "rename", "release",
                        "closing", "done"}]
  /\ tries \in [File -> 0..Attempts]
  /\ result \in [File -> {"none", "ok", "transient", "permanent", "cancelled"}]
  /\ temp \in [File -> {"none", "partial", "whole"}]
  /\ dest \in [Dest -> Content]
  /\ cancelled \in BOOLEAN

\* "Keep writes to the same destination in discovery order" (service.go:904):
\* two transfers to one destination are never under way together.
OneWriter ==
  \A f, g \in File : InFlight(f) /\ InFlight(g) /\ DestOf[f] = DestOf[g] => f = g

\* At the return each destination holds the last file that was fetched for it.
LastFetchedWins ==
  caller = "returned" =>
    \A d \in Dest :
      LET Fetched == {f \in File : DestOf[f] = d /\ result[f] = "ok"}
      IN  dest[d].file = IF Fetched = {} THEN NoFile ELSE Last(Fetched)

\* A destination never shows part of a file, not even after an exit.
WholeFiles == \A d \in Dest : dest[d].whole

\* Download leaves nothing behind at work or on disk, discovery error or not.
CleanReturn ==
  caller = "returned" => \A f \in File : ~InFlight(f) /\ temp[f] = "none"

\* Download returns: waiting for a slot and for the previous file of a
\* destination never lock each other.
DownloadReturns == <>(caller \in {"returned", "exited"})
=============================================================================
