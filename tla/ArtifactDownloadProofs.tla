----------------------- MODULE ArtifactDownloadProofs -----------------------
(***************************************************************************)
(* Proofs about ArtifactDownload for every list of files, every map of     *)
(* files to destinations, and every limit on transfers and attempts: no    *)
(* destination has two writers, none ever shows part of a file, each ends  *)
(* with the last file fetched for it, and a Download that returns leaves   *)
(* no transfer and no temporary file behind.                               *)
(***************************************************************************)
EXTENDS ArtifactDownload, WellFoundedInduction, TLAPS

CallerInv ==
  /\ caller \in {"list", "await", "slot", "drain", "returned", "exited"}
  /\ next \in 1..Files + 1
  /\ caller \in {"await", "slot"} => next <= Files
  /\ cancelled \in BOOLEAN

TaskInv ==
  /\ task \in [File -> {"idle", "check", "request", "copy", "rename", "release",
                        "closing", "done"}]
  /\ \A f \in File : f >= next => task[f] = "idle"

\* An attempt that has begun is counted, and a new one begins only below the
\* limit.
TriesInv ==
  /\ tries \in [File -> 0..Attempts]
  /\ \A f \in File :
       /\ task[f] = "idle" => tries[f] = 0
       /\ task[f] = "check" => tries[f] < Attempts
       /\ task[f] \in {"request", "copy", "rename"} => tries[f] > 0

\* What is about to be renamed was copied to its end.
FileInv ==
  /\ result \in [File -> {"none", "ok", "transient", "permanent", "cancelled"}]
  /\ temp \in [File -> {"none", "partial", "whole"}]
  /\ dest \in [Dest -> Content]
  /\ \A f \in File : task[f] = "rename" => temp[f] = "whole"
  /\ WholeFiles

IInv == CallerInv /\ TaskInv /\ TriesInv /\ FileInv

-----------------------------------------------------------------------------
(***************************************************************************)
(* Type correctness.                                                       *)
(***************************************************************************)

LEMMA InitIInv == Init => IInv
<1> SUFFICES ASSUME Init PROVE IInv
  OBVIOUS
<1> USE DownloadAssumption DEF Init, DownloadAssumption
<1>1. CallerInv
  <2>1. next \in 1..Files + 1 /\ caller = "list"
    BY DEF Init
  <2>2. cancelled \in BOOLEAN
    BY DEF Init
  <2>3. QED
    BY <2>1, <2>2, Zenon DEF CallerInv
<1>2. TaskInv
  BY DEF TaskInv
<1>3. TriesInv
  BY DEF TriesInv
<1>4. FileInv
  BY DEF FileInv, WholeFiles, Content, Nothing
<1>5. QED
  BY <1>1, <1>2, <1>3, <1>4 DEF IInv

\* The loop over the files moves no transfer but the one it launches.
LEMMA DiscoveryIInv ==
  ASSUME IInv, Discovery
  PROVE  IInv'
<1> USE DownloadAssumption
    DEF IInv, CallerInv, TaskInv, TriesInv, FileInv, WholeFiles, fileVars,
        DownloadAssumption
<1>1. CASE Launch
  BY <1>1 DEF Launch, File
<1>2. CASE SkipFile
  BY <1>2 DEF SkipFile, File
<1>3. CASE DiscoveryFails \/ FindFile
  BY <1>3 DEF DiscoveryFails, FindFile
<1>4. CASE AwaitPrevious \/ DiscoveryEnds \/ Return
  BY <1>4 DEF AwaitPrevious, DiscoveryEnds, Return
<1>5. QED
  BY <1>1, <1>2, <1>3, <1>4 DEF Discovery

LEMMA TransferIInv ==
  ASSUME IInv, NEW f \in File, Transfer(f)
  PROVE  IInv'
<1> USE DownloadAssumption
    DEF IInv, CallerInv, TaskInv, TriesInv, FileInv, WholeFiles, fileVars,
        DownloadAssumption, Goto, AfterFailure
<1>1. CASE Reject(f)
  BY <1>1 DEF Reject
<1>2. CASE CheckContext(f)
  BY <1>2 DEF CheckContext
<1>3. CASE RequestFails(f)
  BY <1>3 DEF RequestFails
<1>4. CASE RequestOK(f)
  BY <1>4 DEF RequestOK
<1>5. CASE CopyFails(f)
  BY <1>5 DEF CopyFails
<1>6. CASE CopyOK(f)
  BY <1>6 DEF CopyOK
<1>7. CASE RenameOK(f)
  BY <1>7 DEF RenameOK, Content
<1>8. CASE RenameFails(f)
  BY <1>8 DEF RenameFails
<1>9. CASE ReleaseSlot(f) \/ CloseDone(f)
  BY <1>9 DEF ReleaseSlot, CloseDone
<1>10. QED
  BY <1>1, <1>2, <1>3, <1>4, <1>5, <1>6, <1>7, <1>8, <1>9 DEF Transfer

LEMMA NextIInv == IInv /\ [Next]_vars => IInv'
<1> SUFFICES ASSUME IInv, [Next]_vars PROVE IInv'
  OBVIOUS
<1>1. CASE Cancel \/ Exit \/ UNCHANGED vars
  BY <1>1 DEF Cancel, Exit, vars, fileVars, IInv, CallerInv, TaskInv, TriesInv,
              FileInv, WholeFiles
<1>2. QED
  BY <1>1, DiscoveryIInv, TransferIInv DEF Next

\* Every variable has its type, and no file is attempted more often than the
\* limit allows.
THEOREM TypeCorrect == Spec => []TypeOK
<1>1. IInv => TypeOK
  BY DEF IInv, CallerInv, TaskInv, TriesInv, FileInv, TypeOK
<1>2. QED
  BY <1>1, InitIInv, NextIInv, PTL DEF Spec

\* No destination ever shows part of a file, wherever transfers stop.
THEOREM AlwaysWhole == Spec => []WholeFiles
<1>1. IInv => WholeFiles
  BY DEF IInv, FileInv
<1>2. QED
  BY <1>1, InitIInv, NextIInv, PTL DEF Spec

-----------------------------------------------------------------------------
(***************************************************************************)
(* One writer per destination.  OneWriter is not inductive: it does not    *)
(* say that the file a new transfer waits for is the last of its           *)
(* destination, nor that earlier ones are done when that one is.           *)
(***************************************************************************)

\* Once a transfer of a destination has begun, earlier ones are over.
OrderInv ==
  /\ \A f, g \in File :
       f < g /\ DestOf[f] = DestOf[g] /\ task[g] # "idle" => task[f] \in {"idle", "done"}
  /\ caller = "slot" => \A f \in Previous(next) : task[f] = "done"

\* A set of files has a last one: the least distance to the end of the list.
LEMMA LastIsLast ==
  ASSUME NEW S \in SUBSET File, S # {}
  PROVE  Last(S) \in S /\ \A f \in S : f <= Last(S)
<1> DEFINE T == {Files - f : f \in S}
<1>1. Files \in Nat /\ \A f \in S : f \in 1..Files
  BY DownloadAssumption DEF DownloadAssumption, File
<1>2. \A f \in S : Files - f \in Nat
  BY <1>1
<1>3. T \subseteq Nat
  BY <1>2
<1>4. T # {}
  OBVIOUS
<1>5. PICK d \in T : \A e \in T : <<e, d>> \notin OpToRel(<, Nat)
  <2> HIDE DEF T
  <2> QED
    BY <1>3, <1>4, WFMin, NatLessThanWellFounded
<1>6. ASSUME NEW e \in T PROVE d <= e
  <2> HIDE DEF T
  <2>1. d \in Nat /\ e \in Nat
    BY <1>3
  <2>2. ~(e < d)
    BY <1>5, <2>1 DEF OpToRel
  <2>3. QED
    BY <2>1, <2>2
<1>7. PICK f \in S : d = Files - f
  OBVIOUS
<1>8. ASSUME NEW g \in S PROVE g <= f
  <2>1. Files - f <= Files - g
    BY <1>6, <1>7
  <2>2. f \in Int /\ g \in Int
    BY <1>1
  <2>3. QED
    BY <1>1, <2>1, <2>2
<1>9. QED
  BY <1>8 DEF Last

LEMMA AwaitPreviousOrder ==
  ASSUME IInv, OrderInv, AwaitPrevious
  PROVE  OrderInv'
<1> DEFINE P == Previous(next)
<1>1. next' = next /\ task' = task
  BY DEF AwaitPrevious
<1>2. \A f \in P : task[f] = "done"
  <2> SUFFICES ASSUME NEW f \in P PROVE task[f] = "done"
    OBVIOUS
  <2>1. P \in SUBSET File /\ P # {}
    BY DEF Previous
  <2>2. Last(P) \in P /\ f <= Last(P)
    BY <2>1, LastIsLast
  <2>3. task[Last(P)] = "done"
    BY <2>1 DEF AwaitPrevious
  <2>4. /\ f \in File /\ Last(P) \in File
        /\ DestOf[f] = DestOf[Last(P)] /\ task[f] # "idle"
    BY <2>2 DEF Previous
  <2>5. f = Last(P) \/ f < Last(P)
    BY <2>2, <2>4, DownloadAssumption DEF File, DownloadAssumption
  <2>6. QED
    BY <2>3, <2>4, <2>5 DEF OrderInv
<1>3. QED
  BY <1>1, <1>2 DEF OrderInv, Previous

LEMMA LaunchOrder ==
  ASSUME IInv, OrderInv, Launch
  PROVE  OrderInv'
<1>1. next \in File
  BY DownloadAssumption DEF Launch, IInv, CallerInv, File, DownloadAssumption
<1>2. ASSUME NEW f \in File, NEW g \in File, f < g, DestOf[f] = DestOf[g],
             task'[g] # "idle"
      PROVE  task'[f] \in {"idle", "done"}
  <2>1. CASE g = next
    <3>1. f # next
      BY <1>1, <1>2, <2>1, DownloadAssumption DEF File, DownloadAssumption
    <3>2. task'[f] = task[f]
      BY <1>1, <1>2, <3>1 DEF Launch, IInv, TaskInv
    <3>3. task[f] # "idle" => f \in Previous(next)
      BY <1>2, <2>1 DEF Previous
    <3>4. QED
      BY <3>2, <3>3 DEF Launch, OrderInv
  <2>2. CASE g # next
    <3>1. task[g] # "idle"
      BY <1>1, <1>2, <2>2 DEF Launch, IInv, TaskInv
    <3>2. f # next
      BY <1>1, <1>2, <3>1, DownloadAssumption
         DEF IInv, TaskInv, File, DownloadAssumption
    <3>3. QED
      BY <1>1, <1>2, <3>1, <3>2 DEF Launch, IInv, TaskInv, OrderInv
  <2>3. QED
    BY <2>1, <2>2
<1>3. QED
  BY <1>2 DEF Launch, OrderInv

\* A transfer under way is not an earlier one of a destination that has a later
\* one, nor one that the loop has waited for.
LEMMA TransferOrder ==
  ASSUME IInv, OrderInv, NEW f \in File, Transfer(f)
  PROVE  OrderInv'
<1>1. InFlight(f)
  BY DEF Transfer, Reject, CheckContext, RequestFails, RequestOK, CopyFails,
         CopyOK, RenameOK, RenameFails, ReleaseSlot, CloseDone, InFlight
<1>2. /\ next' = next /\ caller' = caller
      /\ \E l : task' = [task EXCEPT ![f] = l]
  BY DEF Transfer, Reject, CheckContext, RequestFails, RequestOK, CopyFails,
         CopyOK, RenameOK, RenameFails, ReleaseSlot, CloseDone, AfterFailure, Goto
<1>3. PICK l : task' = [task EXCEPT ![f] = l]
  BY <1>2
<1>4. \A g \in File : g # f => task'[g] = task[g]
  BY <1>3 DEF IInv, TaskInv
<1>5. ASSUME NEW h \in File, NEW g \in File, h < g, DestOf[h] = DestOf[g],
             task'[g] # "idle"
      PROVE  task'[h] \in {"idle", "done"}
  <2>1. task[g] # "idle"
    BY <1>1, <1>4, <1>5 DEF InFlight
  <2>2. task[h] \in {"idle", "done"}
    BY <1>5, <2>1 DEF OrderInv
  <2>3. h # f
    BY <1>1, <2>2 DEF InFlight
  <2>4. QED
    BY <1>4, <2>2, <2>3
<1>6. ASSUME caller = "slot", NEW g \in Previous(next)'
      PROVE  task'[g] = "done"
  <2>1. g \in Previous(next)
    BY <1>1, <1>2, <1>4, <1>6 DEF Previous, InFlight
  <2>2. task[g] = "done" /\ g # f
    BY <1>1, <1>6, <2>1 DEF OrderInv, InFlight
  <2>3. QED
    BY <1>4, <2>1, <2>2 DEF Previous
<1>7. QED
  BY <1>2, <1>5, <1>6 DEF OrderInv

LEMMA NextOrder ==
  ASSUME IInv, OrderInv, [Next]_vars
  PROVE  OrderInv'
<1>1. CASE UNCHANGED <<next, task>> /\ caller' # "slot"
  BY <1>1 DEF OrderInv
<1>2. CASE SkipFile
  BY <1>2 DEF SkipFile, OrderInv
<1>3. CASE Cancel \/ UNCHANGED vars
  BY <1>3 DEF Cancel, vars, OrderInv, Previous
<1>4. CASE DiscoveryFails \/ FindFile \/ DiscoveryEnds \/ Return \/ Exit
  BY <1>1, <1>4 DEF DiscoveryFails, FindFile, DiscoveryEnds, Return, Exit
<1>5. QED
  BY <1>2, <1>3, <1>4, AwaitPreviousOrder, LaunchOrder, TransferOrder
     DEF Next, Discovery

\* Two transfers to one destination are never under way together, for every
\* list of files and every number of slots.
THEOREM NeverTwoWriters == Spec => []OneWriter
<1>1. Init => OrderInv
  BY DEF Init, OrderInv
<1>2. IInv /\ OrderInv => OneWriter
  BY DownloadAssumption
     DEF IInv, OrderInv, OneWriter, InFlight, File, DownloadAssumption
<1>3. QED
  BY <1>1, <1>2, InitIInv, NextIInv, NextOrder, PTL DEF Spec
-----------------------------------------------------------------------------
(***************************************************************************)
(* The state at the return.  LastFetchedWins and CleanReturn speak of one  *)
(* moment; these say what is true all along.                               *)
(***************************************************************************)

\* Only an attempt has a temporary file, and Download returned after the last
\* transfer.
SettledInv ==
  /\ \A f \in File : temp[f] # "none" => task[f] \in {"copy", "rename"}
  /\ caller = "returned" => \A f \in File : ~InFlight(f)

Fetched(d) == {f \in File : DestOf[f] = d /\ result[f] = "ok"}

\* A destination holds the last file fetched for it so far, or nothing.
FetchedInv ==
  /\ \A f \in File : result[f] = "ok" => task[f] \in {"release", "closing", "done"}
  /\ \A d \in Dest :
       IF Fetched(d) = {}
       THEN dest[d].file = NoFile
       ELSE /\ dest[d].file \in Fetched(d)
            /\ \A f \in Fetched(d) : f <= dest[d].file

LEMMA InitSettled == Init => SettledInv /\ FetchedInv
BY DEF Init, SettledInv, FetchedInv, Fetched, InFlight, Nothing

LEMMA NextSettled ==
  ASSUME IInv, SettledInv, [Next]_vars
  PROVE  SettledInv'
<1> USE DEF IInv, CallerInv, TaskInv, FileInv, SettledInv, InFlight, fileVars
<1>1. CASE UNCHANGED vars \/ Cancel \/ Exit
  BY <1>1 DEF vars, Cancel, Exit
<1>2. CASE Discovery
  <2>1. CASE Launch
    BY <2>1 DEF Launch
  <2>2. CASE Return
    BY <2>2 DEF Return
  <2>3. CASE DiscoveryFails \/ SkipFile \/ FindFile \/ AwaitPrevious \/ DiscoveryEnds
    BY <2>3 DEF DiscoveryFails, SkipFile, FindFile, AwaitPrevious, DiscoveryEnds
  <2>4. QED
    BY <1>2, <2>1, <2>2, <2>3 DEF Discovery
<1>3. ASSUME NEW f \in File, Transfer(f)
      PROVE  SettledInv'
  <2> USE DEF Goto, AfterFailure
  <2>1. CASE Reject(f) \/ CheckContext(f) \/ RequestFails(f)
    BY <2>1 DEF Reject, CheckContext, RequestFails
  <2>2. CASE RequestOK(f) \/ CopyFails(f) \/ CopyOK(f)
    BY <2>2 DEF RequestOK, CopyFails, CopyOK
  <2>3. CASE RenameOK(f) \/ RenameFails(f)
    BY <2>3 DEF RenameOK, RenameFails
  <2>4. CASE ReleaseSlot(f) \/ CloseDone(f)
    BY <2>4 DEF ReleaseSlot, CloseDone
  <2>5. QED
    BY <1>3, <2>1, <2>2, <2>3, <2>4 DEF Transfer
<1>4. QED
  BY <1>1, <1>2, <1>3 DEF Next

\* A file fetched for a destination is the last one so far: a later one would
\* have waited for it.
LEMMA RenameFetched ==
  ASSUME IInv, OrderInv, FetchedInv, NEW f \in File, RenameOK(f)
  PROVE  FetchedInv'
<1>1. /\ task[f] = "rename"
      /\ task' = [task EXCEPT ![f] = "release"]
      /\ result' = [result EXCEPT ![f] = "ok"]
      /\ dest' = [dest EXCEPT ![DestOf[f]] = [file |-> f, whole |-> temp[f] = "whole"]]
  BY DEF RenameOK, Goto
<1>2. DestOf[f] \in Dest
  BY DownloadAssumption DEF DownloadAssumption
<1>3. \A g \in File : result'[g] = IF g = f THEN "ok" ELSE result[g]
  BY <1>1 DEF IInv, FileInv
<1>4. \A g \in File : task'[g] = IF g = f THEN "release" ELSE task[g]
  BY <1>1 DEF IInv, TaskInv
<1>5. \A g \in File : result'[g] = "ok" => task'[g] \in {"release", "closing", "done"}
  BY <1>3, <1>4 DEF FetchedInv
<1>6. ASSUME NEW d \in Dest, d # DestOf[f]
      PROVE  Fetched(d)' = Fetched(d) /\ dest'[d] = dest[d]
  BY <1>1, <1>3, <1>6 DEF Fetched, IInv, FileInv
<1>7. Fetched(DestOf[f])' = Fetched(DestOf[f]) \cup {f}
  BY <1>3 DEF Fetched
<1>8. dest'[DestOf[f]].file = f
  BY <1>1, <1>2 DEF IInv, FileInv
<1>9. ASSUME NEW g \in Fetched(DestOf[f]) PROVE g <= f
  <2>1. g \in File /\ DestOf[g] = DestOf[f] /\ task[g] # "idle"
    BY <1>9 DEF Fetched, FetchedInv
  <2>2. ~(f < g)
    BY <1>1, <2>1 DEF OrderInv
  <2>3. QED
    BY <2>1, <2>2, DownloadAssumption DEF DownloadAssumption, File
<1>10. f <= f
  BY DownloadAssumption DEF DownloadAssumption, File
<1>11. QED
  BY <1>2, <1>5, <1>6, <1>7, <1>8, <1>9, <1>10 DEF FetchedInv

\* A failure is never the second outcome of a file that was fetched.
LEMMA NextFetched ==
  ASSUME IInv, OrderInv, FetchedInv, [Next]_vars
  PROVE  FetchedInv'
<1> USE DEF IInv, CallerInv, TaskInv, FileInv, fileVars
<1>1. ASSUME dest' = dest, result' = result,
             \A f \in File : task[f] \in {"release", "closing", "done"} =>
               task'[f] \in {"release", "closing", "done"}
      PROVE  FetchedInv'
  BY <1>1 DEF FetchedInv, Fetched
<1>2. CASE UNCHANGED vars \/ Cancel \/ Exit
  BY <1>1, <1>2 DEF vars, Cancel, Exit
<1>3. CASE Discovery
  <2>1. CASE Launch
    BY <1>1, <2>1 DEF Launch
  <2>2. CASE Discovery /\ ~Launch
    BY <1>1, <2>2 DEF Discovery, DiscoveryFails, SkipFile, FindFile, AwaitPrevious,
                      DiscoveryEnds, Return
  <2>3. QED
    BY <1>3, <2>1, <2>2
<1>4. ASSUME NEW f \in File, Transfer(f)
      PROVE  FetchedInv'
  <2>1. CASE RenameOK(f)
    BY <2>1, RenameFetched
  <2>2. CASE RequestOK(f) \/ CopyOK(f) \/ ReleaseSlot(f) \/ CloseDone(f)
    BY <1>1, <2>2 DEF RequestOK, CopyOK, ReleaseSlot, CloseDone, Goto
  <2>3. CASE Reject(f) \/ CheckContext(f) \/ RequestFails(f) \/ CopyFails(f) \/ RenameFails(f)
    <3>1. /\ task[f] \in {"check", "request", "copy", "rename"}
          /\ dest' = dest
      BY <2>3 DEF Reject, CheckContext, RequestFails, CopyFails, RenameFails
    <3>2. \A g \in File : g # f => task'[g] = task[g] /\ result'[g] = result[g]
      BY <2>3 DEF Reject, CheckContext, RequestFails, CopyFails, RenameFails, Goto,
                  AfterFailure
    <3>3. result[f] # "ok"
      BY <3>1 DEF FetchedInv
    <3>4. result'[f] # "ok"
      BY <2>3, <3>3 DEF Reject, CheckContext, RequestFails, CopyFails, RenameFails
    <3>5. \A d \in Dest : Fetched(d)' = Fetched(d)
      BY <3>2, <3>3, <3>4 DEF Fetched
    <3>6. QED
      BY <3>1, <3>2, <3>4, <3>5 DEF FetchedInv
  <2>4. QED
    BY <1>4, <2>1, <2>2, <2>3 DEF Transfer
<1>5. QED
  BY <1>2, <1>3, <1>4 DEF Next

\* Download leaves neither a transfer at work nor a temporary file behind,
\* wherever discovery or a transfer fails.
THEOREM NothingLeftBehind == Spec => []CleanReturn
<1>1. IInv /\ SettledInv => CleanReturn
  BY DEF SettledInv, CleanReturn, InFlight
<1>2. QED
  BY <1>1, InitIInv, NextIInv, InitSettled, NextSettled, PTL DEF Spec

\* At the return each destination holds the last file that was fetched for it,
\* whatever the files are and however their transfers interleave.
THEOREM LastOneStays == Spec => []LastFetchedWins
<1>1. ASSUME FetchedInv PROVE LastFetchedWins
  <2>1. SUFFICES ASSUME NEW d \in Dest
                 PROVE  dest[d].file = IF Fetched(d) = {} THEN NoFile
                                       ELSE Last(Fetched(d))
    BY DEF LastFetchedWins, Fetched
  <2>2. CASE Fetched(d) # {}
    <3> DEFINE l == Last(Fetched(d))
    <3>1. l \in Fetched(d) /\ \A f \in Fetched(d) : f <= l
      BY <2>2, LastIsLast DEF Fetched
    <3>2. dest[d].file \in Fetched(d) /\ dest[d].file <= l /\ l <= dest[d].file
      BY <1>1, <2>2, <3>1 DEF FetchedInv
    <3>3. Fetched(d) \subseteq Int
      BY DownloadAssumption DEF Fetched, File, DownloadAssumption
    <3> HIDE DEF l
    <3>4. l \in Int /\ dest[d].file \in Int
      BY <3>1, <3>2, <3>3
    <3>5. dest[d].file = l
      BY <3>2, <3>4
    <3>6. QED
      BY <2>2, <3>5 DEF l
  <2>3. QED
    BY <1>1, <2>2 DEF FetchedInv
<1>2. Init => OrderInv
  BY DEF Init, OrderInv
<1>3. QED
  BY <1>1, <1>2, InitIInv, NextIInv, NextOrder, InitSettled, NextFetched, PTL DEF Spec
=============================================================================
