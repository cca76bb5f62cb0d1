------------------------ MODULE BuildServiceProofs -------------------------
(***************************************************************************)
(* Proofs about the build service, for every configuration and every       *)
(* number of callers, workers, items, builds and errors.                   *)
(*                                                                         *)
(* RecipeFilter: the shared array may lose and repeat artifacts, but no    *)
(* call ever acts on a skipped one, and calls that do not overlap leave    *)
(* the wanted ones at its front, in their order.                           *)
(* WorkerPool: an uncancelled pool handles every item, and only a cancel   *)
(* that makes every worker drop an item strands the dispatcher.            *)
(* BuildTrigger: what a call without an error leaves behind, and why       *)
(* builds are only requested twice by a call that could not see the first  *)
(* ones.                                                                   *)
(***************************************************************************)
EXTENDS RecipeFilter, WorkerPool, BuildTrigger, FiniteSetTheorems, TLAPS

\* The list of recipes (RecipeFilter).

\* The lengths and indexes stay within the configured list.
BoundsInv ==
  /\ configured \in Seq(Artifact)
  /\ artifacts \in [1..Len(configured) -> Artifact]
  /\ skipped \in SUBSET Artifact
  /\ stage \in [Caller -> {"new", "filter", "write", "dispatch", "done"}]
  /\ read \in [Caller -> 0..Len(configured)]
  /\ kept \in [Caller -> 0..Len(configured)]
  /\ name \in [Caller -> Artifact]
  /\ sent \in [Caller -> Seq(Artifact)]
  /\ \A c \in Caller :
       /\ stage[c] = "filter" => kept[c] <= read[c]
       /\ stage[c] = "write" => kept[c] < read[c]

\* What a call has kept so far is wanted, and no write of another call changes
\* that: all of them write wanted artifacts only.
KeptInv ==
  \A c \in Caller :
    /\ stage[c] = "write" => name[c] \notin skipped
    /\ stage[c] \in {"filter", "write", "dispatch"} =>
         \A i \in 1..kept[c] : artifacts[i] \notin skipped

SentWanted == \A c \in Caller : \A i \in 1..Len(sent[c]) : sent[c][i] \notin skipped

FilterInv == BoundsInv /\ KeptInv /\ SentWanted

\* A list of distinct members of a set is a sequence over it.
LEMMA ConfiguredIsSeq ==
  ASSUME FilterInit
  PROVE  configured \in Seq(Artifact) /\ Len(configured) \in Nat \ {0}
<1>1. Cardinality(Artifact) \in Nat \ {0}
  BY FilterAssumption, FS_CardinalityType, FS_EmptySet DEF FilterAssumption
<1>2. configured \in [1..Cardinality(Artifact) -> Artifact]
  BY DEF FilterInit, SetToSeqs
<1>3. QED
  BY <1>1, <1>2

LEMMA InitFilter == FilterInit => FilterInv
<1> SUFFICES ASSUME FilterInit PROVE FilterInv
  OBVIOUS
<1>1. configured \in Seq(Artifact) /\ Len(configured) \in Nat \ {0}
  BY ConfiguredIsSeq
<1>2. artifacts \in [1..Len(configured) -> Artifact]
  BY <1>1 DEF FilterInit
<1>3. Head(configured) \in Artifact
  BY <1>1
<1>4. name \in [Caller -> Artifact]
  BY <1>3 DEF FilterInit
<1>5. BoundsInv
  BY <1>1, <1>2, <1>4 DEF FilterInit, BoundsInv
<1>6. KeptInv /\ SentWanted
  BY DEF FilterInit, KeptInv, SentWanted
<1>7. QED
  BY <1>5, <1>6 DEF FilterInv

LEMMA StepBounds ==
  ASSUME FilterInv, NEW c \in Caller, FilterStep(c)
  PROVE  BoundsInv'
<1> USE DEF FilterInv, BoundsInv, filterHist
<1>0. Len(configured) \in Nat /\ Len(artifacts) = Len(configured)
  OBVIOUS
<1>1. CASE FilterBegin(c)
  BY <1>0, <1>1 DEF FilterBegin
<1>2. CASE FilterRead(c)
  BY <1>0, <1>2 DEF FilterRead
<1>3. CASE FilterWrite(c)
  BY <1>0, <1>3 DEF FilterWrite
<1>4. CASE FilterDone(c)
  BY <1>0, <1>4 DEF FilterDone
<1>5. CASE Dispatch(c)
  BY <1>0, <1>5 DEF Dispatch
<1>6. CASE Finish(c)
  BY <1>0, <1>6 DEF Finish
<1>7. QED
  BY <1>1, <1>2, <1>3, <1>4, <1>5, <1>6 DEF FilterStep

LEMMA StepKept ==
  ASSUME FilterInv, NEW c \in Caller, FilterStep(c)
  PROVE  KeptInv'
<1> USE DEF FilterInv, BoundsInv, KeptInv, filterHist
<1>0. Len(configured) \in Nat /\ Len(artifacts) = Len(configured)
  OBVIOUS
<1>1. CASE FilterBegin(c)
  BY <1>0, <1>1 DEF FilterBegin
<1>2. CASE FilterRead(c)
  BY <1>0, <1>2 DEF FilterRead
<1>3. CASE FilterWrite(c)
  BY <1>0, <1>3 DEF FilterWrite
<1>4. CASE FilterDone(c)
  BY <1>0, <1>4 DEF FilterDone
<1>5. CASE Dispatch(c)
  BY <1>0, <1>5 DEF Dispatch
<1>6. CASE Finish(c)
  BY <1>0, <1>6 DEF Finish
<1>7. QED
  BY <1>1, <1>2, <1>3, <1>4, <1>5, <1>6 DEF FilterStep

LEMMA StepSent ==
  ASSUME FilterInv, NEW c \in Caller, FilterStep(c)
  PROVE  SentWanted'
<1> USE DEF FilterInv, BoundsInv, SentWanted, filterHist
<1>1. CASE FilterBegin(c)
  BY <1>1 DEF FilterBegin
<1>2. CASE Dispatch(c)
  <2>1. artifacts[read[c] + 1] \notin skipped
    BY <1>2 DEF Dispatch, KeptInv
  <2>2. QED
    BY <1>2, <2>1 DEF Dispatch
<1>3. CASE UNCHANGED <<skipped, sent>>
  BY <1>3
<1>4. QED
  BY <1>1, <1>2, <1>3
     DEF FilterStep, FilterRead, FilterWrite, FilterDone, Finish

LEMMA NextFilter == FilterInv /\ [FilterNext]_filterVars => FilterInv'
<1> SUFFICES ASSUME FilterInv, [FilterNext]_filterVars PROVE FilterInv'
  OBVIOUS
<1>1. ASSUME NEW c \in Caller, FilterStep(c) PROVE FilterInv'
  BY <1>1, StepBounds, StepKept, StepSent DEF FilterInv
<1>2. CASE UNCHANGED filterVars
  BY <1>2 DEF filterVars, filterHist, FilterInv, BoundsInv, KeptInv, SentWanted
<1>3. QED
  BY <1>1, <1>2 DEF FilterNext

\* What the argument above does not need: the bounded number of calls and a flag.
CountInv == begun \in 0..MaxBegun /\ overlapped \in BOOLEAN

LEMMA CountStays == CountInv /\ [FilterNext]_filterVars => CountInv'
<1> SUFFICES ASSUME CountInv, [FilterNext]_filterVars PROVE CountInv'
  OBVIOUS
<1>1. CASE \E c \in Caller : FilterBegin(c)
  <2>1. begun' \in 0..MaxBegun
    BY <1>1, FilterAssumption DEF FilterBegin, CountInv, FilterAssumption
  <2>2. overlapped' \in BOOLEAN
    BY <1>1, Zenon DEF FilterBegin
  <2>3. QED
    BY <2>1, <2>2 DEF CountInv
<1>2. CASE UNCHANGED <<begun, overlapped>>
  BY <1>2, Zenon DEF CountInv
<1>3. QED
  BY <1>1, <1>2, Zenon
     DEF FilterNext, FilterStep, FilterRead, FilterWrite, FilterDone, Dispatch, Finish, filterVars, filterHist

\* The configuration and the calls have their types, and all indexes stay within
\* the configured list, for every configuration and every number of calls.
THEOREM FilterTypeCorrect == FilterSpec => []FilterTypeOK
<1>1. FilterInit => CountInv
  <2>1. FilterInit => begun \in 0..MaxBegun
    BY FilterAssumption DEF FilterInit, FilterAssumption
  <2>2. QED
    BY <2>1, Zenon DEF FilterInit, CountInv
<1>2. ASSUME BoundsInv PROVE artifacts \in Seq(Artifact) /\ Len(artifacts) = Len(configured)
  <2>1. PICK n \in Nat : n = Len(configured)
    BY <1>2 DEF BoundsInv
  <2>2. artifacts \in [1..n -> Artifact]
    BY <1>2, <2>1 DEF BoundsInv
  <2>3. artifacts \in Seq(Artifact) /\ Len(artifacts) = n
    BY <2>1, <2>2
  <2>4. QED
    BY <2>1, <2>3
<1>3. ASSUME BoundsInv, NEW c \in Caller PROVE sent[c] \in Seq(Artifact)
  BY <1>3 DEF BoundsInv
<1>4. FilterInv /\ CountInv => FilterTypeOK
  BY <1>2, <1>3, Zenon DEF FilterInv, BoundsInv, CountInv, FilterTypeOK
<1>5. QED
  BY <1>1, <1>4, CountStays, InitFilter, NextFilter, PTL DEF FilterSpec

\* No call of Trigger acts on an artifact the configuration skips, for every
\* configuration and however many calls filter the shared array at once.
THEOREM SkippedStaySkipped == FilterSpec => []OnlyWanted
<1>1. FilterInv => OnlyWanted
  BY DEF FilterInv, BoundsInv, SentWanted, OnlyWanted, Range
<1>2. QED
  BY <1>1, InitFilter, NextFilter, PTL DEF FilterSpec
-----------------------------------------------------------------------------
\* Calls that do not overlap.  The first filter moves each wanted artifact to its
\* rank, ahead of what it has still to read; a later one finds them there, writes
\* each over itself, and what it then keeps of the leftovers lies behind them.

Size == Len(configured)

Active(c) == stage[c] \notin {"new", "done"}

\* Of the first r artifacts the wanted ones are at their ranks.
Placed(r) ==
  \A i \in 1..r : configured[i] \notin skipped => artifacts[Rank(i)] = configured[i]

\* What the first r artifacts do not cover is as it was configured.
Behind(r) == \A i \in 1..Size : i > r => artifacts[i] = configured[i]

Sorted == Placed(Size) /\ \A p \in 1..Rank(Size) : artifacts[p] \notin skipped

FirstRead(c) == kept[c] = Rank(read[c]) /\ Placed(read[c]) /\ Behind(read[c])

FirstWrite(c) ==
  /\ kept[c] = Rank(read[c] - 1) /\ name[c] = configured[read[c]]
  /\ Placed(read[c] - 1) /\ Behind(read[c])

LaterRead(c) ==
  /\ Sorted
  /\ read[c] <= Rank(Size) => kept[c] = read[c]
  /\ read[c] > Rank(Size) => kept[c] >= Rank(Size)

LaterWrite(c) ==
  /\ Sorted
  /\ read[c] <= Rank(Size) => kept[c] + 1 = read[c] /\ name[c] = artifacts[read[c]]
  /\ read[c] > Rank(Size) => kept[c] >= Rank(Size)

Sending(c) ==
  /\ Sorted /\ kept[c] >= Rank(Size)
  /\ Len(sent[c]) = read[c]
  /\ \A p \in 1..read[c] : sent[c][p] = artifacts[p]

Sent(c) ==
  \A i \in 1..Size :
    configured[i] \notin skipped =>
      Rank(i) <= Len(sent[c]) /\ sent[c][Rank(i)] = configured[i]

Alone == \A c, d \in Caller : Active(c) /\ Active(d) => c = d

Rested == (\A c \in Caller : ~Active(c)) => artifacts = configured \/ Sorted

CallOrder(c) ==
  /\ stage[c] = "filter" => FirstRead(c) \/ LaterRead(c)
  /\ stage[c] = "write" => FirstWrite(c) \/ LaterWrite(c)
  /\ stage[c] = "dispatch" => Sending(c)
  /\ stage[c] = "done" => Sent(c)

OrderInv == ~overlapped => Alone /\ Rested /\ \A c \in Caller : CallOrder(c)

\* The rank counts the wanted artifacts: it grows by one at each of them, and
\* never exceeds the place.
LEMMA RankGrows ==
  ASSUME NEW i \in Nat
  PROVE  /\ Rank(i) \in Nat /\ Rank(i) <= i /\ Rank(0) = 0
         /\ configured[i + 1] \in skipped => Rank(i + 1) = Rank(i)
         /\ configured[i + 1] \notin skipped => Rank(i + 1) = Rank(i) + 1
<1> DEFINE W(k) == {j \in 1..k : configured[j] \notin skipped}
<1>1. IsFiniteSet(1..i) /\ Cardinality(1..i) = i
  BY FS_Interval
<1>2. W(i) \subseteq 1..i
  OBVIOUS
<1>3. IsFiniteSet(W(i)) /\ Cardinality(W(i)) \in Nat /\ Cardinality(W(i)) <= i
  BY <1>1, <1>2, FS_Subset, FS_CardinalityType
<1>4. Cardinality(W(0)) = 0
  <2>1. W(0) = {}
    OBVIOUS
  <2>2. QED
    BY <2>1, FS_EmptySet
<1>5. ASSUME configured[i + 1] \in skipped PROVE W(i + 1) = W(i)
  BY <1>5
<1>6. ASSUME configured[i + 1] \notin skipped
      PROVE  Cardinality(W(i + 1)) = Cardinality(W(i)) + 1
  <2>1. W(i + 1) = W(i) \cup {i + 1} /\ i + 1 \notin W(i)
    BY <1>6
  <2>2. QED
    BY <1>3, <2>1, FS_AddElement
<1>7. \A k : Rank(k) = Cardinality(W(k))
  BY DEF Rank
<1>8. QED
  BY <1>3, <1>4, <1>5, <1>6, <1>7

LEMMA RankIsMonotone ==
  ASSUME NEW i \in Nat, NEW j \in Nat, i <= j
  PROVE  Rank(i) <= Rank(j)
<1> DEFINE W(k) == {x \in 1..k : configured[x] \notin skipped}
<1>1. IsFiniteSet(1..j)
  BY FS_Interval
<1>2. IsFiniteSet(W(j))
  <2>1. W(j) \subseteq 1..j
    OBVIOUS
  <2>2. QED
    BY <1>1, <2>1, FS_Subset
<1>3. W(i) \subseteq W(j)
  OBVIOUS
<1>4. Cardinality(W(i)) <= Cardinality(W(j))
  BY <1>2, <1>3, FS_Subset
<1>5. QED
  BY <1>4 DEF Rank

\* A wanted artifact has a rank of its own, behind those of the ones before it.
LEMMA RankOfWanted ==
  ASSUME NEW i \in Nat \ {0}, configured[i] \notin skipped
  PROVE  /\ Rank(i) \in 1..i /\ Rank(i) = Rank(i - 1) + 1
         /\ \A j \in 1..i - 1 : Rank(j) < Rank(i)
<1>1. i - 1 \in Nat /\ (i - 1) + 1 = i
  OBVIOUS
<1>2. Rank(i - 1) \in Nat /\ Rank(i) = Rank(i - 1) + 1
  BY <1>1, RankGrows
<1>3. Rank(i) <= i
  BY RankGrows
<1>4. \A j \in 1..i - 1 : Rank(j) \in Nat /\ Rank(j) <= Rank(i - 1)
  <2>1. \A j \in 1..i - 1 : j \in Nat /\ j <= i - 1
    BY <1>1
  <2>2. QED
    BY <1>1, <2>1, RankIsMonotone, RankGrows
<1>5. QED
  BY <1>2, <1>3, <1>4

\* Where nothing is skipped the rank is the place.
LEMMA RankOfAll ==
  ASSUME skipped = {}, NEW i \in Nat
  PROVE  Rank(i) = i
<1>1. {j \in 1..i : configured[j] \notin skipped} = 1..i
  OBVIOUS
<1>2. Cardinality(1..i) = i
  BY FS_Interval
<1>3. QED
  BY <1>1, <1>2 DEF Rank

\* The configuration and the skipped artifacts do not change, so neither do ranks.
LEMMA RankStays ==
  ASSUME NEW c \in Caller, FilterStep(c)
  PROVE  /\ configured' = configured /\ skipped' = skipped
         /\ \A i : Rank(i)' = Rank(i)
<1>1. configured' = configured /\ skipped' = skipped
  BY Zenon
     DEF FilterStep, FilterBegin, FilterRead, FilterWrite, FilterDone, Dispatch, Finish, filterHist
<1>2. QED
  BY <1>1 DEF Rank

LEMMA InitOrder == FilterInit => OrderInv
<1> SUFFICES ASSUME FilterInit PROVE OrderInv
  OBVIOUS
<1>1. \A c \in Caller : stage[c] = "new"
  BY DEF FilterInit
<1>2. artifacts = configured
  BY DEF FilterInit
<1>3. QED
  BY <1>1, <1>2 DEF OrderInv, Alone, Active, Rested, CallOrder

\* A call that begins while none is under way finds the array as configured or
\* sorted by an earlier filter.
LEMMA BeginOrder ==
  ASSUME FilterInv, OrderInv, NEW c \in Caller, FilterBegin(c), ~overlapped'
  PROVE  Alone' /\ Rested' /\ CallOrder(c)'
<1>0. Size \in Nat /\ Len(artifacts) = Size
  BY DEF FilterInv, BoundsInv, Size
<1>1. ~overlapped /\ \A d \in Caller : ~Active(d)
  BY Zenon DEF FilterBegin, Active
<1>2. artifacts = configured \/ Sorted
  BY <1>1 DEF OrderInv, Rested
<1>3. /\ artifacts' = artifacts /\ configured' = configured /\ skipped' = skipped
      /\ Size' = Size /\ \A i : Rank(i)' = Rank(i)
  BY RankStays DEF FilterBegin, FilterStep, Size
<1>4. Rank(Size) \in Nat /\ Rank(Size) <= Size /\ Rank(0) = 0
  BY <1>0, RankGrows
<1>5. \A d \in Caller : Active(d)' => d = c
  BY <1>1 DEF FilterBegin, Active, FilterInv, BoundsInv
<1>6. Alone'
  BY <1>5 DEF Alone
<1>7. Active(c)'
  BY DEF FilterBegin, Active, FilterInv, BoundsInv
<1>8. CASE skipped = {}
  <2>1. \A i \in Nat : Rank(i) = i
    BY <1>8, RankOfAll
  <2>2. Sorted
    <3>1. ASSUME artifacts = configured PROVE Placed(Size)
      BY <1>0, <2>1, <3>1 DEF Placed
    <3>2. QED
      BY <1>2, <1>8, <3>1 DEF Sorted
  <2>3. Sorted'
    BY <1>3, <2>2 DEF Sorted, Placed
  <2>4. stage'[c] = "dispatch" /\ read'[c] = 0 /\ kept'[c] = Size /\ sent'[c] = <<>>
    BY <1>0, <1>8 DEF FilterBegin, FilterInv, BoundsInv
  <2>5. Sending(c)'
    BY <1>3, <1>4, <2>3, <2>4 DEF Sending
  <2>6. QED
    BY <1>6, <1>7, <2>4, <2>5 DEF Rested, CallOrder
<1>9. CASE skipped # {}
  <2>1. stage'[c] = "filter" /\ read'[c] = 0 /\ kept'[c] = 0
    BY <1>9 DEF FilterBegin, FilterInv, BoundsInv
  <2>2. ASSUME artifacts = configured PROVE FirstRead(c)'
    BY <1>0, <1>3, <1>4, <2>1, <2>2 DEF FirstRead, Placed, Behind
  <2>3. ASSUME Sorted PROVE LaterRead(c)'
    <3>1. Sorted'
      BY <1>3, <2>3 DEF Sorted, Placed
    <3>2. QED
      BY <1>3, <1>4, <2>1, <3>1 DEF LaterRead
  <2>4. QED
    BY <1>2, <1>6, <1>7, <2>1, <2>2, <2>3 DEF Rested, CallOrder
<1>10. QED
  BY <1>8, <1>9

LEMMA FilterReadOrder ==
  ASSUME FilterInv, NEW c \in Caller, CallOrder(c), FilterRead(c)
  PROVE  CallOrder(c)'
<1>0. Size \in Nat /\ Len(artifacts) = Size
  BY DEF FilterInv, BoundsInv, Size
<1>1. /\ artifacts' = artifacts /\ configured' = configured /\ skipped' = skipped
      /\ Size' = Size /\ \A i : Rank(i)' = Rank(i)
  BY RankStays DEF FilterRead, FilterStep, Size
<1>r. PICK r : r = read[c]
  OBVIOUS
<1>2. r \in Nat /\ r < Size /\ r + 1 \in 1..Size /\ kept[c] \in Nat
  BY <1>0, <1>r DEF FilterRead, FilterInv, BoundsInv, Size
<1>3. read'[c] = r + 1 /\ kept'[c] = kept[c] /\ name'[c] = artifacts[r + 1]
  BY <1>r DEF FilterRead, FilterInv, BoundsInv
<1>4. stage'[c] = IF artifacts[r + 1] \in skipped THEN "filter" ELSE "write"
  BY <1>3 DEF FilterRead, FilterInv, BoundsInv
<1>5. Rank(Size) \in Nat /\ Rank(r) \in Nat
  BY <1>0, <1>2, RankGrows
<1>6. CASE FirstRead(c)
  <2>1. artifacts[r + 1] = configured[r + 1] /\ kept[c] = Rank(r)
    BY <1>2, <1>6, <1>r DEF FirstRead, Behind
  <2>2. Placed(r)' /\ Behind(r + 1)'
    BY <1>0, <1>1, <1>2, <1>6, <1>r DEF FirstRead, Placed, Behind
  <2>3. CASE configured[r + 1] \in skipped
    <3>1. Rank(r + 1) = Rank(r)
      BY <1>2, <2>3, RankGrows
    <3>2. Placed(r + 1)'
      BY <1>1, <1>2, <2>2, <2>3 DEF Placed
    <3>3. FirstRead(c)'
      BY <1>1, <1>3, <2>1, <2>2, <3>1, <3>2 DEF FirstRead, Placed, Behind
    <3>4. QED
      BY <1>4, <2>1, <2>3, <3>3 DEF CallOrder
  <2>4. CASE configured[r + 1] \notin skipped
    <3>1. (r + 1) - 1 = r
      BY <1>2
    <3>2. FirstWrite(c)'
      BY <1>1, <1>3, <2>1, <2>2, <3>1 DEF FirstWrite, Placed, Behind
    <3>3. QED
      BY <1>4, <2>1, <2>4, <3>2 DEF CallOrder
  <2>5. QED
    BY <2>3, <2>4
<1>7. CASE LaterRead(c)
  <2>1. Sorted'
    BY <1>1, <1>7 DEF LaterRead, Sorted, Placed
  <2>2. r + 1 <= Rank(Size) => kept[c] = r /\ artifacts[r + 1] \notin skipped
    BY <1>2, <1>5, <1>7, <1>r DEF LaterRead, Sorted
  <2>3. r + 1 > Rank(Size) => kept[c] >= Rank(Size)
    BY <1>2, <1>5, <1>7, <1>r DEF LaterRead
  <2>4. CASE artifacts[r + 1] \in skipped
    <3>1. LaterRead(c)'
      BY <1>1, <1>2, <1>3, <1>5, <2>1, <2>2, <2>3, <2>4 DEF LaterRead
    <3>2. QED
      BY <1>4, <2>4, <3>1 DEF CallOrder
  <2>5. CASE artifacts[r + 1] \notin skipped
    <3>1. LaterWrite(c)'
      BY <1>1, <1>2, <1>3, <1>5, <2>1, <2>2, <2>3 DEF LaterWrite
    <3>2. QED
      BY <1>4, <2>5, <3>1 DEF CallOrder
  <2>6. QED
    BY <2>4, <2>5
<1>8. QED
  BY <1>6, <1>7 DEF CallOrder, FilterRead

\* The write of a first filter puts the artifact at its rank; that of a later one
\* repeats it there, or lies behind all of them.
LEMMA FilterWriteOrder ==
  ASSUME FilterInv, NEW c \in Caller, CallOrder(c), FilterWrite(c)
  PROVE  CallOrder(c)'
<1>0. Size \in Nat /\ Len(artifacts) = Size
  BY DEF FilterInv, BoundsInv, Size
<1>1. /\ configured' = configured /\ skipped' = skipped
      /\ Size' = Size /\ \A i : Rank(i)' = Rank(i)
  BY RankStays DEF FilterStep, Size
<1>r. PICK r, k : r = read[c] /\ k = kept[c]
  OBVIOUS
<1>2. r \in 1..Size /\ k \in Nat /\ k < r /\ k + 1 \in 1..Size
  BY <1>0, <1>r DEF FilterWrite, FilterInv, BoundsInv, Size
<1>3. /\ read'[c] = r /\ kept'[c] = k + 1 /\ stage'[c] = "filter"
      /\ artifacts' = [artifacts EXCEPT ![k + 1] = name[c]]
  BY <1>r DEF FilterWrite, FilterInv, BoundsInv
<1>4. /\ artifacts'[k + 1] = name[c]
      /\ \A p \in 1..Size : p # k + 1 => artifacts'[p] = artifacts[p]
  BY <1>0, <1>2, <1>3, <1>r DEF FilterInv, BoundsInv, Size
<1>5. Rank(Size) \in Nat /\ Rank(Size) <= Size
  BY <1>0, RankGrows
<1>6. name[c] \notin skipped
  BY DEF FilterInv, KeptInv, FilterWrite
<1>7. CASE FirstWrite(c)
  <2>1. configured[r] \notin skipped /\ name[c] = configured[r] /\ k = Rank(r - 1)
    BY <1>6, <1>7, <1>r DEF FirstWrite
  <2>2. /\ Rank(r) = k + 1 /\ \A j \in 1..r - 1 : Rank(j) < Rank(r)
    BY <1>2, <2>1, RankOfWanted
  <2>3. ASSUME NEW i \in 1..r - 1, configured[i] \notin skipped
        PROVE  artifacts'[Rank(i)] = configured[i]
    <3>1. Rank(i) \in 1..i /\ Rank(i) # k + 1
      BY <1>2, <2>2, <2>3, RankOfWanted
    <3>2. artifacts[Rank(i)] = configured[i]
      BY <1>7, <2>3, <1>r DEF FirstWrite, Placed
    <3>3. Rank(i) \in 1..Size
      BY <1>0, <1>2, <3>1
    <3>4. QED
      BY <1>4, <3>1, <3>2, <3>3
  <2>4. Placed(r)'
    <3>1. \A i \in 1..r : i = r \/ i \in 1..r - 1
      BY <1>2
    <3>2. artifacts'[Rank(r)] = configured[r]
      BY <1>4, <2>1, <2>2
    <3>3. \A i \in 1..r : configured[i] \notin skipped => artifacts'[Rank(i)] = configured[i]
      BY <2>3, <3>1, <3>2
    <3>4. QED
      BY <1>1, <3>3, <1>r DEF Placed
  <2>5. Behind(r)'
    BY <1>0, <1>1, <1>2, <1>4, <1>7, <1>r DEF FirstWrite, Behind
  <2>6. FirstRead(c)'
    BY <1>1, <1>3, <2>2, <2>4, <2>5, <1>r DEF FirstRead, Placed, Behind
  <2>7. QED
    BY <1>3, <2>6, <1>r DEF CallOrder
<1>8. CASE LaterWrite(c)
  <2>1. \A p \in 1..Rank(Size) : artifacts'[p] = artifacts[p]
    <3>1. CASE r <= Rank(Size)
      <4>1. k + 1 = r /\ name[c] = artifacts[r]
        BY <1>8, <3>1, <1>r DEF LaterWrite
      <4>2. QED
        BY <1>0, <1>2, <1>4, <1>5, <4>1
    <3>2. CASE r > Rank(Size)
      <4>1. k >= Rank(Size)
        BY <1>8, <3>2, <1>r DEF LaterWrite
      <4>2. QED
        BY <1>0, <1>2, <1>4, <1>5, <4>1
    <3>3. QED
      BY <1>2, <1>5, <3>1, <3>2
  <2>2. ASSUME NEW i \in 1..Size, configured[i] \notin skipped
        PROVE  artifacts'[Rank(i)] = configured[i]
    <3>1. Rank(i) \in 1..i /\ Rank(i) <= Rank(Size)
      BY <1>0, <2>2, RankOfWanted, RankIsMonotone
    <3>2. Rank(i) \in 1..Rank(Size)
      BY <1>5, <3>1
    <3>3. artifacts[Rank(i)] = configured[i]
      BY <1>8, <2>2, <1>r DEF LaterWrite, Sorted, Placed
    <3>4. QED
      BY <2>1, <3>2, <3>3
  <2>3. Sorted'
    <3>1. Placed(Size)'
      BY <1>1, <2>2, <1>r DEF Placed
    <3>2. \A p \in 1..Rank(Size) : artifacts'[p] \notin skipped
      BY <1>8, <2>1, <1>r DEF LaterWrite, Sorted
    <3>3. QED
      BY <1>1, <3>1, <3>2, <1>r DEF Sorted
  <2>4. /\ r <= Rank(Size) => k + 1 = r
        /\ r > Rank(Size) => k + 1 >= Rank(Size)
    BY <1>2, <1>5, <1>8, <1>r DEF LaterWrite
  <2>5. LaterRead(c)'
    BY <1>1, <1>3, <2>3, <2>4, <1>r DEF LaterRead
  <2>6. QED
    BY <1>3, <2>5, <1>r DEF CallOrder
<1>9. QED
  BY <1>7, <1>8, <1>r DEF CallOrder, FilterWrite

LEMMA FilterDoneOrder ==
  ASSUME FilterInv, NEW c \in Caller, CallOrder(c), FilterDone(c), sent[c] = <<>>
  PROVE  CallOrder(c)'
<1>0. Size \in Nat /\ Len(artifacts) = Size
  BY DEF FilterInv, BoundsInv, Size
<1>1. /\ artifacts' = artifacts /\ configured' = configured /\ skipped' = skipped
      /\ Size' = Size /\ \A i : Rank(i)' = Rank(i)
  BY RankStays DEF FilterDone, FilterStep, Size
<1>2. /\ read[c] = Size /\ read'[c] = 0 /\ kept'[c] = kept[c] /\ stage'[c] = "dispatch"
      /\ sent'[c] = <<>>
  BY <1>0 DEF FilterDone, FilterInv, BoundsInv
<1>3. Rank(Size) \in Nat /\ Rank(Size) <= Size /\ kept[c] \in Nat
  BY <1>0, RankGrows DEF FilterInv, BoundsInv
<1>4. ASSUME FirstRead(c) PROVE Sorted /\ kept[c] >= Rank(Size)
  <2>1. kept[c] = Rank(Size) /\ Placed(Size)
    BY <1>2, <1>4 DEF FirstRead
  <2>2. \A p \in 1..kept[c] : artifacts[p] \notin skipped
    BY DEF FilterInv, KeptInv, FilterDone
  <2>3. QED
    BY <1>3, <2>1, <2>2 DEF Sorted
<1>5. ASSUME LaterRead(c) PROVE Sorted /\ kept[c] >= Rank(Size)
  BY <1>0, <1>2, <1>3, <1>5 DEF LaterRead
<1>6. Sorted /\ kept[c] >= Rank(Size)
  BY <1>4, <1>5 DEF CallOrder, FilterDone
<1>7. Sorted'
  BY <1>1, <1>6 DEF Sorted, Placed
<1>8. Sending(c)'
  BY <1>1, <1>2, <1>6, <1>7 DEF Sending
<1>9. QED
  BY <1>2, <1>8 DEF CallOrder

LEMMA DispatchOrder ==
  ASSUME FilterInv, NEW c \in Caller, CallOrder(c), Dispatch(c)
  PROVE  CallOrder(c)'
<1>1. /\ artifacts' = artifacts /\ configured' = configured /\ skipped' = skipped
      /\ Size' = Size /\ \A i : Rank(i)' = Rank(i)
  BY RankStays DEF Dispatch, FilterStep, Size
<1> DEFINE r == read[c]
<1>2. r \in Nat /\ sent[c] \in Seq(Artifact) /\ Sending(c)
  BY DEF Dispatch, FilterInv, BoundsInv, CallOrder
<1>3. /\ read'[c] = r + 1 /\ kept'[c] = kept[c] /\ stage'[c] = "dispatch"
      /\ sent'[c] = Append(sent[c], artifacts[r + 1])
  BY DEF Dispatch, FilterInv, BoundsInv
<1>4. Len(sent[c]) = r /\ \A p \in 1..r : sent[c][p] = artifacts[p]
  BY <1>2 DEF Sending
<1>5. Len(sent'[c]) = r + 1
  BY <1>2, <1>3, <1>4
<1>6. \A p \in 1..r + 1 : sent'[c][p] = artifacts[p]
  BY <1>2, <1>3, <1>4
<1>7. Sorted'
  BY <1>1, <1>2 DEF Sending, Sorted, Placed
<1>8. Sending(c)'
  BY <1>1, <1>2, <1>3, <1>5, <1>6, <1>7 DEF Sending
<1>9. QED
  BY <1>3, <1>8 DEF CallOrder

LEMMA FinishOrder ==
  ASSUME FilterInv, NEW c \in Caller, CallOrder(c), Finish(c)
  PROVE  Sorted' /\ CallOrder(c)'
<1>0. Size \in Nat
  BY DEF FilterInv, BoundsInv, Size
<1>1. /\ artifacts' = artifacts /\ configured' = configured /\ skipped' = skipped
      /\ Size' = Size /\ \A i : Rank(i)' = Rank(i)
  BY RankStays DEF Finish, FilterStep, Size
<1>2. /\ Sending(c) /\ read[c] >= kept[c] /\ read[c] \in Nat /\ kept[c] \in Nat
      /\ stage'[c] = "done" /\ sent'[c] = sent[c]
  BY DEF Finish, FilterInv, BoundsInv, CallOrder
<1>3. Sorted'
  BY <1>1, <1>2 DEF Sending, Sorted, Placed
<1>4. ASSUME NEW i \in 1..Size, configured[i] \notin skipped
      PROVE  Rank(i) <= Len(sent[c]) /\ sent[c][Rank(i)] = configured[i]
  <2>1. Rank(i) \in 1..i /\ Rank(i) <= Rank(Size) /\ Rank(Size) \in Nat
    BY <1>0, <1>4, RankOfWanted, RankIsMonotone, RankGrows
  <2>2. Rank(i) \in 1..read[c]
    BY <1>2, <2>1 DEF Sending
  <2>3. artifacts[Rank(i)] = configured[i]
    BY <1>2, <1>4 DEF Sending, Sorted, Placed
  <2>4. QED
    BY <1>2, <2>2, <2>3 DEF Sending
<1>5. Sent(c)'
  BY <1>1, <1>2, <1>4 DEF Sent
<1>6. QED
  BY <1>2, <1>3, <1>5 DEF CallOrder

\* A call that has sent nothing yet is still filtering.
EmptyInv == \A c \in Caller : stage[c] \in {"filter", "write"} => sent[c] = <<>>

LEMMA StepEmpty ==
  ASSUME BoundsInv, EmptyInv, NEW c \in Caller, FilterStep(c)
  PROVE  EmptyInv'
BY DEF BoundsInv, EmptyInv, FilterStep, FilterBegin, FilterRead, FilterWrite, FilterDone,
       Dispatch, Finish

\* A call that is not the one that steps is idle, and what it acted on stays.
LEMMA OtherOrder ==
  ASSUME FilterInv, NEW c \in Caller, NEW d \in Caller, d # c, FilterStep(c), ~Active(d), CallOrder(d)
  PROVE  CallOrder(d)'
<1>1. stage'[d] = stage[d] /\ sent'[d] = sent[d]
  BY DEF FilterInv, BoundsInv, FilterStep, FilterBegin, FilterRead, FilterWrite, FilterDone, Dispatch, Finish
<1>2. Size' = Size /\ configured' = configured /\ skipped' = skipped /\ \A i : Rank(i)' = Rank(i)
  BY RankStays DEF Size
<1>3. stage[d] = "new" \/ (stage[d] = "done" /\ Sent(d))
  <2>1. stage[d] = "new" \/ stage[d] = "done"
    BY DEF Active
  <2>2. QED
    BY <2>1 DEF CallOrder
<1>4. Sent(d) => Sent(d)'
  BY <1>1, <1>2 DEF Sent
<1>5. QED
  BY <1>1, <1>3, <1>4 DEF CallOrder

LEMMA StepOrder ==
  ASSUME FilterInv, EmptyInv, OrderInv, NEW c \in Caller, FilterStep(c)
  PROVE  OrderInv'
<1> SUFFICES ASSUME ~overlapped' PROVE Alone' /\ Rested' /\ \A d \in Caller : CallOrder(d)'
  BY DEF OrderInv
<1>1. ~overlapped
  BY Zenon DEF FilterStep, FilterBegin, FilterRead, FilterWrite, FilterDone, Dispatch, Finish, filterHist
<1>2. Alone /\ Rested /\ \A d \in Caller : CallOrder(d)
  BY <1>1 DEF OrderInv
<1>3. FilterBegin(c) \/ Active(c)
  BY DEF FilterStep, Active, FilterRead, FilterWrite, FilterDone, Dispatch, Finish
<1>4. ASSUME NEW d \in Caller, d # c PROVE ~Active(d) /\ CallOrder(d)'
  <2>1. ~Active(d)
    BY <1>2, <1>3, <1>4, Zenon DEF Alone, FilterBegin, Active
  <2>2. QED
    BY <1>2, <1>4, <2>1, OtherOrder
<1>5. CASE FilterBegin(c)
  BY <1>4, <1>5, BeginOrder
<1>6. ASSUME ~FilterBegin(c) PROVE Alone' /\ (stage'[c] # "done" => Active(c)')
  <2>1. \A d \in Caller : d # c => stage'[d] = stage[d]
    BY DEF FilterInv, BoundsInv, FilterStep, FilterBegin, FilterRead, FilterWrite, FilterDone, Dispatch, Finish
  <2>2. Alone'
    BY <1>4, <2>1 DEF Alone, Active
  <2>3. stage'[c] # "new"
    BY <1>6 DEF FilterInv, BoundsInv, FilterStep, FilterRead, FilterWrite, FilterDone, Dispatch, Finish
  <2>4. QED
    BY <2>2, <2>3 DEF Active
<1>7. CASE Finish(c)
  <2>1. Sorted' /\ CallOrder(c)'
    BY <1>2, <1>7, FinishOrder
  <2>2. ~FilterBegin(c)
    BY <1>7 DEF Finish, FilterBegin
  <2>3. QED
    BY <1>4, <1>6, <2>1, <2>2 DEF Rested
<1>8. ASSUME FilterRead(c) \/ FilterWrite(c) \/ FilterDone(c) \/ Dispatch(c)
      PROVE  Alone' /\ Rested' /\ \A d \in Caller : CallOrder(d)'
  <2>1. ~FilterBegin(c) /\ stage'[c] # "done"
    BY <1>8 DEF FilterInv, BoundsInv, FilterBegin, FilterRead, FilterWrite, FilterDone, Dispatch
  <2>2. CallOrder(c)'
    BY <1>2, <1>8, FilterReadOrder, FilterWriteOrder, FilterDoneOrder, DispatchOrder
       DEF EmptyInv, FilterDone
  <2>3. QED
    BY <1>4, <1>6, <2>1, <2>2 DEF Rested
<1>9. QED
  BY <1>5, <1>7, <1>8 DEF FilterStep

LEMMA NextOrder == FilterInv /\ EmptyInv /\ OrderInv /\ [FilterNext]_filterVars => OrderInv' /\ EmptyInv'
<1> SUFFICES ASSUME FilterInv, EmptyInv, OrderInv, [FilterNext]_filterVars PROVE OrderInv' /\ EmptyInv'
  OBVIOUS
<1>1. ASSUME NEW c \in Caller, FilterStep(c) PROVE OrderInv' /\ EmptyInv'
  BY <1>1, StepOrder, StepEmpty DEF FilterInv
<1>2. CASE UNCHANGED filterVars
  <2>1. /\ configured' = configured /\ skipped' = skipped /\ artifacts' = artifacts
        /\ stage' = stage /\ read' = read /\ kept' = kept /\ name' = name /\ sent' = sent
        /\ overlapped' = overlapped
    BY <1>2 DEF filterVars, filterHist
  <2>2. Size' = Size /\ (\A i : Rank(i)' = Rank(i)) /\ \A c : Active(c)' = Active(c)
    BY <2>1 DEF Size, Rank, Active
  <2>3. (\A r : Placed(r) => Placed(r)') /\ \A r : Behind(r) => Behind(r)'
    BY <2>1, <2>2 DEF Placed, Behind
  <2>4. Sorted => Sorted'
    BY <2>1, <2>2, <2>3 DEF Sorted
  <2>5. ASSUME NEW c \in Caller, CallOrder(c) PROVE CallOrder(c)'
    <3>1. FirstRead(c) => FirstRead(c)'
      BY <2>1, <2>2, <2>3 DEF FirstRead
    <3>2. FirstWrite(c) => FirstWrite(c)'
      BY <2>1, <2>2, <2>3 DEF FirstWrite
    <3>3. LaterRead(c) => LaterRead(c)'
      BY <2>1, <2>2, <2>4 DEF LaterRead
    <3>4. LaterWrite(c) => LaterWrite(c)'
      BY <2>1, <2>2, <2>4 DEF LaterWrite
    <3>5. Sending(c) => Sending(c)'
      BY <2>1, <2>2, <2>4 DEF Sending
    <3>6. Sent(c) => Sent(c)'
      BY <2>1, <2>2 DEF Sent
    <3>7. QED
      BY <2>1, <2>5, <3>1, <3>2, <3>3, <3>4, <3>5, <3>6 DEF CallOrder
  <2>6. Alone => Alone'
    BY <2>2 DEF Alone
  <2>7. Rested => Rested'
    BY <2>1, <2>2, <2>4 DEF Rested
  <2>8. QED
    BY <2>1, <2>5, <2>6, <2>7, Zenon DEF OrderInv, EmptyInv
<1>3. QED
  BY <1>1, <1>2 DEF FilterNext

\* Calls of Trigger that follow each other act on every artifact that is not
\* skipped, in the configured order and before anything else, for every
\* configuration and number of calls.
THEOREM NoneIsMissed == FilterSpec => []WantedFirst
<1>1. FilterInv /\ OrderInv => WantedFirst
  BY DEF OrderInv, CallOrder, Sent, WantedFirst, Size
<1>2. FilterInit => EmptyInv
  BY DEF FilterInit, EmptyInv
<1>3. QED
  BY <1>1, <1>2, InitFilter, NextFilter, InitOrder, NextOrder, PTL DEF FilterSpec

-----------------------------------------------------------------------------
\* The worker pool (WorkerPool).

PoolTypeInv ==
  /\ PoolTypeOK
  /\ caller = "send" => next <= N
  /\ \A w \in Worker : worker[w].pc \in {"got", "busy"} => worker[w].item \in Item

\* Every item sent is with a worker or done with, unless the pool is cancelled;
\* the channel is closed early only then.
HandedInv ==
  ~cancelled =>
    /\ \A i \in 1..next - 1 :
         \/ i \in handled
         \/ \E w \in Worker : worker[w].pc \in {"got", "busy"} /\ worker[w].item = i
    /\ caller \in {"wait", "returned"} => next = N + 1
    /\ caller = "returned" => \A w \in Worker : worker[w].pc = "exited"

\* An item goes to one worker, and a worker that ended while the channel was
\* open took one.
TakenInv ==
  /\ \A w \in Worker : worker[w].item < next
  /\ \A v, w \in Worker : worker[v].item = worker[w].item =>
       v = w \/ worker[v].item = NoItem
  /\ \A w \in Worker : worker[w].pc = "exited" /\ caller \in {"check", "send"} =>
       worker[w].item # NoItem

\* What a worker holds is not done with, nor is what it ended with while the
\* channel was open: it ended because it found the context done.
DropInv ==
  /\ \A i \in handled : i < next
  /\ \A w \in Worker : worker[w].pc \in {"got", "busy"} => worker[w].item \notin handled
  /\ \A w \in Worker : worker[w].pc = "exited" /\ caller \in {"check", "send"} =>
       cancelled /\ worker[w].item \notin handled

PoolInv == PoolTypeInv /\ HandedInv /\ TakenInv /\ DropInv

LEMMA InitPool == PoolInit => PoolInv
<1> SUFFICES ASSUME PoolInit PROVE PoolInv
  OBVIOUS
<1>1. PoolTypeInv
  <2>1. next \in 1..N + 1
    BY PoolAssumption DEF PoolInit
  <2>2. worker \in [Worker -> [pc : {"receive", "got", "busy", "exited"},
                               item : Item \cup {NoItem}]]
    BY DEF PoolInit
  <2>3. QED
    BY <2>1, <2>2 DEF PoolInit, PoolTypeInv, PoolTypeOK
<1>2. HandedInv
  BY DEF PoolInit, HandedInv
<1>3. TakenInv
  BY DEF PoolInit, TakenInv, NoItem
<1>4. DropInv
  BY DEF PoolInit, DropInv
<1>5. QED
  BY <1>1, <1>2, <1>3, <1>4 DEF PoolInv

LEMMA StepPoolType ==
  ASSUME PoolTypeInv, [PoolNext]_poolVars
  PROVE  PoolTypeInv'
<1> USE PoolAssumption DEF PoolTypeInv, PoolTypeOK, WorkerGoto
<1>1. CASE Cancel
  BY <1>1 DEF Cancel
<1>2. CASE DispatchCheck
  BY <1>2 DEF DispatchCheck
<1>3. CASE Return
  BY <1>3 DEF Return
<1>4. ASSUME NEW w \in Worker, Send(w)
      PROVE  PoolTypeInv'
  <2>1. next \in Item /\ next' \in 1..N + 1
    BY <1>4 DEF Send, Item
  <2>2. QED
    BY <1>4, <2>1 DEF Send
<1>5. ASSUME NEW w \in Worker, WorkerStep(w)
      PROVE  PoolTypeInv'
  BY <1>5 DEF WorkerStep, WorkerCheck, WorkerFinish, WorkerExit
<1>6. CASE UNCHANGED poolVars
  BY <1>6 DEF poolVars
<1>7. QED
  BY <1>1, <1>2, <1>3, <1>4, <1>5, <1>6 DEF PoolNext

LEMMA StepHanded ==
  ASSUME PoolTypeInv, HandedInv, [PoolNext]_poolVars
  PROVE  HandedInv'
<1> USE PoolAssumption DEF PoolTypeInv, PoolTypeOK, HandedInv, WorkerGoto
<1>1. CASE Cancel
  BY <1>1 DEF Cancel
<1>2. CASE DispatchCheck
  BY <1>2 DEF DispatchCheck
<1>3. CASE Return
  BY <1>3 DEF Return
<1>4. ASSUME NEW w \in Worker, Send(w), ~cancelled
      PROVE  HandedInv'
  <2>1. \A i \in 1..next - 1 :
          \/ i \in handled'
          \/ \E v \in Worker : worker'[v].pc \in {"got", "busy"} /\ worker'[v].item = i
    BY <1>4 DEF Send
  <2>2. worker'[w].pc = "got" /\ worker'[w].item = next
    BY <1>4 DEF Send
  <2>3. \A i \in 1..next' - 1 : i \in 1..next - 1 \/ i = next
    BY <1>4 DEF Send
  <2>4. caller' = "check"
    BY <1>4 DEF Send
  <2>5. QED
    BY <2>1, <2>2, <2>3, <2>4
<1>5. ASSUME NEW w \in Worker, WorkerCheck(w), ~cancelled
      PROVE  HandedInv'
  <2>1. \A v \in Worker : worker[v].pc \in {"got", "busy"} =>
          worker'[v].pc \in {"got", "busy"} /\ worker'[v].item = worker[v].item
    BY <1>5 DEF WorkerCheck
  <2>2. UNCHANGED <<cancelled, next, caller, handled>> /\ caller # "returned"
    BY <1>5 DEF WorkerCheck
  <2>3. QED
    BY <2>1, <2>2
<1>6. ASSUME NEW w \in Worker, WorkerFinish(w), ~cancelled
      PROVE  HandedInv'
  <2>1. \A v \in Worker : v # w => worker'[v] = worker[v]
    BY <1>6 DEF WorkerFinish
  <2>2. handled' = handled \cup {worker[w].item}
    BY <1>6 DEF WorkerFinish
  <2>3. UNCHANGED <<cancelled, next, caller>> /\ caller # "returned"
    BY <1>6 DEF WorkerFinish
  <2>4. QED
    BY <1>6, <2>1, <2>2, <2>3
<1>7. ASSUME NEW w \in Worker, WorkerExit(w), ~cancelled
      PROVE  HandedInv'
  <2>1. \A v \in Worker : worker[v].pc \in {"got", "busy"} => worker'[v] = worker[v]
    BY <1>7 DEF WorkerExit
  <2>2. UNCHANGED <<cancelled, next, caller, handled>> /\ caller = "wait"
    BY <1>7 DEF WorkerExit
  <2>3. QED
    BY <2>1, <2>2
<1>8. CASE UNCHANGED poolVars
  BY <1>8 DEF poolVars
<1>9. CASE cancelled
  <2>1. cancelled'
    BY <1>9 DEF PoolNext, poolVars, Cancel, DispatchCheck, Return, Send, WorkerStep,
                WorkerCheck, WorkerFinish, WorkerExit
  <2>2. QED
    BY <2>1
<1>10. QED
  BY <1>1, <1>2, <1>3, <1>4, <1>5, <1>6, <1>7, <1>8, <1>9 DEF PoolNext, WorkerStep

LEMMA StepTaken ==
  ASSUME PoolTypeInv, TakenInv, [PoolNext]_poolVars
  PROVE  TakenInv'
<1> USE PoolAssumption DEF PoolTypeInv, PoolTypeOK, TakenInv, WorkerGoto
<1>1. CASE Cancel
  BY <1>1 DEF Cancel
<1>2. CASE DispatchCheck
  BY <1>2 DEF DispatchCheck
<1>3. CASE Return
  BY <1>3 DEF Return
<1>4. ASSUME NEW w \in Worker, Send(w)
      PROVE  TakenInv'
  <2>1. \A v \in Worker : v # w => worker'[v] = worker[v]
    BY <1>4 DEF Send
  <2>2. worker'[w] = [pc |-> "got", item |-> next] /\ next' = next + 1
    BY <1>4 DEF Send
  <2>3. next \in Nat /\ next # NoItem /\ \A v \in Worker : worker[v].item \in Nat
    BY DEF Item, NoItem
  <2>4. caller' = "check" /\ worker[w].pc = "receive"
    BY <1>4 DEF Send
  <2>5. \A v \in Worker : worker'[v].item < next'
    BY <2>1, <2>2, <2>3
  <2>6. \A v, x \in Worker : worker'[v].item = worker'[x].item =>
          v = x \/ worker'[v].item = NoItem
    <3>1. \A v \in Worker : v # w => worker'[v].item # worker'[w].item
      BY <2>1, <2>2, <2>3
    <3>2. QED
      BY <2>1, <3>1
  <2>7. \A v \in Worker : worker'[v].pc = "exited" => worker'[v].item # NoItem
    <3>1. caller = "send"
      BY <1>4 DEF Send
    <3>2. QED
      BY <2>1, <2>2, <3>1
  <2>8. QED
    BY <2>5, <2>6, <2>7
<1>5. ASSUME NEW w \in Worker, WorkerStep(w)
      PROVE  TakenInv'
  <2>1. \A v \in Worker : /\ worker'[v].item = worker[v].item
                          /\ v # w => worker'[v].pc = worker[v].pc
    BY <1>5 DEF WorkerStep, WorkerCheck, WorkerFinish, WorkerExit
  <2>2. UNCHANGED <<next, caller>>
    BY <1>5 DEF WorkerStep, WorkerCheck, WorkerFinish, WorkerExit
  <2>3. worker'[w].pc = "exited" /\ caller \in {"check", "send"} =>
          worker[w].item \in Item
    BY <1>5 DEF WorkerStep, WorkerCheck, WorkerFinish, WorkerExit
  <2>4. QED
    BY <2>1, <2>2, <2>3 DEF Item, NoItem
<1>6. CASE UNCHANGED poolVars
  BY <1>6 DEF poolVars
<1>7. QED
  BY <1>1, <1>2, <1>3, <1>4, <1>5, <1>6 DEF PoolNext

LEMMA StepDrop ==
  ASSUME PoolTypeInv, TakenInv, DropInv, [PoolNext]_poolVars
  PROVE  DropInv'
<1> USE PoolAssumption DEF PoolTypeInv, PoolTypeOK, DropInv, WorkerGoto
<1>0. next \in Nat /\ \A w \in Worker : worker[w].item \in Nat
  BY DEF Item, NoItem
<1>1. CASE Cancel
  BY <1>1 DEF Cancel
<1>2. CASE DispatchCheck
  BY <1>2 DEF DispatchCheck
<1>3. CASE Return
  BY <1>3 DEF Return
<1>4. ASSUME NEW w \in Worker, Send(w)
      PROVE  DropInv'
  <2>1. \A v \in Worker : v # w => worker'[v] = worker[v]
    BY <1>4 DEF Send
  <2>2. worker'[w] = [pc |-> "got", item |-> next] /\ next' = next + 1
    BY <1>4 DEF Send
  <2>3. UNCHANGED <<cancelled, handled>> /\ caller = "send"
    BY <1>4 DEF Send
  <2>4. next \notin handled /\ \A i \in handled : i < next'
    BY <1>0, <2>2, <2>3 DEF Item
  <2>5. QED
    BY <2>1, <2>2, <2>3, <2>4
<1>5. ASSUME NEW w \in Worker, WorkerCheck(w)
      PROVE  DropInv'
  BY <1>5 DEF WorkerCheck
<1>6. ASSUME NEW w \in Worker, WorkerFinish(w)
      PROVE  DropInv'
  <2>1. \A v \in Worker : v # w => worker'[v] = worker[v]
    BY <1>6 DEF WorkerFinish
  <2>2. worker'[w].pc = "receive" /\ worker[w].item \in Item /\ worker[w].item # NoItem
    BY <1>6 DEF WorkerFinish, Item, NoItem
  <2>3. handled' = handled \cup {worker[w].item} /\ UNCHANGED <<cancelled, next, caller>>
    BY <1>6 DEF WorkerFinish
  <2>4. \A v \in Worker : v # w => worker[v].item # worker[w].item
    BY <2>2 DEF TakenInv
  <2>5. worker[w].item < next
    BY DEF TakenInv
  <2>6. QED
    BY <2>1, <2>2, <2>3, <2>4, <2>5
<1>7. ASSUME NEW w \in Worker, WorkerExit(w)
      PROVE  DropInv'
  BY <1>7 DEF WorkerExit
<1>8. CASE UNCHANGED poolVars
  BY <1>8 DEF poolVars
<1>9. QED
  BY <1>1, <1>2, <1>3, <1>4, <1>5, <1>6, <1>7, <1>8 DEF PoolNext, WorkerStep

LEMMA PoolInvariance == PoolSpec => []PoolInv
<1>1. PoolInv /\ [PoolNext]_poolVars => PoolInv'
  BY StepPoolType, StepHanded, StepTaken, StepDrop DEF PoolInv
<1>2. QED
  BY <1>1, InitPool, PTL DEF PoolSpec

\* Every reachable state of the pool is well typed.
THEOREM PoolTypeCorrect == PoolSpec => []PoolTypeOK
<1>1. PoolInv => PoolTypeOK
  BY DEF PoolInv, PoolTypeInv
<1>2. QED
  BY <1>1, PoolInvariance, PTL

\* A pool that returns without having been cancelled has lost no item.
THEOREM PoolHandlesAll == PoolSpec => []AllHandled
<1>1. PoolInv => AllHandled
  <2> SUFFICES ASSUME PoolInv, caller = "returned", ~cancelled
               PROVE  Item \subseteq handled /\ handled \subseteq Item
    BY DEF AllHandled
  <2>1. next - 1 = N
    BY PoolAssumption DEF PoolInv, PoolTypeInv, PoolTypeOK, HandedInv
  <2>2. \A w \in Worker : worker[w].pc \notin {"got", "busy"}
    BY DEF PoolInv, HandedInv
  <2>3. QED
    BY <2>1, <2>2 DEF PoolInv, PoolTypeInv, PoolTypeOK, HandedInv, Item
<1>2. QED
  BY <1>1, PoolInvariance, PTL

\* The dispatcher of a pool is stranded only by a cancel, after which every worker
\* dropped an item of its own, for every number of workers and items.
THEOREM OnlyDropsStrand == PoolSpec => []StrandedByDrops
<1>1. PoolInv => StrandedByDrops
  <2> SUFFICES ASSUME PoolInv, Stranded
               PROVE  /\ cancelled
                      /\ \A w \in Worker :
                           worker[w].item \in 1..next - 1 /\ worker[w].item \notin handled
                      /\ \A v, w \in Worker : v # w => worker[v].item # worker[w].item
    BY DEF StrandedByDrops
  <2>1. caller = "send" /\ \A w \in Worker : worker[w].pc = "exited"
    BY DEF Stranded
  <2>2. Worker # {}
    BY <2>1, PoolAssumption DEF PoolInv, PoolTypeInv, PoolTypeOK
  <2>3. \A w \in Worker : cancelled /\ worker[w].item \notin handled /\ worker[w].item # NoItem
    BY <2>1 DEF PoolInv, DropInv, TakenInv
  <2>4. \A w \in Worker : worker[w].item \in Item /\ worker[w].item < next
    BY <2>3 DEF PoolInv, PoolTypeInv, PoolTypeOK, TakenInv
  <2>5. next \in Nat /\ N \in Nat
    BY PoolAssumption DEF PoolInv, PoolTypeInv, PoolTypeOK
  <2>6. \A w \in Worker : worker[w].item \in 1..next - 1
    BY <2>4, <2>5 DEF Item
  <2>7. \A v, w \in Worker : v # w => worker[v].item # worker[w].item
    BY <2>3 DEF PoolInv, TakenInv
  <2>8. QED
    BY <2>2, <2>3, <2>6, <2>7
<1>2. QED
  BY <1>1, PoolInvariance, PTL

-----------------------------------------------------------------------------
\* What Trigger does to one recipe (BuildTrigger).

USE DEF callVars, histVars, Goto, End, BuildTypeOK, Record, At, Absent

Pcs == {"new", "get", "list", "create", "request", "retry", "records", "done"}

TypeInv ==
  /\ BuildTypeOK
  /\ requests \in Nat
  /\ pc \in [Call -> Pcs]
  /\ outcome \in [Call -> {"none", "ok", "error"}]

Built == requests > 0 \/ Present(build) # {}

\* Builds belong to a recipe that exists, a recipe never goes away, and the calls
\* that are past its creation know it exists.
RecipeInv ==
  /\ Built => exists
  /\ \A c \in Call :
       /\ pc[c] \in {"list", "request", "retry", "records"} => exists
       /\ pc[c] = "retry" => Built
       /\ outcome[c] = "ok" => exists /\ Built
       /\ pc[c] = "records" => Built

\* Only a failed build is ever queued for a retry, and no absent one is.
QueuedInv ==
  \A b \in Build :
    /\ build[b].queued => build[b].state \in Failure
    /\ build[b].state = "absent" => build[b] = Absent

\* Builds that finished for good: nothing moves them any more.
AllSettled == \A b \in Present(build) : build[b].state \in {"Succeeded", "Superseded"}

\* As long as no call is blind, calls do not overlap, a request is processed
\* before the call that made it goes on, and a call requests builds only when it
\* saw none or only settled ones.
SightInv ==
  ~blind =>
    /\ \A c, d \in Call : ~Idle(c) /\ ~Idle(d) => c = d
    /\ requests > 0 => \E c \in Call : pc[c] = "records"
    /\ \A c \in Call : pc[c] = "request" => AllSettled
    /\ ~duplicate

IInv == TypeInv /\ RecipeInv /\ QueuedInv /\ SightInv

LEMMA FailureStates == Failure \subseteq Terminal /\ Terminal \subseteq States
BY DEF Failure, Terminal, States

LEMMA MovesInStates ==
  \A s \in States \cup {"absent"} :
    Moves[s] \subseteq States /\ (Moves[s] # {} => s \in States \ Terminal)
BY DEF Moves, States, Terminal

LEMMA InitIInv == Init => IInv
<1> SUFFICES ASSUME Init PROVE IInv
  OBVIOUS
<1>1. TypeInv
  BY DEF Init, TypeInv, Pcs
<1>2. Present(build) = {}
  BY DEF Init, Present
<1>3. RecipeInv
  <2>1. ~Built
    <3>1. requests = 0
      BY DEF Init
    <3>2. QED
      BY <1>2, <3>1 DEF Built
  <2>2. \A c \in Call : pc[c] = "new" /\ outcome[c] = "none"
    BY DEF Init
  <2>3. QED
    BY <2>1, <2>2 DEF RecipeInv
<1>4. QueuedInv
  BY DEF Init, QueuedInv
<1>5. SightInv
  BY DEF Init, SightInv, Idle
<1>6. QED
  BY <1>1, <1>3, <1>4, <1>5 DEF IInv

-----------------------------------------------------------------------------
(***************************************************************************)
(* Launchpad's steps.                                                      *)
(***************************************************************************)

\* Launchpad moves no build that is settled, and removes none.
LEMMA LaunchpadMoves ==
  ASSUME IInv, LaunchpadStep
  PROVE  /\ BuildTypeOK' /\ QueuedInv'
         /\ Present(build)' = Present(build)
         /\ AllSettled => AllSettled'
<1> USE DEF IInv, TypeInv, QueuedInv, Present, AllSettled
<1>1. ASSUME NEW b \in Build, Advance(b)
      PROVE  /\ BuildTypeOK' /\ QueuedInv'
             /\ Present(build)' = Present(build)
             /\ AllSettled => AllSettled'
  <2>1. PICK s \in Moves[build[b].state], retry \in BOOLEAN :
          build' = [build EXCEPT ![b] = [At(s) EXCEPT !.canRetry = retry]]
    BY <1>1 DEF Advance
  <2>2. s \in States /\ build[b].state \in States \ Terminal
    BY <2>1, MovesInStates
  <2>3. "absent" \notin States /\ {"Succeeded", "Superseded"} \subseteq Terminal
    BY DEF States, Terminal
  <2>4. BuildTypeOK' /\ QueuedInv'
    BY <2>1, <2>2, <2>3
  <2>5. /\ build[b].state # "absent" /\ build'[b].state # "absent"
        /\ \A c \in Build : c # b => build'[c] = build[c]
    BY <2>1, <2>2, <2>3
  <2>6. Present(build)' = Present(build)
    BY <2>5
  <2>7. ~AllSettled
    BY <2>2, <2>3, <2>5
  <2>8. QED
    BY <2>4, <2>6, <2>7
<1>2. ASSUME NEW b \in Build, Requeue(b)
      PROVE  /\ BuildTypeOK' /\ QueuedInv'
             /\ Present(build)' = Present(build)
             /\ AllSettled => AllSettled'
  <2>1. build[b].queued /\ build' = [build EXCEPT ![b] = At("Pending")]
    BY <1>2 DEF Requeue
  <2>2. build[b].state \in {"Failed", "Cancelled"}
    BY <2>1 DEF Failure
  <2>3. BuildTypeOK' /\ QueuedInv'
    BY <2>1 DEF States
  <2>4. QED
    BY <2>1, <2>2, <2>3
<1>3. QED
  BY <1>1, <1>2 DEF LaunchpadStep

LEMMA LaunchpadIInv ==
  ASSUME IInv, Launchpad
  PROVE  IInv'
<1>1. LaunchpadStep /\ UNCHANGED <<exists, requests, callVars, histVars>>
  BY DEF Launchpad
<1>2. /\ BuildTypeOK' /\ QueuedInv'
      /\ Present(build)' = Present(build)
      /\ AllSettled => AllSettled'
  BY <1>1, LaunchpadMoves
<1>3. TypeInv'
  BY <1>1, <1>2 DEF IInv, TypeInv
<1>4. RecipeInv'
  BY <1>1, <1>2 DEF IInv, RecipeInv, Built
<1>5. SightInv'
  BY <1>1, <1>2 DEF IInv, SightInv, Idle
<1>6. QED
  BY <1>2, <1>3, <1>4, <1>5 DEF IInv

LEMMA ProcessIInv ==
  ASSUME IInv, Process
  PROVE  IInv'
<1>1. PICK b \in Build \ Present(build) : build' = [build EXCEPT ![b] = At("Pending")]
  BY DEF Process
<1>2. /\ requests > 0 /\ requests' = requests - 1
      /\ UNCHANGED <<exists, callVars, histVars>>
  BY DEF Process
<1>3. Present(build)' = Present(build) \cup {b}
  BY <1>1 DEF IInv, TypeInv, Present
<1>4. TypeInv' /\ QueuedInv'
  BY <1>1, <1>2 DEF IInv, TypeInv, QueuedInv, States
<1>5. RecipeInv'
  BY <1>2, <1>3 DEF IInv, RecipeInv, Built
<1>6. SightInv'
  <2>1. ~blind => \A c \in Call : pc[c] # "request"
    BY <1>2 DEF IInv, SightInv, Idle
  <2>2. QED
    BY <1>2, <2>1 DEF IInv, SightInv, Idle, TypeInv
<1>7. QED
  BY <1>4, <1>5, <1>6 DEF IInv

-----------------------------------------------------------------------------
(***************************************************************************)
(* The steps of a call.                                                    *)
(***************************************************************************)

\* What Assess makes of the builds it sees.
LEMMA AssessSees ==
  /\ Assess(build) \in {"request", "download", "monitor", "retry"}
  /\ Assess(build) # "request" => Present(build) # {}
  /\ BuildTypeOK /\ QueuedInv /\ Assess(build) = "request" => AllSettled
<1> DEFINE Seen(S) == \E b \in Present(build) : build[b].state \in S
<1>1. CASE Present(build) = {}
  BY <1>1 DEF Assess, AllSettled
<1>2. CASE Present(build) # {}
  <2>1. Assess(build) \in {"request", "download", "monitor", "retry"}
    BY DEF Assess
  <2>2. Assess(build) = "request" => ~Seen(States \ Terminal) /\ ~Seen(Failure)
    BY <1>2 DEF Assess
  <2>3. BuildTypeOK /\ QueuedInv => \A b \in Present(build) : build[b].state \in States
    BY DEF Present, States, QueuedInv
  <2>4. QED
    BY <1>2, <2>1, <2>2, <2>3 DEF AllSettled, States, Terminal, Failure
<1>3. QED
  BY <1>1, <1>2

\* A call changes the builds only by having failed ones retried.
LEMMA StepBuilds ==
  ASSUME IInv, NEW c \in Call, Step(c)
  PROVE  /\ BuildTypeOK' /\ QueuedInv'
         /\ Present(build)' = Present(build)
         /\ ~RetryBuild(c) => build' = build
<1> USE DEF IInv, TypeInv
<1>1. CASE build' = build
  BY <1>1 DEF QueuedInv, Present
<1>2. CASE RetryBuild(c)
  <2>1. PICK b \in todo[c] : AcceptRetry(b) \/ UNCHANGED build
    BY <1>2 DEF RetryBuild
  <2>2. CASE AcceptRetry(b) /\ b \in Build
    <3>1. /\ build[b].state \in {"Failed", "Cancelled"}
          /\ build' = [build EXCEPT ![b].queued = TRUE]
      BY <2>2 DEF AcceptRetry, CanAccept, Failure
    <3>2. BuildTypeOK' /\ QueuedInv'
      BY <2>2, <3>1 DEF QueuedInv, Failure
    <3>3. Present(build)' = Present(build)
      BY <2>2, <3>1 DEF Present
    <3>4. QED
      BY <1>2, <3>2, <3>3
  <2>3. CASE b \notin Build
    <3>1. build' = build
      BY <2>1, <2>3 DEF AcceptRetry
    <3>2. QED
      BY <1>1, <3>1
  <2>4. QED
    BY <1>1, <2>1, <2>2, <2>3
<1>3. CASE ~RetryBuild(c)
  <2>1. build' = build
    BY <1>3 DEF Step, Begin, GetRecipe, ListBuilds, ListFails, CreateRecipe,
         RequestBuilds, RequestFails, RetriesDone, RecordsAppear, RecordsGivenUp
  <2>2. QED
    BY <1>1, <2>1
<1>4. QED
  BY <1>2, <1>3

LEMMA StepType ==
  ASSUME IInv, NEW c \in Call, Step(c)
  PROVE  TypeInv'
<1> USE DEF IInv, TypeInv, Pcs
<1>0. BuildTypeOK'
  BY StepBuilds
<1>1. CASE Begin(c) \/ GetRecipe(c)
  BY <1>0, <1>1 DEF Begin, GetRecipe
<1>2. CASE ListBuilds(c) \/ ListFails(c)
  BY <1>0, <1>2 DEF ListBuilds, ListFails
<1>3. CASE CreateRecipe(c)
  BY <1>0, <1>3 DEF CreateRecipe
<1>4. CASE RequestBuilds(c)
  BY <1>0, <1>4 DEF RequestBuilds
<1>5. CASE RequestFails(c)
  BY <1>0, <1>5 DEF RequestFails
<1>6. CASE RetryBuild(c)
  BY <1>0, <1>6 DEF RetryBuild
<1>7. CASE RetriesDone(c) \/ RecordsAppear(c) \/ RecordsGivenUp(c)
  BY <1>0, <1>7 DEF RetriesDone, RecordsAppear, RecordsGivenUp
<1>8. QED
  BY <1>1, <1>2, <1>3, <1>4, <1>5, <1>6, <1>7 DEF Step

LEMMA StepRecipe ==
  ASSUME IInv, NEW c \in Call, Step(c)
  PROVE  RecipeInv'
<1> USE DEF IInv, RecipeInv, Built
<1>0. Present(build)' = Present(build) /\ requests \in Nat /\ pc \in [Call -> Pcs]
      /\ outcome \in [Call -> {"none", "ok", "error"}]
  BY StepBuilds DEF TypeInv
<1>1. CASE Begin(c)
  BY <1>0, <1>1 DEF Begin
<1>2. CASE GetRecipe(c)
  BY <1>0, <1>2 DEF GetRecipe
<1>3. CASE ListBuilds(c)
  BY <1>0, <1>3, AssessSees DEF ListBuilds
<1>4. CASE ListFails(c)
  BY <1>0, <1>4 DEF ListFails
<1>5. CASE CreateRecipe(c)
  BY <1>0, <1>5 DEF CreateRecipe
<1>6. CASE RequestBuilds(c)
  BY <1>0, <1>6 DEF RequestBuilds
<1>7. CASE RequestFails(c)
  BY <1>0, <1>7 DEF RequestFails
<1>8. CASE RetryBuild(c)
  BY <1>0, <1>8 DEF RetryBuild
<1>9. CASE RetriesDone(c) \/ RecordsAppear(c) \/ RecordsGivenUp(c)
  BY <1>0, <1>9 DEF RetriesDone, RecordsAppear, RecordsGivenUp
<1>10. QED
  BY <1>1, <1>2, <1>3, <1>4, <1>5, <1>6, <1>7, <1>8, <1>9 DEF Step

LEMMA StepSight ==
  ASSUME IInv, NEW c \in Call, Step(c)
  PROVE  SightInv'
<1> SUFFICES ASSUME ~blind' PROVE SightInv'
  BY DEF SightInv
<1> USE DEF IInv, SightInv, Idle
<1>0. Present(build)' = Present(build) /\ requests \in Nat /\ pc \in [Call -> Pcs]
  BY StepBuilds DEF TypeInv
<1>1. CASE Begin(c)
  BY <1>0, <1>1, StepBuilds DEF Begin, AllSettled
<1>2. CASE GetRecipe(c)
  BY <1>0, <1>2, StepBuilds DEF GetRecipe, AllSettled
<1>3. CASE ListBuilds(c)
  BY <1>0, <1>3, AssessSees, StepBuilds DEF ListBuilds, AllSettled, TypeInv
<1>4. CASE ListFails(c)
  BY <1>0, <1>4 DEF ListFails
<1>5. CASE CreateRecipe(c)
  BY <1>0, <1>5 DEF CreateRecipe, AllSettled, RecipeInv, Built
<1>6. CASE RequestBuilds(c)
  BY <1>0, <1>6 DEF RequestBuilds, AllSettled, Unfinished, Terminal, Present
<1>7. CASE RequestFails(c)
  BY <1>0, <1>7 DEF RequestFails, AllSettled
<1>8. CASE RetryBuild(c)
  BY <1>0, <1>8 DEF RetryBuild, AllSettled
<1>9. CASE RetriesDone(c)
  BY <1>0, <1>9 DEF RetriesDone, AllSettled
<1>10. CASE RecordsAppear(c)
  BY <1>0, <1>10 DEF RecordsAppear, AllSettled
<1>11. CASE RecordsGivenUp(c)
  BY <1>11 DEF RecordsGivenUp
<1>12. QED
  BY <1>1, <1>2, <1>3, <1>4, <1>5, <1>6, <1>7, <1>8, <1>9, <1>10, <1>11 DEF Step

LEMMA NextIInv == IInv /\ [Next]_vars => IInv'
<1> SUFFICES ASSUME IInv, [Next]_vars PROVE IInv'
  OBVIOUS
<1>1. CASE UNCHANGED vars
  BY <1>1 DEF vars, IInv, TypeInv, RecipeInv, QueuedInv, SightInv, Built,
              AllSettled, Present, Idle
<1>2. ASSUME NEW c \in Call, Step(c) PROVE IInv'
  BY <1>2, StepBuilds, StepType, StepRecipe, StepSight DEF IInv
<1>3. QED
  BY <1>1, <1>2, ProcessIInv, LaunchpadIInv DEF Next

-----------------------------------------------------------------------------
(***************************************************************************)
(* Type correctness: the bounded counters and the flags, which the proofs  *)
(* above do not need.                                                      *)
(***************************************************************************)
Counters ==
  /\ todo \in [Call -> SUBSET Build]
  /\ errors \in 0..MaxErrors /\ calls \in 0..MaxCalls

Flags == exists \in BOOLEAN /\ blind \in BOOLEAN /\ duplicate \in BOOLEAN

LEMMA CountersStay == Counters /\ [Next]_vars => Counters'
<1> SUFFICES ASSUME Counters, [Next]_vars PROVE Counters'
  OBVIOUS
<1> USE TriggerAssumption DEF TriggerAssumption, Counters, Error
<1>1. CASE \E c \in Call : Begin(c)
  BY <1>1 DEF Begin
<1>2. CASE \E c \in Call : GetRecipe(c) \/ ListFails(c) \/ CreateRecipe(c) \/ RequestFails(c)
  BY <1>2 DEF GetRecipe, ListFails, CreateRecipe, RequestFails
<1>3. CASE \E c \in Call : ListBuilds(c) \/ RecordsGivenUp(c)
  BY <1>3 DEF ListBuilds, RecordsGivenUp
<1>4. CASE \E c \in Call : RetryBuild(c)
  BY <1>4 DEF RetryBuild
<1>5. CASE UNCHANGED <<todo, errors, calls>>
  BY <1>5
<1>6. QED
  BY <1>1, <1>2, <1>3, <1>4, <1>5
     DEF Next, Step, Process, Launchpad, RequestBuilds, RetriesDone, RecordsAppear, vars

LEMMA FlagsStay == Flags /\ [Next]_vars => Flags'
<1> SUFFICES ASSUME Flags, [Next]_vars PROVE Flags'
  OBVIOUS
<1>1. ASSUME NEW c \in Call, Step(c) PROVE Flags'
  BY <1>1, Zenon
  DEF Flags, Step, Begin, GetRecipe, ListBuilds, ListFails, CreateRecipe, RequestBuilds,
      RequestFails, RetryBuild, RetriesDone, RecordsAppear, RecordsGivenUp
<1>2. CASE Process \/ Launchpad \/ UNCHANGED vars
  BY <1>2, Zenon DEF Flags, Process, Launchpad, vars
<1>3. QED
  BY <1>1, <1>2 DEF Next

\* The recipe, its builds and the calls have their types, for every number of calls
\* and of errors.
THEOREM TypeCorrect == Spec => []TypeOK
<1>1. Init => Counters
  BY TriggerAssumption DEF Init, Counters, TriggerAssumption
<1>2. Init => Flags
  BY Zenon DEF Init, Flags
<1>3. IInv /\ Counters /\ Flags => TypeOK
  BY Zenon DEF IInv, TypeInv, Pcs, Counters, Flags, TypeOK
<1>4. QED
  BY <1>1, <1>2, <1>3, InitIInv, NextIInv, CountersStay, FlagsStay, PTL DEF Spec

\* A call that reports no error leaves a recipe that has builds or an accepted
\* request for them, for every number of overlapping calls and of errors.
THEOREM CallsAreEffective == Spec => []EffectiveCall
<1>1. IInv => EffectiveCall
  BY DEF IInv, RecipeInv, Built, EffectiveCall
<1>2. QED
  BY <1>1, InitIInv, NextIInv, PTL DEF Spec

\* Builds are never requested twice by calls that follow each other, see no
\* error and wait for the builds they requested, whatever Launchpad does.
THEOREM DuplicatesAreCaused == Spec => []DuplicateHasCause
<1>1. IInv => DuplicateHasCause
  BY DEF IInv, SightInv, DuplicateHasCause
<1>2. QED
  BY <1>1, InitIInv, NextIInv, PTL DEF Spec
=============================================================================
