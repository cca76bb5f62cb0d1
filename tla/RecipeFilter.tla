---------------------------- MODULE RecipeFilter ----------------------------
(***************************************************************************)
(* How Trigger of the build service                                        *)
(* (internal/core/service/build/service.go) makes the list of the recipes  *)
(* it acts on when the caller names none.  It drops skip_artifacts from    *)
(* the project's artifacts in place: the array is the one of the loaded    *)
(* configuration (internal/app/build_factories.go hands it on unchanged),  *)
(* so every call leaves its marks for the next one.  X_Bug is a faulty     *)
(* variant of X.                                                           *)
(***************************************************************************)
EXTENDS Naturals, FiniteSets, Sequences, SequencesExt

CONSTANTS
  Artifact,  \* configured artifacts
  Caller,    \* callers of Trigger; each makes its calls one after the other
  MaxBegun   \* bound: calls in all

ASSUME FilterAssumption ==
  MaxBegun \in Nat /\ IsFiniteSet(Artifact) /\ Artifact # {}

VARIABLES
  configured,  \* history: the artifacts as they were configured
  skipped,     \* skip_artifacts
  artifacts,   \* the array of the configuration's artifacts
  stage,       \* where each caller is
  read,        \* elements of the list it has ranged over
  kept,        \* len(filtered), then len(recipes)
  name,        \* the element it read last
  sent,        \* the recipes it handed to the workers
  begun,       \* history: calls begun
  overlapped   \* history: a call began while another was under way

filterHist == <<configured, skipped, begun, overlapped>>
filterVars == <<artifacts, stage, read, kept, name, sent, filterHist>>

FilterInit ==
  /\ configured \in SetToSeqs(Artifact)
  /\ skipped \in SUBSET Artifact
  /\ artifacts = configured
  /\ stage = [c \in Caller |-> "new"]
  /\ read = [c \in Caller |-> 0] /\ kept = [c \in Caller |-> 0]
  /\ name \in [Caller -> {Head(configured)}]
  /\ sent = [c \in Caller |-> <<>>]
  /\ begun = 0 /\ overlapped = FALSE

\* recipes = pb.Artifacts, and filtered = recipes[:0] when there are any skipped.
FilterBegin(c) ==
  /\ stage[c] \in {"new", "done"} /\ begun < MaxBegun
  /\ begun' = begun + 1
  /\ overlapped' = (overlapped \/ \E d \in Caller : stage[d] \notin {"new", "done"})
  /\ stage' = [stage EXCEPT ![c] = IF skipped = {} THEN "dispatch" ELSE "filter"]
  /\ read' = [read EXCEPT ![c] = 0]
  /\ kept' = [kept EXCEPT ![c] = IF skipped = {} THEN Len(artifacts) ELSE 0]
  /\ sent' = [sent EXCEPT ![c] = <<>>]
  /\ UNCHANGED <<configured, skipped, artifacts, name>>

FilterRead(c) ==
  /\ stage[c] = "filter" /\ read[c] < Len(artifacts)
  /\ name' = [name EXCEPT ![c] = artifacts[read[c] + 1]]
  /\ read' = [read EXCEPT ![c] = @ + 1]
  /\ stage' = [stage EXCEPT ![c] = IF name'[c] \in skipped THEN "filter" ELSE "write"]
  /\ UNCHANGED <<artifacts, kept, sent, filterHist>>

FilterWrite_BugSlot(c) ==
  /\ stage[c] = "write"
  /\ artifacts' = [artifacts EXCEPT ![read[c]] = name[c]]
  /\ kept' = [kept EXCEPT ![c] = @ + 1]
  /\ stage' = [stage EXCEPT ![c] = "filter"]
  /\ UNCHANGED <<read, name, sent, filterHist>>

\* append(filtered, name): there is room, so it writes into the shared array.
FilterWrite(c) ==
  /\ stage[c] = "write"
  /\ artifacts' = [artifacts EXCEPT ![kept[c] + 1] = name[c]]
  /\ kept' = [kept EXCEPT ![c] = @ + 1]
  /\ stage' = [stage EXCEPT ![c] = "filter"]
  /\ UNCHANGED <<read, name, sent, filterHist>>

FilterDone_Bug(c) ==
  /\ stage[c] = "filter" /\ read[c] = Len(artifacts)
  /\ stage' = [stage EXCEPT ![c] = "dispatch"]
  /\ read' = [read EXCEPT ![c] = 1]
  /\ UNCHANGED <<artifacts, kept, name, sent, filterHist>>

FilterDone(c) ==
  /\ stage[c] = "filter" /\ read[c] = Len(artifacts)
  /\ stage' = [stage EXCEPT ![c] = "dispatch"]
  /\ read' = [read EXCEPT ![c] = 0]
  /\ UNCHANGED <<artifacts, kept, name, sent, filterHist>>

\* The dispatch loop reads the shared array too.
Dispatch(c) ==
  /\ stage[c] = "dispatch" /\ read[c] < kept[c]
  /\ sent' = [sent EXCEPT ![c] = Append(@, artifacts[read[c] + 1])]
  /\ read' = [read EXCEPT ![c] = @ + 1]
  /\ UNCHANGED <<artifacts, stage, kept, name, filterHist>>

Finish(c) ==
  /\ stage[c] = "dispatch" /\ read[c] >= kept[c]
  /\ stage' = [stage EXCEPT ![c] = "done"]
  /\ UNCHANGED <<artifacts, read, kept, name, sent, filterHist>>

FilterStep(c) ==
  \/ FilterBegin(c) \/ FilterRead(c) \/ FilterWrite(c) \/ FilterDone(c)
  \/ Dispatch(c) \/ Finish(c)

FilterNext == \E c \in Caller : FilterStep(c)

FilterSpec == FilterInit /\ [][FilterNext]_filterVars

-----------------------------------------------------------------------------
FilterTypeOK ==
  /\ configured \in Seq(Artifact) /\ Len(artifacts) = Len(configured)
  /\ skipped \in SUBSET Artifact
  /\ artifacts \in Seq(Artifact)
  /\ stage \in [Caller -> {"new", "filter", "write", "dispatch", "done"}]
  /\ read \in [Caller -> 0..Len(configured)]
  /\ kept \in [Caller -> 0..Len(configured)]
  /\ name \in [Caller -> Artifact]
  /\ \A c \in Caller : sent[c] \in Seq(Artifact)
  /\ begun \in 0..MaxBegun /\ overlapped \in BOOLEAN

\* No call acts on a skipped artifact, whatever earlier calls left in the array
\* and whatever concurrent calls write to it.
OnlyWanted == \A c \in Caller : Range(sent[c]) \cap skipped = {}

\* The place of a wanted artifact among the wanted ones.
Rank(i) == Cardinality({j \in 1..i : configured[j] \notin skipped})

\* Calls that do not overlap act on every artifact that is not skipped, in the
\* configured order, before anything else, however often the array was filtered.
WantedFirst ==
  ~overlapped =>
    \A c \in Caller : stage[c] = "done" =>
      \A i \in 1..Len(configured) :
        configured[i] \notin skipped =>
          Rank(i) <= Len(sent[c]) /\ sent[c][Rank(i)] = configured[i]

\* Trigger is "re-entrant: calling it multiple times for the same recipes picks
\* up where it left off" (service.go:161): no call acts on a recipe twice.  The
\* code does not keep this: the first filter leaves a repeated name in the array.
OncePerCall == \A c \in Caller : IsInjective(sent[c])
=============================================================================
