--------------------------- MODULE JobPartsProofs ---------------------------
(***************************************************************************)
(* Invariants of the parts of a classroom job: the handlers of its segments *)
(* (ClassroomStages) and the registries it starts from (ModelInstall,        *)
(* BatchImports, Profiles).  Each part has its invariant, a lemma that it     *)
(* holds at the start, one that a step keeps it, and one that it implies      *)
(* what the run checks.  ClassroomProofs puts them together.  Then what       *)
(* operators of the pure stages compute, for inputs of every size.            *)
(***************************************************************************)
EXTENDS ClassroomStages, ModelInstall, BatchImports, Profiles,
        FiniteSetTheorems, SequenceTheorems, WellFoundedInduction, TLAPS

-----------------------------------------------------------------------------
(* The handlers of a segment.                                               *)

ReviewKey == IF Strict THEN 2 ELSE 4   \* of "quality_and_review"

\* What is left of the segment from its k-th checkpoint on.
LeftFrom(k) == {SegmentStages[i] : i \in k..Len(SegmentStages)}

CandidateRow(c) ==
    c = [role |-> c.role, model |-> c.model, revision |-> c.revision, of |-> c.of,
         route |-> c.route, bad |-> c.bad, conflict |-> c.conflict]
RowsOf(them) == /\ them \in Seq({them[i] : i \in DOMAIN them})
                /\ \A i \in DOMAIN them : CandidateRow(them[i])
HasPrimary == \E i \in DOMAIN candidates : candidates[i].role = "primary"

\* The completed checkpoints of the segment are a prefix, and the one that is being
\* worked on comes next.
Proceeds(k) ==
    /\ k \in 1..Len(SegmentStages) + 1 /\ todo = LeftFrom(k)
    /\ \/ running = "none"
       \/ global < 6 /\ running = GlobalStages[global + 1]
       \/ global = 6 /\ k <= Len(SegmentStages) /\ running = SegmentStages[k]
    /\ global < 6 => k = Len(SegmentStages) + 1 /\ adopted = {}
    /\ global = 6 /\ k > 1 => HasPrimary
    /\ global = 6 /\ k > ReviewKey + 2 => layers.smart = "punctuated"

AnswersCount ==
    \A e \in Entries : /\ asked[e] <= MaxLosses - stageBudget.losses + (IF e \in answered THEN 1 ELSE 0)
                       /\ e \in answered => asked[e] > 0
                       /\ e[2] > models.revision => asked[e] = 0

LayersTyped ==
    layers \in [faithful : {"", "consensus", "punctuated"},
               smart : {"", "consensus", "terms", "punctuated"}, user : {"none", "", "typed"}]

Typed ==
    /\ options \in Jobs
    /\ StagesTypeOK /\ RowsOf(candidates)
    /\ asked \in [Entries -> Nat]
    /\ \A m \in {"moss", "pyannote"} : attempts[m] \in Seq(Outcomes)
    /\ attempts = [m \in {"moss", "pyannote"} |-> attempts[m]]
StagesInv == Typed /\ AnswersCount /\ OnePrimary /\ \E k \in Nat : Proceeds(k)

LEMMA StageOrder ==
    ASSUME options \in Jobs
    PROVE  /\ Len(SegmentStages) = ReviewKey + 4 /\ ReviewKey \in {2, 4}
           /\ SegmentStages = [i \in 1..Len(SegmentStages) |-> SegmentStages[i]]
           /\ \A i, j \in 1..Len(SegmentStages) : SegmentStages[i] = SegmentStages[j] => i = j
           /\ SegmentStages[1] = "primary_asr"
           /\ SegmentStages[ReviewKey] = "quality_and_review"
           /\ SegmentStages[ReviewKey + 1] = "terminology"
           /\ SegmentStages[ReviewKey + 2] = "punctuation"
           /\ SegmentStages[ReviewKey + 3] = "forced_alignment"
           /\ SegmentStages[ReviewKey + 4] = "final_validation"
           /\ ReviewKey = 4 => SegmentStages[2] = "quality_secondary" /\ SegmentStages[3] = "quality_tertiary"
<1>1. CASE Strict
  BY <1>1 DEF SegmentStages, ReviewKey
<1>2. CASE ~Strict
  BY <1>2 DEF SegmentStages, ReviewKey
<1> QED
  BY <1>1, <1>2

LEMMA GlobalOrder ==
    /\ Len(GlobalStages) = 6
    /\ GlobalStages[1] = "upload_validate" /\ GlobalStages[2] = "normalize_audio_master"
    /\ GlobalStages[3] = "audio_qc" /\ GlobalStages[4] = "vad" /\ GlobalStages[5] = "lid"
    /\ GlobalStages[6] = "moss_structure"
BY DEF GlobalStages

\* A checkpoint's key says where the segment stands.
LEMMA Standing ==
    ASSUME options \in Jobs, NEW k \in Nat, Proceeds(k), global \in 0..6
    PROVE  /\ running = "primary_asr" => k = 1 /\ global = 6
           /\ running = "quality_secondary" => k = 2 /\ global = 6 /\ ReviewKey = 4
           /\ running = "quality_tertiary" => k = 3 /\ global = 6 /\ ReviewKey = 4
           /\ running = "quality_and_review" => k = ReviewKey /\ global = 6
           /\ running = "terminology" => k = ReviewKey + 1 /\ global = 6
           /\ running = "punctuation" => k = ReviewKey + 2 /\ global = 6
           /\ running = "forced_alignment" => k = ReviewKey + 3 /\ global = 6
           /\ running = "final_validation" => k = ReviewKey + 4 /\ global = 6
<1>1. CASE global < 6
  BY <1>1, GlobalOrder DEF Proceeds
<1>2. CASE global = 6 /\ Strict
  BY <1>2, StageOrder DEF Proceeds, SegmentStages, ReviewKey
<1>3. CASE global = 6 /\ ~Strict
  BY <1>3, StageOrder DEF Proceeds, SegmentStages, ReviewKey
<1> QED
  BY <1>1, <1>2, <1>3

LEMMA LeftOver ==
    ASSUME options \in Jobs
    PROVE  /\ \A k \in Nat, i \in 1..Len(SegmentStages) : SegmentStages[i] \in LeftFrom(k) <=> i >= k
           /\ \A k \in 1..Len(SegmentStages) : LeftFrom(k) \ {SegmentStages[k]} = LeftFrom(k + 1)
           /\ LeftFrom(1) = RangeOf(SegmentStages)
           /\ LeftFrom(Len(SegmentStages) + 1) = {}
           /\ \A k \in 1..Len(SegmentStages) : LeftFrom(k) \subseteq RangeOf(SegmentStages)
<1>1. Len(SegmentStages) \in Nat
  BY StageOrder
<1>2. \A i, j \in 1..Len(SegmentStages) : SegmentStages[i] = SegmentStages[j] => i = j
  BY StageOrder
<1> QED
  BY <1>1, <1>2 DEF LeftFrom, RangeOf

LEMMA NextOfSegment ==
    ASSUME options \in Jobs, NEW k \in 1..Len(SegmentStages), todo = LeftFrom(k), global = 6
    PROVE  NextKey = SegmentStages[k]
<1>1. Len(SegmentStages) \in Nat /\ DOMAIN SegmentStages = 1..Len(SegmentStages)
  BY StageOrder
<1>2. SegmentStages[k] \in todo /\ \A j \in 1..(k - 1) : SegmentStages[j] \notin todo
  BY <1>1, LeftOver
<1>3. ASSUME NEW key \in todo, NEW i \in DOMAIN SegmentStages,
             SegmentStages[i] = key /\ \A j \in 1..(i - 1) : SegmentStages[j] \notin todo
      PROVE  key = SegmentStages[k]
  <2>1. i >= k
    BY <1>1, <1>3, LeftOver
  <2>2. CASE i > k
    <3>1. k \in 1..(i - 1)
      BY <1>1, <2>2
    <3> QED
      BY <3>1, <1>2, <1>3
  <2> QED
    BY <2>1, <2>2, <1>3, <1>1
<1>4. NextKey = CHOOSE key \in todo : \E i \in DOMAIN SegmentStages :
               SegmentStages[i] = key /\ \A j \in 1..(i - 1) : SegmentStages[j] \notin todo
  BY <1>2, GlobalOrder DEF NextKey
<1> QED
  BY <1>1, <1>2, <1>3, <1>4

LEMMA LastExists ==
    ASSUME NEW n \in Nat, NEW S \in SUBSET (1..n), S # {}
    PROVE  \E x \in S : \A y \in S : y <= x
<1> DEFINE R == {ss \in Nat \X Nat : ss[1] < ss[2]}
          T == {n - x : x \in S}
<1>1. IsWellFoundedOn(R, Nat)
  BY NatLessThanWellFounded DEF OpToRel
<1>2. T \in SUBSET Nat /\ T # {}
  <2>1. \A x \in S : n - x \in Nat
    OBVIOUS
  <2> QED
    BY <2>1
<1>3. ASSUME NEW x \in S, NEW y \in S, ~(<<n - y, n - x>> \in R)
      PROVE  y <= x
  <2>1. x < y => <<n - y, n - x>> \in R
    OBVIOUS
  <2> QED
    BY <1>3, <2>1
<1> HIDE DEF R
<1>4. PICK t \in T : \A u \in T : ~(<<u, t>> \in R)
  BY <1>1, <1>2, WFMin
<1>5. PICK x \in S : t = n - x
  BY <1>4
<1>6. \A y \in S : ~(<<n - y, n - x>> \in R)
  BY <1>4, <1>5
<1> QED
  BY <1>3, <1>6

LEMMA RowAppended ==
    ASSUME NEW s, RowsOf(s), NEW c, CandidateRow(c)
    PROVE  /\ RowsOf(Append(s, c)) /\ Len(s) \in Nat /\ DOMAIN s = 1..Len(s)
           /\ Len(Append(s, c)) = Len(s) + 1 /\ DOMAIN Append(s, c) = 1..(Len(s) + 1)
           /\ \A i \in DOMAIN s : Append(s, c)[i] = s[i]
           /\ Append(s, c)[Len(s) + 1] = c
<1> DEFINE S == {s[i] : i \in DOMAIN s}
<1>1. s \in Seq(S) /\ DOMAIN s = 1..Len(s) /\ Len(s) \in Nat
  BY DEF RowsOf
<1>2. s \in Seq(S \cup {c})
  <2>1. \A i \in 1..Len(s) : s[i] \in S \cup {c}
    BY <1>1
  <2>2. s = [i \in 1..Len(s) |-> s[i]]
    BY <1>1
  <2> HIDE DEF S
  <2> QED
    BY <1>1, <2>1, <2>2, SeqDef
<1>3. /\ Append(s, c) \in Seq(S \cup {c}) /\ Len(Append(s, c)) = Len(s) + 1
      /\ \A i \in 1..Len(s) : Append(s, c)[i] = s[i]
      /\ Append(s, c)[Len(s) + 1] = c
  BY <1>2, AppendProperties
<1> DEFINE t == Append(s, c)
<1>4. DOMAIN t = 1..(Len(s) + 1) /\ Len(t) = Len(s) + 1
  BY <1>1, <1>3
<1>5. \A i \in DOMAIN t : CandidateRow(t[i])
  BY <1>1, <1>3, <1>4 DEF RowsOf
<1>6. t \in Seq({t[i] : i \in DOMAIN t})
  <2> DEFINE V == {t[i] : i \in DOMAIN t}
  <2>1. \A i \in 1..Len(t) : t[i] \in V
    BY <1>4
  <2>4. t \in Seq(S \cup {c})
    BY <1>3
  <2> HIDE DEF V, t
  <2>2. t = [i \in 1..Len(t) |-> t[i]] /\ Len(t) \in Nat
    BY <2>4
  <2>3. t \in Seq(V)
    BY <2>1, <2>2, SeqDef
  <2> QED
    BY <2>3 DEF V
<1> HIDE DEF t
<1>7. RowsOf(t)
  BY <1>5, <1>6 DEF RowsOf
<1> QED
  BY <1>1, <1>3, <1>4, <1>7 DEF t

LEMMA RowRouted ==
    ASSUME NEW d, CandidateRow(d), NEW r
    PROVE  CandidateRow([d EXCEPT !.route = r]) /\ [d EXCEPT !.route = r].role = d.role
<1>1. PICK c : c = [d EXCEPT !.route = r]
  OBVIOUS
<1>2. c = [role |-> d.role, model |-> d.model, revision |-> d.revision, of |-> d.of,
           route |-> r, bad |-> d.bad, conflict |-> d.conflict]
  BY <1>1 DEF CandidateRow
<1> QED
  BY <1>1, <1>2 DEF CandidateRow

LEMMA RowChanged ==
    ASSUME NEW s, RowsOf(s), NEW p \in DOMAIN s, NEW c, CandidateRow(c), c.role = s[p].role
    PROVE  /\ RowsOf([s EXCEPT ![p] = c]) /\ Len([s EXCEPT ![p] = c]) = Len(s)
           /\ DOMAIN [s EXCEPT ![p] = c] = DOMAIN s
           /\ \A i \in DOMAIN s : [s EXCEPT ![p] = c][i].role = s[i].role
<1>1. Len(s) \in Nat /\ DOMAIN s = 1..Len(s)
  BY DEF RowsOf
<1>4. PICK t : t = [s EXCEPT ![p] = c]
  OBVIOUS
<1>6. DOMAIN t = 1..Len(s) /\ \A i \in 1..Len(s) : t[i] = IF i = p THEN c ELSE s[i]
  BY <1>1, <1>4
<1>7. t = [i \in 1..Len(s) |-> t[i]]
  BY <1>1, <1>4
<1>8. t \in Seq({t[i] : i \in DOMAIN t})
  <2> DEFINE V == {t[i] : i \in DOMAIN t}
  <2>1. \A i \in 1..Len(s) : t[i] \in V
    BY <1>6
  <2> HIDE DEF V
  <2>2. t \in Seq(V)
    <3>1. \E n \in Nat : t \in [1..n -> V]
      BY <1>1, <1>7, <2>1, Zenon
    <3> QED
      BY <3>1, SeqDef
  <2> QED
    BY <2>2 DEF V
<1>9. Len(t) = Len(s)
  BY <1>1, <1>6, <1>8
<1>10. RowsOf(t)
  <2>1. ASSUME NEW i \in DOMAIN t PROVE CandidateRow(t[i])
    <3>1. CASE i = p
      BY <3>1, <1>6
    <3>2. CASE i # p
      <4>1. t[i] = s[i] /\ CandidateRow(s[i])
        BY <3>2, <2>1, <1>1, <1>6 DEF RowsOf
      <4> QED
        BY <4>1
    <3> QED
      BY <3>1, <3>2
  <2> QED
    BY <2>1, <1>8 DEF RowsOf
<1> QED
  BY <1>1, <1>4, <1>6, <1>9, <1>10

LEMMA PrimaryExists ==
    ASSUME RowsOf(candidates), HasPrimary
    PROVE  Primary \in DOMAIN candidates /\ candidates[Primary].role = "primary"
<1> DEFINE S == {p \in DOMAIN candidates : candidates[p].role = "primary"}
<1>1. Len(candidates) \in Nat /\ DOMAIN candidates = 1..Len(candidates)
  BY DEF RowsOf
<1>2. PICK p \in S : \A q \in S : q <= p
  BY <1>1, LastExists DEF HasPrimary
<1>3. \E x \in DOMAIN candidates :
        /\ candidates[x].role = "primary"
        /\ \A q \in DOMAIN candidates : candidates[q].role = "primary" => q <= x
  BY <1>2
<1> QED
  BY <1>3 DEF Primary

LEMMA LatestExists ==
    ASSUME RowsOf(candidates), NEW S \in SUBSET DOMAIN candidates, S # {}
    PROVE  Latest(S) \in S
<1>1. Len(candidates) \in Nat /\ DOMAIN candidates = 1..Len(candidates)
  BY DEF RowsOf
<1> QED
  BY <1>1, LastExists DEF Latest

LEMMA Completes ==
    ASSUME options \in Jobs, NEW k \in 1..Len(SegmentStages), Proceeds(k), global = 6,
           Commit(SegmentStages[k]), UNCHANGED <<options, global>>,
           HasPrimary', k + 1 > ReviewKey + 2 => layers'.smart = "punctuated"
    PROVE  Proceeds(k + 1)' /\ todo' \subseteq todo
<1>1. UNCHANGED <<SegmentStages, ReviewKey>> /\ Len(SegmentStages) \in Nat
  BY StageOrder DEF SegmentStages, ReviewKey, Strict
<1>2. todo' = LeftFrom(k + 1)'
  BY <1>1, LeftOver DEF Commit, Proceeds, LeftFrom
<1> QED
  BY <1>1, <1>2 DEF Proceeds, Commit, Ends

LEMMA StagesStart == StagesInit => StagesInv
<1> SUFFICES ASSUME StagesInit PROVE StagesInv
  OBVIOUS
<1>1. /\ options \in Jobs /\ MaxLosses \in Nat /\ MaxEdits \in Nat /\ MaxCandidates \in Nat
      /\ Strict \in BOOLEAN
  BY StagesAssumption DEF StagesInit, MaxLosses, MaxEdits, MaxCandidates, Strict
<1>2. Len(SegmentStages) \in Nat /\ LeftFrom(Len(SegmentStages) + 1) = {}
  BY <1>1, StageOrder, LeftOver
<1>3. candidates = <<>> /\ Len(candidates) = 0 /\ DOMAIN candidates = {}
  <2>1. candidates = <<>>
    BY DEF StagesInit
  <2>2. Len(<<>>) = 0 /\ DOMAIN <<>> = {}
    OBVIOUS
  <2> QED
    BY <2>1, <2>2
<1>4. RowsOf(candidates)
  <2>1. candidates \in Seq({candidates[i] : i \in DOMAIN candidates})
    BY <1>3
  <2> QED
    BY <1>3, <2>1 DEF RowsOf
<1>5. /\ global = 0 /\ todo = {} /\ adopted = {} /\ running = "none" /\ answered = {}
      /\ asked = [e \in Entries |-> 0]
      /\ stageBudget = [edits |-> MaxEdits, losses |-> MaxLosses]
  BY DEF StagesInit
<1>6. attempts = [m \in {"moss", "pyannote"} |-> <<>>]
  BY DEF StagesInit, NoAttempts
<1>7. \A m \in {"moss", "pyannote"} : attempts[m] = <<>> /\ attempts[m] \in Seq(Outcomes) /\ Len(attempts[m]) = 0
  BY <1>6
<1>8. StagesTypeOK
  <2>1. \A m \in DOMAIN attempts : Len(attempts[m]) <= MaxAttempts /\ RangeOf(attempts[m]) \subseteq Outcomes
    BY <1>6, <1>7 DEF MaxAttempts, RangeOf
  <2>2. asked \in [Entries -> 0..1 + MaxLosses] /\ answered \subseteq Entries
    BY <1>1, <1>5
  <2>3. Len(candidates) <= MaxCandidates
    BY <1>1, <1>3
  <2>4. models \in [installed : SUBSET RangeOf(Ranking), revision : 1..2]
    <3>1. \A S : [installed |-> S, revision |-> 1] \in [installed : SUBSET S, revision : 1..2]
      OBVIOUS
    <3> QED
      BY <3>1 DEF StagesInit
  <2>5. layers \in [faithful : {"", "consensus", "punctuated"},
                   smart : {"", "consensus", "terms", "punctuated"},
                   user : {"none", "", "typed"}]
    BY DEF StagesInit
  <2>6. stageBudget \in [edits : 0..MaxEdits, losses : 0..MaxLosses]
    BY <1>1, <1>5
  <2>7. global \in 0..Len(GlobalStages)
    BY <1>5, GlobalOrder
  <2>8. /\ master \in {"none", "whole"} /\ duration \in BOOLEAN /\ tokens = "none" /\ glossary = {}
        /\ failure = "none" /\ yield \in BOOLEAN /\ aligner = "none"
    BY DEF StagesInit
  <2> QED
    BY <1>5, <1>6, <2>1, <2>2, <2>3, <2>4, <2>5, <2>6, <2>7, <2>8 DEF StagesTypeOK
<1>9. Typed
  BY <1>1, <1>4, <1>5, <1>6, <1>7, <1>8 DEF Typed
<1>10. AnswersCount /\ OnePrimary
  BY <1>1, <1>5 DEF AnswersCount, OnePrimary
<1>11. Proceeds(Len(SegmentStages) + 1)
  BY <1>2, <1>5, GlobalOrder DEF Proceeds
<1> QED
  BY <1>2, <1>9, <1>10, <1>11 DEF StagesInv

LEMMA Bounds ==
    ASSUME StagesInv
    PROVE  /\ options \in Jobs /\ MaxLosses \in Nat /\ MaxEdits \in Nat /\ MaxCandidates \in Nat
           /\ Len(SegmentStages) \in Nat /\ global \in 0..6
           /\ stageBudget \in [edits : 0..MaxEdits, losses : 0..MaxLosses]
<1>1. options \in Jobs /\ StagesTypeOK
  BY DEF StagesInv, Typed
<1>2. global \in 0..Len(GlobalStages)
  BY <1>1 DEF StagesTypeOK
<1>3. stageBudget \in [edits : 0..MaxEdits, losses : 0..MaxLosses]
  BY <1>1 DEF StagesTypeOK
<1> QED
  BY <1>1, <1>2, <1>3, StagesAssumption, StageOrder, GlobalOrder DEF MaxLosses, MaxEdits, MaxCandidates

\* The options are of the job.
LEMMA SameJob ==
    ASSUME UNCHANGED options
    PROVE  UNCHANGED <<Windows, Entries, MaxLosses, MaxEdits, MaxCandidates, SegmentStages, ReviewKey, Ranking>>
BY DEF Windows, Entries, MaxLosses, MaxEdits, MaxCandidates, SegmentStages, ReviewKey, Strict, Ranking

\* What the handlers of the recording leave of the segment.
LEMMA GlobalGoes ==
    ASSUME StagesInv, UNCHANGED options,
           \/ RewriteRecording \/ NormalizeAudioMaster \/ LidRoute
           \/ (\E w \in Windows : LidWindow(w))
    PROVE  StagesInv'
<1>1. PICK k \in Nat : Proceeds(k)
  BY DEF StagesInv
<1>2. /\ options \in Jobs /\ MaxLosses \in Nat /\ MaxEdits \in Nat /\ MaxCandidates \in Nat
      /\ Len(SegmentStages) \in Nat /\ global \in 0..6
      /\ stageBudget \in [edits : 0..MaxEdits, losses : 0..MaxLosses]
  BY Bounds
<1>3. UNCHANGED <<Windows, Entries, MaxLosses, MaxEdits, MaxCandidates, SegmentStages, ReviewKey, Ranking>>
  BY SameJob
<1>4. UNCHANGED segmentVars /\ UNCHANGED <<glossary, models, yield, attempts>>
  BY DEF RewriteRecording, NormalizeAudioMaster, LidRoute, LidWindow, outside
<1>5. OnePrimary' /\ RowsOf(candidates)'
  BY <1>4 DEF StagesInv, Typed, OnePrimary, Primary, segmentVars, RowsOf, CandidateRow
<1>6. global < 5 /\ running = GlobalStages[global + 1]
  <2>1. running \in {"upload_validate", "audio_qc", "vad", "normalize_audio_master", "lid"}
    BY DEF RewriteRecording, NormalizeAudioMaster, LidRoute, LidWindow, AtGlobal
  <2>2. running \notin RangeOf(SegmentStages)
    BY <2>1 DEF SegmentStages, RangeOf
  <2> QED
    BY <1>1, <1>2, <2>1, <2>2, GlobalOrder DEF Proceeds, RangeOf
<1>7. global' \in {global, global + 1} /\ running' \in {"none", running}
      /\ (global' # global => running' = "none")
  BY DEF RewriteRecording, NormalizeAudioMaster, LidRoute, LidWindow, Advance, Ends
<1>8. Proceeds(k)'
  BY <1>1, <1>2, <1>3, <1>4, <1>6, <1>7 DEF Proceeds, segmentVars, LeftFrom
<1>12. /\ answered \subseteq Entries /\ asked \in [Entries -> Nat] /\ AnswersCount
       /\ master \in {"none", "whole"} /\ duration \in BOOLEAN
       /\ failure \in {"none", "conflict", "no_timing", "lost"}
  BY DEF StagesInv, Typed, StagesTypeOK
<1>13. /\ stageBudget' \in [edits : 0..MaxEdits, losses : 0..MaxLosses]
       /\ stageBudget'.losses <= stageBudget.losses
  BY <1>2 DEF RewriteRecording, NormalizeAudioMaster, LidRoute, LidWindow, Advance, Loses, outside
<1>15. UNCHANGED models
  BY DEF RewriteRecording, NormalizeAudioMaster, LidRoute, LidWindow, outside
<1>16. models \in [installed : SUBSET RangeOf(Ranking), revision : 1..2]
  BY DEF StagesInv, Typed, StagesTypeOK
<1>9. AnswersCount' /\ (asked \in [Entries -> Nat])' /\ answered' \subseteq Entries
  <2>1. CASE UNCHANGED <<answered, asked>>
    BY <1>2, <1>3, <1>12, <1>13, <1>15, <2>1 DEF AnswersCount
  <2>2. ASSUME NEW w \in Windows, LidWindow(w)
        PROVE  AnswersCount' /\ (asked \in [Entries -> Nat])' /\ answered' \subseteq Entries
    <3> DEFINE entry == EntryOf(w)
    <3>1. asked' = [asked EXCEPT ![entry] = @ + 1] /\ entry \notin answered /\ UNCHANGED models
      <4> HIDE DEF entry
      <4>1. entry = EntryOf(w)
        BY DEF entry
      <4> QED
        BY <1>15, <2>2, <4>1 DEF LidWindow
    <3>3. entry \in Entries /\ entry[2] = models.revision /\ models.revision \in 1..2
      <4>1. models.revision \in 1..2
        BY <1>16
      <4> QED
        BY <4>1 DEF Entries, EntryOf
    <3>4. \A e \in Entries : e[2] \in 1..2
      BY DEF Entries
    <3> HIDE DEF entry
    <3>2. \/ answered' = answered \cup {entry} /\ UNCHANGED stageBudget
          \/ stageBudget'.losses = stageBudget.losses - 1 /\ UNCHANGED answered
      BY <1>2, <2>2 DEF LidWindow, Loses, entry
    <3>5. Entries' = Entries /\ MaxLosses' = MaxLosses /\ MaxLosses \in Nat
      BY <1>2, <1>3
    <3>6. asked' \in [Entries -> Nat] /\ answered' \subseteq Entries
      BY <1>12, <3>1, <3>2, <3>3
    <3>7. ASSUME NEW e \in Entries
          PROVE  /\ asked'[e] <= MaxLosses - stageBudget'.losses + (IF e \in answered' THEN 1 ELSE 0)
                 /\ e \in answered' => asked'[e] > 0
                 /\ e[2] > models.revision => asked'[e] = 0
      <4>1. asked'[e] = IF e = entry THEN asked[e] + 1 ELSE asked[e]
        BY <1>12, <3>1, <3>3
      <4>2. /\ asked[e] <= MaxLosses - stageBudget.losses + (IF e \in answered THEN 1 ELSE 0)
            /\ e \in answered => asked[e] > 0
            /\ e[2] > models.revision => asked[e] = 0
            /\ asked[e] \in Nat
        BY <1>12 DEF AnswersCount
      <4> QED
        BY <1>2, <3>1, <3>2, <3>3, <4>1, <4>2
    <3> QED
      BY <3>1, <3>5, <3>6, <3>7 DEF AnswersCount
  <2> QED
    BY <2>1, <2>2 DEF RewriteRecording, NormalizeAudioMaster, LidRoute
<1>10. StagesTypeOK'
  <2>2. asked' \in [Entries -> 0..1 + MaxLosses]
    BY <1>2, <1>3, <1>9, <1>13 DEF AnswersCount
  <2>3. /\ master' \in {"none", "whole"} /\ duration' \in BOOLEAN
        /\ failure' \in {"none", "conflict", "no_timing", "lost"}
    BY <1>12 DEF RewriteRecording, NormalizeAudioMaster, LidRoute, LidWindow, Advance, Loses
  <2>4. running' \in {"none"} \cup RangeOf(GlobalStages)
    BY <1>2, <1>6, <1>7, GlobalOrder DEF RangeOf
  <2>5. global' \in 0..Len(GlobalStages)
    BY <1>2, <1>6, <1>7, GlobalOrder
  <2>6. StagesTypeOK
    BY DEF StagesInv, Typed
  <2> QED
    BY <1>3, <1>4, <1>9, <1>13, <2>2, <2>3, <2>4, <2>5, <2>6 DEF StagesTypeOK, segmentVars
<1>11. Typed'
  BY <1>4, <1>5, <1>9, <1>10 DEF StagesInv, Typed
<1> QED
  BY <1>5, <1>8, <1>9, <1>11 DEF StagesInv

LEMMA SegmentStarts ==
    ASSUME StagesInv, UNCHANGED options,
           MossStructure \/ (\E m \in {"moss", "pyannote"} : StructureAttempt(m))
    PROVE  StagesInv'
<1>1. PICK k \in Nat : Proceeds(k)
  BY DEF StagesInv
<1>2. /\ options \in Jobs /\ MaxLosses \in Nat /\ MaxEdits \in Nat /\ MaxCandidates \in Nat
      /\ Len(SegmentStages) \in Nat /\ global \in 0..6
      /\ stageBudget \in [edits : 0..MaxEdits, losses : 0..MaxLosses]
  BY Bounds
<1>3. UNCHANGED <<Windows, Entries, MaxLosses, MaxEdits, MaxCandidates, SegmentStages, ReviewKey, Ranking>>
  BY SameJob
<1>4. UNCHANGED <<candidates, adopted, layers, tokens, aligner, glossary, models, master, duration,
                  answered, asked>>
  BY DEF MossStructure, StructureAttempt, outside, segmentVars
<1>5. RowsOf(candidates)'
  BY <1>4 DEF StagesInv, Typed, RowsOf, CandidateRow
<1>6. global = 5 /\ running = "moss_structure"
  <2>1. running = "moss_structure"
    BY DEF MossStructure, StructureAttempt, AtGlobal
  <2>2. running \notin RangeOf(SegmentStages)
    BY <2>1 DEF SegmentStages, RangeOf
  <2> QED
    BY <1>1, <1>2, <2>1, <2>2, GlobalOrder DEF Proceeds, RangeOf
<1>7. CASE MossStructure
  <2>1. todo' = LeftFrom(1)' /\ running' = "none" /\ global' = 6
    BY <1>2, <1>3, <1>6, <1>7, LeftOver DEF MossStructure, Advance, Ends, LeftFrom
  <2>2. Proceeds(1)'
    BY <1>2, <1>3, <2>1, StageOrder DEF Proceeds
  <2>3. "quality_and_review" \in todo'
    BY <1>2, <1>3, <2>1, StageOrder, LeftOver DEF LeftFrom
  <2>4. StagesTypeOK'
    <3>1. StagesTypeOK
      BY DEF StagesInv, Typed
    <3>2. todo' \subseteq RangeOf(SegmentStages)' /\ global' \in 0..Len(GlobalStages)
      BY <1>2, <1>3, <2>1, <1>7, GlobalOrder DEF MossStructure, RangeOf
    <3>3. UNCHANGED <<attempts, stageBudget, yield>> /\ failure' = "none"
      BY <1>7 DEF MossStructure, Advance, outside
    <3>4. /\ master' \in {"none", "whole"} /\ duration' \in BOOLEAN
          /\ answered' \subseteq Entries' /\ asked' \in [Entries' -> 0..1 + MaxLosses']
          /\ Len(candidates') <= MaxCandidates' /\ adopted' \subseteq DOMAIN candidates'
      BY <1>3, <1>4, <3>1 DEF StagesTypeOK
    <3>5. /\ layers' \in [faithful : {"", "consensus", "punctuated"},
                   smart : {"", "consensus", "terms", "punctuated"},
                   user : {"none", "", "typed"}]
          /\ tokens' \in {"none", "punctuated", "typed"}
          /\ glossary' \subseteq {"suspect", "conflict"}
          /\ models' \in [installed : SUBSET RangeOf(Ranking)', revision : 1..2]
      BY <1>3, <1>4, <3>1 DEF StagesTypeOK
    <3>6. /\ failure' \in {"none", "conflict", "no_timing", "lost"}
          /\ running' \in {"none"} \cup RangeOf(GlobalStages) \cup RangeOf(SegmentStages)'
          /\ yield' \in BOOLEAN /\ aligner' \in Outcomes \cup {"none"}
      BY <1>4, <2>1, <3>1, <3>3 DEF StagesTypeOK
    <3>7. /\ DOMAIN attempts' = {"moss", "pyannote"}
          /\ \A m \in DOMAIN attempts' : Len(attempts'[m]) <= MaxAttempts /\ RangeOf(attempts'[m]) \subseteq Outcomes
      BY <3>1, <3>3 DEF StagesTypeOK
    <3>8. stageBudget' \in [edits : 0..MaxEdits', losses : 0..MaxLosses']
      BY <1>3, <3>1, <3>3 DEF StagesTypeOK
    <3> QED
      BY <3>2, <3>4, <3>5, <3>6, <3>7, <3>8 DEF StagesTypeOK
  <2>5. Typed' /\ AnswersCount'
    BY <1>3, <1>4, <1>5, <1>7, <2>4 DEF StagesInv, Typed, AnswersCount, MossStructure, outside
  <2> QED
    BY <2>2, <2>3, <2>5 DEF StagesInv, OnePrimary
<1>8. ASSUME NEW m \in {"moss", "pyannote"}, StructureAttempt(m) PROVE StagesInv'
  <2>1. UNCHANGED <<global, running, todo>>
    BY <1>8 DEF StructureAttempt, segmentVars
  <2>2. Proceeds(k)' /\ OnePrimary'
    <3>1. LeftFrom(k)' = LeftFrom(k) /\ HasPrimary' = HasPrimary /\ Primary' = Primary
      BY <1>3, <1>4 DEF LeftFrom, HasPrimary, Primary
    <3>2. Proceeds(k)'
      BY <1>1, <1>3, <1>4, <2>1, <3>1 DEF Proceeds
    <3>3. OnePrimary'
      BY <1>4, <2>1, <3>1 DEF OnePrimary, StagesInv
    <3> QED
      BY <3>2, <3>3
  <2>3. PICK outcome \in Outcomes : attempts' = [attempts EXCEPT ![m] = Append(@, outcome)]
    BY <1>8 DEF StructureAttempt
  <2>13. attempts[m] \in Seq(Outcomes) /\ Len(attempts[m]) <= 2 /\ Len(attempts[m]) # 2
    BY <1>8 DEF StagesInv, Typed, StagesTypeOK, StructureAttempt, Tried, MaxAttempts
  <2>4. attempts[m] \in Seq(Outcomes) /\ Len(attempts[m]) < 2
    <3>1. Len(attempts[m]) \in Nat
      BY <2>13
    <3>2. \A n \in Nat : n <= 2 /\ n # 2 => n < 2
      OBVIOUS
    <3> QED
      BY <2>13, <3>1, <3>2, Zenon
  <2>5. attempts'[m] = Append(attempts[m], outcome)
        /\ \A n \in {"moss", "pyannote"} : n # m => attempts'[n] = attempts[n]
    BY <2>3 DEF StagesInv, Typed
  <2>6. \A n \in {"moss", "pyannote"} :
           /\ attempts'[n] \in Seq(Outcomes) /\ Len(attempts'[n]) <= MaxAttempts
    <3>1. \A n \in {"moss", "pyannote"} : attempts[n] \in Seq(Outcomes) /\ Len(attempts[n]) <= 2
      BY DEF StagesInv, Typed, StagesTypeOK, MaxAttempts
    <3> QED
      BY <2>4, <2>5, <3>1 DEF MaxAttempts
  <2>7. \A n \in {"moss", "pyannote"} : RangeOf(attempts'[n]) \subseteq Outcomes
    BY <2>6 DEF RangeOf
  <2>8. attempts' = [n \in {"moss", "pyannote"} |-> attempts'[n]]
    BY <2>3 DEF StagesInv, Typed
  <2>9. stageBudget' \in [edits : 0..MaxEdits, losses : 0..MaxLosses] /\ yield' \in BOOLEAN
        /\ stageBudget'.losses <= stageBudget.losses
    BY <1>2, <1>8 DEF StructureAttempt, Outcomes
  <2>10. AnswersCount'
    <3>1. AnswersCount /\ asked \in [Entries -> Nat]
      BY DEF StagesInv, Typed
    <3> QED
      BY <1>2, <1>3, <1>4, <2>9, <3>1 DEF AnswersCount
  <2>11. StagesTypeOK'
    <3>1. StagesTypeOK
      BY DEF StagesInv, Typed
    <3>2. UNCHANGED failure /\ DOMAIN attempts' = {"moss", "pyannote"}
      BY <1>8, <2>8 DEF StructureAttempt
    <3>3. \A n \in DOMAIN attempts' : Len(attempts'[n]) <= MaxAttempts /\ RangeOf(attempts'[n]) \subseteq Outcomes
      BY <2>6, <2>7, <3>2
    <3>4. /\ global' \in 0..Len(GlobalStages) /\ master' \in {"none", "whole"} /\ duration' \in BOOLEAN
          /\ answered' \subseteq Entries' /\ asked' \in [Entries' -> 0..1 + MaxLosses']
          /\ todo' \subseteq RangeOf(SegmentStages)'
          /\ Len(candidates') <= MaxCandidates' /\ adopted' \subseteq DOMAIN candidates'
      BY <1>3, <1>4, <2>1, <3>1 DEF StagesTypeOK
    <3>5. /\ layers' \in [faithful : {"", "consensus", "punctuated"},
                   smart : {"", "consensus", "terms", "punctuated"},
                   user : {"none", "", "typed"}]
          /\ tokens' \in {"none", "punctuated", "typed"}
          /\ glossary' \subseteq {"suspect", "conflict"}
          /\ models' \in [installed : SUBSET RangeOf(Ranking)', revision : 1..2]
      BY <1>3, <1>4, <3>1 DEF StagesTypeOK
    <3>6. /\ failure' \in {"none", "conflict", "no_timing", "lost"}
          /\ running' \in {"none"} \cup RangeOf(GlobalStages) \cup RangeOf(SegmentStages)'
          /\ aligner' \in Outcomes \cup {"none"}
      BY <1>3, <1>4, <2>1, <3>1, <3>2 DEF StagesTypeOK, RangeOf
    <3>7. stageBudget' \in [edits : 0..MaxEdits', losses : 0..MaxLosses']
      BY <1>3, <2>9
    <3> QED
      BY <2>9, <3>2, <3>3, <3>4, <3>5, <3>6, <3>7 DEF StagesTypeOK
  <2>12. Typed'
    BY <1>3, <1>4, <1>5, <2>6, <2>8, <2>11 DEF StagesInv, Typed
  <2> QED
    BY <2>2, <2>10, <2>12 DEF StagesInv
<1> QED
  BY <1>7, <1>8

\* A handler of the segment that commits goes one checkpoint on.
LEMMA HandlerGoes ==
    ASSUME StagesInv, NEW k \in 1..Len(SegmentStages), Proceeds(k), global = 6,
           UNCHANGED <<options, globalVars, outside>>, Commit(SegmentStages[k]),
           RowsOf(candidates)', Len(candidates') <= MaxCandidates,
           adopted' \subseteq DOMAIN candidates',
           HasPrimary', k + 1 > ReviewKey + 2 => layers'.smart = "punctuated",
           LayersTyped',
           tokens' \in {"none", "punctuated", "typed"}, aligner' \in Outcomes \cup {"none"},
           OnePrimary'
    PROVE  StagesInv'
<1>1. Proceeds(k + 1)' /\ todo' \subseteq todo
  <2>1. options \in Jobs /\ UNCHANGED global
    BY Bounds DEF globalVars
  <2> QED
    BY <2>1, Completes
<1>6. k + 1 \in Nat
  OBVIOUS
<1>2. UNCHANGED <<Windows, Entries, MaxLosses, MaxEdits, MaxCandidates, SegmentStages, ReviewKey, Ranking>>
  BY SameJob
<1>3. StagesTypeOK'
  <2>1. StagesTypeOK
    BY DEF StagesInv, Typed
  <2>2. failure' = "none" /\ running' = "none"
    BY DEF Commit, Ends
  <2> QED
    BY <1>1, <1>2, <2>1, <2>2 DEF StagesTypeOK, globalVars, outside, LayersTyped
<1>4. AnswersCount'
  BY <1>2 DEF StagesInv, AnswersCount, globalVars, outside
<1>5. Typed'
  BY <1>2, <1>3 DEF StagesInv, Typed, globalVars
<1> QED
  BY <1>1, <1>4, <1>5, <1>6 DEF StagesInv

LEMMA ReviewAppends ==
    ASSUME RowsOf(candidates), NEW role, NEW model, NEW them \in Review(role, model)
    PROVE  /\ RowsOf(them) /\ Len(them) = Len(candidates) + 1
           /\ DOMAIN candidates \subseteq DOMAIN them
           /\ \A i \in DOMAIN candidates : them[i] = candidates[i]
<1>1. PICK bad \in BOOLEAN, conflict \in BOOLEAN :
        them = Append(candidates, Candidate(role, model, Primary, bad, conflict))
  BY DEF Review
<1>2. PICK c : c = Candidate(role, model, Primary, bad, conflict)
  OBVIOUS
<1>3. CandidateRow(c)
  BY <1>2 DEF CandidateRow, Candidate
<1> QED
  BY <1>1, <1>2, <1>3, RowAppended

LEMMA RouteKept ==
    ASSUME RowsOf(candidates), HasPrimary, NEW them, RowsOf(them), NEW route,
           DOMAIN candidates \subseteq DOMAIN them
    PROVE  /\ RowsOf(WithRoute(them, route)) /\ Len(WithRoute(them, route)) = Len(them)
           /\ DOMAIN WithRoute(them, route) = DOMAIN them
           /\ \A i \in DOMAIN them : WithRoute(them, route)[i].role = them[i].role
<1>1. Primary \in DOMAIN them
  BY PrimaryExists
<1> DEFINE stored == [i \in DOMAIN route |-> <<route[i], models.revision>>]
<1>2. WithRoute(them, route) = [them EXCEPT ![Primary].route = stored]
  BY DEF WithRoute
<1> HIDE DEF stored
<1>3. PICK p \in DOMAIN them : p = Primary
  BY <1>1
<1>4. WithRoute(them, route) = [them EXCEPT ![p].route = stored]
  BY <1>2, <1>3
<1>5. PICK c : c = [them[p] EXCEPT !.route = stored]
  OBVIOUS
<1>6. CandidateRow(c) /\ c.role = them[p].role
  BY <1>5, RowRouted DEF RowsOf
<1>7. WithRoute(them, route) = [them EXCEPT ![p] = c]
  BY <1>4, <1>5
<1>8. /\ RowsOf([them EXCEPT ![p] = c]) /\ Len([them EXCEPT ![p] = c]) = Len(them)
      /\ DOMAIN [them EXCEPT ![p] = c] = DOMAIN them
      /\ \A i \in DOMAIN them : [them EXCEPT ![p] = c][i].role = them[i].role
  BY <1>6, RowChanged
<1> QED
  BY <1>7, <1>8

LEMMA ReviewGoes ==
    ASSUME StagesInv, UNCHANGED options,
           PrimaryAsr \/ QualitySecondary \/ (QualityTertiary /\ failure' = "none")
    PROVE  StagesInv'
<1>1. PICK k \in Nat : Proceeds(k)
  BY DEF StagesInv
<1>2. /\ options \in Jobs /\ MaxCandidates \in Nat /\ Len(SegmentStages) \in Nat /\ global \in 0..6
  BY Bounds
<1>3. /\ RowsOf(candidates) /\ Len(candidates) \in Nat /\ DOMAIN candidates = 1..Len(candidates)
      /\ adopted \subseteq DOMAIN candidates /\ Len(candidates) <= MaxCandidates
  <2>1. RowsOf(candidates) /\ StagesTypeOK
    BY DEF StagesInv, Typed
  <2>2. Len(candidates) \in Nat /\ DOMAIN candidates = 1..Len(candidates)
    BY <2>1 DEF RowsOf
  <2> QED
    BY <2>1, <2>2 DEF StagesTypeOK
<1>4. running \in {"primary_asr", "quality_secondary", "quality_tertiary"}
  BY DEF PrimaryAsr, QualitySecondary, QualityTertiary, AtSegment
<1>5. k < ReviewKey /\ global = 6 /\ running = SegmentStages[k] /\ ReviewKey \in {2, 4}
  BY <1>1, <1>2, <1>4, Standing, StageOrder DEF Proceeds
<1>6. /\ Commit(SegmentStages[k])
      /\ UNCHANGED <<globalVars, adopted, layers, tokens, aligner, outside>>
  <2>1. CASE PrimaryAsr
    BY <1>5, <2>1 DEF PrimaryAsr, AtSegment
  <2>2. CASE QualitySecondary
    BY <1>5, <2>2 DEF QualitySecondary, AtSegment
  <2>3. CASE QualityTertiary /\ failure' = "none"
    <3>1. ~Raise("conflict")
      BY <2>3 DEF Raise
    <3> QED
      BY <1>5, <2>3, <3>1 DEF QualityTertiary, AtSegment
  <2> QED
    BY <2>1, <2>2, <2>3
<1>7. /\ RowsOf(candidates)' /\ Len(candidates') <= MaxCandidates
      /\ DOMAIN candidates \subseteq DOMAIN candidates' /\ HasPrimary'
  <2>1. CASE PrimaryAsr
    <3>1. PICK bad \in BOOLEAN : candidates' = Append(candidates,
             Candidate("primary", Head(InstalledRoute("none")), None, bad, FALSE))
      BY <2>1 DEF PrimaryAsr
    <3>2. PICK c : c = Candidate("primary", Head(InstalledRoute("none")), None, bad, FALSE)
      OBVIOUS
    <3>3. CandidateRow(c) /\ c.role = "primary"
      BY <3>2 DEF CandidateRow, Candidate
    <3>4. Len(candidates) < MaxCandidates
      BY <2>1 DEF PrimaryAsr
    <3>5. PICK t : t = candidates'
      OBVIOUS
    <3>6. /\ RowsOf(t) /\ Len(t) = Len(candidates) + 1 /\ DOMAIN t = 1..(Len(candidates) + 1)
          /\ t[Len(candidates) + 1] = c
      BY <1>3, <3>1, <3>2, <3>3, <3>5, RowAppended
    <3>7. RowsOf(candidates)'
      BY <3>5, <3>6 DEF RowsOf, CandidateRow
    <3>8. \E i \in DOMAIN t : t[i].role = "primary"
      BY <1>3, <3>3, <3>6
    <3> QED
      BY <1>2, <1>3, <3>4, <3>5, <3>6, <3>7, <3>8 DEF HasPrimary
  <2>2. ASSUME HasPrimary, NEW them, NEW route, RowsOf(them), DOMAIN candidates \subseteq DOMAIN them,
               \A i \in DOMAIN candidates : them[i] = candidates[i], Len(them) <= MaxCandidates,
               candidates' = them \/ candidates' = WithRoute(them, route)
        PROVE  /\ RowsOf(candidates)' /\ Len(candidates') <= MaxCandidates
               /\ DOMAIN candidates \subseteq DOMAIN candidates' /\ HasPrimary'
    <3>1. PICK t : t = candidates'
      OBVIOUS
    <3>2. /\ RowsOf(t) /\ Len(t) = Len(them) /\ DOMAIN t = DOMAIN them
          /\ \A i \in DOMAIN them : t[i].role = them[i].role
      BY <1>3, <2>2, <3>1, RouteKept
    <3>3. RowsOf(candidates)'
      BY <3>1, <3>2 DEF RowsOf, CandidateRow
    <3>4. \E i \in DOMAIN t : t[i].role = "primary"
      BY <2>2, <3>2 DEF HasPrimary
    <3> QED
      BY <2>2, <3>1, <3>2, <3>3, <3>4 DEF HasPrimary
  <2>3. ~PrimaryAsr => HasPrimary
    <3>1. ~PrimaryAsr => k > 1
      BY <1>1, <1>2, Standing DEF QualitySecondary, QualityTertiary, AtSegment
    <3> QED
      BY <1>1, <1>5, <3>1 DEF Proceeds
  <2>4. CASE QualitySecondary
    <3> DEFINE route == InstalledRoute(candidates[Primary].model)
    <3>1. HasPrimary
      BY <2>3, <2>4, <1>5, <1>1, <1>2, Standing DEF QualitySecondary, AtSegment, PrimaryAsr
    <3>2. CASE RunSecondary /\ route # <<>>
      <4>1. Len(candidates) < MaxCandidates
            /\ \E them \in Review("secondary", route[1]) : candidates' = WithRoute(them, Frozen(route))
        BY <2>4, <3>2 DEF QualitySecondary
      <4> HIDE DEF route
      <4>2. PICK them \in Review("secondary", route[1]) : candidates' = WithRoute(them, Frozen(route))
        BY <4>1
      <4>3. /\ RowsOf(them) /\ Len(them) = Len(candidates) + 1 /\ DOMAIN candidates \subseteq DOMAIN them
            /\ \A i \in DOMAIN candidates : them[i] = candidates[i]
        BY <1>3, ReviewAppends
      <4> QED
        BY <1>2, <1>3, <2>2, <3>1, <4>1, <4>2, <4>3
    <3>3. CASE ~(RunSecondary /\ route # <<>>)
      <4>1. candidates' = WithRoute(candidates, Frozen(route))
        BY <2>4, <3>3 DEF QualitySecondary
      <4> HIDE DEF route
      <4> QED
        BY <1>3, <2>2, <3>1, <4>1
    <3> QED
      BY <3>2, <3>3
  <2>5. CASE QualityTertiary /\ failure' = "none"
    <3>1. HasPrimary
      BY <2>3, <2>5, <1>5, <1>1, <1>2, Standing DEF QualityTertiary, AtSegment, PrimaryAsr
    <3>2. ~Raise("conflict")
      BY <2>5 DEF Raise
    <3>3. \/ Len(candidates) < MaxCandidates /\ candidates' \in Review("tertiary", StoredRoute[2][1])
          \/ UNCHANGED candidates
      BY <2>5, <3>2 DEF QualityTertiary
    <3>4. CASE candidates' \in Review("tertiary", StoredRoute[2][1]) /\ Len(candidates) < MaxCandidates
      <4>1. PICK them \in Review("tertiary", StoredRoute[2][1]) : candidates' = them
        BY <3>4
      <4>3. /\ RowsOf(them) /\ Len(them) = Len(candidates) + 1 /\ DOMAIN candidates \subseteq DOMAIN them
            /\ \A i \in DOMAIN candidates : them[i] = candidates[i]
        BY <1>3, ReviewAppends
      <4> QED
        BY <1>2, <1>3, <2>2, <3>1, <3>4, <4>1, <4>3
    <3>5. CASE UNCHANGED candidates
      BY <1>3, <2>2, <3>1, <3>5
    <3> QED
      BY <3>3, <3>4, <3>5
  <2> QED
    BY <2>1, <2>4, <2>5
<1>8. OnePrimary'
  <2>1. "quality_and_review" \in todo
    BY <1>1, <1>2, <1>5, StageOrder, LeftOver DEF Proceeds
  <2>2. SegmentStages[k] # "quality_and_review"
    BY <1>2, <1>5, <1>1, StageOrder DEF Proceeds
  <2> QED
    BY <1>6, <2>1, <2>2 DEF OnePrimary, Commit
<1>9. /\ LayersTyped'
      /\ tokens' \in {"none", "punctuated", "typed"} /\ aligner' \in Outcomes \cup {"none"}
  BY <1>6 DEF StagesInv, Typed, StagesTypeOK, LayersTyped
<1>10. k \in 1..Len(SegmentStages) /\ ~(k + 1 > ReviewKey + 2)
  BY <1>1, <1>2, <1>5, StageOrder DEF Proceeds
<1> QED
  BY <1>1, <1>3, <1>5, <1>6, <1>7, <1>8, <1>9, <1>10, HandlerGoes

\* What the consensus adopts is the newest primary row and reviews of that row.
LEMMA AdoptedAreOfPrimary ==
    ASSUME RowsOf(candidates), HasPrimary, ~Strict => ~(NeedsSecond /\ Second = {}),
           ~Strict => ~(NeedsThird /\ Third = {}),
           NEW from, from = (IF Strict THEN {Primary} ELSE Reviewed)
    PROVE  \A c \in from : c \in DOMAIN candidates /\ (c = Primary \/ candidates[c].of = Primary)
<1>1. Primary \in DOMAIN candidates
  BY PrimaryExists
<1>2. ASSUME NeedsSecond, Second # {}
      PROVE  Latest(Second) \in DOMAIN candidates /\ candidates[Latest(Second)].of = Primary
  <2>1. Latest(Second) \in Second
    BY <1>2, LatestExists DEF Second, Evidence
  <2> QED
    BY <2>1 DEF Second, Evidence
<1>3. ASSUME NeedsThird, Third # {}
      PROVE  Latest(Third) \in DOMAIN candidates /\ candidates[Latest(Third)].of = Primary
  <2>1. Latest(Third) \in Third
    BY <1>3, LatestExists DEF Third, Evidence
  <2> QED
    BY <2>1 DEF Third, Evidence
<1>4. CASE Strict
  BY <1>1, <1>4
<1>5. CASE ~Strict
  BY <1>1, <1>2, <1>3, <1>5 DEF Reviewed
<1> QED
  BY <1>4, <1>5

LEMMA FinishGoes ==
    ASSUME StagesInv, UNCHANGED options, QualityFinish, failure' = "none"
    PROVE  StagesInv'
<1>1. PICK k \in Nat : Proceeds(k)
  BY DEF StagesInv
<1>2. /\ options \in Jobs /\ Len(SegmentStages) \in Nat /\ global \in 0..6 /\ ReviewKey \in {2, 4}
  BY Bounds, StageOrder
<1>3. running = "quality_and_review"
  BY DEF QualityFinish, AtSegment
<1>4. k = ReviewKey /\ global = 6 /\ k \in 1..Len(SegmentStages) /\ SegmentStages[k] = "quality_and_review"
  BY <1>1, <1>2, <1>3, Standing, StageOrder
<1>5. HasPrimary
  BY <1>1, <1>2, <1>4 DEF Proceeds
<1>6. RowsOf(candidates) /\ Len(candidates) <= MaxCandidates /\ LayersTyped
  BY DEF StagesInv, Typed, StagesTypeOK, LayersTyped
<1>7. ~Raise("conflict")
  BY DEF Raise
<1>8. PICK from : /\ Adopt(candidates, from) /\ from = (IF Strict THEN {Primary} ELSE Reviewed)
                  /\ ~Strict => ~(NeedsSecond /\ Second = {}) /\ ~(NeedsThird /\ Third = {})
  BY <1>7 DEF QualityFinish
<1>9. \A c \in from : c \in DOMAIN candidates /\ (c = Primary \/ candidates[c].of = Primary)
  BY <1>5, <1>6, <1>8, AdoptedAreOfPrimary
<1>10. UNCHANGED candidates /\ adopted' \subseteq from /\ Commit(SegmentStages[k])
       /\ UNCHANGED <<globalVars, outside>> /\ tokens' = "none" /\ aligner' = "none"
       /\ layers' = [layers EXCEPT !.faithful = "consensus", !.smart = "consensus"]
  BY <1>4, <1>8 DEF Adopt
<1>11. OnePrimary' /\ adopted' \subseteq DOMAIN candidates'
  BY <1>9, <1>10 DEF OnePrimary, Primary
<1>12. RowsOf(candidates)' /\ Len(candidates') <= MaxCandidates /\ HasPrimary'
  BY <1>5, <1>6, <1>10 DEF RowsOf, CandidateRow, HasPrimary
<1>13. LayersTyped'
  BY <1>6, <1>10 DEF LayersTyped
<1>14. ~(k + 1 > ReviewKey + 2)
  BY <1>2, <1>4
<1>15. tokens' \in {"none", "punctuated", "typed"} /\ aligner' \in Outcomes \cup {"none"}
  BY <1>10
<1> QED
  BY <1>1, <1>4, <1>10, <1>11, <1>12, <1>13, <1>14, <1>15, HandlerGoes

LEMMA WritingGoes ==
    ASSUME StagesInv, UNCHANGED options,
           Terminology \/ Punctuation \/ ForcedAlignment \/ (FinalValidation /\ failure' = "none")
    PROVE  StagesInv'
<1>1. PICK k \in Nat : Proceeds(k)
  BY DEF StagesInv
<1>2. /\ options \in Jobs /\ Len(SegmentStages) = ReviewKey + 4 /\ global \in 0..6 /\ ReviewKey \in {2, 4}
  BY Bounds, StageOrder
<1>3. running \in {"terminology", "punctuation", "forced_alignment", "final_validation"}
  BY DEF Terminology, Punctuation, ForcedAlignment, FinalValidation, AtSegment
<1>4. /\ k > ReviewKey /\ global = 6 /\ k \in 1..Len(SegmentStages) /\ running = SegmentStages[k]
      /\ (Terminology => k = ReviewKey + 1) /\ (Punctuation => k = ReviewKey + 2)
      /\ (ForcedAlignment => k = ReviewKey + 3) /\ (FinalValidation => k = ReviewKey + 4)
  <2>1. \/ k = ReviewKey + 1 \/ k = ReviewKey + 2 \/ k = ReviewKey + 3 \/ k = ReviewKey + 4
    BY <1>1, <1>2, <1>3, Standing
  <2>2. global = 6
    BY <1>1, <1>2, <1>3, Standing
  <2>3. running = SegmentStages[k]
    BY <1>2, <2>1, <1>3, <1>1, Standing, StageOrder
  <2>4. /\ (Terminology => k = ReviewKey + 1) /\ (Punctuation => k = ReviewKey + 2)
        /\ (ForcedAlignment => k = ReviewKey + 3) /\ (FinalValidation => k = ReviewKey + 4)
    BY <1>1, <1>2, Standing DEF Terminology, Punctuation, ForcedAlignment, FinalValidation, AtSegment
  <2> QED
    BY <1>2, <2>1, <2>2, <2>3, <2>4
<1>5. HasPrimary
  BY <1>1, <1>2, <1>4 DEF Proceeds
<1>6. /\ RowsOf(candidates) /\ Len(candidates) <= MaxCandidates /\ LayersTyped
      /\ adopted \subseteq DOMAIN candidates /\ OnePrimary
      /\ tokens \in {"none", "punctuated", "typed"} /\ aligner \in Outcomes \cup {"none"}
  BY DEF StagesInv, Typed, StagesTypeOK, LayersTyped
<1>16. FinalValidation => ~Raise("no_timing")
  <2>1. FinalValidation => ~Terminology /\ ~Punctuation /\ ~ForcedAlignment
    BY <1>2, <1>4
  <2> QED
    BY <2>1 DEF Raise
<1>7. /\ UNCHANGED <<candidates, adopted, globalVars, outside>> /\ Commit(SegmentStages[k])
  BY <1>4, <1>16 DEF Terminology, Punctuation, ForcedAlignment, FinalValidation, AtSegment
<1>8. OnePrimary' /\ adopted' \subseteq DOMAIN candidates' /\ HasPrimary'
  <2>1. "quality_and_review" \notin todo
    BY <1>1, <1>2, <1>4, StageOrder, LeftOver DEF Proceeds
  <2> QED
    BY <1>5, <1>6, <1>7, <2>1 DEF OnePrimary, Primary, HasPrimary
<1>9. RowsOf(candidates)' /\ Len(candidates') <= MaxCandidates
  BY <1>6, <1>7 DEF RowsOf, CandidateRow
<1>10. LayersTyped' /\ (k + 1 > ReviewKey + 2 => layers'.smart = "punctuated")
  <2>1. k > ReviewKey + 2 => layers.smart = "punctuated"
    BY <1>1, <1>4 DEF Proceeds
  <2>2. CASE Terminology
    <3>1. layers' = [layers EXCEPT !.smart = "terms"]
      BY <2>2 DEF Terminology
    <3>2. ~(k + 1 > ReviewKey + 2)
      BY <1>2, <1>4, <2>2
    <3> QED
      BY <1>6, <3>1, <3>2 DEF LayersTyped
  <2>3. CASE Punctuation
    <3>1. layers' = [layers EXCEPT !.faithful = "punctuated", !.smart = "punctuated"]
      BY <2>3 DEF Punctuation
    <3> QED
      BY <1>6, <3>1 DEF LayersTyped
  <2>4. CASE ForcedAlignment \/ FinalValidation
    <3>1. UNCHANGED layers
      BY <2>4, <1>16 DEF ForcedAlignment, FinalValidation
    <3>2. k > ReviewKey + 2
      BY <1>2, <1>4, <2>4
    <3> QED
      BY <1>6, <2>1, <3>1, <3>2 DEF LayersTyped
  <2> QED
    BY <2>2, <2>3, <2>4
<1>11. tokens' \in {"none", "punctuated", "typed"} /\ aligner' \in Outcomes \cup {"none"}
  <2>1. CASE ForcedAlignment
    <3>1. layers.smart = "punctuated"
      BY <1>1, <1>2, <1>4, <2>1 DEF Proceeds
    <3>2. FinalText \in {"punctuated", "", "typed"}
      BY <1>6, <3>1 DEF FinalText, LayersTyped
    <3> QED
      BY <2>1, <3>2 DEF ForcedAlignment, Outcomes
  <2>2. CASE ~ForcedAlignment
    BY <1>6, <1>16, <2>2 DEF Terminology, Punctuation, FinalValidation
  <2> QED
    BY <2>1, <2>2
<1> QED
  BY <1>1, <1>4, <1>7, <1>8, <1>9, <1>10, <1>11, HandlerGoes

LEMMA RestGoes ==
    ASSUME StagesInv, UNCHANGED options,
           \/ Begin \/ StageFails \/ Interrupted \/ (\E error \in {"conflict", "no_timing"} : Raise(error))
           \/ EditGlossary \/ EditText \/ ChangeModels \/ RetrySegment \/ AskToYield \/ Resume
    PROVE  StagesInv'
<1>1. PICK k \in Nat : Proceeds(k)
  BY DEF StagesInv
<1>2. /\ options \in Jobs /\ Len(SegmentStages) = ReviewKey + 4 /\ global \in 0..6 /\ ReviewKey \in {2, 4}
      /\ MaxLosses \in Nat /\ MaxEdits \in Nat
      /\ stageBudget \in [edits : 0..MaxEdits, losses : 0..MaxLosses]
  BY Bounds, StageOrder
<1>3. UNCHANGED <<Windows, Entries, MaxLosses, MaxEdits, MaxCandidates, SegmentStages, ReviewKey, Ranking>>
  BY SameJob
<1>4. /\ UNCHANGED <<candidates, adopted, tokens, aligner, global, master, duration, answered, asked>>
      /\ UNCHANGED attempts \/ attempts' = NoAttempts
  BY DEF Begin, StageFails, Interrupted, Raise, EditGlossary, EditText, ChangeModels, RetrySegment,
     AskToYield, Resume, globalVars, segmentVars
<1>5. UNCHANGED layers \/ \E text \in {"", "typed"} : layers' = [layers EXCEPT !.user = text]
  BY DEF Begin, StageFails, Interrupted, Raise, EditGlossary, EditText, ChangeModels, RetrySegment,
     AskToYield, Resume, globalVars, segmentVars
<1>6. LayersTyped' /\ layers'.smart = layers.smart
  <2>1. LayersTyped
    BY DEF StagesInv, Typed, StagesTypeOK, LayersTyped
  <2> QED
    BY <1>5, <2>1 DEF LayersTyped
<1>7. stageBudget' \in [edits : 0..MaxEdits, losses : 0..MaxLosses]
      /\ stageBudget'.losses <= stageBudget.losses
  <2>1. \/ UNCHANGED stageBudget
        \/ stageBudget.losses > 0 /\ stageBudget' = [stageBudget EXCEPT !.losses = @ - 1]
        \/ stageBudget.edits > 0 /\ stageBudget' = [stageBudget EXCEPT !.edits = @ - 1]
    BY DEF Begin, StageFails, Interrupted, Raise, EditGlossary, EditText, ChangeModels, RetrySegment,
       AskToYield, Resume, outside, Loses, Edit
  <2> QED
    BY <1>2, <2>1
<1>8. /\ models' \in [installed : SUBSET RangeOf(Ranking), revision : 1..2]
      /\ glossary' \subseteq {"suspect", "conflict"} /\ yield' \in BOOLEAN
      /\ failure' \in {"none", "conflict", "no_timing", "lost"}
  <2>1. /\ models \in [installed : SUBSET RangeOf(Ranking), revision : 1..2]
        /\ glossary \subseteq {"suspect", "conflict"} /\ yield \in BOOLEAN
        /\ failure \in {"none", "conflict", "no_timing", "lost"}
    BY DEF StagesInv, Typed, StagesTypeOK
  <2>2. models' \in [installed : SUBSET RangeOf(Ranking), revision : 1..2]
    <3>1. CASE UNCHANGED models
      BY <2>1, <3>1
    <3>2. ASSUME NEW m \in RangeOf(Ranking),
                 models' = [models EXCEPT !.installed = IF m \in @ THEN @ \ {m} ELSE @ \cup {m}]
          PROVE  models' \in [installed : SUBSET RangeOf(Ranking), revision : 1..2]
      <4>1. PICK S \in SUBSET RangeOf(Ranking) : models' = [models EXCEPT !.installed = S]
        <5>1. (IF m \in models.installed THEN models.installed \ {m} ELSE models.installed \cup {m})
              \in SUBSET RangeOf(Ranking)
          BY <2>1, <3>2
        <5> QED
          BY <3>2, <5>1
      <4> QED
        BY <2>1, <4>1
    <3>3. CASE models' = [models EXCEPT !.revision = 2]
      BY <2>1, <3>3
    <3> QED
      BY <3>1, <3>2, <3>3 DEF Begin, StageFails, Interrupted, Raise, EditGlossary, EditText, ChangeModels,
         RetrySegment, AskToYield, Resume, outside
  <2>3. glossary' \subseteq {"suspect", "conflict"} /\ yield' \in BOOLEAN
    BY <2>1 DEF Begin, StageFails, Interrupted, Raise, EditGlossary, EditText, ChangeModels,
       RetrySegment, AskToYield, Resume, outside
  <2>4. failure' \in {"none", "conflict", "no_timing", "lost"}
    BY <2>1 DEF Begin, StageFails, Interrupted, Raise, EditGlossary, EditText, ChangeModels,
       RetrySegment, AskToYield, Resume, Loses
  <2> QED
    BY <2>2, <2>3, <2>4
<1>9. (\E i \in Nat : Proceeds(i)') /\ OnePrimary' /\ todo' \subseteq RangeOf(SegmentStages)
      /\ running' \in {"none"} \cup RangeOf(GlobalStages) \cup RangeOf(SegmentStages)
  <2>1. todo \subseteq RangeOf(SegmentStages)
        /\ running \in {"none"} \cup RangeOf(GlobalStages) \cup RangeOf(SegmentStages)
    BY DEF StagesInv, Typed, StagesTypeOK
  <2>2. ASSUME UNCHANGED todo, running' \in {"none", running}
        PROVE  Proceeds(k)' /\ OnePrimary'
    BY <1>1, <1>3, <1>4, <1>6, <2>2 DEF Proceeds, OnePrimary, Primary, HasPrimary, StagesInv, LeftFrom
  <2>3. CASE StageFails \/ Interrupted \/ (\E error \in {"conflict", "no_timing"} : Raise(error))
             \/ EditGlossary \/ EditText \/ ChangeModels \/ AskToYield \/ Resume
    <3>1. UNCHANGED todo /\ running' \in {"none", running}
      BY <2>3 DEF StageFails, Interrupted, Raise, EditGlossary, EditText, ChangeModels,
         AskToYield, Resume, segmentVars, Ends
    <3> QED
      BY <2>1, <2>2, <3>1
  <2>4. CASE Begin
    <3>1. running = "none" /\ running' = NextKey /\ NextKey # "none" /\ UNCHANGED todo
      BY <2>4 DEF Begin, segmentVars
    <3>2. CASE global < 6
      <4>1. running' = GlobalStages[global + 1]
        BY <1>2, <3>1, <3>2, GlobalOrder DEF NextKey
      <4>2. Proceeds(k)'
        BY <1>1, <1>3, <1>4, <1>6, <3>1, <3>2, <4>1 DEF Proceeds, HasPrimary, LeftFrom
      <4>3. running' \in RangeOf(GlobalStages)
        BY <1>2, <3>2, <4>1, GlobalOrder DEF RangeOf
      <4>4. OnePrimary'
        BY <1>4, <3>1 DEF OnePrimary, Primary, StagesInv
      <4> QED
        BY <2>1, <3>1, <4>2, <4>3, <4>4
    <3>3. CASE global = 6
      <4>1. todo # {}
        BY <3>1, <3>3, GlobalOrder DEF NextKey
      <4>2. k \in 1..Len(SegmentStages)
        <5>1. k # Len(SegmentStages) + 1
          BY <1>1, <1>2, <4>1, LeftOver DEF Proceeds
        <5> QED
          BY <1>1, <1>2, <5>1 DEF Proceeds
      <4>3. running' = SegmentStages[k]
        BY <1>1, <1>2, <3>1, <3>3, <4>2, NextOfSegment DEF Proceeds
      <4>4. Proceeds(k)'
        BY <1>1, <1>2, <1>3, <1>4, <1>6, <3>1, <3>3, <4>2, <4>3 DEF Proceeds, HasPrimary, LeftFrom
      <4>5. running' \in RangeOf(SegmentStages)
        BY <4>2, <4>3 DEF RangeOf
      <4>6. OnePrimary'
        BY <1>4, <3>1 DEF OnePrimary, Primary, StagesInv
      <4> QED
        BY <2>1, <3>1, <4>4, <4>5, <4>6
    <3> QED
      BY <1>2, <3>2, <3>3
  <2>5. CASE RetrySegment
    <3>1. todo' = RangeOf(SegmentStages) /\ global = 6 /\ running' = "none"
      BY <2>5, GlobalOrder DEF RetrySegment
    <3>2. todo' = LeftFrom(1)
      BY <1>2, <3>1, LeftOver
    <3>3. "quality_and_review" \in todo'
      <4>1. ReviewKey \in 1..Len(SegmentStages) /\ ReviewKey >= 1 /\ SegmentStages[ReviewKey] = "quality_and_review"
        BY <1>2, StageOrder
      <4> QED
        BY <1>2, <3>2, <4>1, LeftOver
    <3>4. Proceeds(1)'
      BY <1>2, <1>3, <1>4, <3>1, <3>2 DEF Proceeds, LeftFrom
    <3>5. OnePrimary'
      BY <3>3 DEF OnePrimary
    <3> QED
      BY <3>1, <3>4, <3>5
  <2> QED
    BY <2>3, <2>4, <2>5
<1>10. /\ attempts' = [m \in {"moss", "pyannote"} |-> attempts'[m]]
       /\ \A m \in {"moss", "pyannote"} :
            attempts'[m] \in Seq(Outcomes) /\ Len(attempts'[m]) <= MaxAttempts /\ RangeOf(attempts'[m]) \subseteq Outcomes
  <2>1. CASE UNCHANGED attempts
    BY <2>1 DEF StagesInv, Typed, StagesTypeOK
  <2>2. CASE attempts' = NoAttempts
    <3>1. \A m \in {"moss", "pyannote"} : attempts'[m] = <<>>
      BY <2>2 DEF NoAttempts
    <3>2. <<>> \in Seq(Outcomes) /\ Len(<<>>) = 0
      OBVIOUS
    <3>3. Len(<<>>) <= MaxAttempts /\ RangeOf(<<>>) \subseteq Outcomes
      BY <3>2 DEF MaxAttempts, RangeOf
    <3>4. attempts' = [m \in {"moss", "pyannote"} |-> attempts'[m]]
      BY <2>2 DEF NoAttempts
    <3> QED
      BY <3>1, <3>2, <3>3, <3>4
  <2> QED
    BY <1>4, <2>1, <2>2
<1>11. AnswersCount' /\ (asked \in [Entries -> Nat])'
  <2>1. AnswersCount /\ asked \in [Entries -> Nat]
    BY DEF StagesInv, Typed
  <2>2. models.revision \in 1..2 /\ models'.revision >= models.revision
    <3>1. models \in [installed : SUBSET RangeOf(Ranking), revision : 1..2]
      BY DEF StagesInv, Typed, StagesTypeOK
    <3>2. \/ UNCHANGED models
          \/ \E S : models' = [models EXCEPT !.installed = S]
          \/ models' = [models EXCEPT !.revision = 2]
      BY DEF Begin, StageFails, Interrupted, Raise, EditGlossary, EditText, ChangeModels,
         RetrySegment, AskToYield, Resume, outside
    <3> QED
      BY <3>1, <3>2
  <2>3. \A e \in Entries : e[2] \in 1..2
    BY DEF Entries
  <2>4. UNCHANGED <<asked, answered, Entries>> /\ MaxLosses' = MaxLosses
    BY <1>3, <1>4
  <2>5. stageBudget.losses \in Nat /\ stageBudget'.losses \in Nat /\ MaxLosses \in Nat
    BY <1>2, <1>7
  <2>6. ASSUME NEW e \in Entries
        PROVE  /\ asked[e] <= MaxLosses - stageBudget'.losses + (IF e \in answered THEN 1 ELSE 0)
               /\ e[2] > models'.revision => asked[e] = 0
    <3>1. /\ asked[e] <= MaxLosses - stageBudget.losses + (IF e \in answered THEN 1 ELSE 0)
          /\ e[2] > models.revision => asked[e] = 0
          /\ asked[e] \in Nat /\ e[2] \in 1..2
      BY <2>1, <2>3 DEF AnswersCount
    <3>2. stageBudget'.losses <= stageBudget.losses
      BY <1>7
    <3>3. asked[e] <= MaxLosses - stageBudget'.losses + (IF e \in answered THEN 1 ELSE 0)
      BY <2>5, <3>1, <3>2
    <3>4. e[2] > models'.revision => e[2] > models.revision
      <4>1. models'.revision \in Int
        BY <1>8
      <4> QED
        BY <2>2, <3>1, <4>1
    <3> QED
      BY <3>1, <3>3, <3>4
  <2> QED
    BY <2>1, <2>4, <2>6 DEF AnswersCount
<1>12. StagesTypeOK'
  <2>1. StagesTypeOK
    BY DEF StagesInv, Typed
  <2>2. /\ global' \in 0..Len(GlobalStages) /\ master' \in {"none", "whole"} /\ duration' \in BOOLEAN
        /\ answered' \subseteq Entries' /\ asked' \in [Entries' -> 0..1 + MaxLosses']
        /\ Len(candidates') <= MaxCandidates' /\ adopted' \subseteq DOMAIN candidates'
        /\ tokens' \in {"none", "punctuated", "typed"} /\ aligner' \in Outcomes \cup {"none"}
    BY <1>3, <1>4, <2>1 DEF StagesTypeOK
  <2>3. /\ models' \in [installed : SUBSET RangeOf(Ranking)', revision : 1..2]
        /\ todo' \subseteq RangeOf(SegmentStages)'
        /\ running' \in {"none"} \cup RangeOf(GlobalStages) \cup RangeOf(SegmentStages)'
        /\ stageBudget' \in [edits : 0..MaxEdits', losses : 0..MaxLosses']
    BY <1>3, <1>7, <1>8, <1>9
  <2>4. DOMAIN attempts' = {"moss", "pyannote"}
        /\ \A m \in DOMAIN attempts' : Len(attempts'[m]) <= MaxAttempts /\ RangeOf(attempts'[m]) \subseteq Outcomes
    BY <1>10
  <2> QED
    BY <1>6, <1>8, <2>2, <2>3, <2>4 DEF StagesTypeOK, LayersTyped
<1>13. RowsOf(candidates)'
  BY <1>4 DEF StagesInv, Typed, RowsOf, CandidateRow
<1>14. Typed'
  BY <1>2, <1>10, <1>11, <1>12, <1>13 DEF Typed
<1> QED
  BY <1>9, <1>11, <1>14 DEF StagesInv

LEMMA StagesGo == StagesInv /\ [StagesNext]_stageVars => StagesInv'
<1> SUFFICES ASSUME StagesInv, [StagesNext]_stageVars PROVE StagesInv'
  OBVIOUS
<1>1. CASE UNCHANGED stageVars
  <2>1. UNCHANGED options /\ UNCHANGED <<global, master, duration, answered, asked, todo, candidates, adopted,
                 layers, tokens, glossary, models, failure, running, yield, attempts, aligner, stageBudget>>
    BY <1>1 DEF stageVars, handlerVars
  <2>2. UNCHANGED <<Windows, Entries, MaxLosses, MaxEdits, MaxCandidates, SegmentStages, ReviewKey, Ranking>>
    BY <2>1, SameJob
  <2>7. StagesTypeOK'
    <3>1. StagesTypeOK
      BY DEF StagesInv, Typed
    <3>2. /\ global' \in 0..Len(GlobalStages) /\ master' \in {"none", "whole"} /\ duration' \in BOOLEAN
          /\ answered' \subseteq Entries' /\ asked' \in [Entries' -> 0..1 + MaxLosses']
          /\ todo' \subseteq RangeOf(SegmentStages)'
          /\ Len(candidates') <= MaxCandidates' /\ adopted' \subseteq DOMAIN candidates'
      BY <2>1, <2>2, <3>1 DEF StagesTypeOK
    <3>3. /\ LayersTyped'
          /\ tokens' \in {"none", "punctuated", "typed"}
          /\ glossary' \subseteq {"suspect", "conflict"}
          /\ models' \in [installed : SUBSET RangeOf(Ranking)', revision : 1..2]
      BY <2>1, <2>2, <3>1 DEF StagesTypeOK, LayersTyped
    <3>4. /\ failure' \in {"none", "conflict", "no_timing", "lost"}
          /\ running' \in {"none"} \cup RangeOf(GlobalStages) \cup RangeOf(SegmentStages)'
          /\ yield' \in BOOLEAN /\ aligner' \in Outcomes \cup {"none"}
          /\ stageBudget' \in [edits : 0..MaxEdits', losses : 0..MaxLosses']
      BY <2>1, <2>2, <3>1 DEF StagesTypeOK
    <3>5. /\ DOMAIN attempts' = {"moss", "pyannote"}
          /\ \A m \in DOMAIN attempts' : Len(attempts'[m]) <= MaxAttempts /\ RangeOf(attempts'[m]) \subseteq Outcomes
      BY <2>1, <3>1 DEF StagesTypeOK
    <3> QED
      BY <3>2, <3>3, <3>4, <3>5 DEF StagesTypeOK, LayersTyped
  <2>8. RowsOf(candidates)'
    BY <2>1 DEF StagesInv, Typed, RowsOf, CandidateRow
  <2>3. Typed'
    BY <2>1, <2>2, <2>7, <2>8 DEF StagesInv, Typed
  <2>4. AnswersCount' /\ OnePrimary'
    BY <2>1, <2>2 DEF StagesInv, AnswersCount, OnePrimary, Primary
  <2>5. PICK k \in Nat : Proceeds(k)
    BY DEF StagesInv
  <2>6. Proceeds(k)'
    BY <2>1, <2>2, <2>5 DEF Proceeds, HasPrimary, LeftFrom
  <2> QED
    BY <2>3, <2>4, <2>5, <2>6 DEF StagesInv
<1>2. ASSUME StagesNext PROVE StagesInv'
  <2>1. UNCHANGED options
    BY <1>2 DEF StagesNext
  <2>2. CASE QualityTertiary /\ failure' # "none"
    <3>1. Raise("conflict")
      BY <2>2 DEF QualityTertiary, Commit
    <3> QED
      BY <2>1, <3>1, RestGoes
  <2>3. CASE QualityFinish /\ failure' # "none"
    <3>1. Raise("conflict")
      BY <2>3 DEF QualityFinish, Adopt, Commit
    <3> QED
      BY <2>1, <3>1, RestGoes
  <2>4. CASE FinalValidation /\ failure' # "none"
    <3>1. Raise("no_timing")
      BY <2>4 DEF FinalValidation, Commit
    <3> QED
      BY <2>1, <3>1, RestGoes
  <2>5. CASE RewriteRecording \/ NormalizeAudioMaster \/ (\E w \in Windows : LidWindow(w)) \/ LidRoute
    BY <2>1, <2>5, GlobalGoes
  <2>6. CASE MossStructure \/ (\E m \in {"moss", "pyannote"} : StructureAttempt(m))
    BY <2>1, <2>6, SegmentStarts
  <2>7. CASE PrimaryAsr \/ QualitySecondary \/ (QualityTertiary /\ failure' = "none")
    BY <2>1, <2>7, ReviewGoes
  <2>8. CASE QualityFinish /\ failure' = "none"
    BY <2>1, <2>8, FinishGoes
  <2>9. CASE Terminology \/ Punctuation \/ ForcedAlignment \/ (FinalValidation /\ failure' = "none")
    BY <2>1, <2>9, WritingGoes
  <2>10. CASE \/ Begin \/ StageFails \/ Interrupted
              \/ EditGlossary \/ EditText \/ ChangeModels \/ RetrySegment \/ AskToYield \/ Resume
    BY <2>1, <2>10, RestGoes
  <2> QED
    BY <1>2, <2>2, <2>3, <2>4, <2>5, <2>6, <2>7, <2>8, <2>9, <2>10 DEF StagesNext, StageWork
<1> QED
  BY <1>1, <1>2

LEMMA StagesHold == StagesInv => StagesTypeOK /\ OnePrimary /\ AskedOnce
<1> SUFFICES ASSUME StagesInv PROVE AskedOnce
  BY DEF StagesInv, Typed
<1>1. MaxLosses \in Nat /\ stageBudget \in [edits : 0..MaxEdits, losses : 0..MaxLosses]
  BY Bounds
<1> QED
  BY <1>1 DEF AskedOnce, AnswersCount, StagesInv, Typed

-----------------------------------------------------------------------------
(* Installed models.                                                        *)

Busy == Places \ {"off", "locking"}

\* What a thread that has the mutation lock knows of its revision.
KnowsRevision(t) ==
    LET r == op[t].rev IN
    op[t].at \in Busy =>
        /\ mutation = t /\ r \in Revisions
        /\ op[t].do \in {"install", "delete"} => pointer # r
        /\ op[t].at \in {"recording", "activating"} => disk[r] = "healthy"
InstallInv ==
    /\ InstallTypeOK /\ ActiveIsHealthy
    /\ \A t \in Threads : KnowsRevision(t) /\ (op[t] # NoOp => op[t].rev \in Revisions)

LEMMA InstallStarts == InstallInit => InstallInv
BY InstallAssumption DEF InstallInit, InstallInv, InstallTypeOK, ActiveIsHealthy, KnowsRevision, Busy, Places, NoOp, Contents

LEMMA InstallGoes ==
    ASSUME InstallInv, InstallNext
    PROVE  InstallInv'
<1> USE InstallAssumption DEF InstallInv, InstallTypeOK, ActiveIsHealthy, KnowsRevision, Busy,
        Places, NoOp, NoRevision, Contents, Doing, Goes, Leaves, Stage, Holds, Errs
<1>1. CASE RestartCore
  BY <1>1 DEF RestartCore
<1>2. ASSUME NEW r \in Revisions, RequestInstall(r) PROVE InstallInv'
  BY <1>2 DEF RequestInstall
<1>3. ASSUME NEW t \in Threads, NEW r \in Revisions, Confirm(t, r) PROVE InstallInv'
  BY <1>3 DEF Confirm, Enters
<1>4. ASSUME NEW t \in Threads, NEW r \in Revisions, NEW do \in {"delete", "rollback"}, Ask(t, do, r)
      PROVE  InstallInv'
  BY <1>4 DEF Ask, Enters
<1>5. ASSUME NEW t \in Threads, InstallLocked(t) PROVE InstallInv'
  BY <1>5 DEF InstallLocked, Refused, Reusable
<1>6. ASSUME NEW t \in Threads, Downloaded(t) \/ DownloadFails(t) PROVE InstallInv'
  BY <1>6 DEF Downloaded, DownloadFails
<1>11. ASSUME NEW t \in Threads, PublishFiles(t) PROVE InstallInv'
  BY <1>11 DEF PublishFiles
<1>7. ASSUME NEW t \in Threads, Checked(t) \/ Record(t) \/ Activate(t) PROVE InstallInv'
  BY <1>7 DEF Checked, Record, Activate
<1>8. ASSUME NEW t \in Threads, InstallFails(t) \/ Undo(t) PROVE InstallInv'
  BY <1>8 DEF InstallFails, Undo
<1>9. ASSUME NEW t \in Threads, DeleteLocked(t) \/ DeleteFiles(t) \/ DeleteRow(t) PROVE InstallInv'
  BY <1>9 DEF DeleteLocked, DeleteFiles, DeleteRow
<1>10. ASSUME NEW t \in Threads, RollbackLocked(t) \/ SwitchBack(t) PROVE InstallInv'
  BY <1>10 DEF RollbackLocked, SwitchBack
<1> QED
  BY <1>1, <1>2, <1>3, <1>4, <1>5, <1>6, <1>7, <1>8, <1>9, <1>10, <1>11 DEF InstallNext

-----------------------------------------------------------------------------
(* Imports.                                                                 *)

\* A request somebody waits for is about the item its tab works on, and the only one.
Serves(r) ==
    /\ r.call = "job" => r.range # "ask"
    /\ r.call = "clip" => r.range \in {"a", "b"}
    /\ r.tab # "gone" =>
         /\ draining[r.tab] = r.item
         /\ items[r.tab][r.item].state \in {"uploading", "submitting"}
         /\ items[r.tab][r.item].range = r.range
Submitted(item, i) == item.state = "done" => \E j \in jobs : j.key = i /\ j.range = item.range
ListsInv ==
    /\ items \in [Tabs -> [Items -> Item]] /\ saved \in [Items -> Item]
    /\ draining \in [Tabs -> Items \cup {NoItem}] /\ requests \subseteq ApiRequest
    /\ \A r \in requests : Serves(r)
    /\ \A r, q \in requests : (r.tab = q.tab /\ r.tab # "gone") => r = q
    /\ \A i \in Items : Submitted(saved[i], i) /\ \A t \in Tabs : Submitted(items[t][i], i)
RowsInv ==
    /\ uploaded \subseteq Items /\ clips \subseteq Items \X {"a", "b"}
    /\ jobs \subseteq [id : Nat \ {0}, key : Items, range : {"whole", "a", "b"}]
    /\ IsFiniteSet(jobs)
    /\ quota \in [stops : 0..MaxStops, lost : 0..MaxLost]
    /\ \A j, k \in jobs : j.key = k.key => j = k
    /\ \A c, d \in clips : c[1] = d[1] => c = d
ImportsInv == ListsInv /\ RowsInv

LEMMA ImportsStart == ImportsInit => ImportsInv
BY ImportsAssumption, FS_EmptySet DEF ImportsInit, ImportsInv, ListsInv, RowsInv, New, Item, Submitted

\* A changed state of one item in the list of a tab, and in the saved list.
LEMMA SetsState ==
    ASSUME items \in [Tabs -> [Items -> Item]], NEW t \in Tabs, NEW i \in Items, NEW state,
           state \in {"new", "waiting", "uploading", "prepared", "submitting", "done", "error", "removed"},
           SetState(t, i, state)
    PROVE  /\ items' \in [Tabs -> [Items -> Item]] /\ saved' = items'[t]
           /\ \A u \in Tabs, k \in Items : (u # t \/ k # i) => items'[u][k] = items[u][k]
           /\ items'[t][i].state = state /\ items'[t][i].range = items[t][i].range
<1> DEFINE list == [items[t] EXCEPT ![i].state = state]
<1>1. items[t] \in [Items -> Item] /\ items' = [items EXCEPT ![t] = list] /\ saved' = list
  BY DEF SetState, SetList
<1>2. /\ list \in [Items -> Item] /\ \A k \in Items : k # i => list[k] = items[t][k]
      /\ list[i].state = state /\ list[i].range = items[t][i].range
  BY <1>1 DEF Item
<1> HIDE DEF list
<1> QED
  BY <1>1, <1>2

\* What a tab does with an answer, whose job is there.
LEMMA Answering ==
    ASSUME ListsInv, RowsInv, jobs \subseteq jobs', NEW r \in requests, Answers(r),
           r.call = "job" => \E j \in jobs' : j.key = r.item /\ j.range = r.range
    PROVE  ListsInv'
<1> USE ImportsAssumption DEF ListsInv, Serves, Submitted, Item, ApiRequest
<1>1. r \in ApiRequest /\ Serves(r)
  OBVIOUS
<1>7. \A q \in requests : q.tab \in Tabs \cup {"gone"} /\ q.item \in Items
  OBVIOUS
<1>2. CASE r.tab = "gone"
  BY <1>1, <1>2 DEF Answers, GoOn
<1>3. CASE r.tab # "gone" /\ r.call = "job"
  <2>1. /\ SetState(r.tab, r.item, "done") /\ draining' = [draining EXCEPT ![r.tab] = NoItem]
        /\ requests' = requests \ {r}
    BY <1>3 DEF Answers, GoOn
  <2>2. r.tab \in Tabs /\ r.item \in Items
    BY <1>1, <1>3
  <2> HIDE DEF Item, ApiRequest
  <2>3. /\ items' \in [Tabs -> [Items -> Item]] /\ saved' = items'[r.tab]
        /\ \A u \in Tabs, k \in Items : (u # r.tab \/ k # r.item) => items'[u][k] = items[u][k]
        /\ items'[r.tab][r.item].state = "done" /\ items'[r.tab][r.item].range = r.range
    BY <1>1, <1>3, <2>1, <2>2, SetsState
  <2>4. \A u \in Tabs, k \in Items : Submitted(items[u][k], k)'
    BY <1>3, <2>3
  <2>5. \A q \in requests' : q \in requests /\ q.tab # r.tab /\ Serves(q)'
    BY <1>1, <1>3, <1>7, <2>1, <2>2, <2>3
  <2>6. saved' \in [Items -> Item] /\ \A k \in Items : Submitted(saved[k], k)'
    BY <2>2, <2>3, <2>4
  <2>7. draining' \in [Tabs -> Items \cup {NoItem}]
    BY <2>1
  <2>8. /\ requests' \subseteq ApiRequest
        /\ \A p, q \in requests' : (p.tab = q.tab /\ p.tab # "gone") => p = q
    BY <2>1
  <2> HIDE DEF Submitted, Serves
  <2> QED
    BY <2>3, <2>4, <2>5, <2>6, <2>7, <2>8
<1>4. ASSUME r.tab # "gone", Submit(r.tab, r.item, r.range, requests \ {r}), r.range # "ask" PROVE ListsInv'
  <2>1. r.tab \in Tabs /\ r.item \in Items
    BY <1>1, <1>4
  <2>2. Sent(r.tab, r.item, "job", r.range) \in ApiRequest
    BY <1>1, <2>1 DEF Sent, RowsInv
  <2> HIDE DEF Item, ApiRequest
  <2>3. /\ items' \in [Tabs -> [Items -> Item]] /\ saved' = items'[r.tab]
        /\ \A u \in Tabs, k \in Items : (u # r.tab \/ k # r.item) => items'[u][k] = items[u][k]
        /\ items'[r.tab][r.item].state = "submitting" /\ items'[r.tab][r.item].range = r.range
    BY <1>1, <1>4, <2>1, SetsState DEF Submit
  <2>4. \A u \in Tabs, k \in Items : Submitted(items[u][k], k)'
    BY <2>3
  <2>5. \A q \in requests \ {r} : q.tab # r.tab /\ Serves(q)'
    BY <1>1, <1>4, <1>7, <2>1, <2>3 DEF Submit
  <2>6. PICK q : q = Sent(r.tab, r.item, "job", r.range) /\ requests' = (requests \ {r}) \cup {q}
    BY <1>4 DEF Submit
  <2>7. q \in ApiRequest /\ q.tab = r.tab /\ Serves(q)'
    BY <1>1, <1>4, <2>1, <2>2, <2>3, <2>6 DEF Submit, Sent
  <2>8. saved' \in [Items -> Item] /\ \A k \in Items : Submitted(saved[k], k)'
    BY <2>1, <2>3, <2>4
  <2>9. /\ requests' \subseteq ApiRequest /\ draining' = draining
        /\ \A p, s \in requests' : (p.tab = s.tab /\ p.tab # "gone") => p = s
    BY <1>4, <2>5, <2>6, <2>7 DEF Submit
  <2> HIDE DEF Submitted, Serves
  <2> QED
    BY <2>3, <2>4, <2>5, <2>6, <2>7, <2>8, <2>9
<1>5. CASE r.tab # "gone" /\ r.call = "clip"
  BY <1>1, <1>4, <1>5 DEF Answers, GoOn
<1>6. CASE r.tab # "gone" /\ r.call \in {"get", "put"}
  <2>1. CASE /\ r.range = "ask" /\ SetState(r.tab, r.item, "prepared")
             /\ draining' = [draining EXCEPT ![r.tab] = NoItem] /\ requests' = requests \ {r}
    BY <1>1, <1>6, <2>1 DEF SetState, SetList, NoItem
  <2>2. CASE /\ r.range \in {"a", "b"}
             /\ requests' = (requests \ {r}) \cup {Sent(r.tab, r.item, "clip", r.range)}
             /\ UNCHANGED <<items, saved, draining>>
    BY <1>1, <1>6, <2>2 DEF Sent, RowsInv
  <2> QED
    BY <1>1, <1>4, <1>6, <2>1, <2>2 DEF Answers, GoOn
<1> QED
  BY <1>1, <1>2, <1>3, <1>5, <1>6

\* A tab stops working on its item: nobody waits for its request any more.
LEMMA Leaving ==
    ASSUME ListsInv, jobs \subseteq jobs', NEW t \in Tabs, NEW list \in [Items -> Item],
           items' = [items EXCEPT ![t] = list], saved' \in {list, saved},
           \A k \in Items : Submitted(list[k], k),
           draining' = [draining EXCEPT ![t] = NoItem], requests' \subseteq ApiRequest,
           \A q \in requests' :
               \/ q \in requests /\ q.tab # t
               \/ /\ q.tab = "gone"
                  /\ q.call = "job" => q.range # "ask"
                  /\ q.call = "clip" => q.range \in {"a", "b"}
    PROVE  ListsInv'
<1> USE ImportsAssumption DEF ListsInv, Serves
<1>1. \A q \in requests : q.tab \in Tabs \cup {"gone"} /\ q.item \in Items
  BY DEF ApiRequest
<1>5. \A u \in Tabs : items'[u] = IF u = t THEN list ELSE items[u]
  OBVIOUS
<1>2. \A k \in Items : Submitted(saved[k], k)' /\ \A u \in Tabs : Submitted(items[u][k], k)'
  BY <1>5 DEF Submitted
<1>3. \A q \in requests' : Serves(q)'
  BY <1>1
<1>4. \A p, q \in requests' : (p.tab = q.tab /\ p.tab # "gone") => p = q
  OBVIOUS
<1> HIDE DEF Submitted, Serves
<1> QED
  BY <1>2, <1>3, <1>4

\* The user changes an item that its tab does not work on.
LEMMA Editing ==
    ASSUME ListsInv, jobs \subseteq jobs', NEW t \in Tabs, NEW i \in Items, NEW item \in Item,
           items[t][i].state \notin {"uploading", "submitting"} \/ draining[t] # i,
           SetList(t, [items[t] EXCEPT ![i] = item]), item.state # "done",
           UNCHANGED <<draining, requests>>
    PROVE  ListsInv'
<1> USE ImportsAssumption DEF ListsInv, Serves, SetList
<1>1. \A q \in requests : q.tab \in Tabs \cup {"gone"} /\ q.item \in Items
  BY DEF ApiRequest
<1>2. \A k \in Items : Submitted(saved[k], k)' /\ \A u \in Tabs : Submitted(items[u][k], k)'
  BY DEF Submitted
<1>3. \A q \in requests' : Serves(q)'
  BY <1>1
<1> HIDE DEF Submitted, Serves
<1> QED
  BY <1>2, <1>3

\* A request goes on, as the same one or as the next.
LEMMA Reissuing ==
    ASSUME ListsInv, jobs \subseteq jobs', NEW r \in requests, NEW q \in ApiRequest,
           q.tab = r.tab, q.item = r.item, q.range = r.range, q.call = r.call \/ q.call = "put",
           requests' = (requests \ {r}) \cup {q}, UNCHANGED <<items, saved, draining>>
    PROVE  ListsInv'
BY DEF ListsInv, Serves, Submitted

LEMMA Abandons ==
    ASSUME ListsInv, NEW t \in Tabs
    PROVE  /\ Abandoned(t) \subseteq ApiRequest
           /\ \A q \in Abandoned(t) :
                \/ q \in requests /\ q.tab # t
                \/ /\ q.tab = "gone"
                   /\ q.call = "job" => q.range # "ask"
                   /\ q.call = "clip" => q.range \in {"a", "b"}
<1>1. ASSUME NEW r \in requests
      PROVE  LET q == [r EXCEPT !.tab = "gone"] IN
             /\ q \in ApiRequest /\ q.tab = "gone" /\ q.call = r.call /\ q.range = r.range
  BY DEF ListsInv, ApiRequest
<1>2. ASSUME NEW q \in Abandoned(t)
      PROVE  \/ q \in requests /\ q.tab # t
             \/ \E r \in requests : q = [r EXCEPT !.tab = "gone"]
  BY <1>2 DEF Abandoned, Orphaned, RequestsOf
<1>3. ASSUME NEW q \in Abandoned(t)
      PROVE  /\ q \in ApiRequest
             /\ \/ q \in requests /\ q.tab # t
                \/ /\ q.tab = "gone"
                   /\ q.call = "job" => q.range # "ask"
                   /\ q.call = "clip" => q.range \in {"a", "b"}
  <2>1. CASE q \in requests /\ q.tab # t
    BY <2>1 DEF ListsInv
  <2>2. ASSUME NEW r \in requests, q = [r EXCEPT !.tab = "gone"]
        PROVE  /\ q \in ApiRequest /\ q.tab = "gone"
               /\ q.call = "job" => q.range # "ask"
               /\ q.call = "clip" => q.range \in {"a", "b"}
    BY <1>1, <2>2 DEF ListsInv, Serves
  <2> QED
    BY <1>2, <1>3, <2>1, <2>2
<1> QED
  BY <1>3

\* An error for the tab of a request, and the request gone or without its tab.
LEMMA Failing ==
    ASSUME ListsInv, jobs \subseteq jobs', NEW r \in requests, r.tab # "gone",
           SetState(r.tab, r.item, "error"), draining' = [draining EXCEPT ![r.tab] = NoItem],
           requests' \in {requests \ {r}, (requests \ {r}) \cup Orphaned({r})}
    PROVE  ListsInv'
<1>1. PICK t \in Tabs, i \in Items : t = r.tab /\ i = r.item
  BY DEF ListsInv, ApiRequest
<1>2. PICK list : list = [items[t] EXCEPT ![i].state = "error"]
  OBVIOUS
<1>3. list \in [Items -> Item] /\ \A k \in Items : list[k] = items[t][k] \/ list[k].state = "error"
  <2>1. items[t] \in [Items -> Item] /\ items[t][i] \in Item
    BY DEF ListsInv
  <2>2. PICK item : item = [items[t][i] EXCEPT !.state = "error"]
    OBVIOUS
  <2>3. item \in Item /\ item.state = "error"
    BY <2>1, <2>2 DEF Item
  <2>4. list = [items[t] EXCEPT ![i] = item]
    BY <1>2, <2>2
  <2> QED
    BY <2>1, <2>3, <2>4
<1>4. items' = [items EXCEPT ![t] = list] /\ saved' = list
  BY <1>1, <1>2 DEF SetState, SetList
<1>5. \A k \in Items : Submitted(list[k], k)
  BY <1>3 DEF Submitted, ListsInv
<1>6. \A q \in requests \ {r} : q.tab # t /\ q \in ApiRequest
  BY <1>1 DEF ListsInv
<1>7. PICK o : o = [r EXCEPT !.tab = "gone"]
  OBVIOUS
<1>8. o \in ApiRequest /\ o.tab = "gone" /\ o.call = r.call /\ o.range = r.range
  BY <1>7 DEF ListsInv, ApiRequest
<1>9. /\ requests' \subseteq ApiRequest
      /\ \A q \in requests' :
           \/ q \in requests /\ q.tab # t
           \/ /\ q.tab = "gone"
              /\ q.call = "job" => q.range # "ask"
              /\ q.call = "clip" => q.range \in {"a", "b"}
  <2>1. Serves(r)
    BY DEF ListsInv
  <2>2. o.call = "job" => o.range # "ask"
    BY <1>8, <2>1 DEF Serves
  <2>3. o.call = "clip" => o.range \in {"a", "b"}
    BY <1>8, <2>1 DEF Serves
  <2>4. \A q \in requests' : q \in requests \ {r} \/ q = o
    BY <1>7 DEF Orphaned
  <2> QED
    BY <1>6, <1>8, <2>2, <2>3, <2>4
<1> QED
  BY <1>1, <1>3, <1>4, <1>5, <1>9, Leaving

LEMMA Refusing ==
    ASSUME ListsInv, jobs \subseteq jobs', NEW r \in requests, Refuse(r)
    PROVE  ListsInv'
<1>1. CASE r.tab = "gone"
  <2>1. requests' = requests \ {r} /\ UNCHANGED <<items, saved, draining>>
    BY <1>1 DEF Refuse
  <2>2. \A i, item : Submitted(item, i) => Submitted(item, i)'
    BY DEF Submitted
  <2>3. \A q \in requests' : q \in ApiRequest /\ Serves(q)'
    BY <2>1 DEF ListsInv, Serves
  <2> QED
    BY <1>1, <2>1, <2>2, <2>3 DEF ListsInv
<1>2. CASE r.tab # "gone"
  BY <1>2, Failing DEF Refuse
<1> QED
  BY <1>1, <1>2

\* The API with one request of a tab.
LEMMA ServerGoes ==
    ASSUME ImportsInv, NEW r \in requests, Recording(r) \/ Upload(r) \/ Clip(r) \/ CreateJob(r)
    PROVE  ImportsInv'
<1> USE ImportsAssumption DEF ImportsInv
<1>0. r \in ApiRequest /\ Serves(r) /\ r.item \in Items
  BY DEF ListsInv, ApiRequest
<1>1. ASSUME Stored(r), UNCHANGED <<items, saved, draining>>, jobs \subseteq jobs' PROVE ListsInv'
  <2>1. PICK q : q = [r EXCEPT !.at = "storing"]
    OBVIOUS
  <2>2. q \in ApiRequest /\ q.tab = r.tab /\ q.item = r.item /\ q.range = r.range /\ q.call = r.call
    BY <1>0, <2>1 DEF ApiRequest
  <2> QED
    BY <1>1, <2>1, <2>2, Reissuing DEF Stored
<1>2. CASE Recording(r)
  <2>1. RowsInv' /\ jobs' = jobs
    BY <1>2 DEF Recording, serverVars, RowsInv
  <2>2. CASE Answers(r)
    BY <1>0, <1>2, <2>1, <2>2, Answering DEF Recording
  <2>3. CASE r.tab = "gone" /\ requests' = requests \ {r} /\ UNCHANGED <<items, saved, draining>>
    BY <2>1, <2>3 DEF ListsInv, Serves, Submitted
  <2>4. CASE /\ r.tab # "gone" /\ requests' = (requests \ {r}) \cup {Sent(r.tab, r.item, "put", r.range)}
             /\ UNCHANGED <<items, saved, draining>>
    <3>1. PICK q : q = Sent(r.tab, r.item, "put", r.range)
      OBVIOUS
    <3>2. q \in ApiRequest /\ q.tab = r.tab /\ q.item = r.item /\ q.range = r.range /\ q.call = "put"
      BY <1>0, <2>4, <3>1 DEF ApiRequest, Sent, RowsInv
    <3> QED
      BY <2>1, <2>4, <3>1, <3>2, Reissuing
  <2> QED
    BY <1>2, <2>2, <2>3, <2>4 DEF Recording
<1>3. CASE Upload(r)
  <2>1. RowsInv' /\ jobs' = jobs
    BY <1>0, <1>3 DEF Upload, RowsInv
  <2> QED
    BY <1>0, <1>1, <1>3, <2>1, Answering, Refusing DEF Upload
<1>4. CASE Clip(r)
  <2>1. RowsInv' /\ jobs' = jobs
    BY <1>0, <1>4 DEF Clip, RowsInv, ClipOf, Serves
  <2> QED
    BY <1>0, <1>1, <1>4, <2>1, Answering, Refusing DEF Clip
<1>5. CASE CreateJob(r)
  <2>1. CASE JobOf(r.item) = {} /\ Answers(r)
             /\ jobs' = jobs \cup {[id |-> Cardinality(jobs) + 1, key |-> r.item, range |-> r.range]}
    <3>1. PICK j : j = [id |-> Cardinality(jobs) + 1, key |-> r.item, range |-> r.range]
      OBVIOUS
    <3>2. Cardinality(jobs) \in Nat
      BY FS_CardinalityType DEF RowsInv
    <3>3. /\ j \in [id : Nat \ {0}, key : Items, range : {"whole", "a", "b"}]
          /\ j.key = r.item /\ j.range = r.range
      BY <1>0, <1>5, <3>1, <3>2 DEF CreateJob, Serves, ApiRequest
    <3>4. IsFiniteSet(jobs')
      BY <2>1, FS_AddElement DEF RowsInv
    <3>5. \A k \in jobs : k.key # r.item
      BY <2>1 DEF JobOf
    <3>6. RowsInv'
      BY <1>5, <2>1, <3>1, <3>3, <3>4, <3>5 DEF RowsInv, CreateJob
    <3> QED
      BY <2>1, <3>1, <3>3, <3>6, Answering
  <2>2. CASE /\ \E j \in JobOf(r.item) : IF SameOptions(j, r) THEN Answers(r) ELSE Refuse(r)
             /\ UNCHANGED jobs
    <3>1. RowsInv'
      BY <1>5, <2>2 DEF CreateJob, RowsInv
    <3>2. PICK j \in JobOf(r.item) : IF SameOptions(j, r) THEN Answers(r) ELSE Refuse(r)
      BY <2>2
    <3>3. CASE SameOptions(j, r)
      BY <2>2, <3>1, <3>2, <3>3, Answering DEF SameOptions, JobOf
    <3>4. CASE ~SameOptions(j, r)
      BY <2>2, <3>1, <3>2, <3>4, Refusing
    <3> QED
      BY <3>3, <3>4
  <2>3. CASE Refuse(r) /\ UNCHANGED jobs
    <3>1. RowsInv'
      BY <1>5, <2>3 DEF CreateJob, RowsInv
    <3> QED
      BY <2>3, <3>1, Refusing
  <2> QED
    BY <1>5, <2>1, <2>2, <2>3 DEF CreateJob
<1> QED
  BY <1>2, <1>3, <1>4, <1>5

\* The tab takes the first item that waits.
LEMMA Taking ==
    ASSUME ImportsInv, NEW t \in Tabs, NEW i \in Items, TakeItem(t, i)
    PROVE  ListsInv'
<1> USE ImportsAssumption
<1>1. /\ items' \in [Tabs -> [Items -> Item]] /\ saved' = items'[t]
      /\ \A u \in Tabs, k \in Items : (u # t \/ k # i) => items'[u][k] = items[u][k]
      /\ items'[t][i].state = "uploading" /\ items'[t][i].range = items[t][i].range
  BY SetsState DEF ImportsInv, ListsInv, TakeItem
<1>2. PICK q : q = Sent(t, i, "get", items[t][i].range)
  OBVIOUS
<1>3. q \in ApiRequest /\ q.tab = t /\ q.item = i /\ q.call = "get" /\ q.range = items[t][i].range
  <2>1. items[t][i] \in Item
    BY DEF ImportsInv, ListsInv
  <2> QED
    BY <1>2, <2>1 DEF ImportsInv, RowsInv, ApiRequest, Sent, Item
<1>4. /\ draining' = [draining EXCEPT ![t] = i] /\ draining[t] = NoItem
      /\ requests' = requests \cup {q} /\ jobs' = jobs
  BY <1>2 DEF TakeItem, serverVars
<1>5. \A r \in requests : r.tab \in Tabs \cup {"gone"} /\ r.item \in Items
  BY DEF ImportsInv, ListsInv, ApiRequest
<1>6. \A r \in requests : r.tab # t
  BY <1>4, <1>5 DEF ImportsInv, ListsInv, Serves, NoItem
<1>7. \A u \in Tabs, k \in Items : Submitted(items[u][k], k)'
  BY <1>1, <1>4 DEF ImportsInv, ListsInv, Submitted
<1>8. \A k \in Items : saved'[k] \in Item /\ Submitted(saved[k], k)'
  BY <1>1, <1>7
<1>9. \A r \in requests' : Serves(r)'
  <2>1. Serves(q)'
    BY <1>1, <1>3, <1>4 DEF Serves, ImportsInv, ListsInv
  <2>2. ASSUME NEW r \in requests PROVE Serves(r)'
    BY <1>1, <1>4, <1>5, <1>6 DEF Serves, ImportsInv, ListsInv
  <2> QED
    BY <1>4, <2>1, <2>2
<1>10. /\ requests' \subseteq ApiRequest /\ draining' \in [Tabs -> Items \cup {NoItem}]
       /\ saved' \in [Items -> Item]
       /\ \A p, r \in requests' : (p.tab = r.tab /\ p.tab # "gone") => p = r
  BY <1>1, <1>3, <1>4, <1>6, <1>8 DEF ImportsInv, ListsInv
<1> QED
  BY <1>1, <1>7, <1>8, <1>9, <1>10 DEF ListsInv

LEMMA TabGoes ==
    ASSUME ImportsInv, NEW t \in Tabs, StopImports(t) \/ Reload(t)
    PROVE  ImportsInv'
<1> USE ImportsAssumption
<1>1. RowsInv' /\ jobs' = jobs
  BY DEF StopImports, Reload, Stops, serverVars, ImportsInv, RowsInv
<1>2. PICK list : /\ items' = [items EXCEPT ![t] = list] /\ saved' \in {list, saved}
                  /\ list \in [Items -> Item] /\ \A k \in Items : Submitted(list[k], k)
  <2>1. CASE StopImports(t)
    <3>1. PICK list : list = [i \in Items |->
              IF items[t][i].state = "waiting" \/ draining[t] = i
              THEN [items[t][i] EXCEPT !.state = "error"] ELSE items[t][i]]
      OBVIOUS
    <3>2. items' = [items EXCEPT ![t] = list] /\ saved' = list
      BY <2>1, <3>1 DEF StopImports, SetList
    <3>3. ASSUME NEW i \in Items
          PROVE  list[i] \in Item /\ (list[i] = items[t][i] \/ list[i].state # "done")
      <4>1. items[t][i] \in Item
        BY DEF ImportsInv, ListsInv
      <4> QED
        BY <3>1, <4>1 DEF Item
    <3>4. list \in [Items -> Item]
      BY <3>1, <3>3
    <3>5. \A k \in Items : Submitted(list[k], k)
      BY <3>3 DEF ImportsInv, ListsInv, Submitted
    <3> QED
      BY <3>2, <3>4, <3>5
  <2>2. CASE Reload(t)
    <3>1. PICK list : list = [i \in Items |-> Restored(saved[i])]
      OBVIOUS
    <3>2. items' = [items EXCEPT ![t] = list] /\ saved' = saved
      BY <2>2, <3>1 DEF Reload
    <3>3. ASSUME NEW i \in Items
          PROVE  list[i] \in Item /\ (list[i] = saved[i] \/ list[i].state # "done")
      <4>1. saved[i] \in Item
        BY DEF ImportsInv, ListsInv
      <4> QED
        BY <3>1, <4>1 DEF Item, Restored
    <3>4. list \in [Items -> Item]
      BY <3>1, <3>3
    <3>5. \A k \in Items : Submitted(list[k], k)
      BY <3>3 DEF ImportsInv, ListsInv, Submitted
    <3> QED
      BY <3>2, <3>4, <3>5
  <2> QED
    BY <2>1, <2>2
<1>3. draining' = [draining EXCEPT ![t] = NoItem] /\ requests' = Abandoned(t)
  BY DEF StopImports, Reload, Abort
<1>4. ListsInv'
  BY <1>1, <1>2, <1>3, Abandons, Leaving DEF ImportsInv
<1> QED
  BY <1>1, <1>4 DEF ImportsInv

LEMMA UserGoes ==
    ASSUME ImportsInv, NEW t \in Tabs, NEW i \in Items,
           \/ AddImport(t, i) \/ TakeItem(t, i) \/ SubmitPrepared(t, i)
           \/ RetryImport(t, i) \/ RemoveImport(t, i)
    PROVE  ImportsInv'
<1> USE ImportsAssumption
<1>1. RowsInv' /\ jobs' = jobs
  BY DEF AddImport, TakeItem, SubmitPrepared, RetryImport, RemoveImport, Stops, serverVars, ImportsInv, RowsInv
<1>2. items \in [Tabs -> [Items -> Item]] /\ items[t] \in [Items -> Item] /\ items[t][i] \in Item
  BY DEF ImportsInv, ListsInv
<1>3. CASE AddImport(t, i)
  <2>1. PICK range \in {"ask", "whole"} :
            SetList(t, [items[t] EXCEPT ![i] = [state |-> "waiting", range |-> range]])
    BY <1>3 DEF AddImport
  <2>2. items[t][i].state = "new" /\ UNCHANGED <<draining, requests>>
    BY <1>3 DEF AddImport
  <2>3. PICK item : item = [state |-> "waiting", range |-> range]
    OBVIOUS
  <2>4. item \in Item /\ item.state # "done"
    BY <2>3 DEF Item
  <2> QED
    BY <1>1, <2>1, <2>2, <2>3, <2>4, Editing DEF ImportsInv
<1>4. CASE SubmitPrepared(t, i)
  <2>1. PICK range \in {"whole", "a", "b"} :
            SetList(t, [items[t] EXCEPT ![i] = [state |-> "waiting", range |-> range]])
    BY <1>4 DEF SubmitPrepared
  <2>2. items[t][i].state = "prepared" /\ UNCHANGED <<draining, requests>>
    BY <1>4 DEF SubmitPrepared
  <2>3. PICK item : item = [state |-> "waiting", range |-> range]
    OBVIOUS
  <2>4. item \in Item /\ item.state # "done"
    BY <2>3 DEF Item
  <2> QED
    BY <1>1, <2>1, <2>2, <2>3, <2>4, Editing DEF ImportsInv
<1>5. ASSUME NEW state \in {"waiting", "removed"}, SetState(t, i, state),
             items[t][i].state \notin {"uploading", "submitting"} \/ draining[t] # i,
             UNCHANGED <<draining, requests>>
      PROVE  ListsInv'
  <2>1. PICK item : item = [items[t][i] EXCEPT !.state = state]
    OBVIOUS
  <2>2. item \in Item /\ item.state # "done"
    BY <1>2, <2>1 DEF Item
  <2>3. SetList(t, [items[t] EXCEPT ![i] = item])
    BY <1>5, <2>1 DEF SetState
  <2> QED
    BY <1>1, <1>5, <2>2, <2>3, Editing DEF ImportsInv
<1>6. CASE RetryImport(t, i)
  BY <1>1, <1>5, <1>6 DEF RetryImport, ImportsInv
<1>7. CASE RemoveImport(t, i) /\ draining[t] # i
  BY <1>1, <1>5, <1>7 DEF RemoveImport, ImportsInv
<1>8. CASE RemoveImport(t, i) /\ draining[t] = i
  <2>1. PICK item : item = [items[t][i] EXCEPT !.state = "removed"]
    OBVIOUS
  <2>2. item \in Item /\ item.state # "done"
    BY <1>2, <2>1 DEF Item
  <2>3. PICK list : list = [items[t] EXCEPT ![i] = item]
    OBVIOUS
  <2>4. list \in [Items -> Item] /\ \A k \in Items : list[k] = items[t][k] \/ list[k].state # "done"
    BY <1>2, <2>2, <2>3
  <2>5. items' = [items EXCEPT ![t] = list] /\ saved' = list
    BY <1>8, <2>1, <2>3 DEF RemoveImport, SetState, SetList
  <2>6. \A k \in Items : Submitted(list[k], k)
    BY <2>4 DEF Submitted, ImportsInv, ListsInv
  <2>7. draining' = [draining EXCEPT ![t] = NoItem] /\ requests' = Abandoned(t)
    BY <1>8 DEF RemoveImport, Abort
  <2>8. ListsInv'
    BY <1>1, <2>4, <2>5, <2>6, <2>7, Abandons, Leaving DEF ImportsInv
  <2> QED
    BY <1>1, <2>8 DEF ImportsInv
<1>9. CASE TakeItem(t, i)
  BY <1>1, <1>9, Taking DEF ImportsInv
<1> QED
  BY <1>3, <1>4, <1>6, <1>7, <1>8, <1>9

LEMMA ImportsGo == ImportsInv /\ [ImportsNext]_importVars => ImportsInv'
<1> SUFFICES ASSUME ImportsInv, [ImportsNext]_importVars PROVE ImportsInv'
  OBVIOUS
<1>1. ASSUME NEW r \in requests, Lost(r) PROVE ImportsInv'
  <2>1. RowsInv' /\ jobs' = jobs
    BY <1>1, ImportsAssumption DEF Lost, serverVars, ImportsInv, RowsInv
  <2>2. ListsInv'
    BY <1>1, <2>1, Failing DEF Lost, ImportsInv
  <2> QED
    BY <2>1, <2>2 DEF ImportsInv
<1>2. CASE UNCHANGED importVars
  BY <1>2 DEF importVars, ImportsInv, ListsInv, RowsInv, Serves, Submitted
<1> QED
  BY <1>1, <1>2, ServerGoes, TabGoes, UserGoes DEF ImportsNext

\* What the invariant says of the rows of an item.
LEMMA ImportsHold == ImportsInv => ImportTypeOK /\ OneJobEach /\ DoneIsSubmitted
<1> SUFFICES ASSUME ImportsInv PROVE ImportTypeOK /\ OneJobEach /\ DoneIsSubmitted
  OBVIOUS
<1>1. ImportTypeOK
  BY DEF ImportsInv, ListsInv, RowsInv, ImportTypeOK
<1>2. ASSUME NEW S, \A x, y \in S : x = y PROVE Cardinality(S) <= 1
  <2>1. CASE S = {}
    BY <2>1, FS_EmptySet
  <2>2. ASSUME NEW x \in S PROVE Cardinality(S) = 1
    <3>1. S = {x}
      BY <1>2
    <3> QED
      BY <3>1, FS_Singleton
  <2> QED
    BY <2>1, <2>2
<1>3. OneJobEach
  BY <1>2 DEF ImportsInv, RowsInv, OneJobEach, JobOf, ClipOf
<1>4. DoneIsSubmitted
  BY DEF ImportsInv, ListsInv, Submitted, DoneIsSubmitted, JobOf
<1> QED
  BY <1>1, <1>3, <1>4

-----------------------------------------------------------------------------
(* Profiles.                                                                *)

RunRow == [status : {"none", "running", "completed", "failed"}, real : BOOLEAN, contract : Nat,
           group : Groups, models : Orders \cup {<<>>}, revision : [Models -> Nat]]
ProfileRow == {NoProfile}
              \cup [models : Orders \cup {Bootstrap}, run : Benchmarks \cup {NoRun}, history : Seq(Pairs)]

\* At the end of the history of a row is the list of the registry.
Grounded(row) ==
    IF row.history = <<>> THEN row.models = Bootstrap ELSE row.history[1].models = Bootstrap
Reaches(row) == row # NoProfile => Grounded(row)

\* What a request has read was a row once, and the run it brings is complete for good.
Reads(q) ==
    /\ request[q].scenario \in Scenarios
    /\ request[q].read \in ProfileRow /\ Reaches(request[q].read)
    /\ request[q].do = "update" =>
         request[q].run \in Benchmarks /\ runs[request[q].run].status = "completed"
    /\ request[q] # NoRequest /\ request[q].do # "update" =>
         request[q].read # NoProfile /\ request[q].read.history # <<>>
ProfilesInv ==
    /\ runs \in [Benchmarks -> RunRow] /\ scoring \subseteq Benchmarks /\ unrecorded \subseteq Benchmarks
    /\ \A r \in Benchmarks : runs[r].status = "completed" => runs[r].models \in Orders
    /\ profile \in [Scenarios -> ProfileRow] /\ \A s \in Scenarios : Reaches(profile[s])
    /\ DOMAIN request = Requests /\ \A q \in Requests : Reads(q)
    /\ allowed \in [requests : 0..MaxRequests, restarts : 0..MaxRestarts]
    /\ contract \in 1..(1 + MaxRestarts - allowed.restarts)
    /\ revision \in [Models -> 1..(1 + MaxRestarts - allowed.restarts)]
    /\ NoPhantomRun

LEMMA ProfilesStart == ProfilesInit => ProfilesInv
<1> SUFFICES ASSUME ProfilesInit PROVE ProfilesInv
  OBVIOUS
<1> USE ProfilesAssumption DEF ProfilesInit
<1>1. ASSUME NEW g \in Groups, NEW o \in Orders
      PROVE  RealReport(g, o) \in RunRow /\ RealReport(g, o).status \in {"completed", "failed"}
             /\ (RealReport(g, o).status = "completed" => RealReport(g, o).models \in Orders)
  BY DEF RealReport, Report, RunRow
<1>2. Unused \in RunRow /\ Unused.status = "none"
  BY DEF Unused, RunRow, Groups
<1>3. /\ runs \in [Benchmarks -> RunRow]
      /\ \A r \in Benchmarks : /\ runs[r].status = "completed" => runs[r].models \in Orders
                             /\ runs[r].status # "running"
  <2>1. ASSUME NEW r \in Benchmarks
        PROVE  /\ runs[r] \in RunRow /\ runs[r].status # "running"
               /\ runs[r].status = "completed" => runs[r].models \in Orders
    <3>1. runs[r] = Unused \/ \E g \in Groups, o \in Orders : runs[r] = RealReport(g, o)
      <4> DEFINE Reports == {RealReport(g, o) : g \in Groups, o \in Orders}
      <4>1. runs[r] \in {Unused} \cup Reports
        OBVIOUS
      <4>2. ASSUME NEW x \in Reports PROVE \E g \in Groups, o \in Orders : x = RealReport(g, o)
        BY <4>2
      <4> QED
        BY <4>1, <4>2
    <3> QED
      BY <1>1, <1>2, <3>1
  <2>2. DOMAIN runs = Benchmarks /\ runs = [r \in Benchmarks |-> runs[r]]
    OBVIOUS
  <2> QED
    BY <2>1, <2>2
<1>4. \A q \in Requests : Reads(q)
  BY DEF Reads, NoRequest, Scenarios, ProfileRow, Reaches, Grounded
<1>5. profile \in [Scenarios -> ProfileRow] /\ \A s \in Scenarios : Reaches(profile[s])
  BY DEF ProfileRow, Reaches, Grounded
<1> QED
  BY <1>3, <1>4, <1>5 DEF ProfilesInv, NoPhantomRun

LEMMA ProfilesHold ==
    ProfilesInv => ProfilesTypeOK /\ BootstrapReachable /\ NoPhantomRun
<1> SUFFICES ASSUME ProfilesInv PROVE ProfilesTypeOK /\ BootstrapReachable /\ NoPhantomRun
  OBVIOUS
<1> USE ProfilesAssumption DEF ProfilesInv
<1>1. ProfilesTypeOK
  <2>1. ASSUME NEW s \in Scenarios
        PROVE  /\ [models |-> profile[s].models, run |-> profile[s].run] \in Pairs \cup {Bare}
               /\ profile[s].history \in Seq(Pairs)
    <3>1. CASE profile[s] = NoProfile
      BY <3>1 DEF Bare, NoProfile
    <3>2. CASE profile[s] \in [models : Orders \cup {Bootstrap}, run : Benchmarks \cup {NoRun},
                              history : Seq(Pairs)]
      BY <3>2 DEF Pairs
    <3> QED
      BY <3>1, <3>2 DEF ProfileRow
  <2>2. /\ contract \in 1..(1 + MaxRestarts) /\ revision \in [Models -> 1..(1 + MaxRestarts)]
    OBVIOUS
  <2>3. \A r \in Benchmarks : runs[r].status \in {"none", "running", "completed", "failed"}
    BY DEF RunRow
  <2> QED
    BY <2>1, <2>2, <2>3 DEF ProfilesTypeOK
<1>2. BootstrapReachable
  BY DEF BootstrapReachable, Reaches, Grounded
<1> QED
  BY <1>1, <1>2 DEF ProfilesInv

\* A benchmark is made, and scored: the profiles stay, and so do the complete runs.
LEMMA BenchmarkGoes ==
    ASSUME ProfilesInv, NEW r \in Benchmarks, CreateBenchmark(r) \/ Score(r)
    PROVE  ProfilesInv'
<1> USE ProfilesAssumption
<1>1. runs[r] \in RunRow /\ runs[r].status # "completed"
  <2>1. runs[r] \in RunRow
    BY DEF ProfilesInv
  <2>2. CASE CreateBenchmark(r)
    BY <2>1, <2>2 DEF CreateBenchmark, Unused
  <2>3. CASE Score(r)
    BY <2>1, <2>3 DEF Score
  <2> QED
    BY <2>1, <2>2, <2>3
<1>2. PICK row : runs' = [runs EXCEPT ![r] = row]
  <2>1. runs = [runs EXCEPT ![r] = runs[r]]
    BY DEF ProfilesInv
  <2> QED
    BY <2>1 DEF CreateBenchmark, Score
<1>3. /\ row \in RunRow /\ (row.status = "completed" => row.models \in Orders)
      /\ row.status = "running" => r \in scoring' \cup unrecorded'
  <2>0. runs'[r] = row
    BY <1>2 DEF ProfilesInv
  <2>1. ASSUME NEW status \in {"running", "failed"}, runs' = [runs EXCEPT ![r].status = status]
        PROVE  row \in RunRow /\ row.status = status
    <3>1. row = [runs[r] EXCEPT !.status = status]
      BY <2>0, <2>1 DEF ProfilesInv
    <3> QED
      BY <1>1, <3>1 DEF RunRow
  <2>2. ASSUME NEW g \in Groups, NEW o \in Orders \cup {<<>>}, runs' = [runs EXCEPT ![r] = Report(g, o, FALSE)]
        PROVE  /\ row \in RunRow /\ (row.status = "completed" => row.models \in Orders)
               /\ row.status # "running"
    <3>1. row = Report(g, o, FALSE)
      BY <2>0, <2>2 DEF ProfilesInv
    <3>2. contract \in Nat /\ revision \in [Models -> Nat]
      BY DEF ProfilesInv
    <3> QED
      BY <3>1, <3>2 DEF RunRow, Report
  <2>3. ASSUME UNCHANGED runs, r \in unrecorded' PROVE row = runs[r]
    BY <2>0, <2>3
  <2>4. CASE CreateBenchmark(r)
    BY <2>1, <2>4 DEF CreateBenchmark
  <2>5. CASE Score(r)
    BY <1>1, <2>1, <2>2, <2>3, <2>5 DEF Score
  <2> QED
    BY <2>4, <2>5
<1>4. /\ runs' \in [Benchmarks -> RunRow] /\ runs'[r] = row
      /\ \A b \in Benchmarks : b # r => runs'[b] = runs[b]
  BY <1>2, <1>3 DEF ProfilesInv
<1>5. \A q \in Requests : Reads(q)'
  <2>1. request' = request
    BY DEF CreateBenchmark, Score
  <2>2. ASSUME NEW q \in Requests, request[q].do = "update"
        PROVE  request[q].run \in Benchmarks /\ runs'[request[q].run].status = "completed"
    BY <1>1, <1>4, <2>2 DEF ProfilesInv, Reads
  <2> QED
    BY <2>1, <2>2 DEF ProfilesInv, Reads, Reaches, Grounded
<1>6. /\ scoring' \subseteq Benchmarks /\ unrecorded' \subseteq Benchmarks
      /\ \A b \in Benchmarks : runs'[b].status = "completed" => runs'[b].models \in Orders
      /\ NoPhantomRun'
  <2>1. /\ scoring' \subseteq Benchmarks /\ unrecorded' \subseteq Benchmarks
        /\ \A b \in Benchmarks : b # r /\ b \in scoring \cup unrecorded => b \in scoring' \cup unrecorded'
    BY DEF ProfilesInv, CreateBenchmark, Score
  <2> QED
    BY <1>3, <1>4, <2>1 DEF ProfilesInv, NoPhantomRun
<1>7. /\ UNCHANGED <<profile, contract, revision>> /\ request' = request
      /\ allowed' \in [requests : 0..MaxRequests, restarts : 0..MaxRestarts] /\ allowed'.restarts = allowed.restarts
  <2>1. CASE CreateBenchmark(r)
    BY <2>1 DEF ProfilesInv, CreateBenchmark
  <2>2. CASE Score(r)
    BY <2>2 DEF ProfilesInv, Score
  <2> QED
    BY <2>1, <2>2
<1>8. profile' \in [Scenarios -> ProfileRow] /\ \A s \in Scenarios : Reaches(profile[s])'
  BY <1>7 DEF ProfilesInv, Reaches, Grounded
<1> QED
  BY <1>4, <1>5, <1>6, <1>7, <1>8 DEF ProfilesInv

\* A request reads the row it will change.
LEMMA RequestStarts ==
    ASSUME ProfilesInv, NEW q \in Requests, NEW do \in {"update", "rollback"}, NEW s \in Scenarios, NEW r,
           do = "update" => r \in Benchmarks /\ runs[r].status = "completed",
           do = "rollback" => profile[s] # NoProfile /\ profile[s].history # <<>>,
           Starts(q, do, s, r)
    PROVE  ProfilesInv'
<1> USE ProfilesAssumption
<1>1. PICK record : /\ record = [do |-> do, scenario |-> s, run |-> r, read |-> profile[s]]
                    /\ request' = [request EXCEPT ![q] = record]
  BY DEF Starts
<1>2. \A p \in Requests : request'[p] = IF p = q THEN record ELSE request[p]
  BY <1>1 DEF ProfilesInv
<1>3. UNCHANGED <<runs, scoring, unrecorded, profile, contract, revision>>
  BY DEF Starts
<1>4. Reads(q)'
  BY <1>1, <1>2, <1>3 DEF ProfilesInv, Reads, Reaches, Grounded
<1>5. \A p \in Requests : p # q => Reads(p)'
  <2> SUFFICES ASSUME NEW p \in Requests, p # q PROVE Reads(p)'
    OBVIOUS
  <2>1. request'[p] = request[p] /\ Reads(p)
    BY <1>2 DEF ProfilesInv
  <2> QED
    BY <2>1, <1>3 DEF Reads, Reaches, Grounded
<1>6. allowed' \in [requests : 0..MaxRequests, restarts : 0..MaxRestarts] /\ allowed'.restarts = allowed.restarts
  <2>1. allowed \in [requests : 0..MaxRequests, restarts : 0..MaxRestarts]
    BY DEF ProfilesInv
  <2>2. allowed' = [allowed EXCEPT !.requests = allowed.requests - 1] /\ allowed.requests > 0
    BY DEF Starts
  <2>3. allowed.requests - 1 \in 0..MaxRequests
    BY <2>1, <2>2
  <2> QED
    BY <2>1, <2>2, <2>3
<1>7. DOMAIN request' = Requests
  BY <1>1 DEF ProfilesInv
<1> QED
  BY <1>3, <1>4, <1>5, <1>6, <1>7 DEF ProfilesInv, Reaches, Grounded, NoPhantomRun

LEMMA SeqEnds ==
    ASSUME NEW S, NEW past \in Seq(S), past # <<>>
    PROVE  /\ past[Len(past)] \in S /\ past[1] \in S
           /\ SubSeq(past, 1, Len(past) - 1) \in Seq(S)
           /\ SubSeq(past, 1, Len(past) - 1) = <<>> => past[Len(past)] = past[1]
           /\ SubSeq(past, 1, Len(past) - 1) # <<>> => SubSeq(past, 1, Len(past) - 1)[1] = past[1]
<1>1. PICK n \in Nat : n = Len(past) /\ n > 0
  OBVIOUS
<1>2. PICK rest : rest = SubSeq(past, 1, n - 1)
  OBVIOUS
<1>3. rest \in Seq(S) /\ Len(rest) = n - 1 /\ \A i \in 1..(n - 1) : rest[i] = past[i]
  <2>1. n - 1 \in Int /\ \A i \in 1..(n - 1) : past[i] \in S /\ 1 + i - 1 = i
    BY <1>1
  <2>2. \A i \in 1..(n - 1) - 1 + 1 : rest[i] = past[1 + i - 1]
    BY <1>2, <2>1, SubSeqProperties
  <2>3. rest \in Seq(S) /\ Len(rest) = IF 1 <= n - 1 THEN (n - 1) - 1 + 1 ELSE 0
    BY <1>2, <2>1, SubSeqProperties
  <2>4. Len(rest) = n - 1 /\ (n - 1) - 1 + 1 = n - 1
    BY <1>1, <2>3
  <2> QED
    BY <2>1, <2>2, <2>3, <2>4
<1>4. ASSUME rest = <<>> PROVE n = 1
  <2>1. Len(rest) = 0 /\ Len(rest) = n - 1
    BY <1>3, <1>4
  <2>2. n \in Nat
    BY <1>1
  <2> QED
    BY <2>1, <2>2
<1>5. rest # <<>> => rest[1] = past[1]
  BY <1>1, <1>3
<1> QED
  BY <1>1, <1>2, <1>3, <1>4, <1>5

\* The row a request puts in place.
LEMMA Choosing ==
    ASSUME ProfilesInv, NEW q \in Requests, request[q] # NoRequest
    PROVE  /\ Chosen(q) \in [models : Orders \cup {Bootstrap}, run : Benchmarks \cup {NoRun},
                             history : Seq(Pairs)]
           /\ Grounded(Chosen(q))
<1> USE ProfilesAssumption
<1> DEFINE Row == [models : Orders \cup {Bootstrap}, run : Benchmarks \cup {NoRun}, history : Seq(Pairs)]
<1>1. PICK read \in ProfileRow : read = request[q].read /\ Reaches(read)
  BY DEF ProfilesInv, Reads
<1>2. read.history \in Seq(Pairs)
  <2>1. CASE read = NoProfile
    BY <2>1 DEF NoProfile
  <2>2. CASE read # NoProfile
    BY <1>1, <2>2 DEF ProfileRow
  <2> QED
    BY <2>1, <2>2
<1>3. CASE request[q].do = "update"
  <2>1. PICK r \in Benchmarks : r = request[q].run /\ runs[r].models \in Orders
    BY <1>3 DEF ProfilesInv, Reads
  <2>2. PICK top : top = IF read = NoProfile THEN First ELSE Previous(read)
    OBVIOUS
  <2>3. top \in Pairs /\ (read = NoProfile => top.models = Bootstrap)
        /\ (read # NoProfile => top.models = read.models)
    <3>1. CASE read = NoProfile
      BY <2>2, <3>1 DEF First, Pairs
    <3>2. CASE read # NoProfile
      BY <1>1, <2>2, <3>2 DEF Previous, Pairs, ProfileRow
    <3> QED
      BY <3>1, <3>2
  <2>4. Chosen(q) = [models |-> runs[r].models, run |-> r, history |-> Append(read.history, top)]
    BY <1>1, <1>3, <2>1, <2>2 DEF Chosen
  <2>5. Append(read.history, top) \in Seq(Pairs) /\ Append(read.history, top) # <<>>
        /\ Append(read.history, top)[1].models = Bootstrap
    <3>1. CASE read.history = <<>>
      BY <1>1, <1>2, <2>3, <3>1 DEF Reaches, Grounded
    <3>2. CASE read.history # <<>>
      <4>1. read # NoProfile
        BY <3>2 DEF NoProfile
      <4>2. Append(read.history, top)[1] = read.history[1]
        BY <1>2, <2>3, <3>2
      <4> QED
        BY <1>1, <1>2, <2>3, <3>2, <4>1, <4>2 DEF Reaches, Grounded
    <3> QED
      BY <3>1, <3>2
  <2> QED
    BY <2>1, <2>4, <2>5 DEF Reaches, Grounded
<1>4. CASE request[q].do # "update"
  <2>1. read # NoProfile /\ read.history # <<>>
    BY <1>1, <1>4 DEF ProfilesInv, Reads
  <2>2. PICK past \in Seq(Pairs) : past = read.history
    BY <1>2
  <2>3. PICK rest, last : rest = SubSeq(past, 1, Len(past) - 1) /\ last = past[Len(past)]
    OBVIOUS
  <2>4. last \in Pairs /\ rest \in Seq(Pairs) /\ (rest = <<>> => last = past[1]) /\ (rest # <<>> => rest[1] = past[1])
    BY <2>1, <2>2, <2>3, SeqEnds
  <2>5. Chosen(q) = [models |-> last.models, run |-> last.run, history |-> rest]
    BY <1>1, <1>4, <2>2, <2>3 DEF Chosen
  <2>6. past[1].models = Bootstrap
    BY <1>1, <2>1, <2>2 DEF Reaches, Grounded
  <2> QED
    BY <2>4, <2>5, <2>6 DEF Pairs, Reaches, Grounded
<1> QED
  BY <1>3, <1>4

LEMMA CommitGoes ==
    ASSUME ProfilesInv, NEW q \in Requests, CommitProfile(q)
    PROVE  ProfilesInv'
<1> USE ProfilesAssumption
<1> DEFINE s == request[q].scenario
<1>1. /\ request[q] # NoRequest /\ request' = [request EXCEPT ![q] = NoRequest]
      /\ UNCHANGED <<runs, scoring, unrecorded, contract, revision, allowed>> /\ s \in Scenarios
  BY DEF CommitProfile, ProfilesInv, Reads
<1>2. \A p \in Requests : Reads(p)'
  <2>1. \A p \in Requests : request'[p] = IF p = q THEN NoRequest ELSE request[p]
    BY <1>1 DEF ProfilesInv
  <2>2. Reads(q)'
    BY <2>1 DEF Reads, NoRequest, Scenarios, ProfileRow, Reaches, Grounded
  <2> QED
    BY <1>1, <2>1, <2>2 DEF ProfilesInv, Reads, Reaches, Grounded
<1>3. profile' \in [Scenarios -> ProfileRow] /\ \A t \in Scenarios : Reaches(profile[t])'
  <2>1. CASE Collides(q)
    BY <2>1 DEF CommitProfile, ProfilesInv, Reaches, Grounded
  <2>2. CASE ~Collides(q)
    <3>1. PICK c : c = Chosen(q)
      OBVIOUS
    <3>2. /\ c \in [models : Orders \cup {Bootstrap}, run : Benchmarks \cup {NoRun}, history : Seq(Pairs)]
          /\ Grounded(c)
      BY <1>1, <3>1, Choosing
    <3>3. profile[s].run \in Benchmarks \cup {NoRun}
      <4>1. profile[s] \in ProfileRow
        BY <1>1 DEF ProfilesInv
      <4> QED
        BY <4>1 DEF ProfileRow, NoProfile
    <3>4. PICK run \in Benchmarks \cup {NoRun} : profile' = [profile EXCEPT ![s] = [c EXCEPT !.run = run]]
      BY <2>2, <3>1, <3>2, <3>3 DEF CommitProfile, Written
    <3>5. PICK row : row = [c EXCEPT !.run = run]
      OBVIOUS
    <3>6. row \in ProfileRow /\ row.models = c.models /\ row.history = c.history
      BY <3>2, <3>5 DEF ProfileRow
    <3>7. Reaches(row)
      BY <3>2, <3>6 DEF Reaches, Grounded
    <3> HIDE DEF s
    <3>8. \A t \in Scenarios : profile'[t] = row \/ profile'[t] = profile[t]
      BY <3>4, <3>5 DEF ProfilesInv
    <3> QED
      BY <3>4, <3>5, <3>6, <3>7, <3>8 DEF ProfilesInv, Reaches, Grounded
  <2> QED
    BY <2>1, <2>2
<1>4. DOMAIN request' = Requests
  BY <1>1 DEF ProfilesInv
<1> QED
  BY <1>1, <1>2, <1>3, <1>4 DEF ProfilesInv, NoPhantomRun

LEMMA RestartGoes ==
    ASSUME ProfilesInv, RestartProgram
    PROVE  ProfilesInv'
<1> USE ProfilesAssumption
<1>1. ASSUME NEW r \in Benchmarks
      PROVE  /\ runs'[r] \in RunRow /\ runs'[r].status # "running"
             /\ runs'[r].status = "completed" => runs'[r].models \in Orders
  <2>1. runs[r] \in RunRow /\ (runs[r].status = "completed" => runs[r].models \in Orders)
    BY DEF ProfilesInv
  <2>2. runs'[r] = IF runs[r].status = "running" THEN [runs[r] EXCEPT !.status = "failed"] ELSE runs[r]
    BY DEF RestartProgram, Recovered
  <2> QED
    BY <2>1, <2>2 DEF RunRow
<1>2. runs' \in [Benchmarks -> RunRow]
  BY <1>1 DEF RestartProgram, Recovered
<1>3. /\ request' = [q \in Requests |-> NoRequest] /\ scoring' = {} /\ unrecorded' = {} /\ profile' = profile
      /\ allowed' \in [requests : 0..MaxRequests, restarts : 0..MaxRestarts]
      /\ allowed'.restarts = allowed.restarts - 1 /\ allowed.restarts \in 1..MaxRestarts
  BY DEF RestartProgram, ProfilesInv
<1>4. \A q \in Requests : Reads(q)'
  BY <1>3 DEF Reads, NoRequest, Scenarios, ProfileRow, Reaches, Grounded
<1>5. /\ contract' \in 1..(1 + MaxRestarts - allowed'.restarts)
      /\ revision' \in [Models -> 1..(1 + MaxRestarts - allowed'.restarts)]
  BY <1>3 DEF RestartProgram, ProfilesInv
<1> QED
  BY <1>1, <1>2, <1>3, <1>4, <1>5 DEF ProfilesInv, NoPhantomRun, Reaches, Grounded

LEMMA ProfilesGo == ProfilesInv /\ [ProfilesNext]_profileVars => ProfilesInv'
<1> SUFFICES ASSUME ProfilesInv, [ProfilesNext]_profileVars PROVE ProfilesInv'
  OBVIOUS
<1>1. ASSUME NEW q \in Requests, NEW r \in Benchmarks, ApplyRanking(q, r) PROVE ProfilesInv'
  BY <1>1, RequestStarts DEF ApplyRanking, UpdateProfile, ReleaseEligible
<1>2. ASSUME NEW q \in Requests, NEW s \in Scenarios, Rollback(q, s) PROVE ProfilesInv'
  BY <1>2, RequestStarts DEF Rollback
<1>3. CASE UNCHANGED profileVars
  BY <1>3 DEF profileVars, ProfilesInv, Reads, Reaches, Grounded, NoPhantomRun
<1> QED
  BY <1>1, <1>2, <1>3, BenchmarkGoes, CommitGoes, RestartGoes DEF ProfilesNext

-----------------------------------------------------------------------------
(* The pure stages, for inputs of every size.                               *)

Audio == INSTANCE AudioAnalysis
Agreement == INSTANCE Consensus
Final == INSTANCE FinalText

\* Division rounds down, as // does.
LEMMA Divides ==
    ASSUME NEW a \in Int, NEW d \in Nat \ {0}
    PROVE  a \div d \in Int /\ (a \div d) * d <= a /\ a < (a \div d) * d + d
BY Z3

\* Products in the order of their factors.
LEMMA TimesGrows ==
    ASSUME NEW m \in Int, NEW k \in Int, NEW d \in Nat, m <= k
    PROVE  m * d \in Int /\ k * d \in Int /\ m * d <= k * d
BY Z3

\* Factors in the order of their products.
LEMMA TimesLess ==
    ASSUME NEW m \in Int, NEW k \in Int, NEW d \in Nat, m * d < k * d
    PROVE  m < k
BY TimesGrows, Z3

\* A product of the next factor.
LEMMA TimesNext ==
    ASSUME NEW m \in Int, NEW d \in Int
    PROVE  m * d \in Int /\ (m + 1) * d = m * d + d /\ (m - 1) * d = m * d - d
BY Z3

\* sliding_lid_windows, for every length of a recording and every window and step it
\* accepts: the windows in which the language is identified hear every sample, and
\* none outside the recording; all have one length, and each starts no later than
\* where the one before ends.
THEOREM EverySampleHeard ==
    ASSUME NEW total \in Nat, NEW window \in Nat, NEW step \in Nat, 0 < step, step <= window
    PROVE  LET windows == Audio!LidWindows(total, window, step) IN
           /\ \A t \in 0..(total - 1) : \E i \in DOMAIN windows : t \in Audio!Samples(windows[i])
           /\ \A i \in DOMAIN windows :
                /\ Audio!Samples(windows[i]) \subseteq 0..(total - 1)
                /\ Audio!Length(windows[i]) = Audio!SmallerOf(total, window)
           /\ \A i \in 2..Len(windows) :
                /\ Audio!Start(windows[i - 1]) < Audio!Start(windows[i])
                /\ Audio!Start(windows[i]) <= Audio!End(windows[i - 1])
<1> DEFINE windows == Audio!LidWindows(total, window, step)
           q == (total - window) \div step
           regular == [i \in 1..(q + 1) |-> <<(i - 1) * step, (i - 1) * step + window>>]
           at(i) == (i - 1) * step
<1> USE DEF Audio!Samples, Audio!Start, Audio!End, Audio!Length, Audio!SmallerOf
<1>1. CASE total = 0
  <2>1. windows = <<>>
    BY <1>1 DEF Audio!LidWindows
  <2> QED
    BY <1>1, <2>1
<1>2. CASE total # 0 /\ total <= window
  <2>1. windows = << <<0, total>> >>
    BY <1>2 DEF Audio!LidWindows
  <2> QED
    BY <1>2, <2>1
<1>3. CASE total > window
  <2>1. q \in Nat /\ q * step \in Int /\ q * step <= total - window /\ total - window < q * step + step
    <3>1. q \in Int /\ q * step <= total - window /\ total - window < q * step + step
      BY <1>3, Divides
    <3>2. q * step \in Int /\ (q + 1) * step = q * step + step /\ 0 * step = 0
      BY <3>1, TimesNext, Z3
    <3>3. 0 * step < (q + 1) * step
      BY <1>3, <3>1, <3>2
    <3>4. 0 < q + 1
      BY <3>1, <3>3, TimesLess
    <3> QED
      BY <3>1, <3>2, <3>4
  <2> HIDE DEF q
  <2>2. \A i \in 1..(q + 1) : at(i) \in Int /\ 0 <= at(i) /\ at(i) <= q * step
    <3> SUFFICES ASSUME NEW i \in 1..(q + 1) PROVE at(i) \in Int /\ 0 <= at(i) /\ at(i) <= q * step
      OBVIOUS
    <3>1. i - 1 \in Int /\ 0 <= i - 1 /\ i - 1 <= q
      BY <2>1
    <3>2. 0 * step = 0
      OBVIOUS
    <3> QED
      BY <2>1, <3>1, <3>2, TimesGrows
  <2>3. \A i \in 2..(q + 1) : at(i - 1) \in Int /\ at(i) = at(i - 1) + step
    <3> SUFFICES ASSUME NEW i \in 2..(q + 1) PROVE at(i - 1) \in Int /\ at(i) = at(i - 1) + step
      OBVIOUS
    <3>1. i - 2 \in Int /\ i - 2 + 1 = i - 1 /\ i - 1 - 1 = i - 2
      BY <2>1
    <3> QED
      BY <3>1, TimesNext
  <2>4. \A t \in 0..(q * step + window - 1) : \E i \in 1..(q + 1) : at(i) <= t /\ t < at(i) + window
    <3> SUFFICES ASSUME NEW t \in 0..(q * step + window - 1)
                 PROVE  \E i \in 1..(q + 1) : at(i) <= t /\ t < at(i) + window
      OBVIOUS
    <3>0. t \in Nat /\ t <= q * step + window - 1
      BY <2>1
    <3>1. CASE t >= q * step
      <4>1. q + 1 \in 1..(q + 1) /\ q + 1 - 1 = q
        BY <2>1
      <4> QED
        BY <2>1, <3>0, <3>1, <4>1
    <3>2. CASE t < q * step
      <4> DEFINE m == t \div step
      <4>1. m \in Int /\ m * step <= t /\ t < m * step + step
        BY <3>0, Divides
      <4>2. m * step \in Int /\ (m + 1) * step = m * step + step /\ 0 * step = 0
        BY <4>1, TimesNext, Z3
      <4>3. 0 * step < (m + 1) * step /\ m * step < q * step
        BY <2>1, <3>0, <3>2, <4>1, <4>2
      <4>4. 0 < m + 1 /\ m < q
        BY <2>1, <4>1, <4>3, TimesLess
      <4>5. m + 1 \in 1..(q + 1) /\ m + 1 - 1 = m
        BY <2>1, <4>1, <4>4
      <4> HIDE DEF m
      <4>6. at(m + 1) = m * step
        BY <4>1, <4>5
      <4> HIDE DEF at
      <4>7. at(m + 1) <= t /\ t < at(m + 1) + window
        BY <2>1, <3>0, <4>1, <4>2, <4>6
      <4> QED
        BY <4>5, <4>7
    <3> QED
      BY <2>1, <3>0, <3>1, <3>2
  <2>5. /\ windows = IF q * step + window < total
                     THEN Append(regular, <<total - window, total>>) ELSE regular
        /\ Len(regular) = q + 1 /\ DOMAIN regular = 1..(q + 1)
    <3>1. Len(regular) = q + 1 /\ regular \in Seq(Int \X Int)
      BY <2>1, <2>2
    <3>2. Audio!Last(regular) = <<q * step, q * step + window>>
      BY <2>1, <3>1 DEF Audio!Last
    <3> QED
      BY <1>3, <2>1, <3>1, <3>2 DEF Audio!LidWindows, q
  <2>6. regular \in Seq(Int \X Int)
    BY <2>1, <2>2
  <2>7. CASE q * step + window < total
    <3>1. /\ Len(windows) = q + 2 /\ DOMAIN windows = 1..(q + 2)
          /\ \A i \in 1..(q + 1) : windows[i] = <<at(i), at(i) + window>>
          /\ windows[q + 2] = <<total - window, total>>
      BY <1>3, <2>1, <2>5, <2>6, <2>7
    <3> HIDE DEF windows
    <3>2. ASSUME NEW t \in 0..(total - 1)
          PROVE  \E i \in DOMAIN windows : t \in Audio!Samples(windows[i])
      <4>1. CASE t >= total - window
        <5>1. q + 2 \in DOMAIN windows
          BY <2>1, <3>1
        <5> QED
          BY <1>3, <3>1, <4>1, <5>1
      <4>2. CASE t < total - window
        <5>1. t \in 0..(q * step + window - 1)
          BY <1>3, <2>1, <4>2
        <5>2. PICK i \in 1..(q + 1) : at(i) <= t /\ t < at(i) + window
          BY <2>4, <5>1
        <5>3. i \in DOMAIN windows /\ windows[i] = <<at(i), at(i) + window>> /\ at(i) \in Int
          BY <2>1, <2>2, <3>1
        <5> HIDE DEF at
        <5> QED
          BY <5>2, <5>3
      <4> QED
        BY <1>3, <4>1, <4>2
    <3>3. ASSUME NEW i \in DOMAIN windows
          PROVE  /\ Audio!Samples(windows[i]) \subseteq 0..(total - 1)
                 /\ Audio!Length(windows[i]) = Audio!SmallerOf(total, window)
      <4>1. CASE i = q + 2
        BY <1>3, <3>1, <4>1
      <4>2. CASE i \in 1..(q + 1)
        <5>1. windows[i] = <<at(i), at(i) + window>> /\ at(i) \in Int /\ 0 <= at(i) /\ at(i) <= q * step
          BY <2>2, <3>1, <4>2
        <5> HIDE DEF at
        <5> QED
          BY <1>3, <2>1, <2>7, <5>1
      <4> QED
        BY <2>1, <3>1, <4>1, <4>2
    <3>4. ASSUME NEW i \in 2..Len(windows)
          PROVE  /\ Audio!Start(windows[i - 1]) < Audio!Start(windows[i])
                 /\ Audio!Start(windows[i]) <= Audio!End(windows[i - 1])
      <4>1. CASE i = q + 2
        <5>1. windows[i - 1] = <<q * step, q * step + window>>
          BY <2>1, <3>1, <4>1
        <5> QED
          BY <1>3, <2>1, <2>7, <3>1, <4>1, <5>1
      <4>2. CASE i \in 2..(q + 1)
        <5>1. /\ windows[i] = <<at(i), at(i) + window>> /\ windows[i - 1] = <<at(i - 1), at(i - 1) + window>>
              /\ at(i - 1) \in Int /\ at(i) = at(i - 1) + step
          BY <2>1, <2>3, <3>1, <4>2
        <5> HIDE DEF at
        <5> QED
          BY <5>1
      <4> QED
        BY <2>1, <3>1, <4>1, <4>2
    <3> QED
      BY <3>2, <3>3, <3>4 DEF windows
  <2>8. CASE ~(q * step + window < total)
    <3>0. q * step + window = total
      BY <1>3, <2>1, <2>8
    <3>1. /\ Len(windows) = q + 1 /\ DOMAIN windows = 1..(q + 1)
          /\ \A i \in 1..(q + 1) : windows[i] = <<at(i), at(i) + window>>
      BY <1>3, <2>1, <2>5, <2>6, <2>8
    <3> HIDE DEF windows
    <3>2. ASSUME NEW t \in 0..(total - 1)
          PROVE  \E i \in DOMAIN windows : t \in Audio!Samples(windows[i])
      <4>0. t \in 0..(q * step + window - 1)
        BY <2>1, <3>0
      <4>1. PICK i \in 1..(q + 1) : at(i) <= t /\ t < at(i) + window
        BY <2>4, <4>0
      <4>2. i \in DOMAIN windows /\ windows[i] = <<at(i), at(i) + window>> /\ at(i) \in Int
        BY <2>1, <2>2, <3>1
      <4> HIDE DEF at
      <4> QED
        BY <4>1, <4>2
    <3>3. ASSUME NEW i \in DOMAIN windows
          PROVE  /\ Audio!Samples(windows[i]) \subseteq 0..(total - 1)
                 /\ Audio!Length(windows[i]) = Audio!SmallerOf(total, window)
      <4>1. windows[i] = <<at(i), at(i) + window>> /\ at(i) \in Int /\ 0 <= at(i) /\ at(i) <= q * step
        BY <2>2, <3>1
      <4> HIDE DEF at
      <4> QED
        BY <1>3, <2>1, <3>0, <4>1
    <3>4. ASSUME NEW i \in 2..Len(windows)
          PROVE  /\ Audio!Start(windows[i - 1]) < Audio!Start(windows[i])
                 /\ Audio!Start(windows[i]) <= Audio!End(windows[i - 1])
      <4>1. /\ windows[i] = <<at(i), at(i) + window>> /\ windows[i - 1] = <<at(i - 1), at(i - 1) + window>>
            /\ at(i - 1) \in Int /\ at(i) = at(i - 1) + step
        BY <2>1, <2>3, <3>1
      <4> HIDE DEF at
      <4> QED
        BY <4>1
    <3> QED
      BY <3>2, <3>3, <3>4 DEF windows
  <2> QED
    BY <2>7, <2>8
<1>4. total = 0 \/ (total # 0 /\ total <= window) \/ total > window
  OBVIOUS
<1> HIDE DEF windows, Audio!Samples, Audio!Start, Audio!End, Audio!Length, Audio!SmallerOf
<1> QED
  BY <1>1, <1>2, <1>3, <1>4, Zenon

\* make_structure_windows, for every length of a recording and every policy it accepts:
\* the windows cover the recording and nothing else, none is longer than a window
\* or shorter than the minimum (or the recording), and each starts behind the start and
\* before the end of the one before, also the short last one that is moved to an earlier
\* start: "structure windows must overlap" is never raised.
THEOREM WindowsAreTheRecording ==
    ASSUME NEW total \in Nat, NEW window \in Nat, NEW overlap \in Nat, NEW minimum \in Nat,
           minimum <= window, 0 < overlap, overlap < window
    PROVE  LET windows == Audio!StructureWindows(total, window, overlap, minimum) IN
           /\ \A t \in 0..(total - 1) : \E i \in DOMAIN windows : t \in Audio!Samples(windows[i])
           /\ \A i \in DOMAIN windows :
                /\ Audio!Samples(windows[i]) \subseteq 0..(total - 1)
                /\ Audio!Length(windows[i]) <= window
                /\ Audio!Length(windows[i]) >= Audio!SmallerOf(total, minimum)
           /\ \A i \in 2..Len(windows) :
                /\ Audio!Start(windows[i - 1]) < Audio!Start(windows[i])
                /\ Audio!Start(windows[i]) < Audio!End(windows[i - 1])
<1> DEFINE windows == Audio!StructureWindows(total, window, overlap, minimum)
           d == window - overlap
           q == (total - window + window - overlap - 1) \div d
<1>1. CASE total = 0
  <2>1. windows = <<>>
    BY <1>1 DEF Audio!StructureWindows
  <2> QED
    BY <1>1, <2>1
<1>2. CASE total # 0 /\ total <= window
  <2>1. windows = << <<0, total>> >>
    <3>1. windows = [i \in 1..1 |-> IF i = 1 THEN <<0, total>> ELSE <<(i - 1) * d, (i - 1) * d + window>>]
      BY <1>2 DEF Audio!StructureWindows
    <3> QED
      BY <3>1
  <2> QED
    BY <1>2, <2>1 DEF Audio!Samples, Audio!Length, Audio!Start, Audio!End, Audio!SmallerOf
<1>3. CASE total > window
  <2>1. /\ d \in Nat \ {0} /\ q \in Int
        /\ q * d \in Int /\ q * d <= total - overlap - 1 /\ total - overlap - 1 < q * d + d
    <3>1. total - window + window - overlap - 1 = total - overlap - 1 /\ total - overlap - 1 \in Int
      OBVIOUS
    <3>2. d \in Nat \ {0}
      OBVIOUS
    <3>3. q = (total - overlap - 1) \div d
      BY <3>1
    <3> HIDE DEF d, q
    <3> QED
      BY <3>1, <3>2, <3>3, Divides
  <2>2. q >= 1
    <3>1. 0 * d < q * d + d /\ q * d + d = (q + 1) * d
      BY <1>3, <2>1, Z3
    <3>2. 0 < q + 1
      BY <2>1, <3>1, TimesLess
    <3> SUFFICES ASSUME q = 0 PROVE FALSE
      BY <3>2, <2>1
    <3> QED
      BY <1>3, <2>1
  <2> DEFINE from == q * d
             last == IF total - from < minimum
                     THEN Audio!LargerOf((q - 1) * d + 1, total - minimum) ELSE from
  <2>3. windows = [i \in 1..(q + 1) |-> IF i = q + 1 THEN <<last, total>>
                                        ELSE <<(i - 1) * d, (i - 1) * d + window>>]
    <3> DEFINE count == q + 1
               at(i) == (i - 1) * d
    <3>1. ~(total <= window) /\ total # 0
      BY <1>3
    <3>2. windows = [i \in 1..count |->
                IF i = count
                THEN <<IF total - at(count) < minimum /\ count > 1
                       THEN Audio!LargerOf(at(count - 1) + 1, total - minimum) ELSE at(count), total>>
                ELSE <<at(i), at(i) + window>>]
      BY <3>1 DEF Audio!StructureWindows
    <3>3. count > 1 /\ at(count) = from /\ at(count - 1) = (q - 1) * d
      <4>1. count - 1 = q /\ count - 1 - 1 = q - 1 /\ count > 1
        BY <2>1, <2>2
      <4> QED
        BY <4>1
    <3> QED
      BY <3>2, <3>3
  <2>4. (q - 1) * d = from - d
    BY <2>1, Z3
  <2>5. last \in Int /\ from - d < last /\ last <= from /\ last < total /\ from - d + window < total
        /\ total - last <= window /\ total - last >= minimum
    BY <1>3, <2>1, <2>4 DEF Audio!LargerOf
  <2>6. ASSUME NEW i \in 1..q
        PROVE  (i - 1) * d \in Int /\ 0 <= (i - 1) * d /\ (i - 1) * d <= from - d
    <3>1. 0 <= i - 1 /\ i - 1 <= q - 1 /\ i - 1 \in Int /\ q - 1 \in Int /\ d \in Nat
      BY <2>1
    <3>2. (i - 1) * d <= (q - 1) * d /\ 0 * d <= (i - 1) * d /\ (i - 1) * d \in Int
      BY <3>1, TimesGrows
    <3> QED
      BY <2>1, <2>4, <3>2
  <2>7. ASSUME NEW i \in 1..q
        PROVE  i * d = (i - 1) * d + d /\ (i - 1) * d + d \in Int
    BY <2>1, Z3
  <2>11. from = q * d /\ from \in Int
    BY <2>1
  <2>12. 0 < d /\ d < window /\ d \in Int
    BY <2>1
  <2>13. q \in Int /\ q >= 1 /\ from \in Int /\ d \in Int /\ 0 < d
    BY <2>1, <2>2
  <2> HIDE DEF q, last, from, windows, d
  <2>8. ASSUME NEW t \in 0..(total - 1)
        PROVE  \E i \in DOMAIN windows : t \in Audio!Samples(windows[i])
    <3>1. CASE t >= last
      <4>1. q + 1 \in DOMAIN windows /\ windows[q + 1] = <<last, total>>
        BY <2>1, <2>2, <2>3
      <4> QED
        BY <2>5, <3>1, <4>1 DEF Audio!Samples, Audio!Start, Audio!End
    <3>2. CASE t < last
      <4> DEFINE k == t \div d
      <4>1. k \in Int /\ k * d \in Int /\ k * d <= t /\ t < k * d + d
        BY <2>1, Divides
      <4> HIDE DEF k
      <4>2. k < q
        BY <2>1, <2>5, <2>11, <3>2, <4>1, TimesLess
      <4>3. k >= 0
        <5>1. 0 * d < k * d + d /\ k * d + d = (k + 1) * d
          BY <2>1, <4>1, Z3
        <5>2. 0 < k + 1
          BY <2>1, <4>1, <5>1, TimesLess
        <5> QED
          BY <4>1, <5>2
      <4>4. k + 1 \in DOMAIN windows /\ windows[k + 1] = <<k * d, k * d + window>>
        <5>1. k + 1 \in 1..(q + 1) /\ k + 1 # q + 1 /\ (k + 1) - 1 = k
          BY <2>1, <4>1, <4>2, <4>3
        <5> QED
          BY <2>3, <5>1
      <4> QED
        BY <2>12, <4>1, <4>4 DEF Audio!Samples, Audio!Start, Audio!End
    <3> QED
      BY <2>5, <3>1, <3>2
  <2>9. ASSUME NEW i \in DOMAIN windows
        PROVE  /\ Audio!Samples(windows[i]) \subseteq 0..(total - 1)
               /\ Audio!Length(windows[i]) <= window
               /\ Audio!Length(windows[i]) >= Audio!SmallerOf(total, minimum)
    <3>1. CASE i = q + 1
      <4>1. windows[i] = <<last, total>>
        BY <2>3, <3>1
      <4>2. 0 <= last /\ last \in Int
        BY <2>4, <2>5, <2>6, <2>13
      <4> QED
        BY <2>5, <2>13, <4>1, <4>2 DEF Audio!Samples, Audio!Start, Audio!End, Audio!Length, Audio!SmallerOf
    <3>2. CASE i # q + 1
      <4>1. i \in 1..q /\ windows[i] = <<(i - 1) * d, (i - 1) * d + window>>
        BY <2>1, <2>3, <3>2
      <4>2. (i - 1) * d \in Int /\ 0 <= (i - 1) * d /\ (i - 1) * d + window < total
        BY <2>5, <2>6, <2>13, <4>1
      <4> HIDE DEF from
      <4> QED
        BY <4>1, <4>2 DEF Audio!Samples, Audio!Start, Audio!End, Audio!Length, Audio!SmallerOf
    <3> QED
      BY <3>1, <3>2
  <2>10. ASSUME NEW i \in 2..Len(windows)
         PROVE  /\ Audio!Start(windows[i - 1]) < Audio!Start(windows[i])
                /\ Audio!Start(windows[i]) < Audio!End(windows[i - 1])
    <3>1. /\ i \in 2..(q + 1) /\ i - 1 \in 1..q
          /\ windows[i - 1] = <<(i - 1 - 1) * d, (i - 1 - 1) * d + window>>
      <4>1. DOMAIN windows = 1..(q + 1) /\ Len(windows) = q + 1
        BY <2>1, <2>2, <2>3
      <4> QED
        BY <2>1, <2>3, <4>1
    <3>2. (i - 1 - 1) * d \in Int /\ (i - 1) * d = (i - 1 - 1) * d + d
      BY <2>6, <2>7, <3>1
    <3>3. CASE i = q + 1
      <4>1. windows[i] = <<last, total>> /\ (i - 1) * d = from
        <5>1. i - 1 = q
          BY <2>1, <3>3
        <5> QED
          BY <2>3, <2>11, <3>1, <3>3, <5>1
      <4> QED
        BY <2>5, <2>12, <3>1, <3>2, <4>1 DEF Audio!Start, Audio!End
    <3>4. CASE i # q + 1
      <4>1. windows[i] = <<(i - 1) * d, (i - 1) * d + window>>
        BY <2>3, <3>1, <3>4
      <4> QED
        BY <2>12, <3>1, <3>2, <4>1 DEF Audio!Start, Audio!End
    <3> QED
      BY <3>3, <3>4
  <2> QED
    BY <2>8, <2>9, <2>10 DEF windows
<1> QED
  BY <1>1, <1>2, <1>3

\* A measure in the naturals is least somewhere.
LEMMA SmallestBy ==
    ASSUME NEW S, S # {}, NEW f \in [S -> Nat]
    PROVE  \E x \in S : \A y \in S : f[x] <= f[y]
<1> DEFINE R == {ss \in Nat \X Nat : ss[1] < ss[2]}
           values == {f[x] : x \in S}
<1>1. IsWellFoundedOn(R, Nat)
  BY NatLessThanWellFounded DEF OpToRel
<1>2. values \subseteq Nat /\ values # {}
  OBVIOUS
<1> HIDE DEF R
<1>3. PICK m \in values : \A j \in values : ~(<<j, m>> \in R)
  BY <1>1, <1>2, WFMin
<1>4. PICK x \in S : m = f[x]
  BY <1>3
<1>5. ASSUME NEW y \in S PROVE f[x] <= f[y]
  <2>1. f[y] \in values /\ f[y] \in Nat /\ f[x] \in Nat
    OBVIOUS
  <2>2. ~(<<f[y], f[x]>> \in R)
    BY <1>3, <1>4, <2>1
  <2>3. f[y] < f[x] => <<f[y], f[x]>> \in R
    BY <2>1 DEF R
  <2> QED
    BY <2>1, <2>2, <2>3
<1> QED
  BY <1>5

\* One cut of make_transcript_chunks, for every set of cues inside the speech and every
\* policy with a positive minimum: it advances, stays in the speech and within the hard
\* limit, passes no change of speaker or language, is nearer than the minimum only at
\* such a change or at the end, and is hard only at the limit and where no cue is in reach.
THEOREM CutsAdvance ==
    ASSUME NEW start \in Nat, NEW end \in Nat, start < end,
           NEW cues \in SUBSET (Nat \X {"speaker", "pause", "sentence", "language"}),
           \A c \in cues : c[1] < end,
           NEW policy, policy.minimum \in Nat \ {0}, policy.target \in Nat, policy.hardMax \in Nat,
           policy.minimum <= policy.target, policy.target <= policy.hardMax
    PROVE  LET cut == Audio!NextCut(start, end, cues, policy) IN
           /\ start < cut[1] /\ cut[1] <= end /\ cut[1] <= start + policy.hardMax
           /\ \A c \in Audio!Mandatory(cues) : ~(start < c[1] /\ c[1] < cut[1])
           /\ \/ cut[1] >= start + policy.minimum \/ cut[1] = end
              \/ \E c \in Audio!Mandatory(cues) : c[1] = cut[1]
           /\ cut[2] => /\ cut[1] = start + policy.hardMax
                        /\ \A c \in cues : ~(start + policy.minimum <= c[1] /\ c[1] <= cut[1])
<1> DEFINE cut == Audio!NextCut(start, end, cues, policy)
           ahead == {d \in Audio!Mandatory(cues) : start < d[1] /\ d[1] <= start + policy.hardMax}
           forced == {c[1] : c \in ahead}
           natural == {c \in cues : start + policy.minimum <= c[1] /\ c[1] <= start + policy.hardMax}
           ideal == start + policy.target
           best == CHOOSE c \in natural : \A d \in natural : Audio!Preferred(c, d, ideal)
<1>0. Audio!Mandatory(cues) \subseteq cues
  BY DEF Audio!Mandatory
<1>1. CASE forced # {}
  <2>1. forced \subseteq Nat
    BY <1>0
  <2>2. \E least \in forced : \A x \in forced : least <= x
    <3> DEFINE itself == [x \in forced |-> x]
    <3>1. itself \in [forced -> Nat]
      BY <2>1
    <3>2. \A x \in forced : itself[x] = x
      OBVIOUS
    <3> HIDE DEF itself, forced
    <3>3. PICK least \in forced : \A y \in forced : itself[least] <= itself[y]
      BY <1>1, <3>1, SmallestBy
    <3> QED
      BY <3>2, <3>3
  <2>3. Audio!Min(forced) \in forced /\ \A x \in forced : Audio!Min(forced) <= x
    BY <2>2 DEF Audio!Min
  <2>4. cut = <<Audio!Min(forced), FALSE>>
    BY <1>1 DEF Audio!NextCut
  <2> DEFINE at == Audio!Min(forced)
  <2>5. PICK c \in ahead : c[1] = at
    BY <2>3
  <2>6. at \in Nat /\ start < at /\ at <= start + policy.hardMax /\ at < end
    BY <1>0, <2>1, <2>3, <2>5
  <2>7. ASSUME NEW d \in Audio!Mandatory(cues), start < d[1], d[1] < at PROVE FALSE
    <3>1. d[1] \in Nat /\ d[1] <= start + policy.hardMax
      BY <1>0, <2>6, <2>7
    <3>2. d[1] \in forced
      BY <2>7, <3>1
    <3>3. at <= d[1]
      BY <2>3, <3>2
    <3> HIDE DEF at
    <3> QED
      BY <2>6, <2>7, <3>1, <3>3
  <2>8. cut[1] = at /\ cut[2] = FALSE
    BY <2>4
  <2> HIDE DEF cut, at
  <2> QED
    BY <2>5, <2>6, <2>7, <2>8 DEF cut
<1>2. CASE forced = {}
  <2>1. \A c \in Audio!Mandatory(cues) : ~(start < c[1] /\ c[1] <= start + policy.hardMax)
    BY <1>2
  <2>2. \A c \in Audio!Mandatory(cues) : c[1] \in Nat
    BY <1>0
  <2>3. CASE end - start <= policy.hardMax
    <3>1. cut = <<end, FALSE>>
      BY <1>2, <2>3 DEF Audio!NextCut
    <3>2. cut[1] = end /\ cut[2] = FALSE
      BY <3>1
    <3> HIDE DEF cut
    <3>3. \A c \in Audio!Mandatory(cues) : ~(start < c[1] /\ c[1] < end)
      BY <2>1, <2>2, <2>3
    <3> QED
      BY <2>3, <3>2, <3>3 DEF cut
  <2>4. CASE end - start > policy.hardMax /\ natural # {}
    <3>0. ~(end - start <= policy.hardMax) /\ natural # {}
      BY <2>4
    <3>1. cut = <<best[1], FALSE>>
      BY <1>2, <3>0, Zenon DEF Audio!NextCut
    <3>2. \E c \in natural : \A d \in natural : Audio!Preferred(c, d, ideal)
      <4> DEFINE rank == [c \in natural |-> Audio!Priority(c[2])]
                 far == [c \in natural |-> Audio!Distance(c[1], ideal)]
                 first == {c \in natural : \A d \in natural : rank[c] <= rank[d]}
      <4>1. rank \in [natural -> Nat]
        BY DEF Audio!Priority
      <4>2. \A c \in natural : Audio!Distance(c[1], ideal) \in Nat
        <5> SUFFICES ASSUME NEW c \in natural PROVE Audio!Distance(c[1], ideal) \in Nat
          OBVIOUS
        <5>1. c[1] \in Nat /\ ideal \in Nat
          OBVIOUS
        <5> QED
          BY <5>1 DEF Audio!Distance
      <4>3. first # {}
        <5> HIDE DEF natural, rank
        <5>1. \E x \in natural : \A y \in natural : rank[x] <= rank[y]
          BY <2>4, <4>1, SmallestBy
        <5> QED
          BY <5>1
      <4>4. first \subseteq natural
        OBVIOUS
      <4> DEFINE near == [c \in first |-> Audio!Distance(c[1], ideal)]
      <4>5. near \in [first -> Nat]
        BY <4>2, <4>4
      <4>6. \E x \in first : \A y \in first : near[x] <= near[y]
        <5> HIDE DEF first, near
        <5> QED
          BY <4>3, <4>5, SmallestBy
      <4>7. PICK x \in first : \A y \in first : near[x] <= near[y]
        BY <4>6
      <4>8. x \in natural /\ \A d \in natural : rank[x] <= rank[d]
        OBVIOUS
      <4>9. ASSUME NEW d \in natural PROVE Audio!Preferred(x, d, ideal)
        <5>1. rank[x] = Audio!Priority(x[2]) /\ rank[d] = Audio!Priority(d[2])
          BY <4>8
        <5>2. rank[x] \in Nat /\ rank[d] \in Nat /\ rank[x] <= rank[d]
          BY <4>1, <4>8
        <5>3. CASE rank[x] < rank[d]
          BY <5>1, <5>3 DEF Audio!Preferred
        <5>4. CASE rank[x] = rank[d]
          <6>1. d \in first
            BY <4>8, <5>4
          <6>2. Audio!Distance(x[1], ideal) <= Audio!Distance(d[1], ideal)
            BY <4>7, <6>1
          <6> QED
            BY <5>1, <5>4, <6>2 DEF Audio!Preferred
        <5> QED
          BY <5>2, <5>3, <5>4
      <4> QED
        BY <4>8, <4>9
    <3>3. best \in natural
      BY <3>2
    <3> HIDE DEF best
    <3>4. best[1] \in Nat /\ start < best[1] /\ best[1] < end /\ start + policy.minimum <= best[1]
          /\ best[1] <= start + policy.hardMax
      BY <3>3
    <3>5. cut[1] = best[1] /\ cut[2] = FALSE
      BY <3>1
    <3> HIDE DEF cut, natural
    <3>6. \A c \in Audio!Mandatory(cues) : ~(start < c[1] /\ c[1] < best[1])
      BY <2>1, <2>2, <3>4
    <3> QED
      BY <3>4, <3>5, <3>6 DEF cut
  <2>5. CASE end - start > policy.hardMax /\ natural = {}
    <3>0. ~(end - start <= policy.hardMax) /\ natural = {}
      BY <2>5
    <3>1. cut = <<Audio!SmallerOf(start + policy.hardMax, end), TRUE>>
      BY <1>2, <3>0, Zenon DEF Audio!NextCut
    <3>2. Audio!SmallerOf(start + policy.hardMax, end) = start + policy.hardMax
      BY <2>5 DEF Audio!SmallerOf
    <3>3. cut[1] = start + policy.hardMax /\ cut[2] = TRUE
      BY <3>1, <3>2
    <3>4. \A c \in cues : ~(start + policy.minimum <= c[1] /\ c[1] <= start + policy.hardMax)
      BY <2>5
    <3>5. start + policy.hardMax < end /\ start < start + policy.hardMax
          /\ start + policy.minimum <= start + policy.hardMax
      BY <2>5
    <3>6. \A c \in Audio!Mandatory(cues) : ~(start < c[1] /\ c[1] < start + policy.hardMax)
      BY <2>1, <2>2
    <3> HIDE DEF cut
    <3>7. cut[1] <= end /\ cut[1] <= start + policy.hardMax /\ start < cut[1]
      BY <3>3, <3>5
    <3> QED
      BY <3>3, <3>4, <3>5, <3>6, <3>7 DEF cut
  <2> QED
    BY <2>3, <2>4, <2>5
<1> QED
  BY <1>1, <1>2

\* Max of a bounded set of naturals is one of them.
LEMMA GreatestNumber ==
    ASSUME NEW S \in SUBSET Nat, S # {}, NEW b \in Nat, \A x \in S : x <= b
    PROVE  Audio!Max(S) \in S
<1> DEFINE R == {ss \in Nat \X Nat : ss[1] < ss[2]}
           left == {b - x : x \in S}
<1>1. IsWellFoundedOn(R, Nat)
  BY NatLessThanWellFounded DEF OpToRel
<1>2. left \subseteq Nat /\ left # {}
  <2>1. \A x \in S : b - x \in Nat
    OBVIOUS
  <2> QED
    BY <2>1
<1> HIDE DEF R
<1>3. PICK m \in left : \A j \in left : ~(<<j, m>> \in R)
  BY <1>1, <1>2, WFMin
<1>4. PICK x \in S : m = b - x
  BY <1>3
<1>5. \A y \in S : x >= y
  <2> SUFFICES ASSUME NEW y \in S, x < y PROVE FALSE
    OBVIOUS
  <2>1. b - y \in left /\ b - y < m /\ b - y \in Nat /\ m \in Nat
    BY <1>2, <1>4
  <2> QED
    BY <1>3, <2>1 DEF R
<1> QED
  BY <1>5 DEF Audio!Max

\* The tokens matched at an overlap are as many on both sides and say the same.
LEMMA MatchedAreTwins ==
    ASSUME NEW T, NEW left \in Seq(T), NEW right \in Seq(T), NEW tolerance
    PROVE  LET n == Audio!MatchedTokens(left, right, tolerance) IN
           /\ n \in Nat /\ n <= Len(left) /\ n <= Len(right)
           /\ \A i \in 1..n : left[Len(left) - n + i][1] = right[i][1]
<1> DEFINE shorter == Audio!SmallerOf(Len(left), Len(right))
           S == {0} \cup {n \in 1..shorter :
                   \A i \in 1..n : Audio!SameToken(left[Len(left) - n + i], right[i], tolerance)}
           most == Audio!Max(S)
<1>1. shorter \in Nat /\ shorter <= Len(left) /\ shorter <= Len(right)
  BY DEF Audio!SmallerOf
<1>2. Audio!MatchedTokens(left, right, tolerance) = most
  BY DEF Audio!MatchedTokens
<1>3. S \in SUBSET Nat /\ S # {} /\ \A x \in S : x <= shorter
  BY <1>1
<1>4. most \in S
  <2> HIDE DEF S
  <2> QED
    BY <1>1, <1>3, GreatestNumber
<1> HIDE DEF most
<1>5. most \in Nat /\ most <= shorter
  BY <1>1, <1>4
<1>6. ASSUME NEW i \in 1..most PROVE left[Len(left) - most + i][1] = right[i][1]
  <2>1. Audio!SameToken(left[Len(left) - most + i], right[i], tolerance)
    BY <1>4, <1>5
  <2> QED
    BY <2>1 DEF Audio!SameToken
<1> QED
  BY <1>1, <1>2, <1>5, <1>6

\* plan_boundary_dedup, for the tokens of any two windows: whichever side is kept, what is
\* joined comes from one of them, and no text of either is lost.
THEOREM JoinLosesNothing ==
    ASSUME NEW T, NEW left \in Seq(T), NEW right \in Seq(T), NEW better \in BOOLEAN, NEW tolerance
    PROVE  LET joined == Audio!Joined(left, right, better, tolerance)
               sides == {left, right}
           IN /\ \A i \in DOMAIN joined : \E side \in sides : \E j \in DOMAIN side : joined[i] = side[j]
              /\ \A side \in sides :
                    /\ Len(joined) >= Len(side)
                    /\ \A j \in DOMAIN side : \E i \in DOMAIN joined : joined[i][1] = side[j][1]
<1> DEFINE n == Audio!MatchedTokens(left, right, tolerance)
           joined == Audio!Joined(left, right, better, tolerance)
           a == Len(left)
           b == Len(right)
<1>1. /\ n \in Nat /\ n <= a /\ n <= b /\ a \in Nat /\ b \in Nat
      /\ \A i \in 1..n : left[a - n + i][1] = right[i][1]
  BY MatchedAreTwins
<1>2. joined = IF better THEN left \o SubSeq(right, n + 1, b) ELSE SubSeq(left, 1, a - n) \o right
  BY DEF Audio!Joined
<1> HIDE DEF n, joined
<1>3. CASE better
  <2>1. /\ SubSeq(right, n + 1, b) \in Seq(T) /\ Len(SubSeq(right, n + 1, b)) = b - n
        /\ \A i \in 1..(b - n) : SubSeq(right, n + 1, b)[i] = right[n + i]
    BY <1>1
  <2>2. /\ joined \in Seq(T) /\ Len(joined) = a + (b - n)
        /\ \A i \in 1..(a + (b - n)) :
              joined[i] = IF i <= a THEN left[i] ELSE SubSeq(right, n + 1, b)[i - a]
    BY <1>2, <1>3, <2>1, ConcatProperties
  <2>3. /\ DOMAIN joined = 1..(a + (b - n)) /\ DOMAIN left = 1..a /\ DOMAIN right = 1..b
    BY <2>2
  <2>4. ASSUME NEW i \in 1..a PROVE i \in 1..(a + (b - n)) /\ joined[i] = left[i]
    BY <1>1, <2>2
  <2>5. ASSUME NEW i \in (n + 1)..b
        PROVE  a + (i - n) \in 1..(a + (b - n)) /\ joined[a + (i - n)] = right[i]
    <3>1. /\ i - n \in 1..(b - n) /\ a + (i - n) \in 1..(a + (b - n))
          /\ ~(a + (i - n) <= a) /\ (a + (i - n)) - a = i - n /\ n + (i - n) = i
      BY <1>1
    <3> QED
      BY <2>1, <2>2, <3>1
  <2>6. ASSUME NEW i \in 1..(a + (b - n)), i > a
        PROVE  n + (i - a) \in 1..b /\ joined[i] = right[n + (i - a)]
    <3>1. i - a \in 1..(b - n) /\ n + (i - a) \in 1..b /\ ~(i <= a)
      BY <1>1, <2>6
    <3> QED
      BY <2>1, <2>2, <3>1
  <2>7. ASSUME NEW i \in 1..n
        PROVE  a - n + i \in 1..a /\ joined[a - n + i][1] = right[i][1]
    <3>1. a - n + i \in 1..a /\ left[a - n + i][1] = right[i][1]
      BY <1>1
    <3> QED
      BY <2>4, <3>1
  <2>8. ASSUME NEW j \in 1..b PROVE \E i \in DOMAIN joined : joined[i][1] = right[j][1]
    <3>1. CASE j <= n
      <4>1. j \in 1..n
        BY <3>1
      <4> QED
        BY <2>3, <2>4, <2>7, <4>1
    <3>2. CASE j > n
      <4>1. j \in (n + 1)..b
        BY <1>1, <3>2
      <4> QED
        BY <2>3, <2>5, <4>1
    <3> QED
      BY <1>1, <3>1, <3>2
  <2>9. ASSUME NEW i \in 1..(a + (b - n))
        PROVE  \E side \in {left, right} : \E j \in DOMAIN side : joined[i] = side[j]
    <3>1. CASE i <= a
      BY <2>3, <2>4, <3>1
    <3>2. CASE i > a
      BY <2>3, <2>6, <3>2
    <3> QED
      BY <1>1, <3>1, <3>2
  <2>10. Len(joined) >= a /\ Len(joined) >= b
    BY <1>1, <2>2
  <2>11. ASSUME NEW j \in 1..a PROVE \E i \in DOMAIN joined : joined[i][1] = left[j][1]
    BY <2>3, <2>4
  <2> QED
    BY <2>3, <2>8, <2>9, <2>10, <2>11 DEF joined
<1>4. CASE ~better
  <2>1. /\ SubSeq(left, 1, a - n) \in Seq(T) /\ Len(SubSeq(left, 1, a - n)) = a - n
        /\ \A i \in 1..(a - n) : SubSeq(left, 1, a - n)[i] = left[i]
    BY <1>1
  <2>2. /\ joined \in Seq(T) /\ Len(joined) = (a - n) + b
        /\ \A i \in 1..((a - n) + b) :
              joined[i] = IF i <= a - n THEN SubSeq(left, 1, a - n)[i] ELSE right[i - (a - n)]
    BY <1>2, <1>4, <2>1, ConcatProperties
  <2>3. /\ DOMAIN joined = 1..((a - n) + b) /\ DOMAIN left = 1..a /\ DOMAIN right = 1..b
    BY <2>2
  <2>4. ASSUME NEW i \in 1..b
        PROVE  (a - n) + i \in 1..((a - n) + b) /\ joined[(a - n) + i] = right[i]
    <3>1. (a - n) + i \in 1..((a - n) + b) /\ ~((a - n) + i <= a - n) /\ (a - n) + i - (a - n) = i
      BY <1>1
    <3> DEFINE k == (a - n) + i
    <3> HIDE DEF k
    <3>2. joined[k] = right[k - (a - n)]
      BY <2>2, <3>1 DEF k
    <3>3. k - (a - n) = i
      BY <1>1, <3>1 DEF k
    <3>4. joined[k] = right[i]
      BY <3>2, <3>3
    <3> QED
      BY <3>1, <3>4 DEF k
  <2>5. ASSUME NEW i \in 1..(a - n)
        PROVE  i \in 1..a /\ i \in 1..((a - n) + b) /\ joined[i] = left[i]
    BY <1>1, <2>1, <2>2
  <2>6. ASSUME NEW i \in 1..((a - n) + b), i > a - n
        PROVE  i - (a - n) \in 1..b /\ joined[i] = right[i - (a - n)]
    BY <1>1, <2>2, <2>6
  <2>7. ASSUME NEW i \in 1..a, i > a - n
        PROVE  (a - n) + (i - (a - n)) \in 1..((a - n) + b)
               /\ joined[(a - n) + (i - (a - n))][1] = left[i][1]
    <3>1. i - (a - n) \in 1..n /\ i - (a - n) \in 1..b /\ a - n + (i - (a - n)) = i
      BY <1>1, <2>7
    <3> DEFINE k == i - (a - n)
    <3>2. k \in 1..n /\ k \in 1..b /\ a - n + k = i
      BY <3>1
    <3> HIDE DEF k
    <3>3. left[i][1] = right[k][1]
      BY <1>1, <3>2
    <3> QED
      BY <2>4, <3>2, <3>3 DEF k
  <2>8. ASSUME NEW j \in 1..a PROVE \E i \in DOMAIN joined : joined[i][1] = left[j][1]
    <3>1. CASE j <= a - n
      <4>1. j \in 1..(a - n)
        BY <1>1, <3>1
      <4> QED
        BY <2>3, <2>5, <4>1
    <3>2. CASE j > a - n
      BY <2>3, <2>7, <3>2
    <3> QED
      BY <1>1, <3>1, <3>2
  <2>9. ASSUME NEW i \in 1..((a - n) + b)
        PROVE  \E side \in {left, right} : \E j \in DOMAIN side : joined[i] = side[j]
    <3>1. CASE i <= a - n
      <4>1. i \in 1..(a - n)
        BY <1>1, <3>1
      <4> QED
        BY <2>3, <2>5, <4>1
    <3>2. CASE i > a - n
      BY <2>3, <2>6, <3>2
    <3> QED
      BY <1>1, <3>1, <3>2
  <2>10. Len(joined) >= a /\ Len(joined) >= b
    BY <1>1, <2>2
  <2>11. ASSUME NEW j \in 1..b PROVE \E i \in DOMAIN joined : joined[i][1] = right[j][1]
    BY <2>3, <2>4
  <2> QED
    BY <2>3, <2>8, <2>9, <2>10, <2>11 DEF joined
<1> QED
  BY <1>3, <1>4

\* Where a piece of a text stands, its characters are those of the text.
LEMMA PlaceOfPiece ==
    ASSUME NEW C, NEW text \in Seq(C), NEW piece \in Seq(C), NEW i \in Agreement!PlacesIn(text, piece),
           NEW k \in 1..Len(piece)
    PROVE  /\ i \in Nat /\ i + Len(piece) <= Len(text) /\ i + k \in 1..Len(text)
           /\ text[i + k] = piece[k]
<1>1. i \in 0..(Len(text) - Len(piece)) /\ SubSeq(text, i + 1, i + Len(piece)) = piece
  BY DEF Agreement!PlacesIn
<1>2. Len(text) \in Nat /\ Len(piece) \in Nat
  OBVIOUS
<1>3. \A j \in (i + 1)..(i + Len(piece)) : text[j] \in C
  BY <1>1, <1>2, ElementOfSeq
<1>4. \A j \in 1..(i + Len(piece) - (i + 1) + 1) :
          SubSeq(text, i + 1, i + Len(piece))[j] = text[i + 1 + j - 1]
  BY <1>1, <1>2, <1>3, SubSeqProperties
<1>5. k \in 1..(i + Len(piece) - (i + 1) + 1) /\ i + 1 + k - 1 = i + k
  BY <1>1, <1>2
<1>6. piece[k] = text[i + k]
  BY <1>1, <1>4, <1>5
<1> QED
  BY <1>1, <1>2, <1>6

\* restore_native_punctuation, for every text, owners of its characters and writings: a mark
\* is put only between characters that one candidate contributed and that stand on both
\* sides of a mark in this candidate's own writing.
THEOREM MarksBetweenNeighbours ==
    ASSUME NEW C, NEW text \in Seq(C), NEW I, NEW owners \in Seq(I), Len(owners) = Len(text),
           NEW writings,
           \A w \in writings : w.chars \in Seq(C) /\ w.marks \subseteq 0..Len(w.chars)
    PROVE  \A p \in Agreement!Punctuated(text, owners, writings) :
              /\ p \in 0..Len(text)
              /\ \E w \in writings : \E q \in w.marks :
                    /\ p # 0 => owners[p] = w.id /\ q # 0 /\ w.chars[q] = text[p]
                    /\ p # Len(text) => owners[p + 1] = w.id /\ q # Len(w.chars)
                                        /\ w.chars[q + 1] = text[p + 1]
<1> SUFFICES ASSUME NEW w \in writings, NEW q \in w.marks,
                    NEW p \in Agreement!Projected(text, w, q), Agreement!OwnedAround(owners, p, w.id)
             PROVE  /\ p \in 0..Len(text)
                    /\ p # 0 => owners[p] = w.id /\ q # 0 /\ w.chars[q] = text[p]
                    /\ p # Len(text) => owners[p + 1] = w.id /\ q # Len(w.chars)
                                        /\ w.chars[q + 1] = text[p + 1]
  BY DEF Agreement!Punctuated
<1> DEFINE chars == w.chars
           n == Len(chars)
           m == Len(text)
<1>1. chars \in Seq(C) /\ q \in 0..n /\ n \in Nat /\ m \in Nat
  OBVIOUS
<1>2. /\ p \in 0..m
      /\ p # 0 => q # 0 /\ chars[q] = text[p]
      /\ p # m => q # n /\ chars[q + 1] = text[p + 1]
  <2>1. CASE chars = text
    <3>1. p = q
      BY <2>1 DEF Agreement!Projected
    <3> QED
      BY <1>1, <2>1, <3>1
  <2>2. CASE chars # text
    <3> DEFINE from == Agreement!LargerOf(1, q - 3)
               to == Agreement!SmallerOf(n, q + 4)
               left == SubSeq(chars, from, q)
               right == SubSeq(chars, q + 1, to)
               piece == left \o right
               here == Agreement!PlacesIn(text, piece)
               found == CHOOSE i \in here : \A j \in here : i <= j
               a == Len(left)
               b == Len(right)
    <3>1. /\ p = found + a
          /\ here # {}
          /\ q = 0 => found = 0
          /\ q = n => found + Len(piece) = m
      <4> DEFINE unclear == \/ Len(piece) < 4
                            \/ ~Agreement!CountedOnce(Agreement!PlacesIn(chars, piece), Len(piece))
                            \/ ~Agreement!CountedOnce(here, Len(piece))
                            \/ q = 0 /\ found # 0
                            \/ q = n /\ found + Len(piece) # m
      <4>1. Agreement!Projected(text, w, q)
            = IF chars = text THEN {q} ELSE IF unclear THEN {} ELSE {found + a}
        BY DEF Agreement!Projected
      <4>2. p = found + a /\ ~unclear
        <5> HIDE DEF unclear, found, a
        <5> QED
          BY <2>2, <4>1
      <4> HIDE DEF piece, here, found, a
      <4> QED
        BY <4>2 DEF Agreement!CountedOnce
    <3>2. found \in here
      <4> DEFINE itself == [i \in here |-> i]
      <4>1. here \subseteq Nat
        <5> HIDE DEF piece
        <5> QED
          BY DEF Agreement!PlacesIn
      <4> HIDE DEF here, piece, a
      <4>2. itself \in [here -> Nat]
        BY <4>1
      <4>3. \E x \in here : \A y \in here : itself[x] <= itself[y]
        <5> HIDE DEF itself
        <5> QED
          BY <3>1, <4>2, SmallestBy
      <4> QED
        BY <4>3 DEF found
    <3>3. /\ from \in 1..(q + 1) /\ (q > 0 => from <= q) /\ (q = 0 => from = 1)
          /\ to \in q..n /\ (q < n => q + 1 <= to)
      BY <1>1 DEF Agreement!LargerOf, Agreement!SmallerOf
    <3> HIDE DEF from, to
    <3>4. /\ left \in Seq(C) /\ a = q - from + 1
          /\ \A i \in 1..a : left[i] = chars[from + i - 1]
      <4>1. from \in 1..(n + 1) /\ q \in (from - 1)..n /\ from <= q + 1
        BY <1>1, <3>3
      <4>2. \A i \in from..q : chars[i] \in C
        BY <1>1, <4>1, ElementOfSeq
      <4>3. left \in Seq(C) /\ Len(left) = q - from + 1 /\ \A i \in 1..(q - from + 1) : left[i] = chars[from + i - 1]
        BY <4>1, <4>2, SubSeqProperties
      <4> HIDE DEF left
      <4> QED
        BY <4>3
    <3>5. /\ right \in Seq(C) /\ b = to - q
          /\ \A i \in 1..b : right[i] = chars[q + i]
      <4>1. q + 1 \in 1..(n + 1) /\ to \in (q + 1 - 1)..n /\ q + 1 <= to + 1 /\ to - (q + 1) + 1 = to - q
        BY <1>1, <3>3
      <4>2. \A i \in (q + 1)..to : chars[i] \in C
        BY <1>1, <4>1, ElementOfSeq
      <4>3. /\ right \in Seq(C) /\ Len(right) = to - (q + 1) + 1
            /\ \A i \in 1..(to - (q + 1) + 1) : right[i] = chars[q + 1 + i - 1]
        <5> DEFINE next == q + 1
        <5>1. next \in Int /\ to \in Int /\ (IF next <= to THEN to - next + 1 ELSE 0) = to - next + 1
          BY <1>1, <4>1
        <5>2. \A i \in next..to : chars[i] \in C
          BY <4>2
        <5> HIDE DEF next
        <5>3. /\ SubSeq(chars, next, to) \in Seq(C)
              /\ Len(SubSeq(chars, next, to)) = to - next + 1
              /\ \A i \in 1..(to - next + 1) : SubSeq(chars, next, to)[i] = chars[next + i - 1]
          BY <5>1, <5>2, SubSeqProperties
        <5> QED
          BY <5>3, Zenon DEF next
      <4>4. \A i \in 1..(to - q) : q + 1 + i - 1 = q + i
        BY <1>1, <3>3
      <4> HIDE DEF right
      <4> QED
        BY <4>1, <4>3, <4>4
    <3>6. /\ piece \in Seq(C) /\ Len(piece) = a + b
          /\ \A i \in 1..(a + b) : piece[i] = IF i <= a THEN left[i] ELSE right[i - a]
      <4> HIDE DEF left, right, a, b
      <4>1. /\ left \o right \in Seq(C) /\ Len(left \o right) = Len(left) + Len(right)
            /\ \A i \in 1..(Len(left) + Len(right)) :
                 (left \o right)[i] = IF i <= Len(left) THEN left[i] ELSE right[i - Len(left)]
        BY <3>4, <3>5, ConcatProperties, Zenon
      <4> QED
        BY <4>1, Zenon DEF piece, a, b
    <3> HIDE DEF from, to, left, right, piece, here, found, a, b
    <3>7. a \in Nat /\ b \in Nat /\ (a = 0 <=> q = 0) /\ (b = 0 <=> q = n)
      <4>1. a = q - from + 1 /\ b = to - q
        BY <3>4, <3>5
      <4> QED
        BY <1>1, <3>3, <4>1
    <3>8. found \in Nat /\ found + (a + b) <= m
      <4>1. found \in 0..(m - Len(piece))
        BY <3>2 DEF here, Agreement!PlacesIn
      <4> QED
        BY <1>1, <3>6, <3>7, <4>1
    <3>9. ASSUME NEW k \in 1..(a + b) PROVE text[found + k] = piece[k]
      BY <3>2, <3>6, PlaceOfPiece DEF here
    <3>10. ASSUME q # 0 PROVE chars[q] = text[p]
      <4>1. a \in 1..(a + b) /\ from + a - 1 = q /\ a \in 1..a
        BY <1>1, <3>3, <3>4, <3>7, <3>10
      <4>2. piece[a] = left[a] /\ left[a] = chars[from + a - 1]
        BY <3>4, <3>6, <3>7, <4>1
      <4>3. text[p] = chars[q]
        BY <3>1, <3>9, <4>1, <4>2
      <4> QED
        BY <4>3
    <3>11. ASSUME q < n PROVE chars[q + 1] = text[p + 1]
      <4>1. a + 1 \in 1..(a + b) /\ ~(a + 1 <= a) /\ (a + 1) - a = 1 /\ 1 \in 1..b
        BY <1>1, <3>7, <3>11
      <4>2. piece[a + 1] = chars[q + 1]
        BY <3>5, <3>6, <4>1
      <4>3. text[found + (a + 1)] = chars[q + 1]
        BY <3>9, <4>1, <4>2
      <4>4. found + (a + 1) = p + 1
        BY <3>1, <3>7, <3>8
      <4> QED
        BY <4>3, <4>4
    <3>12. p \in 0..m /\ (q = 0 => p = 0) /\ (q = n => p = m)
      BY <1>1, <3>1, <3>6, <3>7, <3>8
    <3> QED
      BY <1>1, <3>10, <3>11, <3>12
  <2> QED
    BY <2>1, <2>2
<1>3. /\ p # 0 => owners[p] = w.id
      /\ p # m => owners[p + 1] = w.id
  BY <1>1, <1>2 DEF Agreement!OwnedAround, Agreement!LargerOf, Agreement!SmallerOf
<1> QED
  BY <1>2, <1>3

\* _coarse_timing, for every text and every segment with a sample for each character: the
\* tokens spell the text, none is empty, each starts where the one before ends,
\* and together they are the segment, in the order that validate_timing asks for.
THEOREM EveryCharacterTimed ==
    ASSUME NEW C, NEW text \in Seq(C), NEW span \in Nat \X Nat, Final!CanShareOut(text, span)
    PROVE  LET timed == Final!SharedOut(text, span) IN
           /\ Len(timed) = Len(text) /\ \A i \in DOMAIN timed : timed[i][1] = <<text[i]>>
           /\ Final!InOrder(timed, span)
           /\ \A i \in 2..Len(timed) : Final!Start(timed[i][2]) = Final!End(timed[i - 1][2])
           /\ Final!Start(timed[1][2]) = Final!Start(span)
           /\ Final!End(timed[Len(timed)][2]) = Final!End(span)
<1> DEFINE timed == Final!SharedOut(text, span)
           n == Len(text)
           d == Final!Length(span)
           s == Final!Start(span)
           share(i) == (d * i) \div n
           at(i) == s + share(i)
<1>1. n \in Nat \ {0} /\ d \in Nat /\ s \in Nat /\ d >= n /\ Final!End(span) = s + d
  BY DEF Final!CanShareOut, Final!Length, Final!Start, Final!End
<1> HIDE DEF n, d, s
<1>2. share(0) = 0 /\ share(n) = d
  BY <1>1, Z3
<1>3. ASSUME NEW i \in 1..n PROVE share(i - 1) \in Int /\ share(i) \in Int /\ share(i - 1) < share(i)
  <2> DEFINE x == share(i - 1)
             y == share(i)
  <2>1. i \in Int /\ i - 1 \in Int /\ d * i \in Int /\ d * (i - 1) = d * i - d /\ d * (i - 1) \in Int
    BY <1>1, Z3
  <2>2. /\ x \in Int /\ x * n <= d * i - d /\ d * i - d < x * n + n
        /\ y \in Int /\ y * n <= d * i /\ d * i < y * n + n
    BY <1>1, <2>1, Divides
  <2> HIDE DEF x, y
  <2>3. x * n \in Int /\ y * n \in Int /\ (y + 1) * n = y * n + n /\ (x + 1) * n = x * n + n
    BY <1>1, <2>2, TimesNext
  <2>4. (x + 1) * n < (y + 1) * n
    BY <1>1, <2>1, <2>2, <2>3
  <2>5. x + 1 < y + 1
    BY <1>1, <2>2, <2>4, TimesLess
  <2> QED
    BY <2>2, <2>5 DEF x, y
<1>4. ASSUME NEW i \in 1..n PROVE share(i) <= d /\ share(i - 1) >= 0
  <2>1. i \in Int /\ d * i \in Int /\ d * (i - 1) \in Int /\ d * i <= d * n /\ d * n \in Int /\ 0 <= d * (i - 1)
    BY <1>1, Z3
  <2>2. share(i) * n <= d * i /\ share(i) \in Int
    BY <1>1, <2>1, Divides
  <2>3. d * (i - 1) < share(i - 1) * n + n /\ share(i - 1) \in Int
    BY <1>1, <2>1, Divides
  <2> DEFINE x == share(i - 1)
             y == share(i)
  <2>4. y \in Int /\ x \in Int /\ y * n <= d * n /\ 0 < x * n + n
    <3>1. y \in Int /\ x \in Int /\ y * n <= d * i /\ d * (i - 1) < x * n + n
      BY <2>2, <2>3
    <3> HIDE DEF x, y
    <3>2. x * n \in Int /\ y * n \in Int
      BY <1>1, <3>1, TimesNext
    <3> QED
      BY <1>1, <2>1, <3>1, <3>2
  <2> HIDE DEF x, y
  <2>5. y * n \in Int /\ x * n \in Int /\ (x + 1) * n = x * n + n /\ (d + 1) * n = d * n + n /\ 0 * n = 0 /\ d * n \in Int
    BY <1>1, <2>4, TimesNext, Z3
  <2>6. y * n < (d + 1) * n /\ 0 * n < (x + 1) * n
    BY <1>1, <2>4, <2>5
  <2>7. y < d + 1 /\ 0 < x + 1
    BY <1>1, <2>4, <2>6, TimesLess
  <2> QED
    BY <1>1, <2>4, <2>7 DEF x, y
<1>5. /\ timed = [i \in 1..n |-> <<<<text[i]>>, <<at(i - 1), at(i)>>>>]
      /\ Len(timed) = n /\ DOMAIN timed = 1..n
  BY <1>1 DEF Final!SharedOut, n, d, s
<1> HIDE DEF timed
<1>6. \A i \in 1..n : /\ timed[i][1] = <<text[i]>> /\ Final!Start(timed[i][2]) = at(i - 1)
                      /\ Final!End(timed[i][2]) = at(i)
                      /\ Final!Length(timed[i][2]) = at(i) - at(i - 1)
  BY <1>5 DEF Final!Start, Final!End, Final!Length
<1>7. \A i \in 1..n : /\ at(i - 1) \in Int /\ at(i) \in Int /\ at(i - 1) < at(i)
                      /\ at(i) <= s + d /\ at(i - 1) >= s
  <2> SUFFICES ASSUME NEW i \in 1..n
               PROVE  /\ at(i - 1) \in Int /\ at(i) \in Int /\ at(i - 1) < at(i)
                      /\ at(i) <= s + d /\ at(i - 1) >= s
    OBVIOUS
  <2>1. /\ share(i - 1) \in Int /\ share(i) \in Int /\ share(i - 1) < share(i)
        /\ share(i) <= d /\ share(i - 1) >= 0
    BY <1>3, <1>4
  <2> HIDE DEF share
  <2> QED
    BY <1>1, <2>1
<1>8. at(0) = s /\ at(n) = s + d
  BY <1>1, <1>2
<1> HIDE DEF at
<1>9. \A i \in 2..n : i - 1 \in 1..n
  BY <1>1
<1>10. 1 \in 1..n /\ n \in 1..n /\ 1 - 1 = 0
  BY <1>1
<1>11. \A i \in 2..n : Final!Start(timed[i][2]) = Final!End(timed[i - 1][2])
  BY <1>6, <1>9
<1>12. Final!Start(timed[1][2]) = s /\ Final!End(timed[n][2]) = s + d
  BY <1>6, <1>8, <1>10
<1>13. Final!InOrder(timed, span)
  <2> SUFFICES ASSUME NEW i \in 1..n
               PROVE  /\ Final!Start(timed[i][2]) >= (IF i = 1 THEN s ELSE Final!End(timed[i - 1][2]))
                      /\ Final!End(timed[i][2]) <= s + d /\ Final!Length(timed[i][2]) > 0
    BY <1>1, <1>5 DEF Final!InOrder, s
  <2>1. Final!End(timed[i][2]) <= s + d /\ Final!Length(timed[i][2]) > 0
    BY <1>6, <1>7
  <2>2. Final!Start(timed[i][2]) \in Int
    BY <1>6, <1>7
  <2>3. CASE i = 1
    BY <1>1, <1>12, <2>1, <2>3
  <2>4. CASE i # 1
    BY <1>11, <2>1, <2>2, <2>4
  <2> QED
    BY <2>3, <2>4
<1> QED
  BY <1>1, <1>5, <1>6, <1>11, <1>12, <1>13 DEF n, s, timed

=============================================================================
