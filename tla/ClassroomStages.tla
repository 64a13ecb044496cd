-------------------------- MODULE ClassroomStages --------------------------
(***************************************************************************)
(* What the handlers of classroom/production.py read and commit while one   *)
(* job goes through its checkpoints: the master of the recording, the       *)
(* speech regions, the language route, the structure, then the passes over  *)
(* one segment.  A handler commits in one transaction with its checkpoint   *)
(* (JobStateMachine), so one step is one handler; only the calls of the     *)
(* language stage, which a journal on disk outlives, and the attempts of the *)
(* structure stage are steps of their own.  Meanwhile users edit the glossary, *)
(* the text and the installed models, and ask the job to yield: by a pause of *)
(* the job or the queue, or by dictating.                                     *)
(***************************************************************************)
EXTENDS Naturals, Sequences, FiniteSets

CONSTANT Jobs   \* the options of a job, its recording, and bounds

ASSUME StagesAssumption ==
    \A job \in Jobs : /\ job.strict \in BOOLEAN
                     /\ job.candidates \in Nat /\ job.edits \in Nat /\ job.losses \in Nat

VARIABLES
    options,     \* of the job; they never change
    global,      \* checkpoints of the whole recording that are completed
    master,      \* the canonical WAV: "none" or "whole"
    duration,    \* Recording.duration_samples is set
    answered,    \* entries of the ResponseJournal
    asked,       \* calls made for each entry
    todo,        \* checkpoints of the segment that are not completed
    candidates,  \* ASRCandidate rows of the segment, in order of creation
    adopted,     \* the rows the consensus took its tokens from
    layers,      \* faithful_text, smart_corrected_text and user_text
    tokens,      \* the text whose timing is stored, or "none"
    glossary,    \* what the course terms make suspicious
    models,      \* the installed body recognizers and the registry's revision
    failure,     \* the error of the last checkpoint that raised
    running,     \* the checkpoint being worked on, or "none"
    yield,       \* check_boundary would raise CheckpointInterrupted
    attempts,    \* outcomes of the structure calls of the window, per model
    aligner,     \* the outcome of the forced aligner that the timing rests on
    stageBudget

handlerVars == <<global, master, duration, answered, asked, todo, candidates, adopted,
                 layers, tokens, glossary, models, failure, running, yield, attempts, aligner,
                 stageBudget>>
stageVars == <<options, handlerVars>>

Ranking == options.ranking   \* the body recognizers in the order of the profile
Windows == options.windows   \* windows of the language stage that hold speech
Strict == options.strict     \* the job runs one model only
MaxCandidates == options.candidates   \* of the segment, over all retries
MaxEdits == options.edits      \* edits of the glossary and of the text, model changes
MaxLosses == options.losses    \* crashes and failed calls

GlobalStages == <<"upload_validate", "normalize_audio_master", "audio_qc", "vad",
                  "lid", "moss_structure">>

SegmentStages ==
    IF Strict
    THEN <<"primary_asr", "quality_and_review", "terminology", "punctuation",
           "forced_alignment", "final_validation">>
    ELSE <<"primary_asr", "quality_secondary", "quality_tertiary", "quality_and_review",
           "terminology", "punctuation", "forced_alignment", "final_validation">>

\* An entry of the journal is a window under the identity of the call: revision of the
\* model, stat of the recording's file and environment, all from the start of the
\* program on; a release is what changes them.
Entries == Windows \X (1..2)
EntryOf(w) == <<w, models.revision>>
RangeOf(s) == {s[i] : i \in 1..Len(s)}
None == 0
MaxAttempts == 2   \* max_window_attempts of StructurePipeline
Outcomes == {"good", "anomalous", "failed", "yielded"}
NoAttempts == [m \in {"moss", "pyannote"} |-> <<>>]
NoRoute == <<"none">>

Candidate(role, model, primary, bad, conflict) ==
    [role |-> role, model |-> model, revision |-> models.revision, of |-> primary,
     route |-> NoRoute, bad |-> bad, conflict |-> conflict]

StagesTypeOK ==
    /\ global \in 0..Len(GlobalStages) /\ master \in {"none", "whole"} /\ duration \in BOOLEAN
    /\ answered \subseteq Entries /\ asked \in [Entries -> 0..1 + MaxLosses]
    /\ todo \subseteq RangeOf(SegmentStages)
    /\ Len(candidates) <= MaxCandidates /\ adopted \subseteq DOMAIN candidates
    /\ layers \in [faithful : {"", "consensus", "punctuated"},
                   smart : {"", "consensus", "terms", "punctuated"},
                   user : {"none", "", "typed"}]
    /\ tokens \in {"none", "punctuated", "typed"}
    /\ glossary \subseteq {"suspect", "conflict"}
    /\ models \in [installed : SUBSET RangeOf(Ranking), revision : 1..2]
    /\ failure \in {"none", "conflict", "no_timing", "lost"}
    /\ running \in {"none"} \cup RangeOf(GlobalStages) \cup RangeOf(SegmentStages)
    /\ yield \in BOOLEAN
    /\ DOMAIN attempts = {"moss", "pyannote"}
    /\ \A m \in DOMAIN attempts : Len(attempts[m]) <= MaxAttempts /\ RangeOf(attempts[m]) \subseteq Outcomes
    /\ aligner \in Outcomes \cup {"none"}
    /\ stageBudget \in [edits : 0..MaxEdits, losses : 0..MaxLosses]

StagesInit ==
    /\ options \in Jobs
    /\ global = 0 /\ master \in {"none", "whole"} /\ duration = FALSE
    /\ answered = {} /\ asked = [e \in Entries |-> 0]
    /\ todo = {} /\ candidates = <<>> /\ adopted = {}
    /\ layers = [faithful |-> "", smart |-> "", user |-> "none"]
    /\ tokens = "none" /\ glossary = {}
    /\ models = [installed |-> RangeOf(Ranking), revision |-> 1]
    /\ running = "none" /\ yield = FALSE /\ attempts = NoAttempts /\ aligner = "none"
    /\ failure = "none" /\ stageBudget = [edits |-> MaxEdits, losses |-> MaxLosses]

globalVars == <<global, master, duration, answered, asked, attempts>>
segmentVars == <<todo, candidates, adopted, layers, tokens, aligner>>
outside == <<glossary, models, yield, stageBudget>>

-----------------------------------------------------------------------------
(* The checkpoints of the recording.                                        *)

NextKey ==
    IF global < Len(GlobalStages) THEN GlobalStages[global + 1]
    ELSE IF todo = {} THEN "none"
    ELSE CHOOSE key \in todo :
           \E i \in DOMAIN SegmentStages :
               SegmentStages[i] = key /\ \A j \in 1..(i - 1) : SegmentStages[j] \notin todo

\* run_next starts a checkpoint only while nothing asks the job to yield.
Begin ==
    /\ running = "none" /\ ~yield /\ NextKey # "none" /\ running' = NextKey
    /\ attempts' = NoAttempts
    /\ UNCHANGED <<global, master, duration, answered, asked, segmentVars, outside, failure>>

Ends == running' = "none"
AtGlobal(key) == running = key
Advance == global' = global + 1 /\ failure' = "none" /\ Ends
Loses(error) ==
    /\ stageBudget.losses > 0 /\ stageBudget' = [stageBudget EXCEPT !.losses = @ - 1]
    /\ failure' = error

\* Source hash, probe, quality report and speech regions only replace what a
\* previous attempt wrote.
RewriteRecording ==
    /\ \E key \in {"upload_validate", "audio_qc", "vad"} : AtGlobal(key)
    /\ Advance
    /\ UNCHANGED <<master, duration, answered, asked, attempts, segmentVars, outside>>

\* The WAV is published before the transaction: an attempt that finds it, its own
\* or an earlier job's, inspects it instead of decoding again.
NormalizeAudioMaster ==
    /\ AtGlobal("normalize_audio_master")
    /\ master' = "whole"
    /\ \/ Advance /\ duration' = TRUE /\ UNCHANGED stageBudget
       \/ Loses("lost") /\ Ends /\ UNCHANGED <<global, duration>>
    /\ UNCHANGED <<answered, asked, attempts, segmentVars, glossary, models, yield>>

\* One window: an answer journalled under the identity of the call is restored;
\* otherwise the worker is asked, and the answer is journalled before the next window
\* unless it is lost.
LidWindow(w) ==
    /\ AtGlobal("lid") /\ ~yield /\ EntryOf(w) \notin answered
    /\ asked' = [asked EXCEPT ![EntryOf(w)] = @ + 1]
    /\ \/ answered' = answered \cup {EntryOf(w)} /\ UNCHANGED <<failure, running, stageBudget>>
       \/ Loses("lost") /\ Ends /\ UNCHANGED answered
    /\ UNCHANGED <<global, master, duration, attempts, segmentVars, glossary, models, yield>>

\* The route replaces the language spans of the job once every window is known.
LidRoute ==
    /\ AtGlobal("lid") /\ {EntryOf(w) : w \in Windows} \subseteq answered
    /\ Advance /\ UNCHANGED <<master, duration, answered, asked, attempts, segmentVars, outside>>

\* The structure model is tried again after an error or an anomalous answer, the
\* diarizer after an error.
Tried(model) ==
    \/ Len(attempts[model]) = MaxAttempts
    \/ attempts[model] # <<>> /\ attempts[model][Len(attempts[model])] = "good"

\* The loop asks check_boundary before each attempt; the invoker asks it again once
\* the request has its slot, and what it raises there is caught as an error of the
\* attempt (_run_moss, _run_pyannote): "yielded".
StructureAttempt(model) ==
    /\ AtGlobal("moss_structure") /\ ~Tried(model)
    /\ model = "pyannote" => Tried("moss")
    /\ \E outcome \in Outcomes :
         /\ outcome = "yielded" => stageBudget.edits > 0
         /\ outcome = "anomalous" => model = "moss"
         /\ outcome \in {"failed", "anomalous"} => stageBudget.losses > 0
         /\ ~yield
         /\ attempts' = [attempts EXCEPT ![model] = Append(@, outcome)]
         /\ yield' = (outcome = "yielded")
         /\ stageBudget' = [edits |-> stageBudget.edits - (IF outcome = "yielded" THEN 1 ELSE 0),
                       losses |-> stageBudget.losses
                                  - (IF outcome \in {"failed", "anomalous"} THEN 1 ELSE 0)]
    /\ UNCHANGED <<global, master, duration, answered, asked, segmentVars, glossary, models, running,
                   failure>>

\* Structure, speaker spans, the segment and its checkpoints in one transaction;
\* the path of the window follows from the outcomes (WindowPath of Structure).
MossStructure ==
    /\ AtGlobal("moss_structure") /\ Tried("moss") /\ Tried("pyannote")
    /\ Advance /\ todo' = RangeOf(SegmentStages)
    /\ UNCHANGED <<master, duration, answered, asked, attempts, candidates, adopted, layers,
                   tokens, aligner, outside>>

-----------------------------------------------------------------------------
(* The passes over the segment.                                             *)

AtSegment(key) == running = key
Commit(key) == todo' = todo \ {key} /\ failure' = "none" /\ Ends

Raise(error) ==
    /\ failure' = error /\ Ends
    /\ UNCHANGED <<globalVars, segmentVars, outside>>

\* _primary_entry and _fallback_entries: the installed models in ranking order.
InstalledRoute(except) ==
    SelectSeq(Ranking, LAMBDA m : m \in models.installed /\ m # except)

PrimaryAsr ==
    /\ AtSegment("primary_asr") /\ Len(candidates) < MaxCandidates
    /\ InstalledRoute("none") # <<>>
    /\ \E bad \in BOOLEAN :
         candidates' = Append(candidates,
             Candidate("primary", Head(InstalledRoute("none")), None, bad, FALSE))
    /\ Commit("primary_asr")
    /\ UNCHANGED <<globalVars, adopted, layers, tokens, aligner, outside>>

\* The newest candidate with the primary role.
Primary ==
    CHOOSE p \in DOMAIN candidates :
        /\ candidates[p].role = "primary"
        /\ \A q \in DOMAIN candidates : candidates[q].role = "primary" => q <= p

\* QualityFeatureExtractor and ReviewRouter: both decisions are computed anew in
\* every pass, from the stored evidence and from the course terms of the moment.
RunSecondary == candidates[Primary].bad \/ "suspect" \in glossary
RunTertiary(second) == candidates[second].conflict \/ "conflict" \in glossary

\* The first two models of a route, as the primary candidate stores them.
Frozen(route) == SubSeq(route, 1, IF Len(route) < 2 THEN Len(route) ELSE 2)

EvidenceOfRole(role, model) ==
    {c \in DOMAIN candidates :
        /\ candidates[c].role = role /\ candidates[c].model = model
        /\ candidates[c].revision = models.revision}

\* _review_candidate: evidence of this model and role about the current primary.
Evidence(role, model) ==
    {c \in DOMAIN candidates :
        /\ candidates[c].role = role /\ candidates[c].model = model
        /\ candidates[c].revision = models.revision /\ candidates[c].of = Primary}

Latest(S) == CHOOSE c \in S : \A d \in S : d <= c
Review(role, model) ==
    {Append(candidates, Candidate(role, model, Primary, bad, conflict)) :
        bad \in BOOLEAN, conflict \in BOOLEAN}

WithRoute(rows, route) == [rows EXCEPT ![Primary].route = [i \in DOMAIN route |-> <<route[i], models.revision>>]]

\* The second model transcribes what the gate doubts; the route is kept with the
\* primary candidate for the later passes.
QualitySecondary ==
    LET route == InstalledRoute(candidates[Primary].model) IN
    /\ AtSegment("quality_secondary")
    /\ IF RunSecondary /\ route # <<>>
       THEN /\ Len(candidates) < MaxCandidates
            /\ \E rows \in Review("secondary", route[1]) :
                 candidates' = WithRoute(rows, Frozen(route))
       ELSE candidates' = WithRoute(candidates, Frozen(route))
    /\ Commit("quality_secondary")
    /\ UNCHANGED <<globalVars, adopted, layers, tokens, aligner, outside>>

StoredRoute == candidates[Primary].route
RouteIsCurrent == StoredRoute # NoRoute /\ \A i \in DOMAIN StoredRoute : StoredRoute[i][2] = models.revision
NeedsSecond == RunSecondary /\ StoredRoute # <<>>
Second == Evidence("secondary", StoredRoute[1][1])
NeedsThird == NeedsSecond /\ RunTertiary(Latest(Second)) /\ Len(StoredRoute) > 1
Third == Evidence("tertiary", StoredRoute[2][1])

\* The third model, when the first two disagree.
QualityTertiary ==
    /\ AtSegment("quality_tertiary")
    /\ IF ~RouteIsCurrent \/ (NeedsSecond /\ Second = {}) THEN Raise("conflict")
       ELSE /\ IF NeedsThird
               THEN /\ Len(candidates) < MaxCandidates
                    /\ candidates' \in Review("tertiary", StoredRoute[2][1])
               ELSE UNCHANGED candidates
            /\ Commit("quality_tertiary")
            /\ UNCHANGED <<globalVars, adopted, layers, tokens, aligner, outside>>

\* What the last pass hands to the consensus.
Reviewed == {Primary} \cup (IF NeedsSecond THEN {Latest(Second)} ELSE {})
                      \cup (IF NeedsThird THEN {Latest(Third)} ELSE {})

Adopt(rows, from) ==
    /\ candidates' = rows
    /\ adopted' \in SUBSET from
    /\ layers' = [layers EXCEPT !.faithful = "consensus", !.smart = "consensus"]
    /\ tokens' = "none" /\ aligner' = "none"
    /\ Commit("quality_and_review")
    /\ UNCHANGED <<globalVars, outside>>

\* The last pass finds the evidence of the earlier ones; a job of one model has no
\* earlier pass, and no fallback.
QualityFinish ==
    /\ AtSegment("quality_and_review")
    /\ IF Strict THEN Adopt(candidates, {Primary})
       ELSE IF \/ ~RouteIsCurrent \/ (NeedsSecond /\ Second = {})
               \/ (NeedsThird /\ Third = {}) THEN Raise("conflict")
       ELSE Adopt(candidates, Reviewed)

Terminology ==
    /\ AtSegment("terminology") /\ layers' = [layers EXCEPT !.smart = "terms"]
    /\ Commit("terminology")
    /\ UNCHANGED <<globalVars, candidates, adopted, tokens, aligner, outside>>

Punctuation ==
    /\ AtSegment("punctuation")
    /\ layers' = [layers EXCEPT !.faithful = "punctuated", !.smart = "punctuated"]
    /\ Commit("punctuation")
    /\ UNCHANGED <<globalVars, candidates, adopted, tokens, aligner, outside>>

FinalText == IF layers.user # "none" THEN layers.user ELSE layers.smart

\* Empty text loses its tokens; other text is timed by the aligner if the first two
\* sources and the gate leave it to it, else coarsely.  select_canonical_timing
\* catches what the call raises, a boundary of the invoker included.
ForcedAlignment ==
    /\ AtSegment("forced_alignment")
    /\ tokens' = IF FinalText = "" THEN "none" ELSE FinalText
    /\ \E outcome \in {"none", "good", "failed", "yielded"} :
         /\ aligner' = outcome
         /\ FinalText = "" => outcome = "none"
         /\ outcome # "none" => (outcome = "yielded") = yield
    /\ Commit("forced_alignment")
    /\ UNCHANGED <<globalVars, candidates, adopted, layers, outside>>

FinalValidation ==
    /\ AtSegment("final_validation")
    /\ IF tokens = "none" /\ FinalText # "" THEN Raise("no_timing")
       ELSE /\ Commit("final_validation")
            /\ UNCHANGED <<globalVars, candidates, adopted, layers, tokens, aligner, outside>>

\* A worker, a tool or the core fails: the transaction of the handler is rolled back.
StageFails ==
    /\ running # "none" /\ Loses("lost") /\ Ends
    /\ UNCHANGED <<globalVars, segmentVars, glossary, models, yield>>

\* check_boundary raises where the handler lets it through: nothing is committed.
Interrupted ==
    /\ yield /\ Ends
    /\ running \in {"vad", "lid", "moss_structure", "primary_asr", "quality_secondary",
                    "quality_tertiary", "quality_and_review", "punctuation"}
    /\ UNCHANGED <<globalVars, segmentVars, outside, failure>>

-----------------------------------------------------------------------------
(* What users and the product do meanwhile.                                 *)

Edit == stageBudget.edits > 0 /\ stageBudget' = [stageBudget EXCEPT !.edits = @ - 1]

\* update_terms, update_term, delete_term, delete_glossary: no job is asked.
EditGlossary ==
    /\ Edit /\ \E g \in SUBSET {"suspect", "conflict"} : g # glossary /\ glossary' = g
    /\ UNCHANGED <<globalVars, segmentVars, models, failure, running, yield>>

\* patch_segment, on the user's layer.
EditText ==
    /\ Edit /\ global = Len(GlobalStages)
    /\ \E text \in {"", "typed"} : layers' = [layers EXCEPT !.user = text]
    /\ UNCHANGED <<globalVars, todo, candidates, adopted, tokens, aligner, glossary, models,
                   failure, running, yield>>

\* A model is installed or deleted, or a release brings another revision.
ChangeModels ==
    /\ Edit
    /\ \/ \E m \in RangeOf(Ranking) :
            models' = [models EXCEPT !.installed = IF m \in @ THEN @ \ {m} ELSE @ \cup {m}]
       \/ /\ running = "none" /\ models.revision = 1
          /\ models' = [models EXCEPT !.revision = 2]
    /\ UNCHANGED <<globalVars, segmentVars, glossary, failure, running, yield>>

\* retry_segment of an idle job: every checkpoint of the segment starts over.
RetrySegment ==
    /\ Edit /\ global = Len(GlobalStages) /\ todo # RangeOf(SegmentStages) /\ running = "none"
    /\ todo' = RangeOf(SegmentStages) /\ failure' = "none"
    /\ UNCHANGED <<globalVars, candidates, adopted, layers, tokens, aligner, glossary, models,
                   running, yield>>

\* The job or the queue is paused, or dictation asks for the GPU; and the reverse.
AskToYield ==
    /\ Edit /\ ~yield /\ yield' = TRUE
    /\ UNCHANGED <<globalVars, segmentVars, glossary, models, failure, running>>
Resume ==
    /\ yield /\ running = "none" /\ yield' = FALSE
    /\ UNCHANGED <<globalVars, segmentVars, glossary, models, failure, running, stageBudget>>

StageWork ==
    \/ Begin \/ RewriteRecording \/ NormalizeAudioMaster
    \/ \E w \in Windows : LidWindow(w)
    \/ LidRoute \/ (\E m \in {"moss", "pyannote"} : StructureAttempt(m)) \/ MossStructure
    \/ PrimaryAsr \/ QualitySecondary \/ QualityTertiary \/ QualityFinish
    \/ Terminology \/ Punctuation \/ ForcedAlignment \/ FinalValidation
    \/ StageFails \/ Interrupted

StagesNext ==
    /\ \/ StageWork
       \/ EditGlossary \/ EditText \/ ChangeModels \/ RetrySegment \/ AskToYield \/ Resume
    /\ UNCHANGED options
StagesSpec == StagesInit /\ [][StagesNext]_stageVars

-----------------------------------------------------------------------------
(* Properties.                                                              *)

\* The text never mixes evidence about two primary candidates, of two attempts at
\* the segment or of two revisions: what the consensus adopted is its newest
\* primary row and the reviews of that very row (_review_candidate).
OnePrimary ==
    ("quality_and_review" \notin todo /\ adopted # {}) =>
        \A c \in adopted : c = Primary \/ candidates[c].of = Primary

\* An interrupted language stage goes on behind its last answer: a window is asked
\* again only after its answer was lost, or after a release whose model, environment or
\* file is not the one the journalled answer is of (ResponseJournal).
AskedOnce ==
    \A e \in Entries : /\ asked[e] <= 1 + (MaxLosses - stageBudget.losses)
                       /\ e \in answered => asked[e] > 0
                       /\ e[2] > models.revision => asked[e] = 0

\* Every review checkpoint can be entered again: whatever the users edit meanwhile,
\* the last passes find the evidence that the earlier ones decided to gather.
ReviewsReenter == (failure = "conflict") => models.revision # 1

\* A request to yield is no failed attempt of a model: what it interrupted is done
\* again, and never stored as the fallback of an attempt that failed.
YieldIsNoFailure ==
    /\ aligner # "yielded"
    /\ global = Len(GlobalStages) => \A m \in DOMAIN attempts : "yielded" \notin RangeOf(attempts[m])
=============================================================================
