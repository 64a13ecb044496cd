---------------------------- MODULE Recognition ----------------------------
(***************************************************************************)
(* Body recognition and its quality gate: the roles of the models and the    *)
(* answers that are accepted (asr/pipeline.py, asr/models.py), the part of   *)
(* an answer that belongs to its chunk (asr/context.py), the issues of a     *)
(* hypothesis and the reviews they ask for (quality/).                       *)
(* A hypothesis is [model, language, audio, core, words, tokens, confidence, *)
(* marks]: tokens are <<word, span>>, marks the issues that are seen in its  *)
(* writing alone (QualityMarks below).  Numbers are percentages; second is   *)
(* the number of samples of a second.                                        *)
(***************************************************************************)
EXTENDS Words

-----------------------------------------------------------------------------
(* Which model answers in which role, and which answers count.              *)

\* BodyASRPlanner.candidates over the registry's order of the models.
RoleOf(entries, i) ==
    LET ordinary == {j \in DOMAIN entries : ~entries[j].structural /\ ~entries[j].experimental} IN
    CASE entries[i].structural -> "structure"
      [] entries[i].experimental -> "expert"
      [] OTHER -> LET rank == Cardinality({j \in ordinary : j < i}) IN
                  IF rank = 0 THEN "primary" ELSE IF rank = 1 THEN "secondary" ELSE "tertiary"
Planned(entries) == \E i \in DOMAIN entries : RoleOf(entries, i) = "primary"

\* _validate_route.
MayTranscribe(entry, language, role, explicit) ==
    /\ "asr" \in entry.tasks /\ "batch" \in entry.modes
    /\ ~(entry.worker = "firered" /\ language = "ja")
    /\ {language, "auto"} \cap entry.languages # {}
    /\ entry.experimental \/ ~entry.enabled \/ role \in {"expert", "experimental"} => explicit

\* decode_policy: how much a recognizer may write for so much sound.
RoundUp(a, b) == (a + b - 1) \div b
MaxNewTokens(samples, second) == LargerOf(64, SmallerOf(2048, RoundUp(16 * samples, second) + 32))
MaxCharacters(samples, second) == LargerOf(128, RoundUp(40 * samples, second))

\* parse_asr_response and _response_tokens: the answer of this model for this chunk.
Accepts(response, entry, chunk, second) ==
    /\ response.ok /\ response.model = entry.id /\ response.revision = entry.revision
    /\ response.audio = chunk.audio
    /\ response.characters <= MaxCharacters(Length(chunk.audio), second)
    /\ response.generated <= MaxNewTokens(Length(chunk.audio), second)
    /\ \A i \in DOMAIN response.tokens : Samples(response.tokens[i][2]) \subseteq Samples(chunk.audio)

\* moss_structure_candidate: the words of the structure stage, without timing.
StructureHypothesis(segments, chunk) ==
    LET heard == SelectSeq(segments, LAMBDA s : s.words # <<>> /\ Overlap(s.span, chunk.audio)) IN
    [words |-> FlattenSeq([i \in DOMAIN heard |-> heard[i].words]), tokens |-> <<>>,
     audio |-> chunk.audio, core |-> chunk.core]

-----------------------------------------------------------------------------
(* core_evidence: a token belongs to the core that holds its middle.  Only    *)
(* when every word has its time are words left to the neighbour.             *)

Middle(span) == (Start(span) + End(span)) \div 2
WordsOf(tokens) == [i \in DOMAIN tokens |-> tokens[i][1]]
Timed(h) == h.tokens # <<>> /\ WordsOf(h.tokens) = h.words
Within(span, core) == <<LargerOf(Start(core), Start(span)), SmallerOf(End(core), End(span))>>
InCore(token, core) == Middle(token[2]) \in Samples(core) /\ Overlap(token[2], core)
CoreEvidence(h) ==
    LET mine == SelectSeq(h.tokens, LAMBDA t : InCore(t, h.core)) IN
    IF h.audio = h.core THEN h
    ELSE [h EXCEPT !.tokens = [i \in DOMAIN mine |-> <<mine[i][1], Within(mine[i][2], h.core)>>],
                   !.words = IF Timed(h) THEN WordsOf(mine) ELSE @]
Unresolved(h) == h.audio # h.core /\ ~Timed(h)

-----------------------------------------------------------------------------
(* inspect_decode_loop; fragment is the shortest phrase that counts, six     *)
(* words of Chinese or Japanese, three of English.                           *)

Phrase(words, i, size) == SubSeq(words, i, i + size - 1)
RepeatedPhrase(words, fragment) ==
    \E size \in fragment..SmallerOf(10, Len(words)) : \E i \in 1..(Len(words) + 1 - size) :
        LET places == {j \in 1..(Len(words) + 1 - size) : Phrase(words, j, size) = Phrase(words, i, size)} IN
        /\ Cardinality(places) > 3
        /\ 10 * Cardinality(UNION {j..(j + size - 1) : j \in places}) >= 6 * Len(words)
EndsInLoop(words) ==
    \E period \in 1..(Len(words) \div 4) : \A i \in (Len(words) - 3 * period + 1)..Len(words) :
        words[i] = words[i - period]
LoopIssues(h, fragment) ==
    {i \in {"repeated_ngram", "shortest_loop"} :
        IF i = "repeated_ngram" THEN RepeatedPhrase(h.words, fragment) ELSE EndsInLoop(h.words)}

-----------------------------------------------------------------------------
(* _timing_features: where the native times of the words are not to be        *)
(* believed; context is [span, voiced, second, ...].                          *)

TokenSpans(h) == [i \in DOMAIN h.tokens |-> h.tokens[i][2]]
TotalOf(S, value(_)) == FoldSet(LAMBDA x, sum : sum + value(x), 0, S)
Stacked(spans) == TotalOf(1..(Len(spans) - 1), LAMBDA i : LargerOf(0, End(spans[i]) - Start(spans[i + 1])))
TimingIssues(h, context) ==
    LET spans == TokenSpans(h)
        voiced == Covered(context.voiced)
        heard == Cardinality(UNION {Samples(spans[i]) : i \in DOMAIN spans}
                             \cap UNION {Samples(v) : v \in context.voiced})
        late == \E v \in context.voiced : End(v) > Middle(context.span)
        issue ==
          [non_monotonic |-> \E i \in 2..Len(spans) : Start(spans[i]) < Start(spans[i - 1]),
           out_of_range |-> \E i \in DOMAIN spans : ~(Samples(spans[i]) \subseteq Samples(context.span)),
           time_overlap |-> spans # <<>> /\ 4 * Stacked(spans) > TotalOf(DOMAIN spans, LAMBDA i : Length(spans[i])),
           low_coverage |-> \/ spans # <<>> /\ WordsOf(h.tokens) # h.words
                            \/ voiced >= 2 * context.second /\ 100 * heard < 45 * voiced,
           late_uncovered |-> /\ late /\ spans # <<>> /\ voiced >= 2 * context.second
                              /\ \A i \in DOMAIN spans : End(spans[i]) < Middle(context.span)]
    IN {i \in DOMAIN issue : issue[i]}

\* The acoustic, textual and structural comparisons.
SoundIssues(h, context) ==
    LET voiced == Covered(context.voiced)
        issue ==
          [empty_on_speech |-> voiced >= context.second /\ h.words = <<>>,
           silence_hallucination |-> Len(h.words) >= 8 /\ 100 * voiced < 5 * Length(context.span),
           too_dense |-> Len(h.words) >= 24 /\ 10 * context.second * Len(h.words)
                            > 24 * LargerOf(10 * voiced, context.second),
           length_mismatch |-> voiced >= 4 * context.second /\ h.words # <<>>
                               /\ 4 * context.second * Len(h.words) < voiced,
           structure_divergence |-> context.structure # <<>>
                                    /\ MoreDifferentThan(h.words, context.structure, 65),
           low_snr |-> context.noisy, far_field |-> context.noisy,
           suspected_term |-> context.suspectedTerm]
    IN {i \in DOMAIN issue : issue[i]}

-----------------------------------------------------------------------------
(* The report (QualityFeatureExtractor.inspect).                            *)

REPETITION_ISSUES ==
    {"repeated_ngram", "shortest_loop", "prefix_stagnation", "repetition_compression", "repeated_sentence"}
HARD_REJECTION_ISSUES ==
    {"silence_hallucination", "too_dense", "replacement_character", "double_question",
     "illegal_character", "script_mismatch", "non_monotonic", "out_of_range", "time_overlap"}
\* What is seen in the writing alone: characters, scripts, compression, sentences.
QualityMarks ==
    {"replacement_character", "double_question", "illegal_character", "script_mismatch",
     "punctuation_density", "unpaired_punctuation", "missing_sentence_end", "numeric_anomaly",
     "prefix_stagnation", "repetition_compression", "repeated_sentence"}

Penalty(issue) ==
    CASE issue \in HARD_REJECTION_ISSUES \ {"double_question"} -> 100
      [] issue = "double_question" -> 80
      [] issue = "repeated_sentence" -> 40
      [] issue \in {"empty_on_speech", "late_uncovered", "length_mismatch"} -> 35
      [] issue \in {"shortest_loop", "repetition_compression"} -> 30
      [] issue \in {"numeric_anomaly", "low_coverage", "structure_divergence"} -> 25
      [] issue = "unpaired_punctuation" -> 15
      [] issue = "missing_sentence_end" -> 5
      [] OTHER -> 20

Blocking(issues) ==
    (issues \cap HARD_REJECTION_ISSUES) \ (IF issues \cap REPETITION_ISSUES # {} THEN {"too_dense"} ELSE {})
Halves(span) == <<<<Start(span), Middle(span)>>, <<Middle(span), End(span)>>>>
\* _ISSUE_PENALTIES, blocking_issues and the retry in two halves.  The only context that
\* is made (_quality_context) gives no calibrated_candidate_quality and no
\* no_speech_probability, so the branches for them are not taken.
Report(h, context) ==
    LET issues == LoopIssues(h, context.fragment) \cup TimingIssues(h, context)
                  \cup SoundIssues(h, context) \cup h.marks
    IN [issues |-> issues,
        score |-> LargerOf(0, 100 - TotalOf(issues, Penalty)),
        valid |-> Blocking(issues) = {},
        retry |-> IF Blocking(issues) # {} \/ issues \cap REPETITION_ISSUES # {}
                  THEN Halves(context.span) ELSE <<>>]

-----------------------------------------------------------------------------
(* Who hears the segment again (ReviewRouter, compare_language_candidates).   *)

SECONDARY_ISSUES ==
    (REPETITION_ISSUES \cup {"silence_hallucination", "script_mismatch", "low_coverage", "late_uncovered",
      "non_monotonic", "out_of_range", "time_overlap", "suspected_term", "structure_divergence",
      "low_snr", "far_field"})
AsksSecondary(report) == report.score < 82 \/ report.issues \cap SECONDARY_ISSUES # {}

\* Where the words of a class stand, each with two neighbours on either side.
Events(words, class) ==
    LET at == SetToSortSeq({i \in DOMAIN words : words[i] \in class}, <) IN
    [k \in DOMAIN at |-> <<words[at[k]], SubSeq(words, LargerOf(1, at[k] - 2), at[k] - 1),
                           SubSeq(words, at[k] + 1, SmallerOf(Len(words), at[k] + 2))>>]
FirstPlace(words, w) == Min({i \in DOMAIN words : words[i] = w}) - 1
\* known is [precise, names, reading]: numbers, units and negations, names and terms,
\* and the pronunciation of each word.
Moved(left, right, w) ==
    /\ w \in ToSet(left) \cap ToSet(right)
    /\ Distance(FirstPlace(left, w) * Len(right), FirstPlace(right, w) * Len(left)) * 5
          > Len(left) * Len(right)
Conflicts(left, right, known) ==
    \/ Events(left, known.precise) # Events(right, known.precise)
    \/ ToSet(left) \cap known.names # ToSet(right) \cap known.names
    \/ \E w \in known.names : Moved(left, right, w)
Spoken(words, known) == [i \in DOMAIN words |-> known.reading[words[i]]]
SoundsAlike(left, right, known) ==
    /\ MoreDifferentThan(left, right, 5) /\ left # <<>> /\ right # <<>>
    /\ ~MoreDifferentThan(Spoken(left, known), Spoken(right, known), 15)
AsksTertiary(primary, secondary, left, right, known) ==
    \/ Conflicts(left, right, known)
    \/ primary.score < 62 /\ secondary.score < 62
    \/ SoundsAlike(left, right, known)
    \/ (left = <<>>) # (right = <<>>)

\* merge_retry_pieces: one other model, heard in the halves, is one hypothesis.
Merges(halves, pieces, core) ==
    /\ [i \in DOMAIN pieces |-> pieces[i].audio] = halves
    /\ \A i \in DOMAIN pieces : pieces[i].model = pieces[1].model
    /\ Start(Head(halves)) <= Start(core) /\ End(core) <= End(Last(halves))
Merged(halves, pieces, core) ==
    [pieces[1] EXCEPT !.audio = <<Start(Head(halves)), End(Last(halves))>>, !.core = core,
                      !.words = FlattenSeq([i \in DOMAIN pieces |-> pieces[i].words]),
                      !.tokens = FlattenSeq([i \in DOMAIN pieces |-> pieces[i].tokens]),
                      !.marks = {}]

-----------------------------------------------------------------------------
(* recover_repetition_markers at the start of the service: a segment is       *)
(* [ended, active, source, typed, decided, faithful, consensus, candidates,  *)
(* smart, version, status], where consensus is the text the last consensus    *)
(* adopted ("none" before there is one) and candidates the rows it listed; a  *)
(* row is [id, supersedes, scored, words, issues], scored when its report is   *)
(* of the old gate.  issuesNow are those of the row judged again, result the   *)
(* new consensus.                                                            *)

Untouched(segment) ==
    /\ segment.ended /\ segment.active /\ segment.source = "inaudible_marker"
    /\ ~segment.typed /\ ~segment.decided
    /\ segment.consensus \in {"none", segment.faithful} /\ segment.smart = segment.faithful
Listed(segment, rows) == IF segment.consensus = "none" THEN rows ELSE {r \in rows : r.id \in segment.candidates}
Current(rows) == {r \in rows : \A q \in rows : q.supersedes # r.id}
Judged(row, issuesNow) == (row.issues \ REPETITION_ISSUES) \cup issuesNow[row.id]
Rescued(segment, rows, issuesNow) ==
    {r \in Current(Listed(segment, rows)) :
        /\ r.scored /\ r.words # <<>>
        /\ r.issues \cap REPETITION_ISSUES # {} /\ Blocking(r.issues) = {}
        /\ Blocking(Judged(r, issuesNow)) = {}}
\* The rows that are judged again have a report of the new gate from then on.
Recovered(state, issuesNow, result) ==
    LET rescued == Rescued(state.segment, state.rows, issuesNow)
        judged(r) == [r EXCEPT !.scored = FALSE, !.issues = Judged(r, issuesNow)]
    IN IF ~Untouched(state.segment) \/ rescued = {} THEN state
       ELSE [segment |-> [state.segment EXCEPT !.faithful = result.text, !.smart = result.text,
                                               !.source = result.strategy, !.status = "needs_review",
                                               !.version = @ + 1],
             rows |-> (state.rows \ rescued) \cup {judged(r) : r \in rescued}]
=============================================================================
