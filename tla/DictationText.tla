--------------------------- MODULE DictationText ---------------------------
(***************************************************************************)
(* How what is said in one dictation becomes text: the chunk planner, the    *)
(* stream of the recognizer with its replayed overlap, the cached stream of  *)
(* the worker, the stable prefix and the text the controller commits.        *)
(*                                                                           *)
(* Time counts units of speech, Fine ticks each; a unit is one character or  *)
(* silence.  The models are outside the repository: they hear exactly what   *)
(* was said.  The times of its characters are not a streaming model's own:   *)
(* its worker shares the audio of the stream out among them evenly.          *)
(***************************************************************************)
EXTENDS Integers, FiniteSets, SequencesExt

CONSTANTS
    Letters,        \* what a voiced unit may say
    Hard, Overlap,  \* hard_chunk_seconds, overlap_seconds
    Semantic,       \* minimum_semantic_seconds
    Endpoint,       \* endpoint_silence_ms
    Horizon,        \* stable_prefix_seconds
    Threshold,      \* stream_chunk_ms: what the worker decodes at once
    Coalesced,      \* the 4 s above which qwen no longer waits longer for a new hypothesis
    MaxUnits        \* bound: the length of a session

\* Horizon >= Hard + Overlap, as the defaults are (45 s against 25 s and 2 s); dictation.py
\* also admits shorter horizons.

\* ChunkPlanner takes limits of 20 to 30 s and overlaps of 1.5 to 2.5 s (streaming.py:52).
ASSUME TextAssumption == Hard \in Nat \ {0} /\ Overlap \in Nat /\ Overlap <= Hard

Silence == ""
Fine == 12

VARIABLES
    phase,          \* "listening", then "idle" or "failed"
    family,         \* the streaming worker: "nemotron" or "qwen"
    mode,           \* confirmation: "fast" or "balanced"; or "accuracy", by a model without
                    \* word times (ark, granite, qwen), or "timed", by one with (firered, moss_en)
    said,           \* the units heard by the microphone
    core, voice,    \* core_start and last_voice_end of the planner
    stream,         \* base of the open stream, what of it the worker decoded, and where
                    \* the overlap the client kept begins
    committed, pending,     \* StablePrefix
    interim, prior,         \* the last hypothesis; _has_prior_chunk
    sent,           \* the text committed to the application
    cuts            \* the chunks cut so far, for the properties
textVars == <<phase, family, mode, said, core, voice, stream, committed, pending, interim, prior, sent, cuts>>

-----------------------------------------------------------------------------
(* Tokens: <<characters, start, end, stable>>, in ticks.                    *)

Text(tokens) == FlattenSeq([i \in DOMAIN tokens |-> tokens[i][1]])
Meets(t, u) == t[2] < u[3] /\ u[2] < t[3]
Earlier(t, u) == t[2] < u[2] \/ (t[2] = u[2] /\ t[3] <= u[3])
Sorted(tokens) == SortSeq(tokens, LAMBDA t, u : Earlier(t, u) /\ t # u)
Without(tokens, others) == SelectSeq(tokens, LAMBDA t : t \notin ToSet(others))

\* Tokens of the same text at the same time are one; a token inside what is accepted
\* that meets another is dropped.
Merge(accepted, incoming) ==
    IF accepted = <<>> THEN incoming ELSE
    LET end == Last(accepted)[3]
        add(result, t) ==
            LET met == {u \in ToSet(result) : Meets(u, t)} IN
            IF (\E u \in met : u[1] = t[1]) \/ (t[3] <= end /\ met # {}) THEN result ELSE Append(result, t)
    IN Sorted(FoldLeft(add, accepted, incoming))

\* Mutant: a new hypothesis is added to the pending tokens it meets.
RefreshBoth(previous, candidates) == Sorted(previous \o candidates)

\* A new hypothesis replaces the pending tokens it meets.
Refresh(previous, candidates) ==
    IF candidates = <<>> THEN previous ELSE
    Sorted(SelectSeq(previous, LAMBDA old : \A new \in ToSet(candidates) : ~Meets(old, new)) \o candidates)

StableLength(tokens, boundary) ==
    LET open == {i \in DOMAIN tokens : ~tokens[i][4] \/ tokens[i][3] > boundary}
    IN IF open = {} THEN Len(tokens) ELSE (CHOOSE i \in open : \A j \in open : i <= j) - 1

\* What StablePrefix.update does with its two fields: the tokens that became stable,
\* and the fields after it.
Update(state, candidates, now) ==
    LET combined == Merge(state.committed, Refresh(state.pending, candidates))
        beyond == SubSeq(combined, Len(state.committed) + 1, Len(combined))
        stable == SubSeq(beyond, 1, StableLength(beyond, Fine * (now - Horizon)))
        after == Merge(state.committed, stable)
    IN [stable |-> stable, committed |-> after, pending |-> Without(combined, after)]

-----------------------------------------------------------------------------
(* The worker.                                                              *)

Spoken(audio, from, to) == SelectSeq(SubSeq(audio, from + 1, to), LAMBDA u : u # Silence)

\* The characters said from one unit to another, with the times a streaming worker gives
\* them: the span shared out evenly, the last two unstable before the end.
Reported(audio, from, to, final) ==
    LET text == Spoken(audio, from, to)
        n == Len(text)
        at(i) == Fine * from + (Fine * (to - from) * i) \div n
    IN [i \in 1..n |-> <<<<text[i]>>, at(i - 1), at(i), final \/ i <= n - 2>>]

\* How much of a stream is decoded once it ends at a unit: nemotron decodes whole chunks,
\* qwen all of it once enough is new.
Decodable(base, decoded, end) ==
    LET new == end - base - decoded
        wait == Max({Threshold, Min({Coalesced, decoded \div 2})})
    IN IF family = "nemotron" THEN decoded + Threshold * (new \div Threshold)
       ELSE IF new >= wait THEN end - base ELSE decoded

\* A push without anything new to decode reports nothing.
Pushed(audio, s, end) ==
    LET decoded == Decodable(s.base, s.decoded, end) IN
    IF decoded = s.decoded THEN <<>> ELSE Reported(audio, s.base, s.base + decoded, FALSE)

\* A flush decodes the rest (fast), or the whole stream again; all of it is final.
Flushed(audio, s, end) == Reported(audio, s.base, end, TRUE)

\* An accuracy worker decodes the whole stream at the release.  A text without word times
\* is one token over the chunk and its context.
Confirmed(audio, s, end) ==
    LET text == Spoken(audio, s.base, end)
        times == SelectSeq([i \in 1..(end - s.base) |-> s.base + i], LAMBDA u : audio[u] # Silence)
        context == Max({0, core - Overlap})
    IN IF mode = "timed" THEN [i \in DOMAIN text |-> <<<<text[i]>>, Fine * (times[i] - 1), Fine * times[i], TRUE>>]
       ELSE IF mode = "accuracy" /\ text # <<>> THEN <<<<text, Fine * context, Fine * end, TRUE>>>>
       ELSE Flushed(audio, s, end)

\* The streaming worker offers its text as the one candidate; an accuracy worker none.
Candidates(tokens) == IF mode \in {"accuracy", "timed"} \/ tokens = <<>> THEN <<>> ELSE <<Text(tokens)>>

\* A stream opened after a cut: the kept overlap is pushed again, frame by frame, after a
\* hard limit, and forgotten at a semantic endpoint.
NextStream(s, end, reason) ==
    IF reason = "hard_limit"
    THEN [base |-> s.kept, kept |-> s.kept,
          decoded |-> FoldLeft(LAMBDA d, i : Decodable(s.kept, d, s.kept + i), 0,
                               [i \in 1..(end - s.kept) |-> i])]
    ELSE [base |-> end, decoded |-> 0, kept |-> end]

-----------------------------------------------------------------------------
(* The planner.                                                             *)

Reason(now, lastVoice) ==
    IF now - core >= Hard THEN "hard_limit"
    ELSE IF now - core >= Semantic /\ lastVoice > core /\ now - lastVoice >= Endpoint
    THEN "semantic_endpoint"
    ELSE "none"

-----------------------------------------------------------------------------
(* The controller.                                                          *)

TextInit ==
    /\ phase = "listening" /\ family \in {"nemotron", "qwen"}
    /\ mode \in {"fast", "balanced", "accuracy", "timed"}
    /\ said = <<>> /\ core = 0 /\ voice = 0
    /\ stream = [base |-> 0, decoded |-> 0, kept |-> 0]
    /\ committed = <<>> /\ pending = <<>> /\ interim = <<>> /\ prior = FALSE
    /\ sent = <<>> /\ cuts = <<>>

\* One frame: pushed to the worker, its hypothesis merged; a chunk that ends with it is
\* finalized, which publishes its stable text before the text of the frame.
Feed(unit) ==
    LET now == Len(said) + 1
        audio == Append(said, unit)
        lastVoice == IF unit = Silence THEN voice ELSE now
        reason == Reason(now, lastVoice)
        hypothesis == Pushed(audio, stream, now)
        framed == Update([committed |-> committed, pending |-> pending], hypothesis, now)
        pushed == [stream EXCEPT
                       !.decoded = Decodable(stream.base, @, now),
                       !.kept = IF now - @ > Overlap THEN now - Overlap ELSE @]
        flushed == Flushed(audio, stream, now)
        chunked == Update(framed, flushed, now)
    IN
    /\ phase = "listening" /\ now <= MaxUnits
    /\ said' = audio /\ voice' = lastVoice
    /\ IF reason = "none"
       THEN /\ committed' = framed.committed /\ pending' = framed.pending
            /\ interim' = hypothesis /\ stream' = pushed
            /\ sent' = sent \o Text(framed.stable)
            /\ UNCHANGED <<core, prior, cuts>>
       ELSE /\ committed' = chunked.committed /\ pending' = chunked.pending
            /\ interim' = flushed /\ stream' = NextStream(pushed, now, reason)
            /\ sent' = sent \o Text(chunked.stable) \o Text(framed.stable)
            /\ core' = now /\ prior' = TRUE
            /\ cuts' = Append(cuts, [start |-> core, end |-> now, reason |-> reason, base |-> stream.base])
    /\ UNCHANGED <<phase, family, mode>>

\* The key is released: the open chunk is finalized; its candidate stands for the whole
\* text only when no chunk was cut before.
Release ==
    LET now == Len(said)
        tokens == IF now > core THEN Confirmed(said, stream, now) ELSE interim
        candidates == IF now > core THEN Candidates(tokens) ELSE <<>>
        final == Without(Merge(committed, Refresh(pending, tokens)), committed)
    IN
    /\ phase = "listening"
    /\ phase' = "idle"
    /\ sent' = sent \o (IF candidates # <<>> /\ ~prior THEN candidates[1] ELSE Text(final))
    /\ interim' = tokens /\ pending' = <<>>
    /\ committed' = Merge(committed, Refresh(pending, tokens))
    /\ IF now > core
       THEN cuts' = Append(cuts, [start |-> core, end |-> now, reason |-> "release", base |-> stream.base])
            /\ core' = now
       ELSE UNCHANGED <<cuts, core>>
    /\ UNCHANGED <<family, mode, said, voice, stream, prior>>

\* A call to the worker fails, or Escape: what was not committed is dropped.
RecognitionFails ==
    /\ phase = "listening"
    /\ phase' = "failed" /\ interim' = <<>>
    /\ UNCHANGED <<family, mode, said, core, voice, stream, committed, pending, prior, sent, cuts>>

TextNext == (\E u \in Letters \cup {Silence} : Feed(u)) \/ Release \/ RecognitionFails
TextSpec == TextInit /\ [][TextNext]_textVars

-----------------------------------------------------------------------------
\* The chunks are the session cut into pieces: one begins where the last ended, and
\* the stream a chunk was heard in holds all of it and the overlap before it.
ChunksTile ==
    /\ \A i \in DOMAIN cuts :
          /\ cuts[i].start < cuts[i].end /\ cuts[i].end - cuts[i].start <= Hard
          /\ cuts[i].start = IF i = 1 THEN 0 ELSE cuts[i - 1].end
          /\ cuts[i].base = IF i = 1 \/ cuts[i - 1].reason # "hard_limit" THEN cuts[i].start
                            ELSE cuts[i].start - Overlap
    /\ core = IF cuts = <<>> THEN 0 ELSE Last(cuts).end
    /\ stream.base <= core

\* The worker decodes nothing that was not heard.
DecodedWithin == stream.base + stream.decoded <= Len(said)

\* What the application was sent is the committed prefix: its tokens are in order, none
\* meets another, and none is taken back or sent again.
PrefixOnce ==
    /\ \A i, j \in DOMAIN committed : i < j => committed[i][3] <= committed[j][2]
    /\ phase = "listening" => sent = Text(committed)

\* The times of a chunk are right only if it was spoken without a pause.
Even(reasons) == \A i \in DOMAIN cuts :
    cuts[i].reason \in reasons => Len(Spoken(said, cuts[i].base, cuts[i].end)) = cuts[i].end - cuts[i].base

Written == sent = Spoken(said, 0, Len(said))
After(reason) == Len(cuts) > 1 /\ cuts[Len(cuts) - 1].reason = reason

\* What was said is written once and in order, across any number of cuts, if no chunk
\* that ended at the hard limit has a pause in it, no model without word times confirms
\* what followed a pause, and one with word times confirms no pause.
SpokenOnce ==
    phase = "idle" /\ Even({"hard_limit"})
    /\ (mode = "accuracy" => ~After("semantic_endpoint")) /\ (mode = "timed" => Even({"release"})) =>
        Written

\* What test_final_after_semantic_cut_keeps_prior_tail_and_suppresses_window_only_candidates
\* says: a final decode after a semantic cut keeps the text before the cut.
TailKept == phase = "idle" /\ mode = "accuracy" /\ Even({"hard_limit"}) => Written

\* What a confirmation by a model with word times should do: replace what was shown, not
\* add to it.
ShownReplaced == phase = "idle" /\ mode = "timed" /\ Even({"hard_limit"}) => Written

\* What docs/ClassScribe分阶段开发计划.md:2143 asks: several automatic chunks repeat no word
\* and lose none.
LongSpeechKept == phase = "idle" /\ mode \in {"fast", "balanced"} => Written
=============================================================================
