------------------------------ MODULE MCStages ------------------------------
(***************************************************************************)
(* Small inputs for the pure stages of a classroom job.  A state is one      *)
(* input of one stage, before and after the stage ran (done);                *)
(* the invariants relate the two.                                            *)
(***************************************************************************)
EXTENDS Timeline

\* Texts of three letters and of four; what sounds alike is not transitive.
Letters3 == {"abc", "abd"}
Alike(s, t) ==
    IF "" \in {s, t} THEN 0
    ELSE IF s = t THEN 100
    ELSE IF {s, t} = Letters3 THEN 66 ELSE 90
TextSize(s) == IF s = "" THEN 0 ELSE IF s \in Letters3 THEN 3 ELSE 4

Audio == INSTANCE AudioAnalysis
Voices == INSTANCE Structure WITH Similarity <- Alike, Size <- TextSize
Body == INSTANCE Recognition
Online == INSTANCE MaiAnswer
Agreement == INSTANCE Consensus
Final == INSTANCE FinalText
Export == INSTANCE Exports WITH Maximum <- 4, LineLimit <- 2, Speed <- 1, Second <- 2

VARIABLES stage, input, output, done
vars == <<stage, input, output, done>>

UpToTwo(S) == {{}} \cup {{x, y} : x, y \in S}
Sequences(S, lengths) == UNION {[1..n -> S] : n \in lengths}
SpansIn(n) == {s \in (0..n) \X (0..n) : s[1] < s[2]}

-----------------------------------------------------------------------------
(* Inputs.                                                                  *)

VadTotal == 7
VadInputs ==
    {[frames |-> [i \in 1..VadTotal |-> <<i - 1, i, i \in speech>>],
      policy |-> [padding |-> p, minSpeech |-> s, minSilence |-> q, total |-> VadTotal]] :
        speech \in SUBSET (1..VadTotal), p \in 0..1, s \in 1..2, q \in 1..3}

RouteInputs ==
    {[seen |-> [i \in 1..4 |-> <<<<2 * i - 2, 2 * i>>, heard[i][1], heard[i][2]>>], points |-> points] :
        heard \in [1..4 -> {"zh", "en"} \X BOOLEAN], points \in SUBSET {1, 3, 5}}

WindowInputs == [total : 0..12, window : 4..5, overlap : 1..2, minimum : 2..3]

ChunkPolicies == {[minimum |-> 2, target |-> 3, hardMax |-> m, context |-> 1] : m \in 4..5}
ChunkInputs ==
    {[extent |-> <<1, 11>>, cues |-> cues, policy |-> policy] :
        cues \in UpToTwo((2..10) \X {"speaker", "pause", "sentence"}), policy \in ChunkPolicies}

Tokens(from) == Sequences({<<text, <<from + i, from + i + 1>>>> : text \in {"a", "b"}, i \in 0..1}, 0..2)
JoinInputs == [left : Tokens(3), right : Tokens(4), better : BOOLEAN, tolerance : 0..1]

Turns == SpansIn(3) \X {<<"A">>, <<"B">>}
Disjoint(turns) == \A u, v \in turns : u = v \/ ~Overlap(u[1], v[1])
Coarse(span, speaker, text) ==
    [window |-> 1, span |-> span, speaker |-> speaker, text |-> text, overlap |-> FALSE, score |-> 55]
MossAnswers ==
    {[answered |-> FALSE, healthy |-> FALSE, segments |-> <<>>]}
    \cup [answered : {TRUE}, healthy : BOOLEAN,
          segments : {<<>>, <<Coarse(<<0, 2>>, <<"S1">>, "x"), Coarse(<<1, 3>>, <<"S2">>, "y")>>}]
PyannoteAnswers ==
    {[answered |-> FALSE, diar |-> [regular |-> {}, exclusive |-> {}, voices |-> {}]]}
    \cup {[answered |-> TRUE, diar |-> [regular |-> regular, exclusive |-> exclusive, voices |-> {<<"A">>}]] :
            regular \in UpToTwo(Turns), exclusive \in {t \in UpToTwo(Turns) : Disjoint(t)}}
StructureInputs ==
    [moss : MossAnswers, pyannote : PyannoteAnswers, speech : {{}, {<<0, 1>>, <<2, 3>>}}]

\* Two speakers of the window before and two labels of this one, with what each said
\* in the overlap of the windows.
Spoken(window, span, speaker, text) ==
    [window |-> window, span |-> span, speaker |-> speaker, text |-> text, overlap |-> FALSE, score |-> 55]
Earlier(in) == {Spoken(1, <<0, 10>>, g, in.before[g]) : g \in 1..2}
Now(in) == {Spoken(2, <<2, 12>>, l, in.now[l]) : l \in {"A", "B"}}
Evidence(in) ==
    [l \in {"A", "B"} |-> [g \in 1..2 |->
        [cosine |-> in.voice[l][g].cosine, adjacency |-> in.voice[l][g].adjacency,
         constraint |-> Voices!Constraint(Earlier(in), Now(in), l, g)]]]
StitchInputs ==
    {in \in [voice : [{"A", "B"} -> [1..2 -> [cosine : {60, 75, 90}, adjacency : {0, 100}]]],
             heard : [{"A", "B"} -> {1, 2}], before : {<<"abc", "abd">>, <<"abc", "abc">>, <<"abcd", "abd">>},
             now : [{"A", "B"} -> {"", "abc"}]] :
        \A l \in {"A", "B"} : in.now[l] # "" => \A g \in 1..2 : in.voice[l][g].adjacency = 100}

Heard(windows) ==
    {[window |-> w, span |-> s, speaker |-> "A", text |-> t, overlap |-> FALSE, score |-> c] :
        w \in windows, s \in {<<0, 8>>, <<4, 12>>, <<7, 15>>}, t \in {"abc", "abcd", "abd", ""}, c \in {40, 55}}
\* No window has two segments of one span, which the stage would leave in the order
\* of the answer.
DedupInputs ==
    {in \in UpToTwo(Heard(1..2)) \cup {{x, y, z} : x, y, z \in Heard(1..2) \ {h \in Heard(1..2) : h.text = ""}} :
        \A s, t \in in : s.window = t.window /\ s.span = t.span => s = t}

\* Three words around a cut at 5: what the chunks on its two sides hear of them
\* with two samples of context, clipped where their audio ends.
Utterances == {u \in [1..3 -> SpansIn(10)] :
                  /\ \A i \in 1..3 : Length(u[i]) <= 2
                  /\ \A i \in 1..2 : End(u[i]) <= Start(u[i + 1])}
ChunkOf == <<[audio |-> <<0, 7>>, core |-> <<0, 5>>], [audio |-> <<3, 10>>, core |-> <<5, 10>>]>>
HeardOf(u, chunk, timed) ==
    LET heard == SelectSeq([i \in 1..3 |-> <<i, u[i]>>], LAMBDA t : Overlap(t[2], chunk.audio))
        words == [i \in DOMAIN heard |-> heard[i][1]]
        tokens == [i \in DOMAIN heard |-> <<heard[i][1], Body!Within(heard[i][2], chunk.audio)>>]
    IN [audio |-> chunk.audio, core |-> chunk.core, words |-> words,
        tokens |-> IF timed \/ tokens = <<>> THEN tokens ELSE Tail(tokens)]
CoreInputs == [words : Utterances, timed : [1..2 -> BOOLEAN]]

Loop(n) == [i \in 1..n |-> 1 + (i % 2)]
Timings == {<<>>, <<<<0, 4>>, <<4, 8>>>>, <<<<0, 4>>, <<2, 3>>>>, <<<<0, 1>>, <<1, 2>>>>, <<<<2, 4>>, <<0, 1>>>>,
            <<<<0, 4>>, <<7, 9>>>>}
ReviewInputs ==
    {[h |-> [words |-> words, tokens |-> [i \in DOMAIN t |-> <<IF i <= Len(words) THEN words[i] ELSE 99, t[i]>>],
             audio |-> <<0, 8>>, core |-> <<0, 8>>, marks |-> marks, model |-> "m1"],
      context |-> [span |-> <<0, 8>>, voiced |-> v, second |-> 2, fragment |-> 3, noisy |-> FALSE,
                   structure |-> structure, suspectedTerm |-> FALSE]] :
        words \in {<<>>, <<1, 2>>, Loop(8), Loop(12), <<1, 1, 2, 1, 1, 2, 1, 1, 2, 1, 1, 2>>,
                   [i \in 1..26 |-> i]},
        t \in Timings, marks \in {{}, {"prefix_stagnation"}, {"missing_sentence_end"}, {"double_question"}},
        v \in {{}, {<<0, 2>>}, {<<0, 1>>, <<5, 8>>}, {<<0, 8>>}}, structure \in {<<>>, <<1, 2>>}}

\* Two hypotheses of plain words that sound alike, a number and a name.
Compared == Sequences({"a", "b", "1", "N"}, 0..3)
Known == [precise |-> {"1"}, names |-> {"N"}, reading |-> [w \in {"a", "b", "1", "N"} |-> IF w = "b" THEN "a" ELSE w]]
CompareInputs == [left : Compared, right : Compared, scores : {<<90, 90>>, <<60, 61>>, <<60, 62>>}]

\* An inaudible segment at the start of the service, with two rows of which the second
\* may replace the first, and what judging them again says.
Rows == {{[id |-> 1, supersedes |-> 0, scored |-> s, words |-> <<"a">>, issues |-> i],
          [id |-> 2, supersedes |-> r, scored |-> TRUE, words |-> w, issues |-> {"shortest_loop"}]} :
            s \in BOOLEAN, i \in {{"low_snr"}, {"repeated_ngram"}, {"repeated_ngram", "script_mismatch"}},
            r \in 0..1, w \in {<<>>, <<"b">>}}
RecoverInputs ==
    [segment : [ended : BOOLEAN, active : {TRUE}, source : {"inaudible_marker", "time_aligned"}, typed : BOOLEAN,
                decided : BOOLEAN, faithful : {"old"}, consensus : {"none", "old", "other"},
                candidates : {{1}, {1, 2}}, smart : {"old", "edited"}, version : {1}, status : {"auto"}],
     rows : Rows, issuesNow : [1..2 -> {{}, {"shortest_loop"}, {"too_dense"}}],
     result : {[text |-> "new", strategy |-> "time_aligned"], [text |-> "old", strategy |-> "inaudible_marker"]}]

\* Two phrases cut out of one text, with words that may be cut elsewhere: times that
\* run backwards, have no length or leave the recording.
Voiced == {<<<<"a", ",">>, <<"b", ".">>, <<"a", "c">>>>, <<<<"a">>, <<".">>, <<"b", ",">>>>,
           <<<<"a", ".", "b">>, <<"a">>, <<"b">>>>}
Ats == {<<0, 4>>, <<1, 3>>, <<3, 3>>, <<2, 0>>, <<6, 3>>}
Phrase(text, at, words, language) ==
    [text |-> text, at |-> at, words |-> words, language |-> language, kana |-> language = "ja"]
PhraseCuts(text, words) ==
    {<<Phrase(SubSeq(text, 1, k), at, SubSeq(words, 1, m), "zh"),
       Phrase(SubSeq(text, k + 1, Len(text)), <<5, 4>>, SubSeq(words, m + 1, Len(words)), "ja")>> :
        k \in 1..Len(text), m \in 0..Len(words), at \in {<<-1, 0>>, <<0, 5>>}}
MaiInputs ==
    UNION {PhraseCuts(FlattenSeq(s), [i \in DOMAIN s |-> [text |-> s[i], at |-> times[i]]]) :
             s \in Voiced, times \in [1..3 -> Ats]}

Hypotheses(id, timings, states) ==
    {[id |-> id, model |-> id, words |-> w, tokens |-> [i \in 1..(IF t = <<>> THEN 0 ELSE Len(w)) |-> <<w[i], t[i]>>],
      core |-> <<0, 6>>, valid |-> s # "refused", looping |-> IF s = "loops" THEN 1 ELSE 0,
      score |-> 90, unresolved |-> FALSE] :
        w \in Sequences({"a", "b"}, 0..2), t \in timings, s \in states}
Native == <<<<4, 6>>, <<5, 6>>>>
ConsensusInputs ==
    {[candidates |-> {c, d, e}, core |-> <<0, 6>>,
      inputs |-> [reliability |-> <<r, 80, 80>>, confidence |-> <<50, 50, 50>>, voiced |-> {<<0, 3>>},
                  glossary |-> {"b"}, illegal |-> bad, rules |-> [w \in {"b"} |-> "B"]]] :
        c \in Hypotheses(1, {<<>>, Native}, {"clean", "loops", "refused"}),
        d \in Hypotheses(2, {<<>>}, {"clean", "loops"}), e \in Hypotheses(3, {<<>>}, {"clean"}),
        r \in {0, 80}, bad \in {{}, {"a"}, {"a", "b"}}}

Letters(n) == [1..n -> {"a", "b"}]
PunctuationInputs ==
    {[text |-> text, owners |-> [i \in 1..5 |-> IF i <= k THEN 1 ELSE 2],
      writing |-> [id |-> 1, chars |-> chars, marks |-> 0..Len(chars)]] :
        text \in Letters(5), k \in 0..5, chars \in Letters(4) \cup Letters(5) \cup Letters(6)}

\* A course term "c" said as "a" or "ab", another said as "b", and what the models
\* answer about the marks and the times of the text.
Terms == {<<[canonical |-> <<"c">>, aliases |-> {<<"a">>, <<"a", "b">>}, trusted |-> t],
            [canonical |-> <<"d", "d">>, aliases |-> {<<"b">>}, trusted |-> TRUE]>> : t \in BOOLEAN}
TermInputs == [text : Sequences({"a", "b", "x"}, 0..4), terms : Terms]

MarkInputs ==
    {[language |-> l, text |-> t, proposal |-> p, pause |-> 300 * n, speakerChanged |-> c] :
        l \in {"zh", "ja", "en"}, t \in Sequences({"a", ",", ".", "(", ")"}, 0..4),
        p \in {<<>>, <<"a", ",", "a", ".">>, <<"a", ".">>, <<"b", ".">>}, n \in 0..3, c \in BOOLEAN}

Said == <<"a", "b", ".">>
TimedAs(times) == [i \in 1..2 |-> <<<<Said[i]>>, times[i]>>]
Times == {<<<<2, 3>>, <<3, 5>>>>, <<<<2, 4>>, <<3, 5>>>>, <<<<2, 3>>, <<6, 9>>>>}
NativeAnswers == {<<>>} \cup {<<[native |-> n, text |-> <<"a", "b">>, tokens |-> TimedAs(t)]>> : t \in Times, n \in BOOLEAN}
MossRows == {<<>>} \cup {<<[text |-> <<"a", "b">>, span |-> <<2, e>>, fallback |-> f, overlap |-> FALSE, score |-> 80]>> :
                            e \in {4, 7}, f \in BOOLEAN}
AlignerAnswers == {<<>>} \cup {<<[span |-> <<2, 8>>, text |-> Said, tokens |-> TimedAs(t), reliable |-> TRUE,
                                cost |-> c, gap |-> 0]>> : t \in Times, c \in {0, 50}}
AlignInputs == [text : {Said}, span : {<<2, 5>>, <<2, 8>>}, voiced : {{}, {<<2, 4>>}, {<<2, 7>>}},
                issues : {{}, {"repeated_ngram"}}, hypotheses : NativeAnswers, rows : MossRows, aligned : AlignerAnswers]

\* A segment whose tokens are its characters, two samples each, squeezed at the start,
\* or a single token; a user may have typed another text since.
CueTexts == Sequences({"a", "7", "k", "."}, 1..5)
TokenOf(text, span, group) == [text |-> text, span |-> span, group |-> group, divided |-> FALSE]
TokensOf(text, way) ==
    LET n == Len(text)
        at(i) == IF way = "squeezed" THEN i ELSE 2 * i
    IN IF way = "single" THEN <<TokenOf(text, <<0, n + 1>>, "")>>
       ELSE [i \in 1..n |-> TokenOf(<<text[i]>>, <<at(i - 1), at(i)>>, IF way = "grouped" /\ i <= 3 THEN "g" ELSE "")]
CueInputs ==
    {[span |-> <<0, 10>>, faithfulText |-> text, smartText |-> text, typed |-> typed, userText |-> <<"a", "k", ".">>,
      tokens |-> TokensOf(text, way), timed |-> timed] :
        text \in CueTexts, timed \in BOOLEAN, typed \in BOOLEAN, way \in {"even", "squeezed", "grouped", "single"}}

Pieces == [length : 1..2, hard : {FALSE}, pause : BOOLEAN] \cup [length : 1..2, hard : {TRUE}, pause : {FALSE}]
ParagraphInputs == Sequences(Pieces, {6})
ParagraphPolicy == [sentences |-> 5, characters |-> 8, minimum |-> 3]

-----------------------------------------------------------------------------
(* Steps.                                                                   *)

Init ==
    /\ output = <<>> /\ done = FALSE
    /\ \/ stage = "vad" /\ input \in VadInputs
       \/ stage = "route" /\ input \in RouteInputs
       \/ stage = "windows" /\ input \in WindowInputs
       \/ stage = "chunks" /\ input \in ChunkInputs
       \/ stage = "join" /\ input \in JoinInputs
       \/ stage = "structure" /\ input \in StructureInputs
       \/ stage = "stitch" /\ input \in StitchInputs
       \/ stage = "dedup" /\ input \in DedupInputs
       \/ stage = "core" /\ input \in CoreInputs
       \/ stage = "review" /\ input \in ReviewInputs
       \/ stage = "consensus" /\ input \in ConsensusInputs
       \/ stage = "punctuate" /\ input \in PunctuationInputs
       \/ stage = "compare" /\ input \in CompareInputs
       \/ stage = "recover" /\ input \in RecoverInputs
       \/ stage = "terms" /\ input \in TermInputs
       \/ stage = "marks" /\ input \in MarkInputs
       \/ stage = "align" /\ input \in AlignInputs
       \/ stage = "mai" /\ input \in MaiInputs
       \/ stage = "cues" /\ input \in CueInputs
       \/ stage = "sentences" /\ input \in Sequences({"a", ".", ")"}, 0..6)
       \/ stage = "paragraphs" /\ input \in ParagraphInputs

RunStage(s, result) == stage = s /\ ~done /\ done' = TRUE /\ output' = result /\ UNCHANGED <<stage, input>>
Quarter == 2

Vad == RunStage("vad", Audio!SpeechRegions(input.frames, input.policy))
Route == RunStage("route", Audio!LanguageRoute(input.seen, {"zh", "en"}, input.points, 8))
Windows ==
    RunStage("windows", Audio!StructureWindows(input.total, input.window, input.overlap, input.minimum))
Chunks == RunStage("chunks", Audio!TranscriptChunks(input.extent, input.cues, input.policy))
Join == RunStage("join", Audio!Joined(input.left, input.right, input.better, input.tolerance))
Base == Voices!BaseSegments(1, <<0, 3>>, input.moss, input.pyannote, input.speech, Quarter)
Window == RunStage("structure", Voices!WindowSegments(Base, input.pyannote, Quarter))
Stitch == RunStage("stitch", Voices!Stitch({"A", "B"}, Evidence(input), input.heard, 2))
Dedup == RunStage("dedup", Voices!Deduplicated(input))
Core == RunStage("core", [i \in 1..2 |-> Body!CoreEvidence(HeardOf(input.words, ChunkOf[i], input.timed[i]))])
Review == RunStage("review", Body!Report(input.h, input.context))
Report(score) == [score |-> score]
Compare ==
    RunStage("compare", Body!AsksTertiary(Report(input.scores[1]), Report(input.scores[2]), input.left, input.right, Known))
Restart(state) == Body!Recovered(state, input.issuesNow, input.result)
Stored == [segment |-> input.segment, rows |-> input.rows]
Recover == RunStage("recover", <<Restart(Stored), Restart(Restart(Stored))>>)
Answer == RunStage("mai", Online!Segments(input, 8))
Agree == RunStage("consensus", Agreement!Resolve(input.candidates, input.core, input.inputs))
Punctuate == RunStage("punctuate", Agreement!Punctuated(input.text, input.owners, {input.writing}))
Correct == RunStage("terms", Final!Corrected(input.text, input.terms))
Mark == RunStage("marks", Final!Marked(input.language, input.text, input.proposal, input.pause, input.speakerChanged))
Align ==
    RunStage("align",
        Final!Timing(input.text, input.span, input.voiced,
                     Final!NativeTiming(input.hypotheses, input.text, input.span, input.voiced),
                     Final!StructureTiming(input.rows, input.text, input.span),
                     Final!GateOpen(input.text, input.span, input.voiced, input.issues, 30), input.aligned))
Subtitle == RunStage("cues", Export!Cues(input, "user"))
Sentence == RunStage("sentences", Export!Sentences(input))
Paragraph == RunStage("paragraphs", Export!Paragraphs(input, ParagraphPolicy))

Next == Vad \/ Route \/ Windows \/ Chunks \/ Join \/ Window \/ Stitch \/ Dedup
        \/ Core \/ Review \/ Compare \/ Recover \/ Answer \/ Agree \/ Punctuate
        \/ Correct \/ Mark \/ Align \/ Subtitle \/ Sentence \/ Paragraph
Spec == Init /\ [][Next]_vars

After(s) == stage = s /\ done

-----------------------------------------------------------------------------
(* What the audio stages promise.                                           *)

Ordered(spans) == \A i \in 1..(Len(spans) - 1) : End(spans[i]) < Start(spans[i + 1])
UnionOf(spans) == UNION {Samples(spans[i]) : i \in DOMAIN spans}

\* No long stretch of speech is left out, however it is broken by short silences
\* and however the paddings of two regions meet; regions stay apart.
RegionsCover ==
    After("vad") =>
        LET policy == input.policy
            speech == {input.frames[i][1] : i \in {j \in DOMAIN input.frames : input.frames[j][3]}}
            stretch(a, b) == /\ a \in speech /\ b \in speech /\ b + 1 - a >= policy.minSpeech
                             /\ \A s \in a..b : s..(s + policy.minSilence - 1) \cap speech # {}
        IN /\ Ordered(output)
           /\ UnionOf(output) \subseteq 0..(policy.total - 1)
           /\ \A a, b \in 0..(VadTotal - 1) : (a <= b /\ stretch(a, b)) =>
                 (LargerOf(0, a - policy.padding)..SmallerOf(policy.total - 1, b + policy.padding))
                     \subseteq UnionOf(output)

\* The language route covers the recording without gap or overlap, and it never
\* changes the language on the word of a single window.
RouteConfirmed ==
    After("route") =>
        LET seen == input.seen
            hears(i, language) == seen[i][3] /\ seen[i][2] = language
        IN output # <<>> =>
           /\ output[1][1] = 0 /\ Last(output)[2] = 8
           /\ \A i \in 2..Len(output) :
                /\ output[i][1] = output[i - 1][2] /\ output[i][1] < output[i][2]
                /\ output[i][3] # output[i - 1][3]
                /\ \E k \in 2..Len(seen) :
                     /\ hears(k - 1, output[i][3]) /\ hears(k, output[i][3])
                     /\ output[i][1] <= Start(seen[k][1])

\* Structure windows overlap, none is too short, and together they are the recording.
WindowsCover ==
    After("windows") =>
        /\ UnionOf(output) = 0..(input.total - 1)
        /\ \A i \in 2..Len(output) : Start(output[i - 1]) < Start(output[i])
                                     /\ Start(output[i]) < End(output[i - 1])
        /\ \A i \in DOMAIN output : Length(output[i]) <= input.window
                                    /\ Length(output[i]) >= SmallerOf(input.total, input.minimum)

\* The cores are the extent, cut at every change of the speaker and never longer
\* than the recognizer takes; a core is heard with context where a cut splits speech.
ChunksPartition ==
    After("chunks") =>
        LET core(i) == output[i].core
            must == {c[1] : c \in Audio!Mandatory(input.cues)}
        IN /\ Start(core(1)) = Start(input.extent) /\ End(core(Len(output))) = End(input.extent)
           /\ \A i \in 2..Len(output) : Start(core(i)) = End(core(i - 1))
           /\ must \subseteq {Start(core(i)) : i \in DOMAIN output}
           /\ \A i \in DOMAIN output :
                /\ Length(core(i)) \in 1..input.policy.hardMax
                /\ Samples(core(i)) \subseteq Samples(output[i].audio)
                /\ Length(core(i)) < input.policy.minimum =>
                     (must \cup {End(input.extent)}) \cap {Start(core(i)), End(core(i))} # {}
                /\ i > 1 /\ ~(\E c \in input.cues : c[1] = Start(core(i))) =>
                     Start(output[i].audio) < Start(core(i)) /\ End(output[i - 1].audio) > Start(core(i))

\* Joining two sides of an overlap drops a token only for its twin.
JoinKeeps ==
    After("join") =>
        LET texts(s) == {s[i][1] : i \in DOMAIN s} IN
        /\ texts(output) = texts(input.left) \cup texts(input.right)
        /\ Len(output) >= LargerOf(Len(input.left), Len(input.right))

AudioSound == RegionsCover /\ RouteConfirmed /\ WindowsCover /\ ChunksPartition /\ JoinKeeps

-----------------------------------------------------------------------------
(* What the structure stage promises.                                       *)

TextsOf(segments) == [i \in DOMAIN segments |-> segments[i].text]

\* Whichever of the two models fails, the words of the structure model stay, in
\* order and inside the window, and speech that neither model heard is kept.
WindowKept ==
    After("structure") =>
        /\ input.moss.segments # <<>> => TextsOf(output) = TextsOf(input.moss.segments)
        /\ \A i \in 2..Len(output) : Start(output[i - 1].span) <= Start(output[i].span)
        /\ ~input.moss.answered /\ ~input.pyannote.answered =>
              UNION {Samples(s) : s \in input.speech} = UnionOf([i \in DOMAIN output |-> output[i].span])

\* Two voices of the diarizer are never one label of the window.
VoicesApart ==
    After("structure") /\ input.pyannote.answered =>
        LET path == Voices!WindowPath(input.moss, input.pyannote, input.speech)
            labels == Voices!WindowLabels(path, input.pyannote.diar, Base) IN
        \A l, m \in DOMAIN labels : labels[l] = labels[m] => l = m

\* Two labels of a window are never one speaker of the recording, and a label is an
\* earlier speaker only by what was said at the same time, more like what this speaker
\* said than what any other did, or by a voice that singles this speaker out.
SpeakersApart ==
    After("stitch") =>
        LET said(l, g) == Voices!Link(Spoken(1, <<0, 10>>, g, input.before[g]), Spoken(2, <<2, 12>>, l, input.now[l]))
            e == Evidence(input) IN
        /\ output["A"] # output["B"]
        /\ \A l \in DOMAIN output : output[l] <= 2 =>
             LET g == output[l] h == 3 - output[l] IN
             \/ said(l, g) >= 90 /\ said(l, h) <= said(l, g)
             \/ e[l][g].cosine >= 72 /\ input.heard[l] >= 2
                /\ Voices!Composite(e[l][h]) < Voices!Composite(e[l][g])

\* What two windows both heard is removed: a segment goes only for one that stays and
\* beats it, and whose duplicate it is, at least by way of others; so what has no
\* duplicate stays, and so does what one window alone heard.  The words of the one that
\* stays may differ from those of one removed by way of another.
DedupKeeps ==
    After("dedup") =>
        LET kept == ToSet(output)
            near(S) == S \cup {t \in input : \E s \in S : Voices!Duplicates(s, t)}
            linked(s) == near(near({s})) IN
        /\ kept \subseteq input
        /\ \A s \in input : \E t \in kept \cap linked(s) : t = s \/ Voices!Beats(t, s)
        /\ (\A s, t \in input : s.window = t.window) => Len(output) = Cardinality(input)
        /\ Cardinality(input) <= 2 => \A s, t \in kept : Voices!Duplicates(s, t) => s = t

StructureSound == WindowKept /\ VoicesApart /\ SpeakersApart /\ DedupKeeps

-----------------------------------------------------------------------------
(* What recognition and its reviews promise.                                *)

\* A word near a cut is left to one of the two chunks, unless the times of one of
\* them are incomplete: then it may be in both, and is never in neither.
HeardOnce ==
    After("core") =>
        LET in(i) == {k \in 1..2 : i \in ToSet(output[k].words)} IN
        \A i \in 1..3 : /\ in(i) # {}
                        /\ (input.timed[1] /\ input.timed[2]) => Cardinality(in(i)) = 1

\* A hypothesis that no second model hears is accepted, does not loop, is not
\* silent over speech and believes no impossible times; a planned retry is never
\* dropped, and its two halves are all of the segment.
ReviewServed ==
    After("review") =>
        LET h == input.h context == input.context IN
        /\ ~Body!AsksSecondary(output) =>
              /\ output.valid /\ output.retry = <<>> /\ ~Body!EndsInLoop(h.words)
              /\ Covered(context.voiced) >= context.second => h.words # <<>>
              /\ \A i \in 2..Len(h.tokens) : Start(h.tokens[i - 1][2]) <= Start(h.tokens[i][2])
        /\ output.retry # <<>> =>
              /\ Body!AsksSecondary(output)
              /\ Samples(output.retry[1]) \cap Samples(output.retry[2]) = {}
              /\ UnionOf(output.retry) = Samples(context.span)

\* Two hypotheses that differ in a number or a name, or of which one is silent, are
\* heard by a third model whichever of them came first; equal ones that are good are not.
DoubtIsHeard ==
    After("compare") =>
        LET left == input.left right == input.right
            of(words, w) == SelectSeq(words, LAMBDA x : x = w) IN
        /\ of(left, "1") # of(right, "1") \/ ("N" \in ToSet(left)) # ("N" \in ToSet(right)) => output
        /\ (left = <<>>) # (right = <<>>) => output
        /\ left = right /\ input.scores # <<60, 61>> => ~output
        /\ output <=> Body!AsksTertiary(Report(input.scores[2]), Report(input.scores[1]), right, left, Known)

\* What a person wrote or decided survives every restart, a second restart finds nothing
\* more to recover, not even when the new consensus hears nothing again, and a row that
\* the last consensus did not list is no reason to recover.
RecoveredOnce ==
    After("recover") =>
        LET segment == input.segment IN
        /\ segment.typed \/ segment.decided \/ segment.smart = "edited" \/ segment.consensus = "other" =>
              output[1] = Stored
        /\ output[2] = output[1]
        /\ output[1] # Stored => \E r \in input.rows :
              /\ r.words # <<>> /\ input.issuesNow[r.id] # {"too_dense"}
              /\ segment.consensus = "old" => r.id \in segment.candidates

\* The segments of an online answer say its text once and in order; the words of a
\* segment spell it, one after the other inside its span, or there are none.
AnswerKept ==
    After("mai") =>
        LET all(ps) == FlattenSeq([i \in DOMAIN ps |-> ps[i].text]) IN
        /\ all(output) = all(input)
        /\ \A i \in DOMAIN output :
             LET words == output[i].words span == output[i].span IN
             /\ output[i].timed => Start(span) < End(span)
             /\ words # <<>> => output[i].timed /\ Online!TextsOf(words) = output[i].text
             /\ \A j \in DOMAIN words :
                  /\ words[j][2] < words[j][3] /\ Start(span) <= words[j][2] /\ words[j][3] <= End(span)
                  /\ j > 1 => words[j - 1][3] <= words[j][2]

RecognitionSound == HeardOnce /\ ReviewServed /\ DoubtIsHeard /\ RecoveredOnce /\ AnswerKept

-----------------------------------------------------------------------------
(* What the consensus promises.                                             *)

IsSubsequence(s, t) ==
    \E at \in [DOMAIN s -> DOMAIN t] : \A i, j \in DOMAIN s : s[i] = t[at[i]] /\ (i < j => at[i] < at[j])

\* The words are those of accepted hypotheses in their order, of loops only when
\* nothing else was heard and then of one hypothesis; what all say is said; the
\* spans are the columns in order; only silence is inaudible, unless words have
\* no weight (of a foreign script, or of a model that was always wrong).
ConsensusFaithful ==
    After("consensus") =>
        LET usable == {c \in input.candidates : c.valid /\ c.words # <<>>}
            clean == {c \in usable : c.looping = 0}
            tokens == output.tokens
            by(c) == FlattenSeq([i \in DOMAIN tokens |-> IF tokens[i].from = c.id THEN tokens[i].words ELSE <<>>])
            written(c) == [i \in DOMAIN c.words |-> Agreement!Standard(c.words[i], input.inputs)]
            weightless == {c \in clean : input.inputs.reliability[c.model] = 0
                                         \/ ToSet(c.words) \cap input.inputs.illegal # {}}
        IN /\ usable = {} => output.strategy = "inaudible_marker"
           /\ output.strategy = "inaudible_marker" => usable = {} \/ weightless # {}
           /\ output.strategy # "inaudible_marker" => {tokens[i].from : i \in DOMAIN tokens}
                               \subseteq {c.id : c \in IF clean = {} THEN usable ELSE clean}
           /\ clean = {} => Len(tokens) = 1
           /\ \A c \in clean : IsSubsequence(by(c), written(c)) \/ IsSubsequence(by(c), c.words)
           /\ \A c \in clean \ weightless : (\A d \in clean : d.words = c.words) =>
                 Len(FlattenSeq([i \in DOMAIN tokens |-> tokens[i].words])) = Len(c.words)
           /\ \A i \in DOMAIN tokens : Samples(tokens[i].span) \subseteq Samples(input.core)
                                        /\ Length(tokens[i].span) > 0
           /\ \A i \in 2..Len(tokens) : End(tokens[i - 1].span) <= Start(tokens[i].span)

\* A mark stands between the characters it stood between in the hypothesis, and
\* both are of that hypothesis.
MarksKeepNeighbours ==
    After("punctuate") =>
        \A p \in output :
            /\ p \in 1..5 => input.owners[p] = 1
            /\ p + 1 \in 1..5 => input.owners[p + 1] = 1
            /\ \E q \in input.writing.marks :
                  /\ p \in 1..5 => q > 0 /\ input.writing.chars[q] = input.text[p]
                  /\ p + 1 \in 1..5 => q < Len(input.writing.chars)
                                         /\ input.writing.chars[q + 1] = input.text[p + 1]

\* What the docstring of restore_native_punctuation says of ambiguous edits: an anchor
\* that stands at two places of the text gives it no mark.
AmbiguousUnmarked ==
    After("punctuate") =>
        LET chars == input.writing.chars text == input.text
            twice == Len(chars) = 4 /\ Cardinality(Agreement!PlacesIn(text, chars)) > 1
        IN twice => output = {}

ConsensusSound == ConsensusFaithful /\ MarksKeepNeighbours

-----------------------------------------------------------------------------
(* What the last stages and the exports promise.                            *)

Count(text, c) == Cardinality({i \in DOMAIN text : text[i] = c})

\* Every place of an alias of a trusted term is rewritten once, the longer alias
\* before the shorter one inside it; nothing else is touched.
TermsCorrected ==
    After("terms") =>
        LET text == input.text
            trusted == input.terms[1].trusted
            after(i) == i > 1 /\ text[i - 1] = "a" /\ trusted
            alone == {i \in DOMAIN text : text[i] = "b" /\ ~after(i)}
        IN /\ Count(output, "x") = Count(text, "x") /\ Count(output, "b") = 0
           /\ Count(output, "d") = 2 * Cardinality(alone)
           /\ IF trusted THEN Count(output, "a") = 0 /\ Count(output, "c") = Count(text, "a")
              ELSE Count(output, "a") = Count(text, "a") /\ Count(output, "c") = 0

\* Punctuation changes no character, puts no mark beside a mark, keeps the marks of
\* Chinese, and leaves no bracket of Japanese open.
MarksSafe ==
    After("marks") =>
        LET both(t) == \E i \in 1..(Len(t) - 1) : {t[i], t[i + 1]} \subseteq Final!BOUNDARY_MARKS IN
        /\ Final!Invariant(input.text, output)
        /\ both(output) => both(input.text) \/ input.language = "ja"
        /\ input.language = "ja" => Count(output, "(") = Count(output, ")")
        /\ input.language = "zh" => IsSubsequence(input.text, output)

\* The final tokens spell the final text, in order and inside the segment; they are
\* shared out only when no model timed the text well, and else most speech is
\* under a token.
TimesSpell ==
    After("align") =>
        LET offered == {input.hypotheses[i].tokens : i \in DOMAIN input.hypotheses}
            sound(tokens) == Final!Valid(Final!Evidence(input.text, input.span, tokens), input.voiced, 60)
        IN /\ Final!Validated(input.text, input.span, output.tokens)
           /\ Final!Invariant(Final!Spelt(output.tokens), input.text)
           /\ output.coarse => \A i \in DOMAIN input.hypotheses :
                                  ~(input.hypotheses[i].native /\ sound(input.hypotheses[i].tokens))
           /\ ~output.coarse => sound(output.tokens)

FinalSound == TermsCorrected /\ MarksSafe /\ TimesSpell

\* The cues of a timed segment say its text once, in order, one after the other inside
\* the segment, and an untimed one has none; a cue of several units fits its lines.
CuesSay ==
    After("cues") =>
        LET text == Export!TextFor(input, "user")
            said == FlattenSeq([i \in DOMAIN output |-> FlattenSeq(output[i].lines)])
            stale == Export!TextOf(input.tokens) # text
            single == Len(input.tokens) = 1
            lines == FlattenSeq([i \in DOMAIN output |-> output[i].lines])
        IN /\ said = IF input.timed THEN text ELSE <<>>
           /\ Final!InOrder([i \in DOMAIN output |-> <<text, output[i].span>>], input.span)
           /\ \A i \in DOMAIN lines : lines[i] # <<>>
           /\ ~stale /\ ~single => \A i \in DOMAIN output :
                 LET cue == FlattenSeq(output[i].lines) IN
                 Len(cue) > 4 => Len(Final!Lexical(cue)) <= 1 \/ input.tokens[1].group # ""

\* What test_subtitle_has_at_most_two_lines_and_never_splits_protected_number_unit and
\* docs/postprocessing-and-exports.md say: a number and its unit are never parted.
UnitsKept ==
    After("cues") =>
        LET lines == FlattenSeq([i \in DOMAIN output |-> output[i].lines]) IN
        \A i \in 1..(Len(lines) - 1) :
            (Last(lines[i]) = "7" /\ Head(lines[i + 1]) = "k") =>
                Export!TextOf(input.tokens) # Export!TextFor(input, "user") \/ Len(input.tokens) = 1

\* Sentences are the text, and none begins with what closes the one before.
SentencesPart ==
    After("sentences") =>
        /\ FlattenSeq([i \in DOMAIN output |-> SubSeq(input, output[i][1] + 1, output[i][2])]) = input
        /\ \A i \in 2..Len(output) : input[output[i][1] + 1] # ")"

\* Paragraphs are the sentences in order; none crosses a hard boundary or is too large,
\* and a pause alone never ends a short one.
ParagraphsHold ==
    After("paragraphs") =>
        LET size(g) == FoldLeft(LAMBDA n, p : n + p.length, 0, g) IN
        /\ FlattenSeq(output) = input
        /\ \A g \in ToSet(output) :
              /\ Len(g) \in 1..ParagraphPolicy.sentences /\ size(g) <= ParagraphPolicy.characters
              /\ \A i \in 2..Len(g) : ~g[i].hard
        /\ \A k \in 2..Len(output) :
              size(output[k - 1]) < ParagraphPolicy.minimum => output[k][1].hard

ExportsSound == CuesSay /\ SentencesPart /\ ParagraphsHold
=============================================================================
