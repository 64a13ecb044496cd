----------------------------- MODULE Structure -----------------------------
(***************************************************************************)
(* The structure stage: the health of MOSS's answer (structure/anomaly.py),  *)
(* the path of a window (pipeline.py), the diarizer's tracks                 *)
(* (diarization.py, persistence.py), the identity of the speakers across     *)
(* windows and the removal of what two windows both heard (stitching.py).    *)
(* A segment is [window, span, speaker, text, overlap, score]; a diarization *)
(* is [regular, exclusive, voices], two sets of <<span, label>> and the      *)
(* labels with an embedding; a label is a sequence, <<>> for nobody.  Texts    *)
(* are the members of a small set, of which Similarity is the ratio of        *)
(* _text_similarity and Size the length; scores are percentages.              *)
(***************************************************************************)
EXTENDS Timeline

CONSTANTS Similarity(_, _), Size(_)

Nobody == <<>>
NoText == ""

Texts(segments) == {i \in DOMAIN segments : segments[i].text # NoText}
Spans(segments) == {segments[i].span : i \in DOMAIN segments}
Labels(track) == {turn[2] : turn \in track}

-----------------------------------------------------------------------------
(* inspect_structure_result: policy is [few, many, speakers, overlaps], the   *)
(* two and the five seconds, max_speakers and allow_overlap.                 *)

SpeechIn(window, speech) ==
    {<<LargerOf(Start(s), Start(window)), SmallerOf(End(s), End(window))>> :
        s \in {r \in speech : Overlap(r, window)}}
CoveredSpeech(window, speech, segments) ==
    Cardinality(UNION {Samples(s) : s \in SpeechIn(window, speech)}
                \cap UNION {Samples(s) : s \in Spans(segments)})
\* Segments that a later one of the window repeats at the same time.
Repeated(segments) ==
    {i \in Texts(segments) : \E j \in DOMAIN segments :
        j > i /\ segments[j].text = segments[i].text /\ Overlap(segments[i].span, segments[j].span)}
NeedsFallback(window, segments, speech, policy) ==
    LET heard == Covered(SpeechIn(window, speech)) IN
    \/ heard >= policy.few /\ segments = <<>>
    \/ heard >= policy.many /\ 100 * CoveredSpeech(window, speech, segments) < 35 * heard
    \/ Cardinality({segments[i].speaker : i \in DOMAIN segments} \ {Nobody}) > policy.speakers
    \/ 4 * Cardinality(Repeated(segments)) > Len(segments)
    \/ segments # <<>> /\ 10 * (Len(segments) - Cardinality(Texts(segments))) >= 8 * Len(segments)
    \/ ~policy.overlaps /\ \E i \in DOMAIN segments : segments[i].overlap

-----------------------------------------------------------------------------
(* The diarizer's tracks, sample by sample.                                 *)

Speaking(track, t) == {turn[2] : turn \in {u \in track : t \in Samples(u[1])}}
\* _find_true_overlaps: runs <<span, speakers>> where the regular track has two
\* speakers or more.
TrueOverlaps(diar) ==
    UNION {Runs({t \in UNION {Samples(u[1]) : u \in diar.regular} : Speaking(diar.regular, t) = who})
               \X {who} : who \in {w \in SUBSET Labels(diar.regular) : Cardinality(w) >= 2}}
OverlapSamples(diar) == UNION {Samples(run[1]) : run \in TrueOverlaps(diar)}

\* persistent_speaker_spans: the exclusive track without the overlaps, and in an
\* overlap everyone who speaks.
PersistentTrack(diar) ==
    UNION {Runs(Samples(u[1]) \ OverlapSamples(diar)) \X {{u[2]}} : u \in diar.exclusive}
    \cup TrueOverlaps(diar)

\* A segment is a true overlap when one run of it is long: a quarter of a second,
\* or as long as the segment.
OverlapSpeakers(diar, span, quarter) ==
    UNION {run[2] : run \in {r \in TrueOverlaps(diar) :
               Shared(r[1], span) >= SmallerOf(Length(span), quarter)}}
\* The label with most of the exclusive track, the greatest of equals.
Spoken(track, label, span) ==
    Cardinality({t \in Samples(span) : label \in Speaking(track, t)})
DominantSpeaker(diar, span) ==
    LET heard == {l \in Labels(diar.exclusive) : Spoken(diar.exclusive, l, span) > 0} IN
    IF heard = {} THEN Nobody
    ELSE CHOOSE l \in heard : \A m \in heard :
            Spoken(diar.exclusive, m, span) <= Spoken(diar.exclusive, l, span)

\* _mark_true_overlaps: no unique speaker where several speak.
MarkOverlap(segment, diar, quarter) ==
    LET overlapped == OverlapSpeakers(diar, segment.span, quarter) # {} IN
    [segment EXCEPT !.overlap = overlapped, !.speaker = IF overlapped THEN Nobody ELSE @]

\* apply_pyannote_fallback: the coarse text stays, its speaker is the diarizer's;
\* without coarse text the persistent track becomes the segments.
Fallback(segments, diar, window, quarter) ==
    LET turn(u) == [window |-> window, span |-> u[1], text |-> NoText,
                    overlap |-> Cardinality(u[2]) > 1, score |-> IF Cardinality(u[2]) > 1 THEN 35 ELSE 40,
                    speaker |-> IF Cardinality(u[2]) > 1 THEN Nobody ELSE CHOOSE l \in u[2] : TRUE] IN
    IF segments # <<>>
    THEN [i \in DOMAIN segments |->
            MarkOverlap([segments[i] EXCEPT !.speaker = DominantSpeaker(diar, segments[i].span),
                                            !.score = SmallerOf(@, 50)], diar, quarter)]
    ELSE SetToSortSeq({turn(u) : u \in PersistentTrack(diar)},
                      LAMBDA a, b : Start(a.span) < Start(b.span))

\* _align_diarization_to_structure: the longest common turns first, one to one; a
\* label without a partner keeps a name of its own.
AlignedLabels(diar, segments) ==
    LET pairs == {p \in diar.exclusive \X {segments[i] : i \in DOMAIN segments} :
                     p[2].speaker # Nobody /\ Shared(p[1][1], p[2].span) > 0}
        order == SetToSortSeq(pairs, LAMBDA p, q : Shared(p[1][1], p[2].span) > Shared(q[1][1], q[2].span))
        add(map, p) == IF p[1][2] \in Labels(map) \/ p[2].speaker \in {m[1] : m \in map} THEN map
                       ELSE map \cup {<<p[2].speaker, p[1][2]>>}
        map == FoldLeft(add, {}, order)
    IN [l \in Labels(diar.regular) \cup Labels(diar.exclusive) \cup diar.voices |->
          IF l \in Labels(map) THEN (CHOOSE m \in map : m[2] = l)[1] ELSE <<"PYANNOTE", l>>]

\* In the fallback the labels of the diarizer are those of the segments.
WindowLabels(path, diar, segments) ==
    IF path = "fallback"
    THEN [l \in Labels(diar.regular) \cup Labels(diar.exclusive) |-> l]
    ELSE AlignedLabels(diar, segments)

-----------------------------------------------------------------------------
(* What becomes of one window.                                              *)

\* moss: [answered, healthy, segments]; pyannote: [answered, diar].
WindowPath(moss, pyannote, speech) ==
    IF moss.answered /\ moss.healthy /\ moss.segments # <<>> THEN "moss"
    ELSE IF pyannote.answered THEN "fallback"
    ELSE IF moss.answered /\ moss.segments # <<>> THEN "moss_coarse"
    ELSE IF speech # {} THEN "coarse_vad" ELSE "silence"

CoarseVad(window, span, speech) ==
    SetToSortSeq({[window |-> window, span |-> s, speaker |-> <<"UNCERTAIN", s>>, text |-> NoText,
                   overlap |-> FALSE, score |-> 20] : s \in SpeechIn(span, speech)},
                 LAMBDA a, b : Start(a.span) < Start(b.span))

BaseSegments(window, span, moss, pyannote, speech, quarter) ==
    LET path == WindowPath(moss, pyannote, speech) IN
    CASE path \in {"moss", "moss_coarse"} -> moss.segments
      [] path = "fallback" ->
            Fallback(IF moss.answered THEN moss.segments ELSE <<>>, pyannote.diar, window, quarter)
      [] path = "coarse_vad" -> CoarseVad(window, span, speech)
      [] path = "silence" -> <<>>
\* What the diarizer knows of overlaps is marked on every path.
WindowSegments(base, pyannote, quarter) ==
    IF ~pyannote.answered THEN base
    ELSE [i \in DOMAIN base |-> MarkOverlap(base[i], pyannote.diar, quarter)]

-----------------------------------------------------------------------------
(* GlobalSpeakerTracker: evidence[label][global] is                          *)
(* [cosine, adjacency, constraint]; heard[label] counts the embeddings.      *)

Composite(e) ==
    LargerOf(82 * LargerOf(0, e.cosine) + 10 * e.adjacency + 8 * e.constraint, 100 * e.constraint)
Margin(evidence, g) ==
    LET others == {Composite(evidence[h]) : h \in DOMAIN evidence \ {g}} IN
    IF others = {} THEN 200 * 100 ELSE Composite(evidence[g]) - Max(others)
IsReliable(evidence, heard, g) ==
    \/ evidence[g].constraint >= 90
    \/ heard >= 2 /\ evidence[g].cosine >= 72 /\ Margin(evidence, g) >= 500

\* stitch_window: the labels with the best scores choose first among the speakers
\* that nobody of the window has; who finds none is a new speaker.
BestScore(evidence) == Max({-1} \cup {Composite(evidence[g]) : g \in DOMAIN evidence})
Stitch(labels, evidence, heard, known) ==
    LET before(a, b) == \/ BestScore(evidence[a]) > BestScore(evidence[b])
                        \/ BestScore(evidence[a]) = BestScore(evidence[b]) /\ heard[a] >= heard[b]
        choose(map, l) ==
            LET free == {g \in 1..known : IsReliable(evidence[l], heard[l], g)
                                          /\ \A m \in DOMAIN map : map[m] # g}
                best == CHOOSE g \in free :
                            \A h \in free : Composite(evidence[l][h]) <= Composite(evidence[l][g])
                new == Max({known} \cup {map[m] : m \in DOMAIN map}) + 1
            IN map @@ (l :> IF free # {} THEN best ELSE new)
    IN FoldLeft(choose, <<>>, SetToSortSeq(labels, before))

\* infer_overlap_constraints, _strongest_constraints: almost the same words at the
\* same time in the window before; the strongest of them speaks for a label.
Temporal(a, b) == (100 * Shared(a.span, b.span)) \div SmallerOf(Length(a.span), Length(b.span))
Link(a, b) ==
    IF Similarity(a.text, b.text) < 82 \/ Temporal(a, b) < 15 THEN 0
    ELSE (75 * Similarity(a.text, b.text) + 25 * Temporal(a, b)) \div 100
Constraint(previous, current, label, global) ==
    LET links == {l \in previous \X current : l[2].speaker = label /\ Link(l[1], l[2]) > 0}
        strongest == CHOOSE l \in links : \A k \in links : Link(k[1], k[2]) <= Link(l[1], l[2])
    IN IF links # {} /\ strongest[1].speaker = global THEN Link(strongest[1], strongest[2]) ELSE 0

-----------------------------------------------------------------------------
(* deduplicate_structure_segments.                                          *)

Duplicates(a, b) ==
    /\ a.window # b.window /\ Overlap(a.span, b.span)
    /\ \/ Similarity(a.text, b.text) >= 88 /\ Temporal(a, b) >= 15
       \/ Similarity(a.text, b.text) = 100
Key(s) == <<s.score, Size(s.text), -s.window>>
Beats(a, b) ==
    \E i \in 1..3 : Key(a)[i] > Key(b)[i] /\ \A j \in 1..(i - 1) : Key(a)[j] = Key(b)[j]
Deduplicated(segments) ==
    LET add(kept, s) ==
            LET twins == {i \in DOMAIN kept : Duplicates(kept[i], s)} IN
            IF twins = {} THEN Append(kept, s)
            ELSE IF Beats(s, kept[Min(twins)]) THEN [kept EXCEPT ![Min(twins)] = s] ELSE kept
        inOrder(a, b) == \/ Start(a.span) < Start(b.span)
                         \/ Start(a.span) = Start(b.span) /\ End(a.span) < End(b.span)
                         \/ a.span = b.span /\ a.window < b.window
    IN SortSeq(FoldLeft(add, <<>>, SetToSortSeq(segments, inOrder)), inOrder)

-----------------------------------------------------------------------------
(* The cues of the body chunks (Cores of AudioAnalysis): silences of 300 ms,   *)
(* changes of the speaker, ends of sentences.  policy is [pause, ended].      *)

ChunkCues(speech, segments, policy) ==
    {<<End(speech[i]) + (Start(speech[i + 1]) - End(speech[i])) \div 2, "pause">> :
        i \in {j \in 1..(Len(speech) - 1) : Start(speech[j + 1]) - End(speech[j]) >= policy.pause}}
    \cup {<<Start(segments[i + 1].span), "speaker">> :
        i \in {j \in 1..(Len(segments) - 1) : segments[j].speaker # segments[j + 1].speaker}}
    \cup {<<End(segments[i].span), "sentence">> :
        i \in {j \in DOMAIN segments : segments[j].text \in policy.ended}}
=============================================================================
