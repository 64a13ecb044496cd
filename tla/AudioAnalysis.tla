--------------------------- MODULE AudioAnalysis ---------------------------
(***************************************************************************)
(* The arithmetic of the audio stages on the canonical timeline: speech     *)
(* regions (audio/vad.py), language windows and routing (audio/lid.py),      *)
(* structure windows, transcript chunks and the pairing of overlaps          *)
(* (audio/segmentation.py).  A span is <<start, end>>, half open, in samples; *)
(* the durations of the code are arguments, so that small numbers stand for   *)
(* seconds.  Scores are small numbers with the code's order and thresholds.  *)
(***************************************************************************)
EXTENDS Timeline

-----------------------------------------------------------------------------
(* StreamingVADSession: frames <<start, end, speech>>, in order, with gaps.  *)

\* Mutant: regions whose paddings touch are not merged.
FinishActiveApart(vad, policy) ==
    [active |-> NoSample, last |-> NoSample,
     regions |-> IF vad.active = NoSample \/ vad.last - vad.active < policy.minSpeech THEN vad.regions
                 ELSE Append(vad.regions, <<LargerOf(0, vad.active - policy.padding),
                                            SmallerOf(policy.total, vad.last + policy.padding)>>)]
\* _finish_active: short speech is dropped, the rest padded, and merged with the
\* previous region when the paddings touch.
FinishActive(vad, policy) ==
    LET padded == <<LargerOf(0, vad.active - policy.padding),
                    SmallerOf(policy.total, vad.last + policy.padding)>>
        merged == IF vad.regions # <<>> /\ Start(padded) <= End(Last(vad.regions))
                  THEN Append(Front(vad.regions),
                              <<Start(Last(vad.regions)),
                                LargerOf(End(Last(vad.regions)), End(padded))>>)
                  ELSE Append(vad.regions, padded)
    IN [active |-> NoSample, last |-> NoSample,
        regions |-> IF vad.active # NoSample /\ vad.last - vad.active >= policy.minSpeech
                    THEN merged ELSE vad.regions]

SilentUntil(vad, sample, policy) ==
    vad.active # NoSample /\ sample - vad.last >= policy.minSilence

PushFrame(vad, frame, policy) ==
    LET at == IF SilentUntil(vad, frame[1], policy) THEN FinishActive(vad, policy) ELSE vad
    IN  IF frame[3]
        THEN [at EXCEPT !.active = IF @ = NoSample THEN frame[1] ELSE @, !.last = frame[2]]
        ELSE IF SilentUntil(at, frame[2], policy) THEN FinishActive(at, policy) ELSE at

SpeechRegions(frames, policy) ==
    FinishActive(FoldLeft(LAMBDA vad, frame : PushFrame(vad, frame, policy),
                          [active |-> NoSample, last |-> NoSample, regions |-> <<>>], frames),
                 policy).regions

\* The midpoints of the gaps between regions.
SilencePoints(regions) ==
    {End(regions[i]) + (Start(regions[i + 1]) - End(regions[i])) \div 2 :
        i \in {j \in 1..(Len(regions) - 1) : Start(regions[j + 1]) > End(regions[j])}}

-----------------------------------------------------------------------------
(* LanguageRouter: observations <<span, language, reliable>>.                *)

LidWindows(total, window, step) ==
    LET regular == [i \in 1..((total - window) \div step + 1) |->
                       <<(i - 1) * step, (i - 1) * step + window>>]
    IN  IF total = 0 THEN <<>>
        ELSE IF total <= window THEN << <<0, total>> >>
        ELSE IF End(Last(regular)) < total
             THEN Append(regular, <<total - window, total>>) ELSE regular

\* The first two windows in a row that agree, else the language most of the
\* reliable windows hear; "none" when there is no evidence at all.
StableAt(seen) ==
    {i \in 2..Len(seen) : seen[i][3] /\ seen[i - 1][3] /\ seen[i][2] = seen[i - 1][2]}
Votes(seen, language) == Cardinality({i \in DOMAIN seen : seen[i][3] /\ seen[i][2] = language})
InitialLanguage(seen, languages) ==
    IF StableAt(seen) # {} THEN seen[Min(StableAt(seen))][2]
    ELSE IF \A l \in languages : Votes(seen, l) = 0 THEN "none"
    ELSE CHOOSE l \in languages : \A m \in languages : Votes(seen, m) <= Votes(seen, l)

\* The silence point before the window that confirmed the switch, else the first
\* window that heard the new language.
SwitchPoint(points, after, before, fallback) ==
    LET eligible == {p \in points : after < p /\ p <= before}
    IN IF eligible # {} THEN Max(eligible) ELSE fallback

\* Two windows in a row must hear the same other language.
HearWindow(route, window, points) ==
    LET again == window[2] = route.pending
        from == IF again THEN route.from ELSE Start(window[1])
        boundary == SwitchPoint(points, route.start, Start(window[1]), from)
        quiet == [route EXCEPT !.pending = "none"]
    IN  IF window[2] = route.current \/ ~window[3] THEN quiet
        ELSE IF ~again THEN [route EXCEPT !.pending = window[2], !.from = from]
        ELSE IF boundary <= route.start THEN quiet
        ELSE [quiet EXCEPT !.current = window[2], !.start = boundary,
                           !.cuts = Append(@, <<boundary, window[2]>>)]

LanguageRoute(seen, languages, points, total) ==
    LET initial == InitialLanguage(seen, languages)
        stable == IF StableAt(seen) # {} THEN Min(StableAt(seen)) ELSE Len(seen)
        heard == FoldLeft(LAMBDA route, window : HearWindow(route, window, points),
                          [current |-> initial, pending |-> "none", from |-> 0, start |-> 0,
                           cuts |-> << <<0, initial>> >>],
                          SubSeq(seen, stable + 1, Len(seen))).cuts
    IN  IF initial = "none" THEN <<>>
        ELSE [i \in DOMAIN heard |->
                <<heard[i][1], IF i < Len(heard) THEN heard[i + 1][1] ELSE total, heard[i][2]>>]

-----------------------------------------------------------------------------
(* make_structure_windows and make_transcript_chunks.                       *)

\* Overlapping windows; a short last one starts earlier, behind the last start.
StructureWindows(total, window, overlap, minimum) ==
    LET count == IF total <= window THEN 1
                 ELSE (total - window + window - overlap - 1) \div (window - overlap) + 1
        start(i) == (i - 1) * (window - overlap)
        short == total - start(count) < minimum /\ count > 1
    IN  IF total = 0 THEN <<>>
        ELSE [i \in 1..count |->
                IF i = count
                THEN <<IF short THEN LargerOf(start(i - 1) + 1, total - minimum) ELSE start(i), total>>
                ELSE <<start(i), start(i) + window>>]

Priority(kind) == CASE kind = "speaker" -> 0 [] kind = "pause" -> 1
                    [] kind = "sentence" -> 2 [] kind = "language" -> 3
Mandatory(cues) == {c \in cues : c[2] \in {"speaker", "language"}}

Preferred(c, d, ideal) ==
    \/ Priority(c[2]) < Priority(d[2])
    \/ Priority(c[2]) = Priority(d[2]) /\ Distance(c[1], ideal) <= Distance(d[1], ideal)

\* Where the chunk that starts at start ends, and whether the cut is a hard one.
NextCut(start, end, cues, policy) ==
    LET forced == {c[1] : c \in {d \in Mandatory(cues) : start < d[1] /\ d[1] <= start + policy.hardMax}}
        natural == {c \in cues : start + policy.minimum <= c[1] /\ c[1] <= start + policy.hardMax}
        best == CHOOSE c \in natural : \A d \in natural : Preferred(c, d, start + policy.target)
    IN  IF forced # {} THEN <<Min(forced), FALSE>>
        ELSE IF end - start <= policy.hardMax THEN <<end, FALSE>>
        ELSE IF natural # {} THEN <<best[1], FALSE>>
        ELSE <<SmallerOf(start + policy.hardMax, end), TRUE>>

\* The cores <<start, end, hard>> of a speech extent.
Cores(extent, cues, policy) ==
    LET inside == {c \in cues : Start(extent) < c[1] /\ c[1] < End(extent)}
        extend(cores) ==
            LET start == IF cores = <<>> THEN Start(extent) ELSE Last(cores)[2]
                cut == NextCut(start, End(extent), inside, policy)
            IN IF start >= End(extent) THEN cores ELSE Append(cores, <<start, cut[1], cut[2]>>)
        cores == FoldLeft(LAMBDA built, step : extend(built), <<>>, [i \in 1..Length(extent) |-> i])
        tail == Last(cores)
        before == cores[Len(cores) - 1]
    IN  IF /\ Len(cores) > 1
           /\ tail[2] - tail[1] < policy.minimum /\ tail[2] - before[1] <= policy.hardMax
           /\ \A c \in Mandatory(inside) : c[1] # before[2]
        THEN Append(SubSeq(cores, 1, Len(cores) - 2), <<before[1], tail[2], FALSE>>)
        ELSE cores

\* A chunk hears context beyond its core at hard cuts only.
TranscriptChunks(extent, cues, policy) ==
    LET cores == Cores(extent, cues, policy)
        hard == {cores[i][2] : i \in {j \in DOMAIN cores : cores[j][3]}}
        margin(sample) == IF sample \in hard THEN policy.context ELSE 0
    IN [i \in DOMAIN cores |->
          [core |-> <<cores[i][1], cores[i][2]>>,
           audio |-> <<LargerOf(Start(extent), cores[i][1] - margin(cores[i][1])),
                       SmallerOf(End(extent), cores[i][2] + margin(cores[i][2]))>>]]

-----------------------------------------------------------------------------
(* Pairing the two sides of an overlap.                                     *)

\* plan_boundary_dedup: the longest suffix of the left tokens <<text, span>> that is
\* a prefix of the right ones in text and, within the tolerance, in time.
SameToken(a, b, tolerance) ==
    a[1] = b[1] /\ (Overlap(a[2], b[2]) \/ Distance(Start(a[2]), Start(b[2])) <= tolerance)
MatchedTokens(left, right, tolerance) ==
    Max({0} \cup {n \in 1..SmallerOf(Len(left), Len(right)) :
            \A i \in 1..n : SameToken(left[Len(left) - n + i], right[i], tolerance)})
Joined(left, right, leftIsBetter, tolerance) ==
    LET n == MatchedTokens(left, right, tolerance)
    IN IF leftIsBetter THEN left \o SubSeq(right, n + 1, Len(right))
       ELSE SubSeq(left, 1, Len(left) - n) \o right

\* match_speaker_embeddings: greedy, the most similar pair first.
MatchedSpeakers(previous, following, similarity, threshold) ==
    LET pairs == {p \in previous \X following : similarity[p] >= threshold}
        better(p, q) == similarity[p] > similarity[q]
        order == SetToSortSeq(pairs, better)
        free(p, used) == \A u \in used : u[1] # p[1] /\ u[2] # p[2]
    IN FoldLeft(LAMBDA used, p : IF free(p, used) THEN used \cup {p} ELSE used, {}, order)
=============================================================================
