----------------------------- MODULE Consensus -----------------------------
(***************************************************************************)
(* The text of a segment from its hypotheses: the columns in which their     *)
(* words stand side by side (consensus/alignment.py), the vote in each       *)
(* column and its fallbacks (network.py), the punctuation of the chosen      *)
(* hypotheses (punctuation.py) and the adoption (persistence.py).            *)
(* A candidate is [id, model, words, tokens, core, valid, looping, score,    *)
(* unresolved]; inputs are [reliability, confidence, voiced, glossary,       *)
(* illegal, rules]: percentages by model and (calibrated, of the timed       *)
(* words) by candidate, spans, sets of words, and a function from the        *)
(* aliases to their canonical form.                                          *)
(* Identifiers are numbers, compared as the program compares its strings.    *)
(***************************************************************************)
EXTENDS Words

None == <<>>
Best(S, Better(_, _)) == CHOOSE x \in S : \A y \in S \ {x} : Better(x, y)
Above(x, y) == \E i \in DOMAIN x : x[i] > y[i] /\ \A j \in 1..(i - 1) : x[j] = y[j]
Rank(flag) == IF flag THEN 1 ELSE 0

-----------------------------------------------------------------------------
(* Columns.                                                                 *)

\* _partition, _candidate_tokens: words with native times keep them, the others
\* share the core in equal parts.
Part(span, count, i) == Start(span) + (Length(span) * i) \div count
Partition(span, count) == [i \in 1..count |-> <<Part(span, count, i - 1), Part(span, count, i)>>]
TimedBy(c) == c.tokens # <<>> /\ [i \in DOMAIN c.tokens |-> c.tokens[i][1]] = c.words
PlacesOf(c) ==
    IF TimedBy(c) THEN [i \in DOMAIN c.tokens |-> c.tokens[i][2]] ELSE Partition(c.core, Len(c.words))

AnchorRank(c, inputs) ==
    <<Rank(c.tokens # <<>>), Len(c.words), c.score, inputs.reliability[c.model], c.id>>
Anchor(usable, inputs) ==
    Best(usable, LAMBDA c, d : Above(AnchorRank(c, inputs), AnchorRank(d, inputs)))

\* The votes <<column, candidate, index of its word>>.
Votes(usable, anchor) ==
    UNION {LET keys == Columns(anchor.words, c.words) IN {<<keys[i], c, i>> : i \in DOMAIN keys} :
              c \in usable}
ColumnOrder(votes) ==
    SetToSortSeq({v[1] : v \in votes}, LAMBDA k, l : k[1] < l[1] \/ (k[1] = l[1] /\ k[2] < l[2]))

\* _monotonic_column_spans: the median of the native middles (of all of them where
\* no word is timed), moved so that every column has a sample.
Median(votes) ==
    LET native == {v \in votes : TimedBy(v[2])}
        heard == IF native = {} THEN votes ELSE native
        middle(v) == LET s == PlacesOf(v[2])[v[3]] IN (Start(s) + End(s)) \div 2
        sorted == SetToSortSeq(heard, LAMBDA v, w : middle(v) < middle(w))
    IN middle(sorted[Cardinality(heard) \div 2 + 1])
Centers(order, votes, core) ==
    LET n == Len(order)
        clamped(i) == LargerOf(Start(core) + i - 1,
                               SmallerOf(Median({v \in votes : v[1] = order[i]}), End(core) - (n - i + 1)))
        add(centers, i) == Append(centers, IF i = 1 THEN clamped(i) ELSE LargerOf(clamped(i), Last(centers) + 1))
    IN FoldLeft(add, <<>>, [i \in 1..n |-> i])
ColumnSpans(order, votes, core) ==
    LET n == Len(order)
        centers == Centers(order, votes, core)
        add(bounds, i) ==
            Append(bounds, LargerOf(Last(bounds) + 1,
                       SmallerOf((centers[i] + centers[i + 1]) \div 2, End(core) - (n - i))))
        bounds == Append(FoldLeft(add, <<Start(core)>>, [i \in 1..(n - 1) |-> i]), End(core))
    IN [i \in 1..n |-> <<bounds[i], bounds[i + 1]>>]

-----------------------------------------------------------------------------
(* The vote of a column.                                                    *)

\* _weight: reliability, calibrated confidence, the sound under the word, the
\* glossary, the script.
Weight(c, word, span, confidence, inputs) ==
    LET heard == Cardinality(Samples(span) \cap UNION {Samples(v) : v \in inputs.voiced}) IN
    IF word \in inputs.illegal THEN 0
    ELSE (inputs.reliability[c.model] * confidence * (Length(span) + heard)
            * (IF word \in inputs.glossary THEN 23 ELSE 20)) \div Length(span)
Silence == ""
Said(usable, votes, key, c) ==
    LET v == {w \in votes : w[1] = key /\ w[2] = c} IN
    IF v = {} THEN None ELSE <<c.words[(CHOOSE w \in v : TRUE)[3]],
                               PlacesOf(c)[(CHOOSE w \in v : TRUE)[3]]>>
\* Ballots of a column: [from, word, weight]; who says nothing votes for silence
\* over the whole column.
Ballots(usable, votes, key, span, inputs) ==
    {LET said == Said(usable, votes, key, c) IN
     [from |-> c,
      word |-> IF said = None THEN Silence ELSE said[1],
      weight |-> IF said = None THEN Weight(c, Silence, span, 50, inputs)
                 ELSE Weight(c, said[1], said[2], inputs.confidence[c.id], inputs)] : c \in usable}
WeightOf(ballots) == FoldSet(LAMBDA b, sum : sum + b.weight, 0, ballots)
For(ballots, word) == {b \in ballots : b.word = word}
\* The heaviest word; silence before a word of equal weight.  The order of words of
\* equal weight is that of their spelling, here any.
Winners(ballots) ==
    LET words == {b.word : b \in ballots}
        top == {w \in words : \A u \in words : WeightOf(For(ballots, u)) <= WeightOf(For(ballots, w))} IN
    IF Silence \in top THEN {Silence} ELSE top
Winner(ballots) == CHOOSE w \in Winners(ballots) : TRUE
Elected(ballots) ==
    Best(For(ballots, Winner(ballots)), LAMBDA b, d : Above(<<b.weight, b.from.id>>, <<d.weight, d.from.id>>))
\* _apply_terminology_rule.
Standard(word, inputs) == IF word \in DOMAIN inputs.rules THEN inputs.rules[word] ELSE word
Support(ballots) == (1000 * WeightOf(For(ballots, Winner(ballots)))) \div LargerOf(1, WeightOf(ballots))

-----------------------------------------------------------------------------
(* The result: [strategy, tokens, low]; a token is [words, span, from].       *)

Result(strategy, tokens, low) == [strategy |-> strategy, tokens |-> tokens, low |-> low]
Inaudible(core) == Result("inaudible_marker", <<[words |-> <<>>, span |-> core, from |-> 0]>>, TRUE)

\* Every hypothesis loops: one of them as it stands, never a mixture.
LeastLooping(usable, inputs, core) ==
    LET rank(c) == <<-c.looping, c.score, inputs.reliability[c.model], c.id>>
        trusted == Best(usable, LAMBDA c, d : Above(rank(c), rank(d)))
    IN Result("best_candidate_repetition_review",
              <<[words |-> trusted.words, span |-> core, from |-> trusted.id]>>, TRUE)

\* _best_candidate_fallback.
MostTrusted(usable, inputs, core) ==
    LET rank(c) == <<c.score * inputs.reliability[c.model], c.id>>
        trusted == Best(usable, LAMBDA c, d : Above(rank(c), rank(d)))
        votes == Votes({trusted}, trusted)
        spans == ColumnSpans(ColumnOrder(votes), votes, core)
    IN Result("best_candidate_low_confidence",
              [i \in DOMAIN trusted.words |-> [words |-> <<trusted.words[i]>>, span |-> spans[i], from |-> trusted.id]],
              TRUE)

\* The vote of the columns, and how it is adopted.
Voted(clean, core, inputs, order, spans, ballots) ==
    LET kept == SelectSeq([i \in DOMAIN order |-> i], LAMBDA i : Winner(ballots[i]) # Silence)
        token(i) == LET chosen == Elected(ballots[i]) IN
                    [words |-> <<Standard(chosen.word, inputs)>>, span |-> spans[i], from |-> chosen.from.id]
        overall == (FoldSet(LAMBDA i, sum : sum + Support(ballots[i]), 0, DOMAIN order)
                       * Max({c.score : c \in clean})) \div Len(order)
    IN IF kept = <<>> THEN Inaudible(core)
       ELSE IF overall < 45000 THEN MostTrusted(clean, inputs, core)
       ELSE Result("time_aligned_confusion_network", [k \in DOMAIN kept |-> token(kept[k])],
                   overall < 67000 \/ \E c \in clean : c.unresolved)
Network(clean, core, inputs, votes) ==
    LET order == ColumnOrder(votes)
        spans == ColumnSpans(order, votes, core)
    IN Voted(clean, core, inputs, order, spans,
             [i \in DOMAIN order |-> Ballots(clean, votes, order[i], spans[i], inputs)])

\* ConfusionNetwork.resolve.
Resolve(candidates, core, inputs) ==
    LET usable == {c \in candidates : c.valid /\ c.words # <<>>}
        clean == {c \in usable : c.looping = 0}
    IN IF clean # {} THEN Network(clean, core, inputs, Votes(clean, Anchor(clean, inputs)))
       ELSE IF usable # {} THEN LeastLooping(usable, inputs, core)
       ELSE Inaudible(core)

-----------------------------------------------------------------------------
(* restore_native_punctuation: a text is a sequence of characters, owners      *)
(* the candidates they come from; a writing is [id, chars, marks], marks the   *)
(* positions before which it has a mark.                                     *)

PlacesIn(text, piece) ==
    {i \in 0..(Len(text) - Len(piece)) : SubSeq(text, i + 1, i + Len(piece)) = piece}
\* str.count = 1: the count goes on behind what it found, so places that overlap the
\* first one are not counted; str.find is the first one.
CountedOnce(places, length) == places # {} /\ \A i, j \in places : j < i + length
\* Where a mark of the writing goes in the text: {} when the anchor is not unique.
Projected(text, writing, position) ==
    LET left == SubSeq(writing.chars, LargerOf(1, position - 3), position)
        right == SubSeq(writing.chars, position + 1, SmallerOf(Len(writing.chars), position + 4))
        anchor == Len(left \o right)
        here == PlacesIn(text, left \o right)
        found == CHOOSE i \in here : \A j \in here : i <= j
    IN IF writing.chars = text THEN {position}
       ELSE IF \/ anchor < 4
               \/ ~CountedOnce(PlacesIn(writing.chars, left \o right), anchor) \/ ~CountedOnce(here, anchor)
               \/ position = 0 /\ found # 0
               \/ position = Len(writing.chars) /\ found + anchor # Len(text)
            THEN {} ELSE {found + Len(left)}
\* Mutant: only the character before the mark is looked at.
OwnedBefore(owners, position, id) == owners[LargerOf(1, position)] = id
OwnedAround(owners, position, id) ==
    LET near == LargerOf(1, position)..SmallerOf(Len(owners), position + 1) IN
    near # {} /\ \A i \in near : owners[i] = id
Punctuated(text, owners, writings) ==
    UNION {UNION {{p \in Projected(text, w, position) : OwnedAround(owners, p, w.id)} :
                     position \in w.marks} : w \in writings}

-----------------------------------------------------------------------------
(* adopt_consensus: the final tokens replace the earlier ones and the three     *)
(* automatic layers become the text; a token of a foreign candidate is refused. *)

MayAdopt(segment, core, result, candidates) ==
    /\ segment.span = core
    /\ result.strategy # "inaudible_marker" =>
          \A i \in DOMAIN result.tokens : \E c \in candidates : c.id = result.tokens[i].from
Adopted(segment, result) ==
    LET text == FlattenSeq([i \in DOMAIN result.tokens |-> result.tokens[i].words]) IN
    [segment EXCEPT !.tokens = result.tokens, !.faithful = text, !.smart = text,
                    !.source = result.strategy, !.timing = "aligned",
                    !.status = IF result.low THEN "needs_review" ELSE "auto"]
=============================================================================
