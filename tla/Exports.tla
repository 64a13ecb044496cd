------------------------------ MODULE Exports ------------------------------
(***************************************************************************)
(* Exports (exports/, readability.py): subtitle cues from the final tokens   *)
(* of the segments, and reading paragraphs from their texts.  A character is *)
(* one of Chinese or Japanese; in English it stands for a word.  A token is  *)
(* [text, span, group, divided]; group is "" outside a protected group.      *)
(***************************************************************************)
EXTENDS FinalText

CONSTANTS Maximum,   \* characters of a cue (36, or 16 words)
          LineLimit, \* of a line (18, or 8 words)
          Speed,     \* characters that can still be read in a second (15)
          Second     \* samples of a second

\* text_for: a user's text even when it is empty; an empty smart text is no text.
TextFor(segment, layer) ==
    IF layer = "user" /\ segment.typed THEN segment.userText
    ELSE IF layer # "faithful" /\ segment.smartText # <<>> THEN segment.smartText
    ELSE segment.faithfulText

\* ExportSegment refuses tokens that are out of order or outside the segment.
Loads(segment) == InOrder([i \in DOMAIN segment.tokens |-> <<segment.tokens[i].text, segment.tokens[i].span>>],
                          segment.span)

-----------------------------------------------------------------------------
(* Subtitle cues.                                                           *)

TextOf(tokens) == FlattenSeq([i \in DOMAIN tokens |-> tokens[i].text])

\* _expand_tokens: a long token is shared out when it has samples enough.
Divided(token) ==
    LET n == Len(token.text)
        at(i) == Start(token.span) + (Length(token.span) * i) \div n
    IN IF token.group # "" \/ Len(Lexical(token.text)) <= LineLimit \/ Length(token.span) < n THEN <<token>>
       ELSE [i \in 1..n |-> [token EXCEPT !.text = <<token.text[i]>>, !.span = <<at(i - 1), at(i)>>,
                                          !.divided = TRUE]]
Expanded(tokens) == FlattenSeq([i \in DOMAIN tokens |-> Divided(tokens[i])])

\* _project_surface: the marks of the text go with the word before them; a token of
\* marks alone disappears, unless it stands before the first word.
Surface(tokens, text) ==
    LET places == {i \in DOMAIN text : text[i] \notin MARKS}
        upTo(n) == IF n >= Cardinality(places) THEN Len(text)
                   ELSE (CHOOSE p \in places : Cardinality({q \in places : q < p}) = n) - 1
        step(acc, t) ==
            LET n == acc.n + Len(Lexical(t.text))
                piece == SubSeq(text, acc.at + 1, upTo(n))
            IN [n |-> n, at |-> upTo(n),
                out |-> IF piece = <<>> THEN acc.out ELSE Append(acc.out, [t EXCEPT !.text = piece])]
    IN IF tokens = <<>> \/ ~Invariant(TextOf(tokens), text) THEN tokens
       ELSE FoldLeft(step, [n |-> 0, at |-> 0, out |-> <<>>], tokens).out

\* _protected_units: a protected group, and a number with its unit, are never parted.
NUMBERS == {"7"}
UNITS == {"k"}
Units(tokens) ==
    LET joins(u, t) == \/ u[1].group # "" /\ t.group = u[1].group
                       \/ /\ Len(u) = 1 /\ u[1].group = "" /\ Len(u[1].text) = 1 /\ u[1].text[1] \in NUMBERS
                          /\ Len(t.text) = 1 /\ t.text[1] \in UNITS
        step(units, t) == IF units # <<>> /\ joins(Last(units), t)
                          THEN Append(Front(units), Append(Last(units), t)) ELSE Append(units, <<t>>)
    IN FoldLeft(step, <<>>, tokens)

Measure(units) == Len(TextOf(FlattenSeq(units)))
From(units) == Start(units[1][1].span)
To(units) == End(Last(Last(units)).span)
TooFast(units) == Measure(units) * Second > Speed * (To(units) - From(units))

\* Mutant: units that go beyond the limit are dropped with the cue they would have begun.
ChunkedUnfinished(units) ==
    LET add(acc, u) ==
            LET more == Append(acc.current, u)
            IN IF acc.current # <<>> /\ (Measure(more) > Maximum \/ TooFast(more))
               THEN [done |-> Append(acc.done, acc.current), current |-> <<>>]
               ELSE [acc EXCEPT !.current = more]
        all == FoldLeft(add, [done |-> <<>>, current |-> <<>>], units)
    IN IF all.current = <<>> THEN all.done ELSE Append(all.done, all.current)
\* The units of each cue: as many as fit and can be read, and never past a sentence.
Chunked(units) ==
    LET add(acc, u) ==
            LET more == Append(acc.current, u)
            IN IF acc.current # <<>> /\ (Measure(more) > Maximum \/ TooFast(more))
               THEN [done |-> Append(acc.done, acc.current), current |-> <<u>>]
               ELSE [acc EXCEPT !.current = more]
        close(acc) == IF EndsASentence(TextOf(FlattenSeq(acc.current))) THEN [done |-> Append(acc.done, acc.current), current |-> <<>>] ELSE acc
        all == FoldLeft(LAMBDA acc, u : close(add(acc, u)), [done |-> <<>>, current |-> <<>>], units)
    IN IF all.current = <<>> THEN all.done ELSE Append(all.done, all.current)

\* _wrap_text and _wrap_units: one or two lines, parted where they are most even.
WrappedText(text) ==
    LET middle == LargerOf(1, Len(text) \div 2) IN
    IF Len(text) <= LineLimit THEN <<text>> ELSE <<SubSeq(text, 1, middle), SubSeq(text, middle + 1, Len(text))>>
Wrapped(units) ==
    LET text(us) == TextOf(FlattenSeq(us))
        left(k) == SubSeq(units, 1, k)
        right(k) == SubSeq(units, k + 1, Len(units))
        uneven(k) == Distance(Measure(left(k)), Measure(right(k)))
        best == CHOOSE k \in 1..(Len(units) - 1) :
                    \A j \in 1..(Len(units) - 1) : uneven(k) < uneven(j) \/ (uneven(k) = uneven(j) /\ k <= j)
    IN IF Measure(units) <= LineLimit THEN <<text(units)>>
       ELSE IF Len(units) > 1 THEN <<text(left(best)), text(right(best))>>
       ELSE IF \E i \in DOMAIN units[1] : units[1][i].group # "" THEN <<text(units)>>
       ELSE WrappedText(text(units))

\* build_subtitle_cues for one segment; export_segments gives every layer the same tokens.
\* An untimed segment has no cue, stale tokens (of another text) give one.
Cues(segment, layer) ==
    LET text == TextFor(segment, layer)
        tokens == Surface(Expanded(IF text = <<>> THEN <<>> ELSE segment.tokens), text)
        units == Units(tokens)
        stale == TextOf(tokens) # text
        chunks == IF stale THEN <<units>> ELSE Chunked(units)
        cue(chunk) == [span |-> <<From(chunk), To(chunk)>>,
                       lines |-> IF stale THEN WrappedText(text) ELSE Wrapped(chunk),
                       coarse |-> \E i \in DOMAIN chunk : \E j \in DOMAIN chunk[i] : chunk[i][j].divided]
    IN IF ~segment.timed \/ text = <<>> \/ Length(segment.span) <= 0 THEN <<>>
       ELSE IF tokens = <<>> THEN <<[span |-> segment.span, lines |-> WrappedText(text), coarse |-> TRUE]>>
       ELSE [i \in DOMAIN chunks |-> cue(chunks[i])]

-----------------------------------------------------------------------------
(* Reading paragraphs.  A piece is [source, length, starts, blank]: a        *)
(* sentence of source, whether it is its first, and whether a blank line     *)
(* ends it.                                                                 *)

\* sentence_spans: a sentence takes the marks that close it; the rest is one too.
Sentences(text) ==
    LET stops == {".", "?"}
        closes(i) == \E j \in 1..i : text[j] \in stops /\ \A k \in (j + 1)..i : text[k] \in Closers
        goesOn(i) == i < Len(text) /\ text[i + 1] \in Closers \cup (IF text[i] \in stops THEN stops ELSE {})
        ends == {i \in DOMAIN text : closes(i) /\ ~goesOn(i)}
        cuts == SetToSortSeq(ends \cup {Len(text)}, <)
    IN IF text = <<>> THEN <<<<0, 0>>>>
       ELSE [i \in DOMAIN cuts |-> <<IF i = 1 THEN 0 ELSE cuts[i - 1], cuts[i]>>]

\* _records: what parts two segments whatever their length, and what only may.
Boundary(previous, segment) == segment.speaker # previous.speaker \/ segment.language # previous.language
Pause(segment) == segment.pause >= 1200

\* paragraph_slices, for [length, hard, pause] of each sentence; policy has sentences,
\* characters and minimum (6, 300 and 60).
Paragraphs(pieces, policy) ==
    LET size(group) == FoldLeft(LAMBDA n, p : n + p.length, 0, group)
        step(acc, p) ==
            LET open == acc.current # <<>>
                hard == open /\ (p.hard \/ (p.pause /\ size(acc.current) >= policy.minimum))
                full == open /\ (Len(acc.current) >= policy.sentences
                                 \/ size(acc.current) + p.length > policy.characters)
            IN IF hard \/ full
               THEN [done |-> Append(acc.done, acc.current), current |-> <<p>>,
                     continued |-> IF hard THEN acc.continued ELSE acc.continued \cup {Len(acc.done) + 2}]
               ELSE [acc EXCEPT !.current = Append(@, p)]
        all == FoldLeft(step, [done |-> <<>>, current |-> <<>>, continued |-> {}], pieces)
        groups == IF all.current = <<>> THEN all.done ELSE Append(all.done, all.current)
        \* A short tail takes up to two sentences back, across a split by size only.
        balance(gs, i) ==
            LET fits(n) == size(SubSeq(gs[i - 1], Len(gs[i - 1]) - n + 1, Len(gs[i - 1])) \o gs[i]) <= policy.characters
                counts == {n \in 1..2 : n <= Len(gs[i - 1]) - 3 /\ fits(n)}
            IN IF Len(gs[i]) # 1 \/ Len(gs[i - 1]) < 4 \/ counts = {} THEN gs
               ELSE LET n == Max(counts) k == Len(gs[i - 1]) - n IN
                    [gs EXCEPT ![i - 1] = SubSeq(@, 1, k), ![i] = SubSeq(gs[i - 1], k + 1, k + n) \o @]
    IN FoldLeft(balance, groups, SetToSortSeq(all.continued, <))
=============================================================================
