----------------------------- MODULE MaiAnswer -----------------------------
(***************************************************************************)
(* What the job makes of the answer of the online service                    *)
(* (classroom/mai.py, store_mai_segments): phrases with the times of their   *)
(* words are read, words the service left at the wrong phrase go back to     *)
(* theirs, short phrases take the language of their neighbours, and a phrase *)
(* is split into sentences where its words say when each was spoken.         *)
(* A text is a sequence of characters: letters, and the marks "." (ends a    *)
(* sentence) and ",".  A word is <<text, start, end>>; spaces are left out.  *)
(***************************************************************************)
EXTENDS Timeline

LOCAL Reading == INSTANCE Exports WITH Maximum <- 0, LineLimit <- 0, Speed <- 0, Second <- 0

Marks == {".", ","}
NoSpan == <<0, 0>>

\* lexical_positions: where the letters of a text are, and which they are.
Letter(c) == c \notin Marks
LexicalPositions(text) == SetToSortSeq({i \in DOMAIN text : Letter(text[i])}, <)
Content(text) == SelectSeq(text, Letter)
TextsOf(words) == FlattenSeq([i \in DOMAIN words |-> words[i][1]])
JoinedWords(words) == Content(TextsOf(words))

-----------------------------------------------------------------------------
(* Times of words.                                                          *)

Clamp(t, span) == SmallerOf(LargerOf(t, Start(span)), End(span))

\* share_collapsed_times: words without duration share the span of the word before
\* them, or after them at the start of the phrase.
ShareCollapsed(words) ==
    LET timed(ws, i) == ws[i][2] < ws[i][3]
        share(acc, i) ==
            IF i < acc.next \/ timed(acc.words, i) THEN acc
            ELSE LET ws == acc.words
                     stop == Min({j \in i..(Len(ws) + 1) : j > Len(ws) \/ timed(ws, j)})
                     first == IF i > 1 THEN i - 1 ELSE i
                     last == IF i > 1 THEN stop - 1 ELSE stop
                     n == last - first + 1
                     part(k) == ws[first][2] + ((ws[last][3] - ws[first][2]) * k) \div n
                 IN IF last > Len(ws) THEN [acc EXCEPT !.next = Len(ws) + 1]
                    ELSE [next |-> stop,
                          words |-> [j \in DOMAIN ws |->
                              IF j \in first..last THEN <<ws[j][1], part(j - first), part(j - first + 1)>>
                              ELSE ws[j]]]
    IN FoldLeftDomain(share, [words |-> words, next |-> 1], words).words

\* repair_word_times: times never run backwards; a word that starts inside the word
\* before it ends that word, and one that starts earlier collapses onto its end.
RepairWords(phrase) ==
    LET put(done, word) ==
            LET in(t) == IF phrase.timed THEN Clamp(t, phrase.span) ELSE t
                s == in(word[2]) e == in(word[3])
                after(t) == <<word[1], t, LargerOf(t, e)>>
            IN IF done = <<>> \/ s >= Last(done)[3] THEN Append(done, after(s))
               ELSE IF s > Last(done)[2]
                    THEN Append([done EXCEPT ![Len(done)] = <<@[1], @[2], s>>], after(s))
               ELSE Append(done, after(Last(done)[3]))
    IN ShareCollapsed(FoldLeft(put, <<>>, phrase.words))

-----------------------------------------------------------------------------
(* Words at the wrong phrase.                                               *)

Resync == 8

\* The words of a phrase up to and beyond the text of the phrase: a word that straddles
\* its end is cut there.
CutAt(text, kept, beyond) ==
    LET missing == Len(text) - Len(JoinedWords(kept))
        word == beyond[1]
        places == LexicalPositions(word[1])
        half(from, to) == <<SubSeq(word[1], from, to), word[2], word[3]>>
        at(cut) == <<Append(kept, half(1, cut)), <<half(cut + 1, Len(word[1]))>> \o Tail(beyond)>>
    IN IF beyond # <<>> /\ 0 < missing /\ missing < Len(places) THEN at(places[missing + 1] - 1)
       ELSE <<kept, beyond>>

\* The words beyond the text of a phrase are moved when they are how the text of the
\* next one starts and its words go on after them.
Resumes(moved, following) ==
    LET resumed == JoinedWords(following.words) IN
    IsPrefix(JoinedWords(moved) \o SubSeq(resumed, 1, SmallerOf(Resync, Len(resumed))), Content(following.text))
MovedTo(sides, current, following) ==
    IF sides[2] # <<>> /\ JoinedWords(sides[1]) = Content(current.text) /\ Resumes(sides[2], following)
    THEN <<sides[1], sides[2] \o following.words>>
    ELSE <<current.words, following.words>>

\* One boundary of reassign_boundary_words.
WordsMoved(current, following) ==
    LET text == Content(current.text)
        words == current.words
        k == Max({j \in 0..Len(words) : Len(JoinedWords(SubSeq(words, 1, j))) <= Len(text)})
        sidesAt(n) == CutAt(text, SubSeq(words, 1, n), SubSeq(words, n + 1, Len(words)))
    IN MovedTo(sidesAt(k), current, following)

ReassignWords(phrases) ==
    LET boundary(ps, i) ==
            IF i = Len(phrases) THEN ps
            ELSE LET w == WordsMoved(ps[i], ps[i + 1]) IN
                 [ps EXCEPT ![i].words = w[1], ![i + 1].words = w[2]]
    IN FoldLeftDomain(boundary, phrases, phrases)

-----------------------------------------------------------------------------
(* smooth_locales.                                                          *)

Short == 12
SmoothLocales(phrases) ==
    LET cjk == {"zh", "ja"}
        kana(i) == phrases[i].language \in cjk /\ phrases[i].kana
        heard(i) == IF kana(i) THEN "ja" ELSE phrases[i].language
        around(i) == {heard(j) : j \in {i - 1, i + 1} \cap DOMAIN phrases}
        guessed(i) == heard(i) \in cjk /\ ~kana(i) /\ Len(Content(phrases[i].text)) <= Short
    IN [i \in DOMAIN phrases |->
           [phrases[i] EXCEPT !.language =
               IF guessed(i) /\ \E l \in cjk : around(i) = {l} THEN CHOOSE l \in cjk : around(i) = {l}
               ELSE heard(i)]]

-----------------------------------------------------------------------------
(* split_timed_phrase.                                                      *)

\* Where a mark that has a time of its own is, in from..to of a text; 0 if nowhere.
Found(text, mark, from, to) ==
    LET at == {i \in from..(to - Len(mark) + 1) : SubSeq(text, i, i + Len(mark) - 1) = mark} IN
    IF at = {} THEN 0 ELSE Min(at)

\* The words beside the text: aligned has <<first, last, start, end>> of each, cursor
\* counts the letters that have a word; a word that is not there makes it not ok.
Align(phrase, words) ==
    LET text == phrase.text
        places == LexicalPositions(text)
        content == Content(text)
        put(acc, w) ==
            LET letters == Content(w[1])
                to == acc.cursor + Len(letters)
                gap == IF acc.cursor < Len(places) THEN places[acc.cursor + 1] - 1 ELSE Len(text)
                mark == Found(text, w[1], acc.raw + 1, gap)
                with(first, last) ==
                    [acc EXCEPT !.aligned = Append(@, <<first, last, w[2], w[3]>>), !.raw = last,
                                !.cursor = to, !.end = w[3]]
            IN IF \/ ~acc.ok \/ w[1] = <<>> \/ w[2] < acc.end \/ w[2] >= w[3]
                  \/ phrase.timed /\ (w[2] < Start(phrase.span) \/ w[3] > End(phrase.span))
               THEN [acc EXCEPT !.ok = FALSE]
               ELSE IF letters = <<>>
               THEN IF mark = 0 THEN [acc EXCEPT !.end = w[3]] ELSE with(mark, mark + Len(w[1]) - 1)
               ELSE IF ~IsPrefix(letters, SubSeq(content, acc.cursor + 1, Len(content))) THEN [acc EXCEPT !.ok = FALSE]
               ELSE with(places[acc.cursor + 1], places[to])
        all == FoldLeft(put, [ok |-> TRUE, cursor |-> 0, raw |-> 0, end |-> -1, aligned |-> <<>>], words)
    IN [all EXCEPT !.ok = @ /\ all.cursor = Len(places) /\ all.aligned # <<>>]

Whole(phrase) == <<[phrase EXCEPT !.words = <<>>]>>

\* A word of a sentence reaches to the next one, the last word to the end of the sentence.
WordEnd(aligned, j, last, end) == IF j < last THEN aligned[j + 1][1] - 1 ELSE end

\* A sentence ends at the last end between a word and the next; its first word takes
\* the marks before it, its last word those after it.
Groups(phrase, aligned, sentences) ==
    LET text == phrase.text
        next(i) == IF i < Len(aligned) THEN aligned[i + 1][1] - 1 ELSE Len(text)
        ends(i) == {End(sentences[s]) : s \in {j \in DOMAIN sentences :
                        aligned[i][2] <= End(sentences[j]) /\ End(sentences[j]) <= next(i)}}
        cut(acc, i) ==
            IF ends(i) = {} THEN acc
            ELSE LET end == Max(ends(i))
                     first(j) == IF j = acc.word THEN acc.text + 1 ELSE aligned[j][1]
                 IN [text |-> end, word |-> i + 1,
                     groups |-> Append(acc.groups,
                        [phrase EXCEPT !.text = SubSeq(text, acc.text + 1, end), !.timed = TRUE,
                           !.span = <<aligned[acc.word][3], aligned[i][4]>>,
                           !.words = [n \in 1..(i - acc.word + 1) |->
                               LET j == acc.word + n - 1 IN
                               <<SubSeq(text, first(j), WordEnd(aligned, j, i, end)), aligned[j][3], aligned[j][4]>>]])]
    IN FoldLeftDomain(cut, [text |-> 0, word |-> 1, groups |-> <<>>], aligned)

SplitTimed(phrase) ==
    LET split(all) == IF all.text = Len(phrase.text) THEN all.groups ELSE Whole(phrase)
        spoken(align) == IF align.ok THEN split(Groups(phrase, align.aligned, Reading!Sentences(phrase.text)))
                         ELSE Whole(phrase)
    IN spoken(Align(phrase, RepairWords(phrase)))

-----------------------------------------------------------------------------
(* parse_mai_response: of an answer, its phrases as they were sent.         *)

\* Times outside the recording or without a length are no times.
Interval(at, duration) ==
    LET to == SmallerOf(duration, at[1] + at[2]) IN
    IF at[1] >= 0 /\ at[1] < to THEN <<at[1], to>> ELSE NoSpan

ReadPhrase(sent, duration) ==
    LET span == Interval(sent.at, duration)
        words == SelectSeq([i \in DOMAIN sent.words |->
                     <<sent.words[i].text>> \o Interval(sent.words[i].at, duration)], LAMBDA w : w[3] > 0)
    IN [text |-> sent.text, span |-> span, timed |-> span # NoSpan, words |-> words,
        language |-> sent.language, kana |-> sent.kana]

Segments(answer, duration) ==
    LET written == SelectSeq(answer, LAMBDA p : p.text # <<>>)
        read == [i \in DOMAIN written |-> ReadPhrase(written[i], duration)]
        split(phrases) == FlattenSeq([i \in DOMAIN phrases |-> SplitTimed(phrases[i])])
    IN split(SmoothLocales(ReassignWords(read)))
=============================================================================
