----------------------------- MODULE FinalText -----------------------------
(***************************************************************************)
(* From the consensus to the final text of a segment: terms are corrected    *)
(* (terminology), marks are inserted (punctuation), and every word gets a    *)
(* time (alignment).  A text is a sequence of characters; spaces are marks   *)
(* that nothing depends on and are left out, as are case and word boundaries *)
(* of English terms.                                                         *)
(***************************************************************************)
EXTENDS Words

Pairs == [c \in {"(", "["} |-> IF c = "(" THEN ")" ELSE "]"]
Closers == Range(Pairs)
MARKS == {",", ".", "?"} \cup DOMAIN Pairs \cup Closers
BOUNDARY_MARKS == {",", ".", "?"}

\* strip_punctuation_and_spacing: what no punctuation may change.
Lexical(text) == SelectSeq(text, LAMBDA c : c \notin MARKS)
Invariant(before, after) == Lexical(before) = Lexical(after)

-----------------------------------------------------------------------------
(* Terminology.  A term is [canonical, aliases, trusted].                    *)

\* Where finditer finds an alias: from the left, never overlapping itself.
Occurrences(text, alias) ==
    LET n == Len(alias)
        from[i \in 1..(Len(text) + 1)] ==
            IF i + n > Len(text) + 1 THEN {}
            ELSE IF SubSeq(text, i, i + n - 1) = alias THEN {<<i, i + n>>} \cup from[i + n]
            ELSE from[i + 1]
    IN from[1]

\* A term replaces its aliases only when it is trusted and was really emitted.
Supported(term, text) ==
    /\ term.trusted
    /\ \E form \in {term.canonical} \cup term.aliases : Occurrences(text, form) # {}

\* The replacements apply_terminology selects: the leftmost, then the longest.
Replacements(text, terms) ==
    LET real == UNION {{[at |-> s, term |-> k] : s \in UNION {Occurrences(text, a) : a \in terms[k].aliases}} :
                          k \in {i \in DOMAIN terms : Supported(terms[i], text)}}
        before(r, q) == \/ Start(r.at) < Start(q.at)
                        \/ Start(r.at) = Start(q.at) /\ Length(r.at) > Length(q.at)
                        \/ r.at = q.at /\ r.term < q.term
    IN FoldLeft(LAMBDA chosen, r :
                    IF chosen = <<>> \/ Start(r.at) >= End(Last(chosen).at) THEN Append(chosen, r) ELSE chosen,
                <<>>, SetToSortSeq(real, before))

Corrected(text, terms) ==
    LET step(acc, r) == [out |-> acc.out \o SubSeq(text, acc.cursor, Start(r.at) - 1) \o terms[r.term].canonical,
                         cursor |-> End(r.at)]
        all == FoldLeft(step, [out |-> <<>>, cursor |-> 1], Replacements(text, terms))
    IN all.out \o SubSeq(text, all.cursor, Len(text))

\* _upsert_terms: suggestions leave what the user confirmed alone, and are weak.
Upserted(glossary, terms, suggested) ==
    [name \in DOMAIN glossary \cup DOMAIN terms |->
        IF name \notin DOMAIN terms THEN glossary[name]
        ELSE IF suggested /\ name \in DOMAIN glossary /\ glossary[name].confirmed THEN glossary[name]
        ELSE terms[name]]
MaySuggest(terms) == \A name \in DOMAIN terms : ~terms[name].confirmed /\ terms[name].weight <= 30

-----------------------------------------------------------------------------
(* Punctuation.  Marks are a function from the number of lexical characters  *)
(* before a boundary to the mark put there.                                  *)

\* apply_boundary_marks: a mark that is there already wins.
Existing(text) == {Len(Lexical(SubSeq(text, 1, i - 1))) : i \in {j \in DOMAIN text : text[j] \in MARKS}}
WithMarks(text, marks) ==
    LET put(k) == IF k \in DOMAIN marks \ Existing(text) THEN <<marks[k]>> ELSE <<>>
        step(out, c) == IF c \in MARKS THEN Append(out, c)
                        ELSE Append(out, c) \o put(Len(Lexical(out)) + 1)
    IN FoldLeft(step, put(0), text)

\* acoustic_marks: of several boundaries at one place a comma never replaces a stop.
MarkOf(b) == IF b.rising THEN "?" ELSE IF b.speakerChanged \/ b.pause >= 700 THEN "."
             ELSE IF b.pause >= 250 THEN "," ELSE ""
AcousticMarks(length, boundaries) ==
    LET step(marks, b) ==
            IF b.after > length \/ MarkOf(b) = "" \/ (MarkOf(b) = "," /\ b.after \in DOMAIN marks) THEN marks
            ELSE [k \in DOMAIN marks \cup {b.after} |-> IF k = b.after THEN MarkOf(b) ELSE marks[k]]
    IN FoldLeft(step, <<>>, boundaries)
EndsASentence(text) == text # <<>> /\ Last(text) \in {".", "?"}

\* The model's proposal counts only if it changed nothing but marks; an answer that
\* echoes another text is refused before (parse_punctuation_response).
Chinese(text, proposal, boundaries) ==
    LET proposed == IF Existing(text) # {} \/ proposal = <<>> \/ ~Invariant(text, proposal)
                    THEN text ELSE proposal
    IN WithMarks(proposed, AcousticMarks(Len(Lexical(proposed)), boundaries))

\* English keeps its own writing when that is healthy: a sentence end, few marks.
Healthy(text) ==
    /\ EndsASentence(text)
    /\ Len(text) - Len(Lexical(text)) <= LargerOf(4, Len(Lexical(text)) \div 2)
ProposalSafe(text, proposal, protected) ==
    Invariant(text, proposal)
    /\ \A form \in protected : Occurrences(text, form) = {} \/ Occurrences(proposal, form) # {}
English(text, proposal, protected) ==
    IF Healthy(text) \/ proposal = <<>> \/ ~ProposalSafe(text, proposal, protected) THEN text ELSE proposal

\* _project_granite_boundaries: places scale to the length of the text, rounded half to even.
Rounded(a, b) == LET q == a \div b r == 2 * (a % b) IN
                 IF r > b \/ (r = b /\ q % 2 = 1) THEN q + 1 ELSE q
Granite(proposal, length) ==
    LET source == Len(Lexical(proposal))
        step(marks, i) ==
            LET k == Rounded(Len(Lexical(SubSeq(proposal, 1, i))) * length, source)
            IN IF proposal[i] \notin BOUNDARY_MARKS THEN marks
               ELSE [j \in DOMAIN marks \cup {k} |-> IF j = k THEN proposal[i] ELSE marks[j]]
    IN IF source = 0 THEN <<>> ELSE FoldLeft(step, <<>>, [i \in DOMAIN proposal |-> i])

\* _balance_japanese_punctuation: no closing bracket without its opening one.
Balanced(text) ==
    LET step(acc, c) ==
            IF c \in DOMAIN Pairs THEN [open |-> Append(acc.open, c), out |-> Append(acc.out, c)]
            ELSE IF c \notin Closers THEN [acc EXCEPT !.out = Append(@, c)]
            ELSE IF acc.open # <<>> /\ Pairs[Last(acc.open)] = c
                 THEN [open |-> Front(acc.open), out |-> Append(acc.out, c)]
            ELSE acc
        all == FoldLeft(step, [open |-> <<>>, out |-> <<>>], text)
    IN all.out \o Reverse([i \in DOMAIN all.open |-> Pairs[all.open[i]]])
Dense(text) == 100 * (Len(text) - Len(Lexical(text))) > 35 * LargerOf(1, Len(Lexical(text)))

Either(f, g) == [k \in DOMAIN f \cup DOMAIN g |-> IF k \in DOMAIN f THEN f[k] ELSE g[k]]
Japanese(text, granite, boundaries, labels) ==
    LET length == Len(Lexical(text))
        near == granite # <<>> /\ ~MoreDifferentThan(Lexical(granite), Lexical(text), 25)
        acoustic == AcousticMarks(length, boundaries)
        heard == Either(IF near THEN Granite(granite, length) ELSE <<>>, acoustic)
        tagged == [k \in {l.after : l \in {m \in labels : m.confidence >= 70 /\ m.after <= length}} |->
                      (CHOOSE l \in labels : l.after = k /\ l.confidence >= 70).mark]
        proposed == Balanced(WithMarks(text, IF DOMAIN heard = {} THEN tagged ELSE heard))
    IN IF Dense(proposed) THEN Balanced(WithMarks(text, acoustic)) ELSE proposed

\* One boundary at the end of the text, where the next segment starts or none does.
Boundaries(text, pause, speakerChanged) ==
    IF Lexical(text) = <<>> \/ EndsASentence(text) THEN <<>>
    ELSE <<[after |-> Len(Lexical(text)), pause |-> pause, rising |-> FALSE, speakerChanged |-> speakerChanged]>>
Marked(language, text, proposal, pause, speakerChanged) ==
    LET boundaries == Boundaries(text, pause, speakerChanged) IN
    CASE text = <<>> -> text
      [] language = "zh" -> Chinese(text, proposal, boundaries)
      [] language = "ja" -> Japanese(text, <<>>, boundaries, {})
      [] OTHER -> English(text, proposal, {})

-----------------------------------------------------------------------------
(* Alignment.  Evidence is [source, span, text, tokens, reliable, cost, gap]; *)
(* a token is <<text, span>>.                                                *)

Spelt(tokens) == FlattenSeq([i \in DOMAIN tokens |-> tokens[i][1]])
InOrder(tokens, span) ==
    \A i \in DOMAIN tokens :
        /\ Start(tokens[i][2]) >= (IF i = 1 THEN Start(span) ELSE End(tokens[i - 1][2]))
        /\ End(tokens[i][2]) <= End(span) /\ Length(tokens[i][2]) > 0
VoicedUnder(tokens, voiced) ==
    Cardinality(UNION {Samples(v) : v \in voiced} \cap UNION {Samples(tokens[i][2]) : i \in DOMAIN tokens})

\* validate_timing
Valid(evidence, voiced, coverage) ==
    /\ InOrder(evidence.tokens, evidence.span)
    /\ Invariant(Spelt(evidence.tokens), evidence.text)
    /\ 100 * VoicedUnder(evidence.tokens, voiced) >= coverage * Covered(voiced)
    /\ evidence.cost <= 45 /\ evidence.gap <= 500
    /\ evidence.tokens # <<>>
Acceptable(evidence, text, span, voiced) ==
    /\ evidence.span = span /\ evidence.text = text /\ evidence.reliable
    /\ Valid(evidence, voiced, 60)

\* _coarse_timing shares the segment out; a segment with fewer samples than
\* characters raises.
CanShareOut(text, span) == text # <<>> /\ Length(span) >= Len(text)
SharedOut(text, span) ==
    LET at(i) == Start(span) + (Length(span) * i) \div Len(text)
    IN [i \in DOMAIN text |-> <<<<text[i]>>, <<at(i - 1), at(i)>>>>]

\* evaluate_alignment_gate, with the seconds of the segment and of its speech.
UNSAFE_ISSUES == {"empty_on_speech", "repeated_ngram", "shortest_loop", "output_too_dense", "prefix_stagnation",
                  "replacement_character", "double_question", "illegal_character", "script_mismatch",
                  "length_voice_mismatch", "late_speech_uncovered"}
GateOpen(text, span, voiced, issues, safe) ==
    /\ Length(span) < SmallerOf(30, safe)
    /\ issues \cap UNSAFE_ISSUES = {} /\ Covered(voiced) > 0
    /\ 5 * Len(text) >= Covered(voiced) /\ Len(text) <= 24 * Covered(voiced)

\* _native_timing: the adopted hypothesis first; _structure_timing: what the structure
\* model wrote, when it wrote this text.  No evidence is an empty sequence.
Evidence(text, span, tokens) ==
    [span |-> span, text |-> text, tokens |-> tokens, reliable |-> TRUE, cost |-> 0, gap |-> 0]
NativeTiming(hypotheses, text, span, voiced) ==
    LET fit == SelectSeq(hypotheses, LAMBDA h : /\ h.native /\ h.tokens # <<>> /\ Invariant(h.text, text)
                                               /\ Valid(Evidence(text, span, h.tokens), voiced, 60))
    IN IF fit = <<>> THEN <<>> ELSE <<Evidence(text, span, fit[1].tokens)>>
StructureTiming(rows, text, span) ==
    LET inside == SelectSeq(rows, LAMBDA r : /\ Samples(r.span) \subseteq Samples(span)
                                            /\ ~r.fallback /\ ~r.overlap /\ r.score >= 70)
        tokens == [i \in DOMAIN inside |-> <<inside[i].text, inside[i].span>>]
    IN IF inside = <<>> \/ (\E i \in DOMAIN inside : inside[i].text = <<>>) \/ ~Invariant(Spelt(tokens), text)
       THEN <<>> ELSE <<Evidence(text, span, tokens)>>

\* select_canonical_timing.  The aligner's answer is a sequence too: empty when it is
\* not installed, raised or answered for another text.
Timing(text, span, voiced, native, structure, gate, aligned) ==
    LET fit == SelectSeq(native \o structure \o (IF gate THEN aligned ELSE <<>>),
                         LAMBDA e : Acceptable(e, text, span, voiced))
    IN IF fit # <<>> THEN [tokens |-> fit[1].tokens, coarse |-> FALSE]
       ELSE [tokens |-> SharedOut(text, span), coarse |-> TRUE]

\* sources_for_span: the hypotheses' tokens a final token comes from.
SourcesFor(sources, span) ==
    LET apart(s) == LargerOf(0, LargerOf(Start(s) - End(span), Start(span) - End(s)))
        over == {s \in sources : Overlap(s, span)}
    IN IF over # {} THEN over ELSE {s \in sources : \A t \in sources : apart(s) <= apart(t)}

\* _final_validation
Validated(text, span, tokens) == (tokens = <<>> => text = <<>>) /\ InOrder(tokens, span)
=============================================================================
