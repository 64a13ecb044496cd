------------------------------- MODULE Words -------------------------------
(***************************************************************************)
(* Sequences of words (quality/text.py, consensus/alignment.py): the edit    *)
(* distance, and where each word of a hypothesis stands beside an anchor.    *)
(* The words are those of surface_tokens, normalised.                        *)
(***************************************************************************)
EXTENDS Timeline

Differ(x, y) == IF x = y THEN 0 ELSE 1

\* normalized_edit_distance before its division, and the cost table of the alignment.
EditCost(a, b) ==
    LET cost[i \in 0..Len(a), j \in 0..Len(b)] ==
            IF i = 0 THEN j ELSE IF j = 0 THEN i
            ELSE Min({cost[i - 1, j - 1] + Differ(a[i], b[j]), cost[i - 1, j] + 1, cost[i, j - 1] + 1})
    IN cost

EditDistance(a, b) == EditCost(a, b)[Len(a), Len(b)]
\* The distance in percent of the longer sequence, as the thresholds compare it.
MoreDifferentThan(a, b, percent) ==
    100 * EditDistance(a, b) > percent * LargerOf(1, LargerOf(Len(a), Len(b)))

\* _dynamic_programming_alignment: the column <<position, place>> of each word of b;
\* <<2i - 1, 0>> pairs it with word i of the anchor a, <<2i, n>> is the n-th word
\* inserted after i words of it.  Pairing goes before deletion before insertion.
Columns(a, b) ==
    LET cost == EditCost(a, b)
        inGap(keys, i) == Cardinality({k \in DOMAIN keys : keys[k][1] = 2 * i}) + 1
        keys[i \in 0..Len(a), j \in 0..Len(b)] ==
            IF j = 0 THEN <<>>
            ELSE IF i > 0 /\ cost[i, j] = cost[i - 1, j - 1] + Differ(a[i], b[j])
                 THEN Append(keys[i - 1, j - 1], <<2 * i - 1, 0>>)
            ELSE IF i > 0 /\ cost[i, j] = cost[i - 1, j] + 1 THEN keys[i - 1, j]
            ELSE Append(keys[i, j - 1], <<2 * i, inGap(keys[i, j - 1], i)>>)
    IN keys[Len(a), Len(b)]
=============================================================================
