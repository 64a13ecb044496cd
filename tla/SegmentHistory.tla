--------------------------- MODULE SegmentHistory ---------------------------
(***************************************************************************)
(* The edits of a transcript by several windows and by the job itself: text *)
(* edits, adoption of a candidate, undo and redo from the decision events,   *)
(* split and merge of segments (api/service.py with jobs/audit.py).  A       *)
(* request reads in autocommit and takes the write lock at its first UPDATE, *)
(* so its reads and its commit are steps; a page that is stale is a request  *)
(* that arrives late.  A text is a sequence of words and marks.              *)
(***************************************************************************)
EXTENDS Naturals, Sequences, FiniteSets, SequencesExt

CONSTANTS Windows,
          MaxRequests,   \* requests of all windows
          MaxPasses      \* passes of the job over the segments

VARIABLES
    segments,    \* rows of transcript_segments, in order of creation
    events,      \* of each row: its decision events about the user layer, in order
    requests,    \* the request of each window
    handler,     \* the pass the executor is in: row and version read, or NoPass
    left         \* requests and passes left

historyVars == <<segments, events, requests, handler, left>>

Mark == "."
NoText == <<"null">>      \* user_text IS NULL
Idle == [op |-> "none"]
NoPass == <<0, 0>>
Extent == <<0, 2>>
EditTexts == {<<"a", "b", Mark>>, <<>>}
CandidateTexts == {<<"c", "b">>}

Row(span, auto, user) == [span |-> span, active |-> TRUE, version |-> 1, auto |-> auto, user |-> user]
Rows == DOMAIN segments
ActiveRows == {s \in Rows : segments[s].active}

Init ==
    /\ segments = <<Row(Extent, <<"a", "b">>, NoText)>>
    /\ events = <<<<>>>>
    /\ requests = [w \in Windows |-> Idle]
    /\ handler = NoPass
    /\ left = [requests |-> MaxRequests, passes |-> MaxPasses]

\* The text a reader sees, and what of it is neither punctuation nor space.
CurrentText(row) == IF row.user = NoText THEN row.auto ELSE row.user
Stripped(text) == SelectSeq(text, LAMBDA c : c # Mark)

-----------------------------------------------------------------------------
(* The decision events of a segment.                                        *)

\* undo_stack and redo_stack of _history_action; entries are places of events: of
\* an edit, and of an edit with the undo of it.
Without(stack, Test(_)) == SelectSeq(stack, LAMBDA x : ~Test(x))
Replayed(log) ==
    LET step(stacks, i) ==
          LET e == log[i] undo == stacks[1] redo == stacks[2] IN
          CASE e.kind = "edited" -> <<Append(undo, i), <<>>>>
            [] e.kind = "undone" ->
                 IF e.ref \in ToSet(undo)
                 THEN <<Without(undo, LAMBDA x : x = e.ref), Append(redo, <<e.ref, i>>)>> ELSE stacks
            [] e.kind = "redone" ->
                 LET pairs == {p \in ToSet(redo) : p[2] = e.ref} IN
                 IF pairs # {}
                 THEN LET p == CHOOSE p \in pairs : TRUE
                      IN <<Append(undo, p[1]), Without(redo, LAMBDA x : x = p)>>
                 ELSE stacks
    IN FoldLeft(step, <<<<>>, <<>>>>, [i \in DOMAIN log |-> i])

Event(kind, ref, before, after) == [kind |-> kind, ref |-> ref, before |-> before, after |-> after]

-----------------------------------------------------------------------------
(* The windows.                                                             *)

Spend(what) == left[what] > 0 /\ left' = [left EXCEPT ![what] = @ - 1]
Sent(op, rows, version, payload) ==
    [op |-> op, rows |-> rows, version |-> version, payload |-> payload, at |-> "sent",
     read |-> <<>>, found |-> 0]

\* Rows in the order of the timeline.
InOrder(S) == SetToSortSeq(S, LAMBDA s, t : segments[s].span[1] < segments[t].span[1])

\* A page asks for what it shows at this moment; the request may arrive much later.
Send(w) ==
    /\ requests[w] = Idle /\ Spend("requests")
    /\ \/ \E s \in ActiveRows :
            LET row == segments[s] text == CurrentText(row) ask(op, payload) ==
                  requests' = [requests EXCEPT ![w] = Sent(op, <<s>>, row.version, payload)]
            IN \/ \E new \in EditTexts \ {text} : ask("edit", new)
               \/ \E new \in CandidateTexts : ask("adopt", new)
               \/ ask("undo", <<>>) \/ ask("redo", <<>>)
               \/ \E k \in 0..Len(text) : /\ row.span[2] - row.span[1] > 1
                                            /\ ask("split", <<SubSeq(text, 1, k), SubSeq(text, k + 1, Len(text))>>)
       \/ /\ Cardinality(ActiveRows) > 1
          /\ requests' = [requests EXCEPT ![w] = Sent("merge", InOrder(ActiveRows), 0, <<>>)]
    /\ UNCHANGED <<segments, events, handler>>

Answered(w) == requests' = [requests EXCEPT ![w] = Idle]
Rejected(w) == Answered(w) /\ UNCHANGED <<segments, events>>

-----------------------------------------------------------------------------
(* The service.                                                             *)

Acceptable(r, rows) ==
    CASE r.op = "edit" -> rows[1].active
      [] r.op = "adopt" -> TRUE
      [] r.op \in {"undo", "redo"} -> rows[1].version = r.version
      [] r.op = "split" -> rows[1].active
                           /\ Stripped(r.payload[1] \o r.payload[2]) = Stripped(CurrentText(rows[1]))
      [] r.op = "merge" -> /\ \A i \in DOMAIN rows : rows[i].active
                           /\ \A i \in 2..Len(rows) : rows[i - 1].span[2] = rows[i].span[1]

\* The rows a handler loads, and what it refuses at once.
Load(w) ==
    LET r == requests[w]
        rows == [i \in DOMAIN r.rows |-> segments[r.rows[i]]]
    IN /\ r # Idle /\ r.at = "sent"
       /\ IF Acceptable(r, rows)
          THEN requests' = [requests EXCEPT ![w].at = "loaded", ![w].read = rows]
          ELSE Answered(w)
       /\ UNCHANGED <<segments, events, handler, left>>

\* _history_action: the place of the edit to undo, or of the undo to redo.
History(w) ==
    LET r == requests[w]
        stacks == Replayed(events[r.rows[1]])
        stack == IF r.op = "undo" THEN stacks[1] ELSE stacks[2]
    IN /\ r # Idle /\ r.at = "loaded" /\ r.op \in {"undo", "redo"}
       /\ IF stack = <<>> THEN Answered(w)
          ELSE requests' = [requests EXCEPT ![w].at = "found",
                               ![w].found = IF r.op = "undo" THEN Last(stack) ELSE Last(stack)[2]]
       /\ UNCHANGED <<segments, events, handler, left>>

\* Mutant: the version that was loaded is not compared.
UnmovedRow(r) == TRUE

\* The UPDATE of a row is made with the version that was loaded, or in edit_segment
\* with the one the page has seen; no UPDATE is made where nothing changes.
Unmoved(r) == \A i \in DOMAIN r.rows : segments[r.rows[i]].version = r.read[i].version

SetText(s, text, event) ==
    /\ segments' = [segments EXCEPT ![s].user = text, ![s].version = @ + 1]
    /\ events' = [events EXCEPT ![s] = Append(@, event)]

SaveText(w) ==
    LET r == requests[w] s == r.rows[1] IN
    /\ r # Idle /\ r.at = "loaded" /\ r.op \in {"edit", "adopt"}
    /\ IF segments[s].version = r.version
       THEN SetText(s, r.payload, Event("edited", 0, r.read[1].user, r.payload)) /\ Answered(w)
       ELSE Rejected(w)
    /\ UNCHANGED <<handler, left>>

\* The text before the edit, or the one the undo replaced.
SaveHistory(w) ==
    LET r == requests[w]
        s == r.rows[1]
        before == r.read[1].user
        after == events[s][r.found].before
        event == Event(IF r.op = "undo" THEN "undone" ELSE "redone", r.found, before, after)
    IN /\ r # Idle /\ r.at = "found"
       /\ IF before = after
          THEN events' = [events EXCEPT ![s] = Append(@, event)] /\ UNCHANGED segments /\ Answered(w)
          ELSE IF Unmoved(r) THEN SetText(s, after, event) /\ Answered(w)
          ELSE Rejected(w)
       /\ UNCHANGED <<handler, left>>

\* Split and merge: the rows leave the timeline, their successors enter it.
Superseded(r, successors) ==
    /\ segments' = [s \in Rows |-> IF s \in ToSet(r.rows)
                                   THEN [segments[s] EXCEPT !.active = FALSE, !.version = @ + 1]
                                   ELSE segments[s]] \o successors
    /\ events' = events \o [i \in DOMAIN successors |-> <<>>]

Split(w) ==
    LET r == requests[w]
        span == r.read[1].span
        cut == span[1] + 1
        derived(i, half) == Row(half, r.payload[i], r.payload[i])
    IN /\ r # Idle /\ r.at = "loaded" /\ r.op = "split"
       /\ IF Unmoved(r)
          THEN /\ Superseded(r, <<derived(1, <<span[1], cut>>), derived(2, <<cut, span[2]>>)>>)
               /\ Answered(w)
          ELSE Rejected(w)
       /\ UNCHANGED <<handler, left>>

Merge(w) ==
    LET r == requests[w]
        text == FoldLeft(LAMBDA t, row : t \o CurrentText(row), <<>>, r.read)
    IN /\ r # Idle /\ r.at = "loaded" /\ r.op = "merge"
       /\ IF Unmoved(r)
          THEN /\ Superseded(r, <<Row(<<r.read[1].span[1], Last(r.read).span[2]>>, text, text)>>)
               /\ Answered(w)
          ELSE Rejected(w)
       /\ UNCHANGED <<handler, left>>

-----------------------------------------------------------------------------
(* The job.                                                                 *)

\* A checkpoint's handler loads the row, works, and writes the automatic layers.
PassLoads(s) ==
    /\ handler = NoPass /\ segments[s].active /\ Spend("passes")
    /\ handler' = <<s, segments[s].version>>
    /\ UNCHANGED <<segments, events, requests>>
PassWrites ==
    /\ handler # NoPass /\ handler' = NoPass
    /\ \/ /\ segments[handler[1]].version = handler[2]
          /\ segments' = [segments EXCEPT ![handler[1]].auto = <<"d", "b">>, ![handler[1]].version = @ + 1]
       \/ UNCHANGED segments
    /\ UNCHANGED <<events, requests, left>>

Next ==
    \/ \E w \in Windows :
         Send(w) \/ Load(w) \/ History(w) \/ SaveText(w) \/ SaveHistory(w) \/ Split(w) \/ Merge(w)
    \/ (\E s \in Rows : PassLoads(s)) \/ PassWrites

Spec == Init /\ [][Next]_historyVars

-----------------------------------------------------------------------------
\* However windows split and merge at once, the active segments follow each other
\* over the whole recording: a split or merge of a row that was superseded since it
\* was loaded is refused (service.py:898-1001).
TimelineWhole ==
    /\ InOrder(ActiveRows) # <<>>
    /\ LET order == InOrder(ActiveRows) span(i) == segments[order[i]].span IN
       /\ span(1)[1] = Extent[1] /\ span(Len(order))[2] = Extent[2]
       /\ \A i \in 2..Len(order) : span(i - 1)[2] = span(i)[1]

\* The edits that can be undone lead from the text the segment had at first to the
\* one it has, each from where the one before it ended, and what can be redone starts
\* from there: nobody's text is lost between two steps of undo (service.py:2208-2290).
\* An undo that changes nothing writes no row, so nothing checks its version: segments
\* with such an undo are left out.
Checked(log) == \A i \in DOMAIN log : log[i].kind # "edited" => log[i].before # log[i].after
UndoLeadsBack ==
    \A s \in {r \in Rows : Checked(events[r])} :
        LET log == events[s]
            undo == Replayed(log)[1]
            redo == Replayed(log)[2] IN
        /\ \A i \in 2..Len(undo) : log[undo[i]].before = log[undo[i - 1]].after
        /\ undo # <<>> => log[Last(undo)].after = segments[s].user
        /\ s = 1 => (IF undo = <<>> THEN segments[s].user ELSE log[undo[1]].before) = NoText
        /\ redo # <<>> => log[Last(redo)[1]].before = segments[s].user

\* A split or merge changes no word of the transcript, whatever was edited since its
\* page was loaded (service.py:907-917, 968-976).
Words ==
    LET order == InOrder(ActiveRows) IN
    Stripped(FoldLeft(LAMBDA t, s : t \o CurrentText(segments[s]), <<>>, order))
WordsSurvive == [][ActiveRows' # ActiveRows => Words' = Words]_historyVars
=============================================================================
