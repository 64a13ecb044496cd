---------------------------- MODULE BrowserProofs ----------------------------
(***************************************************************************)
(* Proofs about the pages of the browser, for every bound.                  *)
(*                                                                          *)
(* A draft is kept because each place it passes through keeps its text: the *)
(* draft itself until it is marked saved, which it is only with the text of *)
(* a save that was stored.  What a confirmed draft replaces is the text the *)
(* user compared because a version names one text: whatever was read with   *)
(* a version is still the text of the service, or the version is an old one *)
(* and the save is refused.                                                 *)
(*                                                                          *)
(* What a page has seen of its job and what is on its way to it form one    *)
(* path through the numbers of the broker: from one number to the next      *)
(* there is nothing but what the log no longer has, and the path ends where *)
(* the stream reads on.  Up to the number it has seen the page was told of  *)
(* all, or kept that number of an earlier process.  The activity is current *)
(* because a run is the owner of its job until its own end is published,    *)
(* and what is published of any other run is dropped.                       *)
(***************************************************************************)
EXTENDS MCBrowser, SequenceTheorems, WellFoundedInduction, TLAPS

-----------------------------------------------------------------------------
(* The drafts.                                                              *)

\* A text that was read with a version: the text of the service, or an old one.
ReadWith(version, text) ==
    version <= server.version /\ (version = server.version => text = server.text)
ReadAs(segment) == ReadWith(segment.version, segment.text)

\* A draft that is saved or in conflict says so; what the user was shown, and what
\* a confirmed draft is to replace, was read from the service.
DraftIn(d) ==
    /\ d.conflict => d.st = "error"
    /\ d.st = "saved" => d.text \subseteq stored /\ d.over = None
    /\ d.serverVersion > 0 => ReadWith(d.serverVersion, d.shown)
    /\ d.over # None => ReadWith(d.version, d.over)

PatchIn(p) ==
    /\ p.st \in {"stored", "answered"} => p.text \subseteq stored
    /\ p.st = "answered" => p.reply \in Segment
    /\ p.st = "sent" /\ p.over # None => ReadWith(p.version, p.over)

DInv ==
    /\ TypeOK /\ TypedKept
    /\ draft # None => DraftIn(draft)
    /\ patch # None => PatchIn(patch)
    /\ load # None => ReadAs(load.segment)
    /\ rebase # None => ReadAs(rebase.segment) /\ rebase.seen > 0

\* The draft of a step that ends with Flush(d) or Done(d): d, perhaps being saved.
Keeps(d) ==
    /\ draft' \in Draft \cup {None} /\ patch' \in Patch \cup {None}
    /\ draft' # None => DraftIn(draft)'
    /\ patch' # None => PatchIn(patch)'
    /\ Unsaved(d) => Unsaved(draft') /\ draft'.text = d.text

LEMMA FlushKeeps ==
    ASSUME NEW d \in Draft \cup {None}, patch \in Patch \cup {None},
           d # None => DraftIn(d), patch # None => PatchIn(patch),
           UNCHANGED <<server, stored>>, Flush(d)
    PROVE  Keeps(d)
<1>1. CASE patch # None \/ ~Unsaved(d) \/ d.conflict
  BY <1>1 DEF Flush, Keeps, DraftIn, PatchIn, ReadWith
<1>2. CASE ~(patch # None \/ ~Unsaved(d) \/ d.conflict)
  <2>1. /\ d \in Draft /\ d.st # "saved" /\ ~d.conflict
        /\ draft' = [d EXCEPT !.st = "saving"]
        /\ patch' = [st |-> "sent", text |-> d.text, version |-> d.version, over |-> d.over,
                     reply |-> None, live |-> TRUE]
    BY <1>2 DEF Flush, Unsaved
  <2>2. draft' \in Draft /\ patch' \in Patch /\ patch'.st = "sent"
    BY <2>1 DEF Draft, Patch
  <2>3. /\ draft'.st = "saving" /\ draft'.text = d.text /\ draft'.version = d.version
        /\ draft'.over = d.over /\ draft'.serverVersion = d.serverVersion
        /\ draft'.shown = d.shown /\ draft'.conflict = d.conflict
        /\ patch'.st = "sent" /\ patch'.version = d.version /\ patch'.over = d.over
    BY <2>1 DEF Draft
  <2>4. DraftIn(d)
    BY <1>2 DEF Unsaved
  <2>5. DraftIn(draft)' /\ PatchIn(patch)'
    BY <2>1, <2>3, <2>4 DEF DraftIn, PatchIn, ReadWith
  <2> QED BY <2>2, <2>3, <2>5, NoneAssumption DEF Keeps, Unsaved
<1> QED BY <1>1, <1>2

LEMMA DoneKeeps ==
    ASSUME NEW d \in Draft \cup {None}, d # None => DraftIn(d),
           UNCHANGED <<server, stored>>, Done(d)
    PROVE  Keeps(d)
<1>1. CASE d # None /\ d.st = "waiting" /\ ~timer
  <2>1. /\ d \in Draft /\ d.st = "waiting" /\ ~d.conflict
        /\ draft' = [d EXCEPT !.st = "saving"]
        /\ patch' = [st |-> "sent", text |-> d.text, version |-> d.version, over |-> d.over,
                     reply |-> None, live |-> TRUE]
    BY <1>1 DEF Done, DraftIn
  <2>2. draft' \in Draft /\ patch' \in Patch /\ patch'.st = "sent"
    BY <2>1 DEF Draft, Patch
  <2>3. /\ draft'.st = "saving" /\ draft'.text = d.text /\ draft'.version = d.version
        /\ draft'.over = d.over /\ draft'.serverVersion = d.serverVersion
        /\ draft'.shown = d.shown /\ draft'.conflict = d.conflict
        /\ patch'.st = "sent" /\ patch'.version = d.version /\ patch'.over = d.over
    BY <2>1 DEF Draft
  <2>4. DraftIn(draft)' /\ PatchIn(patch)'
    BY <1>1, <2>1, <2>3 DEF DraftIn, PatchIn, ReadWith
  <2> QED BY <2>2, <2>3, <2>4, NoneAssumption DEF Keeps, Unsaved
<1>2. CASE ~(d # None /\ d.st = "waiting" /\ ~timer)
  BY <1>2 DEF Done, Keeps, DraftIn, PatchIn, ReadWith
<1> QED BY <1>1, <1>2

\* Every step keeps the invariant if it keeps the types and what is said of the draft
\* and the save.
Others ==
    /\ server' \in Segment /\ timer' \in BOOLEAN
    /\ orphans' \subseteq [text : Text, version : Nat]
    /\ load' \in Read \cup {None} /\ (load' # None => ReadAs(load.segment)')
    /\ rebase' \in [segment : Segment, live : BOOLEAN, seen : Nat] \cup {None}
    /\ rebase' # None => ReadAs(rebase.segment)' /\ rebase'.seen > 0
    /\ view' \in Segment /\ refetch' \in Segment \cup {None}
    /\ typed' \in 0..MaxEdits /\ gone' \in Text /\ stored' \in Text /\ faults' \in 0..MaxFaults

LEMMA Assembled ==
    ASSUME Others, draft' \in Draft \cup {None}, patch' \in Patch \cup {None}, TypedKept',
           draft' # None => DraftIn(draft)', patch' # None => PatchIn(patch)'
    PROVE  DInv'
BY DEF Others, DInv, TypeOK

\* A step that leaves the service and the typed edits alone and flushes or ends with d.
LEMMA TextsKept ==
    ASSUME DInv, Others, UNCHANGED <<typed, gone, stored>>, NEW d, Keeps(d),
           Unsaved(draft) => (Unsaved(d) /\ d.text = draft.text) \/ draft.text \subseteq stored
    PROVE  DInv'
<1>1. TypedKept'
  BY DEF DInv, TypedKept, Keeps, Unsaved
<1> QED BY <1>1, Assembled DEF Keeps

-----------------------------------------------------------------------------
\* What the user types is in the draft it is typed over.
LEMMA TypeKeeps ==
    ASSUME DInv, Type
    PROVE  DInv'
<1> DEFINE text == Shown \cup {Mine(typed')}
           d == Scheduled(text)
<1>1. /\ typed \in 0..MaxEdits /\ typed' = typed + 1 /\ typed' \in 1..MaxEdits
      /\ draft' = d /\ timer' \in BOOLEAN
      /\ UNCHANGED <<server, patch, orphans, load, rebase, view, refetch, gone, stored, faults>>
  BY SavesAssumption DEF Type, DInv, TypeOK
<1>2. Unsaved(draft) => draft.text \subseteq text
  BY DEF Shown, Unsaved, Draft, Segment, Text, Edits, DInv, TypeOK
<1>3. Mine(typed + 1) \in text /\ text \in Text
  BY <1>1 DEF Shown, Unsaved, Draft, Segment, Text, Edits, DInv, TypeOK
<1> HIDE DEF text
<1>4. d \in Draft /\ d.text = text /\ d.st # "saved"
  <2>1. CASE draft # None /\ draft.conflict
    BY <1>3, <2>1 DEF Scheduled, Draft, DInv, TypeOK, DraftIn
  <2>2. CASE ~(draft # None /\ draft.conflict)
    <3> DEFINE version == CASE Unsaved(draft) -> draft.version
                            [] draft = None -> view.version
                            [] OTHER -> Higher(draft.version, view.version)
               over == IF draft = None THEN None ELSE draft.over
    <3>1. version \in Nat
      BY DEF Unsaved, Higher, Draft, Segment, DInv, TypeOK
    <3>2. over \in Text \cup {None}
      BY DEF Draft, DInv, TypeOK
    <3>3. d = [text |-> text, version |-> version, st |-> "waiting", conflict |-> FALSE,
               serverVersion |-> 0, shown |-> None, over |-> over]
      BY <2>2 DEF Scheduled
    <3> HIDE DEF version, over, d
    <3> QED BY <1>3, <3>1, <3>2, <3>3 DEF Draft
  <2> QED BY <2>1, <2>2
<1>5. DraftIn(d)
  <2>1. CASE draft # None /\ draft.conflict
    <3>1. draft \in Draft /\ d = [draft EXCEPT !.text = text] /\ DraftIn(draft)
      BY <2>1 DEF Scheduled, DInv, TypeOK
    <3>2. /\ d.st = draft.st /\ d.conflict = draft.conflict /\ d.serverVersion = draft.serverVersion
          /\ d.shown = draft.shown /\ d.over = draft.over /\ d.version = draft.version
      BY <3>1 DEF Draft
    <3> HIDE DEF d
    <3> QED BY <1>4, <3>1, <3>2 DEF DraftIn
  <2>2. CASE ~(draft # None /\ draft.conflict)
    <3>1. ~d.conflict /\ d.serverVersion = 0 /\ d.over = IF draft = None THEN None ELSE draft.over
      BY <2>2 DEF Scheduled
    <3>2. draft # None => DraftIn(draft)
      BY DEF DInv
    <3>3. Unsaved(draft) => d.version = draft.version
      BY <2>2 DEF Scheduled, Unsaved
    <3> HIDE DEF d
    <3> QED BY <1>4, <3>1, <3>2, <3>3 DEF DraftIn, Unsaved
  <2> QED BY <2>1, <2>2
<1> HIDE DEF d
<1>6. Others
  BY <1>1 DEF Others, DInv, TypeOK, ReadAs, ReadWith
<1>7. DraftIn(draft)' /\ (patch' # None => PatchIn(patch)')
  BY <1>1, <1>5 DEF DraftIn, PatchIn, ReadWith, DInv
<1>8. TypedKept'
  <2> SUFFICES ASSUME NEW k \in 1..typed'
               PROVE  (Unsaved(draft) /\ Mine(k) \in draft.text)' \/ Mine(k) \in gone \/ Mine(k) \in stored
    BY <1>1 DEF TypedKept
  <2>1. Unsaved(draft)' /\ draft'.text = text
    BY <1>1, <1>4, NoneAssumption DEF Unsaved
  <2>2. CASE k = typed + 1
    BY <1>3, <2>1, <2>2
  <2>3. CASE k \in 1..typed
    BY <1>2, <2>1, <2>3 DEF DInv, TypedKept
  <2> QED BY <1>1, <2>2, <2>3
<1> QED BY <1>1, <1>4, <1>6, <1>7, <1>8, Assembled DEF DInv, TypeOK

\* The timer, and the button of a failed save.
LEMMA FlushStep ==
    ASSUME DInv, TimerFires \/ RetrySave
    PROVE  DInv'
<1>1. /\ Flush(draft) /\ timer' = FALSE
      /\ UNCHANGED <<server, orphans, load, rebase, view, refetch, hist, faults>>
  BY DEF TimerFires, RetrySave
<1>2. Keeps(draft)
  BY <1>1, FlushKeeps DEF hist, DInv, TypeOK
<1>3. Others
  BY <1>1 DEF Others, hist, DInv, TypeOK, ReadAs, ReadWith
<1> QED BY <1>1, <1>2, <1>3, TextsKept DEF hist

\* A save ends with its answer: what was saved is stored.
LEMMA SaveEnds ==
    ASSUME DInv, SaveSucceeds
    PROVE  DInv'
<1>1. /\ patch \in Patch /\ patch.st = "answered" /\ PatchIn(patch)
      /\ UNCHANGED <<server, timer, orphans, load, rebase, refetch, hist, faults>>
  BY DEF SaveSucceeds, DInv, TypeOK
<1>2. patch.text \subseteq stored /\ patch.reply \in Segment
  BY <1>1 DEF PatchIn
<1>3. view' \in Segment
  BY <1>1, <1>2 DEF SaveSucceeds, DInv, TypeOK
<1>4. Others
  BY <1>1, <1>3 DEF Others, hist, DInv, TypeOK, ReadAs, ReadWith
<1>5. CASE patch.live /\ draft # None
  <2> DEFINE d == Saved(draft)
  <2>1. draft \in Draft /\ DraftIn(draft) /\ Done(d)
    BY <1>5 DEF SaveSucceeds, DInv, TypeOK
  <2>2. patch.reply.version \in Nat
    BY <1>2 DEF Segment
  <2>3. /\ d \in Draft /\ d.text = draft.text /\ ~d.conflict /\ d.serverVersion = 0 /\ d.over = None
        /\ d.st = IF draft.text # patch.text THEN "waiting" ELSE "saved"
    BY <2>1, <2>2 DEF Saved, Draft
  <2> HIDE DEF d
  <2>4. DraftIn(d)
    BY <1>2, <2>3 DEF DraftIn
  <2>5. Keeps(d)
    BY <1>1, <2>1, <2>3, <2>4, DoneKeeps DEF hist
  <2>6. (Unsaved(d) /\ d.text = draft.text) \/ draft.text \subseteq stored
    BY <1>2, <2>3, NoneAssumption DEF Unsaved
  <2> QED BY <1>1, <1>4, <2>5, <2>6, TextsKept DEF hist
<1>6. CASE ~(patch.live /\ draft # None)
  <2>1. Done(draft)
    BY <1>6 DEF SaveSucceeds
  <2>2. Keeps(draft)
    BY <1>1, <2>1, DoneKeeps DEF hist, DInv, TypeOK
  <2> QED BY <1>1, <1>4, <2>2, TextsKept DEF hist
<1> QED BY <1>5, <1>6

\* A save that failed leaves its text in the draft.
LEMMA ErrorKeeps ==
    ASSUME DInv, NEW conflict \in BOOLEAN, SaveError(conflict), UNCHANGED <<server, stored>>
    PROVE  \E d \in Draft \cup {None} :
              Keeps(d) /\ (Unsaved(draft) => Unsaved(d) /\ d.text = draft.text)
<1>1. CASE patch.live /\ draft # None
  <2> DEFINE d == [draft EXCEPT !.st = "error", !.conflict = conflict, !.over = None]
  <2>1. draft \in Draft /\ DraftIn(draft) /\ Done(d)
    BY <1>1 DEF SaveError, DInv, TypeOK
  <2>2. /\ d \in Draft /\ d.text = draft.text /\ d.st = "error" /\ d.over = None
        /\ d.serverVersion = draft.serverVersion /\ d.shown = draft.shown
    BY <2>1 DEF Draft
  <2> HIDE DEF d
  <2>3. DraftIn(d)
    BY <2>1, <2>2 DEF DraftIn
  <2>4. Keeps(d)
    BY <2>1, <2>2, <2>3, DoneKeeps
  <2> QED BY <2>2, <2>4, NoneAssumption DEF Unsaved
<1>2. CASE ~(patch.live /\ draft # None)
  <2>1. Done(draft)
    BY <1>2 DEF SaveError
  <2>2. Keeps(draft)
    BY <2>1, DoneKeeps DEF DInv, TypeOK
  <2> QED BY <2>2 DEF DInv, TypeOK
<1> QED BY <1>1, <1>2

LEMMA SaveFails ==
    ASSUME DInv, SaveRefused \/ SaveLost
    PROVE  DInv'
<1>1. patch \in Patch /\ UNCHANGED <<server, timer, load, rebase, view, refetch, hist>>
  BY DEF SaveRefused, SaveLost, DInv, TypeOK
<1>2. orphans' \subseteq [text : Text, version : Nat]
  <2>1. [text |-> patch.text, version |-> patch.version] \in [text : Text, version : Nat]
    BY <1>1 DEF Patch
  <2>2. CASE SaveRefused
    BY <2>2 DEF SaveRefused, DInv, TypeOK
  <2>3. CASE SaveLost
    BY <2>1, <2>3 DEF SaveLost, DInv, TypeOK
  <2> QED BY <2>2, <2>3
<1>3. faults' \in 0..MaxFaults
  <2>1. CASE SaveRefused
    BY <2>1 DEF SaveRefused, DInv, TypeOK
  <2>2. CASE SaveLost
    BY <2>2, SavesAssumption DEF SaveLost, DInv, TypeOK
  <2> QED BY <2>1, <2>2
<1>4. Others
  BY <1>1, <1>2, <1>3 DEF Others, hist, DInv, TypeOK, ReadAs, ReadWith
<1>5. PICK conflict \in BOOLEAN : SaveError(conflict)
  BY DEF SaveRefused, SaveLost
<1>6. PICK d \in Draft \cup {None} :
          Keeps(d) /\ (Unsaved(draft) => Unsaved(d) /\ d.text = draft.text)
  BY <1>1, <1>5, ErrorKeeps DEF hist
<1> QED BY <1>1, <1>4, <1>6, TextsKept DEF hist

\* Reads that were made of the service, and one that failed.
LEMMA ReadStep ==
    ASSUME DInv, Load \/ Rebase \/ RebaseFails \/ Refetch \/ RefetchEnds
    PROVE  DInv'
<1>1. UNCHANGED <<server, draft, timer, patch, orphans, hist>>
  BY DEF Load, Rebase, RebaseFails, Refetch, RefetchEnds
<1>2. Others
  <2>1. CASE Load
    BY <2>1 DEF Load, Others, hist, DInv, TypeOK, Read, ReadAs, ReadWith, Segment
  <2>2. CASE Rebase
    <3>1. draft \in Draft /\ draft.serverVersion \in Nat /\ draft.serverVersion > 0
      BY <2>2 DEF Rebase, Decidable, Unsaved, DInv, TypeOK, Draft
    <3> QED BY <2>2, <3>1 DEF Rebase, Others, hist, DInv, TypeOK, ReadAs, ReadWith, Segment
  <2>3. CASE RebaseFails
    BY <2>3, SavesAssumption DEF RebaseFails, Others, hist, DInv, TypeOK, ReadAs, ReadWith
  <2>4. CASE Refetch \/ RefetchEnds
    BY <2>4 DEF Refetch, RefetchEnds, Others, hist, DInv, TypeOK, ReadAs, ReadWith
  <2> QED BY <2>1, <2>2, <2>3, <2>4
<1>3. DraftIn(draft)' <=> DraftIn(draft)
  BY <1>1 DEF DraftIn, ReadWith, hist
<1>4. PatchIn(patch)' <=> PatchIn(patch)
  BY <1>1 DEF PatchIn, ReadWith, hist
<1>5. TypedKept'
  BY <1>1 DEF TypedKept, Unsaved, hist, DInv
<1> QED BY <1>1, <1>2, <1>3, <1>4, <1>5, Assembled DEF DInv, TypeOK

\* The user is shown the latest text, and the draft is still in conflict.
LEMMA LoadKeeps ==
    ASSUME DInv, LoadEnds
    PROVE  DInv'
<1>1. /\ load # None /\ load' = None
      /\ UNCHANGED <<server, timer, patch, orphans, rebase, view, refetch, hist, faults>>
  BY DEF LoadEnds
<1>2. Others
  BY <1>1 DEF Others, hist, DInv, TypeOK, ReadAs, ReadWith
<1>3. draft' \in Draft \cup {None} /\ Keeps(draft)
  <2>1. CASE draft' = draft
    BY <1>1, <2>1 DEF Keeps, DraftIn, PatchIn, ReadWith, hist, DInv, TypeOK
  <2>2. CASE draft' # draft
    <3>1. /\ draft \in Draft /\ DraftIn(draft)
          /\ load \in Read /\ ReadAs(load.segment)
      BY <1>1, <2>2 DEF LoadEnds, DInv, TypeOK
    <3>2. /\ draft'.st = "error" /\ draft'.text = draft.text /\ draft'.over = draft.over
          /\ draft'.version = draft.version /\ draft' \in Draft
          /\ \/ draft'.serverVersion = draft.serverVersion /\ draft'.shown = draft.shown
             \/ /\ draft'.serverVersion = load.segment.version
                /\ draft'.shown = load.segment.text
      <4>1. draft' \in {[draft EXCEPT !.st = "error", !.conflict = TRUE,
                                      !.serverVersion = load.segment.version,
                                      !.shown = load.segment.text],
                        [draft EXCEPT !.st = "error"]}
        BY <2>2 DEF LoadEnds
      <4>2. /\ draft.version \in Nat /\ draft.text \in Text /\ draft.over \in Text \cup {None}
            /\ draft.serverVersion \in Nat /\ draft.shown \in Text \cup {None}
            /\ draft.conflict \in BOOLEAN
        BY <3>1 DEF Draft
      <4>3. load.segment.version \in Nat /\ load.segment.text \in Text
        BY <3>1 DEF Read, Segment
      <4>4. draft = [text |-> draft.text, version |-> draft.version, st |-> draft.st,
                     conflict |-> draft.conflict, serverVersion |-> draft.serverVersion,
                     shown |-> draft.shown, over |-> draft.over]
        BY <3>1 DEF Draft
      <4>5. CASE draft' = [draft EXCEPT !.st = "error"]
        <5>1. draft' = [text |-> draft.text, version |-> draft.version, st |-> "error",
                        conflict |-> draft.conflict, serverVersion |-> draft.serverVersion,
                        shown |-> draft.shown, over |-> draft.over]
          BY <4>4, <4>5
        <5> HIDE DEF Text
        <5> QED BY <4>2, <5>1 DEF Draft
      <4>6. CASE draft' = [draft EXCEPT !.st = "error", !.conflict = TRUE,
                                        !.serverVersion = load.segment.version,
                                        !.shown = load.segment.text]
        <5>1. draft' = [text |-> draft.text, version |-> draft.version, st |-> "error",
                        conflict |-> TRUE, serverVersion |-> load.segment.version,
                        shown |-> load.segment.text, over |-> draft.over]
          BY <4>4, <4>6
        <5> HIDE DEF Text
        <5> QED BY <4>2, <4>3, <5>1 DEF Draft
      <4> QED BY <4>1, <4>5, <4>6
    <3>3. DraftIn(draft)'
      BY <1>1, <3>1, <3>2 DEF DraftIn, ReadAs, ReadWith, hist
    <3>4. PatchIn(patch)' <=> PatchIn(patch)
      BY <1>1 DEF PatchIn, ReadWith, hist
    <3> QED BY <1>1, <3>2, <3>3, <3>4, NoneAssumption DEF Keeps, Unsaved, DInv, TypeOK
  <2> QED BY <2>1, <2>2
<1> QED BY <1>1, <1>2, <1>3, TextsKept DEF hist

\* The user confirms the draft over the text it was compared with, or is shown the
\* later one.
LEMMA RebaseKeeps ==
    ASSUME DInv, RebaseEnds
    PROVE  DInv'
<1>1. /\ rebase # None /\ rebase' = None
      /\ rebase \in [segment : Segment, live : BOOLEAN, seen : Nat]
      /\ ReadAs(rebase.segment) /\ rebase.seen > 0
      /\ UNCHANGED <<server, orphans, load, view, refetch, hist, faults>>
  BY DEF RebaseEnds, DInv, TypeOK
<1>2. timer' \in BOOLEAN
  BY DEF RebaseEnds, DInv, TypeOK
<1>3. Others
  BY <1>1, <1>2 DEF Others, hist, DInv, TypeOK, ReadAs, ReadWith
<1>4. CASE Compared(draft)
  <2> DEFINE d == [draft EXCEPT !.version = rebase.segment.version, !.st = "waiting",
                                !.conflict = FALSE, !.serverVersion = 0,
                                !.shown = None, !.over = draft.shown]
  <2>1. /\ draft \in Draft /\ DraftIn(draft) /\ Flush(d)
        /\ draft.serverVersion = rebase.seen /\ rebase.segment.version = draft.serverVersion
    BY <1>4 DEF RebaseEnds, Compared, DInv, TypeOK
  <2>2. /\ d \in Draft /\ d.text = draft.text /\ d.st = "waiting" /\ ~d.conflict
        /\ d.serverVersion = 0 /\ d.over = draft.shown /\ d.version = draft.serverVersion
    BY <1>1, <2>1 DEF Draft, Segment
  <2> HIDE DEF d
  <2>3. DraftIn(d)
    BY <1>1, <2>1, <2>2 DEF DraftIn
  <2>4. Keeps(d)
    BY <1>1, <2>1, <2>2, <2>3, FlushKeeps DEF hist, DInv, TypeOK
  <2>5. Unsaved(d)
    BY <2>2, NoneAssumption DEF Unsaved
  <2> QED BY <1>1, <1>3, <2>2, <2>4, <2>5, TextsKept DEF hist
<1>5. CASE ~Compared(draft) /\ draft # None /\ rebase.live /\ draft.serverVersion = rebase.seen
  <2>1. /\ draft \in Draft /\ DraftIn(draft) /\ UNCHANGED patch
        /\ draft' = [draft EXCEPT !.serverVersion = rebase.segment.version,
                                  !.shown = rebase.segment.text]
    BY <1>5 DEF RebaseEnds, DInv, TypeOK
  <2>2. /\ draft' \in Draft /\ draft'.st = draft.st /\ draft'.text = draft.text
        /\ draft'.over = draft.over /\ draft'.version = draft.version
        /\ draft'.conflict = draft.conflict /\ draft'.serverVersion = rebase.segment.version
        /\ draft'.shown = rebase.segment.text
    BY <1>1, <2>1 DEF Draft, Segment
  <2>3. DraftIn(draft)'
    BY <1>1, <2>1, <2>2 DEF DraftIn, ReadAs, ReadWith, hist
  <2>4. PatchIn(patch)' <=> PatchIn(patch)
    BY <1>1, <2>1 DEF PatchIn, ReadWith, hist
  <2>5. Keeps(draft)
    BY <2>1, <2>2, <2>3, <2>4, NoneAssumption DEF Keeps, Unsaved, DInv, TypeOK
  <2> QED BY <1>1, <1>3, <2>5, TextsKept DEF hist
<1>6. CASE ~Compared(draft) /\ ~(draft # None /\ rebase.live /\ draft.serverVersion = rebase.seen)
  <2>1. UNCHANGED <<draft, patch>>
    BY <1>6 DEF RebaseEnds
  <2>2. Keeps(draft)
    BY <1>1, <2>1 DEF Keeps, DraftIn, PatchIn, ReadWith, hist, DInv, TypeOK
  <2> QED BY <1>1, <1>3, <2>2, TextsKept DEF hist
<1> QED BY <1>4, <1>5, <1>6

\* What the user discards is no longer typed; what is in flight finds no draft.
LEMMA DiscardKeeps ==
    ASSUME DInv, Discard
    PROVE  DInv'
<1>1. /\ draft \in Draft /\ draft' = None /\ timer' = FALSE /\ gone' = gone \cup draft.text
      /\ UNCHANGED <<server, orphans, view, typed, stored, faults>> /\ refetch' = server
  BY DEF Discard, Decidable, Unsaved, DInv, TypeOK
<1>2. gone' \in Text
  BY <1>1 DEF DInv, TypeOK, Draft, Text
<1>3. /\ load' \in Read \cup {None} /\ (load' # None => load' \in Read /\ load'.segment = load.segment)
      /\ load' # None => load # None
  BY DEF Discard, DInv, TypeOK, Read
<1>4. /\ rebase' \in [segment : Segment, live : BOOLEAN, seen : Nat] \cup {None}
      /\ rebase' # None =>
           rebase # None /\ rebase'.segment = rebase.segment /\ rebase'.seen = rebase.seen
  BY DEF Discard, DInv, TypeOK
<1>5. Others
  BY <1>1, <1>2, <1>3, <1>4 DEF Others, DInv, TypeOK, ReadAs, ReadWith
<1>6. patch' \in Patch \cup {None} /\ (patch' # None => PatchIn(patch)')
  <2>1. CASE patch = None
    BY <2>1 DEF Discard, DInv, TypeOK
  <2>2. CASE patch # None
    <3>1. patch \in Patch /\ PatchIn(patch) /\ patch' = [patch EXCEPT !.live = FALSE]
      BY <2>2 DEF Discard, DInv, TypeOK
    <3>2. /\ patch' \in Patch /\ patch'.st = patch.st /\ patch'.text = patch.text
          /\ patch'.reply = patch.reply /\ patch'.over = patch.over
          /\ patch'.version = patch.version
      BY <3>1 DEF Patch
    <3> QED BY <1>1, <3>1, <3>2 DEF PatchIn, ReadWith
  <2> QED BY <2>1, <2>2
<1>7. TypedKept'
  BY <1>1 DEF TypedKept, Unsaved, DInv
<1> QED BY <1>1, <1>5, <1>6, <1>7, Assembled

\* A draft that was not saved comes back after a reload.
LEMMA ReloadKeeps ==
    ASSUME DInv, Reload
    PROVE  DInv'
<1>1. /\ draft' = Restored /\ timer' = FALSE /\ patch' = None /\ load' = None /\ rebase' = None
      /\ view' = server /\ refetch' = None /\ UNCHANGED <<server, hist>>
  BY DEF Reload
<1>2. orphans' \subseteq [text : Text, version : Nat]
  <2>1. CASE patch # None
    <3>1. [text |-> patch.text, version |-> patch.version] \in [text : Text, version : Nat]
      BY <2>1 DEF Patch, DInv, TypeOK
    <3> QED BY <3>1 DEF Reload, DInv, TypeOK
  <2>2. CASE patch = None
    BY <2>2 DEF Reload, DInv, TypeOK
  <2> QED BY <2>1, <2>2
<1>3. Others
  <2>1. faults' \in 0..MaxFaults
    BY SavesAssumption DEF Reload, DInv, TypeOK
  <2> QED BY <1>1, <1>2, <2>1 DEF Others, hist, DInv, TypeOK
<1>4. CASE Unsaved(draft)
  <2>1. /\ draft \in Draft /\ DraftIn(draft)
        /\ draft' = [draft EXCEPT !.st = "error", !.over = None]
    BY <1>1, <1>4 DEF Restored, Unsaved, DInv, TypeOK
  <2>2. /\ draft' \in Draft /\ draft'.st = "error" /\ draft'.text = draft.text /\ draft'.over = None
        /\ draft'.serverVersion = draft.serverVersion /\ draft'.shown = draft.shown
    BY <2>1 DEF Draft
  <2>3. DraftIn(draft)'
    BY <1>1, <2>1, <2>2 DEF DraftIn, ReadWith, hist
  <2>4. TypedKept'
    BY <1>1, <2>2, NoneAssumption DEF TypedKept, Unsaved, hist, DInv
  <2> QED BY <1>1, <1>3, <2>2, <2>3, <2>4, Assembled
<1>5. CASE ~Unsaved(draft)
  <2>1. draft' = None
    BY <1>1, <1>5 DEF Restored
  <2>2. TypedKept'
    BY <1>1, <1>5 DEF TypedKept, hist, DInv
  <2> QED BY <1>1, <1>3, <2>1, <2>2, Assembled
<1> QED BY <1>4, <1>5

\* What the service does: its version grows with every text, so what was read stays
\* read.
Served ==
    /\ server' \in Segment /\ stored \subseteq stored' /\ stored' \in Text
    /\ server' = server \/ server'.version = server.version + 1
    /\ UNCHANGED <<draft, timer, load, rebase, view, refetch, typed, gone, faults>>

LEMMA ServedKeeps ==
    ASSUME DInv, Served, orphans' \subseteq [text : Text, version : Nat],
           patch' \in Patch \cup {None}, patch' # None => PatchIn(patch)'
    PROVE  DInv'
<1>1. server \in Segment /\ server.version \in Nat /\ server'.version \in Nat
  BY DEF Served, DInv, TypeOK, Segment
<1>2. Others
  BY <1>1 DEF Served, Others, DInv, TypeOK, ReadAs, ReadWith, Read, Segment
<1>3. draft' # None => DraftIn(draft)'
  BY <1>1 DEF Served, DraftIn, ReadWith, DInv, TypeOK, Draft
<1>4. TypedKept'
  BY DEF Served, TypedKept, Unsaved, DInv
<1> QED BY <1>2, <1>3, <1>4, Assembled DEF Served, DInv, TypeOK

\* A save in flight, while the service stores something else.
LEMMA PatchWaits ==
    ASSUME DInv, Served, UNCHANGED patch
    PROVE  patch' \in Patch \cup {None} /\ (patch' # None => PatchIn(patch)')
BY DEF Served, PatchIn, ReadWith, DInv, TypeOK, Patch, Segment

LEMMA ServiceStep ==
    ASSUME DInv, HandlePatch \/ ReadBack \/ HandleOrphan \/ OthersEdit
    PROVE  DInv'
<1>1. CASE HandlePatch
  <2>1. /\ patch \in Patch /\ PatchIn(patch) /\ patch.st = "sent"
        /\ patch.text \in Text /\ patch.version \in Nat
    BY <1>1 DEF HandlePatch, DInv, TypeOK, Patch
  <2>2. CASE Accepts(patch.version)
    <3>1. /\ server' = [version |-> server.version + 1, text |-> patch.text]
          /\ stored' = stored \cup patch.text /\ patch' = [patch EXCEPT !.st = "stored"]
      BY <1>1, <2>2 DEF HandlePatch, Store
    <3>2. Served
      BY <1>1, <2>1, <3>1 DEF HandlePatch, Served, DInv, TypeOK, Segment, Text
    <3>3. patch' \in Patch /\ patch'.st = "stored" /\ patch'.text = patch.text
      BY <2>1, <3>1 DEF Patch
    <3>4. PatchIn(patch)'
      BY <3>1, <3>3 DEF PatchIn
    <3> QED BY <1>1, <3>2, <3>3, <3>4, ServedKeeps DEF HandlePatch, DInv, TypeOK
  <2>3. CASE ~Accepts(patch.version)
    <3>1. UNCHANGED <<server, stored>> /\ patch' = [patch EXCEPT !.st = "refused"]
      BY <1>1, <2>3 DEF HandlePatch
    <3>2. Served
      BY <1>1, <3>1 DEF HandlePatch, Served, DInv, TypeOK
    <3>3. patch' \in Patch /\ patch'.st = "refused"
      BY <2>1, <3>1 DEF Patch
    <3>4. PatchIn(patch)'
      BY <3>3 DEF PatchIn
    <3> QED BY <1>1, <3>2, <3>3, <3>4, ServedKeeps DEF HandlePatch, DInv, TypeOK
  <2> QED BY <2>2, <2>3
<1>2. CASE ReadBack
  <2>1. /\ patch \in Patch /\ PatchIn(patch) /\ patch.st = "stored" /\ server \in Segment
        /\ patch' = [patch EXCEPT !.st = "answered", !.reply = server]
    BY <1>2 DEF ReadBack, DInv, TypeOK
  <2>2. /\ patch' \in Patch /\ patch'.st = "answered" /\ patch'.reply = server
        /\ patch'.text = patch.text
    BY <2>1 DEF Patch
  <2>3. Served
    BY <1>2 DEF ReadBack, Served, hist, DInv, TypeOK
  <2>4. PatchIn(patch)'
    BY <1>2, <2>1, <2>2 DEF ReadBack, PatchIn, hist
  <2> QED BY <1>2, <2>2, <2>3, <2>4, ServedKeeps DEF ReadBack, DInv, TypeOK
<1>3. CASE HandleOrphan
  <2>1. PICK o \in orphans :
            /\ orphans' = orphans \ {o}
            /\ IF Accepts(o.version) THEN Store(o.text) ELSE UNCHANGED <<server, stored>>
    BY <1>3 DEF HandleOrphan
  <2>2. o.text \in Text /\ o.version \in Nat
    BY <2>1 DEF DInv, TypeOK
  <2>3. Served /\ UNCHANGED patch
    BY <1>3, <2>1, <2>2 DEF HandleOrphan, Store, Served, DInv, TypeOK, Segment, Text
  <2> QED BY <2>1, <2>3, PatchWaits, ServedKeeps DEF DInv, TypeOK
<1>4. CASE OthersEdit
  <2>1. PICK k \in 1..MaxOthers :
            server' = [version |-> server.version + 1, text |-> server.text \cup {Other(k)}]
    BY <1>4 DEF OthersEdit
  <2>2. server' \in Segment /\ server'.version = server.version + 1
    BY <2>1 DEF DInv, TypeOK, Segment, Text, Edits
  <2>3. Served /\ UNCHANGED <<patch, orphans>>
    BY <1>4, <2>2 DEF OthersEdit, hist, Served, DInv, TypeOK
  <2> QED BY <2>3, PatchWaits, ServedKeeps DEF DInv, TypeOK
<1> QED BY <1>1, <1>2, <1>3, <1>4

-----------------------------------------------------------------------------
LEMMA DraftsStart == Init => DInv
<1> SUFFICES ASSUME Init PROVE DInv
  OBVIOUS
<1>1. {} \in Text /\ server \in Segment /\ view \in Segment
  <2>1. {} \in Text
    BY DEF Text
  <2>2. [version |-> 1, text |-> {}] \in Segment
    BY <2>1 DEF Segment
  <2> QED BY <2>1, <2>2 DEF Init
<1>2. typed \in 0..MaxEdits /\ faults \in 0..MaxFaults
  BY SavesAssumption DEF Init
<1>3. TypeOK
  BY <1>1, <1>2 DEF Init, TypeOK
<1>4. TypedKept
  BY DEF Init, TypedKept
<1> QED BY <1>3, <1>4 DEF Init, DInv

LEMMA DraftsStep == DInv /\ [Next]_vars => DInv'
<1> SUFFICES ASSUME DInv, [Next]_vars PROVE DInv'
  OBVIOUS
<1>1. CASE UNCHANGED vars
  <2>1. UNCHANGED <<server, draft, timer, patch, orphans, load, rebase, view, refetch, typed, gone,
                    stored, faults>>
    BY <1>1 DEF vars
  <2>2. Served
    BY <2>1 DEF Served, DInv, TypeOK
  <2> QED BY <2>1, <2>2, PatchWaits, ServedKeeps DEF DInv, TypeOK
<1> QED BY <1>1, TypeKeeps, FlushStep, SaveEnds, SaveFails, ReadStep, LoadKeeps, RebaseKeeps,
           DiscardKeeps, ReloadKeeps, ServiceStep DEF Next

\* The text a confirmed draft replaces is the one the user compared it with.
LEMMA ReplacesRead ==
    ASSUME DInv, [Next]_vars
    PROVE  patch # None /\ patch.st = "sent" /\ patch.over # None /\ server' # server
              /\ patch' = [patch EXCEPT !.st = "stored"] => server.text = patch.over
<1> SUFFICES ASSUME patch # None, patch.st = "sent", patch.over # None, server' # server,
                    patch' = [patch EXCEPT !.st = "stored"]
             PROVE  server.text = patch.over
  OBVIOUS
<1>1. patch \in Patch /\ PatchIn(patch)
  BY DEF DInv, TypeOK
<1>2. patch' # patch
  BY <1>1 DEF Patch
<1>3. HandlePatch
  BY <1>2 DEF Next, vars, Type, TimerFires, RetrySave, SaveSucceeds, SaveRefused, SaveLost, Load,
     LoadEnds, Rebase, RebaseEnds, RebaseFails, Discard, Refetch, RefetchEnds, Reload, ReadBack,
     HandleOrphan, OthersEdit
<1>4. Accepts(patch.version)
  BY <1>3 DEF HandlePatch
<1> QED BY <1>1, <1>4 DEF Accepts, PatchIn, ReadWith

LEMMA ShownAsSaved == DInv => SavedIsStored
BY DEF DInv, DraftIn, SavedIsStored

\* Nothing typed is lost: an edit is in the draft, stored or discarded by the user,
\* and what the page shows as saved is stored, through any number of edits, overlapping
\* saves, conflicts, lost answers and reloads (transcriptSaves.ts).
THEOREM NothingTypedIsLost == Spec => [](TypedKept /\ SavedIsStored)
<1>1. DInv => TypedKept /\ SavedIsStored
  BY ShownAsSaved DEF DInv
<1> QED BY <1>1, DraftsStart, DraftsStep, PTL DEF Spec

\* A draft that the user confirms over the text of the service replaces the text it was
\* compared with and no later one (saveRebasedTranscriptDraft and edit_segment).
THEOREM ReplacesWhatWasCompared == Spec => RebasedOverCompared
<1>1. DInv /\ [Next]_vars =>
        [patch # None /\ patch.st = "sent" /\ patch.over # None /\ server' # server
            /\ patch' = [patch EXCEPT !.st = "stored"] => server.text = patch.over]_vars
  BY ReplacesRead
<1> QED BY <1>1, DraftsStart, DraftsStep, PTL DEF Spec, RebasedOverCompared

\* The same in the run that composes the pages: no page that follows a job, and no
\* window that edits a transcript, touches the drafts.
THEOREM DraftsKeptBesideOthers == BrowserSpec => []DraftKept
<1>1. BrowserInit => DInv
  BY DraftsStart DEF BrowserInit
<1>2. DInv /\ [BrowserNext]_browserVars => DInv'
  BY DraftsStep DEF BrowserNext, SavesStep, HistoryStep, EventsStep, browserVars
<1>3. DInv => DraftKept
  BY ShownAsSaved DEF DInv, DraftKept
<1> QED BY <1>1, <1>2, <1>3, PTL DEF BrowserSpec
-----------------------------------------------------------------------------
(* What a page is told of its job.                                          *)

\* The log is the last numbers given.
LogIn ==
    /\ log \in Seq(Nat) /\ sequence \in Nat /\ Len(log) <= sequence
    /\ sequence > 0 => Len(log) > 0
    /\ \A i \in 1..Len(log) : log[i] = sequence - Len(log) + i

\* b follows a, or all that lies between them is no longer in the log.
Follow(a, b) == a < b /\ (b = a + 1 \/ b <= sequence - Len(log) + 1)

StreamIn ==
    /\ wire \in Seq(Nat) /\ seen \in Nat
    /\ stream \in [at : {"closed", "reads", "checks"}, cursor : Nat, empty : BOOLEAN]
    /\ stream.at = "closed" => stream = NoStream
    /\ shown \in Terminal => stream = NoStream /\ wire = <<>>

\* The path of what was sent: from what was seen, or from the start, to the cursor of
\* an open stream.
PathIn ==
    /\ stream # NoStream =>
        /\ stream.cursor <= sequence
        /\ stream.cursor = IF wire = <<>> THEN seen ELSE wire[Len(wire)]
    /\ wire # <<>> /\ wire[1] # Reset => Follow(seen, wire[1])
    /\ \A i \in 1..Len(wire) : wire[i] <= sequence /\ (i < Len(wire) => Follow(wire[i], wire[i + 1]))

\* Up to a number of this process the page was told of what the log has; a number of an
\* earlier one is passed over, or the page starts over.
ToldIn ==
    /\ told \subseteq Nat /\ foreign \in BOOLEAN /\ skipped \in Nat
    /\ ~foreign => /\ seen <= sequence
                   /\ \A n \in Nat : sequence - Len(log) < n /\ n <= seen => n \in told \/ n <= skipped
    /\ foreign /\ (stream # NoStream \/ wire # <<>>) /\ (wire # <<>> => wire[1] # Reset) => seen <= skipped

Turned == {"cancelled", "pending", "paused"}
Phases == {"idle", "starts", "runs", "ends"} \cup Turned
Kinds == Closing \cup {"checkpoint_started", "activity", "job_resumed", "job_failed", "none"}
OwnerIn ==
    /\ budget \in [runs : 0..MaxRuns, mishaps : 0..MaxMishaps]
    /\ executor \in [run : Nat, phase : Phases, events : Seq(Kinds)]
    /\ owner \in Nat /\ activity \in Nat
    /\ \A call \in calls : call.kind \in Kinds \ {"checkpoint_started", "activity"}

\* What the run under way has to publish, and whose activity may be shown.
RunIn ==
    /\ executor.phase \in {"idle"} \cup Turned => executor.run = NoRun /\ executor.events = <<>>
    /\ executor.phase = "starts" => executor.events = <<"checkpoint_started">>
    /\ executor.phase = "runs" => executor.events = <<>>
    /\ executor.phase = "ends" =>
         executor.events # <<>> /\ \A i \in 1..Len(executor.events) : executor.events[i] \in Closing
    /\ executor.phase \in {"starts", "runs", "ends"} => executor.run # NoRun
    /\ executor.phase \in {"runs", "ends"} => owner \in {NoRun, executor.run}
    /\ activity # NoRun => activity = owner

EInv == LogIn /\ StreamIn /\ PathIn /\ ToldIn /\ OwnerIn /\ RunIn

-----------------------------------------------------------------------------
LEMMA EventsStart ==
    ASSUME JobEventsInit
    PROVE  EInv
<1>0. log = <<>> /\ wire = <<>> /\ sequence = 0 /\ seen = 0 /\ stream = NoStream /\ shown \notin Terminal
      /\ told = {} /\ foreign = FALSE /\ skipped = 0
  BY DEF JobEventsInit, Terminal
<1>1. LogIn /\ StreamIn /\ PathIn /\ ToldIn
  <2>1. LogIn /\ StreamIn /\ PathIn
    BY <1>0, EmptySeq DEF LogIn, StreamIn, PathIn, NoStream
  <2>2. Len(log) = 0 /\ ~\E n \in Nat : sequence - Len(log) < n /\ n <= 0
    BY <1>0, EmptySeq
  <2>3. ToldIn
    <3>0. told \subseteq Nat /\ skipped \in Nat /\ seen <= sequence
      BY <1>0
    <3>3. ~foreign /\ foreign \in BOOLEAN
      BY <1>0, Zenon
    <3>1. told \subseteq Nat /\ skipped \in Nat /\ ~foreign /\ foreign \in BOOLEAN /\ seen <= sequence
      BY <3>0, <3>3
    <3>2. \A n \in Nat : ~(sequence - Len(log) < n /\ n <= seen)
      BY <1>0, <2>2
    <3> QED BY <3>1, <3>2 DEF ToldIn
  <2> QED BY <2>1, <2>3
<1>2. OwnerIn
  BY EmptySeq, EventsAssumption DEF JobEventsInit, OwnerIn, Idle, NoRun, Phases
<1>3. RunIn
  BY DEF JobEventsInit, RunIn, Idle, NoRun, Turned
<1> QED BY <1>1, <1>2, <1>3 DEF EInv

-----------------------------------------------------------------------------
(* The log and the path.                                                    *)

LEMMA LogKept ==
    ASSUME LogIn, NEW kind, NEW run, Publish(kind, run)
    PROVE  /\ LogIn' /\ sequence' >= sequence
           /\ sequence' - Len(log') >= sequence - Len(log)
<1>1. CASE Superseded(kind, run)
  BY <1>1 DEF Publish, brokerVars, LogIn
<1>2. CASE ~Superseded(kind, run)
  <2> DEFINE longer == Append(log, sequence + 1)
  <2>1. /\ sequence' = sequence + 1
        /\ log' = SubSeq(longer, IF Len(longer) > Retained THEN 2 ELSE 1, Len(longer))
    BY <1>2 DEF Publish, Kept
  <2>2. /\ longer \in Seq(Nat) /\ Len(longer) = Len(log) + 1
        /\ \A i \in 1..Len(longer) : longer[i] = sequence - Len(log) + i
    BY AppendProperties DEF LogIn
  <2>3. CASE Len(longer) > Retained
    <3>1. log' = SubSeq(longer, 2, Len(longer)) /\ Len(log) >= 1
      <4>1. Len(log) \in Nat
        BY DEF LogIn
      <4> HIDE DEF longer
      <4>2. Len(log) >= 1
        BY <4>1, <2>2, <2>3, EventsAssumption
      <4> QED BY <2>1, <2>3, <4>2
    <3> HIDE DEF longer
    <3>2. /\ log' \in Seq(Nat) /\ Len(log') = Len(log)
          /\ \A i \in 1..Len(log') : log'[i] = longer[i + 1]
      BY <3>1, <2>2, SubSeqProperties DEF LogIn
    <3>3. /\ Len(log) \in Nat /\ sequence \in Nat /\ Len(log) <= sequence
          /\ Len(log') \in Nat /\ sequence' = sequence + 1 /\ Len(longer) = Len(log) + 1
      BY <2>1, <2>2, <3>2 DEF LogIn
    <3>4. ASSUME NEW i \in 1..Len(log')
          PROVE  log'[i] = sequence' - Len(log') + i
      <4>1. i + 1 \in 1..Len(longer)
        BY <3>2, <3>3
      <4>2. longer[i + 1] = sequence - Len(log) + (i + 1) /\ log'[i] = longer[i + 1]
        BY <4>1, <2>2, <3>2
      <4> QED BY <4>2, <3>2, <3>3
    <3>5. Len(log') = Len(log) /\ Len(log) >= 1 /\ log' \in Seq(Nat)
      BY <3>1, <3>2
    <3> QED BY <3>3, <3>4, <3>5 DEF LogIn
  <2>4. CASE ~(Len(longer) > Retained)
    <3>1. log' = SubSeq(longer, 1, Len(longer))
      BY <2>1, <2>4
    <3> HIDE DEF longer
    <3>2. /\ log' \in Seq(Nat) /\ Len(log') = Len(log) + 1
          /\ \A i \in 1..Len(log') : log'[i] = longer[i]
      BY <3>1, <2>2, SubSeqProperties DEF LogIn
    <3>3. /\ Len(log) \in Nat /\ sequence \in Nat /\ Len(log) <= sequence
          /\ Len(log') \in Nat /\ sequence' = sequence + 1 /\ Len(longer) = Len(log) + 1
      BY <2>1, <2>2, <3>2 DEF LogIn
    <3>4. ASSUME NEW i \in 1..Len(log')
          PROVE  log'[i] = sequence' - Len(log') + i
      <4>1. longer[i] = sequence - Len(log) + i /\ log'[i] = longer[i]
        BY <2>2, <3>2, <3>3
      <4> QED BY <4>1, <3>2, <3>3
    <3> QED BY <3>2, <3>3, <3>4 DEF LogIn
  <2> QED BY <2>3, <2>4
<1> QED BY <1>1, <1>2

\* The path stays one while the log goes on.
LEMMA PathKept ==
    ASSUME LogIn, LogIn', StreamIn, PathIn, UNCHANGED <<stream, wire, seen>>,
           sequence' >= sequence, sequence' - Len(log') >= sequence - Len(log)
    PROVE  PathIn'
<1>1. \A a, b \in Nat : Follow(a, b) => Follow(a, b)'
  BY DEF Follow, LogIn
<1>2. /\ wire \in Seq(Nat) /\ seen \in Nat /\ stream.cursor \in Nat
      /\ sequence \in Nat /\ sequence' \in Nat
  BY DEF StreamIn, LogIn
<1>3. \A i \in 1..Len(wire) : wire[i] \in Nat /\ (i < Len(wire) => wire[i + 1] \in Nat)
  BY <1>2
<1>4. wire # <<>> => wire[1] \in Nat
  BY <1>2, EmptySeq
<1> HIDE DEF Follow
<1>5. stream # NoStream => stream'.cursor <= sequence' /\ stream'.cursor = IF wire' = <<>> THEN seen' ELSE wire'[Len(wire')]
  BY <1>2 DEF PathIn
<1>6. wire # <<>> /\ wire[1] # Reset => Follow(seen, wire[1])'
  BY <1>1, <1>2, <1>4 DEF PathIn
<1>7. ASSUME NEW i \in 1..Len(wire)
      PROVE  wire[i] <= sequence' /\ (i < Len(wire) => Follow(wire[i], wire[i + 1])')
  <2>1. wire[i] \in Nat /\ wire[i] <= sequence /\ (i < Len(wire) => wire[i + 1] \in Nat /\ Follow(wire[i], wire[i + 1]))
    BY <1>3 DEF PathIn
  <2> QED BY <1>1, <1>2, <2>1
<1> QED BY <1>5, <1>6, <1>7 DEF PathIn

LEMMA ToldKept ==
    ASSUME LogIn, LogIn', StreamIn, ToldIn, UNCHANGED <<stream, wire, seen, told, foreign, skipped>>,
           sequence' >= sequence, sequence' - Len(log') >= sequence - Len(log)
    PROVE  ToldIn'
<1>1. seen \in Nat /\ sequence \in Nat /\ sequence' \in Nat /\ Len(log) \in Nat /\ Len(log') \in Nat
  BY DEF StreamIn, LogIn
<1>2. ~foreign => seen <= sequence'
  BY <1>1 DEF ToldIn
<1>3. ASSUME ~foreign, NEW n \in Nat, sequence' - Len(log') < n, n <= seen PROVE n \in told \/ n <= skipped
  BY <1>1, <1>3 DEF ToldIn
<1> QED BY <1>2, <1>3 DEF ToldIn

LEMMA PathSame ==
    ASSUME PathIn, UNCHANGED <<stream, wire, seen, log, sequence>>
    PROVE  PathIn'
BY DEF PathIn, Follow

LEMMA ToldSame ==
    ASSUME ToldIn, UNCHANGED <<stream, wire, seen, told, foreign, skipped, log, sequence>>
    PROVE  ToldIn'
BY DEF ToldIn

\* What follows a cursor in the log.
LEMMA Later ==
    ASSUME LogIn, NEW cursor \in Nat, cursor <= sequence
    PROVE  LET rest == After(cursor)
           IN  /\ rest \in Seq(Nat)
               /\ rest = <<>> => cursor = sequence
               /\ rest # <<>> => Follow(cursor, rest[1]) /\ rest[Len(rest)] = LastNumber
               /\ \A i \in 1..Len(rest) : rest[i] <= sequence /\ (i < Len(rest) => Follow(rest[i], rest[i + 1]))
<1> DEFINE later == {i \in 1..Len(log) : log[i] > cursor}
           base == sequence - Len(log)
           first == IF cursor > base THEN cursor - base + 1 ELSE 1
<1>0. DOMAIN log = 1..Len(log) /\ Len(log) \in Nat
  BY DEF LogIn
<1>1. CASE later = {}
  <2>1. After(cursor) = <<>>
    BY <1>0, <1>1 DEF After
  <2>2. cursor = sequence
    BY <1>0, <1>1 DEF LogIn
  <2> QED BY <2>1, <2>2, EmptySeq
<1>2. CASE later # {}
  <2>1. /\ first \in 1..Len(log) /\ first \in later /\ \A j \in later : first <= j
    <3>1. PICK k \in 1..Len(log) : log[k] > cursor
      BY <1>2
    <3>2. /\ log[k] = base + k /\ base \in Nat
          /\ \A i \in 1..Len(log) : log[i] = base + i
      BY <1>0 DEF LogIn
    <3> HIDE DEF base
    <3>3. first \in 1..Len(log)
      BY <3>1, <3>2, <1>0
    <3>4. log[first] > cursor
      BY <3>2, <3>3, <1>0
    <3>5. ASSUME NEW j \in later PROVE first <= j
      BY <3>2, <1>0
    <3> QED BY <3>3, <3>4, <3>5
  <2>2. (CHOOSE i \in later : \A j \in later : i <= j) = first
    <3> HIDE DEF first
    <3>1. \A i \in later : (\A j \in later : i <= j) => i = first
      BY <2>1
    <3> QED BY <2>1, <3>1
  <2>3. After(cursor) = SubSeq(log, first, Len(log))
    BY <1>0, <1>2, <2>2 DEF After
  <2> DEFINE rest == After(cursor)
  <2>4. /\ rest \in Seq(Nat) /\ Len(rest) = Len(log) - first + 1
        /\ \A i \in 1..Len(rest) : rest[i] = log[first + i - 1]
    <3> HIDE DEF first
    <3> QED BY <2>1, <2>3, <1>0, SubSeqProperties DEF LogIn
  <2>5. /\ Len(rest) >= 1 /\ \A i \in 1..Len(rest) : rest[i] = base + first + i - 1
    <3> HIDE DEF rest, first
    <3>1. first \in 1..Len(log) /\ Len(log) \in Nat /\ Len(rest) = Len(log) - first + 1
      BY <2>1, <2>4, <1>0
    <3>2. Len(rest) >= 1
      BY <3>1
    <3>3. ASSUME NEW i \in 1..Len(rest) PROVE rest[i] = base + first + i - 1
      <4>1. first + i - 1 \in 1..Len(log)
        BY <3>1
      <4>2. log[first + i - 1] = sequence - Len(log) + (first + i - 1)
        BY <4>1 DEF LogIn
      <4>3. sequence \in Nat
        BY DEF LogIn
      <4> QED BY <2>4, <3>1, <4>2, <4>3
    <3> QED BY <3>2, <3>3
  <2>6. rest[1] = base + first /\ rest[Len(rest)] = sequence /\ LastNumber = sequence
    <3>1. rest[1] = base + first /\ rest[Len(rest)] = base + first + Len(rest) - 1
      <4>1. base \in Int /\ first \in Int /\ 1 \in 1..Len(rest) /\ Len(rest) \in 1..Len(rest)
        <5>1. base \in Int
          BY <1>0 DEF LogIn
        <5> HIDE DEF rest, first, base
        <5> QED BY <2>1, <2>4, <2>5, <1>0, <5>1
      <4> HIDE DEF rest, first, base
      <4> QED BY <2>5, <4>1
    <3>2. LastNumber = sequence
      BY <2>1, <1>0 DEF LastNumber, LogIn
    <3> HIDE DEF rest, first
    <3> QED BY <3>1, <3>2, <2>1, <2>4, <1>0 DEF LogIn
  <2>7. Follow(cursor, rest[1])
    <3> HIDE DEF rest
    <3> QED BY <2>1, <2>6, <1>0 DEF Follow, LogIn
  <2>8. \A i \in 1..Len(rest) : rest[i] <= sequence /\ (i < Len(rest) => Follow(rest[i], rest[i + 1]))
    <3>1. base \in Int
      BY <1>0 DEF LogIn
    <3> HIDE DEF rest, first, base
    <3>2. ASSUME NEW i \in 1..Len(rest), i < Len(rest) PROVE Follow(rest[i], rest[i + 1])
      <4>1. i + 1 \in 1..Len(rest) /\ i \in Int
        BY <3>2, <2>4
      <4>2. rest[i] = base + first + i - 1 /\ rest[i + 1] = base + first + (i + 1) - 1
        BY <4>1, <2>5
      <4> QED BY <4>1, <4>2, <2>1, <3>1, <1>0 DEF Follow
    <3>3. ASSUME NEW i \in 1..Len(rest) PROVE rest[i] <= sequence
      <4>1. rest[i] = base + first + i - 1 /\ i <= Len(log) - first + 1 /\ first \in Int /\ i \in Int
        BY <2>1, <2>4, <2>5, <1>0
      <4>2. base + Len(log) = sequence /\ Len(log) \in Int /\ sequence \in Int
        BY <1>0 DEF LogIn, base
      <4> QED BY <3>1, <4>1, <4>2
    <3> QED BY <3>2, <3>3
  <2>9. rest # <<>>
    <3> HIDE DEF rest, first
    <3> QED BY <2>4, <2>5, EmptySeq
  <2> HIDE DEF first
  <2> QED BY <2>4, <2>6, <2>7, <2>8, <2>9
<1> QED BY <1>1, <1>2

-----------------------------------------------------------------------------
(* The steps that publish: the owner and the run.                           *)

LEMMA OwnerKept ==
    ASSUME OwnerIn, NEW kind \in Kinds, NEW run \in Nat, Publish(kind, run)
    PROVE  owner' \in Nat /\ activity' \in Nat
BY DEF Publish, OwnerIn, brokerVars, NoRun

LEMMA RunStarts ==
    ASSUME OwnerIn, RunIn, StartRun
    PROVE  OwnerIn' /\ RunIn'
<1>1. /\ executor.phase = "idle" /\ budget.runs \in 1..MaxRuns
      /\ MaxRuns - budget.runs + 1 \in Nat \ {0}
      /\ UNCHANGED <<calls, owner, activity>>
  BY EventsAssumption DEF StartRun, Idle, OwnerIn, RunIn, brokerVars, NoRun
<1>2. <<"checkpoint_started">> \in Seq(Kinds)
  BY DEF Kinds
<1>3. budget' \in [runs : 0..MaxRuns, mishaps : 0..MaxMishaps]
  <2>1. budget \in [runs : 0..MaxRuns, mishaps : 0..MaxMishaps] /\ budget' = [budget EXCEPT !.runs = @ - 1]
    BY DEF StartRun, OwnerIn
  <2>2. budget.runs - 1 \in 0..MaxRuns
    BY <1>1, EventsAssumption
  <2> QED BY <2>1, <2>2
<1>4. executor' \in [run : Nat, phase : Phases, events : Seq(Kinds)]
  BY <1>1, <1>2 DEF StartRun, Phases
<1>5. OwnerIn'
  BY <1>1, <1>3, <1>4 DEF OwnerIn
<1>6. RunIn'
  BY <1>1 DEF StartRun, RunIn, NoRun, Turned
<1> QED BY <1>5, <1>6

\* Nothing is published of a run: the executor waits, or what it does is no part of it.
LEMMA RunUndisturbed ==
    ASSUME OwnerIn, RunIn, UNCHANGED executor,
           UNCHANGED <<owner, activity>> \/ (owner' = NoRun /\ activity' = NoRun)
    PROVE  RunIn' /\ owner' \in Nat /\ activity' \in Nat
BY DEF RunIn, OwnerIn, NoRun

LEMMA ReportKeeps ==
    ASSUME OwnerIn, RunIn, NEW run \in 1..MaxRuns, Report(run)
    PROVE  OwnerIn' /\ RunIn'
<1>1. UNCHANGED <<executor, calls, budget, owner>> /\ run \in Nat /\ run # NoRun
  BY EventsAssumption DEF Report, Publish, brokerVars, Closing, NoRun
<1>2. activity' = activity \/ (activity' = run /\ run = owner)
  BY DEF Report, Publish, Superseded, brokerVars
<1>3. OwnerIn'
  BY <1>1, <1>2 DEF OwnerIn
<1>4. RunIn'
  BY <1>1, <1>2 DEF OwnerIn, RunIn, NoRun, Report
<1> QED BY <1>3, <1>4

LEMMA RefusalKeeps ==
    ASSUME OwnerIn, RunIn, CommitRefusal \/ \E kind \in Refused : Refuse(kind)
    PROVE  OwnerIn' /\ RunIn'
<1>1. ASSUME NEW kind \in Refused, Refuse(kind) PROVE OwnerIn' /\ RunIn'
  <2>1. UNCHANGED <<calls, budget>> /\ owner' = NoRun /\ activity' = NoRun /\ executor = Idle
    BY <1>1 DEF Refuse, Refused, Publish, Superseded, Closing
  <2>2. executor' = Idle \/ \E phase \in Turned : executor' = [run |-> NoRun, phase |-> phase, events |-> <<>>]
    BY <1>1 DEF Refuse, Refused, Refusals, Turned, Idle
  <2>3. executor' \in [run : Nat, phase : Phases, events : Seq(Kinds)]
    <3>1. <<>> \in Seq(Kinds) /\ NoRun \in Nat
      BY EmptySeq DEF NoRun
    <3>2. Turned \subseteq Phases /\ "idle" \in Phases
      BY DEF Phases
    <3>3. \A phase \in Phases : [run |-> NoRun, phase |-> phase, events |-> <<>>]
                                   \in [run : Nat, phase : Phases, events : Seq(Kinds)]
      BY <3>1
    <3>4. \E phase \in Phases : executor' = [run |-> NoRun, phase |-> phase, events |-> <<>>]
      BY <2>2, <3>2 DEF Idle
    <3> QED BY <3>3, <3>4
  <2>4. OwnerIn'
    BY <2>1, <2>3 DEF OwnerIn, NoRun
  <2>5. RunIn'
    BY <2>1, <2>2 DEF RunIn, NoRun, Idle, Turned
  <2> QED BY <2>4, <2>5
<1>2. CASE CommitRefusal
  <2>1. UNCHANGED <<calls, budget, owner, activity>> /\ executor' = Idle
    BY <1>2 DEF CommitRefusal, brokerVars
  <2> QED BY <2>1, EmptySeq DEF OwnerIn, RunIn, NoRun, Idle, Phases, Turned
<1> QED BY <1>1, <1>2

\* A run that breaks off leaves its activity to the next one.
LEMMA BreakKeeps ==
    ASSUME OwnerIn, RunIn, BreakOff
    PROVE  OwnerIn' /\ RunIn'
<1>1. UNCHANGED <<owner, activity>> /\ executor' = Idle
  BY DEF BreakOff, brokerVars
<1>2. budget' \in [runs : 0..MaxRuns, mishaps : 0..MaxMishaps]
  BY EventsAssumption DEF BreakOff, OwnerIn
<1>3. \A call \in calls' : call.kind \in Kinds \ {"checkpoint_started", "activity"}
  BY DEF BreakOff, OwnerIn, Kinds, Closing
<1> QED BY <1>1, <1>2, <1>3, EmptySeq DEF OwnerIn, RunIn, NoRun, Idle, Phases, Turned

LEMMA FinishKeeps ==
    ASSUME OwnerIn, RunIn, NEW outcome \in {"completed", "failed", "yielded"}, NEW last \in BOOLEAN,
           FinishRun(outcome, last)
    PROVE  OwnerIn' /\ RunIn'
<1>1. UNCHANGED <<calls, budget, owner, activity>> /\ executor.phase = "runs"
  BY DEF FinishRun, brokerVars
<1>2. PICK published \in Seq(Closing) :
         /\ published # <<>>
         /\ executor' = [executor EXCEPT !.phase = "ends", !.events = published]
  <2> DEFINE kind == [completed |-> "checkpoint_completed", failed |-> "checkpoint_failed",
                      yielded |-> "checkpoint_yielded"][outcome]
             ended == IF outcome = "completed" /\ status' = "cancelled" THEN <<"job_cancelled">>
                      ELSE IF outcome = "completed" /\ status' = "completed" THEN <<"job_completed">> ELSE <<>>
             first == <<kind>>
             all == first \o ended
  <2>1. kind \in Closing /\ {"job_cancelled", "job_completed"} \subseteq Closing
    BY DEF Closing
  <2> HIDE DEF kind
  <2>2. first \in Seq(Closing) /\ Len(first) = 1
    BY <2>1
  <2>3. ended \in Seq(Closing)
    BY <2>1, EmptySeq
  <2>4. executor' = [executor EXCEPT !.phase = "ends", !.events = all]
    BY DEF FinishRun, Ended, kind
  <2> HIDE DEF first, ended, all
  <2>5. all \in Seq(Closing) /\ Len(all) = 1 + Len(ended) /\ Len(ended) \in Nat
    <3>1. Len(ended) \in Nat
      BY <2>3
    <3>2. all \in Seq(Closing) /\ Len(all) = Len(first) + Len(ended)
      BY <2>2, <2>3, ConcatProperties DEF all
    <3> QED BY <2>2, <3>1, <3>2
  <2>6. all # <<>>
    BY <2>5, EmptySeq
  <2> QED BY <2>4, <2>5, <2>6
<1>3. published \in Seq(Kinds) /\ \A i \in 1..Len(published) : published[i] \in Closing
  BY DEF Kinds
<1>4. OwnerIn'
  BY <1>1, <1>2, <1>3 DEF OwnerIn, Phases
<1>5. RunIn'
  BY <1>1, <1>2, <1>3 DEF RunIn, OwnerIn, Turned
<1> QED BY <1>4, <1>5

LEMMA PublishKeeps ==
    ASSUME OwnerIn, RunIn, PublishNext
    PROVE  OwnerIn' /\ RunIn'
<1> DEFINE kind == Head(executor.events)
<1>0. /\ executor.events \in Seq(Kinds) /\ executor.events # <<>> /\ kind \in Kinds
      /\ Publish(kind, executor.run) /\ UNCHANGED <<calls, budget>> /\ executor.run \in Nat
      /\ kind = executor.events[1] /\ 1 \in 1..Len(executor.events)
  BY EmptySeq, HeadTailProperties DEF PublishNext, OwnerIn
<1>1. owner' \in Nat /\ activity' \in Nat
  BY <1>0, OwnerKept
<1>2. CASE executor.phase = "starts"
  <2>1. executor.events = <<"checkpoint_started">> /\ kind = "checkpoint_started" /\ Len(executor.events) = 1
    <3>1. executor.events = <<"checkpoint_started">>
      BY <1>2 DEF RunIn
    <3>2. Len(<<"checkpoint_started">>) = 1 /\ <<"checkpoint_started">>[1] = "checkpoint_started"
      OBVIOUS
    <3> QED BY <3>1, <3>2, <1>0
  <2>2. executor' = [executor EXCEPT !.phase = "runs", !.events = <<>>]
    BY <1>2, <2>1 DEF PublishNext
  <2>3. owner' = executor.run /\ activity' = NoRun
    BY <1>0, <2>1 DEF Publish, Superseded
  <2>4. OwnerIn'
    BY <1>0, <1>1, <2>2, EmptySeq DEF OwnerIn, Phases
  <2>5. RunIn'
    BY <1>2, <2>2, <2>3 DEF RunIn, OwnerIn, Turned
  <2> QED BY <2>4, <2>5
<1>3. CASE executor.phase = "ends"
  <2>1. kind \in Closing
    BY <1>0, <1>3 DEF RunIn
  <2>2. owner' = NoRun /\ activity' = NoRun
    <3>1. owner \in {NoRun, executor.run} /\ kind # "checkpoint_started" /\ kind # "activity"
      BY <2>1, <1>3 DEF RunIn, Closing
    <3>2. ~Superseded(kind, executor.run)
      BY <3>1 DEF Superseded
    <3> QED BY <3>1, <3>2, <2>1, <1>0 DEF Publish
  <2>3. CASE Len(executor.events) > 1
    <3> DEFINE rest == Tail(executor.events)
    <3>1. executor' = [executor EXCEPT !.events = rest]
      BY <2>3 DEF PublishNext
    <3>2. /\ rest \in Seq(Kinds)
          /\ Len(rest) = Len(executor.events) - 1 /\ Len(executor.events) \in Nat
          /\ \A i \in 1..Len(rest) : rest[i] = executor.events[i + 1]
      BY <1>0, HeadTailProperties
    <3> HIDE DEF rest
    <3>3. rest # <<>>
      BY <2>3, <3>2, EmptySeq
    <3>4. \A i \in 1..Len(rest) : rest[i] \in Closing
      BY <3>2, <1>3 DEF RunIn
    <3>5. OwnerIn'
      BY <1>0, <1>1, <3>1, <3>2 DEF OwnerIn
    <3>6. RunIn'
      BY <1>3, <2>2, <3>1, <3>3, <3>4 DEF RunIn, OwnerIn, Turned
    <3> QED BY <3>5, <3>6
  <2>4. CASE ~(Len(executor.events) > 1)
    <3>1. executor' = Idle
      BY <2>4, <1>3 DEF PublishNext
    <3> QED BY <1>0, <1>1, <2>2, <3>1, EmptySeq DEF OwnerIn, RunIn, Idle, NoRun, Phases, Turned
  <2> QED BY <2>3, <2>4
<1> QED BY <1>0, <1>2, <1>3 DEF OwnerIn, RunIn, Phases, Turned

LEMMA ControlKeeps ==
    ASSUME OwnerIn, RunIn,
           NEW action \in {"pause", "resume", "cancel", "retry"}, NEW own \in BOOLEAN, Control(action, own)
    PROVE  OwnerIn' /\ RunIn'
<1>1. UNCHANGED <<executor, owner, activity>>
  BY DEF Control, brokerVars
<1>2. budget' \in [runs : 0..MaxRuns, mishaps : 0..MaxMishaps]
  BY EventsAssumption DEF Control, OwnerIn
<1>3. Announces[action] \in Kinds \ {"checkpoint_started", "activity"}
  BY DEF Announces, Kinds, Closing
<1>4. \A call \in calls' : call.kind \in Kinds \ {"checkpoint_started", "activity"}
  BY <1>3 DEF Control, OwnerIn
<1> QED BY <1>1, <1>2, <1>4 DEF OwnerIn, RunIn

LEMMA AnnounceKeeps ==
    ASSUME OwnerIn, RunIn, NEW call \in calls, Announce(call)
    PROVE  OwnerIn' /\ RunIn'
<1>1. UNCHANGED <<executor, budget>> /\ calls' \subseteq calls
      /\ call.kind \in Kinds \ {"checkpoint_started", "activity"}
  BY DEF Announce, OwnerIn
<1>2. UNCHANGED <<owner, activity>> \/ (owner' = NoRun /\ activity' = NoRun)
  BY <1>1 DEF Announce, Publish, brokerVars, Kinds
<1>3. RunIn' /\ owner' \in Nat /\ activity' \in Nat
  BY <1>1, <1>2, RunUndisturbed
<1> QED BY <1>1, <1>3 DEF OwnerIn

-----------------------------------------------------------------------------
(* The steps of the stream and the page.                                    *)

EventParts == <<log, sequence, owner, activity>>
PathParts == <<stream, wire, seen, shown, told, foreign, skipped>>

LEMMA Unpublished ==
    ASSUME LogIn, OwnerIn, RunIn, UNCHANGED <<EventParts, executor, calls>>,
           budget' \in [runs : 0..MaxRuns, mishaps : 0..MaxMishaps]
    PROVE  LogIn' /\ OwnerIn' /\ RunIn'
BY DEF EventParts, LogIn, OwnerIn, RunIn

LEMMA Spent ==
    ASSUME OwnerIn, budget.mishaps > 0, budget' = [budget EXCEPT !.mishaps = @ - 1]
    PROVE  budget' \in [runs : 0..MaxRuns, mishaps : 0..MaxMishaps]
BY EventsAssumption DEF OwnerIn

\* A stream that is closed has no path.
LEMMA ClosedKeeps ==
    ASSUME StreamIn, stream' = NoStream, wire' = <<>>, seen' \in Nat
    PROVE  StreamIn' /\ PathIn'
BY EmptySeq DEF StreamIn, PathIn, NoStream

LEMMA ConnectKeeps ==
    ASSUME LogIn, StreamIn, PathIn, ToldIn, Connect
    PROVE  StreamIn' /\ PathIn' /\ ToldIn'
<1>1. /\ UNCHANGED <<log, sequence, seen, shown>> /\ wire = <<>> /\ shown \notin Terminal
      /\ stream' = [at |-> "reads", cursor |-> FirstCursor, empty |-> TRUE]
      /\ wire' = IF FirstCursor # seen THEN <<Reset>> ELSE <<>>
  BY DEF Connect, Following, brokerVars, pageVars
<1>2. LastNumber <= sequence /\ LastNumber \in Nat
  BY EmptySeq DEF LastNumber, LogIn
<1>3. FirstCursor \in Nat /\ FirstCursor <= sequence /\ FirstCursor \in {0, seen}
  BY <1>2 DEF FirstCursor, StreamIn, LogIn
<1>4. wire' \in Seq(Nat)
  BY <1>1, EmptySeq DEF Reset
<1>5. StreamIn'
  BY <1>1, <1>3, <1>4 DEF StreamIn
<1>6. PathIn'
  <2>1. CASE FirstCursor = seen
    BY <2>1, <1>1, <1>3, EmptySeq DEF PathIn
  <2>2. CASE FirstCursor # seen
    <3>1. wire' = <<Reset>> /\ FirstCursor = Reset /\ Len(<<Reset>>) = 1 /\ <<Reset>>[1] = Reset
          /\ <<Reset>> # <<>>
      BY <2>2, <1>1, <1>3 DEF Reset
    <3>2. stream'.cursor = Reset /\ Reset <= sequence'
      BY <3>1, <1>1, <1>3
    <3> QED BY <3>1, <3>2 DEF PathIn
  <2> QED BY <2>1, <2>2
<1>7. ToldIn'
  <2>1. UNCHANGED <<told, foreign>> /\ skipped' \in Nat /\ skipped' >= skipped
        /\ (foreign /\ FirstCursor = seen => seen <= skipped')
    BY DEF Connect, StreamIn, ToldIn
  <2>2. foreign /\ (wire' # <<>> => wire'[1] # Reset) => seen <= skipped'
    <3>1. FirstCursor # seen => wire' # <<>> /\ wire'[1] = Reset
      BY <1>1
    <3> QED BY <2>1, <3>1
  <2>3. ~foreign => \A n \in Nat : sequence - Len(log) < n /\ n <= seen => n \in told \/ n <= skipped'
    BY <2>1 DEF ToldIn
  <2> QED BY <1>1, <2>1, <2>2, <2>3 DEF ToldIn
<1> QED BY <1>5, <1>6, <1>7

LEMMA ReadKeeps ==
    ASSUME LogIn, StreamIn, PathIn, ToldIn, ReadLog
    PROVE  StreamIn' /\ PathIn' /\ ToldIn'
<1> DEFINE cursor == stream.cursor
           rest == After(cursor)
<1>1. /\ UNCHANGED <<log, sequence, seen, shown>> /\ stream.at = "reads"
      /\ wire' = wire \o rest
      /\ stream' = [at |-> "checks", empty |-> rest = <<>>,
                    cursor |-> IF rest = <<>> THEN cursor ELSE LastNumber]
  BY DEF ReadLog, brokerVars, pageVars
<1>2. /\ stream # NoStream /\ cursor \in Nat /\ cursor <= sequence
      /\ cursor = IF wire = <<>> THEN seen ELSE wire[Len(wire)]
  BY <1>1 DEF StreamIn, PathIn, NoStream
<1>3. /\ rest \in Seq(Nat)
      /\ rest # <<>> => Follow(cursor, rest[1]) /\ rest[Len(rest)] = LastNumber
      /\ \A i \in 1..Len(rest) : rest[i] <= sequence /\ (i < Len(rest) => Follow(rest[i], rest[i + 1]))
  BY <1>2, Later
<1> HIDE DEF rest, cursor
<1>4. wire \in Seq(Nat) /\ Len(wire) \in Nat /\ Len(rest) \in Nat
  BY <1>3 DEF StreamIn
<1>5. /\ wire' \in Seq(Nat) /\ Len(wire') = Len(wire) + Len(rest)
      /\ \A i \in 1..Len(wire') : wire'[i] = IF i <= Len(wire) THEN wire[i] ELSE rest[i - Len(wire)]
  BY <1>1, <1>3, <1>4, ConcatProperties
<1>6. LastNumber \in Nat /\ LastNumber <= sequence
  BY EmptySeq DEF LastNumber, LogIn
<1>7. StreamIn'
  <2>1. shown \notin Terminal
    BY <1>2 DEF StreamIn
  <2>2. stream' \in [at : {"closed", "reads", "checks"}, cursor : Nat, empty : BOOLEAN] /\ stream'.at = "checks"
    BY <1>1, <1>2, <1>6
  <2> QED BY <1>1, <1>5, <2>1, <2>2 DEF StreamIn
<1>10. ToldIn'
  <2>1. UNCHANGED <<told, foreign, skipped>>
    BY DEF ReadLog, pageVars, toldVars
  <2>2. wire # <<>> => wire' # <<>> /\ wire'[1] = wire[1]
    <3>1. wire # <<>> => Len(wire) > 0
      BY <1>4, EmptySeq
    <3>2. wire # <<>> => Len(wire') > 0 /\ wire'[1] = wire[1]
      BY <3>1, <1>4, <1>5
    <3> QED BY <3>2, EmptySeq
  <2> QED BY <2>1, <2>2, <1>1, <1>2 DEF ToldIn
<1>8. CASE rest = <<>>
  <2>1. wire' = wire /\ stream'.cursor = cursor
    BY <1>1, <1>4, <1>8, ConcatEmptySeq
  <2>2. /\ wire # <<>> /\ wire[1] # Reset => Follow(seen, wire[1])
        /\ \A i \in 1..Len(wire) : wire[i] <= sequence /\ (i < Len(wire) => Follow(wire[i], wire[i + 1]))
    BY <1>2 DEF PathIn
  <2>3. PathIn'
    BY <1>1, <1>2, <2>1, <2>2 DEF PathIn, Follow
  <2> QED BY <1>7, <1>10, <2>3
<1>9. CASE rest # <<>>
  <2>1. Len(rest) > 0 /\ Len(wire') > 0 /\ wire' # <<>>
    BY <1>3, <1>4, <1>5, <1>9, EmptySeq
  <2>2. stream'.cursor = LastNumber /\ wire'[Len(wire')] = rest[Len(rest)]
    BY <1>1, <1>4, <1>5, <1>9, <2>1
  <2>3. stream'.cursor = wire'[Len(wire')] /\ stream'.cursor <= sequence'
    BY <1>1, <1>3, <1>6, <1>9, <2>2
  <2>4. wire'[1] # Reset => Follow(seen, wire'[1])
    <3>1. CASE wire = <<>>
      <4>1. Len(wire) = 0
        BY <3>1
      <4> QED BY <4>1, <3>1, <1>2, <1>3, <1>5, <1>9, <2>1
    <3>2. CASE wire # <<>>
      <4>1. Len(wire) > 0
        BY <3>2, <1>4, EmptySeq
      <4>2. wire'[1] = wire[1]
        BY <4>1, <1>4, <1>5
      <4> QED BY <4>2, <3>2, <1>2 DEF PathIn
    <3> QED BY <3>1, <3>2
  <2>5. ASSUME NEW i \in 1..Len(wire'), i < Len(wire')
        PROVE  Follow(wire'[i], wire'[i + 1])
    <3>1. i + 1 \in 1..Len(wire') /\ i \in Int
      BY <2>5, <1>4, <1>5
    <3>2. CASE i < Len(wire)
      <4>1. wire'[i] = wire[i] /\ wire'[i + 1] = wire[i + 1] /\ i \in 1..Len(wire)
        BY <3>1, <3>2, <1>4, <1>5
      <4> QED BY <4>1, <3>2, <1>2 DEF PathIn
    <3>3. CASE i = Len(wire)
      <4>1. wire'[i] = wire[Len(wire)] /\ wire'[i + 1] = rest[1] /\ wire # <<>>
        <5>1. Len(wire) \in 1..Len(wire') /\ Len(wire) + 1 \in 1..Len(wire') /\ Len(wire) \in Nat
          BY <3>1, <3>3, <1>4, <1>5
        <5>2. wire'[Len(wire)] = wire[Len(wire)] /\ wire'[Len(wire) + 1] = rest[Len(wire) + 1 - Len(wire)]
          <6>1. \A k \in 1..Len(wire') : wire'[k] = IF k <= Len(wire) THEN wire[k] ELSE rest[k - Len(wire)]
            BY <1>5
          <6>2. Len(wire) <= Len(wire) /\ ~(Len(wire) + 1 <= Len(wire))
            BY <5>1
          <6>3. wire'[Len(wire)] = wire[Len(wire)]
            BY <5>1, <6>1, <6>2, Zenon
          <6>4. wire'[Len(wire) + 1] = rest[Len(wire) + 1 - Len(wire)]
            <7> DEFINE k == Len(wire) + 1
            <7>1. wire'[k] = IF k <= Len(wire) THEN wire[k] ELSE rest[k - Len(wire)]
              BY <5>1, <6>1
            <7>2. ~(k <= Len(wire))
              BY <6>2
            <7> HIDE DEF k
            <7>3. wire'[k] = rest[k - Len(wire)]
              BY <7>1, <7>2
            <7> QED BY <7>3 DEF k
          <6> QED BY <6>3, <6>4
        <5>3. Len(wire) + 1 - Len(wire) = 1 /\ Len(wire) >= 1
          BY <5>1
        <5>4. wire # <<>>
          BY <5>3
        <5> QED BY <3>3, <5>2, <5>3, <5>4
      <4> QED BY <4>1, <1>2, <1>3, <1>9
    <3>4. CASE i > Len(wire)
      <4>1. /\ i - Len(wire) \in 1..Len(rest) /\ i - Len(wire) < Len(rest)
            /\ wire'[i] = rest[i - Len(wire)] /\ wire'[i + 1] = rest[(i - Len(wire)) + 1]
        BY <2>5, <3>1, <3>4, <1>4, <1>5
      <4> QED BY <4>1, <1>3
    <3> QED BY <3>1, <3>2, <3>3, <3>4, <1>4
  <2>8. ASSUME NEW i \in 1..Len(wire') PROVE wire'[i] <= sequence'
    <3>1. CASE i <= Len(wire)
      <4>1. wire'[i] = wire[i] /\ i \in 1..Len(wire)
        BY <3>1, <1>4, <1>5
      <4> QED BY <4>1, <1>1 DEF PathIn
    <3>2. CASE ~(i <= Len(wire))
      <4>1. wire'[i] = rest[i - Len(wire)] /\ i - Len(wire) \in 1..Len(rest)
        BY <3>2, <1>4, <1>5
      <4> QED BY <4>1, <1>1, <1>3
    <3> QED BY <3>1, <3>2
  <2>6. /\ wire'[1] # Reset =>
              /\ seen' < wire'[1]
              /\ wire'[1] = seen' + 1 \/ wire'[1] <= sequence' - Len(log') + 1
        /\ \A i \in 1..Len(wire') : i < Len(wire') =>
              /\ wire'[i] < wire'[i + 1]
              /\ wire'[i + 1] = wire'[i] + 1 \/ wire'[i + 1] <= sequence' - Len(log') + 1
    BY <1>1, <2>4, <2>5 DEF Follow
  <2>7. PathIn'
    BY <2>1, <2>3, <2>6, <2>8 DEF PathIn, Follow
  <2> QED BY <1>7, <1>10, <2>7
<1> QED BY <1>8, <1>9

LEMMA ReceiveKeeps ==
    ASSUME LogIn, StreamIn, PathIn, ToldIn, Receive
    PROVE  StreamIn' /\ PathIn' /\ ToldIn'
<1> DEFINE rest == Tail(wire)
<1>1. /\ UNCHANGED <<log, sequence, shown, stream, skipped>> /\ wire # <<>> /\ wire' = rest
      /\ shown \notin Terminal
  BY DEF Receive, serverKept, brokerVars, Following
<1>2. /\ wire \in Seq(Nat) /\ Len(wire) \in Nat \ {0} /\ Head(wire) = wire[1] /\ wire[1] \in Nat
      /\ seen \in Nat /\ 1 \in 1..Len(wire)
  BY <1>1, EmptySeq DEF StreamIn
<1>3. /\ rest \in Seq(Nat) /\ Len(rest) = Len(wire) - 1
      /\ \A i \in 1..Len(rest) : rest[i] = wire[i + 1]
  BY <1>1, <1>2, HeadTailProperties
<1> HIDE DEF rest
<1>4. /\ seen' = wire[1] /\ foreign' = FALSE
      /\ told' = IF wire[1] = Reset THEN told ELSE told \cup {wire[1]}
  BY <1>1, <1>2 DEF PathIn, Receive, Follow
<1>5. StreamIn'
  BY <1>1, <1>2, <1>3, <1>4 DEF StreamIn
<1>6. /\ stream # NoStream => stream.cursor <= sequence /\ stream.cursor = wire[Len(wire)]
      /\ \A i \in 1..Len(wire) : wire[i] <= sequence /\ (i < Len(wire) => Follow(wire[i], wire[i + 1]))
  BY <1>1 DEF PathIn
<1>7. PathIn'
  <2>1. CASE rest = <<>>
    <3>1. Len(wire) = 1
      <4>1. Len(rest) = 0
        BY <2>1
      <4> QED BY <4>1, <1>2, <1>3
    <3>2. wire' = <<>> /\ Len(wire') = 0
      BY <1>1, <2>1
    <3> QED BY <1>1, <1>4, <1>6, <3>1, <3>2 DEF PathIn
  <2>2. CASE rest # <<>>
    <3>1. Len(rest) \in Nat \ {0} /\ Len(wire) > 1
      BY <1>2, <1>3, <2>2, EmptySeq
    <3>2. rest[1] = wire[2] /\ rest[Len(rest)] = wire[Len(wire)]
      <4>1. 1 \in 1..Len(rest) /\ Len(rest) \in 1..Len(rest) /\ 1 + 1 = 2 /\ Len(rest) + 1 = Len(wire)
        BY <1>2, <1>3, <3>1
      <4> QED BY <1>3, <4>1
    <3>3. Follow(wire[1], rest[1])
      BY <1>2, <1>6, <3>1, <3>2
    <3>4. ASSUME NEW i \in 1..Len(rest) PROVE rest[i] <= sequence /\ (i < Len(rest) => Follow(rest[i], rest[i + 1]))
      <4>0. i \in Nat /\ i >= 1 /\ i <= Len(rest) /\ Len(rest) + 1 = Len(wire)
        BY <1>2, <1>3
      <4>1. i + 1 \in 1..Len(wire) /\ rest[i] = wire[i + 1]
        <5>1. i + 1 \in 1..Len(wire)
          BY <4>0, <1>2
        <5>2. rest[i] = wire[i + 1]
          BY <1>3
        <5> QED BY <5>1, <5>2
      <4>2. i < Len(rest) => i + 1 \in 1..Len(rest) /\ i + 1 < Len(wire)
        BY <4>0
      <4>3. i < Len(rest) => rest[i + 1] = wire[(i + 1) + 1]
        BY <4>2, <1>3
      <4> QED BY <4>1, <4>2, <4>3, <1>6
    <3>5. /\ seen' < rest[1]
          /\ rest[1] = seen' + 1 \/ rest[1] <= sequence' - Len(log') + 1
          /\ \A i \in 1..Len(rest) : rest[i] <= sequence' /\
               (i < Len(rest) =>
                 /\ rest[i] < rest[i + 1]
                 /\ rest[i + 1] = rest[i] + 1 \/ rest[i + 1] <= sequence' - Len(log') + 1)
      BY <1>1, <1>4, <3>3, <3>4 DEF Follow
    <3> QED BY <1>1, <1>6, <2>2, <3>2, <3>5 DEF PathIn, Follow
  <2> QED BY <2>1, <2>2
<1>8. ToldIn'
  <2>1. told' \subseteq Nat /\ told \subseteq told' /\ (wire[1] # Reset => wire[1] \in told')
    BY <1>2, <1>4 DEF ToldIn
  <2>2. seen' <= sequence'
    BY <1>1, <1>2, <1>4, <1>6
  <2>3. ASSUME NEW n \in Nat, sequence - Len(log) < n, n <= wire[1] PROVE n \in told' \/ n <= skipped
    <3>1. wire[1] # Reset /\ sequence \in Nat /\ Len(log) \in Nat /\ Len(log) <= sequence
      BY <2>3, <1>2 DEF Reset, LogIn
    <3>2. Follow(seen, wire[1])
      BY <3>1, <1>1 DEF PathIn
    <3>3. n = wire[1] \/ n <= seen
      BY <2>3, <3>1, <3>2, <1>2 DEF Follow
    <3>4. CASE n <= seen /\ foreign
      BY <3>1, <3>4, <1>1, <1>2 DEF ToldIn
    <3>5. CASE n <= seen /\ ~foreign
      BY <3>5, <2>1, <2>3 DEF ToldIn
    <3> QED BY <2>1, <3>1, <3>3, <3>4, <3>5
  <2> QED BY <2>1, <2>2, <2>3, <1>1, <1>4 DEF ToldIn
<1> QED BY <1>5, <1>7, <1>8

LEMMA ShowsKeeps ==
    ASSUME LogIn, StreamIn, PathIn, ToldIn, UNCHANGED <<log, sequence>>, NEW new, Shows(new)
    PROVE  StreamIn' /\ PathIn' /\ ToldIn'
<1>1. CASE new \in Terminal \/ shown \in Terminal
  <2>1. stream' = NoStream /\ wire' = <<>> /\ seen' = 0 /\ foreign' = FALSE /\ UNCHANGED <<told, skipped>>
    BY <1>1 DEF Shows, StreamIn
  <2>2. seen' \in Nat
    BY <2>1
  <2>3. StreamIn' /\ PathIn'
    BY <2>1, <2>2, ClosedKeeps
  <2>4. ToldIn'
    <3>1. sequence - Len(log) >= 0 /\ sequence \in Nat
      BY DEF LogIn
    <3>2. told \subseteq Nat /\ skipped \in Nat
      BY DEF ToldIn
    <3>3. ~\E n \in Nat : sequence - Len(log) < n /\ n <= 0
      BY <3>1 DEF LogIn
    <3>4. told' \subseteq Nat /\ skipped' \in Nat /\ foreign' = FALSE /\ seen' <= sequence'
      BY <2>1, <3>1, <3>2
    <3>5. \A n \in Nat : ~(sequence' - Len(log') < n /\ n <= seen')
      BY <2>1, <3>3
    <3> QED BY <3>4, <3>5 DEF ToldIn
  <2> QED BY <2>3, <2>4
<1>2. CASE shown \notin Terminal /\ new \notin Terminal
  <2>1. UNCHANGED <<stream, wire, seen, told, foreign, skipped>> /\ shown' \notin Terminal
    BY <1>2 DEF Shows
  <2> QED BY <2>1, PathSame, ToldSame DEF StreamIn
<1> QED BY <1>1, <1>2

-----------------------------------------------------------------------------
LEMMA EventsKept ==
    ASSUME EInv, [JobEventsNext]_followVars
    PROVE  EInv'
<1> USE DEF EInv
\* Nothing of the stream and the page changes; the log is as it was, or goes on.
<1>0. ASSUME UNCHANGED PathParts, OwnerIn', RunIn',
             UNCHANGED <<log, sequence>> \/ \E kind, run : Publish(kind, run)
      PROVE  EInv'
  <2>1. StreamIn'
    BY <1>0 DEF StreamIn, PathParts
  <2>2. CASE UNCHANGED <<log, sequence>>
    <3>1. LogIn' /\ PathIn' /\ ToldIn'
      BY <1>0, <2>2, PathSame, ToldSame DEF LogIn, PathParts
    <3> QED BY <3>1, <2>1, <1>0
  <2>3. ASSUME NEW kind, NEW run, Publish(kind, run) PROVE EInv'
    <3>1. LogIn' /\ sequence' >= sequence /\ sequence' - Len(log') >= sequence - Len(log)
      BY <2>3, LogKept
    <3>2. PathIn' /\ ToldIn'
      BY <3>1, <1>0, PathKept, ToldKept DEF PathParts
    <3> QED BY <3>1, <3>2, <2>1, <1>0
  <2> QED BY <1>0, <2>2, <2>3
<1>1. CASE UNCHANGED followVars
  BY <1>1, <1>0 DEF followVars, brokerVars, pageVars, toldVars, PathParts, OwnerIn, RunIn
<1>2. CASE StartRun
  BY <1>2, <1>0, RunStarts DEF StartRun, brokerVars, serverOnly, pageVars, toldVars, PathParts
<1>3. ASSUME NEW kind \in Refused, Refuse(kind) PROVE EInv'
  BY <1>3, <1>0, RefusalKeeps DEF Refuse, serverOnly, pageVars, toldVars, PathParts
<1>4. CASE CommitRefusal \/ BreakOff
  BY <1>4, <1>0, RefusalKeeps, BreakKeeps
     DEF CommitRefusal, BreakOff, brokerVars, serverOnly, pageVars, toldVars, PathParts
<1>5. CASE PublishNext
  BY <1>5, <1>0, PublishKeeps DEF PublishNext, serverOnly, pageVars, toldVars, PathParts
<1>6. ASSUME NEW outcome \in {"completed", "failed", "yielded"}, NEW last \in BOOLEAN, FinishRun(outcome, last)
      PROVE  EInv'
  BY <1>6, <1>0, FinishKeeps DEF FinishRun, brokerVars, serverOnly, pageVars, toldVars, PathParts
<1>7. ASSUME NEW call \in calls, Announce(call) PROVE EInv'
  <2>1. UNCHANGED PathParts /\ (UNCHANGED <<log, sequence>> \/ \E kind, run : Publish(kind, run))
    BY <1>7 DEF Announce, brokerVars, toldVars, PathParts
  <2> QED BY <2>1, <1>7, <1>0, AnnounceKeeps
<1>8. ASSUME NEW run \in 1..MaxRuns, Report(run) PROVE EInv'
  BY <1>8, <1>0, ReportKeeps DEF Report, serverOnly, pageVars, toldVars, PathParts
<1>9. ASSUME NEW action \in {"pause", "resume", "cancel", "retry"}, NEW own \in BOOLEAN, Control(action, own)
      PROVE  EInv'
  BY <1>9, <1>0, ControlKeeps DEF Control, brokerVars, toldVars, PathParts
<1>10. CASE Restart
  <2>1. /\ stream' = NoStream /\ wire' = <<>> /\ UNCHANGED seen /\ log' = <<>> /\ sequence' = 0
        /\ executor' = Idle /\ calls' = {} /\ activity' = NoRun /\ owner' = NoRun
        /\ budget.mishaps > 0 /\ budget' = [budget EXCEPT !.mishaps = @ - 1]
        /\ told' = {} /\ foreign' = (seen # 0) /\ skipped' = 0
    BY <1>10 DEF Restart
  <2>2. StreamIn' /\ PathIn'
    BY <2>1, ClosedKeeps DEF StreamIn
  <2>3. LogIn'
    BY <2>1, EmptySeq DEF LogIn
  <2>4. OwnerIn' /\ RunIn'
    BY <2>1, Spent, EmptySeq DEF OwnerIn, RunIn, Idle, NoRun, Phases, Turned
  <2>5. ToldIn'
    <3>1. told' \subseteq Nat /\ foreign' \in BOOLEAN /\ skipped' \in Nat
      BY <2>1
    <3>2. ~foreign' => seen' = 0 /\ sequence' = 0
      BY <2>1
    <3>3. stream' = NoStream /\ wire' = <<>>
      BY <2>1
    <3>4. Len(log') = 0 /\ ~\E n \in Nat : sequence' - Len(log') < n /\ n <= 0
      BY <2>1, EmptySeq
    <3> QED BY <3>1, <3>2, <3>3, <3>4 DEF ToldIn
  <2> QED BY <2>2, <2>3, <2>4, <2>5
\* The steps of the stream and the page publish nothing.
<1>11. ASSUME UNCHANGED <<EventParts, executor, calls>>, StreamIn', PathIn', ToldIn',
              budget' \in [runs : 0..MaxRuns, mishaps : 0..MaxMishaps]
       PROVE  EInv'
  BY <1>11, Unpublished
<1>12. budget \in [runs : 0..MaxRuns, mishaps : 0..MaxMishaps]
  BY DEF OwnerIn
<1>13. CASE Connect
  <2>1. UNCHANGED <<EventParts, executor, calls>> /\ UNCHANGED budget
    BY <1>13 DEF Connect, EventParts, brokerVars
  <2> QED BY <2>1, <1>11, <1>12, <1>13, ConnectKeeps
<1>14. CASE ReadLog
  <2>1. UNCHANGED <<EventParts, executor, calls>> /\ UNCHANGED budget
    BY <1>14 DEF ReadLog, EventParts, brokerVars
  <2> QED BY <2>1, <1>11, <1>12, <1>14, ReadKeeps
<1>15. CASE CheckEnd
  <2>1. UNCHANGED <<EventParts, executor, calls>> /\ UNCHANGED <<budget, wire, seen, shown, told, foreign, skipped>>
        /\ stream.at = "checks" /\ stream # NoStream
    BY <1>15 DEF CheckEnd, EventParts, brokerVars, pageVars, toldVars, NoStream
  <2>4. ToldIn'
    BY <2>1 DEF ToldIn, EventParts
  <2>2. CASE stream' = NoStream
    <3>1. StreamIn' /\ PathIn'
      BY <2>1, <2>2 DEF StreamIn, PathIn, NoStream, Follow, EventParts
    <3> QED BY <3>1, <2>1, <2>4, <1>11, <1>12
  <2>3. CASE stream' = [stream EXCEPT !.at = "reads"]
    <3>2. /\ stream' \in [at : {"closed", "reads", "checks"}, cursor : Nat, empty : BOOLEAN]
          /\ stream'.cursor = stream.cursor /\ stream'.at = "reads"
      BY <2>3 DEF StreamIn
    <3>3. StreamIn'
      BY <2>1, <3>2 DEF StreamIn
    <3>4. PathIn'
      BY <2>1, <3>2 DEF PathIn, Follow, EventParts
    <3> QED BY <2>1, <2>4, <3>3, <3>4, <1>11, <1>12
  <2> QED BY <2>2, <2>3, <1>15 DEF CheckEnd
<1>16. CASE Drop
  <2>1. UNCHANGED <<EventParts, executor, calls>> /\ stream' = NoStream /\ wire' = <<>>
        /\ UNCHANGED <<seen, told, foreign, skipped>>
        /\ budget.mishaps > 0 /\ budget' = [budget EXCEPT !.mishaps = @ - 1]
    BY <1>16 DEF Drop, EventParts, brokerVars, pageVars, toldVars
  <2>2. StreamIn' /\ PathIn' /\ ToldIn'
    BY <2>1, ClosedKeeps DEF StreamIn, ToldIn, EventParts
  <2> QED BY <2>1, <2>2, <1>11, Spent
<1>17. CASE Receive
  <2>1. UNCHANGED <<EventParts, executor, calls>> /\ UNCHANGED budget
    BY <1>17 DEF Receive, serverKept, EventParts, brokerVars
  <2> QED BY <2>1, <1>11, <1>12, <1>17, ReceiveKeeps
<1>18. CASE Refresh \/ Poll \/ Focus \/ ReadSnapshot
  <2>1. UNCHANGED <<EventParts, executor, calls>> /\ UNCHANGED PathParts
        /\ (UNCHANGED budget \/ (budget.mishaps > 0 /\ budget' = [budget EXCEPT !.mishaps = @ - 1]))
    BY <1>18 DEF Refresh, Poll, Focus, ReadSnapshot, serverKept, EventParts, PathParts, toldVars, brokerVars
  <2>2. StreamIn' /\ PathIn' /\ ToldIn'
    BY <2>1, PathSame, ToldSame DEF PathParts, EventParts, StreamIn
  <2> QED BY <2>1, <2>2, <1>11, <1>12, Spent
<1>19. CASE Arrive \/ Answered
  <2>1. UNCHANGED <<EventParts, executor, calls>> /\ UNCHANGED budget /\ (Shows(fetch) \/ Shows(answer))
    BY <1>19 DEF Arrive, Answered, serverKept, EventParts, brokerVars
  <2>2. StreamIn' /\ PathIn' /\ ToldIn'
    BY <2>1, ShowsKeeps DEF EventParts
  <2> QED BY <2>1, <2>2, <1>11, <1>12
<1> QED BY <1>1, <1>2, <1>3, <1>4, <1>5, <1>6, <1>7, <1>8, <1>9, <1>10, <1>13, <1>14, <1>15, <1>16,
           <1>17, <1>18, <1>19 DEF JobEventsNext, Executes, Follows

\* The page goes on along its path only.
LEMMA GoesOn ==
    ASSUME EInv, [JobEventsNext]_followVars, stream # NoStream, seen' > seen
    PROVE  \A i \in DOMAIN log : ~(seen < log[i] /\ log[i] < seen')
<1>1. seen \in Nat
  BY DEF EInv, StreamIn
<1>2. seen' = seen \/ seen' = 0 \/ Receive
  BY DEF JobEventsNext, Executes, Follows, followVars, pageVars, serverOnly, toldVars, StartRun, Refuse,
     CommitRefusal, BreakOff, PublishNext, FinishRun, Announce, Report, Control, Restart, Drop, Focus, Connect, ReadLog,
     CheckEnd, Refresh, Poll, ReadSnapshot, Arrive, Answered, Shows
<1>3. /\ Receive /\ wire # <<>> /\ seen' = Head(wire)
  BY <1>1, <1>2 DEF Receive
<1>4. Head(wire) = wire[1]
  BY <1>3 DEF EInv, StreamIn
<1>5. Follow(seen, wire[1])
  BY <1>1, <1>3, <1>4 DEF EInv, PathIn, Reset
<1>6. wire[1] \in Nat
  BY <1>3, EmptySeq DEF EInv, StreamIn
<1>7. ASSUME NEW i \in DOMAIN log, seen < log[i], log[i] < wire[1] PROVE FALSE
  <2>1. i \in 1..Len(log) /\ log[i] = sequence - Len(log) + i /\ sequence \in Nat /\ Len(log) \in Nat
    BY DEF EInv, LogIn
  <2> QED BY <2>1, <1>1, <1>5, <1>6, <1>7 DEF Follow
<1> QED BY <1>3, <1>4, <1>7

\* A set of numbers has a least one.
LEMMA LeastExists ==
    ASSUME NEW S \in SUBSET Nat, S # {}
    PROVE  \E x \in S : \A y \in S : x <= y
<1> DEFINE R == {ss \in Nat \X Nat : ss[1] < ss[2]}
<1>1. IsWellFoundedOn(R, Nat)
  BY NatLessThanWellFounded DEF OpToRel
<1> HIDE DEF R
<1>2. PICK x \in S : \A y \in S : ~(<<y, x>> \in R)
  BY <1>1, WFMin
<1>3. ASSUME NEW y \in S PROVE x <= y
  <2>1. y < x => <<y, x>> \in R
    BY DEF R
  <2> QED BY <1>2, <2>1
<1> QED BY <1>3

\* What the log has up to the cursor is on the path, or was seen before it.
LEMMA OnPath ==
    ASSUME LogIn, StreamIn, PathIn, stream # NoStream,
           NEW n \in Nat, sequence - Len(log) < n, n <= stream.cursor
    PROVE  \/ \E k \in DOMAIN wire : wire[k] = n
           \/ n <= seen /\ (wire # <<>> => wire[1] # Reset)
<1>1. /\ wire \in Seq(Nat) /\ seen \in Nat /\ Len(wire) \in Nat /\ DOMAIN wire = 1..Len(wire)
      /\ sequence \in Nat /\ Len(log) \in Nat /\ Len(log) <= sequence /\ n > 0
  BY DEF StreamIn, LogIn
<1>2. CASE wire = <<>>
  BY <1>1, <1>2 DEF PathIn
<1>3. CASE wire # <<>>
  <2> DEFINE later == {k \in 1..Len(wire) : wire[k] >= n}
  <2>1. Len(wire) \in later /\ later \in SUBSET Nat
    <3>1. Len(wire) > 0 /\ wire[Len(wire)] = stream.cursor
      BY <1>1, <1>3, EmptySeq DEF PathIn
    <3> QED BY <3>1, <1>1
  <2>2. PICK k \in later : \A j \in later : k <= j
    BY <2>1, LeastExists
  <2>3. k \in 1..Len(wire) /\ wire[k] >= n /\ wire[k] \in Nat
    BY <1>1
  <2>4. CASE wire[k] = n
    BY <2>3, <2>4, <1>1
  <2>5. CASE wire[k] # n /\ k = 1
    <3>1. wire[1] # Reset /\ wire[1] > n
      BY <2>3, <2>5, <1>1 DEF Reset
    <3>2. Follow(seen, wire[1])
      BY <3>1, <1>3 DEF PathIn
    <3>3. n <= seen
      BY <3>1, <3>2, <2>3, <2>5, <1>1 DEF Follow
    <3> QED BY <3>1, <3>3
  <2>6. CASE wire[k] # n /\ k # 1
    <3>1. k - 1 \in 1..Len(wire) /\ k - 1 < Len(wire) /\ k - 1 < k /\ (k - 1) + 1 = k
      BY <2>3, <2>6, <1>1
    <3>2. wire[k - 1] < n /\ wire[k - 1] \in Nat
      <4>1. k - 1 \notin later
        BY <2>2, <2>3, <3>1
      <4> QED BY <4>1, <3>1, <1>1
    <3>3. Follow(wire[k - 1], wire[k])
      BY <3>1 DEF PathIn
    <3> QED BY <3>2, <3>3, <2>3, <2>6, <1>1 DEF Follow
  <2> QED BY <2>4, <2>5, <2>6
<1> QED BY <1>2, <1>3

LEMMA Reached ==
    ASSUME EInv
    PROVE  NothingMissed
<1> SUFFICES ASSUME stream # NoStream, NEW i \in DOMAIN log, ~(log[i] > stream.cursor)
             PROVE  log[i] \in told \/ (\E k \in DOMAIN wire : wire[k] = log[i]) \/ log[i] <= skipped
  BY DEF NothingMissed
<1>1. /\ log[i] \in Nat /\ sequence - Len(log) < log[i] /\ log[i] <= stream.cursor /\ seen \in Nat
      /\ skipped \in Nat /\ foreign \in BOOLEAN
  BY DEF EInv, LogIn, StreamIn, ToldIn
<1>2. \/ \E k \in DOMAIN wire : wire[k] = log[i]
      \/ log[i] <= seen /\ (wire # <<>> => wire[1] # Reset)
  BY <1>1, OnPath DEF EInv
<1>3. CASE log[i] <= seen /\ (wire # <<>> => wire[1] # Reset)
  <2>1. CASE foreign
    BY <2>1, <1>1, <1>3 DEF EInv, ToldIn
  <2>2. CASE ~foreign
    BY <2>2, <1>1, <1>3 DEF EInv, ToldIn
  <2> QED BY <2>1, <2>2
<1> QED BY <1>2, <1>3

\* A page is told of the events of its job in the order in which they were published,
\* and of all that its process has but those up to a number that the page kept of an
\* earlier process; it is shown the activity of the checkpoint under way
\* (PipelineEventBroker, routes.job_events, streamJobEvents), for every size of the log
\* and any number of runs and mishaps.
THEOREM EventsAreFollowed == JobEventsSpec => EventsFollowed
<1>1. JobEventsInit => EInv
  BY EventsStart
<1>2. EInv /\ [JobEventsNext]_followVars => EInv'
  BY EventsKept
<1>3. EInv => ActivityIsCurrent /\ NothingMissed
  <2>1. EInv => ActivityIsCurrent
    BY DEF EInv, RunIn, OwnerIn, ActivityIsCurrent, NoRun
  <2> QED BY <2>1, Reached
<1>4. EInv /\ [JobEventsNext]_followVars =>
        [stream' = stream /\ stream # NoStream /\ seen' > seen /\ seen <= sequence =>
           \A i \in DOMAIN log : ~(seen < log[i] /\ log[i] < seen')]_followVars
  BY GoesOn
<1> QED BY <1>1, <1>2, <1>3, <1>4, PTL DEF JobEventsSpec, EventsFollowed, NothingPassedOver
=============================================================================
