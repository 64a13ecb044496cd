--------------------------- MODULE TranscriptSaves ---------------------------
(***************************************************************************)
(* Autosave of one transcript segment: the drafts of a browser page         *)
(* (frontend/src/transcriptSaves.ts), the segment view it types over, and   *)
(* the optimistic lock of the service (patch_segment of api/service.py,     *)
(* edit_segment of jobs/audit.py), with a second editor at work.            *)
(*                                                                          *)
(* A text is the set of edits it contains.  Between two awaits the page is  *)
(* one step; a request is sent, handled, read back and answered in steps of *)
(* their own, and may be lost at each.                                      *)
(***************************************************************************)
EXTENDS Naturals

CONSTANTS None,        \* no draft, no request, no text
          MaxEdits,    \* bound: edits typed on this page
          MaxOthers,   \* bound: edits of the other editor
          MaxVersion,  \* bound: versions over which a draft is confirmed
          MaxFaults    \* bound: reloads and failed requests

ASSUME SavesAssumption == MaxEdits \in Nat /\ MaxOthers \in Nat /\ MaxVersion \in Nat /\ MaxFaults \in Nat

VARIABLES
    server,    \* the segment row: version and text
    draft,     \* useTranscriptSaves: the draft of the segment
    timer,     \* timers.has(id)
    patch,     \* the save in flight (running.has(id)) and what became of it
    orphans,   \* saves the service may still handle, with nobody waiting
    load,      \* the read of loadLatestTranscriptDraft
    rebase,    \* the read of saveRebasedTranscriptDraft
    view,      \* the segment the page shows
    refetch,   \* the read of the segment query
    typed,     \* history: edits typed on this page
    gone,      \* history: edits the user has discarded
    stored,    \* history: edits of texts of this page that the service has stored
    faults     \* bound counter

vars == <<server, draft, timer, patch, orphans, load, rebase, view, refetch,
          typed, gone, stored, faults>>

-----------------------------------------------------------------------------
Mine(k) == <<"mine", k>>
Other(k) == <<"other", k>>

Edits == {Mine(k) : k \in 1..MaxEdits} \cup {Other(k) : k \in 1..MaxOthers}

Text == SUBSET Edits

Segment == [version : Nat, text : Text]

\* shown is the text the user was shown as the server's (serverText, with
\* serverVersion), over what a confirmed draft is to replace (history).
Draft == [text : Text, version : Nat, st : {"waiting", "saving", "saved", "error"},
          conflict : BOOLEAN, serverVersion : Nat, shown : Text \cup {None},
          over : Text \cup {None}]

ASSUME NoneAssumption == None \notin Draft

\* A read in flight: what the service answered, and whether the draft it was
\* made for (its generation) is still there.
Read == [segment : Segment, live : BOOLEAN]

\* st: sent, stored (committed, not yet read back), answered, or refused (409).
Patch == [st : {"sent", "stored", "answered", "refused"}, text : Text, version : Nat,
          over : Text \cup {None}, reply : Segment \cup {None}, live : BOOLEAN]

TypeOK ==
    /\ server \in Segment
    /\ draft \in Draft \cup {None}
    /\ timer \in BOOLEAN
    /\ patch \in Patch \cup {None}
    /\ orphans \subseteq [text : Text, version : Nat]
    /\ load \in Read \cup {None}
    /\ rebase \in [segment : Segment, live : BOOLEAN, seen : Nat] \cup {None}
    /\ view \in Segment
    /\ refetch \in Segment \cup {None}
    /\ typed \in 0..MaxEdits
    /\ gone \in Text
    /\ stored \in Text
    /\ faults \in 0..MaxFaults

Init ==
    /\ server = [version |-> 1, text |-> {}]
    /\ draft = None /\ timer = FALSE
    /\ patch = None /\ orphans = {}
    /\ load = None /\ rebase = None
    /\ view = server /\ refetch = None
    /\ typed = 0 /\ gone = {} /\ stored = {}
    /\ faults = 0

-----------------------------------------------------------------------------
(* The page: typing, the timer, and the save.                               *)

hist == <<typed, gone, stored>>

Higher(m, n) == IF m > n THEN m ELSE n

Unsaved(d) == d # None /\ d.st # "saved"

\* What the textarea shows.
Shown == IF Unsaved(draft) THEN draft.text ELSE view.text

\* scheduleTranscriptSave
Scheduled(text) ==
    IF draft # None /\ draft.conflict THEN [draft EXCEPT !.text = text]
    ELSE [text |-> text,
          version |-> CASE Unsaved(draft) -> draft.version
                        [] draft = None -> view.version
                        [] OTHER -> Higher(draft.version, view.version),
          st |-> "waiting", conflict |-> FALSE, serverVersion |-> 0, shown |-> None,
          over |-> IF draft = None THEN None ELSE draft.over]

Type ==
    /\ typed < MaxEdits
    /\ typed' = typed + 1
    /\ draft' = Scheduled(Shown \cup {Mine(typed')})
    /\ timer' = (draft # None /\ draft.conflict => timer)
    /\ UNCHANGED <<server, patch, orphans, load, rebase, view, refetch, gone, stored, faults>>

\* flushTranscriptSave up to its await, for the draft d.
Flush(d) ==
    IF patch # None \/ ~Unsaved(d) \/ d.conflict
    THEN draft' = d /\ UNCHANGED patch
    ELSE /\ draft' = [d EXCEPT !.st = "saving"]
         /\ patch' = [st |-> "sent", text |-> d.text, version |-> d.version, over |-> d.over,
                      reply |-> None, live |-> TRUE]

TimerFires ==
    /\ timer /\ timer' = FALSE
    /\ Flush(draft)
    /\ UNCHANGED <<server, orphans, load, rebase, view, refetch, hist, faults>>

\* The button shown for a failed save.
RetrySave ==
    /\ Unsaved(draft) /\ draft.st = "error" /\ ~draft.conflict /\ patch = None
    /\ timer' = FALSE
    /\ Flush(draft)
    /\ UNCHANGED <<server, orphans, load, rebase, view, refetch, hist, faults>>

\* Mutant of Done: what was typed meanwhile waits for the next edit.
DoneOnly(d) == draft' = d /\ patch' = None

\* The end of a save, which starts the next one for what was typed meanwhile.
Done(d) ==
    IF d # None /\ d.st = "waiting" /\ ~timer
    THEN /\ draft' = [d EXCEPT !.st = "saving"]
         /\ patch' = [st |-> "sent", text |-> d.text, version |-> d.version, over |-> d.over,
                      reply |-> None, live |-> TRUE]
    ELSE draft' = d /\ patch' = None

\* The draft after its save: it may hold more than what was saved.
Saved(d) ==
    [d EXCEPT !.version = patch.reply.version,
              !.st = IF d.text # patch.text THEN "waiting" ELSE "saved",
              !.conflict = FALSE, !.serverVersion = 0, !.shown = None, !.over = None]

SaveSucceeds ==
    /\ patch # None /\ patch.st = "answered"
    /\ IF patch.live /\ draft # None
       THEN Done(Saved(draft)) /\ view' = patch.reply
       ELSE Done(draft) /\ UNCHANGED view
    /\ UNCHANGED <<server, timer, orphans, load, rebase, refetch, hist, faults>>

SaveError(conflict) ==
    IF patch.live /\ draft # None
    THEN Done([draft EXCEPT !.st = "error", !.conflict = conflict, !.over = None])
    ELSE Done(draft)

SaveRefused ==
    /\ patch # None /\ patch.st = "refused"
    /\ SaveError(TRUE)
    /\ UNCHANGED <<server, timer, orphans, load, rebase, view, refetch, hist, faults>>

\* No answer arrives: the service has handled the save, or may, or never will.
SaveLost ==
    /\ patch # None /\ faults < MaxFaults
    /\ faults' = faults + 1
    /\ SaveError(FALSE)
    /\ orphans' \in IF patch.st = "sent"
                    THEN {orphans, orphans \cup {[text |-> patch.text, version |-> patch.version]}}
                    ELSE {orphans}
    /\ UNCHANGED <<server, timer, load, rebase, view, refetch, hist>>

-----------------------------------------------------------------------------
(* The page: the decisions of the user about a conflict.                    *)

Decidable == Unsaved(draft) /\ draft.st = "error" /\ draft.conflict

\* loadLatestTranscriptDraft
Load ==
    /\ Decidable /\ load = None
    /\ load' = [segment |-> server, live |-> TRUE]
    /\ UNCHANGED <<server, draft, timer, patch, orphans, rebase, view, refetch, hist, faults>>

LoadEnds ==
    /\ load # None /\ load' = None
    /\ draft' \in IF load.live /\ draft # None
                  THEN {[draft EXCEPT !.st = "error", !.conflict = TRUE,
                                      !.serverVersion = load.segment.version,
                                      !.shown = load.segment.text],
                        [draft EXCEPT !.st = "error"]}
                  ELSE {draft}
    /\ UNCHANGED <<server, timer, patch, orphans, rebase, view, refetch, hist, faults>>

\* saveRebasedTranscriptDraft: the user has compared and wants the draft.
Rebase ==
    /\ Decidable /\ draft.serverVersion > 0 /\ rebase = None
    /\ server.version < MaxVersion
    /\ rebase' = [segment |-> server, live |-> TRUE, seen |-> draft.serverVersion]
    /\ UNCHANGED <<server, draft, timer, patch, orphans, load, view, refetch, hist, faults>>

\* Mutant of Compared: the server's version is not checked again.
ComparedOnce(d) == d # None /\ rebase.live /\ d.serverVersion = rebase.seen

\* What the user compared is still the latest version.
Compared(d) ==
    /\ d # None /\ rebase.live /\ d.serverVersion = rebase.seen
    /\ rebase.segment.version = d.serverVersion

RebaseEnds ==
    /\ rebase # None /\ rebase' = None
    /\ IF Compared(draft)
       THEN /\ Flush([draft EXCEPT !.version = rebase.segment.version, !.st = "waiting",
                                   !.conflict = FALSE, !.serverVersion = 0,
                                   !.shown = None, !.over = draft.shown])
            /\ timer' = (timer /\ patch # None)
       ELSE /\ draft' = IF draft # None /\ rebase.live /\ draft.serverVersion = rebase.seen
                        THEN [draft EXCEPT !.serverVersion = rebase.segment.version,
                                           !.shown = rebase.segment.text]
                        ELSE draft
            /\ UNCHANGED <<patch, timer>>
    /\ UNCHANGED <<server, orphans, load, view, refetch, hist, faults>>

RebaseFails ==
    /\ rebase # None /\ faults < MaxFaults
    /\ rebase' = None /\ faults' = faults + 1
    /\ UNCHANGED <<server, draft, timer, patch, orphans, load, view, refetch, hist>>

\* discardTranscriptDraft: what is in flight no longer finds its draft.
Discard ==
    /\ Decidable
    /\ draft' = None /\ timer' = FALSE
    /\ gone' = gone \cup draft.text
    /\ patch' = IF patch = None THEN patch ELSE [patch EXCEPT !.live = FALSE]
    /\ load' = IF load = None THEN load ELSE [load EXCEPT !.live = FALSE]
    /\ rebase' = IF rebase = None THEN rebase ELSE [rebase EXCEPT !.live = FALSE]
    /\ refetch' = server
    /\ UNCHANGED <<server, orphans, view, typed, stored, faults>>

-----------------------------------------------------------------------------
(* The segment query, and the life of the page.                             *)

\* A refetch reads the segment ...
Refetch ==
    /\ refetch = None /\ view # server
    /\ refetch' = server
    /\ UNCHANGED <<server, draft, timer, patch, orphans, load, rebase, view, hist, faults>>

\* ... and its answer replaces the view, whatever was put there meanwhile.
RefetchEnds ==
    /\ refetch # None
    /\ view' = refetch /\ refetch' = None
    /\ UNCHANGED <<server, draft, timer, patch, orphans, load, rebase, hist, faults>>

\* Mutant of Restored: a draft whose save was in flight is taken as saved.
RestoredIdle ==
    IF Unsaved(draft) /\ draft.st # "saving" THEN [draft EXCEPT !.st = "error", !.over = None] ELSE None

\* restoreDrafts: every draft that was not saved comes back for the user to save.
Restored ==
    IF Unsaved(draft) THEN [draft EXCEPT !.st = "error", !.over = None] ELSE None

Reload ==
    /\ faults < MaxFaults /\ faults' = faults + 1
    /\ draft' = Restored
    /\ timer' = FALSE /\ patch' = None /\ load' = None /\ rebase' = None
    /\ orphans' \in IF patch # None /\ patch.st = "sent"
                    THEN {orphans, orphans \cup {[text |-> patch.text, version |-> patch.version]}}
                    ELSE {orphans}
    /\ view' = server /\ refetch' = None
    /\ UNCHANGED <<server, hist>>

-----------------------------------------------------------------------------
(* The service.                                                             *)

\* The UPDATE of edit_segment finds the version it expects.
Accepts(version) == server.version = version

Store(text) ==
    /\ server' = [version |-> server.version + 1, text |-> text]
    /\ stored' = stored \cup text

HandlePatch ==
    /\ patch # None /\ patch.st = "sent"
    /\ IF Accepts(patch.version)
       THEN Store(patch.text) /\ patch' = [patch EXCEPT !.st = "stored"]
       ELSE UNCHANGED <<server, stored>> /\ patch' = [patch EXCEPT !.st = "refused"]
    /\ UNCHANGED <<draft, timer, orphans, load, rebase, view, refetch, typed, gone, faults>>

\* patch_segment answers with the segment read in a transaction of its own.
ReadBack ==
    /\ patch # None /\ patch.st = "stored"
    /\ patch' = [patch EXCEPT !.st = "answered", !.reply = server]
    /\ UNCHANGED <<server, draft, timer, orphans, load, rebase, view, refetch, hist, faults>>

HandleOrphan ==
    /\ \E o \in orphans :
        /\ orphans' = orphans \ {o}
        /\ IF Accepts(o.version) THEN Store(o.text) ELSE UNCHANGED <<server, stored>>
    /\ UNCHANGED <<draft, timer, patch, load, rebase, view, refetch, typed, gone, faults>>

\* Another window saves an edit over the latest version.
OthersEdit ==
    /\ \E k \in 1..MaxOthers :
        /\ \A i \in 1..MaxOthers : Other(i) \in server.text => i # k
        /\ server' = [version |-> server.version + 1, text |-> server.text \cup {Other(k)}]
    /\ server.version < MaxVersion
    /\ UNCHANGED <<draft, timer, patch, orphans, load, rebase, view, refetch, hist, faults>>

-----------------------------------------------------------------------------
Next ==
    \/ Type \/ TimerFires \/ RetrySave \/ SaveSucceeds \/ SaveRefused \/ SaveLost
    \/ Load \/ LoadEnds \/ Rebase \/ RebaseEnds \/ RebaseFails \/ Discard
    \/ Refetch \/ RefetchEnds \/ Reload
    \/ HandlePatch \/ ReadBack \/ HandleOrphan \/ OthersEdit

Spec == Init /\ [][Next]_vars

\* Timers fire, requests are handled and answered or time out; a user may type
\* or decide, or never do.
FairSpec ==
    /\ Spec
    /\ WF_vars(TimerFires) /\ WF_vars(SaveSucceeds) /\ WF_vars(SaveRefused)
    /\ WF_vars(HandlePatch) /\ WF_vars(ReadBack)

-----------------------------------------------------------------------------
(* Properties.                                                              *)

\* Nothing typed is lost on the way: an edit is in the draft, in a text the
\* service has stored, or was discarded by the user, through overlapping
\* saves, conflicts, lost answers and reloads.
TypedKept ==
    \A k \in 1..typed :
        \/ Unsaved(draft) /\ Mine(k) \in draft.text
        \/ Mine(k) \in gone
        \/ Mine(k) \in stored

\* "Saved" on the page is true: the service has stored every edit of the
\* text shown.
SavedIsStored == draft # None /\ draft.st = "saved" => draft.text \subseteq stored

\* A draft that the user confirms over the server's text replaces the text the
\* user compared it with and no later one.
RebasedOverCompared ==
    [][ patch # None /\ patch.st = "sent" /\ patch.over # None /\ server' # server
          /\ patch' = [patch EXCEPT !.st = "stored"] => server.text = patch.over ]_vars

\* No draft is left waiting: it is saved, or its failure is shown to the user.
DraftSettles ==
    (draft # None /\ draft.st \in {"waiting", "saving"})
        ~> (draft = None \/ draft.st \in {"saved", "error"})

\* What a save replaces without asking is only what its text was based on: an
\* edit of another window is never dropped unless the user compared it.
OthersKept ==
    [][ patch # None /\ patch.st = "sent" /\ patch.over = None /\ server' # server
          /\ patch' = [patch EXCEPT !.st = "stored"]
          => \A k \in 1..MaxOthers : Other(k) \in server.text => Other(k) \in server'.text ]_vars

\* An edit of this page that was saved is not dropped by its later saves.
OwnKept ==
    [][ patch # None /\ patch.st = "sent" /\ patch.over = None /\ server' # server
          /\ patch' = [patch EXCEPT !.st = "stored"]
          => \A k \in 1..MaxEdits : Mine(k) \in server.text => Mine(k) \in server'.text ]_vars
=============================================================================
