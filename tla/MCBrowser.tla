------------------------------ MODULE MCBrowser ------------------------------
(***************************************************************************)
(* One run for what the pages of the browser do with the service: the        *)
(* drafts of a transcript (TranscriptSaves), the requests of several windows *)
(* that edit its segments (SegmentHistory), and how a page follows a job     *)
(* (JobEvents).  `part' says which of them a behavior is about; the          *)
(* variables of the others keep their initial values.                        *)
(***************************************************************************)
EXTENDS TranscriptSaves, JobEvents

CONSTANTS Windows

VARIABLES part, segments, events, requests, handler, left

historyVars == <<segments, events, requests, handler, left>>
browserVars == <<part, vars, historyVars, followVars>>

History == INSTANCE SegmentHistory WITH MaxRequests <- 3, MaxPasses <- 1

BrowserInit ==
    /\ part \in {"saves", "history", "events"}
    /\ Init /\ History!Init /\ JobEventsInit
SavesStep(A) == part = "saves" /\ A /\ UNCHANGED <<part, historyVars, followVars>>
HistoryStep == part = "history" /\ History!Next /\ UNCHANGED <<part, vars, followVars>>
EventsStep(A) == part = "events" /\ A /\ UNCHANGED <<part, vars, historyVars>>
BrowserNext == SavesStep(Next) \/ HistoryStep \/ EventsStep(JobEventsNext)

\* The fairness of TranscriptSaves and of JobEvents.
BrowserSpec ==
    /\ BrowserInit /\ [][BrowserNext]_browserVars
    /\ WF_browserVars(SavesStep(TimerFires)) /\ WF_browserVars(SavesStep(SaveSucceeds))
    /\ WF_browserVars(SavesStep(SaveRefused)) /\ WF_browserVars(SavesStep(HandlePatch))
    /\ WF_browserVars(SavesStep(ReadBack))
    /\ WF_browserVars(EventsStep(ReadSnapshot)) /\ WF_browserVars(EventsStep(Arrive))
    /\ WF_browserVars(EventsStep(Answered)) /\ WF_browserVars(EventsStep(Asks))

-----------------------------------------------------------------------------
\* What the user typed is kept and what the page shows as saved is stored, through
\* every failure, refusal and refetch.
DraftKept == TypedKept /\ SavedIsStored

\* Whatever windows do to a transcript at once, its active segments stay one
\* timeline, its undo leads back to the text before, and splits and merges change
\* no word.
HistoryKept ==
    /\ [](History!TimelineWhole /\ History!UndoLeadsBack)
    /\ History!WordsSurvive

\* No page is left behind: a draft is saved or its failure shown, and a page whose
\* job has ended shows that it has.
PagesSettle == DraftSettles /\ EndIsShown
=============================================================================
