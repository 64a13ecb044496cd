---------------------------- MODULE BatchImports ----------------------------
(***************************************************************************)
(* The import list of the browser (batchImports.ts) and the calls of the    *)
(* API it makes for an item: the upload of a recording under the item's id, *)
(* a clip of it and a job, both under the item's id as submission key.  Two *)
(* tabs share the saved list.  A request goes on at the server when its tab *)
(* stops or is reloaded, or when its answer is lost.  Which waiting item    *)
(* drain() takes first is left open.                                        *)
(***************************************************************************)
EXTENDS Naturals, FiniteSets

CONSTANTS Items, Tabs,
          MaxStops,     \* stops, reloads and removals of items being imported
          MaxLost       \* lost answers

ASSUME ImportsAssumption ==
    /\ "gone" \notin Tabs /\ "none" \notin Items
    /\ MaxStops \in Nat /\ MaxLost \in Nat

VARIABLES
    items,       \* the list of each tab: the state of an item and its range
    saved,       \* the list in localStorage, written by every change of a tab
    draining,    \* the item drain() of a tab works on, or NoItem
    requests,    \* at the server; "gone" is the tab of one nobody waits for
    uploaded,    \* items whose recording is stored
    clips,       \* recordings cut for an item: its key and range
    jobs,        \* rows of jobs: id, submission key and range of the recording
    quota        \* stops and lost answers left

importVars == <<items, saved, draining, requests, uploaded, clips, jobs, quota>>

NoItem == "none"
New == [state |-> "new", range |-> "whole"]
\* "ask" is prepare_only; "a" and "b" are clips.
Item == [state : {"new", "waiting", "uploading", "prepared", "submitting", "done", "error", "removed"},
         range : {"ask", "whole", "a", "b"}]
ApiRequest == [tab : Tabs \cup {"gone"}, item : Items, call : {"get", "put", "clip", "job"},
               range : {"ask", "whole", "a", "b"}, at : {"checking", "storing"},
               stamp : [stops : 0..MaxStops, lost : 0..MaxLost]]

ImportTypeOK ==
    /\ items \in [Tabs -> [Items -> Item]] /\ saved \in [Items -> Item]
    /\ draining \in [Tabs -> Items \cup {NoItem}] /\ requests \subseteq ApiRequest
    /\ uploaded \subseteq Items /\ clips \subseteq Items \X {"a", "b"}
    /\ jobs \subseteq [id : Nat \ {0}, key : Items, range : {"whole", "a", "b"}]
    /\ quota \in [stops : 0..MaxStops, lost : 0..MaxLost]

ImportsInit ==
    /\ items = [t \in Tabs |-> [i \in Items |-> New]] /\ saved = [i \in Items |-> New]
    /\ draining = [t \in Tabs |-> NoItem]
    /\ requests = {} /\ uploaded = {} /\ clips = {} /\ jobs = {}
    /\ quota = [stops |-> MaxStops, lost |-> MaxLost]

serverVars == <<uploaded, clips, jobs>>

\* A change of a tab's list is saved whole.
SetList(t, list) == items' = [items EXCEPT ![t] = list] /\ saved' = list
SetState(t, i, state) == SetList(t, [items[t] EXCEPT ![i].state = state])

Sent(t, i, call, range) ==
    [tab |-> t, item |-> i, call |-> call, range |-> range, at |-> "checking", stamp |-> quota]
Orphaned(S) == {[r EXCEPT !.tab = "gone"] : r \in S}
RequestsOf(t) == {r \in requests : r.tab = t}
Abandoned(t) == (requests \ RequestsOf(t)) \cup Orphaned(RequestsOf(t))

-----------------------------------------------------------------------------
(* drain(): one item at a time in a tab.                                    *)

TakeItem(t, i) ==
    /\ draining[t] = NoItem /\ items[t][i].state = "waiting"
    /\ draining' = [draining EXCEPT ![t] = i]
    /\ SetState(t, i, "uploading")
    /\ requests' = requests \cup {Sent(t, i, "get", items[t][i].range)}
    /\ UNCHANGED <<serverVars, quota>>

\* What drain() does with a request's good answer; r is no longer at the server.
Submit(t, i, range, rest) ==
    /\ SetState(t, i, "submitting")
    /\ requests' = rest \cup {Sent(t, i, "job", range)} /\ UNCHANGED draining
GoOn(r, rest) ==
    LET t == r.tab  i == r.item IN
    IF t = "gone" THEN requests' = rest /\ UNCHANGED <<items, saved, draining>>
    ELSE IF r.call = "job"
         THEN SetState(t, i, "done") /\ draining' = [draining EXCEPT ![t] = NoItem] /\ requests' = rest
    ELSE IF r.call = "clip" THEN Submit(t, i, r.range, rest)
    ELSE \/ /\ r.range = "ask" /\ SetState(t, i, "prepared")
            /\ draining' = [draining EXCEPT ![t] = NoItem] /\ requests' = rest
         \/ /\ r.range \in {"a", "b"} /\ requests' = rest \cup {Sent(t, i, "clip", r.range)}
            /\ UNCHANGED <<items, saved, draining>>
         \/ r.range = "whole" /\ Submit(t, i, r.range, rest)

Answers(r) == GoOn(r, requests \ {r})

\* An error answer.
Refuse(r) ==
    /\ requests' = requests \ {r}
    /\ IF r.tab = "gone" THEN UNCHANGED <<items, saved, draining>>
       ELSE /\ SetState(r.tab, r.item, "error")
            /\ draining' = [draining EXCEPT ![r.tab] = NoItem]

\* The answer is lost: an error for the tab, unless it asked for a recording.
Lost(r) ==
    /\ r.tab # "gone" /\ r.call # "get" /\ quota.lost > 0 /\ quota' = [quota EXCEPT !.lost = @ - 1]
    /\ requests' = (requests \ {r}) \cup Orphaned({r})
    /\ SetState(r.tab, r.item, "error") /\ draining' = [draining EXCEPT ![r.tab] = NoItem]
    /\ UNCHANGED serverVars

-----------------------------------------------------------------------------
(* The API.                                                                 *)

Stored(r) == requests' = (requests \ {r}) \cup {[r EXCEPT !.at = "storing"]}

\* GET of the recording: a recording nobody has, or any error, is uploaded.
Recording(r) ==
    /\ r.call = "get"
    /\ \/ r.item \in uploaded /\ Answers(r)
       \/ /\ requests' = (requests \ {r})
                          \cup (IF r.tab = "gone" THEN {} ELSE {Sent(r.tab, r.item, "put", r.range)})
          /\ UNCHANGED <<items, saved, draining>>
    /\ UNCHANGED <<serverVars, quota>>

\* upload_recording: known recordings are returned, before and after the upload.
Upload(r) ==
    /\ r.call = "put"
    /\ \/ r.item \in uploaded /\ Answers(r) /\ UNCHANGED uploaded
       \/ /\ r.at = "checking" /\ r.item \notin uploaded /\ Stored(r)
          /\ UNCHANGED <<items, saved, draining, uploaded>>
       \/ r.at = "storing" /\ uploaded' = uploaded \cup {r.item} /\ Answers(r)
       \/ Refuse(r) /\ UNCHANGED uploaded
    /\ UNCHANGED <<clips, jobs, quota>>

\* create_recording_clip: the key's clip is returned when its range is the same;
\* the unique column decides between two that are cut at once.
ClipOf(i) == {c \in clips : c[1] = i}
Clip(r) ==
    /\ r.call = "clip"
    /\ \/ <<r.item, r.range>> \in clips /\ Answers(r) /\ UNCHANGED clips
       \/ ClipOf(r.item) \ {<<r.item, r.range>>} # {} /\ Refuse(r) /\ UNCHANGED clips
       \/ /\ r.at = "checking" /\ ClipOf(r.item) = {} /\ Stored(r)
          /\ UNCHANGED <<items, saved, draining, clips>>
       \/ /\ r.at = "storing" /\ ClipOf(r.item) = {} /\ clips' = clips \cup {<<r.item, r.range>>}
          /\ Answers(r)
       \/ Refuse(r) /\ UNCHANGED clips
    /\ UNCHANGED <<uploaded, jobs, quota>>

\* create_job in one immediate transaction: the key's job is returned when its
\* options, the recording among them, are the same.
JobOf(i) == {j \in jobs : j.key = i}
AnyOptions(j, r) == j.key = r.item
SameOptions(j, r) == j.range = r.range
CreateJob(r) ==
    /\ r.call = "job"
    /\ \/ /\ JobOf(r.item) = {} /\ Answers(r)
          /\ jobs' = jobs \cup {[id |-> Cardinality(jobs) + 1, key |-> r.item, range |-> r.range]}
       \/ /\ \E j \in JobOf(r.item) : IF SameOptions(j, r) THEN Answers(r) ELSE Refuse(r)
          /\ UNCHANGED jobs
       \/ Refuse(r) /\ UNCHANGED jobs
    /\ UNCHANGED <<uploaded, clips, quota>>

-----------------------------------------------------------------------------
(* The user.                                                                *)

\* An id is random: no tab has seen it.
AddImport(t, i) ==
    /\ \A u \in Tabs : items[u][i].state = "new"
    /\ saved[i].state = "new"
    /\ \E range \in {"ask", "whole"} :
         SetList(t, [items[t] EXCEPT ![i] = [state |-> "waiting", range |-> range]])
    /\ UNCHANGED <<draining, requests, serverVars, quota>>

SubmitPrepared(t, i) ==
    /\ items[t][i].state = "prepared"
    /\ \E range \in {"whole", "a", "b"} :
         SetList(t, [items[t] EXCEPT ![i] = [state |-> "waiting", range |-> range]])
    /\ UNCHANGED <<draining, requests, serverVars, quota>>

RetryImport(t, i) ==
    /\ items[t][i].state = "error" /\ SetState(t, i, "waiting")
    /\ UNCHANGED <<draining, requests, serverVars, quota>>

Stops == quota.stops > 0 /\ quota' = [quota EXCEPT !.stops = @ - 1]
Abort(t) == requests' = Abandoned(t) /\ draining' = [draining EXCEPT ![t] = NoItem]

\* stopImports: everything that waits or is being imported.
StopImports(t) ==
    /\ Stops
    /\ SetList(t, [i \in Items |->
           IF items[t][i].state = "waiting" \/ draining[t] = i
           THEN [items[t][i] EXCEPT !.state = "error"] ELSE items[t][i]])
    /\ Abort(t) /\ UNCHANGED serverVars

RemoveImport(t, i) ==
    /\ items[t][i].state \notin {"new", "removed"} /\ SetState(t, i, "removed")
    /\ IF draining[t] = i THEN Stops /\ Abort(t) ELSE UNCHANGED <<quota, draining, requests>>
    /\ UNCHANGED serverVars

\* restored(): only what is done or prepared is kept as it was.
Restored(item) ==
    IF item.state \in {"new", "removed", "done", "prepared"} THEN item ELSE [item EXCEPT !.state = "error"]
Reload(t) ==
    /\ Stops /\ items' = [items EXCEPT ![t] = [i \in Items |-> Restored(saved[i])]]
    /\ Abort(t) /\ UNCHANGED <<saved, serverVars>>

ImportsNext ==
    \/ \E t \in Tabs : StopImports(t) \/ Reload(t)
    \/ \E t \in Tabs, i \in Items :
         \/ AddImport(t, i) \/ TakeItem(t, i) \/ SubmitPrepared(t, i)
         \/ RetryImport(t, i) \/ RemoveImport(t, i)
    \/ \E r \in requests : Recording(r) \/ Upload(r) \/ Clip(r) \/ CreateJob(r) \/ Lost(r)

ImportsSpec == ImportsInit /\ [][ImportsNext]_importVars

-----------------------------------------------------------------------------
\* However often an import is stopped, reloaded or tried again, in two tabs, it
\* has one job, on the recording or on one clip of it (batchImports.ts:182-233).
OneJobEach == \A i \in Items : Cardinality(JobOf(i)) <= 1 /\ Cardinality(ClipOf(i)) <= 1

\* A tab that shows an import as done has shown the range its job is about.
DoneIsSubmitted ==
    \A t \in Tabs, i \in Items :
        items[t][i].state = "done" => \E j \in JobOf(i) : j.range = items[t][i].range
=============================================================================
