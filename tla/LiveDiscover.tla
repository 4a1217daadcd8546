----------------------------- MODULE LiveDiscover -----------------------------
(******************************************************************************)
(* A list of objects on the page of an application: useGraffitiDiscover of    *)
(* the Vue plugin, over the synchronize wrapper, over the local objects.      *)
(*                                                                            *)
(* The wrapper hands everything that this page posts, deletes, gets or takes  *)
(* from a stream to the listeners of the page; writers of other tabs share    *)
(* the database and nothing else.  The list is filled by its listener alone,  *)
(* and polled by a stream.  When the arguments change, or a poll has failed,  *)
(* a watcher starts again with a new listener and a new stream: the readers   *)
(* of LocalObjects are the runs of the watcher, and the last one is active.   *)
(******************************************************************************)
EXTENDS LocalObjects

CONSTANTS
  Page,     \* the writers of this page
  MaxRuns   \* bound: runs of the watcher

ASSUME RunsAreReaders == MaxRuns \in Nat \ {0} /\ Readers = 1..MaxRuns

VARIABLES
  run,        \* the active run
  listening,  \* its listener is among the callbacks of the wrapper
  raw,        \* objectsRaw
  shown,      \* objects
  failed,     \* the poll failed and restartTimer runs
  getting,    \* gets of this page that have read their object
  late        \* history: deleted objects that the listener was given after
              \* their deletion, by a call that had read them before, or that
              \* were on the list when its first stream began

view == <<run, listening, raw, shown, failed, getting, late>>
all  == <<vars, view>>

ViewInit ==
  /\ Init
  /\ run = 1 /\ listening = FALSE
  /\ raw = {} /\ shown = {}
  /\ failed = FALSE
  /\ getting = {} /\ late = {}

-------------------------------------------------------------------------------
\* The listener has the filters of the stream.
MatchObject(u) == Discoverable(u)

\* synchronizeDispatch, and the loop of the watcher over its listener.
Dispatch(u, state) ==
  raw' = IF ~listening \/ ~MatchObject(u) THEN raw
         ELSE IF state = "dead" THEN raw \ {u} ELSE raw \cup {u}

Hindsight(u, state) ==
  late' = IF state = "live" /\ docs[u].state = "dead" THEN late \cup {u}
          ELSE late

\* The calls of writers; those of this page are dispatched when they return.
Write1(w) == (ReadClock(w) \/ Put(w) \/ Refused(w)) /\ UNCHANGED view

ReturnOfPage(w) ==
  /\ w \in Page /\ Return(w)
  /\ Dispatch(op[w].url, op[w].result) /\ Hindsight(op[w].url, op[w].result)
  /\ UNCHANGED <<run, listening, shown, failed, getting>>

ReturnElsewhere(w) == w \notin Page /\ Return(w) /\ UNCHANGED view

Found(u) == docs[u].state = "live"

\* A get of this page: its answer, and the dispatch of it.
Get(u) ==
  /\ Found(u) /\ u \notin getting
  /\ getting' = getting \cup {u}
  /\ UNCHANGED <<vars, run, listening, raw, shown, failed, late>>

GetReturns(u) ==
  /\ u \in getting /\ getting' = getting \ {u}
  /\ Dispatch(u, "live") /\ Hindsight(u, "live")
  /\ UNCHANGED <<vars, run, listening, shown, failed>>

-------------------------------------------------------------------------------
(* The watcher. *)

\* New arguments, or the timer of a failed poll.  The listener of the old run
\* is removed, and its stream closed.
Watch ==
  /\ run < MaxRuns /\ run' = run + 1
  /\ listening' = FALSE
  /\ raw' = {} /\ shown' = {}
  /\ failed' = FALSE
  /\ UNCHANGED <<vars, getting, late>>

\* The listener is added once the schema is compiled.
Listen ==
  /\ ~listening /\ listening' = TRUE
  /\ UNCHANGED <<vars, run, raw, shown, failed, getting, late>>

\* poll_ waits for the batch of the poll before, and its stream compiles the
\* schema after the listener did.
Ready == listening /\ shown = raw

\* poll_: the first call discovers, the next ones continue.
PollAgain ==
  /\ Ready
  /\ IF stream[run].hasCursor THEN ContinueDiscover(run) ELSE Discover(run)
  /\ UNCHANGED view

\* The stream of the active run; the stream of an old run, which was closed
\* while it waited, goes on to its next object.  A first stream returns no
\* tombstones, so what it finds on the list it leaves there.
StartStream(r) ==
  /\ ReadStartTime(r)
  /\ late' = IF r = run /\ ~stream[r].continues
             THEN late \cup {u \in raw : docs[u].state = "dead"} ELSE late
  /\ UNCHANGED <<run, listening, raw, shown, failed, getting>>

AskChannel(r) == QueryChannel(r) /\ UNCHANGED view

Deliver(u) ==
  /\ Yield(run, u)
  /\ Dispatch(u, stream[run].batch[u])
  /\ UNCHANGED <<run, listening, shown, failed, getting, late>>

\* objectStream dispatches what it was waiting for, and ends.
LastOfClosed(r, u) ==
  /\ r < run
  /\ stream[r].pc = "query" /\ stream[r].batch[u] # "none"
  /\ stream' = [stream EXCEPT ![r] = NewStream]
  /\ Dispatch(u, stream[r].batch[u]) /\ Hindsight(u, stream[r].batch[u])
  /\ UNCHANGED <<data, op, known, ops, run, listening, shown, failed, getting>>

\* A completed poll clears the timer of one that failed.
Complete(r) ==
  /\ ReturnCursor(r)
  /\ failed' = (failed /\ r # run)
  /\ UNCHANGED <<run, listening, raw, shown, getting, late>>

\* A call of PouchDB fails, and with it the poll; the watcher starts again
\* later, or the page polls again before.
PollFails ==
  /\ run < MaxRuns
  /\ stream[run].pc # "idle" /\ stream[run].batch = Unknown
  /\ stream' = [stream EXCEPT ![run].pc = "idle"]
  /\ failed' = TRUE
  /\ UNCHANGED <<data, op, known, ops, run, listening, raw, shown, getting, late>>

MutFlatten == shown # raw /\ raw # {} /\ shown' = raw
\* The batch timer shows what the listener has collected.
FlattenBatch == shown # raw /\ shown' = raw

Flatten ==
  /\ FlattenBatch
  /\ UNCHANGED <<vars, run, listening, raw, failed, getting, late>>

Stream(r) == StartStream(r) \/ AskChannel(r) \/ Complete(r) \/ \E u \in Urls : LastOfClosed(r, u)
Work(w) == Write1(w) \/ ReturnOfPage(w) \/ ReturnElsewhere(w)

ViewNext ==
  \/ \E w \in Writers, u \in Urls : (Post(w, u) \/ Delete(w, u)) /\ UNCHANGED view
  \/ \E w \in Writers : Work(w)
  \/ \E u \in Urls : Get(u) \/ GetReturns(u) \/ Deliver(u)
  \/ \E r \in 1..run : Stream(r)
  \/ Watch \/ Listen \/ PollAgain \/ PollFails \/ Flatten

\* PouchDB answers; autopoll is on, so a completed poll is followed by another;
\* timers fire.
FairViewSpec ==
  /\ ViewInit /\ [][ViewNext]_all
  /\ \A w \in Writers : WF_all(Work(w))
  /\ \A u \in Urls : WF_all(GetReturns(u))
  /\ \A r \in Readers : WF_all(r <= run /\ Stream(r))
  /\ WF_all(\E u \in Urls : Deliver(u))
  /\ WF_all(~failed /\ PollAgain)
  /\ WF_all(failed /\ Watch)
  /\ WF_all(Listen) /\ WF_all(Flatten)

-------------------------------------------------------------------------------
ViewTypeOK ==
  /\ TypeOK
  /\ run \in 1..MaxRuns /\ listening \in BOOLEAN /\ failed \in BOOLEAN
  /\ raw \cup shown \subseteq {u \in Matching : docs[u].state # "none"}
  /\ getting \cup late \subseteq {u \in Urls : docs[u].state # "none"}

\* What the list is answerable for: objects whose write was not overtaken, and
\* that no slow call has brought back.
Settled(u) == Discoverable(u) /\ ~Overtaken(u) /\ u \notin late

\* The list is what the cursor stands for: an object is on it exactly when it
\* is in the database, but for changes that the next poll will ask for.  The
\* list is told by the listener and the cursor by the stream; a listener added
\* late, or a poll that a restart leaves behind, would tell them apart.
ListFollowsCursor ==
  \A u \in Urls :
    /\ stream[run].hasCursor /\ Settled(u)
    /\ docs[u].state # "none" /\ docs[u].lastModified < stream[run].cursor
    => (u \in raw <=> docs[u].state = "live")

\* Once nothing is written the list becomes, and stays, what is in the database.
ListConverges ==
  \A u \in Urls :
    <>[](Settled(u) => (u \in shown <=> docs[u].state = "live"))
===============================================================================
