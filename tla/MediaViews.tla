------------------------------ MODULE MediaViews ------------------------------
(***************************************************************************)
(* Media from its author to the pages that show it: postMedia() and        *)
(* deleteMedia() of the author, getMedia(), and the composable             *)
(* useGraffitiGetMedia, whose instances share the fetches of a session     *)
(* until they expire, are evicted, or an instance polls.                   *)
(***************************************************************************)
EXTENDS Integers, Sequences, FiniteSets

CONSTANTS
  Views,       \* instances of the composable
  Media,
  Users,       \* sessions, and the lack of one
  Readers,     \* who finds the record of a medium
  Images,      \* media that may be cached
  Acceptable,  \* media of the type and size that the views accept
  MaxImages,   \* images that fit in a cache
  Starts,      \* what the views may first ask for
  Undefined,   \* of Vue: loading, and of a map: no entry
  MaxEvents    \* bound: what the author, users, time and failures do

NotFound == 0

VARIABLES
  record,   \* the record of a medium, which everyone finds by its URL
  bytes,    \* the bytes of a medium are in the bucket
  author,   \* where its author is with a medium
  fetches,  \* every call of getMedia()
  caches,   \* sessionCaches and anonymousCache: fetches, the next evicted first
  view,     \* an instance of the composable
  runs,     \* callbacks of a watch that wait for a fetch
  events,   \* how much of the bound is spent
  asked,    \* history: the fetches there were when a view was polled, and whether
            \* its arguments changed since
  late      \* history: of polls that ended with an older fetch, whether they did

mediaVars == <<record, bytes, author, fetches, caches, view, runs, events, asked, late>>

\* What a view may ask for: the URL of a medium is known once it is posted.
Known == [media : {m \in Media : author[m] \notin {"new", "half"}}, user : Users]

NotAsked == [fetches |-> 0, moved |-> FALSE]

MediaInit ==
  /\ fetches = <<>>
  /\ caches = [u \in Users |-> <<>>]
  /\ \E a \in Starts : LET m == a.media IN
       /\ record = [x \in Media |-> IF x = m THEN "live" ELSE "none"]
       /\ bytes = [x \in Media |-> x = m]
       /\ author = [x \in Media |-> IF x = m THEN "posted" ELSE "new"]
       /\ view = [v \in Views |-> [args |-> a, watched |-> Undefined,
                                   polls |-> 0, handled |-> 0, polling |-> FALSE,
                                   shown |-> Undefined, error |-> FALSE, urls |-> 0,
                                   mounted |-> TRUE]]
  /\ runs = {}
  /\ events = 0
  /\ asked = [v \in Views |-> NotAsked]
  /\ late = {}
-----------------------------------------------------------------------------
(* The author: two calls, of two requests each, that may stop between them. *)

MutOrder(first, second) == <<second, first>>  \* mutant: the record first
InOrder(first, second) == <<first, second>>

Steps == [new      |-> InOrder("bytes", "record")[1],
          half     |-> InOrder("bytes", "record")[2],
          posted   |-> InOrder("record", "bytes")[1],
          deleting |-> InOrder("record", "bytes")[2]]
After == [new |-> "half", half |-> "posted", posted |-> "deleting", deleting |-> "deleted"]

\* postMedia() puts the bytes, then posts the record; deleteMedia() deletes the
\* record, then the bytes.
Author(m) ==
  LET posting == author[m] \in {"new", "half"}
  IN /\ author[m] # "deleted" /\ events < MaxEvents
     /\ events' = events + 1
     /\ author' = [author EXCEPT ![m] = After[author[m]]]
     /\ \/ /\ Steps[author[m]] = "bytes"
           /\ bytes' = [bytes EXCEPT ![m] = posting]
           /\ UNCHANGED record
        \/ /\ Steps[author[m]] = "record"
           /\ record' = [record EXCEPT ![m] = IF posting THEN "live" ELSE "deleted"]
           /\ UNCHANGED bytes
     /\ UNCHANGED <<fetches, caches, view, runs, asked, late>>
-----------------------------------------------------------------------------
(* getMedia().                                                             *)

\* A view shows a medium: the value of the ref is the fetch that found it.
Shows(x) == x \in DOMAIN fetches

Settled(n) == fetches[n].pc \in {"found", "not found", "failed"}

\* What trimCache() leaves: nothing expired, and not more images than fit.
ImagesIn(c, fs) == {i \in DOMAIN c : fs[c[i]].pc = "found"}
Trimmed(c, fs) ==
  LET fresh == SelectSeq(c, LAMBDA n : ~fs[n].expired)
      over == Cardinality(ImagesIn(fresh, fs)) - MaxImages
      Goes(i) == /\ i \in ImagesIn(fresh, fs)
                 /\ Cardinality({j \in ImagesIn(fresh, fs) : j <= i}) <= over
      kept == {i \in DOMAIN fresh : ~Goes(i)}
  IN [k \in 1..Cardinality(kept) |->
        fresh[CHOOSE i \in kept : Cardinality({j \in kept : j <= i}) = k]]

\* A fetch is settled: only an image stays in the cache, if the fetch is still there.
SettleFetch(n, pc) ==
  LET u == fetches[n].user
      fs == [fetches EXCEPT ![n].pc = pc]
      cached == \E i \in DOMAIN caches[u] : caches[u][i] = n
      left == IF pc = "found" /\ fetches[n].media \in Images
              THEN Trimmed(caches[u], fs)
              ELSE SelectSeq(caches[u], LAMBDA k : k # n)
  IN /\ fetches' = fs
     /\ caches' = IF cached THEN [caches EXCEPT ![u] = left] ELSE caches

\* getRecord(), and the checks of what the view accepts.
FetchRecord(n) ==
  LET m == fetches[n].media
  IN /\ fetches[n].pc = "record"
     /\ \/ /\ record[m] = "live" /\ fetches[n].user \in Readers[m] /\ m \in Acceptable
           /\ fetches' = [fetches EXCEPT ![n].pc = "bytes"]
           /\ UNCHANGED caches
        \/ /\ record[m] = "live" /\ fetches[n].user \in Readers[m] /\ m \notin Acceptable
           /\ SettleFetch(n, "failed")
        \/ /\ ~(record[m] = "live" /\ fetches[n].user \in Readers[m])
           /\ SettleFetch(n, "not found")
     /\ UNCHANGED <<record, bytes, author, view, runs, events, asked, late>>

\* The bytes from the bucket of the actor.
FetchBytes(n) ==
  /\ fetches[n].pc = "bytes"
  /\ SettleFetch(n, IF bytes[fetches[n].media] THEN "found" ELSE "not found")
  /\ UNCHANGED <<record, bytes, author, view, runs, events, asked, late>>

FetchFails(n) ==
  /\ ~Settled(n) /\ events < MaxEvents
  /\ SettleFetch(n, "failed")
  /\ events' = events + 1
  /\ UNCHANGED <<record, bytes, author, view, runs, asked, late>>

\* Five minutes after a fetch.
Expire(n) ==
  /\ fetches[n].pc = "found" /\ ~fetches[n].expired /\ events < MaxEvents
  /\ fetches' = [fetches EXCEPT ![n].expired = TRUE]
  /\ events' = events + 1
  /\ UNCHANGED <<record, bytes, author, caches, view, runs, asked, late>>
-----------------------------------------------------------------------------
(* The composable.                                                         *)

\* The arguments of a view change: another medium, or a login or logout.
Change(v) ==
  \E a \in Known \ {view[v].args} :
    /\ view[v].mounted /\ events < MaxEvents
    /\ view' = [view EXCEPT ![v].args = a]
    /\ asked' = [asked EXCEPT ![v].moved = view[v].polling]
    /\ events' = events + 1
    /\ UNCHANGED <<record, bytes, author, fetches, caches, runs, late>>

\* poll(): joins the poll that runs, or asks the watch for one.
Poll(v) ==
  /\ view[v].mounted /\ ~view[v].polling /\ events < MaxEvents
  /\ view' = [view EXCEPT ![v].polls = @ + 1, ![v].polling = TRUE]
  /\ asked' = [asked EXCEPT ![v] = [fetches |-> Len(fetches), moved |-> FALSE]]
  /\ events' = events + 1
  /\ UNCHANGED <<record, bytes, author, fetches, caches, runs, late>>

Watches(v) == [polls |-> view[v].polls, args |-> view[v].args]

MutStillActive(v) == runs  \* mutant: an invalidated run goes on
\* The runs that still wait when those of v are invalidated.
StillActive(v) == {r \in runs : r.view # v}

MutForced(v) == FALSE  \* mutant: a poll takes what is cached
Forced(v) == view[v].polls # view[v].handled

\* The watch of a view runs: it starts a fetch, or joins a cached one.
Watch(v) ==
  LET a == view[v].args
      Of(n) == fetches[n].media = a.media
      same == SelectSeq(caches[a.user], Of)
      others == SelectSeq(caches[a.user], LAMBDA n : ~Of(n))
      hit == same # <<>> /\ ~Forced(v) /\ ~fetches[Head(same)].expired
      n == IF hit THEN Head(same) ELSE Len(fetches) + 1
  IN /\ view[v].mounted /\ view[v].watched # Watches(v)
     /\ view' = [view EXCEPT ![v].watched = Watches(v), ![v].handled = view[v].polls,
                             ![v].shown = Undefined, ![v].error = FALSE,
                             ![v].urls = @ - (IF Shows(view[v].shown) THEN 1 ELSE 0)]
     /\ caches' = [caches EXCEPT ![a.user] = Append(others, n)]
     /\ fetches' = IF hit THEN fetches
                   ELSE Append(fetches, [media |-> a.media, user |-> a.user,
                                         pc |-> "record", expired |-> FALSE])
     /\ runs' = StillActive(v) \cup {[view |-> v, fetch |-> n, polls |-> view[v].polls]}
     /\ UNCHANGED <<record, bytes, author, events, asked, late>>

MutEndsPoll(r) ==  \* mutant: a failure does not end the poll
  r.polls = view[r.view].polls /\ fetches[r.fetch].pc = "found"
\* "An invalidated request must not complete a newer poll."
EndsPoll(r) == r.polls = view[r.view].polls

\* The fetch that a run waits for is settled.
Resume(r) ==
  LET v == r.view
      found == fetches[r.fetch].pc = "found"
      ends == EndsPoll(r) /\ view[v].polling
  IN /\ Settled(r.fetch)
     /\ runs' = runs \ {r}
     /\ view' = [view EXCEPT ![v].shown = IF found THEN r.fetch ELSE NotFound,
                                  ![v].error = (fetches[r.fetch].pc = "failed"),
                                  ![v].urls = @ + (IF found THEN 1 ELSE 0),
                                  ![v].polling = @ /\ ~EndsPoll(r)]
     /\ late' = IF ends /\ r.fetch <= asked[v].fetches
                THEN late \cup {asked[v].moved} ELSE late
     /\ asked' = IF ends THEN [asked EXCEPT ![v] = NotAsked] ELSE asked
     /\ UNCHANGED <<record, bytes, author, fetches, caches, events>>

\* The component is unmounted.
Dispose(v) ==
  /\ view[v].mounted /\ events < MaxEvents
  /\ events' = events + 1
  /\ view' = [view EXCEPT ![v].mounted = FALSE, ![v].polling = FALSE,
                          ![v].urls = @ - (IF Shows(view[v].shown) THEN 1 ELSE 0)]
  /\ runs' = StillActive(v)
  /\ asked' = [asked EXCEPT ![v] = NotAsked]
  /\ UNCHANGED <<record, bytes, author, fetches, caches, late>>

\* Requests are answered, and callbacks run.
MediaProgress ==
  \/ \E n \in DOMAIN fetches : FetchRecord(n) \/ FetchBytes(n) \/ FetchFails(n)
  \/ \E v \in Views : Watch(v)
  \/ \E r \in runs : Resume(r)

MediaNext ==
  \/ MediaProgress
  \/ \E m \in Media : Author(m)
  \/ \E n \in DOMAIN fetches : Expire(n)
  \/ \E v \in Views : Change(v) \/ Poll(v) \/ Dispose(v)
-----------------------------------------------------------------------------
\* A view shows only what was fetched for its medium and its session, in spite
\* of the caches and of fetches that come late, and holds a data URL exactly as
\* long as it shows one.
ViewsAreOwn ==
  \A v \in Views : view[v].mounted =>
    LET n == view[v].shown IN
      /\ view[v].urls = IF Shows(n) THEN 1 ELSE 0
      /\ Shows(n) => /\ fetches[n].pc = "found"
                      /\ fetches[n].media = view[v].watched.args.media
                      /\ fetches[n].user = view[v].watched.args.user

\* "Polling bypasses that cache and checks Graffiti again": a poll ends with a
\* fetch that was made after it was asked for, if the arguments did not change.
PollsAreFresh == FALSE \notin late

\* The same, also when the arguments of the view changed since.
PollsBypassTheCache == late = {}

\* A medium whose record is found has its bytes, unless it is being deleted.
FoundHasBytes ==
  \A n \in DOMAIN fetches : fetches[n].pc = "bytes" =>
    bytes[fetches[n].media] \/ record[fetches[n].media] = "deleted"

PollsRun == \E v \in Views : view[v].polling

\* Every poll ends, whatever changes, fails or goes away meanwhile.
PollsEnd == PollsRun ~> ~PollsRun
=============================================================================
