-------------------------------- MODULE LiveGet --------------------------------
(***************************************************************************)
(* One object on the page of an application: useGraffitiGet of the Vue     *)
(* plugin, over the synchronize wrapper.  A run of its watcher has a       *)
(* listener for the object and polls it with get(); what the page, or any  *)
(* other part of it, gets or deletes reaches the listener.  The runs of    *)
(* earlier arguments end, but their gets are still on their way.           *)
(***************************************************************************)
EXTENDS Integers, FiniteSets

CONSTANTS
  Urls,
  Users,        \* sessions
  Audience,     \* by url: the sessions that are allowed the object
  InProcess,    \* gets compile the schema of the listener, after it did
  Null,         \* not found, or the get failed
  Undefined,    \* loading
  MaxGetEvents  \* bound: what users, other tabs and failures do; and one get besides

VARIABLES
  stored,     \* urls whose object is in its bucket
  args,       \* the url and the session that the view is for
  run,        \* runs of the watcher
  mounted,
  listening,  \* the listener of the last run is among the callbacks
  object,     \* what the view shows
  failed,     \* error
  polling,    \* pollPromise of the last run: None, Getting, or Settling
  calls,      \* gets on their way; the run of a poll, or 0
  erased,     \* deletions of this page that have not returned
  outdated,   \* history: the view was not told, or was told too late, of a deletion
  getEvents

getVars == <<stored, args, run, mounted, listening, object, failed, polling, calls,
             erased, outdated, getEvents>>

Args == [url : Urls, user : Users]
Call(r, a) == [run |-> r, url |-> a.url, user |-> a.user, answer |-> "asked"]

GetInit ==
  /\ stored \in SUBSET Urls
  /\ \E a \in Args : args = a /\ calls = {Call(1, a)}
  /\ run = 1 /\ mounted = TRUE /\ listening = FALSE
  /\ object = Undefined /\ failed = FALSE /\ polling = "getting"
  /\ erased = {} /\ outdated = FALSE /\ getEvents = 0

Happens == getEvents < MaxGetEvents /\ getEvents' = getEvents + 1

\* New arguments: the old listener is removed, and the new run polls at once.
Watch(a) ==
  /\ Happens /\ mounted /\ a # args /\ args' = a
  /\ run' = run + 1 /\ listening' = FALSE
  /\ object' = Undefined /\ failed' = FALSE /\ outdated' = FALSE
  /\ polling' = "getting" /\ calls' = calls \cup {Call(run + 1, a)}
  /\ UNCHANGED <<stored, mounted, erased>>

Unmount ==
  /\ Happens /\ mounted /\ mounted' = FALSE /\ listening' = FALSE
  /\ UNCHANGED <<stored, args, run, object, failed, polling, calls, erased, outdated>>

\* The schema is compiled, and the listener added.
Listen ==
  /\ mounted /\ ~listening /\ listening' = TRUE
  /\ UNCHANGED <<stored, args, run, mounted, object, failed, polling, calls, erased,
                 outdated, getEvents>>

\* poll(), unless a poll is running, which it waits for.
Poll ==
  /\ Happens /\ mounted /\ polling = "none" /\ polling' = "getting"
  /\ object' = (IF failed THEN Undefined ELSE object) /\ failed' = FALSE
  /\ calls' = calls \cup {Call(run, args)}
  /\ UNCHANGED <<stored, args, run, mounted, listening, erased, outdated>>

\* Another part of the page gets an object.
GetBesides(a) ==
  /\ Happens /\ \A c \in calls : c.run # 0
  /\ calls' = calls \cup {Call(0, a)}
  /\ UNCHANGED <<stored, args, run, mounted, listening, object, failed, polling,
                 erased, outdated>>

\* What a get comes to is decided when the object is read.
Answered(c, answer) ==
  /\ c.answer = "asked"
  /\ calls' = (calls \ {c}) \cup {[c EXCEPT !.answer = answer]}
  /\ UNCHANGED <<stored, args, run, mounted, listening, object, failed, polling,
                 erased, outdated>>

Read(c) ==
  /\ Answered(c, IF c.url \in stored /\ c.user \in Audience[c.url] THEN "found" ELSE "missing")
  /\ UNCHANGED getEvents

GetFails(c) == Happens /\ Answered(c, "failed")

\* synchronizeDispatch, to the listener of the last run.
Dispatched(u, value) ==
  IF listening /\ u = args.url /\ args.user \in Audience[u]
  THEN object' = value /\ failed' = FALSE /\ outdated' = (value = u /\ u \notin stored)
  ELSE UNCHANGED <<object, failed, outdated>>

MutIsActive(c) == c.run > 0  \* mutant: the poll of an earlier run counts
IsActive(c) == mounted /\ c.run = run

\* A get returns.  A poll then waits for the listener to be told, but for the
\* failure of one that is of no use any more.
Returns(c) ==
  /\ c.answer # "asked"
  /\ c.answer = "found" /\ InProcess /\ IsActive(c) => listening
  /\ calls' = calls \ {c}
  /\ IF c.answer = "found" THEN Dispatched(c.url, c.url)
     ELSE IF IsActive(c)
     THEN object' = Null /\ failed' = (c.answer = "failed") /\ outdated' = FALSE
     ELSE UNCHANGED <<object, failed, outdated>>
  /\ polling' = IF c.run = run THEN "settling" ELSE polling
  /\ UNCHANGED <<stored, args, run, mounted, listening, erased, getEvents>>

Settled ==
  /\ polling = "settling" /\ polling' = "none"
  /\ UNCHANGED <<stored, args, run, mounted, listening, object, failed, calls, erased,
                 outdated, getEvents>>

\* An object is deleted: by this page, which is told when the call returns, or elsewhere.
Delete(u, here) ==
  /\ Happens /\ u \in stored /\ stored' = stored \ {u}
  /\ erased' = (IF here THEN erased \cup {u} ELSE erased)
  /\ outdated' = (outdated \/ (~here /\ u = args.url))
  /\ UNCHANGED <<args, run, mounted, listening, object, failed, polling, calls>>

DeleteReturns(u) ==
  /\ u \in erased /\ erased' = erased \ {u} /\ Dispatched(u, Null)
  /\ UNCHANGED <<stored, args, run, mounted, listening, polling, calls, getEvents>>

GetProgress ==
  \/ Listen \/ Settled
  \/ \E c \in calls : Read(c) \/ Returns(c)
  \/ \E u \in Urls : DeleteReturns(u)

GetNext ==
  \/ GetProgress \/ Unmount \/ Poll
  \/ \E a \in Args : Watch(a) \/ GetBesides(a)
  \/ \E c \in calls : GetFails(c)
  \/ \E u \in Urls, here \in BOOLEAN : Delete(u, here)
-----------------------------------------------------------------------------
Quiet == mounted /\ polling = "none" /\ calls = {} /\ erased = {}

\* A view shows the object of its arguments, to a session that is allowed it; and
\* once its poll has ended and nothing is on its way, it shows the object exactly
\* when it is stored, whatever the polls of earlier arguments came to: unless
\* another tab deleted it since, or a get that had read it before its deletion
\* was told of after it.
ObjectsAreOwn ==
  /\ object \notin {Null, Undefined} => object = args.url /\ args.user \in Audience[object]
  /\ Quiet /\ ~failed /\ ~outdated /\ (InProcess \/ object # Undefined) =>
       object = IF args.url \in stored /\ args.user \in Audience[args.url]
                THEN args.url ELSE Null

\* "undefined while loading": once the poll has ended nothing is loading.  A get by
\* another window can return before the page has loaded what compiles schemas.
PollsLoad == Quiet => object # Undefined

\* A poll ends.
GetsWait == polling # "none" \/ calls # {} \/ erased # {}
=============================================================================
