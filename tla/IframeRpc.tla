------------------------------ MODULE IframeRpc ------------------------------
(***************************************************************************)
(* Session events through a tree of frames.  The page at the root has a    *)
(* Graffiti whose events it remembers; every frame has a relay and a host  *)
(* in the page that contains it, and a client of that host, which is the   *)
(* Graffiti of the frames inside it.  A frame that asks for a login or a   *)
(* logout gives a state; each host on the way up puts its frame in front   *)
(* of it and takes it away again from the event that answers.              *)
(*                                                                         *)
(* An event is dispatched to its listeners in one step, down to the        *)
(* messages for the frames, which a frame receives one at a time.          *)
(***************************************************************************)
EXTENDS Integers, Sequences, FiniteSets, SequencesExt

CONSTANTS
  Root,     \* the page at the top
  Frames,   \* frames, by the stateId under which their page connects them
  Parent,   \* the page that contains a frame
  Actors,
  None,
  MaxChanges, MaxMounts, MaxAsks, MaxReloads, MaxAttaches  \* bounds

Pages == Frames \cup {Root}

ASSUME FramesAreInPages == Root \notin Frames /\ Parent \in [Frames -> Pages]
ASSUME BoundsAreNatural ==
  {MaxChanges, MaxMounts, MaxAsks, MaxReloads, MaxAttaches} \subseteq Nat

\* The frames from the root to a page: the prefixes of its states at the root.
Path[n \in Pages] == IF n = Root THEN <<>> ELSE Append(Path[Parent[n]], n)

Inside(c) == {d \in Frames : c \in ToSet(Path[d])}

VARIABLES
  hist,     \* SessionHistory of a page: what its Graffiti has announced
  edge,     \* relay, host and connection of a frame, and messages to it
  mounted,  \* frames that are in their pages
  asks,     \* requests for a login or a logout, in the order of the calls
  pending,  \* those that the implementation has not answered
  used,     \* how much of each bound is spent
  got,      \* history: frames that were handed the answer of a request
  lost      \* history: answers that went away with a page

vars == <<hist, edge, mounted, asks, pending, used, got, lost>>

NoHistory == [sessions |-> <<>>, initialized |-> FALSE, replies |-> <<>>]
NoEdge == [timer |-> TRUE, relayed |-> FALSE, seen |-> {},           \* relay
           sessions |-> {}, ready |-> FALSE,                         \* host
           open |-> FALSE, phase |-> "off", visited |-> {},          \* connection
           channel |-> <<>>,
           skipped |-> {}]  \* history: logouts that it was not sent

Init ==
  /\ hist = [n \in Pages |-> NoHistory]
  /\ edge = [c \in Frames |-> NoEdge]
  /\ mounted = {}
  /\ asks = <<>> /\ pending = {}
  /\ used = [changes |-> 0, mounts |-> 0, reloads |-> 0, attaches |-> 0]
  /\ got = <<>> /\ lost = {}
-----------------------------------------------------------------------------
(* Events.  The state is None, or the frames it still has to go through;   *)
(* "ask" only names the request that it belongs to.                        *)

Event(type, actor) ==
  [type |-> type, actor |-> actor, ok |-> TRUE, state |-> None, ask |-> 0]
Failed(e) == [e EXCEPT !.ok = FALSE, !.actor = None]
Anonymous(e) == [e EXCEPT !.state = None, !.ask = 0]

Initialized == Event("initialized", None)
IsReply(e) == e.state # None /\ e.state # <<>>
OfFrame(c, e) == IsReply(e) /\ Head(e.state) = c

\* What an event makes of a set of actors, and of the map of sessions.
Applied(e, actors) ==
  CASE e.type = "login" /\ e.ok -> actors \cup {e.actor}
    [] e.type = "logout" /\ e.ok -> actors \ {e.actor}
    [] OTHER -> actors

Mapped(e, sessions) ==
  CASE e.type = "login" /\ e.ok /\ e.actor \notin ToSet(sessions) -> Append(sessions, e.actor)
    [] e.type = "logout" /\ e.ok -> SelectSeq(sessions, LAMBDA a : a # e.actor)
    [] OTHER -> sessions

\* rememberSessionEvents()
Remembered(h, e) ==
  [sessions |-> Mapped(e, h.sessions),
   initialized |-> h.initialized \/ e.type = "initialized",
   replies |-> IF IsReply(e) THEN Append(h.replies, e) ELSE h.replies]

Send(x, e) == [x EXCEPT !.channel = Append(@, e), !.skipped = @ \ {e.actor}]

MutForwarded(c, x, e) ==  \* mutant: changes are sent only after the replay
  IF e.type = "initialized" THEN [x EXCEPT !.ready = TRUE]
  ELSE LET known == [x EXCEPT !.sessions = Applied(e, @)]
       IN CASE OfFrame(c, e) -> Send(known, [e EXCEPT !.state = Tail(@)])
            [] ~OfFrame(c, e) /\ x.phase = "on" -> Send(known, Anonymous(e))
            [] OTHER -> known
\* forward() of a host: the sessions that it knows, and the message, if any.
Forwarded(c, x, e) ==
  IF e.type = "initialized" THEN [x EXCEPT !.ready = TRUE]
  ELSE LET known == [x EXCEPT !.sessions = Applied(e, @),
                              !.visited = IF e.type = "logout" /\ e.ok
                                          THEN @ \ {e.actor} ELSE @]
       IN CASE OfFrame(c, e) -> Send(known, [e EXCEPT !.state = Tail(@)])
            [] ~OfFrame(c, e) /\ x.phase # "off" /\ (e.ok \/ e.state = None) ->
                 Send(known, Anonymous(e))
            [] ~OfFrame(c, e) /\ x.phase = "off" /\ e.type = "logout" /\ e.ok ->
                 [known EXCEPT !.skipped = @ \cup {e.actor}]
            [] OTHER -> known

\* emit() of a relay
Emitted(c, x, e) ==
  IF ~OfFrame(c, e) /\ ~e.ok /\ e.state # None THEN x
  ELSE Forwarded(c, [x EXCEPT !.seen = Applied(e, @)],
                 IF OfFrame(c, e) THEN e ELSE Anonymous(e))

\* A kept answer of a login may be of a session that has ended meanwhile.
Current(h, e) ==
  IF e.type = "login" /\ e.ok /\ e.actor \notin ToSet(h.sessions) THEN Failed(e) ELSE e

Waiting(c, h) == SelectSeq(h.replies, LAMBDA r : OfFrame(c, r))

\* A relay emits one event after the other.
AllEmitted(c, x, events) ==
  LET after[k \in 0..Len(events)] ==
        IF k = 0 THEN x ELSE Emitted(c, after[k - 1], events[k])
  IN after[Len(events)]

Logins(actors) == [k \in DOMAIN actors |-> Event("login", actors[k])]

\* initialize() of a relay: kept answers, then the other sessions.
Started(c, x, h) ==
  LET kept == Waiting(c, h)
      told == AllEmitted(c, [x EXCEPT !.relayed = TRUE],
                         [k \in DOMAIN kept |-> Current(h, kept[k])])
      rest == SelectSeq(h.sessions, LAMBDA a : a \notin told.seen)
  IN AllEmitted(c, told, Logins(rest) \o <<Initialized>>)

MutStarts(x, e) == FALSE  \* mutant: a relay starts by its timer only
Starts(x, e) == e.type = "initialized" /\ ~x.relayed

MutLeft(s, kids, e, h) == h.replies  \* mutant: an answer that was passed on stays
\* The kept answers that no relay passes on when the page dispatches an event.
Left(s, kids, e, h) ==
  SelectSeq(h.replies, LAMBDA r : \A c \in kids :
              OfFrame(c, r) => r # e /\ ~Starts(s.edge[c], e))

\* An event at the Graffiti of page n: first its history, then the relays.
Dispatched(s, n, e) ==
  LET kids == {c \in mounted : Parent[c] = n}
      h == Remembered(s.hist[n], e)
      heard(c) ==
        CASE Starts(s.edge[c], e) -> Started(c, s.edge[c], h)
          [] e.type # "initialized" -> Emitted(c, s.edge[c], e)
          [] OTHER -> s.edge[c]
  IN [hist |-> [s.hist EXCEPT ![n] = [h EXCEPT !.replies = Left(s, kids, e, h)]],
      edge |-> [c \in Frames |-> IF c \in kids THEN heard(c) ELSE s.edge[c]]]

Become(s) == hist' = s.hist /\ edge' = s.edge
Now == [hist |-> hist, edge |-> edge]
-----------------------------------------------------------------------------
(* The implementation at the root.                                         *)

\* A login or a logout that no frame has asked for, or that a saved session causes.
Change(type, a) ==
  /\ used.changes < MaxChanges
  /\ type = "logout" => a \in ToSet(hist[Root].sessions)
  /\ used' = [used EXCEPT !.changes = @ + 1]
  /\ Become(Dispatched(Now, Root, Event(type, a)))
  /\ UNCHANGED <<mounted, asks, pending, got, lost>>

Restored ==
  /\ ~hist[Root].initialized
  /\ Become(Dispatched(Now, Root, Initialized))
  /\ UNCHANGED <<mounted, asks, pending, used, got, lost>>

\* login() and logout() go up at once; each host adds its prefix to the state.
Ask(f, type, a) ==
  /\ Len(asks) < MaxAsks
  /\ \A c \in ToSet(Path[f]) : edge[c].open
  /\ type = "logout" => a \in ToSet(hist[f].sessions)
  /\ asks' = Append(asks, [by |-> f, type |-> type, actor |-> a])
  /\ pending' = pending \cup {Len(asks')}
  /\ got' = Append(got, <<>>)
  /\ UNCHANGED <<hist, edge, mounted, used, lost>>

\* The answer may come long after, also when the root was loaded again.
Answer(i, ok) ==
  /\ i \in pending
  /\ pending' = pending \ {i}
  /\ LET e == [Event(asks[i].type, asks[i].actor)
                 EXCEPT !.state = Path[asks[i].by], !.ask = i]
     IN Become(Dispatched(Now, Root, IF ok THEN e ELSE Failed(e)))
  /\ UNCHANGED <<mounted, asks, used, got, lost>>
-----------------------------------------------------------------------------
(* Frames.                                                                 *)

\* A relay, a host and a connection are made with the frame.
Mount(c) ==
  /\ c \notin mounted /\ Parent[c] \in mounted \cup {Root}
  /\ used.mounts < MaxMounts
  /\ used' = [used EXCEPT !.mounts = @ + 1]
  /\ mounted' = mounted \cup {c}
  /\ UNCHANGED <<hist, edge, asks, pending, got, lost>>

\* The answers that are on their way through a frame.
Carried(c) ==
  {e.ask : e \in {r \in ToSet(edge[c].channel \o hist[c].replies) : r.state # None}}

Removed(frames) ==
  /\ mounted' = mounted \ frames
  /\ edge' = [c \in Frames |-> IF c \in frames THEN NoEdge ELSE edge[c]]

Unmount(c) ==
  /\ c \in mounted
  /\ Removed(Inside(c))
  /\ hist' = [n \in Pages |-> IF n \in Inside(c) THEN NoHistory ELSE hist[n]]
  /\ lost' = lost \cup UNION {Carried(d) : d \in Inside(c)}
  /\ UNCHANGED <<asks, pending, used, got>>

\* The root is loaded again, such as by a login that redirects.
Reload ==
  /\ used.reloads < MaxReloads
  /\ used' = [used EXCEPT !.reloads = @ + 1]
  /\ Removed(Frames)
  /\ hist' = [n \in Pages |-> NoHistory]
  /\ lost' = lost \cup {r.ask : r \in ToSet(hist[Root].replies)}
                  \cup UNION {Carried(d) : d \in Frames}
  /\ UNCHANGED <<asks, pending, got>>

\* The timer of a relay: it starts if the page was initialized before.
RelayTimer(c) ==
  LET h == hist[Parent[c]] IN
  /\ c \in mounted /\ edge[c].timer
  /\ IF h.initialized /\ ~edge[c].relayed
     THEN /\ edge' = [edge EXCEPT ![c] = [Started(c, @, h) EXCEPT !.timer = FALSE]]
          /\ hist' = [hist EXCEPT ![Parent[c]].replies =
                        SelectSeq(@, LAMBDA r : ~OfFrame(c, r))]
     ELSE /\ edge' = [edge EXCEPT ![c].timer = FALSE]
          /\ UNCHANGED hist
  /\ UNCHANGED <<mounted, asks, pending, used, got, lost>>

Connect(c) ==
  /\ c \in mounted /\ ~edge[c].open
  /\ edge' = [edge EXCEPT ![c].open = TRUE]
  /\ UNCHANGED <<hist, mounted, asks, pending, used, got, lost>>

\* initialize() is called by the client, and goes on when the host is ready.
BeginReplay(c) ==
  /\ edge[c].open /\ edge[c].ready /\ edge[c].phase = "off"
  /\ edge' = [edge EXCEPT ![c].phase = "replaying"]
  /\ UNCHANGED <<hist, mounted, asks, pending, used, got, lost>>

\* It goes through the sessions, which may change between two messages.
Replay(c) ==
  LET left == edge[c].sessions \ edge[c].visited IN
  /\ edge[c].phase = "replaying"
  /\ \/ \E a \in left :
          edge' = [edge EXCEPT ![c] = [Send(@, Event("login", a))
                                         EXCEPT !.visited = @ \cup {a}]]
     \/ /\ left = {}
        /\ edge' = [edge EXCEPT ![c] = [Send(@, Initialized) EXCEPT !.phase = "on"]]
  /\ UNCHANGED <<hist, mounted, asks, pending, used, got, lost>>

\* sessionEvent() of the client of a frame
Receive(c) ==
  LET e == Head(edge[c].channel) IN
  /\ edge[c].open /\ edge[c].channel # <<>>
  /\ Become(Dispatched([Now EXCEPT !.edge[c].channel = Tail(@)], c, e))
  /\ got' = IF e.state = <<>> THEN [got EXCEPT ![e.ask] = Append(@, c)] ELSE got
  /\ UNCHANGED <<mounted, asks, pending, used, lost>>

\* replayInitialization(): the client of a frame is constructed once more.
Attach(c) ==
  /\ edge[c].open /\ used.attaches < MaxAttaches
  /\ used' = [used EXCEPT !.attaches = @ + 1]
  /\ LET events == Logins(hist[c].sessions)
                     \o (IF hist[c].initialized THEN <<Initialized>> ELSE <<>>)
         after[k \in 0..Len(events)] ==
           IF k = 0 THEN Now ELSE Dispatched(after[k - 1], c, events[k])
     IN Become(after[Len(events)])
  /\ UNCHANGED <<mounted, asks, pending, got, lost>>

Types == {"login", "logout"}

\* What goes on by itself: timers, handshakes, replays and messages.
Progress ==
  \/ Restored
  \/ \E c \in Frames :
       RelayTimer(c) \/ Connect(c) \/ BeginReplay(c) \/ Replay(c) \/ Receive(c)

Next ==
  \/ \E type \in Types, a \in Actors : Change(type, a)
  \/ Reload
  \/ \E f \in Frames, type \in Types, a \in Actors : Ask(f, type, a)
  \/ \E i \in pending, ok \in BOOLEAN : Answer(i, ok)
  \/ \E c \in Frames : Mount(c) \/ Unmount(c) \/ Attach(c)
  \/ Progress

Spec == Init /\ [][Next]_vars

\* The event loops run: while something can go on by itself, something does.
FairSpec == Spec /\ WF_vars(Progress)
-----------------------------------------------------------------------------
Answered == DOMAIN asks \ pending

Of(events, i) == Len(SelectSeq(events, LAMBDA e : e.ask = i))
Places(i) ==
  [n \in Pages |-> Of(hist[n].replies, i) +
                     (IF n = Root THEN 0 ELSE Of(edge[n].channel, i))]

\* The answer of a request is in one place: kept for a frame, on its way, with
\* the frame that asked, or gone with a page that was removed.  No other frame
\* is handed it or a message of it, and nobody twice.
EachAnswerIsOnce ==
  \A i \in Answered :
    LET places == Places(i)
        places1 == {n \in Pages : places[n] = 1}
    IN /\ \A n \in Pages : places[n] \in {0, 1}
       /\ Cardinality(places1) + Len(got[i]) + (IF i \in lost THEN 1 ELSE 0) = 1
       /\ got[i] \in {<<>>, <<asks[i].by>>}
       /\ \A c \in Frames : Of(edge[c].channel, i) > 0 => asks[i].by \in Inside(c)

\* The sessions of a frame when it has received what was sent to it.
Received(c) ==
  LET q == edge[c].channel
      after[k \in 0..Len(q)] ==
        IF k = 0 THEN ToSet(hist[c].sessions) ELSE Applied(q[k], after[k - 1])
  IN after[Len(q)]
ToReplay(c) ==
  IF edge[c].phase = "replaying" THEN edge[c].sessions \ edge[c].visited ELSE {}

\* What a frame knows, with what is on its way and still to be replayed, are
\* the sessions of its page, whatever changed during the replay.  Only a
\* logout before the replay, of a login that it had been told, may be missing.
FramesFollow ==
  \A c \in mounted :
    /\ edge[c].relayed => edge[c].sessions = ToSet(hist[Parent[c]].sessions)
    /\ edge[c].phase # "off" =>
         LET known == Received(c) \cup ToReplay(c) IN
         /\ edge[c].sessions \subseteq known
         /\ known \subseteq edge[c].sessions \cup edge[c].skipped

\* "Failures belong to the caller; successful session changes are shared."
ChangesAreShared ==
  \A c \in mounted : edge[c].phase = "on" => Received(c) = ToSet(hist[Parent[c]].sessions)

\* A frame that stays is initialized, and has been handed the answers of its
\* requests, unless a page took them away.
FrameIsServed(c) ==
  /\ hist[c].initialized
  /\ \A i \in Answered : asks[i].by = c => got[i] # <<>> \/ i \in lost
FramesAreServed ==
  \A c \in Frames : (c \in mounted) ~> (c \notin mounted \/ FrameIsServed(c))
=============================================================================
