----------------------------- MODULE LocalObjects -----------------------------
(******************************************************************************)
(* The objects of the local implementation, in a PouchDB database that        *)
(* several callers and several tabs share.  PouchDB numbers its writes; a     *)
(* document also carries lastModified, the number that its writer read before *)
(* it wrote.  The cursor of a stream is the number that the stream read       *)
(* before its queries, and a continuation asks for the documents whose        *)
(* lastModified is not below it.                                              *)
(*                                                                            *)
(* A step is the code from one await to the next; a call of PouchDB is one    *)
(* step.  What a stream filters by (schema, allowed, kind) does not change    *)
(* over the life of an object: Matching is what it lets through.              *)
(******************************************************************************)
EXTENDS Integers, Sequences, FiniteSets

CONSTANTS
  Urls,        \* objects that may be posted
  Query,       \* discoverChannels, the channels of the streams in their order
  ChannelsOf,  \* the channels of each object, as places in Query
  Matching,    \* objects that a stream lets through
  Writers,     \* callers of post and delete
  Readers,     \* callers of discover and continueDiscover
  MaxOps       \* bound: calls of post and delete

ASSUME ChannelsAssumption == ChannelsOf \in [Urls -> SUBSET (1..Query)]
ASSUME QueryAssumption == Query \in Nat
ASSUME MatchingAssumption == Matching \subseteq Urls
ASSUME MaxOpsAssumption == MaxOps \in Nat

VARIABLES
  clock,   \* update_seq of the database
  docs,    \* documents
  op,      \* the call of each writer
  stream,  \* the stream of each reader
  known,   \* history: what the stream of a reader, with those it continues,
           \* has returned of each object
  ops      \* bound: calls so far

data == <<clock, docs>>
vars == <<clock, docs, op, stream, known, ops>>

\* seq is the number that PouchDB gives to the last write of the document.
NoDoc   == [state |-> "none", lastModified |-> 0, seq |-> 0]
IdleOp  == [pc |-> "idle", url |-> "none", result |-> "none", stamp |-> 0]
Unknown == [u \in Urls |-> "none"]
NewStream == [pc |-> "idle", since |-> 0, continues |-> FALSE, cursor |-> 0,
              hasCursor |-> FALSE, start |-> 0, channel |-> 1,
              processed |-> {}, batch |-> Unknown]

Init ==
  /\ clock = 0
  /\ docs = [u \in Urls |-> NoDoc]
  /\ op = [w \in Writers |-> IdleOp]
  /\ stream = [r \in Readers |-> NewStream]
  /\ known = [r \in Readers |-> Unknown]
  /\ ops = 0

-------------------------------------------------------------------------------
(* post and delete.  result is the state that the call gives to its document. *)

Call(w, u, state) ==
  /\ ops < MaxOps /\ ops' = ops + 1
  /\ op[w].pc = "idle"
  /\ op' = [op EXCEPT ![w] = [pc |-> "clock", url |-> u, result |-> state,
                              stamp |-> 0]]
  /\ UNCHANGED <<data, stream, known>>

\* The url of a post is random: nobody else has it.
Post(w, u) ==
  /\ docs[u].state = "none" /\ \A x \in Writers : op[x].url # u
  /\ Call(w, u, "live")

\* delete reads the document, and finds none or a tombstone otherwise.
Delete(w, u) == docs[u].state = "live" /\ Call(w, u, "dead")

ReadClock(w) ==
  /\ op[w].pc = "clock"
  /\ op' = [op EXCEPT ![w].pc = "put", ![w].stamp = clock]
  /\ UNCHANGED <<data, stream, known, ops>>

\* PouchDB refuses a put whose _rev is not that of the document: another call
\* has deleted what this one read.
Conflict(w) == op[w].result = "dead" /\ docs[op[w].url].state = "dead"

Write(u, state, stamp) ==
  /\ clock' = clock + 1
  /\ docs' = [docs EXCEPT ![u] = [state |-> state, lastModified |-> stamp,
                                  seq |-> clock + 1]]

Put(w) ==
  /\ op[w].pc = "put" /\ ~Conflict(w)
  /\ Write(op[w].url, op[w].result, op[w].stamp)
  /\ op' = [op EXCEPT ![w].pc = "written"]
  /\ UNCHANGED <<stream, known, ops>>

\* post returns the object, and delete what it deleted; a conflict is an error.
Return(w) ==
  /\ op[w].pc = "written"
  /\ op' = [op EXCEPT ![w] = IdleOp]
  /\ UNCHANGED <<data, stream, known, ops>>

Refused(w) ==
  /\ op[w].pc = "put" /\ Conflict(w)
  /\ op' = [op EXCEPT ![w] = IdleOp]
  /\ UNCHANGED <<data, stream, known, ops>>

-------------------------------------------------------------------------------
(* Streams. *)

Begin(r, new) ==
  /\ stream[r].pc = "idle"
  /\ stream' = [stream EXCEPT ![r] = [new EXCEPT !.pc = "clock"]]
  /\ UNCHANGED <<data, op, ops>>

Discover(r) == Begin(r, NewStream) /\ known' = [known EXCEPT ![r] = Unknown]

\* The continuation of the stream that returned the cursor; it waits a while
\* first when it comes too early.
ContinueDiscover(r) ==
  /\ stream[r].hasCursor
  /\ Begin(r, [stream[r] EXCEPT !.since = stream[r].cursor,
                                !.continues = TRUE])
  /\ UNCHANGED known

\* startTime, and an empty processedUrls.
StartTime(r) ==
  stream' = [stream EXCEPT ![r].pc = "query", ![r].channel = 1,
                           ![r].processed = {}, ![r].start = clock]

ReadStartTime(r) ==
  /\ stream[r].pc = "clock"
  /\ StartTime(r)
  /\ UNCHANGED <<data, op, known, ops>>

MutRows(x) == {u \in Urls : /\ x.channel \in ChannelsOf[u]
                            /\ docs[u].state # "none"
                            /\ docs[u].lastModified > x.since}
\* The rows of the index from channel/since on.
Rows(x) == {u \in Urls : /\ x.channel \in ChannelsOf[u]
                         /\ docs[u].state # "none"
                         /\ x.continues => docs[u].lastModified >= x.since}

\* A first stream has no tombstones; an object is returned for its first
\* channel only.
Returned(x, u) == /\ u \in Matching \ x.processed
                  /\ docs[u].state = "live" \/ x.continues

More(x) == x.pc = "query" /\ x.batch = Unknown /\ x.channel <= Query

QueryChannel(r) ==
  LET x == stream[r]
  IN  /\ More(x)
      /\ stream' = [stream EXCEPT
           ![r].channel = x.channel + 1,
           ![r].processed = x.processed \cup Rows(x),
           ![r].batch = [u \in Urls |-> IF u \in Rows(x) /\ Returned(x, u)
                                        THEN docs[u].state ELSE "none"]]
      /\ UNCHANGED <<data, op, known, ops>>

\* The caller takes one object, in any order.
Yield(r, u) ==
  /\ stream[r].pc = "query" /\ stream[r].batch[u] # "none"
  /\ stream' = [stream EXCEPT ![r].batch[u] = "none"]
  /\ known' = [known EXCEPT ![r][u] = stream[r].batch[u]]
  /\ UNCHANGED <<data, op, ops>>

ReturnCursor(r) ==
  LET x == stream[r]
  IN  /\ x.pc = "query" /\ x.channel > Query /\ x.batch = Unknown
      /\ stream' = [stream EXCEPT ![r] = [NewStream EXCEPT !.cursor = x.start,
                                                           !.hasCursor = TRUE]]
      /\ UNCHANGED <<data, op, known, ops>>

Step(w) == ReadClock(w) \/ Put(w) \/ Return(w) \/ Refused(w)
Poll(r) == \/ ReadStartTime(r) \/ QueryChannel(r) \/ ReturnCursor(r)
           \/ \E u \in Urls : Yield(r, u)

Next ==
  \/ \E w \in Writers : \/ \E u \in Urls : Post(w, u) \/ Delete(w, u)
                        \/ Step(w)
  \/ \E r \in Readers : Discover(r) \/ ContinueDiscover(r) \/ Poll(r)

Spec == Init /\ [][Next]_vars

-------------------------------------------------------------------------------
States == {"none", "live", "dead"}

TypeOK ==
  /\ clock \in Nat /\ ops \in 0..MaxOps
  /\ docs \in [Urls -> [state : States, lastModified : Nat, seq : Nat]]
  /\ op \in [Writers -> [pc : {"idle", "clock", "put", "written"},
                         url : Urls \cup {"none"}, result : States,
                         stamp : Nat]]
  /\ stream \in [Readers -> [pc : {"idle", "clock", "query"}, since : Nat,
                             continues : BOOLEAN, cursor : Nat,
                             hasCursor : BOOLEAN, start : Nat,
                             channel : 1..(Query + 1),
                             processed : SUBSET Urls, batch : [Urls -> States]]]
  /\ known \in [Readers -> [Urls -> States]]

\* A write that another one overtook: the clock went on between the number
\* that it read and its own.
Overtaken(u) == docs[u].seq # docs[u].lastModified + 1

Discoverable(u) == u \in Matching /\ ChannelsOf[u] # {}

\* What a reader knows of the object is its state; the tombstone of an object
\* that it has never been given is no news.
Reported(r, u) == \/ known[r][u] = docs[u].state
                  \/ known[r][u] = "none" /\ docs[u].state = "dead"

Covered(r, u) == \/ Reported(r, u)
                 \/ docs[u].lastModified >= stream[r].cursor

\* A cursor covers every object and tombstone that was not overtaken: the
\* reader has been given it, or the continuation will ask for it.  The streams
\* of discoverMeta read their channels one by one, while others write.
CursorsCover ==
  \A r \in Readers, u \in Urls :
    stream[r].hasCursor /\ Discoverable(u) /\ ~Overtaken(u) => Covered(r, u)

\* Of several deletes of one object one is answered: a tombstone is not written
\* again, so no continuation returns it twice.
TombstonesAreFinal ==
  [][\A u \in Urls : docs[u].state = "dead" => docs'[u] = docs[u]]_vars

===============================================================================
