---------------------------- MODULE InboxStream ----------------------------
(***************************************************************************)
(* The client's stream of inbox messages: one query, read by tabs of the   *)
(* browser that share a cache of its pages in IndexedDB and a Web Lock.    *)
(*                                                                         *)
(* A step is the code from one await to the next.  A message is its place  *)
(* in the log of the inbox; a cursor of the server is the place of the     *)
(* last message of a page, and good until the retention period is over.    *)
(***************************************************************************)
EXTENDS Integers, Sequences, FiniteSets, SequencesExt

CONSTANTS
  Tabs, Free,   \* the tabs, and the holder of a lock that nobody holds
  UseLock,      \* in a browser with IndexedDB; FALSE elsewhere
  PageSize,     \* the most messages on a page of the server
  MaxLog, MaxStarts, MaxExpiries, MaxClears  \* bounds

ASSUME LockIsSettled == UseLock \in BOOLEAN
ASSUME PagesAreNotEmpty == PageSize \in Nat \ {0}
ASSUME BoundsAreNumbers ==
  MaxLog \in Nat /\ MaxStarts \in Nat /\ MaxExpiries \in Nat /\ MaxClears \in Nat
ASSUME FreeIsNoTab == Free \notin Tabs

VARIABLES
  log,     \* server: the number of messages that the query asks for
  epoch,   \* server: cursors of an earlier epoch have expired
  record,  \* IndexedDB, store q: CacheQueryValue of the query
  cached,  \* IndexedDB, store m: the messages
  lock,    \* the tab that holds the query's Web Lock
  stream,  \* each tab's messageStreamer
  cursor,  \* the cursor that each tab's last finished stream returned
  seen,    \* history: what a tab's stream and those it continues have yielded
  kept,    \* history: what had been yielded at the cursor
  fresh,   \* the last random version and generation
  used     \* how much of each bound is spent

cache == <<record, cached>>
vars == <<log, epoch, record, cached, lock, stream, cursor, seen, kept, fresh, used>>

\* version 0: there is no record.
NoRecord == [version |-> 0, since |-> 0, epoch |-> 0, ids |-> <<>>,
             generation |-> 0, more |-> FALSE, wait |-> FALSE]
NoCursor == [version |-> 0, numSeen |-> 0]
\* version 0: the stream is a query and no continuation.
Idle == [pc |-> "idle", version |-> 0, numSeen |-> 0, seenGeneration |-> 0,
         seenVersion |-> 0, firstPage |-> TRUE, query |-> NoRecord, batch |-> <<>>]

Init ==
  /\ log = 0 /\ epoch = 0
  /\ record = NoRecord /\ cached = {}
  /\ lock = Free
  /\ stream = [c \in Tabs |-> Idle]
  /\ cursor = [c \in Tabs |-> NoCursor]
  /\ seen = [c \in Tabs |-> <<>>]
  /\ kept = [c \in Tabs |-> <<>>]
  /\ fresh = [version |-> 0, generation |-> 0]
  /\ used = [starts |-> 0, clears |-> 0]

(***************************************************************************)
(* The world: messages arrive, cursors expire, Retry-After passes, the     *)
(* user clears the browser's storage.                                      *)
(***************************************************************************)
Arrive ==
  /\ log < MaxLog
  /\ log' = log + 1
  /\ UNCHANGED <<epoch, cache, lock, stream, cursor, seen, kept, fresh, used>>

Expire ==
  /\ epoch < MaxExpiries
  /\ epoch' = epoch + 1
  /\ UNCHANGED <<log, cache, lock, stream, cursor, seen, kept, fresh, used>>

RetryAfterPasses ==
  /\ record.wait
  /\ record' = [record EXCEPT !.wait = FALSE]
  /\ UNCHANGED <<log, epoch, cached, lock, stream, cursor, seen, kept, fresh, used>>

ClearStorage ==
  /\ used.clears < MaxClears
  /\ used' = [used EXCEPT !.clears = @ + 1]
  /\ record' = NoRecord /\ cached' = {}
  /\ UNCHANGED <<log, epoch, lock, stream, cursor, seen, kept, fresh>>

(***************************************************************************)
(* A stream begins: it looks at the record without the lock.               *)
(***************************************************************************)
Start(c, version, numSeen, yielded) ==
  /\ stream[c].pc = "idle" /\ used.starts < MaxStarts
  /\ used' = [used EXCEPT !.starts = @ + 1]
  /\ stream' = [stream EXCEPT ![c] = [Idle EXCEPT
       !.pc = "acquire", !.version = version, !.numSeen = numSeen,
       !.seenGeneration = record.generation, !.seenVersion = record.version]]
  /\ seen' = [seen EXCEPT ![c] = yielded]
  /\ UNCHANGED <<log, epoch, cache, lock, cursor, kept, fresh>>

Query(c) == Start(c, 0, 0, <<>>)
ContinueQuery(c) ==
  cursor[c] # NoCursor /\ Start(c, cursor[c].version, cursor[c].numSeen, kept[c])

(***************************************************************************)
(* fetchPage: one page at most, under the lock.                            *)
(***************************************************************************)
Release(c) == lock' = IF lock = c THEN Free ELSE lock
\* The stream throws, closes, or its tab goes away.
Stop(c) ==
  /\ stream' = [stream EXCEPT ![c] = Idle]
  /\ Release(c)
  /\ UNCHANGED <<log, epoch, cursor, seen, kept, fresh, used>>

AtWork(c) == stream[c].pc = "acquire" /\ (UseLock => lock = Free)

\* mutant: a stream that has yielded goes on with the new record
MutStale(x) == x.version \notin {0, record.version}
\* The record is not the one that the cursor, or what was yielded, is from.
Stale(x) ==
  \/ x.version \notin {0, record.version}
  \/ record.version # x.seenVersion /\ ~x.firstPage

Renumbered(x) ==
  [x EXCEPT !.numSeen = IF record.version # x.seenVersion THEN 0 ELSE @]

News(x) == record.version # 0 /\ record.generation # x.seenGeneration

ReportStale(c) ==
  /\ AtWork(c) /\ Stale(stream[c])
  /\ Stop(c)
  /\ UNCHANGED cache

\* Another tab has written a page since: take its record.
ReusePage(c) ==
  LET x == stream[c] IN
  /\ AtWork(c) /\ ~Stale(x) /\ News(x)
  /\ stream' = [stream EXCEPT ![c] =
                  [Renumbered(x) EXCEPT !.pc = "replay", !.query = record]]
  /\ UNCHANGED <<log, epoch, cache, lock, cursor, seen, kept, fresh, used>>

\* The lock is released while the stream waits.
AwaitRetry(c) ==
  LET x == stream[c] IN
  /\ AtWork(c) /\ ~Stale(x) /\ ~News(x) /\ record.wait
  /\ stream' = [stream EXCEPT ![c] = [Renumbered(x) EXCEPT !.pc = "waiting"]]
  /\ UNCHANGED <<log, epoch, cache, lock, cursor, seen, kept, fresh, used>>

\* waitFor ends at the time that was read, whatever the record is by then.
WakeUp(c) ==
  LET x == stream[c] IN
  /\ x.pc = "waiting"
  /\ ~record.wait \/ record.generation # x.seenGeneration
  /\ stream' = [stream EXCEPT ![c].pc = "acquire"]
  /\ UNCHANGED <<log, epoch, cache, lock, cursor, seen, kept, fresh, used>>

Request(c) ==
  LET x == stream[c] IN
  /\ AtWork(c) /\ ~Stale(x) /\ ~News(x) /\ ~record.wait
  /\ stream' = [stream EXCEPT ![c] =
                  [Renumbered(x) EXCEPT !.pc = "fetching", !.query = record]]
  /\ lock' = IF UseLock THEN c ELSE Free
  /\ UNCHANGED <<log, epoch, cache, cursor, seen, kept, fresh, used>>

CursorIsGood(q) == q.version = 0 \/ q.epoch = epoch

\* The server's page after a place in the log.
Batch(since) == [i \in 1..Min({PageSize, log - since}) |-> since + i]

Answered(c) ==
  LET x == stream[c]
      page == Batch(x.query.since)
      end == x.query.since + Len(page)
  IN
  /\ x.pc = "fetching" /\ CursorIsGood(x.query)
  /\ stream' = [stream EXCEPT ![c] = [x EXCEPT
       !.pc = "answered", !.batch = page,
       !.query = [@ EXCEPT !.since = end, !.epoch = epoch,
                           !.more = end < log, !.wait = end = log]]]
  /\ UNCHANGED <<log, epoch, cache, lock, cursor, seen, kept, fresh, used>>

\* 410 for a cached cursor: a query that has yielded nothing deletes the
\* record and asks again without a cursor; other streams report it.
CursorExpired(c) ==
  LET x == stream[c] IN
  /\ x.pc = "fetching" /\ ~CursorIsGood(x.query)
  /\ record' = IF x.firstPage THEN NoRecord ELSE record
  /\ IF x.firstPage /\ x.version = 0
     THEN /\ stream' = [stream EXCEPT ![c] =
                          [x EXCEPT !.query = NoRecord, !.numSeen = 0]]
          /\ UNCHANGED <<log, epoch, lock, cursor, seen, kept, fresh, used>>
     ELSE Stop(c)
  /\ UNCHANGED cached

\* mutant: the lock outlives an error
MutRequestFails(c) ==
  /\ stream[c].pc = "fetching"
  /\ stream' = [stream EXCEPT ![c] = Idle]
  /\ UNCHANGED <<log, epoch, cache, lock, cursor, seen, kept, fresh, used>>
\* An error of the network, or 30 s without an answer.
RequestFails(c) ==
  /\ stream[c].pc = "fetching"
  /\ Stop(c)
  /\ UNCHANGED cache

\* mutant: nothing but the record is stored
MutCacheMessages(c) ==
  /\ stream[c].pc = "answered"
  /\ stream' = [stream EXCEPT ![c].pc = "cached"]
  /\ UNCHANGED <<log, epoch, cache, lock, cursor, seen, kept, fresh, used>>
\* storeQueryPage: first the messages, then the record that lists them.
CacheMessages(c) ==
  /\ stream[c].pc = "answered"
  /\ cached' = cached \cup Range(stream[c].batch)
  /\ stream' = [stream EXCEPT ![c].pc = "cached"]
  /\ UNCHANGED <<log, epoch, record, lock, cursor, seen, kept, fresh, used>>

\* mutant: the page is put before the earlier ones
MutReversed(q, batch, version) ==
  [q EXCEPT !.version = version, !.ids = batch \o @, !.generation = fresh'.generation]
Extended(q, batch, version) ==
  [q EXCEPT !.version = version, !.ids = @ \o batch, !.generation = fresh'.generation]

WriteRecord(c) ==
  LET x == stream[c]
      new == x.query.version = 0
      version == IF new THEN fresh.version + 1 ELSE x.query.version
  IN
  /\ x.pc = "cached"
  /\ fresh' = [version |-> IF new THEN version ELSE fresh.version,
               generation |-> fresh.generation + 1]
  /\ record' = Extended(x.query, x.batch, version)
  /\ stream' = [stream EXCEPT ![c] = [x EXCEPT !.pc = "replay", !.query = record',
                                               !.batch = <<>>]]
  /\ Release(c)
  /\ UNCHANGED <<log, epoch, cached, cursor, seen, kept, used>>

(***************************************************************************)
(* The page is replayed from the cache.  The next one is fetched while the *)
(* caller has the messages, or the stream ends with a cursor.              *)
(***************************************************************************)
Unseen(x) == SubSeq(x.query.ids, x.numSeen + 1, Len(x.query.ids))

Replay(c) ==
  LET x == stream[c]
      all == Len(x.query.ids)
  IN
  /\ x.pc = "replay" /\ Range(Unseen(x)) \subseteq cached
  /\ seen' = [seen EXCEPT ![c] = @ \o Unseen(x)]
  /\ IF x.query.more
     THEN /\ stream' = [stream EXCEPT ![c] = [x EXCEPT
               !.pc = "acquire", !.firstPage = FALSE, !.numSeen = all,
               !.seenGeneration = x.query.generation,
               !.seenVersion = x.query.version, !.query = NoRecord]]
          /\ UNCHANGED <<cursor, kept>>
     ELSE /\ stream' = [stream EXCEPT ![c] = Idle]
          /\ cursor' = [cursor EXCEPT ![c] =
                          [version |-> x.query.version, numSeen |-> all]]
          /\ kept' = [kept EXCEPT ![c] = seen'[c]]
  /\ UNCHANGED <<log, epoch, cache, lock, fresh, used>>

\* A message is not in the cache: the record goes, without the lock.
OutOfSync(c) ==
  LET x == stream[c] IN
  /\ x.pc = "replay" /\ ~(Range(Unseen(x)) \subseteq cached)
  /\ record' = NoRecord
  /\ Stop(c)
  /\ UNCHANGED cached

\* The caller closes the stream, the tab is closed, or a peer has held the
\* lock for 30 s.
Close(c) == stream[c].pc # "idle" /\ Stop(c) /\ UNCHANGED cache

Work(c) ==
  \/ ReportStale(c) \/ ReusePage(c) \/ AwaitRetry(c) \/ Request(c)
Go(c) ==
  \/ WakeUp(c) \/ Answered(c) \/ CursorExpired(c) \/ CacheMessages(c)
  \/ WriteRecord(c) \/ Replay(c) \/ OutOfSync(c)

Next ==
  \/ Arrive \/ Expire \/ RetryAfterPasses \/ ClearStorage
  \/ \E c \in Tabs : \/ Query(c) \/ ContinueQuery(c)
                     \/ Work(c) \/ Go(c) \/ RequestFails(c) \/ Close(c)

Spec == Init /\ [][Next]_vars

\* Web Locks are granted in the order of the requests, requests are answered
\* or time out, and Retry-After is a second.
FairSpec ==
  /\ Spec
  /\ \A c \in Tabs : SF_vars(Work(c)) /\ WF_vars(Go(c))
  /\ WF_vars(RetryAfterPasses)

-----------------------------------------------------------------------------
RecordType ==
  [version : Nat, since : 0..log, epoch : 0..epoch, ids : Seq(1..log),
   generation : Nat, more : BOOLEAN, wait : BOOLEAN]
StreamType ==
  [pc : {"idle", "acquire", "waiting", "fetching", "answered", "cached", "replay"},
   version : Nat, numSeen : Nat, seenGeneration : Nat, seenVersion : Nat,
   firstPage : BOOLEAN, query : RecordType, batch : Seq(1..log)]

\* The type invariant: caches and streams hold messages of the log only.
TypeOK ==
  /\ log \in 0..MaxLog /\ epoch \in 0..MaxExpiries
  /\ record \in RecordType /\ cached \subseteq 1..log
  /\ lock \in Tabs \cup {Free}
  /\ stream \in [Tabs -> StreamType]
  /\ cursor \in [Tabs -> [version : Nat, numSeen : Nat]]
  /\ seen \in [Tabs -> Seq(1..log)] /\ kept \in [Tabs -> Seq(1..log)]
  /\ fresh \in [version : Nat, generation : Nat]
  /\ used \in [starts : Nat, clears : Nat]

\* A stream and those that continue it yield the messages in the order of
\* the inbox, none twice and none left out, over shared pages, expired
\* cursors and tabs that stop at any step.
SeenInOrder == UseLock /\ used.clears = 0 =>
                 \A c \in Tabs : seen[c] = [i \in 1..Len(seen[c]) |-> i]

\* The ids that the record lists can be read from the cache, also when a tab
\* stops halfway through storing a page; clearing the storage under a tab
\* that stores a page is the one exception.
RecordIsBacked == used.clears = 0 => Range(record.ids) \subseteq cached

\* Every stream ends: with a cursor, or with an error.
StreamsEnd == \A c \in Tabs : stream[c].pc # "idle" ~> stream[c].pc = "idle"

\* The stream implements the promise of MessageDelivery.  It may give messages
\* again where no lock orders the streams, and when the storage was cleared.
Delivery == INSTANCE MessageDelivery
              WITH Tabs <- Tabs, MaxLog <- MaxLog, log <- log, seen <- seen, kept <- kept,
                   again <- ~UseLock \/ used.clears > 0
DeliveryHolds == Delivery!Spec
=============================================================================
