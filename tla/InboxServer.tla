---------------------------- MODULE InboxServer ----------------------------
(***************************************************************************)
(* The inboxes of the server: the rows of messages and their tags in the   *)
(* database, the calls that workers make on it, and the readers that page  *)
(* through a query with a cursor.                                          *)
(*                                                                         *)
(* A statement, or a batch of them, is one step of the database; between   *)
(* two of them other workers run.  Sending takes two: the row of the       *)
(* message, then the rows of its tags.                                     *)
(***************************************************************************)
EXTENDS Integers, Sequences, FiniteSets, FiniteSetsExt

CONSTANTS
  Ids,        \* ids of inboxes that accounts may create
  Shared,     \* the id of the shared inbox, which anybody may read
  Accounts,   \* numbers of accounts, from 1; the shared inbox belongs to account 0
  Workers,    \* worker processes, each with its cache of inbox rows
  Unknown, NotFound,   \* the cache has no answer, or the answer null
  Senders, Readers,    \* clients
  Messages, TagsOf,    \* what is sent, and the tags in it
  Queries,    \* [tags, accepts]: the tags asked for, and the messages whose
              \* object the schema accepts
  PageLimits, \* QUERY_PAGE_LIMITS, the last of them for all further pages
  MaxRows, MaxSends, MaxCrashes, MaxQueries  \* bounds

VARIABLES
  inbox,    \* table inboxes: the numbers of the ids, 0 for an id without a row
  owner,    \* its account_id
  rows,     \* tables inbox_messages and inbox_message_tags
  cache,    \* inboxInfoCache of each worker
  send,     \* each sender's call of sendMessage
  reader,   \* each reader's query, and history: early, the messages of its inbox that
            \* it went past before their tags came; astray, it got one of another inbox
  acked,    \* history: the sends that were answered 200 or 201
  used      \* how much of each bound is spent

vars == <<inbox, owner, rows, cache, send, reader, acked, used>>

IdleSend == [pc |-> "idle", inbox |-> Shared, number |-> 0, msg |-> "none", id |-> 0, seq |-> 0]
NoQuery == [tags |-> {}, accepts |-> {}]
IdleReader == [pc |-> "idle", inbox |-> Shared, account |-> 0, query |-> NoQuery,
               since |-> 0, step |-> 0, got |-> {}, page |-> {}, early |-> {},
               astray |-> FALSE]

Init ==
  /\ inbox = [i \in Ids |-> 0]
  /\ owner = [i \in Ids |-> 0]
  /\ rows = {}
  /\ cache = [w \in Workers |-> [i \in Ids |-> Unknown]]
  /\ send = [s \in Senders |-> IdleSend]
  /\ reader = [c \in Readers |-> IdleReader]
  /\ acked = {}
  /\ used = [rows |-> 0, sends |-> 0, crashes |-> 0, queries |-> 0]

\* mutant: numbers are not counted up
MutNextNumber(numbers) == Max(numbers \cup {1})
\* The number SQLite gives a new row of an INTEGER PRIMARY KEY, without
\* AUTOINCREMENT: one more than the largest, so numbers come again.
NextNumber(numbers) == Max(numbers \cup {0}) + 1

(***************************************************************************)
(* The table of inboxes, and the workers' caches of it.                    *)
(***************************************************************************)
\* Ids are random and never come again; an account has one inbox at most.
CreateInbox(i, a) ==
  /\ owner[i] = 0
  /\ \A j \in Ids : owner[j] = a => inbox[j] = 0
  /\ inbox' = [inbox EXCEPT ![i] = NextNumber({inbox[j] : j \in Ids})]
  /\ owner' = [owner EXCEPT ![i] = a]
  /\ UNCHANGED <<rows, cache, send, reader, acked, used>>

\* The deletion of a row takes the messages of the inbox with it, and the rows of
\* tags that name its number.
DeleteInbox(i) ==
  /\ inbox[i] # 0
  /\ inbox' = [inbox EXCEPT ![i] = 0]
  /\ rows' = {[r EXCEPT !.tags = {e \in @ : e[1] # inbox[i]}] :
                r \in {x \in rows : x.inbox # inbox[i]}}
  /\ UNCHANGED <<owner, cache, send, reader, acked, used>>

\* getInboxInfo: the answer, null or not, stays in the worker's cache.
Learn(w, i) ==
  /\ owner[i] # 0 /\ cache[w][i] = Unknown
  /\ cache' = [cache EXCEPT ![w][i] =
       IF inbox[i] = 0 THEN NotFound ELSE [account |-> owner[i], number |-> inbox[i]]]
  /\ UNCHANGED <<inbox, owner, rows, send, reader, acked, used>>

Info(w, i) == IF i = Shared THEN [account |-> 0, number |-> 0] ELSE cache[w][i]
Known(w, i) == Info(w, i) \notin {Unknown, NotFound}
MayRead(a, info) == info.account \in {a, 0}

Numbers == {0} \cup {inbox[i] : i \in Ids} \* the inboxes that have a row

(***************************************************************************)
(* sendMessage.                                                            *)
(***************************************************************************)
\* Rows with the same hash: the same message in the same inbox.
Same(number, m) == {r \in rows : r.inbox = number /\ r.msg = m}

\* INSERT ... ON CONFLICT(hash) DO NOTHING: a row without tags as yet.
InsertMessage(s, w, i, m) ==
  LET number == Info(w, i).number
      row == [id |-> used.rows + 1, seq |-> NextNumber({r.seq : r \in rows}),
              inbox |-> number, msg |-> m, tags |-> {}]
      call == [pc |-> "inserted", inbox |-> i, number |-> number, msg |-> m,
               id |-> row.id, seq |-> row.seq]
  IN
  /\ send[s].pc = "idle" /\ used.sends < MaxSends
  /\ Known(w, i) /\ number \in Numbers
  /\ IF Same(number, m) = {}
     THEN /\ used.rows < MaxRows
          /\ rows' = rows \cup {row}
          /\ send' = [send EXCEPT ![s] = call]
          /\ used' = [used EXCEPT !.sends = @ + 1, !.rows = @ + 1]
     ELSE /\ send' = [send EXCEPT ![s] = [call EXCEPT !.pc = "exists"]]
          /\ used' = [used EXCEPT !.sends = @ + 1]
          /\ UNCHANGED rows
  /\ UNCHANGED <<inbox, owner, cache, reader, acked>>

Acknowledge(s, id) ==
  /\ send' = [send EXCEPT ![s] = IdleSend]
  /\ acked' = acked \cup {[inbox |-> send[s].inbox, msg |-> send[s].msg, id |-> id]}

\* The rows of tags name the number of the message and that of the inbox, and both must
\* be there; no message has a tag twice.
TagsGoIn(s) ==
  /\ send[s].number \in Numbers
  /\ \E r \in rows : r.seq = send[s].seq /\ \A e \in r.tags : e[2] \notin TagsOf[send[s].msg]

\* The batch that inserts the tags, then 201.  After a deletion another message may have
\* the number by now, and gets them.
InsertTags(s) ==
  LET at == {r \in rows : r.seq = send[s].seq}
      new == {send[s].number} \X TagsOf[send[s].msg] IN
  /\ send[s].pc = "inserted" /\ TagsGoIn(s)
  /\ rows' = (rows \ at) \cup {[r EXCEPT !.tags = @ \cup new] : r \in at}
  /\ Acknowledge(s, send[s].id)
  /\ UNCHANGED <<inbox, owner, cache, reader, used>>

\* A message that is there already keeps its id, and the answer is 200.
SelectExisting(s) ==
  /\ send[s].pc = "exists"
  /\ \E r \in Same(send[s].number, send[s].msg) : Acknowledge(s, r.id)
  /\ UNCHANGED <<inbox, owner, rows, cache, reader, used>>

\* The row went away with its inbox, or the tags do not go in: 500.
SendFails(s) ==
  /\ \/ send[s].pc = "inserted" /\ ~TagsGoIn(s)
     \/ send[s].pc = "exists" /\ Same(send[s].number, send[s].msg) = {}
  /\ send' = [send EXCEPT ![s] = IdleSend]
  /\ UNCHANGED <<inbox, owner, rows, cache, reader, acked, used>>

\* The worker stops, or the database does not answer, between the two steps.
Crash(s) ==
  /\ send[s].pc # "idle" /\ used.crashes < MaxCrashes
  /\ send' = [send EXCEPT ![s] = IdleSend]
  /\ used' = [used EXCEPT !.crashes = @ + 1]
  /\ UNCHANGED <<inbox, owner, rows, cache, reader, acked>>

(***************************************************************************)
(* queryMessages and its route.  The cursor, which the client brings back, *)
(* holds the query, the number of the last row and the step of the pages.  *)
(***************************************************************************)
\* The message has a row of tags with the number of the inbox and a tag asked for.
Matches(r, number, q) == \E t \in q.tags : <<number, t>> \in r.tags

\* The first n of the candidates, in the order of their numbers.
Oldest(candidates, n) ==
  {r \in candidates : Cardinality({x \in candidates : x.seq < r.seq}) < n}

\* mutants: lastSeq of the filtered results; of nothing
MutLastSeqOfResults(page, q, since) ==
  Max({since} \cup {r.seq : r \in {x \in page : x.msg \in q.accepts}})
MutLastSeqPlusOne(page, q, since) == Max({since} \cup {r.seq + 1 : r \in page})
MutLastSeqBefore(page, q, since) ==
  Max({since} \cup {r.seq - 1 : r \in page})
\* The schema filters the results after the number of the last row is taken.
LastSeq(page, q, since) == Max({since} \cup {r.seq : r \in page})

Answer(c, w, x) ==
  LET info   == Info(w, x.inbox)
      mine   == {r \in rows : r.inbox = info.number}
      wanted == {r \in rows : Matches(r, info.number, x.query) /\ r.seq > x.since}
      page   == Oldest(wanted, PageLimits[x.step + 1])
      last   == LastSeq(page, x.query, x.since)
  IN
  /\ Known(w, x.inbox) /\ MayRead(x.account, info)
  /\ reader' = [reader EXCEPT ![c] = [x EXCEPT
       !.pc = IF page = wanted THEN "end" ELSE "more",
       !.since = last,
       !.step = IF @ + 1 < Len(PageLimits) THEN @ + 1 ELSE @,
       !.got = @ \cup x.page,
       !.page = {r.id : r \in {y \in page : y.msg \in x.query.accepts}},
       !.early = @ \cup {r.id : r \in {y \in mine :
                   y.seq <= last /\ ~Matches(y, info.number, x.query)}},
       !.astray = @ \/ ~(page \subseteq mine)]]
  /\ UNCHANGED <<inbox, owner, rows, cache, send, acked>>

Query(c, w, i, a, q) ==
  /\ reader[c].pc = "idle" /\ used.queries < MaxQueries
  /\ used' = [used EXCEPT !.queries = @ + 1]
  /\ Answer(c, w, [IdleReader EXCEPT !.inbox = i, !.account = a, !.query = q])

NextPage(c, w) ==
  /\ reader[c].pc \in {"more", "end"}
  /\ Answer(c, w, reader[c])
  /\ UNCHANGED used

\* 403 from a worker that knows the inbox is gone, or the client stops.
EndQuery(c) ==
  /\ reader[c].pc # "idle"
  /\ reader' = [reader EXCEPT ![c] = IdleReader]
  /\ UNCHANGED <<inbox, owner, rows, cache, send, acked, used>>

Next ==
  \/ \E i \in Ids :
       (\E a \in Accounts : CreateInbox(i, a)) \/ DeleteInbox(i)
  \/ \E w \in Workers, i \in Ids : Learn(w, i)
  \/ \E s \in Senders :
       \/ \E w \in Workers, i \in Ids \cup {Shared}, m \in Messages :
            InsertMessage(s, w, i, m)
       \/ InsertTags(s) \/ SelectExisting(s) \/ SendFails(s) \/ Crash(s)
  \/ \E c \in Readers :
       \/ \E w \in Workers, i \in Ids \cup {Shared}, a \in Accounts, q \in Queries :
            Query(c, w, i, a, q)
       \/ \E w \in Workers : NextPage(c, w)
       \/ EndQuery(c)

Spec == Init /\ [][Next]_vars

\* A client that was told of more asks for the next page.
FairSpec ==
  Spec /\ \A c \in Readers : WF_vars(reader[c].pc = "more" /\ \E w \in Workers : NextPage(c, w))

-----------------------------------------------------------------------------
TagRows == Nat \X UNION {TagsOf[m] : m \in Messages}
RowRecords == [id : Nat, seq : Nat, inbox : Nat, msg : Messages, tags : SUBSET TagRows]

\* The type invariant; numbers and ids of messages are unique.
TypeOK ==
  /\ inbox \in [Ids -> Nat] /\ owner \in [Ids -> Accounts \cup {0}]
  /\ rows \subseteq RowRecords
  /\ \A r, x \in rows : r # x => r.id # x.id /\ r.seq # x.seq
  /\ cache \in [Workers -> [Ids -> {Unknown, NotFound}
                              \cup [account : Accounts, number : Nat]]]
  /\ send \in [Senders -> [pc : {"idle", "inserted", "exists"}, number : Nat,
                 inbox : Ids \cup {Shared}, msg : Messages \cup {"none"}, id : Nat,
                 seq : Nat]]
  /\ reader \in [Readers -> [pc : {"idle", "more", "end"},
                   inbox : Ids \cup {Shared}, account : Accounts \cup {0},
                   query : Queries \cup {NoQuery}, since : Nat, step : Nat,
                   got : SUBSET Nat, page : SUBSET Nat, early : SUBSET Nat, astray : BOOLEAN]]
  /\ acked \subseteq [inbox : Ids \cup {Shared}, msg : Messages, id : Nat]

Live(i) == i = Shared \/ inbox[i] # 0
NumberOf(i) == IF i = Shared THEN 0 ELSE inbox[i]

\* A continued query gives the messages oldest first and none of them twice,
\* whichever workers answer its pages.
PagesAscend ==
  \A c \in Readers, r, x \in rows :
    r.id \in reader[c].got /\ x.id \in reader[c].page => r.seq < x.seq

\* A query that is told hasMore = false has been given every message of the
\* inbox with one of its tags that the schema accepts, but for those whose
\* tags came after a page had gone past them, and but for a reader that was
\* given a message of another inbox, whose number may be behind its own.
EndMeansEverything ==
  [][\A c \in Readers :
       LET x == reader'[c] IN
       x # reader[c] /\ x.pc = "end" /\ Live(x.inbox) /\ ~x.astray =>
         \A r \in rows :
           r.inbox = NumberOf(x.inbox) /\ Matches(r, r.inbox, x.query)
             /\ r.msg \in x.query.accepts => r.id \in x.got \cup x.page \cup x.early]_vars

\* A message sent again, by whomever and in whatever interleaving, is the
\* same message with the same id for as long as it is stored.
SentOnce ==
  \A x, y \in acked :
    /\ x.inbox = y.inbox /\ x.msg = y.msg
    /\ {x.id, y.id} \subseteq {r.id : r \in rows}
    => x.id = y.id

\* Following the cursor ends: every page gets further.
QueriesEnd == \A c \in Readers : reader[c].pc = "more" ~> reader[c].pc # "more"

\* "The continuation will return new objects": a reader that is told there is
\* no more has every acknowledged message that its query asks for, or its
\* cursor is before the message.
AcknowledgedIsDelivered ==
  \A c \in Readers, x \in acked, r \in rows :
    LET y == reader[c] IN
    /\ y.pc = "end" /\ y.inbox = x.inbox /\ Live(x.inbox) /\ r.id = x.id
    /\ TagsOf[r.msg] \cap y.query.tags # {} /\ r.msg \in y.query.accepts
    => r.id \in y.got \cup y.page \/ r.seq > y.since

\* "Sends a message to the inbox": what a client was told is in an inbox is
\* in no other.
SentToItsInbox ==
  \A x \in acked, r \in rows, i \in Ids :
    r.id = x.id /\ inbox[i] # 0 /\ r.inbox = inbox[i] => x.inbox = i
=============================================================================
