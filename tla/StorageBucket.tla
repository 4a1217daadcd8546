--------------------------- MODULE StorageBucket ---------------------------
(***************************************************************************)
(* The storage bucket: the Durable Object StorageBucketDO, its SQL table   *)
(* of entries, the R2 objects that hold the bytes of large values, and the *)
(* row of the bucket in the service database.                              *)
(*                                                                         *)
(* Between two awaits the Durable Object runs alone, so an action is the   *)
(* code from one await to the next.  A request to R2 is two actions more:  *)
(* R2 carries it out (R2Applies), and the object goes on with the answer.  *)
(***************************************************************************)
EXTENDS Integers, Sequences, FiniteSets

CONSTANTS
  Keys,          \* keys of the bucket, numbers in the order of the export
  SmallValues,   \* values of at most SMALL_VALUE_LIMIT bytes, kept in SQL
  LargeValues,   \* larger values, kept in R2
  Missing,       \* no row, no R2 object, the answer 404
  InR2,          \* the NULL value of a row: the bytes are in R2
  NoAnswer,      \* a read has no answer for this key
  Writers, Readers, Exporters,  \* client calls in flight, by kind
  PageSize,      \* EXPORT_PAGE_SIZE
  MaxWrites, MaxReads, MaxExports, MaxR2Failures, MaxCrashes  \* bounds

Values  == SmallValues \cup LargeValues
Outcome == Values \cup {Missing}

ASSUME KeysAreOrdered == Keys \subseteq Nat \ {0}
ASSUME ValuesAreDistinct ==
  /\ SmallValues \cap LargeValues = {}
  /\ Missing \notin Values /\ InR2 \notin Outcome /\ NoAnswer \notin Outcome
ASSUME PagesAreNotEmpty == PageSize \in Nat \ {0}
ASSUME BoundsAreNumbers ==
  {MaxWrites, MaxReads, MaxExports, MaxR2Failures, MaxCrashes} \subseteq Nat

VARIABLES
  entries,  \* SQL table: what the row of a key holds
  r2,       \* R2 object of a key
  deleted,  \* the marker of deleted_bucket, and its copy in memory
  row,      \* the bucket's row in the service database
  writes,   \* the promise chain of write(): calls, the running one first
  call,     \* each writer's call
  read,     \* each reader's call
  export,   \* each exporter's call
  legal,    \* history: outcomes that a read of the key may now return
  orphans,  \* history: keys whose put R2 refused after storing the bytes
  used      \* how much of each bound is spent

store == <<entries, r2, deleted, row>>
vars  == <<entries, r2, deleted, row, writes, call, read, export, legal,
           orphans, used>>

IdleCall == [pc |-> "idle", op |-> "none", keys |-> {}, value |-> Missing,
             inserted |-> {}]
IdleRead == [busy |-> FALSE, waiting |-> {}, raced |-> {},
             got |-> [k \in Keys |-> NoAnswer],
             allowed |-> [k \in Keys |-> {}]]
IdleExport == [pc |-> "idle", ahead |-> 0, cursor |-> 0, keys |-> {},
               untouched |-> {}]

Init ==
  /\ entries = [k \in Keys |-> Missing]
  /\ r2 = [k \in Keys |-> Missing]
  /\ deleted = FALSE
  /\ row = TRUE
  /\ writes = <<>>
  /\ call = [w \in Writers |-> IdleCall]
  /\ read = [r \in Readers |-> IdleRead]
  /\ export = [e \in Exporters |-> IdleExport]
  /\ legal = [k \in Keys |-> {Missing}]
  /\ orphans = {}
  /\ used = [writes |-> 0, reads |-> 0, exports |-> 0, failures |-> 0,
             crashes |-> 0]

Assign(f, keys, v) == [k \in Keys |-> IF k \in keys THEN v ELSE f[k]]

(***************************************************************************)
(* The history: every read in progress may return what is legal now, and   *)
(* an export vouches for the keys that no write changes after the export   *)
(* read its page of them; a write it waits for runs before.                *)
(***************************************************************************)
Extend(keys, v) ==
  [k \in Keys |-> IF k \in keys THEN legal[k] \cup {v} ELSE legal[k]]
Seen(newLegal, replaced) ==
  [r \in Readers |->
     [read[r] EXCEPT
        !.allowed = [k \in Keys |-> IF k \in read[r].waiting
                       THEN read[r].allowed[k] \cup newLegal[k]
                       ELSE read[r].allowed[k]],
        !.raced = @ \cup (replaced \cap read[r].waiting)]]
Touched(keys) ==
  [e \in Exporters |->
     [export[e] EXCEPT !.untouched =
        {k \in @ : k \in keys => export[e].ahead > 0 /\ k > export[e].cursor}]]

(***************************************************************************)
(* write(): calls run one at a time, in the order in which they came.      *)
(***************************************************************************)
Enqueue(w, c) ==
  /\ call[w].pc = "idle"
  /\ used.writes < MaxWrites
  /\ used' = [used EXCEPT !.writes = @ + 1]
  /\ call' = [call EXCEPT ![w] = c]
  /\ writes' = Append(writes, w)
  /\ UNCHANGED <<store, read, export, legal, orphans>>

Queued(op, keys, v) ==
  [pc |-> "queued", op |-> op, keys |-> keys, value |-> v, inserted |-> {}]

Put(w, k, v) == Enqueue(w, Queued("put", {k}, v))
Delete(w, k) == Enqueue(w, Queued("delete", {k}, Missing))
\* The route looks for the row of the bucket before it calls deleteBucket.
DeleteBucket(w) == row /\ Enqueue(w, Queued("deleteBucket", {}, Missing))

MutNoQueue(w) == call[w].pc = "queued"  \* mutant: calls run at once
Turn(w) == writes # <<>> /\ Head(writes) = w /\ call[w].pc = "queued"

TurnInLiveBucket(w) == Turn(w) /\ ~deleted

AwaitR2(w, keys, inserted) ==
  call' = [call EXCEPT ![w] = [@ EXCEPT !.pc = "awaitR2", !.keys = keys,
                                        !.inserted = inserted]]

\* mutant: a call that does not release
MutNoRelease(w, next, ex) ==
  writes' = writes /\ call' = [call EXCEPT ![w] = next] /\ export' = ex

\* release(): the next call may run, and an export that waited is nearer.
Release(w, next, ex) ==
  /\ writes' = Tail(writes)
  /\ call' = [call EXCEPT ![w] = next]
  /\ export' = [e \in Exporters |->
       [ex[e] EXCEPT !.ahead = IF @ > 0 THEN @ - 1 ELSE 0]]

Uploads(c) == c.op = "put" /\ c.value \in LargeValues

\* The early return of put and delete in a deleted bucket.
Refuse(w) ==
  /\ Turn(w)
  /\ deleted /\ call[w].op \in {"put", "delete"}
  /\ Release(w, IdleCall, export)
  /\ UNCHANGED <<store, read, legal, orphans, used>>

\* put, a small value: replace the row, then ask R2 to delete the object.
BeginPutSmall(w) ==
  LET c == call[w] IN
  /\ TurnInLiveBucket(w)
  /\ c.op = "put" /\ c.value \in SmallValues
  /\ entries' = Assign(entries, c.keys, c.value)
  /\ AwaitR2(w, c.keys, {})
  /\ legal' = Extend(c.keys, c.value)
  /\ read' = Seen(legal', c.keys)
  /\ export' = Touched(c.keys)
  /\ orphans' = orphans \ c.keys
  /\ UNCHANGED <<r2, deleted, row, writes, used>>

\* mutant: an existing small value is made NULL at once
MutReservesAll(keys) == keys
\* The keys among these that get a NULL row, INSERT OR IGNORE.
Reserved(keys) == {k \in keys : entries[k] = Missing}

\* putLarge: reserve a new key with a NULL row, then upload.
BeginPutLarge(w) ==
  LET c   == call[w]
      new == Reserved(c.keys)
  IN
  /\ TurnInLiveBucket(w)
  /\ Uploads(c)
  /\ entries' = Assign(entries, new, InR2)
  /\ AwaitR2(w, c.keys, new)
  /\ legal' = Extend(c.keys, c.value)
  /\ read' = Seen(legal', {})
  /\ export' = Touched(c.keys)
  /\ orphans' = orphans \ c.keys
  /\ UNCHANGED <<r2, deleted, row, writes, used>>

BeginDelete(w) ==
  LET c == call[w] IN
  /\ TurnInLiveBucket(w)
  /\ c.op = "delete"
  /\ AwaitR2(w, c.keys, {})
  /\ legal' = Extend(c.keys, Missing)
  /\ read' = Seen(legal', {})
  /\ export' = Touched(c.keys)
  /\ UNCHANGED <<store, writes, orphans, used>>

\* mutant: only rows with a value in SQL
MutPageOfSmall(table, cursor) ==
  LET rows == {k \in Keys : k > cursor /\ table[k] \notin {Missing, InR2}} IN
  {k \in rows : Cardinality({j \in rows : j < k}) < PageSize}
\* The first keys of a table after a cursor, at most PageSize of them.
Page(table, cursor) ==
  LET rows == {k \in Keys : k > cursor /\ table[k] # Missing} IN
  {k \in rows : Cardinality({j \in rows : j < k}) < PageSize}

\* deleteBucket's loop: ask R2 to delete the next page, or stop.
Sweep(w, table, ex) ==
  IF Page(table, 0) = {}
  THEN Release(w, [IdleCall EXCEPT !.pc = "swept"], ex)
  ELSE /\ AwaitR2(w, Page(table, 0), {})
       /\ export' = ex
       /\ UNCHANGED writes

BeginDeleteBucket(w) ==
  /\ Turn(w)
  /\ call[w].op = "deleteBucket"
  /\ deleted' = TRUE
  /\ legal' = [k \in Keys |-> {Missing}]
  /\ read' = Seen(legal', {})
  /\ Sweep(w, entries, Touched(Keys))
  /\ UNCHANGED <<entries, r2, row, orphans, used>>

(***************************************************************************)
(* R2 carries a request out, then its answer lets the call go on.          *)
(***************************************************************************)
R2Applies(w) ==
  LET c == call[w] IN
  /\ c.pc = "awaitR2"
  /\ r2' = Assign(r2, c.keys, IF Uploads(c) THEN c.value ELSE Missing)
  /\ call' = [call EXCEPT ![w] = [@ EXCEPT !.pc = "answered"]]
  /\ orphans' = orphans \ c.keys
  /\ UNCHANGED <<entries, deleted, row, writes, read, export, legal, used>>

\* The end of put: a large value over a small one makes the row NULL now.
FinishPut(w) ==
  LET c == call[w] IN
  /\ c.pc = "answered" /\ c.op = "put"
  /\ entries' = Assign(entries, IF Uploads(c) THEN c.keys \ c.inserted ELSE {},
                       InR2)
  /\ legal' = Assign(legal, c.keys, {c.value})
  /\ Release(w, IdleCall, export)
  /\ UNCHANGED <<r2, deleted, row, read, orphans, used>>

FinishDelete(w) ==
  LET c == call[w] IN
  /\ c.pc = "answered" /\ c.op = "delete"
  /\ entries' = Assign(entries, c.keys, Missing)
  /\ legal' = Assign(legal, c.keys, {Missing})
  /\ Release(w, IdleCall, export)
  /\ UNCHANGED <<r2, deleted, row, read, orphans, used>>

\* Remove the rows of the page, and go round the loop.
SweepPage(w) ==
  LET c == call[w] IN
  /\ c.pc = "answered" /\ c.op = "deleteBucket"
  /\ entries' = Assign(entries, c.keys, Missing)
  /\ Sweep(w, entries', export)
  /\ UNCHANGED <<r2, deleted, row, read, legal, orphans, used>>

\* R2 answers with an error, having carried the request out or not.  The
\* call throws; putLarge takes back the row it reserved.
R2Fails(w) ==
  LET c == call[w] IN
  /\ c.pc \in {"awaitR2", "answered"}
  /\ used.failures < MaxR2Failures
  /\ used' = [used EXCEPT !.failures = @ + 1]
  /\ entries' = Assign(entries, c.inserted, Missing)
  /\ orphans' = orphans \cup {k \in c.inserted : r2[k] # Missing}
  /\ Release(w, IdleCall, export)
  /\ UNCHANGED <<r2, deleted, row, read, legal>>

\* The route of the service deletes the row once the bucket is empty; when
\* that fails the row stays and the deletion can be asked for again.
DeleteServiceRow(w) ==
  /\ call[w].pc = "swept"
  /\ call' = [call EXCEPT ![w] = IdleCall]
  /\ row' \in {FALSE, row}
  /\ UNCHANGED <<entries, r2, deleted, writes, read, export, legal, orphans,
                 used>>

(***************************************************************************)
(* getValue (one key) and getValues: the rows are read at once, then R2 is *)
(* asked for each value that is not in SQL.                                *)
(***************************************************************************)
BeginRead(r, keys) ==
  LET remote == IF deleted THEN {} ELSE {k \in keys : entries[k] = InR2} IN
  /\ ~read[r].busy
  /\ used.reads < MaxReads
  /\ used' = [used EXCEPT !.reads = @ + 1]
  /\ read' = [read EXCEPT ![r] =
       [busy |-> TRUE, waiting |-> remote, raced |-> {},
        got |-> [k \in Keys |-> IF k \in remote \/ k \notin keys THEN NoAnswer
                                ELSE IF deleted THEN Missing ELSE entries[k]],
        allowed |-> [k \in Keys |-> IF k \in keys THEN legal[k] ELSE {}]]]
  /\ UNCHANGED <<store, writes, call, export, legal, orphans>>

\* mutant: the NULL of the row is returned
MutR2Get(r, k) ==
  /\ k \in read[r].waiting
  /\ read' = [read EXCEPT ![r].got[k] = entries[k], ![r].waiting = @ \ {k}]
  /\ UNCHANGED <<store, writes, call, export, legal, orphans, used>>
R2Get(r, k) ==
  /\ k \in read[r].waiting
  /\ read' = [read EXCEPT ![r].got[k] = r2[k], ![r].waiting = @ \ {k}]
  /\ UNCHANGED <<store, writes, call, export, legal, orphans, used>>

EndRead(r) ==
  /\ read[r].busy /\ read[r].waiting = {}
  /\ read' = [read EXCEPT ![r] = IdleRead]
  /\ UNCHANGED <<store, writes, call, export, legal, orphans, used>>

\* One request to R2 failed: the whole read throws.
ReadFails(r) ==
  /\ read[r].waiting # {}
  /\ used.failures < MaxR2Failures
  /\ used' = [used EXCEPT !.failures = @ + 1]
  /\ read' = [read EXCEPT ![r] = IdleRead]
  /\ UNCHANGED <<store, writes, call, export, legal, orphans>>

(***************************************************************************)
(* exportKeys: wait for the writes queued so far, then read one page.      *)
(***************************************************************************)
MutNoWait(e, x) == export' = [export EXCEPT ![e] = [x EXCEPT !.pc = "waiting"]]
AskForPage(e, x) ==
  export' = [export EXCEPT ![e] = [x EXCEPT !.pc = "waiting",
                                            !.ahead = Len(writes)]]

BeginExport(e) ==
  /\ export[e].pc = "idle"
  /\ used.exports < MaxExports
  /\ used' = [used EXCEPT !.exports = @ + 1]
  /\ AskForPage(e, [IdleExport EXCEPT !.untouched = Keys])
  /\ UNCHANGED <<store, writes, call, read, legal, orphans>>

\* The answer carries a cursor, its last key, when rows are left.
ExportPage(e) ==
  LET x    == export[e]
      page == IF deleted THEN {} ELSE Page(entries, x.cursor)
      more == page # {} /\ \E k \in Keys \ page : k > x.cursor /\ entries[k] # Missing
  IN
  /\ x.pc = "waiting" /\ x.ahead = 0
  /\ IF more
     THEN \E last \in page :
            /\ \A k \in page : k <= last
            /\ export' = [export EXCEPT ![e] = [x EXCEPT !.pc = "paged",
                            !.keys = @ \cup page, !.cursor = last]]
     ELSE export' = [export EXCEPT ![e] = [x EXCEPT !.pc = "done",
                       !.keys = @ \cup page]]
  /\ UNCHANGED <<store, writes, call, read, legal, orphans, used>>

NextExportPage(e) ==
  /\ export[e].pc = "paged"
  /\ AskForPage(e, export[e])
  /\ UNCHANGED <<store, writes, call, read, legal, orphans, used>>

EndExport(e) ==
  /\ export[e].pc = "done"
  /\ export' = [export EXCEPT ![e] = IdleExport]
  /\ UNCHANGED <<store, writes, call, read, legal, orphans, used>>

\* The object is evicted or restarted: SQL and R2 stay, calls are lost.
Restart ==
  /\ used.crashes < MaxCrashes
  /\ used' = [used EXCEPT !.crashes = @ + 1]
  /\ writes' = <<>>
  /\ call' = [w \in Writers |-> IF call[w].pc = "swept" THEN call[w] ELSE IdleCall]
  /\ read' = [r \in Readers |-> IdleRead]
  /\ export' = [e \in Exporters |-> IdleExport]
  /\ UNCHANGED <<store, legal, orphans>>

Begin(w) == BeginPutSmall(w) \/ BeginPutLarge(w) \/ BeginDelete(w)
              \/ BeginDeleteBucket(w) \/ Refuse(w)
Answer(w) == FinishPut(w) \/ FinishDelete(w) \/ SweepPage(w)

Next ==
  \/ \E w \in Writers :
       \/ \E k \in Keys, v \in Values : Put(w, k, v)
       \/ \E k \in Keys : Delete(w, k)
       \/ DeleteBucket(w)
       \/ Begin(w) \/ R2Applies(w) \/ Answer(w) \/ R2Fails(w)
       \/ DeleteServiceRow(w)
  \/ \E r \in Readers :
       \/ \E keys \in SUBSET Keys \ {{}} : BeginRead(r, keys)
       \/ \E k \in Keys : R2Get(r, k)
       \/ EndRead(r) \/ ReadFails(r)
  \/ \E e \in Exporters :
       BeginExport(e) \/ ExportPage(e) \/ NextExportPage(e) \/ EndExport(e)
  \/ Restart

Spec == Init /\ [][Next]_vars

\* R2 answers every request, and the event loop runs what can run.
Fairness ==
  /\ \A w \in Writers : WF_vars(Begin(w)) /\ WF_vars(Answer(w))
                        /\ WF_vars(R2Applies(w))
  /\ \A e \in Exporters : WF_vars(ExportPage(e))

FairSpec == Spec /\ Fairness

-----------------------------------------------------------------------------
CallRecords ==
  [pc : {"idle", "queued", "awaitR2", "answered", "swept"},
   op : {"none", "put", "delete", "deleteBucket"},
   keys : SUBSET Keys, value : Outcome, inserted : SUBSET Keys]
ReadRecords ==
  [busy : BOOLEAN, waiting : SUBSET Keys, raced : SUBSET Keys,
   got : [Keys -> Outcome \cup {NoAnswer}], allowed : [Keys -> SUBSET Outcome]]
ExportRecords ==
  [pc : {"idle", "waiting", "paged", "done"}, ahead : Nat, cursor : Nat,
   keys : SUBSET Keys, untouched : SUBSET Keys]

StoreTyped ==
  /\ entries \in [Keys -> Outcome \cup {InR2}]
  /\ r2 \in [Keys -> Outcome]
  /\ deleted \in BOOLEAN /\ row \in BOOLEAN
CallsTyped ==
  /\ writes \in Seq(Writers)
  /\ call \in [Writers -> CallRecords]
  /\ read \in [Readers -> ReadRecords]
  /\ export \in [Exporters -> ExportRecords]
HistoryTyped ==
  /\ legal \in [Keys -> SUBSET Outcome]
  /\ orphans \subseteq Keys
  /\ used \in [writes : Nat, reads : Nat, exports : Nat, failures : Nat,
               crashes : Nat]

\* The type invariant: rows, objects and calls hold what the code can store.
TypeOK == StoreTyped /\ CallsTyped /\ HistoryTyped

Visible(k) == IF entries[k] = InR2 THEN r2[k] ELSE entries[k]

\* What a read would find in a live bucket is the value of the last
\* acknowledged put or delete of the key, or of a write begun after it: no
\* interleaving, failed request to R2 or restart loses an acknowledged write.
AcknowledgedWritesHold == ~deleted => \A k \in Keys : Visible(k) \in legal[k]

\* Each answer of getValue or getValues was the key's value at some moment
\* of the read, or the value of a write that ran meanwhile; the one
\* exception is a 404 when a small put replaced the value in R2 under it.
ReadsObserveAWrite ==
  \A r \in Readers, k \in Keys :
    LET x == read[r] IN
    x.got[k] # NoAnswer =>
      \/ x.got[k] \in x.allowed[k]
      \/ x.got[k] = Missing /\ k \in x.raced

\* What bucket-do.ts says of reads, that they "can observe either side of an
\* active write": no answer is anything else.
ReadsObserveEitherSide ==
  \A r \in Readers, k \in Keys :
    read[r].got[k] # NoAnswer => read[r].got[k] \in read[r].allowed[k]

Working(w) == call[w].pc \in {"awaitR2", "answered"}

\* Every object in R2 has a row, through which export, delete and the
\* deletion of the bucket find it, unless a put that R2 refused had stored it.
NoLeakedBytes ==
  \A k \in Keys : r2[k] # Missing => entries[k] # Missing \/ k \in orphans

\* Once the service has deleted a bucket's row, which nobody can do twice,
\* no row is left in the bucket and no bytes but those of a refused put.
DeletedBucketIsEmpty ==
  ~row => /\ deleted
          /\ \A k \in Keys : entries[k] = Missing /\ r2[k] \in
               (IF k \in orphans THEN Outcome ELSE {Missing})

\* A deleted bucket only shrinks, also across restarts and whatever calls
\* were queued behind the deletion or come from a worker with a stale row.
DeletedBucketOnlyShrinks ==
  [][deleted => /\ deleted'
                /\ \A k \in Keys : /\ entries'[k] \in {entries[k], Missing}
                                   /\ r2'[k] \in {r2[k], Missing}]_vars

\* A finished export lists exactly the keys with a row, among those that no
\* write touched after their page was read: writes called before the export
\* are in it, and paging neither skips a key nor lists a deleted one.
ExportIsComplete ==
  \A e \in Exporters :
    export[e].pc = "done" /\ ~deleted =>
      \A k \in export[e].untouched : k \in export[e].keys <=> entries[k] # Missing

\* Every put, delete and deletion of the bucket gets an answer, however the
\* calls queue, fail or restart, since a failed call releases the chain too;
\* and an export waits only for the writes before it.
CallsAreAnswered ==
  /\ \A w \in Writers : call[w].pc = "queued" ~> call[w].pc \in {"idle", "swept"}
  /\ \A e \in Exporters : export[e].pc = "waiting" ~> export[e].pc # "waiting"
=============================================================================
