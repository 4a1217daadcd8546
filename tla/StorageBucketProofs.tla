------------------------ MODULE StorageBucketProofs ------------------------
(* Theorems about StorageBucket, for any number of keys, values and calls. *)
EXTENDS StorageBucket, FiniteSetTheorems, WellFoundedInduction, TLAPS

(***************************************************************************)
(* The inductive invariant.                                                *)
(***************************************************************************)
\* A call that R2 works for is the first of the chain, which is not empty.
OnlyFirstRuns ==
  \A w \in Writers : Working(w) => writes # <<>> /\ Head(writes) = w

PutsCarryValues ==
  \A w \in Writers : call[w].op = "put" => call[w].value \in Values

\* What a running call has done so far to the keys it works on.
Progress(c) ==
  /\ c.op \in {"put", "delete", "deleteBucket"}
  /\ c.op = "deleteBucket" <=> deleted
  /\ c.inserted \subseteq c.keys
  /\ ~Uploads(c) => c.inserted = {}
  /\ \A k \in c.keys :
       /\ c.op = "put" => c.value \in legal[k]
       /\ c.op = "delete" => Missing \in legal[k]
       /\ c.op = "put" /\ ~Uploads(c) => entries[k] = c.value
       /\ Uploads(c) => entries[k] # Missing
       /\ k \in c.inserted => entries[k] = InR2 /\ Missing \in legal[k]
       /\ c.pc = "answered" => r2[k] = (IF Uploads(c) THEN c.value ELSE Missing)
RunningCalls == \A w \in Writers : Working(w) => Progress(call[w])

\* Every copy of a value in a live bucket is one that reads may return; in a
\* deleted one they return none.
Contents ==
  \A k \in Keys : IF deleted THEN legal[k] = {Missing}
                 ELSE Visible(k) \in legal[k] /\ r2[k] \in legal[k] \cup {Missing}

Emptied ==
  ~row \/ (\E w \in Writers : call[w].pc = "swept") =>
    deleted /\ \A k \in Keys : entries[k] = Missing

\* A read that waits for R2 may return what is legal now and what R2 holds.
\* Its row was NULL: once it is not, a 404 is legal or a small put is to blame.
WaitingRead(x, k) ==
  LET excused == Missing \in x.allowed[k] \/ k \in x.raced IN
  /\ x.got[k] = NoAnswer
  /\ legal[k] \subseteq x.allowed[k]
  /\ IF r2[k] = Missing THEN excused ELSE r2[k] \in x.allowed[k]
  /\ entries[k] # InR2 => excused
WaitingReads ==
  \A r \in Readers : \A k \in read[r].waiting : WaitingRead(read[r], k)

Coherent ==
  /\ OnlyFirstRuns /\ PutsCarryValues /\ RunningCalls
  /\ Contents /\ NoLeakedBytes /\ Emptied
  /\ WaitingReads /\ ReadsObserveAWrite
IInv == TypeOK /\ Coherent

(***************************************************************************)
(* The type invariant, one action at a time.                               *)
(***************************************************************************)
USE DEF Outcome, Values

LEMMA InitTyped == Init => TypeOK
<1> SUFFICES ASSUME Init PROVE TypeOK
  OBVIOUS
<1>0. deleted \in BOOLEAN /\ row \in BOOLEAN
  BY DEF Init
<1>1. /\ entries \in [Keys -> Outcome \cup {InR2}] /\ r2 \in [Keys -> Outcome]
      /\ writes \in Seq(Writers)
      /\ legal \in [Keys -> SUBSET Outcome] /\ orphans \subseteq Keys
  BY DEF Init
<1>2. call \in [Writers -> CallRecords]
  BY DEF Init, IdleCall, CallRecords
<1>3. read \in [Readers -> ReadRecords]
  BY DEF Init, IdleRead, ReadRecords
<1>4. export \in [Exporters -> ExportRecords]
  BY DEF Init, IdleExport, ExportRecords
<1>5. used \in [writes : Nat, reads : Nat, exports : Nat, failures : Nat,
                crashes : Nat]
  BY DEF Init
<1> QED BY <1>0, <1>1, <1>2, <1>3, <1>4, <1>5 DEF TypeOK, StoreTyped, CallsTyped, HistoryTyped

\* The helpers of the model stay within the types.
LEMMA AssignTyped ==
  ASSUME NEW S, NEW f \in [Keys -> S], NEW keys, NEW v \in S
  PROVE  Assign(f, keys, v) \in [Keys -> S]
BY DEF Assign

LEMMA ExtendTyped ==
  ASSUME TypeOK, NEW keys, NEW v \in Outcome
  PROVE  Extend(keys, v) \in [Keys -> SUBSET Outcome]
BY DEF Extend, TypeOK, HistoryTyped

LEMMA SeenTyped ==
  ASSUME TypeOK, NEW f \in [Keys -> SUBSET Outcome], NEW replaced
  PROVE  Seen(f, replaced) \in [Readers -> ReadRecords]
<1> SUFFICES ASSUME NEW r \in Readers
             PROVE  Seen(f, replaced)[r] \in ReadRecords
  BY DEF Seen
<1>1. read[r] \in ReadRecords
  BY DEF TypeOK, StoreTyped, CallsTyped, HistoryTyped
<1>2. [k \in Keys |-> IF k \in read[r].waiting
         THEN read[r].allowed[k] \cup f[k] ELSE read[r].allowed[k]]
        \in [Keys -> SUBSET Outcome]
  BY <1>1 DEF ReadRecords
<1> QED BY <1>1, <1>2 DEF Seen, ReadRecords

LEMMA TouchedTyped ==
  ASSUME TypeOK, NEW keys
  PROVE  Touched(keys) \in [Exporters -> ExportRecords]
<1> SUFFICES ASSUME NEW e \in Exporters
             PROVE  Touched(keys)[e] \in ExportRecords
  BY DEF Touched
<1> DEFINE left == {k \in export[e].untouched :
                      k \in keys => export[e].ahead > 0 /\ k > export[e].cursor}
<1>1. export[e] \in ExportRecords
  BY DEF TypeOK, StoreTyped, CallsTyped, HistoryTyped
<1>2. left \in SUBSET Keys
  BY <1>1 DEF ExportRecords
<1>3. Touched(keys)[e] = [export[e] EXCEPT !.untouched = left]
  BY DEF Touched
<1> HIDE DEF left
<1> QED BY <1>1, <1>2, <1>3 DEF ExportRecords

LEMMA AwaitR2Typed ==
  ASSUME TypeOK, NEW w \in Writers, NEW keys \in SUBSET Keys,
         NEW inserted \in SUBSET Keys, AwaitR2(w, keys, inserted)
  PROVE  call' \in [Writers -> CallRecords]
<1> DEFINE c == [call[w] EXCEPT !.pc = "awaitR2", !.keys = keys,
                                !.inserted = inserted]
<1>1. call[w] \in CallRecords
  BY DEF TypeOK, StoreTyped, CallsTyped, HistoryTyped
<1>2. c \in CallRecords
  BY <1>1 DEF CallRecords
<1>3. call' = [call EXCEPT ![w] = c]
  BY DEF AwaitR2
<1> HIDE DEF c
<1> QED BY <1>2, <1>3 DEF TypeOK, StoreTyped, CallsTyped, HistoryTyped

LEMMA ReleaseTyped ==
  ASSUME TypeOK, NEW w \in Writers, NEW next \in CallRecords,
         NEW ex \in [Exporters -> ExportRecords], writes # <<>>,
         Release(w, next, ex)
  PROVE  /\ writes' \in Seq(Writers)
         /\ call' \in [Writers -> CallRecords]
         /\ export' \in [Exporters -> ExportRecords]
<1>1. writes' \in Seq(Writers)
  BY DEF TypeOK, StoreTyped, CallsTyped, HistoryTyped, Release
<1>2. call' \in [Writers -> CallRecords]
  BY DEF TypeOK, StoreTyped, CallsTyped, HistoryTyped, Release
<1>3. export' \in [Exporters -> ExportRecords]
  <2> SUFFICES ASSUME NEW e \in Exporters
               PROVE  export'[e] \in ExportRecords
    BY DEF Release
  <2> DEFINE left == IF ex[e].ahead > 0 THEN ex[e].ahead - 1 ELSE 0
  <2>1. export'[e] = [ex[e] EXCEPT !.ahead = left]
    BY DEF Release
  <2>2. left \in Nat /\ ex[e] \in ExportRecords
    BY DEF ExportRecords
  <2> HIDE DEF left
  <2> QED BY <2>1, <2>2 DEF ExportRecords
<1> QED BY <1>1, <1>2, <1>3

LEMMA IdleTyped ==
  /\ IdleCall \in CallRecords
  /\ [IdleCall EXCEPT !.pc = "swept"] \in CallRecords
  /\ IdleRead \in ReadRecords
  /\ IdleExport \in ExportRecords
BY DEF IdleCall, IdleRead, IdleExport, CallRecords, ReadRecords, ExportRecords

LEMMA SweepTyped ==
  ASSUME TypeOK, NEW w \in Writers, NEW table,
         NEW ex \in [Exporters -> ExportRecords], writes # <<>>,
         Sweep(w, table, ex)
  PROVE  /\ writes' \in Seq(Writers)
         /\ call' \in [Writers -> CallRecords]
         /\ export' \in [Exporters -> ExportRecords]
<1>1. CASE Page(table, 0) = {}
  BY <1>1, ReleaseTyped, IdleTyped DEF Sweep
<1>2. CASE Page(table, 0) # {}
  <2>1. Page(table, 0) \in SUBSET Keys
    BY DEF Page
  <2>2. call' \in [Writers -> CallRecords]
    BY <1>2, <2>1, AwaitR2Typed DEF Sweep
  <2> QED BY <1>2, <2>2 DEF Sweep, TypeOK, CallsTyped
<1> QED BY <1>1, <1>2

LEMMA EnqueueTyped ==
  ASSUME TypeOK, NEW w \in Writers, NEW c \in CallRecords, Enqueue(w, c)
  PROVE  TypeOK'
<1>1. StoreTyped' /\ HistoryTyped'
  BY DEF TypeOK, StoreTyped, HistoryTyped, Enqueue, store
<1>2. CallsTyped'
  BY DEF TypeOK, CallsTyped, Enqueue
<1> QED BY <1>1, <1>2 DEF TypeOK

LEMMA BeginTyped ==
  ASSUME TypeOK, NEW w \in Writers, Begin(w)
  PROVE  TypeOK'
<1> DEFINE c == call[w]
<1>0. c \in CallRecords /\ writes # <<>>
  BY DEF TypeOK, CallsTyped, Begin, Refuse, BeginPutSmall, BeginPutLarge,
         BeginDelete, BeginDeleteBucket, TurnInLiveBucket, Turn
<1>1. c.keys \in SUBSET Keys /\ c.value \in Outcome /\ {} \in SUBSET Keys
  BY <1>0 DEF CallRecords
<1>2. CASE BeginPutSmall(w)
  <2>1. StoreTyped'
    BY <1>1, <1>2, AssignTyped DEF BeginPutSmall, TypeOK, StoreTyped
  <2>2. HistoryTyped'
    BY <1>1, <1>2, ExtendTyped DEF BeginPutSmall, TypeOK, HistoryTyped
  <2>3. CallsTyped'
    BY <1>1, <1>2, <2>2, AwaitR2Typed, SeenTyped, TouchedTyped
       DEF BeginPutSmall, TypeOK, CallsTyped, HistoryTyped
  <2> QED BY <2>1, <2>2, <2>3 DEF TypeOK
<1>3. CASE BeginPutLarge(w)
  <2>0. Reserved(c.keys) \in SUBSET Keys
    BY <1>1 DEF Reserved
  <2>1. StoreTyped'
    <3>1. entries' = Assign(entries, Reserved(c.keys), InR2)
      BY <1>3 DEF BeginPutLarge
    <3>2. entries' \in [Keys -> Outcome \cup {InR2}]
      BY <3>1 DEF TypeOK, StoreTyped, Assign
    <3> QED BY <1>3, <3>2 DEF BeginPutLarge, TypeOK, StoreTyped
  <2>2. HistoryTyped'
    BY <1>1, <1>3, ExtendTyped DEF BeginPutLarge, TypeOK, HistoryTyped
  <2>3. CallsTyped'
    <3>1. AwaitR2(w, c.keys, Reserved(c.keys)) /\ read' = Seen(legal', {})
          /\ export' = Touched(c.keys) /\ writes' = writes
      BY <1>3 DEF BeginPutLarge
    <3>2. call' \in [Writers -> CallRecords]
      BY <1>1, <2>0, <3>1, AwaitR2Typed
    <3>3. read' \in [Readers -> ReadRecords]
      BY <2>2, <3>1, SeenTyped DEF HistoryTyped
    <3> QED BY <3>1, <3>2, <3>3, TouchedTyped DEF TypeOK, CallsTyped
  <2> QED BY <2>1, <2>2, <2>3 DEF TypeOK
<1>4. CASE BeginDelete(w)
  <2>1. StoreTyped'
    BY <1>4 DEF BeginDelete, TypeOK, StoreTyped, store
  <2>2. HistoryTyped'
    BY <1>1, <1>4, ExtendTyped DEF BeginDelete, TypeOK, HistoryTyped
  <2>3. CallsTyped'
    BY <1>1, <1>4, <2>2, AwaitR2Typed, SeenTyped, TouchedTyped
       DEF BeginDelete, TypeOK, CallsTyped, HistoryTyped
  <2> QED BY <2>1, <2>2, <2>3 DEF TypeOK
<1>5. CASE BeginDeleteBucket(w)
  <2>1. StoreTyped'
    BY <1>5 DEF BeginDeleteBucket, TypeOK, StoreTyped
  <2>2. HistoryTyped'
    BY <1>5 DEF BeginDeleteBucket, TypeOK, HistoryTyped
  <2>3. CallsTyped'
    BY <1>0, <1>5, <2>2, SweepTyped, SeenTyped, TouchedTyped
       DEF BeginDeleteBucket, TypeOK, CallsTyped, HistoryTyped
  <2> QED BY <2>1, <2>2, <2>3 DEF TypeOK
<1>6. CASE Refuse(w)
  <2>1. StoreTyped' /\ HistoryTyped'
    BY <1>6 DEF Refuse, TypeOK, StoreTyped, HistoryTyped, store
  <2>2. CallsTyped'
    BY <1>0, <1>6, ReleaseTyped, IdleTyped DEF Refuse, TypeOK, CallsTyped
  <2> QED BY <2>1, <2>2 DEF TypeOK
<1> QED BY <1>2, <1>3, <1>4, <1>5, <1>6 DEF Begin

LEMMA AnswerTyped ==
  ASSUME TypeOK, NEW w \in Writers, (writes # <<>>),
         \/ R2Applies(w) \/ Answer(w) \/ R2Fails(w)
  PROVE  TypeOK'
<1> DEFINE c == call[w]
<1>0. c \in CallRecords
  BY DEF TypeOK, CallsTyped
<1>1. c.keys \in SUBSET Keys /\ c.inserted \in SUBSET Keys /\ c.value \in Outcome
  BY <1>0 DEF CallRecords
<1>2. CASE R2Applies(w)
  <2>1. StoreTyped'
    BY <1>1, <1>2 DEF R2Applies, TypeOK, StoreTyped, Assign
  <2>2. HistoryTyped'
    BY <1>2 DEF R2Applies, TypeOK, HistoryTyped
  <2>3. [c EXCEPT !.pc = "answered"] \in CallRecords
    BY <1>0 DEF CallRecords
  <2>4. CallsTyped'
    BY <1>2, <2>3 DEF R2Applies, TypeOK, CallsTyped
  <2> QED BY <2>1, <2>2, <2>4 DEF TypeOK
<1>3. CASE FinishPut(w)
  <2>1. StoreTyped'
    BY <1>1, <1>3 DEF FinishPut, TypeOK, StoreTyped, Assign
  <2>2. HistoryTyped'
    BY <1>1, <1>3 DEF FinishPut, TypeOK, HistoryTyped, Assign
  <2>3. CallsTyped'
    BY <1>3, ReleaseTyped, IdleTyped DEF FinishPut, TypeOK, CallsTyped
  <2> QED BY <2>1, <2>2, <2>3 DEF TypeOK
<1>4. CASE FinishDelete(w)
  <2>1. StoreTyped'
    BY <1>1, <1>4 DEF FinishDelete, TypeOK, StoreTyped, Assign
  <2>2. HistoryTyped'
    BY <1>1, <1>4 DEF FinishDelete, TypeOK, HistoryTyped, Assign
  <2>3. CallsTyped'
    BY <1>4, ReleaseTyped, IdleTyped DEF FinishDelete, TypeOK, CallsTyped
  <2> QED BY <2>1, <2>2, <2>3 DEF TypeOK
<1>5. CASE SweepPage(w)
  <2>1. StoreTyped'
    BY <1>1, <1>5 DEF SweepPage, TypeOK, StoreTyped, Assign
  <2>2. HistoryTyped'
    BY <1>5 DEF SweepPage, TypeOK, HistoryTyped
  <2>3. CallsTyped'
    BY <1>5, SweepTyped DEF SweepPage, TypeOK, CallsTyped
  <2> QED BY <2>1, <2>2, <2>3 DEF TypeOK
<1>6. CASE R2Fails(w)
  <2>1. StoreTyped'
    BY <1>1, <1>6 DEF R2Fails, TypeOK, StoreTyped, Assign
  <2>2. HistoryTyped'
    BY <1>1, <1>6 DEF R2Fails, TypeOK, HistoryTyped
  <2>3. CallsTyped'
    BY <1>6, ReleaseTyped, IdleTyped DEF R2Fails, TypeOK, CallsTyped
  <2> QED BY <2>1, <2>2, <2>3 DEF TypeOK
<1> QED BY <1>2, <1>3, <1>4, <1>5, <1>6 DEF Answer

LEMMA ReadTyped ==
  ASSUME TypeOK, NEW r \in Readers,
         \/ \E keys \in SUBSET Keys \ {{}} : BeginRead(r, keys)
         \/ \E k \in Keys : R2Get(r, k)
         \/ EndRead(r) \/ ReadFails(r)
  PROVE  TypeOK'
<1>1. ASSUME NEW keys \in SUBSET Keys, BeginRead(r, keys)
      PROVE  TypeOK'
  <2>1. StoreTyped' /\ HistoryTyped'
    BY <1>1 DEF BeginRead, TypeOK, StoreTyped, HistoryTyped, store
  <2> DEFINE remote == IF deleted THEN {} ELSE {k \in keys : entries[k] = InR2}
             got == [k \in Keys |-> IF k \in remote \/ k \notin keys THEN NoAnswer
                                    ELSE IF deleted THEN Missing ELSE entries[k]]
             allowed == [k \in Keys |-> IF k \in keys THEN legal[k] ELSE {}]
  <2>2. remote \in SUBSET Keys
    OBVIOUS
  <2>3. got \in [Keys -> Outcome \cup {NoAnswer}]
    BY DEF TypeOK, StoreTyped
  <2>4. allowed \in [Keys -> SUBSET Outcome]
    BY DEF TypeOK, HistoryTyped
  <2>5. read' = [read EXCEPT ![r] = [busy |-> TRUE, waiting |-> remote,
                   raced |-> {}, got |-> got, allowed |-> allowed]]
    BY <1>1 DEF BeginRead
  <2> HIDE DEF remote, got, allowed
  <2>6. read' \in [Readers -> ReadRecords]
    BY <2>2, <2>3, <2>4, <2>5 DEF TypeOK, CallsTyped, ReadRecords
  <2> QED BY <1>1, <2>1, <2>6 DEF BeginRead, TypeOK, CallsTyped
<1>2. ASSUME NEW k \in Keys, R2Get(r, k)
      PROVE  TypeOK'
  <2>1. StoreTyped' /\ HistoryTyped'
    BY <1>2 DEF R2Get, TypeOK, StoreTyped, HistoryTyped, store
  <2>2. read[r] \in ReadRecords /\ r2[k] \in Outcome
    BY DEF TypeOK, CallsTyped, StoreTyped
  <2>3. [read[r] EXCEPT !.got[k] = r2[k], !.waiting = @ \ {k}] \in ReadRecords
    BY <2>2 DEF ReadRecords
  <2>4. read' = [read EXCEPT ![r] =
                  [read[r] EXCEPT !.got[k] = r2[k], !.waiting = @ \ {k}]]
    BY <1>2 DEF R2Get, TypeOK, CallsTyped
  <2>5. read' \in [Readers -> ReadRecords]
    BY <2>3, <2>4 DEF TypeOK, CallsTyped
  <2> QED BY <1>2, <2>1, <2>5 DEF R2Get, TypeOK, CallsTyped
<1>3. CASE EndRead(r) \/ ReadFails(r)
  <2>1. StoreTyped' /\ HistoryTyped'
    BY <1>3 DEF EndRead, ReadFails, TypeOK, StoreTyped, HistoryTyped, store
  <2>2. CallsTyped'
    BY <1>3, IdleTyped DEF EndRead, ReadFails, TypeOK, CallsTyped
  <2> QED BY <2>1, <2>2 DEF TypeOK
<1> QED BY <1>1, <1>2, <1>3

LEMMA ExportTyped ==
  ASSUME TypeOK, NEW e \in Exporters,
         \/ BeginExport(e) \/ ExportPage(e)
         \/ NextExportPage(e) \/ EndExport(e)
  PROVE  TypeOK'
<1> DEFINE x == export[e]
<1>0. x \in ExportRecords
  BY DEF TypeOK, CallsTyped
<1>1. ASSUME NEW y \in ExportRecords, AskForPage(e, y)
      PROVE  export' \in [Exporters -> ExportRecords]
  <2>1. [y EXCEPT !.pc = "waiting", !.ahead = Len(writes)] \in ExportRecords
    <3>1. Len(writes) \in Nat
      BY DEF TypeOK, CallsTyped
    <3> QED BY <3>1 DEF ExportRecords
  <2> QED BY <1>1, <2>1 DEF AskForPage, TypeOK, CallsTyped
<1>2. CASE BeginExport(e)
  <2>1. [IdleExport EXCEPT !.untouched = Keys] \in ExportRecords
    BY DEF IdleExport, ExportRecords
  <2>2. StoreTyped' /\ HistoryTyped'
    BY <1>2 DEF BeginExport, TypeOK, StoreTyped, HistoryTyped, store
  <2> QED BY <1>1, <1>2, <2>1, <2>2 DEF BeginExport, TypeOK, CallsTyped
<1>3. CASE NextExportPage(e)
  <2>1. StoreTyped' /\ HistoryTyped'
    BY <1>3 DEF NextExportPage, TypeOK, StoreTyped, HistoryTyped, store
  <2> QED BY <1>0, <1>1, <1>3, <2>1 DEF NextExportPage, TypeOK, CallsTyped
<1>4. CASE EndExport(e)
  <2>1. StoreTyped' /\ HistoryTyped'
    BY <1>4 DEF EndExport, TypeOK, StoreTyped, HistoryTyped, store
  <2> QED BY <1>4, <2>1, IdleTyped DEF EndExport, TypeOK, CallsTyped
<1>5. CASE ExportPage(e)
  <2> DEFINE page == IF deleted THEN {} ELSE Page(entries, x.cursor)
  <2>1. StoreTyped' /\ HistoryTyped'
    BY <1>5 DEF ExportPage, TypeOK, StoreTyped, HistoryTyped, store
  <2>2. page \in SUBSET Keys
    BY DEF Page
  <2>3. \/ \E last \in page :
              export' = [export EXCEPT ![e] = [x EXCEPT !.pc = "paged",
                           !.keys = @ \cup page, !.cursor = last]]
        \/ export' = [export EXCEPT ![e] = [x EXCEPT !.pc = "done",
                        !.keys = @ \cup page]]
    BY <1>5 DEF ExportPage
  <2> HIDE DEF page
  <2>4. ASSUME NEW last \in page
        PROVE  [x EXCEPT !.pc = "paged", !.keys = @ \cup page, !.cursor = last]
                 \in ExportRecords
    BY <1>0, <2>2, <2>4, KeysAreOrdered DEF ExportRecords
  <2>5. [x EXCEPT !.pc = "done", !.keys = @ \cup page] \in ExportRecords
    BY <1>0, <2>2 DEF ExportRecords
  <2>6. export' \in [Exporters -> ExportRecords]
    BY <2>3, <2>4, <2>5 DEF TypeOK, CallsTyped
  <2> QED BY <1>5, <2>1, <2>6 DEF ExportPage, TypeOK, CallsTyped
<1> QED BY <1>2, <1>3, <1>4, <1>5

LEMMA NextTyped ==
  ASSUME TypeOK, OnlyFirstRuns, [Next]_vars
  PROVE  TypeOK'
<1>1. CASE UNCHANGED vars
  BY <1>1 DEF vars, TypeOK, StoreTyped, CallsTyped, HistoryTyped
<1>2. ASSUME NEW w \in Writers, NEW k \in Keys,
             Delete(w, k) \/ \E v \in Values : Put(w, k, v)
      PROVE  TypeOK'
  <2>1. \A v \in Outcome, op \in {"put", "delete"} :
          Queued(op, {k}, v) \in CallRecords
    BY DEF Queued, CallRecords
  <2> QED BY <1>2, <2>1, EnqueueTyped DEF Put, Delete
<1>3. ASSUME NEW w \in Writers, DeleteBucket(w)
      PROVE  TypeOK'
  <2>1. Queued("deleteBucket", {}, Missing) \in CallRecords
    BY DEF Queued, CallRecords
  <2> QED BY <1>3, <2>1, EnqueueTyped DEF DeleteBucket
<1>4. ASSUME NEW w \in Writers, R2Applies(w) \/ Answer(w) \/ R2Fails(w)
      PROVE  TypeOK'
  <2>1. writes # <<>>
    BY <1>4 DEF OnlyFirstRuns, Working, R2Applies, Answer, R2Fails, FinishPut,
                FinishDelete, SweepPage
  <2> QED BY <1>4, <2>1, AnswerTyped
<1>5. ASSUME NEW w \in Writers, DeleteServiceRow(w)
      PROVE  TypeOK'
  <2>1. HistoryTyped'
    BY <1>5 DEF DeleteServiceRow, TypeOK, HistoryTyped
  <2>2. CallsTyped'
    BY <1>5, IdleTyped DEF DeleteServiceRow, TypeOK, CallsTyped
  <2>3. StoreTyped'
    BY <1>5 DEF DeleteServiceRow, TypeOK, StoreTyped
  <2> QED BY <2>1, <2>2, <2>3 DEF TypeOK
<1>6. CASE Restart
  <2>1. StoreTyped' /\ HistoryTyped'
    BY <1>6 DEF Restart, TypeOK, StoreTyped, HistoryTyped, store
  <2>2. CallsTyped'
    BY <1>6, IdleTyped DEF Restart, TypeOK, CallsTyped
  <2> QED BY <2>1, <2>2 DEF TypeOK
<1> QED BY <1>1, <1>2, <1>3, <1>4, <1>5, <1>6, BeginTyped, ReadTyped,
           ExportTyped DEF Next

(***************************************************************************)
(* The inductive invariant is kept.  First, who may be running.            *)
(***************************************************************************)
LEMMA OneRuns ==
  ASSUME OnlyFirstRuns, NEW w \in Writers, NEW v \in Writers,
         Turn(w) \/ Working(w), Working(v)
  PROVE  v = w
BY DEF OnlyFirstRuns, Turn, Working

\* A call that begins is the one that runs afterwards, with the same request.
LEMMA BeginsToRun ==
  ASSUME TypeOK, OnlyFirstRuns, NEW w \in Writers, NEW keys, NEW inserted,
         Turn(w) \/ Working(w), AwaitR2(w, keys, inserted)
  PROVE  /\ call'[w].pc = "awaitR2" /\ call'[w].keys = keys
         /\ call'[w].inserted = inserted
         /\ call'[w].op = call[w].op /\ call'[w].value = call[w].value
         /\ \A v \in Writers \ {w} : call'[v] = call[v] /\ ~Working(v)
         /\ \A v \in Writers : Working(v)' => v = w
<1>1. call[w] \in CallRecords /\ call \in [Writers -> CallRecords]
  BY DEF TypeOK, CallsTyped
<1>2. call' = [call EXCEPT ![w] = [call[w] EXCEPT !.pc = "awaitR2",
                                     !.keys = keys, !.inserted = inserted]]
  BY DEF AwaitR2
<1>3. \A v \in Writers \ {w} : call'[v] = call[v] /\ ~Working(v)
  BY <1>1, <1>2, OneRuns
<1>4. \A v \in Writers : Working(v)' => v = w
  BY <1>3 DEF Working
<1>5. call'[w] = [call[w] EXCEPT !.pc = "awaitR2", !.keys = keys,
                                 !.inserted = inserted]
  BY <1>1, <1>2
<1> QED BY <1>1, <1>3, <1>4, <1>5 DEF CallRecords

\* When a call releases the chain, none runs.
LEMMA NoneRuns ==
  ASSUME TypeOK, OnlyFirstRuns, NEW w \in Writers, NEW next, NEW ex,
         Turn(w) \/ Working(w), Release(w, next, ex),
         next.pc \notin {"awaitR2", "answered"}
  PROVE  /\ call'[w] = next
         /\ \A v \in Writers \ {w} : call'[v] = call[v]
         /\ \A v \in Writers : ~Working(v)'
<1>1. call' = [call EXCEPT ![w] = next] /\ call \in [Writers -> CallRecords]
  BY DEF TypeOK, CallsTyped, Release
<1>2. \A v \in Writers \ {w} : call'[v] = call[v] /\ ~Working(v)
  BY <1>1, OneRuns
<1> QED BY <1>1, <1>2 DEF Working

\* While reads go on, what they may return only grows.
LEMMA SeenGrows ==
  ASSUME TypeOK, NEW f \in [Keys -> SUBSET Outcome], NEW replaced,
         read' = Seen(f, replaced), NEW r \in Readers
  PROVE  /\ read'[r].waiting = read[r].waiting
         /\ read'[r].got = read[r].got
         /\ read[r].raced \subseteq read'[r].raced
         /\ \A k \in read[r].waiting : k \in replaced => k \in read'[r].raced
         /\ \A k \in Keys : read[r].allowed[k] \subseteq read'[r].allowed[k]
         /\ \A k \in read[r].waiting :
              read'[r].allowed[k] = read[r].allowed[k] \cup f[k]
<1> DEFINE grown == [k \in Keys |-> IF k \in read[r].waiting
                       THEN read[r].allowed[k] \cup f[k] ELSE read[r].allowed[k]]
<1>1. read[r] \in ReadRecords
  BY DEF TypeOK, CallsTyped
<1>2. read'[r] = [read[r] EXCEPT !.allowed = grown,
                    !.raced = @ \cup (replaced \cap read[r].waiting)]
  BY DEF Seen
<1>3. /\ read'[r].waiting = read[r].waiting /\ read'[r].got = read[r].got
      /\ read'[r].allowed = grown
      /\ read'[r].raced = read[r].raced \cup (replaced \cap read[r].waiting)
  BY <1>1, <1>2 DEF ReadRecords
<1> QED BY <1>1, <1>3 DEF ReadRecords

\* Answers already given stay legal.
LEMMA AnswersKept ==
  ASSUME ReadsObserveAWrite,
         \A r \in Readers : /\ read'[r].got = read[r].got
                            /\ read[r].raced \subseteq read'[r].raced
                            /\ \A k \in Keys :
                                 read[r].allowed[k] \subseteq read'[r].allowed[k]
  PROVE  ReadsObserveAWrite'
BY DEF ReadsObserveAWrite

LEMMA BeginPutSmallKeeps ==
  ASSUME IInv, TypeOK', NEW w \in Writers, BeginPutSmall(w)
  PROVE  Coherent'
<1> DEFINE c == call[w]
<1> USE DEF IInv, Coherent
<1>0. /\ Turn(w) /\ ~deleted /\ c.op = "put" /\ c.value \in SmallValues
      /\ entries' = Assign(entries, c.keys, c.value)
      /\ AwaitR2(w, c.keys, {})
      /\ legal' = Extend(c.keys, c.value)
      /\ read' = Seen(legal', c.keys)
      /\ orphans' = orphans \ c.keys
      /\ UNCHANGED <<r2, deleted, row, writes>>
  BY DEF BeginPutSmall, TurnInLiveBucket
<1>1. /\ c.keys \in SUBSET Keys /\ c \in CallRecords
      /\ c.value \notin {Missing, InR2}
  BY <1>0, ValuesAreDistinct DEF TypeOK, CallsTyped, CallRecords
<1>2. \A k \in Keys : /\ legal[k] \subseteq legal'[k]
                      /\ k \in c.keys => c.value \in legal'[k]
                      /\ k \in c.keys => entries'[k] = c.value
                      /\ k \notin c.keys => entries'[k] = entries[k]
  BY <1>0 DEF Extend, Assign
<1>3. /\ call'[w].pc = "awaitR2" /\ call'[w].keys = c.keys
      /\ call'[w].inserted = {} /\ call'[w].op = "put"
      /\ call'[w].value = c.value
      /\ \A v \in Writers \ {w} : call'[v] = call[v] /\ ~Working(v)
      /\ \A v \in Writers : Working(v)' => v = w
  BY <1>0, BeginsToRun
<1>4. OnlyFirstRuns' /\ PutsCarryValues'
  BY <1>0, <1>3 DEF OnlyFirstRuns, PutsCarryValues, Turn
<1>5. Progress(call[w])'
  BY <1>0, <1>1, <1>2, <1>3, ValuesAreDistinct DEF Progress, Uploads
<1>6. RunningCalls'
  BY <1>3, <1>5 DEF RunningCalls
<1>7. Contents'
  BY <1>0, <1>1, <1>2 DEF Contents, Visible
<1>8. NoLeakedBytes'
  BY <1>0, <1>1, <1>2 DEF NoLeakedBytes
<1>9. Emptied'
  BY <1>0, <1>3 DEF Emptied
<1>10. WaitingReads'
  <2> SUFFICES ASSUME NEW r \in Readers, NEW k \in read'[r].waiting
               PROVE  WaitingRead(read[r], k)'
    BY DEF WaitingReads
  <2>1. /\ k \in read[r].waiting /\ k \in Keys
        /\ read'[r].got = read[r].got
        /\ read[r].raced \subseteq read'[r].raced
        /\ k \in c.keys => k \in read'[r].raced
        /\ read'[r].allowed[k] = read[r].allowed[k] \cup legal'[k]
    BY <1>0, SeenGrows DEF TypeOK, HistoryTyped, CallsTyped, ReadRecords
  <2>2. WaitingRead(read[r], k)
    BY <2>1 DEF WaitingReads
  <2> QED BY <1>0, <1>2, <2>1, <2>2 DEF WaitingRead
<1>11. ReadsObserveAWrite'
  BY <1>0, SeenGrows, AnswersKept DEF TypeOK, HistoryTyped
<1> QED BY <1>4, <1>6, <1>7, <1>8, <1>9, <1>10, <1>11

LEMMA BeginPutLargeKeeps ==
  ASSUME IInv, TypeOK', NEW w \in Writers, BeginPutLarge(w)
  PROVE  Coherent'
<1> DEFINE c == call[w]  new == Reserved(c.keys)
<1> USE DEF IInv, Coherent
<1>0. /\ Turn(w) /\ ~deleted /\ Uploads(c)
      /\ entries' = Assign(entries, new, InR2)
      /\ AwaitR2(w, c.keys, new)
      /\ legal' = Extend(c.keys, c.value)
      /\ read' = Seen(legal', {})
      /\ orphans' = orphans \ c.keys
      /\ UNCHANGED <<r2, deleted, row, writes>>
  BY DEF BeginPutLarge, TurnInLiveBucket
<1>1. /\ c.keys \in SUBSET Keys /\ c \in CallRecords
      /\ c.op = "put" /\ c.value \in LargeValues
      /\ c.value \notin {Missing, InR2} /\ InR2 # Missing
  BY <1>0, ValuesAreDistinct DEF TypeOK, CallsTyped, CallRecords, Uploads
<1>2. \A k \in Keys : /\ legal[k] \subseteq legal'[k]
                      /\ k \in c.keys => c.value \in legal'[k]
                      /\ k \in new <=> k \in c.keys /\ entries[k] = Missing
                      /\ k \in new => entries'[k] = InR2
                      /\ k \notin new => entries'[k] = entries[k]
  BY <1>0, <1>1 DEF Extend, Assign, Reserved
<1>3. /\ call'[w].pc = "awaitR2" /\ call'[w].keys = c.keys
      /\ call'[w].inserted = new /\ call'[w].op = "put"
      /\ call'[w].value = c.value
      /\ \A v \in Writers \ {w} : call'[v] = call[v] /\ ~Working(v)
      /\ \A v \in Writers : Working(v)' => v = w
  BY <1>0, <1>1, BeginsToRun
<1>4. OnlyFirstRuns' /\ PutsCarryValues'
  BY <1>0, <1>1, <1>3 DEF OnlyFirstRuns, PutsCarryValues, Turn
<1>v. ASSUME NEW k \in new PROVE Missing \in legal[k]
  <2>1. k \in Keys /\ entries[k] = Missing
    BY <1>1 DEF Reserved
  <2>2. Visible(k) = Missing /\ Visible(k) \in legal[k]
    BY <1>0, <1>1, <2>1 DEF Contents, Visible
  <2> QED BY <2>2
<1>5. Progress(call[w])'
  <2>1. Uploads(call[w])'
    BY <1>1, <1>3 DEF Uploads
  <2>2. new \subseteq c.keys
    BY DEF Reserved
  <2> HIDE DEF new
  <2> QED BY <1>0, <1>1, <1>2, <1>3, <1>v, <2>1, <2>2, ValuesAreDistinct
          DEF Progress
<1>6. RunningCalls'
  BY <1>3, <1>5 DEF RunningCalls
<1>7. Contents'
  <2> HIDE DEF new
  <2> QED BY <1>0, <1>1, <1>2, <1>v DEF Contents, Visible
<1>8. NoLeakedBytes'
  BY <1>0, <1>1, <1>2 DEF NoLeakedBytes
<1>9. Emptied'
  BY <1>0, <1>3 DEF Emptied
<1>10. WaitingReads'
  <2> SUFFICES ASSUME NEW r \in Readers, NEW k \in read'[r].waiting
               PROVE  WaitingRead(read[r], k)'
    BY DEF WaitingReads
  <2>1. /\ k \in read[r].waiting /\ k \in Keys
        /\ read'[r].got = read[r].got
        /\ read[r].raced \subseteq read'[r].raced
        /\ read'[r].allowed[k] = read[r].allowed[k] \cup legal'[k]
    BY <1>0, SeenGrows DEF TypeOK, HistoryTyped, CallsTyped, ReadRecords
  <2>2. WaitingRead(read[r], k)
    BY <2>1 DEF WaitingReads
  <2> HIDE DEF new
  <2> QED BY <1>0, <1>2, <2>1, <2>2 DEF WaitingRead
<1>11. ReadsObserveAWrite'
  BY <1>0, SeenGrows, AnswersKept DEF TypeOK, HistoryTyped
<1> QED BY <1>4, <1>6, <1>7, <1>8, <1>9, <1>10, <1>11

LEMMA BeginDeleteKeeps ==
  ASSUME IInv, TypeOK', NEW w \in Writers, BeginDelete(w)
  PROVE  Coherent'
<1> DEFINE c == call[w]
<1> USE DEF IInv, Coherent
<1>0. /\ Turn(w) /\ ~deleted /\ c.op = "delete"
      /\ AwaitR2(w, c.keys, {})
      /\ legal' = Extend(c.keys, Missing)
      /\ read' = Seen(legal', {})
      /\ UNCHANGED <<entries, r2, deleted, row, writes, orphans>>
  BY DEF BeginDelete, TurnInLiveBucket, store
<1>1. /\ c.keys \in SUBSET Keys /\ c \in CallRecords
  BY DEF TypeOK, CallsTyped, CallRecords
<1>2. \A k \in Keys : /\ legal[k] \subseteq legal'[k]
                      /\ k \in c.keys => Missing \in legal'[k]
  BY <1>0 DEF Extend
<1>3. /\ call'[w].pc = "awaitR2" /\ call'[w].keys = c.keys
      /\ call'[w].inserted = {} /\ call'[w].op = "delete"
      /\ \A v \in Writers \ {w} : call'[v] = call[v] /\ ~Working(v)
      /\ \A v \in Writers : Working(v)' => v = w
  BY <1>0, BeginsToRun
<1>4. OnlyFirstRuns' /\ PutsCarryValues'
  BY <1>0, <1>3 DEF OnlyFirstRuns, PutsCarryValues, Turn
<1>5. Progress(call[w])'
  BY <1>0, <1>1, <1>2, <1>3 DEF Progress, Uploads
<1>6. RunningCalls'
  BY <1>3, <1>5 DEF RunningCalls
<1>7. Contents' /\ NoLeakedBytes'
  BY <1>0, <1>2 DEF Contents, Visible, NoLeakedBytes
<1>9. Emptied'
  BY <1>0, <1>3 DEF Emptied
<1>10. WaitingReads'
  <2> SUFFICES ASSUME NEW r \in Readers, NEW k \in read'[r].waiting
               PROVE  WaitingRead(read[r], k)'
    BY DEF WaitingReads
  <2>1. /\ k \in read[r].waiting /\ k \in Keys
        /\ read'[r].got = read[r].got
        /\ read[r].raced \subseteq read'[r].raced
        /\ read'[r].allowed[k] = read[r].allowed[k] \cup legal'[k]
    BY <1>0, SeenGrows DEF TypeOK, HistoryTyped, CallsTyped, ReadRecords
  <2>2. WaitingRead(read[r], k)
    BY <2>1 DEF WaitingReads
  <2> QED BY <1>0, <2>1, <2>2 DEF WaitingRead
<1>11. ReadsObserveAWrite'
  BY <1>0, SeenGrows, AnswersKept DEF TypeOK, HistoryTyped
<1> QED BY <1>4, <1>6, <1>7, <1>9, <1>10, <1>11

\* deleteBucket stops when no row is left, and a page holds only rows.
LEMMA EmptyPage ==
  ASSUME NEW table, NEW cursor, Page(table, cursor) = {}
  PROVE  \A k \in Keys : k > cursor => table[k] = Missing
<1> DEFINE rows == {k \in Keys : k > cursor /\ table[k] # Missing}
<1> SUFFICES ASSUME rows # {} PROVE FALSE
  OBVIOUS
<1>1. PICK k \in rows : \A j \in rows : <<j, k>> \notin OpToRel(<, Nat)
  BY KeysAreOrdered, NatLessThanWellFounded, WFMin
<1>2. {j \in rows : j < k} = {}
  BY <1>1, KeysAreOrdered DEF OpToRel
<1>3. Cardinality({j \in rows : j < k}) < PageSize
  BY <1>2, FS_EmptySet, PagesAreNotEmpty
<1>4. k \in Page(table, cursor)
  BY <1>3 DEF Page
<1> QED BY <1>4

LEMMA BeginDeleteBucketKeeps ==
  ASSUME IInv, TypeOK', NEW w \in Writers, BeginDeleteBucket(w)
  PROVE  Coherent'
<1> DEFINE c == call[w]  ex == Touched(Keys)
<1> USE DEF IInv, Coherent
<1>0. /\ Turn(w) /\ c.op = "deleteBucket" /\ deleted'
      /\ legal' = [k \in Keys |-> {Missing}]
      /\ read' = Seen(legal', {})
      /\ Sweep(w, entries, ex)
      /\ UNCHANGED <<entries, r2, row, orphans>>
  BY DEF BeginDeleteBucket
<1>1. /\ OnlyFirstRuns' /\ PutsCarryValues' /\ RunningCalls' /\ Emptied'
  <2>1. CASE Page(entries, 0) = {}
    <3> DEFINE next == [IdleCall EXCEPT !.pc = "swept"]
    <3>1. next.pc = "swept" /\ next.op = "none"
      BY DEF IdleCall
    <3>2. Release(w, next, ex)
      BY <1>0, <2>1 DEF Sweep
    <3> HIDE DEF next, ex
    <3>3. /\ call'[w] = next
          /\ \A v \in Writers \ {w} : call'[v] = call[v]
          /\ \A v \in Writers : ~Working(v)'
      BY <1>0, <3>1, <3>2, NoneRuns
    <3>4. PutsCarryValues'
      BY <3>1, <3>3 DEF PutsCarryValues
    <3>5. Emptied'
      BY <1>0, <2>1, EmptyPage, KeysAreOrdered DEF Emptied
    <3> QED BY <3>3, <3>4, <3>5 DEF OnlyFirstRuns, RunningCalls
  <2>2. CASE Page(entries, 0) # {}
    <3>1. AwaitR2(w, Page(entries, 0), {}) /\ writes' = writes
      BY <1>0, <2>2 DEF Sweep
    <3>2. /\ call'[w].pc = "awaitR2" /\ call'[w].keys = Page(entries, 0)
          /\ call'[w].inserted = {} /\ call'[w].op = "deleteBucket"
          /\ \A v \in Writers \ {w} : call'[v] = call[v] /\ ~Working(v)
          /\ \A v \in Writers : Working(v)' => v = w
      BY <1>0, <3>1, BeginsToRun
    <3>3. OnlyFirstRuns' /\ PutsCarryValues'
      BY <1>0, <3>1, <3>2 DEF OnlyFirstRuns, PutsCarryValues, Turn
    <3>4. Progress(call[w])'
      BY <1>0, <3>2 DEF Progress, Uploads
    <3>5. RunningCalls'
      BY <3>2, <3>4 DEF RunningCalls
    <3>6. Emptied'
      BY <1>0, <3>2 DEF Emptied
    <3> QED BY <3>3, <3>5, <3>6
  <2> QED BY <2>1, <2>2
<1>2. Contents' /\ NoLeakedBytes'
  BY <1>0 DEF Contents, NoLeakedBytes
<1>3. legal' \in [Keys -> SUBSET Outcome]
  BY DEF TypeOK, HistoryTyped
<1>4. WaitingReads'
  <2> SUFFICES ASSUME NEW r \in Readers, NEW k \in read'[r].waiting
               PROVE  WaitingRead(read[r], k)'
    BY DEF WaitingReads
  <2>1. /\ k \in read[r].waiting /\ k \in Keys
        /\ read'[r].got = read[r].got
        /\ read[r].raced \subseteq read'[r].raced
        /\ read'[r].allowed[k] = read[r].allowed[k] \cup legal'[k]
    <3>1. \A q \in read[r].waiting : q \in Keys
      BY DEF TypeOK, CallsTyped, ReadRecords
    <3>2. read' = Seen(legal', {})
      BY <1>0
    <3> QED BY <1>3, <3>1, <3>2, SeenGrows
  <2>2. WaitingRead(read[r], k)
    BY <2>1 DEF WaitingReads
  <2> QED BY <1>0, <2>1, <2>2 DEF WaitingRead
<1>5. ReadsObserveAWrite'
  BY <1>0, <1>3, SeenGrows, AnswersKept
<1> QED BY <1>1, <1>2, <1>4, <1>5

LEMMA RefuseKeeps ==
  ASSUME IInv, TypeOK', NEW w \in Writers, Refuse(w)
  PROVE  Coherent'
<1> USE DEF IInv, Coherent
<1>0. /\ Turn(w) /\ Release(w, IdleCall, export)
      /\ UNCHANGED <<entries, r2, deleted, row, read, legal, orphans>>
  BY DEF Refuse, store
<1>1. IdleCall.pc = "idle" /\ IdleCall.op = "none"
  BY DEF IdleCall
<1>2. /\ call'[w] = IdleCall
      /\ \A v \in Writers \ {w} : call'[v] = call[v]
      /\ \A v \in Writers : ~Working(v)'
  BY <1>0, <1>1, NoneRuns
<1>3. OnlyFirstRuns' /\ RunningCalls'
  BY <1>2 DEF OnlyFirstRuns, RunningCalls
<1>4. PutsCarryValues' /\ Emptied'
  BY <1>0, <1>1, <1>2 DEF PutsCarryValues, Emptied
<1>5. Contents' /\ NoLeakedBytes'
  BY <1>0 DEF Contents, NoLeakedBytes, Visible
<1>6. WaitingReads' /\ ReadsObserveAWrite'
  BY <1>0 DEF WaitingReads, WaitingRead, ReadsObserveAWrite
<1> QED BY <1>3, <1>4, <1>5, <1>6

(***************************************************************************)
(* R2 and its answers.                                                     *)
(***************************************************************************)
LEMMA R2AppliesKeeps ==
  ASSUME IInv, TypeOK', NEW w \in Writers, R2Applies(w)
  PROVE  Coherent'
<1> DEFINE c == call[w]
<1> USE DEF IInv, Coherent
<1>0. /\ c.pc = "awaitR2"
      /\ r2' = Assign(r2, c.keys, IF Uploads(c) THEN c.value ELSE Missing)
      /\ call' = [call EXCEPT ![w] = [c EXCEPT !.pc = "answered"]]
      /\ orphans' = orphans \ c.keys
      /\ UNCHANGED <<entries, deleted, row, writes, read, legal>>
  BY DEF R2Applies
<1>1. /\ c.keys \in SUBSET Keys /\ c \in CallRecords
      /\ call \in [Writers -> CallRecords]
      /\ Working(w) /\ Progress(c)
  BY <1>0 DEF TypeOK, CallsTyped, CallRecords, Working, RunningCalls
<1>2. /\ call'[w].pc = "answered" /\ call'[w].keys = c.keys
      /\ call'[w].inserted = c.inserted /\ call'[w].op = c.op
      /\ call'[w].value = c.value
      /\ \A v \in Writers \ {w} : call'[v] = call[v]
  BY <1>0, <1>1 DEF CallRecords
<1>3. \A v \in Writers : Working(v)' => v = w
  BY <1>1, <1>2, OneRuns DEF Working
<1>4. Uploads(call[w])' = Uploads(c)
  BY <1>2 DEF Uploads
<1>5. \A k \in Keys :
        /\ k \notin c.keys => r2'[k] = r2[k]
        /\ k \in c.keys => r2'[k] = IF Uploads(c) THEN c.value ELSE Missing
  BY <1>0 DEF Assign
<1>6. OnlyFirstRuns' /\ PutsCarryValues'
  BY <1>0, <1>1, <1>2, <1>3 DEF OnlyFirstRuns, PutsCarryValues
<1>7. Progress(call[w])'
  BY <1>0, <1>1, <1>2, <1>4, <1>5 DEF Progress
<1>8. RunningCalls'
  BY <1>3, <1>7 DEF RunningCalls
<1>9. Contents'
  <2> SUFFICES ASSUME ~deleted, NEW k \in Keys
               PROVE  /\ Visible(k)' \in legal[k]
                      /\ r2'[k] \in legal[k] \cup {Missing}
    BY <1>0 DEF Contents
  <2>1. CASE k \notin c.keys
    BY <1>0, <1>5, <2>1 DEF Contents, Visible
  <2>2. CASE k \in c.keys /\ Uploads(c)
    BY <1>0, <1>1, <1>5, <2>2 DEF Contents, Visible, Progress, Uploads
  <2>3. CASE k \in c.keys /\ ~Uploads(c)
    <3>1. c.op = "put" => entries[k] \in Values
      BY <1>1, <2>3 DEF Progress, PutsCarryValues
    <3> QED BY <1>0, <1>1, <1>5, <2>3, <3>1, ValuesAreDistinct
            DEF Contents, Visible, Progress
  <2> QED BY <2>1, <2>2, <2>3
<1>10. NoLeakedBytes'
  BY <1>0, <1>1, <1>5 DEF NoLeakedBytes, Progress
<1>11. Emptied'
  BY <1>0, <1>2 DEF Emptied
<1>12. WaitingReads'
  <2> SUFFICES ASSUME NEW r \in Readers, NEW k \in read[r].waiting
               PROVE  WaitingRead(read[r], k)'
    BY <1>0 DEF WaitingReads
  <2>1. k \in Keys /\ WaitingRead(read[r], k)
    BY DEF TypeOK, CallsTyped, ReadRecords, WaitingReads
  <2>2. CASE k \notin c.keys
    BY <1>0, <1>5, <2>1, <2>2 DEF WaitingRead
  <2>3. CASE k \in c.keys /\ Uploads(c)
    <3>1. c.value \in legal[k] /\ c.value # Missing
      BY <1>1, <2>3, ValuesAreDistinct DEF Progress, Uploads
    <3> QED BY <1>0, <1>5, <2>1, <2>3, <3>1 DEF WaitingRead
  <2>4. CASE k \in c.keys /\ ~Uploads(c)
    <3>1. CASE c.op = "put"
      <4>1. entries[k] # InR2
        BY <1>1, <2>4, <3>1, ValuesAreDistinct DEF Progress, PutsCarryValues
      <4> QED BY <1>0, <1>5, <2>1, <2>4, <4>1 DEF WaitingRead
    <3>2. CASE c.op = "delete"
      BY <1>0, <1>1, <1>5, <2>1, <2>4, <3>2 DEF WaitingRead, Progress
    <3>3. CASE c.op = "deleteBucket"
      BY <1>0, <1>1, <1>5, <2>1, <2>4, <3>3 DEF WaitingRead, Progress, Contents
    <3> QED BY <1>1, <3>1, <3>2, <3>3 DEF Progress
  <2> QED BY <2>2, <2>3, <2>4
<1>13. ReadsObserveAWrite'
  BY <1>0 DEF ReadsObserveAWrite
<1> QED BY <1>6, <1>8, <1>9, <1>10, <1>11, <1>12, <1>13

\* What R2 has answered for, as the invariant tells it.
LEMMA AnsweredCall ==
  ASSUME IInv, NEW w \in Writers, Working(w)
  PROVE  /\ call[w] \in CallRecords /\ call[w].keys \in SUBSET Keys
         /\ call[w].inserted \in SUBSET Keys
         /\ Progress(call[w])
BY DEF IInv, Coherent, TypeOK, CallsTyped, CallRecords, RunningCalls

\* A call that gets its answer leaves nobody running.
LEMMA ReleaseKeeps ==
  ASSUME IInv, NEW w \in Writers, Turn(w) \/ Working(w),
         Release(w, IdleCall, export)
  PROVE  /\ OnlyFirstRuns' /\ PutsCarryValues' /\ RunningCalls'
         /\ \A v \in Writers : call'[v].pc = "swept" => call[v].pc = "swept"
<1> USE DEF IInv, Coherent
<1>1. IdleCall.pc = "idle" /\ IdleCall.op = "none"
  BY DEF IdleCall
<1>2. /\ call'[w] = IdleCall
      /\ \A v \in Writers \ {w} : call'[v] = call[v]
      /\ \A v \in Writers : ~Working(v)'
  BY <1>1, NoneRuns
<1> QED BY <1>1, <1>2 DEF OnlyFirstRuns, PutsCarryValues, RunningCalls

LEMMA FinishPutKeeps ==
  ASSUME IInv, TypeOK', NEW w \in Writers, FinishPut(w)
  PROVE  Coherent'
<1> DEFINE c == call[w]
<1> USE DEF IInv, Coherent
<1>0. /\ c.pc = "answered" /\ c.op = "put"
      /\ entries' = Assign(entries, IF Uploads(c) THEN c.keys \ c.inserted ELSE {},
                           InR2)
      /\ legal' = Assign(legal, c.keys, {c.value})
      /\ Release(w, IdleCall, export)
      /\ UNCHANGED <<r2, deleted, row, read, orphans>>
  BY DEF FinishPut
<1>1. Working(w) /\ c.keys \in SUBSET Keys /\ Progress(c)
  BY <1>0, AnsweredCall DEF Working
<1>2. /\ OnlyFirstRuns' /\ PutsCarryValues' /\ RunningCalls'
      /\ \A v \in Writers : call'[v].pc = "swept" => call[v].pc = "swept"
  BY <1>0, <1>1, ReleaseKeeps
<1>3. ~deleted /\ c.value \notin {Missing, InR2} /\ InR2 # Missing
  BY <1>0, <1>1, ValuesAreDistinct DEF Progress, PutsCarryValues
<1>4. \A k \in Keys :
        /\ k \notin c.keys => entries'[k] = entries[k] /\ legal'[k] = legal[k]
        /\ k \in c.keys => legal'[k] = {c.value} /\ c.value \in legal[k]
        /\ k \in c.keys /\ Uploads(c) => entries'[k] = InR2 /\ r2[k] = c.value
        /\ k \in c.keys /\ ~Uploads(c) =>
             entries'[k] = c.value /\ entries[k] = c.value /\ r2[k] = Missing
  BY <1>0, <1>1 DEF Assign, Progress
<1>5. Contents' /\ NoLeakedBytes'
  BY <1>0, <1>3, <1>4 DEF Contents, Visible, NoLeakedBytes
<1>6. Emptied'
  BY <1>0, <1>2, <1>3 DEF Emptied
<1>7. WaitingReads'
  <2> SUFFICES ASSUME NEW r \in Readers, NEW k \in read[r].waiting
               PROVE  WaitingRead(read[r], k)'
    BY <1>0 DEF WaitingReads
  <2>1. k \in Keys /\ WaitingRead(read[r], k)
    BY DEF TypeOK, CallsTyped, ReadRecords, WaitingReads
  <2> QED BY <1>0, <1>4, <2>1 DEF WaitingRead
<1>8. ReadsObserveAWrite'
  BY <1>0 DEF ReadsObserveAWrite
<1> QED BY <1>2, <1>5, <1>6, <1>7, <1>8

LEMMA FinishDeleteKeeps ==
  ASSUME IInv, TypeOK', NEW w \in Writers, FinishDelete(w)
  PROVE  Coherent'
<1> DEFINE c == call[w]
<1> USE DEF IInv, Coherent
<1>0. /\ c.pc = "answered" /\ c.op = "delete"
      /\ entries' = Assign(entries, c.keys, Missing)
      /\ legal' = Assign(legal, c.keys, {Missing})
      /\ Release(w, IdleCall, export)
      /\ UNCHANGED <<r2, deleted, row, read, orphans>>
  BY DEF FinishDelete
<1>1. Working(w) /\ c.keys \in SUBSET Keys /\ Progress(c) /\ ~Uploads(c)
  BY <1>0, AnsweredCall DEF Working, Uploads
<1>2. /\ OnlyFirstRuns' /\ PutsCarryValues' /\ RunningCalls'
      /\ \A v \in Writers : call'[v].pc = "swept" => call[v].pc = "swept"
  BY <1>0, <1>1, ReleaseKeeps
<1>3. ~deleted /\ InR2 # Missing
  BY <1>0, <1>1, ValuesAreDistinct DEF Progress
<1>4. \A k \in Keys :
        /\ k \notin c.keys => entries'[k] = entries[k] /\ legal'[k] = legal[k]
        /\ k \in c.keys => /\ legal'[k] = {Missing} /\ Missing \in legal[k]
                           /\ entries'[k] = Missing /\ r2[k] = Missing
  BY <1>0, <1>1 DEF Assign, Progress
<1>5. Contents' /\ NoLeakedBytes'
  BY <1>0, <1>3, <1>4 DEF Contents, Visible, NoLeakedBytes
<1>6. Emptied'
  BY <1>0, <1>2, <1>3 DEF Emptied
<1>7. WaitingReads'
  <2> SUFFICES ASSUME NEW r \in Readers, NEW k \in read[r].waiting
               PROVE  WaitingRead(read[r], k)'
    BY <1>0 DEF WaitingReads
  <2>1. k \in Keys /\ WaitingRead(read[r], k)
    BY DEF TypeOK, CallsTyped, ReadRecords, WaitingReads
  <2> QED BY <1>0, <1>4, <2>1 DEF WaitingRead
<1>8. ReadsObserveAWrite'
  BY <1>0 DEF ReadsObserveAWrite
<1> QED BY <1>2, <1>5, <1>6, <1>7, <1>8

LEMMA SweepPageKeeps ==
  ASSUME IInv, TypeOK', NEW w \in Writers, SweepPage(w)
  PROVE  Coherent'
<1> DEFINE c == call[w]
<1> USE DEF IInv, Coherent
<1>0. /\ c.pc = "answered" /\ c.op = "deleteBucket"
      /\ entries' = Assign(entries, c.keys, Missing)
      /\ Sweep(w, entries', export)
      /\ UNCHANGED <<r2, deleted, row, read, legal, orphans>>
  BY DEF SweepPage
<1>1. Working(w) /\ c.keys \in SUBSET Keys /\ Progress(c) /\ ~Uploads(c)
  BY <1>0, AnsweredCall DEF Working, Uploads
<1>2. deleted
  BY <1>0, <1>1 DEF Progress
<1>3. \A k \in Keys :
        /\ k \notin c.keys => entries'[k] = entries[k]
        /\ k \in c.keys => entries'[k] = Missing /\ r2[k] = Missing
  BY <1>0, <1>1 DEF Assign, Progress
<1>4. OnlyFirstRuns' /\ PutsCarryValues' /\ RunningCalls' /\ Emptied'
  <2> DEFINE rest == Page(entries', 0)
  <2>1. CASE rest = {}
    <3> DEFINE next == [IdleCall EXCEPT !.pc = "swept"]
    <3>1. next.pc = "swept" /\ next.op = "none"
      BY DEF IdleCall
    <3>2. Release(w, next, export)
      BY <1>0, <2>1 DEF Sweep
    <3>3. \A k \in Keys : entries'[k] = Missing
      BY <2>1, EmptyPage, KeysAreOrdered
    <3> HIDE DEF next, rest
    <3>4. /\ call'[w] = next
          /\ \A v \in Writers \ {w} : call'[v] = call[v]
          /\ \A v \in Writers : ~Working(v)'
      BY <1>1, <3>1, <3>2, NoneRuns
    <3>5. PutsCarryValues'
      BY <3>1, <3>4 DEF PutsCarryValues
    <3>6. Emptied'
      BY <1>0, <1>2, <3>3 DEF Emptied
    <3> QED BY <3>4, <3>5, <3>6 DEF OnlyFirstRuns, RunningCalls
  <2>2. CASE rest # {}
    <3>1. AwaitR2(w, rest, {}) /\ writes' = writes
      BY <1>0, <2>2 DEF Sweep
    <3> HIDE DEF rest
    <3>2. /\ call'[w].pc = "awaitR2" /\ call'[w].keys = rest
          /\ call'[w].inserted = {} /\ call'[w].op = "deleteBucket"
          /\ \A v \in Writers \ {w} : call'[v] = call[v] /\ ~Working(v)
          /\ \A v \in Writers : Working(v)' => v = w
      BY <1>0, <1>1, <3>1, BeginsToRun
    <3>3. OnlyFirstRuns' /\ PutsCarryValues'
      BY <1>1, <3>1, <3>2 DEF OnlyFirstRuns, PutsCarryValues
    <3>4. Progress(call[w])'
      BY <1>0, <1>2, <3>2 DEF Progress, Uploads
    <3>5. RunningCalls'
      BY <3>2, <3>4 DEF RunningCalls
    <3>6. \A k \in Keys : entries[k] = Missing => entries'[k] = Missing
      BY <1>3
    <3>7. Emptied'
      BY <1>0, <1>2, <3>2, <3>6 DEF Emptied
    <3> QED BY <3>3, <3>5, <3>7
  <2> QED BY <2>1, <2>2
<1>5. Contents' /\ NoLeakedBytes'
  BY <1>0, <1>2, <1>3 DEF Contents, NoLeakedBytes
<1>7. WaitingReads'
  <2> SUFFICES ASSUME NEW r \in Readers, NEW k \in read[r].waiting
               PROVE  WaitingRead(read[r], k)'
    BY <1>0 DEF WaitingReads
  <2>1. k \in Keys /\ WaitingRead(read[r], k)
    BY DEF TypeOK, CallsTyped, ReadRecords, WaitingReads
  <2>2. legal[k] = {Missing}
    BY <1>2, <2>1 DEF Contents
  <2> QED BY <1>0, <2>1, <2>2 DEF WaitingRead
<1>8. ReadsObserveAWrite'
  BY <1>0 DEF ReadsObserveAWrite
<1> QED BY <1>4, <1>5, <1>7, <1>8

LEMMA R2FailsKeeps ==
  ASSUME IInv, TypeOK', NEW w \in Writers, R2Fails(w)
  PROVE  Coherent'
<1> DEFINE c == call[w]
<1> USE DEF IInv, Coherent
<1>0. /\ c.pc \in {"awaitR2", "answered"}
      /\ entries' = Assign(entries, c.inserted, Missing)
      /\ orphans' = orphans \cup {k \in c.inserted : r2[k] # Missing}
      /\ Release(w, IdleCall, export)
      /\ UNCHANGED <<r2, deleted, row, read, legal>>
  BY DEF R2Fails
<1>1. /\ Working(w) /\ c.inserted \in SUBSET Keys /\ Progress(c)
  BY <1>0, AnsweredCall DEF Working
<1>2. /\ OnlyFirstRuns' /\ PutsCarryValues' /\ RunningCalls'
      /\ \A v \in Writers : call'[v].pc = "swept" => call[v].pc = "swept"
  BY <1>0, <1>1, ReleaseKeeps
<1>3. \A k \in Keys :
        /\ k \notin c.inserted => entries'[k] = entries[k]
        /\ k \in c.inserted => entries'[k] = Missing /\ Missing \in legal[k]
  BY <1>0, <1>1 DEF Assign, Progress
<1>4. InR2 # Missing
  BY ValuesAreDistinct
<1>5. Contents' /\ NoLeakedBytes'
  BY <1>0, <1>3, <1>4 DEF Contents, Visible, NoLeakedBytes
<1>6. Emptied'
  BY <1>0, <1>2, <1>3 DEF Emptied
<1>7. WaitingReads'
  <2> SUFFICES ASSUME NEW r \in Readers, NEW k \in read[r].waiting
               PROVE  WaitingRead(read[r], k)'
    BY <1>0 DEF WaitingReads
  <2>1. k \in Keys /\ WaitingRead(read[r], k)
    BY DEF TypeOK, CallsTyped, ReadRecords, WaitingReads
  <2> QED BY <1>0, <1>3, <2>1 DEF WaitingRead
<1>8. ReadsObserveAWrite'
  BY <1>0 DEF ReadsObserveAWrite
<1> QED BY <1>2, <1>5, <1>6, <1>7, <1>8

LEMMA DeleteServiceRowKeeps ==
  ASSUME IInv, TypeOK', NEW w \in Writers, DeleteServiceRow(w)
  PROVE  Coherent'
<1> USE DEF IInv, Coherent
<1>0. /\ call[w].pc = "swept" /\ call' = [call EXCEPT ![w] = IdleCall]
      /\ UNCHANGED <<entries, r2, deleted, writes, read, legal, orphans>>
  BY DEF DeleteServiceRow
<1>1. IdleCall.pc = "idle" /\ IdleCall.op = "none"
  BY DEF IdleCall
<1>2. /\ call'[w] = IdleCall
      /\ \A v \in Writers \ {w} : call'[v] = call[v]
  BY <1>0 DEF TypeOK, CallsTyped
<1>3. \A v \in Writers : Working(v)' => Working(v) /\ call'[v] = call[v]
  BY <1>1, <1>2 DEF Working
<1>4. OnlyFirstRuns' /\ PutsCarryValues'
  BY <1>0, <1>1, <1>2, <1>3 DEF OnlyFirstRuns, PutsCarryValues
<1>5. RunningCalls'
  <2> SUFFICES ASSUME NEW v \in Writers, Working(v)'
               PROVE  Progress(call[v])'
    BY DEF RunningCalls
  <2>1. Progress(call[v]) /\ call'[v] = call[v]
    BY <1>3 DEF RunningCalls
  <2> QED BY <1>0, <2>1 DEF Progress, Uploads
<1>6. Contents' /\ NoLeakedBytes' /\ Emptied'
  BY <1>0 DEF Contents, NoLeakedBytes, Visible, Emptied
<1>7. WaitingReads' /\ ReadsObserveAWrite'
  BY <1>0 DEF WaitingReads, WaitingRead, ReadsObserveAWrite
<1> QED BY <1>4, <1>5, <1>6, <1>7

LEMMA EnqueueKeeps ==
  ASSUME IInv, TypeOK', NEW w \in Writers, NEW c \in CallRecords,
         c.pc = "queued", c.op = "put" => c.value \in Values, Enqueue(w, c)
  PROVE  Coherent'
<1> USE DEF IInv, Coherent
<1>0. /\ call[w].pc = "idle" /\ call' = [call EXCEPT ![w] = c]
      /\ writes' = Append(writes, w)
      /\ UNCHANGED <<entries, r2, deleted, row, read, legal, orphans>>
  BY DEF Enqueue, store
<1>1. /\ call'[w] = c
      /\ \A v \in Writers \ {w} : call'[v] = call[v]
  BY <1>0 DEF TypeOK, CallsTyped
<1>2. \A v \in Writers : Working(v)' => Working(v) /\ call'[v] = call[v]
  BY <1>1 DEF Working
<1>3. writes # <<>> => writes' # <<>> /\ Head(writes') = Head(writes)
  BY <1>0 DEF TypeOK, CallsTyped
<1>4. OnlyFirstRuns' /\ PutsCarryValues'
  BY <1>1, <1>2, <1>3 DEF OnlyFirstRuns, PutsCarryValues
<1>5. RunningCalls'
  <2> SUFFICES ASSUME NEW v \in Writers, Working(v)'
               PROVE  Progress(call[v])'
    BY DEF RunningCalls
  <2>1. Progress(call[v]) /\ call'[v] = call[v]
    BY <1>2 DEF RunningCalls
  <2> QED BY <1>0, <2>1 DEF Progress, Uploads
<1>6. Contents' /\ NoLeakedBytes' /\ Emptied'
  BY <1>0, <1>1 DEF Contents, NoLeakedBytes, Visible, Emptied
<1>7. WaitingReads' /\ ReadsObserveAWrite'
  BY <1>0 DEF WaitingReads, WaitingRead, ReadsObserveAWrite
<1> QED BY <1>4, <1>5, <1>6, <1>7

(***************************************************************************)
(* Reads, exports and restarts.                                            *)
(***************************************************************************)
\* What reads leave alone: all of the invariant but the reads' own part.
LEMMA CallsAlone ==
  ASSUME IInv,
         UNCHANGED <<entries, r2, deleted, row, writes, call, legal, orphans>>
  PROVE  /\ OnlyFirstRuns' /\ PutsCarryValues' /\ RunningCalls'
         /\ Contents' /\ NoLeakedBytes' /\ Emptied'
<1> USE DEF IInv, Coherent
<1>1. OnlyFirstRuns' /\ PutsCarryValues' /\ RunningCalls'
  BY DEF OnlyFirstRuns, Working, PutsCarryValues, RunningCalls, Progress, Uploads
<1>2. Contents' /\ NoLeakedBytes' /\ Emptied'
  BY DEF Contents, NoLeakedBytes, Visible, Emptied
<1> QED BY <1>1, <1>2

LEMMA BeginReadKeeps ==
  ASSUME IInv, TypeOK', NEW r \in Readers, NEW keys \in SUBSET Keys,
         BeginRead(r, keys)
  PROVE  Coherent'
<1> USE DEF IInv, Coherent
<1> DEFINE remote == IF deleted THEN {} ELSE {k \in keys : entries[k] = InR2}
           got == [k \in Keys |-> IF k \in remote \/ k \notin keys THEN NoAnswer
                                  ELSE IF deleted THEN Missing ELSE entries[k]]
           allowed == [k \in Keys |-> IF k \in keys THEN legal[k] ELSE {}]
           x == [busy |-> TRUE, waiting |-> remote, raced |-> {},
                 got |-> got, allowed |-> allowed]
<1>0. /\ read' = [read EXCEPT ![r] = x]
      /\ UNCHANGED <<entries, r2, deleted, row, writes, call, legal, orphans>>
  BY DEF BeginRead, store
<1>1. read'[r] = x /\ \A q \in Readers \ {r} : read'[q] = read[q]
  BY <1>0 DEF TypeOK, CallsTyped
<1>2. ASSUME NEW k \in remote PROVE WaitingRead(x, k)
  <2>1. k \in Keys /\ k \in keys /\ ~deleted /\ entries[k] = InR2
    OBVIOUS
  <2>2. got[k] = NoAnswer /\ allowed[k] = legal[k] /\ r2[k] \in legal[k]
    BY <2>1 DEF Contents, Visible
  <2> QED BY <2>1, <2>2 DEF WaitingRead
<1>3. ASSUME NEW k \in Keys, got[k] # NoAnswer PROVE got[k] \in allowed[k]
  <2>1. k \in keys /\ k \notin remote /\ allowed[k] = legal[k]
    BY <1>3
  <2>2. CASE deleted
    BY <2>1, <2>2 DEF Contents
  <2>3. CASE ~deleted
    BY <2>1, <2>3 DEF Contents, Visible
  <2> QED BY <2>2, <2>3
<1>4. x.waiting = remote /\ x.got = got /\ x.allowed = allowed
  OBVIOUS
<1> HIDE DEF remote, got, allowed, x
<1>5. WaitingReads'
  <2> SUFFICES ASSUME NEW q \in Readers, NEW k \in read'[q].waiting
               PROVE  WaitingRead(read[q], k)'
    BY DEF WaitingReads
  <2>1. WaitingRead(read'[q], k)
    BY <1>1, <1>2, <1>4 DEF WaitingReads
  <2> QED BY <1>0, <2>1 DEF WaitingRead
<1>6. ReadsObserveAWrite'
  BY <1>1, <1>3, <1>4 DEF ReadsObserveAWrite
<1> QED BY <1>0, <1>5, <1>6, CallsAlone

LEMMA R2GetKeeps ==
  ASSUME IInv, TypeOK', NEW r \in Readers, NEW k \in Keys, R2Get(r, k)
  PROVE  Coherent'
<1> USE DEF IInv, Coherent
<1> DEFINE x == [read[r] EXCEPT !.got[k] = r2[k], !.waiting = @ \ {k}]
<1>0. /\ k \in read[r].waiting
      /\ read' = [read EXCEPT ![r].got[k] = r2[k], ![r].waiting = @ \ {k}]
      /\ UNCHANGED <<entries, r2, deleted, row, writes, call, legal, orphans>>
  BY DEF R2Get, store
<1>1. read[r] \in ReadRecords /\ read \in [Readers -> ReadRecords]
  BY DEF TypeOK, CallsTyped
<1>2. read' = [read EXCEPT ![r] = x]
  BY <1>0, <1>1
<1>3. /\ x.waiting = read[r].waiting \ {k} /\ x.allowed = read[r].allowed
      /\ x.raced = read[r].raced /\ x.got[k] = r2[k]
      /\ \A j \in Keys \ {k} : x.got[j] = read[r].got[j]
  BY <1>1 DEF ReadRecords
<1> HIDE DEF x
<1>4. read'[r] = x /\ \A q \in Readers \ {r} : read'[q] = read[q]
  BY <1>1, <1>2
<1>5. WaitingRead(read[r], k)
  BY <1>0 DEF WaitingReads
<1>6. WaitingReads'
  <2> SUFFICES ASSUME NEW q \in Readers, NEW j \in read'[q].waiting
               PROVE  WaitingRead(read[q], j)'
    BY DEF WaitingReads
  <2>1. j \in Keys /\ j \in read[q].waiting /\ (q = r => j # k)
    BY <1>1, <1>3, <1>4 DEF ReadRecords
  <2>2. WaitingRead(read[q], j)
    BY <2>1 DEF WaitingReads
  <2> QED BY <1>0, <1>3, <1>4, <2>1, <2>2 DEF WaitingRead
<1>7. ReadsObserveAWrite'
  <2> SUFFICES ASSUME NEW q \in Readers, NEW j \in Keys, read'[q].got[j] # NoAnswer
               PROVE  \/ read'[q].got[j] \in read'[q].allowed[j]
                      \/ read'[q].got[j] = Missing /\ j \in read'[q].raced
    BY DEF ReadsObserveAWrite
  <2>1. CASE q = r /\ j = k
    BY <1>3, <1>4, <1>5, <2>1 DEF WaitingRead
  <2>2. CASE ~(q = r /\ j = k)
    BY <1>3, <1>4, <2>2 DEF ReadsObserveAWrite
  <2> QED BY <2>1, <2>2
<1> QED BY <1>0, <1>6, <1>7, CallsAlone

LEMMA ReadEndsKeeps ==
  ASSUME IInv, TypeOK', NEW r \in Readers, EndRead(r) \/ ReadFails(r)
  PROVE  Coherent'
<1> USE DEF IInv, Coherent
<1>0. /\ read' = [read EXCEPT ![r] = IdleRead]
      /\ UNCHANGED <<entries, r2, deleted, row, writes, call, legal, orphans>>
  BY DEF EndRead, ReadFails, store
<1>1. read'[r] = IdleRead /\ \A q \in Readers \ {r} : read'[q] = read[q]
  BY <1>0 DEF TypeOK, CallsTyped
<1>2. IdleRead.waiting = {} /\ \A k \in Keys : IdleRead.got[k] = NoAnswer
  BY DEF IdleRead
<1>3. WaitingReads'
  BY <1>0, <1>1, <1>2 DEF WaitingReads, WaitingRead
<1>4. ReadsObserveAWrite'
  BY <1>1, <1>2 DEF ReadsObserveAWrite
<1> QED BY <1>0, <1>3, <1>4, CallsAlone

LEMMA ExportKeeps ==
  ASSUME IInv, TypeOK',
         UNCHANGED <<store, writes, call, read, legal, orphans>>
  PROVE  Coherent'
<1> USE DEF IInv, Coherent
<1>1. WaitingReads' /\ ReadsObserveAWrite'
  BY DEF store, WaitingReads, WaitingRead, ReadsObserveAWrite
<1> QED BY <1>1, CallsAlone DEF store

LEMMA RestartKeeps ==
  ASSUME IInv, TypeOK', Restart
  PROVE  Coherent'
<1> USE DEF IInv, Coherent
<1>0. /\ call' = [w \in Writers |->
                    IF call[w].pc = "swept" THEN call[w] ELSE IdleCall]
      /\ read' = [r \in Readers |-> IdleRead]
      /\ UNCHANGED <<entries, r2, deleted, row, legal, orphans>>
  BY DEF Restart, store
<1>1. IdleCall.pc = "idle" /\ IdleCall.op = "none"
  BY DEF IdleCall
<1>2. IdleRead.waiting = {} /\ \A k \in Keys : IdleRead.got[k] = NoAnswer
  BY DEF IdleRead
<1>3. \A w \in Writers : /\ ~Working(w)'
                         /\ call'[w] = call[w] \/ call'[w] = IdleCall
  BY <1>0, <1>1 DEF Working
<1>4. OnlyFirstRuns' /\ PutsCarryValues' /\ RunningCalls'
  BY <1>1, <1>3 DEF OnlyFirstRuns, PutsCarryValues, RunningCalls
<1>5. Contents' /\ NoLeakedBytes' /\ Emptied'
  BY <1>0, <1>1, <1>3 DEF Contents, NoLeakedBytes, Visible, Emptied
<1>6. WaitingReads' /\ ReadsObserveAWrite'
  BY <1>0, <1>2 DEF WaitingReads, ReadsObserveAWrite
<1> QED BY <1>4, <1>5, <1>6

LEMMA NextKeeps ==
  ASSUME IInv, [Next]_vars
  PROVE  IInv'
<1>0. TypeOK'
  BY NextTyped DEF IInv, Coherent
<1>1. ASSUME UNCHANGED vars PROVE Coherent'
  BY <1>0, <1>1, ExportKeeps DEF vars, store
<1>2. ASSUME NEW w \in Writers, NEW k \in Keys,
             Delete(w, k) \/ \E v \in Values : Put(w, k, v)
      PROVE  Coherent'
  <2>1. \A v \in Outcome, op \in {"put", "delete"} :
          /\ Queued(op, {k}, v) \in CallRecords
          /\ Queued(op, {k}, v).pc = "queued"
          /\ Queued(op, {k}, v).op = op /\ Queued(op, {k}, v).value = v
    BY DEF Queued, CallRecords
  <2> QED BY <1>0, <1>2, <2>1, EnqueueKeeps DEF Put, Delete
<1>3. ASSUME NEW w \in Writers, DeleteBucket(w)
      PROVE  Coherent'
  <2> DEFINE c == Queued("deleteBucket", {}, Missing)
  <2>1. c \in CallRecords /\ c.pc = "queued" /\ c.op = "deleteBucket"
    BY DEF Queued, CallRecords
  <2>2. Enqueue(w, c)
    BY <1>3 DEF DeleteBucket
  <2> HIDE DEF c
  <2> QED BY <1>0, <2>1, <2>2, EnqueueKeeps
<1>4. ASSUME NEW w \in Writers,
             Begin(w) \/ R2Applies(w) \/ Answer(w) \/ R2Fails(w) \/ DeleteServiceRow(w)
      PROVE  Coherent'
  BY <1>0, <1>4, BeginPutSmallKeeps, BeginPutLargeKeeps, BeginDeleteKeeps,
     BeginDeleteBucketKeeps, RefuseKeeps, R2AppliesKeeps, FinishPutKeeps,
     FinishDeleteKeeps, SweepPageKeeps, R2FailsKeeps, DeleteServiceRowKeeps
     DEF Begin, Answer
<1>5. ASSUME NEW r \in Readers,
             \/ \E keys \in SUBSET Keys \ {{}} : BeginRead(r, keys)
             \/ \E k \in Keys : R2Get(r, k)
             \/ EndRead(r) \/ ReadFails(r)
      PROVE  Coherent'
  BY <1>0, <1>5, BeginReadKeeps, R2GetKeeps, ReadEndsKeeps
<1>6. ASSUME NEW e \in Exporters,
             BeginExport(e) \/ ExportPage(e) \/ NextExportPage(e) \/ EndExport(e)
      PROVE  Coherent'
  BY <1>0, <1>6, ExportKeeps
     DEF BeginExport, ExportPage, NextExportPage, EndExport
<1>7. ASSUME Restart PROVE Coherent'
  BY <1>0, <1>7, RestartKeeps
<1>8. SUFFICES Coherent'
  BY <1>0 DEF IInv
<1> QED BY <1>0, <1>1, <1>2, <1>3, <1>4, <1>5, <1>6, <1>7 DEF Next

LEMMA InitHolds == Init => IInv
<1> SUFFICES ASSUME Init PROVE Coherent
  BY InitTyped DEF IInv
<1>1. OnlyFirstRuns /\ PutsCarryValues /\ RunningCalls
  BY DEF Init, IdleCall, OnlyFirstRuns, Working, PutsCarryValues, RunningCalls
<1>2. Contents /\ NoLeakedBytes /\ Emptied
  BY DEF Init, IdleCall, Contents, Visible, NoLeakedBytes, Emptied
<1>3. WaitingReads /\ ReadsObserveAWrite
  BY DEF Init, IdleRead, WaitingReads, ReadsObserveAWrite
<1> QED BY <1>1, <1>2, <1>3 DEF Coherent

-----------------------------------------------------------------------------
\* The strengthening holds in every state the bucket can reach.
THEOREM Inductive == Spec => []IInv
<1>1. Init => IInv
  BY InitHolds
<1>2. IInv /\ [Next]_vars => IInv'
  BY NextKeeps
<1> QED BY <1>1, <1>2, PTL DEF Spec

\* Rows, R2 objects, calls and histories stay within their types.
THEOREM TypeCorrect == Spec => []TypeOK
<1>1. IInv => TypeOK
  BY DEF IInv
<1> QED BY <1>1, Inductive, PTL

\* No interleaving of puts and deletes, failed request to R2 or restart loses
\* an acknowledged write: write()'s chain and the order in which put, putLarge
\* and delete touch SQL and R2.
THEOREM WritesHold == Spec => []AcknowledgedWritesHold
<1>1. IInv => AcknowledgedWritesHold
  BY DEF IInv, Coherent, Contents, AcknowledgedWritesHold
<1> QED BY <1>1, Inductive, PTL

\* getValue and getValues, which do not wait for writes, answer what the key
\* held or was being given meanwhile, or a 404 under a small put.
THEOREM ReadsHold == Spec => []ReadsObserveAWrite
<1>1. IInv => ReadsObserveAWrite
  BY DEF IInv, Coherent
<1> QED BY <1>1, Inductive, PTL

\* The row reserved before an upload keeps every R2 object within reach.
THEOREM NothingLeaks == Spec => []NoLeakedBytes
<1>1. IInv => NoLeakedBytes
  BY DEF IInv, Coherent
<1> QED BY <1>1, Inductive, PTL

\* Once the bucket's row is gone, deleteBucket has removed what it held.
THEOREM DeletionIsComplete == Spec => []DeletedBucketIsEmpty
<1>1. IInv => DeletedBucketIsEmpty
  BY DEF IInv, Coherent, TypeOK, StoreTyped, Emptied, NoLeakedBytes,
         DeletedBucketIsEmpty
<1> QED BY <1>1, Inductive, PTL

\* The deletion marker stops every later write: no step adds to the bucket.
THEOREM DeletionIsFinal == Spec => DeletedBucketOnlyShrinks
<1> DEFINE Shrinks == deleted =>
             /\ deleted'
             /\ \A k \in Keys : /\ entries'[k] \in {entries[k], Missing}
                                /\ r2'[k] \in {r2[k], Missing}
<1>1. IInv /\ [Next]_vars => [Shrinks]_vars
  <2> SUFFICES ASSUME IInv, Next, deleted PROVE Shrinks
    BY DEF vars
  <2>1. \A w \in Writers : Working(w) => call[w].op = "deleteBucket"
    BY DEF IInv, Coherent, RunningCalls, Progress
  <2>2. CASE \E w \in Writers : Begin(w)
    BY <2>2 DEF Begin, BeginPutSmall, BeginPutLarge, BeginDelete,
                TurnInLiveBucket, BeginDeleteBucket, Refuse, store
  <2>3. CASE \E w \in Writers : R2Applies(w)
    BY <2>1, <2>3 DEF R2Applies, Working, Uploads, Assign
  <2>4. CASE \E w \in Writers : Answer(w)
    BY <2>1, <2>4 DEF Answer, FinishPut, FinishDelete, SweepPage, Working, Assign
  <2>5. CASE \E w \in Writers : R2Fails(w)
    BY <2>5 DEF R2Fails, Assign
  <2>6. CASE UNCHANGED <<entries, r2, deleted>>
    BY <2>6
  <2> QED BY <2>2, <2>3, <2>4, <2>5, <2>6
          DEF Next, Put, Delete, DeleteBucket, Enqueue, DeleteServiceRow,
              BeginRead, R2Get, EndRead, ReadFails, BeginExport, ExportPage,
              NextExportPage, EndExport, Restart, store
<1> QED BY <1>1, Inductive, PTL DEF Spec, DeletedBucketOnlyShrinks

(***************************************************************************)
(* Exports.                                                                *)
(***************************************************************************)
\* What an export vouches for: up to its cursor it has listed the keys with a
\* row, and after it none.  Only an export that waits has writes ahead.
Vouched(x, table) ==
  /\ x.pc # "waiting" => x.ahead = 0
  /\ \A k \in x.untouched :
       IF x.pc = "done" \/ k <= x.cursor THEN k \in x.keys <=> table[k] # Missing
                                         ELSE k \notin x.keys
\* The running call is ahead of the export, and works on keys after its cursor.
Apart(x, c) == \A k \in c.keys \cap x.untouched : x.ahead > 0 /\ k > x.cursor
ExportsVouch ==
  ~deleted => \A e \in Exporters :
                /\ Vouched(export[e], entries)
                /\ \A w \in Writers : Working(w) => Apart(export[e], call[w])

\* A page is the first keys after the cursor: it skips none.
LEMMA PageSkipsNone ==
  ASSUME NEW table, NEW cursor, NEW last \in Page(table, cursor),
         NEW k \in Keys, k > cursor, k <= last, table[k] # Missing
  PROVE  k \in Page(table, cursor)
<1> DEFINE rows == {j \in Keys : j > cursor /\ table[j] # Missing}
           below(n) == {j \in rows : j < n}
<1>1. last \in Nat /\ k \in Nat /\ rows \subseteq Nat /\ Cardinality(below(last)) < PageSize
  BY KeysAreOrdered DEF Page
<1>2. IsFiniteSet(below(last))
  <2>1. below(last) \subseteq 0..last
    BY <1>1
  <2>2. IsFiniteSet(0..last)
    BY <1>1, FS_Interval
  <2> HIDE DEF below
  <2> QED BY <2>1, <2>2, FS_Subset
<1>3. below(k) \in SUBSET below(last)
  BY <1>1
<1> HIDE DEF below
<1>4. Cardinality(below(k)) <= Cardinality(below(last)) /\ IsFiniteSet(below(k))
  BY <1>2, <1>3, FS_Subset
<1>5. Cardinality(below(k)) \in Nat /\ Cardinality(below(last)) \in Nat
  BY <1>2, <1>4, FS_CardinalityType
<1>6. Cardinality(below(k)) < PageSize
  BY <1>1, <1>4, <1>5, PagesAreNotEmpty
<1> QED BY <1>6 DEF Page, below

LEMMA ExportFacts ==
  ASSUME TypeOK, NEW e \in Exporters
  PROVE  /\ export[e] \in ExportRecords /\ export[e].ahead \in Nat
         /\ export[e].cursor \in Nat /\ export[e].keys \subseteq Keys
         /\ export[e].untouched \subseteq Keys
BY DEF TypeOK, CallsTyped, ExportRecords

LEMMA TouchedEffect ==
  ASSUME TypeOK, NEW e \in Exporters, NEW keys, export' = Touched(keys)
  PROVE  /\ export'[e].pc = export[e].pc /\ export'[e].ahead = export[e].ahead
         /\ export'[e].cursor = export[e].cursor /\ export'[e].keys = export[e].keys
         /\ export'[e].untouched =
              {k \in export[e].untouched :
                 k \in keys => export[e].ahead > 0 /\ k > export[e].cursor}
<1> DEFINE left == {k \in export[e].untouched :
                      k \in keys => export[e].ahead > 0 /\ k > export[e].cursor}
<1>1. export'[e] = [export[e] EXCEPT !.untouched = left]
  BY DEF Touched
<1> HIDE DEF left
<1>2. /\ export'[e].pc = export[e].pc /\ export'[e].ahead = export[e].ahead
      /\ export'[e].cursor = export[e].cursor /\ export'[e].keys = export[e].keys
      /\ export'[e].untouched = left
  BY <1>1, ExportFacts DEF ExportRecords
<1> QED BY <1>2 DEF left

LEMMA ReleaseEffect ==
  ASSUME TypeOK, NEW e \in Exporters, NEW w, NEW next, Release(w, next, export)
  PROVE  /\ export'[e].pc = export[e].pc /\ export'[e].cursor = export[e].cursor
         /\ export'[e].keys = export[e].keys
         /\ export'[e].untouched = export[e].untouched
         /\ export'[e].ahead = (IF export[e].ahead > 0 THEN export[e].ahead - 1 ELSE 0)
<1> DEFINE left == IF export[e].ahead > 0 THEN export[e].ahead - 1 ELSE 0
<1>1. export'[e] = [export[e] EXCEPT !.ahead = left]
  BY DEF Release
<1> HIDE DEF left
<1>2. /\ export'[e].pc = export[e].pc /\ export'[e].cursor = export[e].cursor
      /\ export'[e].keys = export[e].keys /\ export'[e].untouched = export[e].untouched
      /\ export'[e].ahead = left
  BY <1>1, ExportFacts DEF ExportRecords
<1> QED BY <1>2 DEF left

\* A write begins: what an export vouches for loses its keys, except those
\* that an export which waits for this write has not come to.
LEMMA BeginVouches ==
  ASSUME IInv, ExportsVouch, ~deleted, NEW w \in Writers, NEW inserted,
         Turn(w), AwaitR2(w, call[w].keys, inserted), export' = Touched(call[w].keys),
         \A k \in Keys \ call[w].keys : entries'[k] = entries[k]
  PROVE  ExportsVouch'
<1> DEFINE keys == call[w].keys
<1>0. TypeOK /\ OnlyFirstRuns
  BY DEF IInv, Coherent
<1>1. call'[w].keys = keys /\ \A v \in Writers : Working(v)' => v = w
  BY <1>0, BeginsToRun
<1> SUFFICES ASSUME NEW e \in Exporters
             PROVE  Vouched(export'[e], entries') /\ Apart(export'[e], call'[w])
  BY <1>1 DEF ExportsVouch, Vouched, Apart
<1>2. Vouched(export[e], entries)
  BY DEF ExportsVouch
<1>3. /\ export'[e].pc = export[e].pc /\ export'[e].ahead = export[e].ahead
      /\ export'[e].cursor = export[e].cursor /\ export'[e].keys = export[e].keys
      /\ export'[e].untouched = {k \in export[e].untouched :
                                   k \in keys => export[e].ahead > 0 /\ k > export[e].cursor}
  BY <1>0, TouchedEffect
<1>4. Apart(export'[e], call'[w])
  BY <1>1, <1>3 DEF Apart
<1>5. Vouched(export'[e], entries')
  <2>1. ASSUME NEW k \in export'[e].untouched
        PROVE  IF export[e].pc = "done" \/ k <= export[e].cursor
               THEN k \in export[e].keys <=> entries'[k] # Missing
               ELSE k \notin export[e].keys
    <3>1. /\ k \in export[e].untouched /\ k \in Keys /\ k \in Nat
          /\ k \in keys => export[e].ahead > 0 /\ k > export[e].cursor
          /\ export[e].ahead \in Nat /\ export[e].cursor \in Nat
      BY <1>0, <1>3, <2>1, ExportFacts, KeysAreOrdered
    <3>2. CASE k \in keys
      BY <1>2, <3>1, <3>2 DEF Vouched
    <3>3. CASE k \notin keys
      BY <1>2, <3>1, <3>3 DEF Vouched
    <3> QED BY <3>2, <3>3
  <2> QED BY <1>2, <1>3, <2>1 DEF Vouched
<1> QED BY <1>4, <1>5

\* A write ends, with or without success: its keys are after the cursor of
\* every export that still vouches for them.
LEMMA EndVouches ==
  ASSUME IInv, ExportsVouch, ~deleted, NEW w \in Writers, Working(w),
         Release(w, IdleCall, export),
         \A k \in Keys \ call[w].keys : entries'[k] = entries[k]
  PROVE  ExportsVouch'
<1>0. TypeOK /\ OnlyFirstRuns
  BY DEF IInv, Coherent
<1>1. \A v \in Writers : ~Working(v)'
  BY <1>0, NoneRuns DEF IdleCall
<1> SUFFICES ASSUME NEW e \in Exporters PROVE Vouched(export'[e], entries')
  BY <1>1 DEF ExportsVouch, Vouched
<1>2. Vouched(export[e], entries) /\ Apart(export[e], call[w])
  BY DEF ExportsVouch
<1>3. /\ export'[e].pc = export[e].pc /\ export'[e].cursor = export[e].cursor
      /\ export'[e].keys = export[e].keys
      /\ export'[e].untouched = export[e].untouched
      /\ export'[e].ahead = (IF export[e].ahead > 0 THEN export[e].ahead - 1 ELSE 0)
  BY <1>0, ReleaseEffect
<1>4. export[e].ahead \in Nat /\ export[e].cursor \in Nat
  BY <1>0, ExportFacts
<1>5. export'[e].pc # "waiting" => export'[e].ahead = 0
  BY <1>2, <1>3, <1>4 DEF Vouched
<1>6. ASSUME NEW k \in export[e].untouched
      PROVE  IF export[e].pc = "done" \/ k <= export[e].cursor
             THEN k \in export[e].keys <=> entries'[k] # Missing
             ELSE k \notin export[e].keys
  <2>1. k \in Keys /\ k \in Nat
    BY <1>0, ExportFacts, KeysAreOrdered
  <2>2. CASE k \in call[w].keys
    BY <1>2, <1>4, <2>1, <2>2 DEF Vouched, Apart
  <2>3. CASE k \notin call[w].keys
    BY <1>2, <2>1, <2>3 DEF Vouched
  <2> QED BY <2>2, <2>3
<1> QED BY <1>3, <1>5, <1>6 DEF Vouched

\* Steps that leave the table, and calls that run as they did.
LEMMA StillVouches ==
  ASSUME ExportsVouch, UNCHANGED <<entries, deleted>>,
         \A w \in Writers : Working(w)' => Working(w) /\ call'[w].keys = call[w].keys,
         \A e \in Exporters : \/ export'[e] = export[e]
                              \/ export'[e] = IdleExport
  PROVE  ExportsVouch'
<1> SUFFICES ASSUME ~deleted, NEW e \in Exporters
             PROVE  /\ Vouched(export'[e], entries)
                    /\ \A w \in Writers : Working(w)' => Apart(export'[e], call'[w])
  BY DEF ExportsVouch, Vouched, Apart
<1>1. /\ Vouched(export[e], entries)
      /\ \A w \in Writers : Working(w) => Apart(export[e], call[w])
  BY DEF ExportsVouch
<1>2. CASE export'[e] = export[e]
  BY <1>1, <1>2 DEF Apart
<1>3. CASE export'[e] = IdleExport
  BY <1>3 DEF Vouched, Apart, IdleExport
<1> QED BY <1>2, <1>3

\* An export asks for a page behind the writes that are queued.
LEMMA AskVouches ==
  ASSUME IInv, ExportsVouch, NEW e \in Exporters, BeginExport(e) \/ NextExportPage(e)
  PROVE  ExportsVouch'
<1>0. TypeOK /\ OnlyFirstRuns /\ UNCHANGED <<entries, deleted, writes, call>>
  BY DEF IInv, Coherent, BeginExport, NextExportPage, store
<1> SUFFICES ASSUME ~deleted, NEW d \in Exporters
             PROVE  /\ Vouched(export'[d], entries)
                    /\ \A w \in Writers : Working(w) => Apart(export'[d], call[w])
  BY <1>0 DEF ExportsVouch, Vouched, Apart, Working
<1>1. /\ Vouched(export[d], entries)
      /\ \A w \in Writers : Working(w) => Apart(export[d], call[w])
  BY DEF ExportsVouch
<1>2. CASE d # e
  <2>1. export'[d] = export[d]
    BY <1>0, <1>2 DEF BeginExport, NextExportPage, AskForPage, TypeOK, CallsTyped
  <2> QED BY <1>1, <2>1
<1>3. CASE d = e /\ BeginExport(e)
  <2>1. export'[e] = [IdleExport EXCEPT !.untouched = Keys, !.pc = "waiting",
                                        !.ahead = Len(writes)]
    BY <1>0, <1>3 DEF BeginExport, AskForPage, TypeOK, CallsTyped, IdleExport
  <2>2. /\ export'[e].pc = "waiting" /\ export'[e].ahead = Len(writes)
        /\ export'[e].cursor = 0 /\ export'[e].keys = {} /\ export'[e].untouched = Keys
    BY <2>1 DEF IdleExport
  <2>3. ASSUME NEW w \in Writers, Working(w) PROVE Len(writes) > 0
    BY <1>0, <2>3 DEF OnlyFirstRuns, TypeOK, CallsTyped
  <2>4. \A k \in Keys : k > 0 /\ ~(k <= 0)
    BY KeysAreOrdered
  <2>5. Vouched(export'[e], entries)
    BY <2>2, <2>4 DEF Vouched
  <2>6. ASSUME NEW w \in Writers, Working(w) PROVE Apart(export'[e], call[w])
    BY <2>2, <2>3, <2>4, <2>6 DEF Apart
  <2> QED BY <1>3, <2>5, <2>6
<1>4. CASE d = e /\ NextExportPage(e)
  <2>1. /\ export'[e] = [export[e] EXCEPT !.pc = "waiting", !.ahead = Len(writes)]
        /\ export[e].pc = "paged"
    BY <1>0, <1>4 DEF NextExportPage, AskForPage, TypeOK, CallsTyped
  <2>2. /\ export'[e].pc = "waiting" /\ export'[e].cursor = export[e].cursor
        /\ export'[e].keys = export[e].keys
        /\ export'[e].untouched = export[e].untouched
    BY <1>0, <2>1, ExportFacts DEF ExportRecords
  <2>3. export[e].ahead = 0
    BY <1>1, <1>4, <2>1 DEF Vouched
  <2>4. Vouched(export'[e], entries)
    BY <1>1, <1>4, <2>1, <2>2 DEF Vouched
  <2>5. ASSUME NEW w \in Writers, Working(w) PROVE Apart(export'[e], call[w])
    BY <1>1, <1>4, <2>2, <2>3, <2>5 DEF Apart
  <2> QED BY <1>4, <2>4, <2>5
<1> QED BY <1>2, <1>3, <1>4

\* A page is read when no write is ahead: what it lists is what is there.
LEMMA PageVouches ==
  ASSUME IInv, ExportsVouch, NEW e \in Exporters, ExportPage(e)
  PROVE  ExportsVouch'
<1> DEFINE x == export[e]  page == Page(entries, x.cursor)
           more == page # {} /\ \E k \in Keys \ page : k > x.cursor /\ entries[k] # Missing
<1>0. TypeOK /\ UNCHANGED <<entries, deleted, call>>
  BY DEF IInv, ExportPage, store
<1> SUFFICES ASSUME ~deleted, NEW d \in Exporters
             PROVE  /\ Vouched(export'[d], entries)
                    /\ \A w \in Writers : Working(w) => Apart(export'[d], call[w])
  BY <1>0 DEF ExportsVouch, Vouched, Apart, Working
<1>1. /\ Vouched(export[d], entries)
      /\ \A w \in Writers : Working(w) => Apart(export[d], call[w])
  BY DEF ExportsVouch
<1>2. CASE d # e
  <2>1. export'[d] = export[d]
    BY <1>0, <1>2 DEF ExportPage, TypeOK, CallsTyped
  <2> QED BY <1>1, <2>1
<1>3. CASE d = e
  <2>1. /\ x \in ExportRecords /\ x.cursor \in Nat /\ x.untouched \subseteq Keys
        /\ x.keys \subseteq Keys
    BY <1>0, ExportFacts
  <2>2. x.pc = "waiting" /\ x.ahead = 0
    BY DEF ExportPage
  <2>3. \/ /\ more
           /\ \E last \in page :
                /\ \A k \in page : k <= last
                /\ export' = [export EXCEPT ![e] = [x EXCEPT
                     !.pc = "paged", !.keys = @ \cup page, !.cursor = last]]
        \/ /\ ~more
           /\ export' = [export EXCEPT ![e] = [x EXCEPT !.pc = "done", !.keys = @ \cup page]]
    BY DEF ExportPage
  <2>4. \A k \in page : k \in Keys /\ k \in Nat /\ k > x.cursor /\ entries[k] # Missing
    BY KeysAreOrdered DEF Page
  <2>5. \A k \in x.untouched :
          /\ k \in Keys /\ k \in Nat
          /\ IF k <= x.cursor THEN k \in x.keys <=> entries[k] # Missing ELSE k \notin x.keys
    BY <1>1, <1>3, <2>1, <2>2, KeysAreOrdered DEF Vouched
  <2>6. CASE more
    <3>1. PICK last \in page :
            /\ \A k \in page : k <= last
            /\ export' = [export EXCEPT ![e] = [x EXCEPT
                 !.pc = "paged", !.keys = @ \cup page, !.cursor = last]]
      BY <2>3, <2>6
    <3>2. export'[e] = [x EXCEPT !.pc = "paged", !.keys = @ \cup page, !.cursor = last]
      BY <1>0, <3>1 DEF TypeOK, CallsTyped
    <3>3. \A k \in Keys : k > x.cursor /\ k <= last /\ entries[k] # Missing => k \in page
      BY PageSkipsNone
    <3> HIDE DEF page, x
    <3>4. /\ export'[e].pc = "paged" /\ export'[e].cursor = last
          /\ export'[e].keys = x.keys \cup page /\ export'[e].untouched = x.untouched
          /\ export'[e].ahead = x.ahead
      BY <2>1, <3>2 DEF ExportRecords
    <3>5. ASSUME NEW k \in x.untouched
          PROVE  IF k <= last THEN k \in x.keys \cup page <=> entries[k] # Missing
                              ELSE k \notin x.keys \cup page
      <4>1. last \in Nat /\ last > x.cursor /\ k \in Nat
        BY <2>4, <2>5
      <4>2. CASE k <= x.cursor
        BY <2>1, <2>4, <2>5, <4>1, <4>2
      <4>3. CASE ~(k <= x.cursor)
        BY <2>1, <2>4, <2>5, <3>1, <3>3, <4>1, <4>3
      <4> QED BY <4>2, <4>3
    <3>6. Vouched(export'[e], entries)
      BY <2>2, <3>4, <3>5 DEF Vouched
    <3>7. ASSUME NEW w \in Writers, Working(w) PROVE Apart(export'[e], call[w])
      <4>1. export[e].ahead = 0 /\ export'[e].untouched = export[e].untouched
        BY <2>2, <3>4 DEF x
      <4> QED BY <1>1, <1>3, <3>7, <4>1 DEF Apart
    <3> QED BY <1>3, <3>6, <3>7
  <2>7. CASE ~more
    <3>1. export'[e] = [x EXCEPT !.pc = "done", !.keys = @ \cup page]
      BY <1>0, <2>3, <2>7 DEF TypeOK, CallsTyped
    <3>2. \A k \in Keys : k > x.cursor /\ entries[k] # Missing => k \in page
      BY <2>7, EmptyPage
    <3> HIDE DEF page, x
    <3>3. /\ export'[e].pc = "done" /\ export'[e].ahead = x.ahead
          /\ export'[e].keys = x.keys \cup page /\ export'[e].untouched = x.untouched
      BY <2>1, <3>1 DEF ExportRecords
    <3>4. ASSUME NEW k \in x.untouched
          PROVE  k \in x.keys \cup page <=> entries[k] # Missing
      <4>1. CASE k <= x.cursor
        BY <2>1, <2>4, <2>5, <4>1
      <4>2. CASE ~(k <= x.cursor)
        BY <2>1, <2>4, <2>5, <3>2, <4>2
      <4> QED BY <4>1, <4>2
    <3>5. Vouched(export'[e], entries)
      BY <2>2, <3>3, <3>4 DEF Vouched
    <3>6. ASSUME NEW w \in Writers, Working(w) PROVE Apart(export'[e], call[w])
      <4>1. export[e].ahead = 0 /\ export'[e].untouched = export[e].untouched
        BY <2>2, <3>3 DEF x
      <4> QED BY <1>1, <1>3, <3>6, <4>1 DEF Apart
    <3> QED BY <1>3, <3>5, <3>6
  <2> QED BY <2>3, <2>6, <2>7
<1> QED BY <1>2, <1>3

LEMMA VouchStep ==
  ASSUME IInv, ExportsVouch, [Next]_vars
  PROVE  ExportsVouch'
<1>0. TypeOK /\ OnlyFirstRuns /\ call \in [Writers -> CallRecords]
      /\ export \in [Exporters -> ExportRecords]
  BY DEF IInv, Coherent, TypeOK, CallsTyped
<1> SUFFICES ASSUME ~deleted' PROVE ExportsVouch'
  BY DEF ExportsVouch
<1>1. IdleCall.pc = "idle"
  BY DEF IdleCall
<1>2. CASE UNCHANGED vars
  BY <1>2, StillVouches DEF vars, Working
<1>3. ASSUME NEW w \in Writers, NEW c, c.pc = "queued", Enqueue(w, c)
      PROVE  ExportsVouch'
  BY <1>0, <1>3, StillVouches DEF Enqueue, store, Working
<1>4. ASSUME NEW w \in Writers, Begin(w) PROVE ExportsVouch'
  <2>1. CASE BeginPutSmall(w)
    BY <2>1, BeginVouches DEF BeginPutSmall, TurnInLiveBucket, Assign
  <2>2. CASE BeginPutLarge(w)
    <3>1. Reserved(call[w].keys) \subseteq call[w].keys
      BY DEF Reserved
    <3> QED BY <2>2, <3>1, BeginVouches DEF BeginPutLarge, TurnInLiveBucket, Assign
  <2>3. CASE BeginDelete(w)
    BY <2>3, BeginVouches DEF BeginDelete, TurnInLiveBucket, store
  <2>4. CASE BeginDeleteBucket(w) \/ Refuse(w)
    BY <2>4 DEF BeginDeleteBucket, Refuse, store
  <2> QED BY <1>4, <2>1, <2>2, <2>3, <2>4 DEF Begin
<1>5. ASSUME NEW w \in Writers, R2Applies(w) PROVE ExportsVouch'
  <2>1. call'[w].keys = call[w].keys /\ \A v \in Writers : v # w => call'[v] = call[v]
    BY <1>0, <1>5 DEF R2Applies, CallRecords
  <2>2. \A v \in Writers : Working(v)' => Working(v) /\ call'[v].keys = call[v].keys
    BY <1>5, <2>1 DEF R2Applies, Working
  <2> QED BY <1>5, <2>2, StillVouches DEF R2Applies
<1>6. ASSUME NEW w \in Writers, Answer(w) \/ R2Fails(w) PROVE ExportsVouch'
  <2>1. Working(w) /\ Progress(call[w])
    BY <1>6 DEF Answer, FinishPut, FinishDelete, SweepPage, R2Fails, Working, IInv,
                Coherent, RunningCalls
  <2>2. ~deleted
    BY <1>6 DEF Answer, FinishPut, FinishDelete, SweepPage, R2Fails
  <2>3. ~SweepPage(w)
    BY <2>1, <2>2 DEF SweepPage, Progress
  <2>4. \A k \in Keys \ call[w].keys : entries'[k] = entries[k]
    BY <1>6, <2>1, <2>3 DEF Answer, FinishPut, FinishDelete, R2Fails, Assign, Progress
  <2>5. Release(w, IdleCall, export)
    BY <1>6, <2>3 DEF Answer, FinishPut, FinishDelete, R2Fails
  <2> QED BY <2>1, <2>2, <2>4, <2>5, EndVouches
<1>7. ASSUME NEW w \in Writers, DeleteServiceRow(w) PROVE ExportsVouch'
  BY <1>0, <1>1, <1>7, StillVouches DEF DeleteServiceRow, Working
<1>8. ASSUME NEW r \in Readers,
             \/ \E keys \in SUBSET Keys \ {{}} : BeginRead(r, keys)
             \/ \E k \in Keys : R2Get(r, k)
             \/ EndRead(r) \/ ReadFails(r)
      PROVE  ExportsVouch'
  BY <1>8, StillVouches DEF BeginRead, R2Get, EndRead, ReadFails, store, Working
<1>9. ASSUME NEW e \in Exporters, EndExport(e) PROVE ExportsVouch'
  BY <1>0, <1>9, StillVouches DEF EndExport, store, Working
<1>10. ASSUME NEW e \in Exporters, BeginExport(e) \/ NextExportPage(e) \/ ExportPage(e)
       PROVE  ExportsVouch'
  BY <1>10, AskVouches, PageVouches
<1>11. CASE Restart
  <2>1. \A w \in Writers : ~Working(w)'
    BY <1>1, <1>11 DEF Restart, Working
  <2> QED BY <1>11, <2>1, StillVouches DEF Restart, store
<1>12. ASSUME NEW w \in Writers,
              \/ \E k \in Keys, v \in Values : Put(w, k, v)
              \/ \E k \in Keys : Delete(w, k)
              \/ DeleteBucket(w)
       PROVE  ExportsVouch'
  <2>1. \A op, keys, v : Queued(op, keys, v).pc = "queued"
    BY DEF Queued
  <2> QED BY <1>3, <1>12, <2>1 DEF Put, Delete, DeleteBucket
<1> QED BY <1>2, <1>4, <1>5, <1>6, <1>7, <1>8, <1>9, <1>10, <1>11, <1>12 DEF Next

\* A finished export lists exactly the keys with a row, among those no write
\* touched after their page was read: exportKeys waits for the writes that were
\* called before, and its pages neither skip a key nor list a deleted one.
THEOREM ExportsAreComplete == Spec => []ExportIsComplete
<1>1. Init => ExportsVouch
  BY DEF Init, ExportsVouch, Vouched, Working, IdleCall, IdleExport
<1>2. IInv /\ ExportsVouch /\ [Next]_vars => ExportsVouch'
  BY VouchStep
<1>3. ExportsVouch => ExportIsComplete
  BY DEF ExportsVouch, Vouched, ExportIsComplete
<1> QED BY Inductive, <1>1, <1>2, <1>3, PTL DEF Spec
=============================================================================
