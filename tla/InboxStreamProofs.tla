------------------------- MODULE InboxStreamProofs -------------------------
(***************************************************************************)
(* The stream of inbox messages implements MessageDelivery, for any number *)
(* of tabs, any page size and any bounds.                                  *)
(*                                                                         *)
(* The invariant has two halves.  Basics holds always: what is listed is a *)
(* stretch of the log, and no stream counts ahead of what it has yielded,  *)
(* so that nothing is left out.  Order holds as long as a lock orders the  *)
(* streams and nobody clears the storage: a record then only grows or is   *)
(* replaced for good, so that nothing is yielded twice.                    *)
(*                                                                         *)
(* Then the inboxes of the server, which those streams read page by page:  *)
(* the end of a query means everything it asks for.                        *)
(***************************************************************************)
EXTENDS InboxStream, MCInboxServer, SequenceTheorems, FiniteSetTheorems, WellFoundedInduction, TLAPS

\* Nobody has cleared the storage; and one lock orders the streams.
Uncleared == used.clears = 0
InOrder == UseLock /\ Uncleared

Busy(x) == x.pc # "idle"
Working(x) == x.pc \in {"fetching", "answered", "cached"}

\* Records list the messages from the first one, pages go on where they end.
RecordRuns ==
  /\ record.ids = Delivery!Stretch(0, record.since)
  /\ record.version = 0 => record.ids = <<>>
PageRuns(x) ==
  LET end == x.query.since - Len(x.batch) IN
  /\ end \in Nat
  /\ x.query.ids = Delivery!Stretch(0, end)
  /\ x.batch = Delivery!Stretch(end, x.query.since)
  /\ x.pc \notin {"answered", "cached"} => x.batch = <<>>
  /\ x.query.version = 0 => x.query.ids = <<>>
  /\ x.pc = "replay" => x.query.version # 0
PagesRun == RecordRuns /\ \A c \in Tabs : PageRuns(stream[c])

\* Versions are handed out by fresh.
OldVersions(x, k, last) ==
  /\ x.version <= last /\ x.seenVersion <= last /\ x.query.version <= last
  /\ k.version <= last
  /\ k.version = 0 => k.numSeen = 0
VersionsAreOld ==
  /\ record.version <= fresh.version
  /\ \A c \in Tabs : OldVersions(stream[c], cursor[c], fresh.version)

\* What a stream has counted is never ahead of what it has yielded.
Covered(x, yielded) ==
  Busy(x) => /\ x.numSeen <= Delivery!Place(yielded)
             /\ x.firstPage /\ x.version = 0 => yielded = <<>>
             /\ ~x.firstPage => x.seenVersion # 0
CountsAreCovered ==
  \A c \in Tabs : /\ Covered(stream[c], seen[c])
                  /\ cursor[c].numSeen <= Delivery!Place(kept[c])

\* One tab works on the record at a time, and nothing changes it meanwhile.
WorksAlone(c) ==
  Working(stream[c]) => /\ lock = c
                        /\ stream[c].query.version = record.version
                        /\ stream[c].query.ids = record.ids
OneWorks == \A c \in Tabs : WorksAlone(c)

\* What a record lists, in the cache or in a stream, can be read.
Backed(c) ==
  /\ Range(stream[c].query.ids) \subseteq cached
  /\ stream[c].pc = "cached" => Range(stream[c].batch) \subseteq cached
AllBacked == Range(record.ids) \subseteq cached /\ \A c \in Tabs : Backed(c)

\* A version that a continuation did not find at its start never comes back.
StaysDead(c) ==
  LET x == stream[c] IN
  /\ Busy(x) /\ x.version \notin {0, x.seenVersion} => record.version # x.version
  /\ (Working(x) \/ x.pc = "replay") /\ x.version # 0 => x.query.version = x.version
DeadStayDead == \A c \in Tabs : StaysDead(c)

\* A record of a version that was counted lists all that was counted.
Listed(c) ==
  LET x == stream[c] IN
  /\ cursor[c].version = record.version => cursor[c].numSeen <= Len(record.ids)
  /\ /\ Busy(x) /\ record.version # 0
     /\ record.version = x.version \/ (record.version = x.seenVersion /\ ~x.firstPage)
     => x.numSeen <= Len(record.ids)
  /\ x.pc = "replay" /\ record.version = x.query.version
       => Len(x.query.ids) <= Len(record.ids)
  /\ Working(x) \/ x.pc = "replay" => x.numSeen <= Len(x.query.ids)
CountsAreListed == \A c \in Tabs : Listed(c)

Exact(c) ==
  /\ cursor[c].numSeen = Delivery!Place(kept[c])
  /\ Busy(stream[c]) => stream[c].numSeen = Delivery!Place(seen[c])
CountsAreExact == \A c \in Tabs : Exact(c)

Basics ==
  /\ TypeOK /\ PagesRun /\ VersionsAreOld /\ CountsAreCovered
  /\ Uncleared => AllBacked
Order == OneWorks /\ DeadStayDead /\ CountsAreListed /\ CountsAreExact
IInv == Basics /\ (InOrder => Order)

(***************************************************************************)
(* Stretches of the log.                                                   *)
(***************************************************************************)
LEMMA StretchFacts ==
  ASSUME NEW from \in Nat, NEW to \in Nat, from <= to, NEW n \in Nat, to <= n
  PROVE  /\ Delivery!Stretch(from, to) \in Seq(1..n)
         /\ Len(Delivery!Stretch(from, to)) = to - from
         /\ \A i \in 1..(to - from) : Delivery!Stretch(from, to)[i] = from + i
BY DEF Delivery!Stretch

LEMMA StretchesJoin ==
  ASSUME NEW from \in Nat, NEW mid \in Nat, NEW to \in Nat, from <= mid, mid <= to
  PROVE  Delivery!Stretch(from, mid) \o Delivery!Stretch(mid, to)
           = Delivery!Stretch(from, to)
<1> DEFINE s == Delivery!Stretch(from, mid)  t == Delivery!Stretch(mid, to)
           u == Delivery!Stretch(from, to)
<1>0. from <= to /\ to <= to
  OBVIOUS
<1>1. s \in Seq(1..to) /\ Len(s) = mid - from /\ \A i \in 1..(mid - from) : s[i] = from + i
  BY StretchFacts
<1>2. t \in Seq(1..to) /\ Len(t) = to - mid /\ \A i \in 1..(to - mid) : t[i] = mid + i
  BY <1>0, StretchFacts
<1>3. u \in Seq(1..to) /\ Len(u) = to - from /\ \A i \in 1..(to - from) : u[i] = from + i
  BY <1>0, StretchFacts
<1> HIDE DEF s, t, u
<1>4. /\ s \o t \in Seq(1..to)
      /\ Len(s \o t) = Len(s) + Len(t)
      /\ \A i \in 1..(Len(s) + Len(t)) :
           (s \o t)[i] = IF i <= Len(s) THEN s[i] ELSE t[i - Len(s)]
  BY <1>1, <1>2, ConcatProperties
<1>5. Len(s \o t) = Len(u)
  BY <1>1, <1>2, <1>3, <1>4
<1>6. ASSUME NEW i \in 1..Len(s \o t) PROVE (s \o t)[i] = u[i]
  <2>1. i \in 1..(to - from) /\ i \in 1..(Len(s) + Len(t)) /\ u[i] = from + i
    BY <1>1, <1>2, <1>3, <1>4
  <2>2. CASE i <= Len(s)
    BY <1>1, <1>4, <2>1, <2>2
  <2>3. CASE ~(i <= Len(s))
    <3> DEFINE j == i - (mid - from)
    <3>1. j \in 1..(to - mid) /\ mid + j = from + i /\ (s \o t)[i] = t[j]
      BY <1>1, <1>2, <1>4, <2>1, <2>3
    <3> HIDE DEF j
    <3> QED BY <1>2, <2>1, <3>1
  <2> QED BY <2>2, <2>3
<1>7. s \o t = u
  BY <1>3, <1>4, <1>5, <1>6, SeqEqual
<1> QED BY <1>7 DEF s, t, u

LEMMA NoStretch ==
  ASSUME NEW n \in Nat
  PROVE  Delivery!Stretch(n, n) = <<>>
BY DEF Delivery!Stretch

LEMMA RestOfStretch ==
  ASSUME NEW n \in Nat, NEW k \in Nat
  PROVE  SubSeq(Delivery!Stretch(0, n), k + 1, n)
           = (IF k <= n THEN Delivery!Stretch(k, n) ELSE <<>>)
<1> DEFINE s == Delivery!Stretch(0, n)
<1>0. 0 <= n /\ n <= n /\ n - 0 = n
  OBVIOUS
<1>1. s \in Seq(1..n) /\ Len(s) = n /\ \A i \in 1..n : s[i] = 0 + i
  BY <1>0, StretchFacts
<1>2. CASE ~(k <= n)
  BY <1>2, SubSeqEmpty
<1>3. CASE k <= n
  <2> DEFINE r == SubSeq(s, k + 1, n)  t == Delivery!Stretch(k, n)
  <2>1. t \in Seq(1..n) /\ Len(t) = n - k /\ \A i \in 1..(n - k) : t[i] = k + i
    BY <1>3, StretchFacts
  <2> HIDE DEF s, t
  <2>2. \A i \in k + 1 .. n : s[i] \in 1..n
    BY <1>1, <1>3
  <2>3. /\ r \in Seq(1..n) /\ Len(r) = (IF k + 1 <= n THEN n - (k + 1) + 1 ELSE 0)
        /\ \A i \in 1..(n - (k + 1) + 1) : r[i] = s[(k + 1) + i - 1]
    BY <2>2, SubSeqProperties
  <2> HIDE DEF r
  <2>4. Len(r) = Len(t)
    BY <1>3, <2>1, <2>3
  <2>5. \A i \in 1..Len(r) : r[i] = t[i]
    BY <1>1, <1>3, <2>1, <2>3, <2>4
  <2>6. r = t
    BY <2>1, <2>3, <2>4, <2>5, SeqEqual
  <2> QED BY <1>3, <2>6 DEF r, s, t
<1> QED BY <1>2, <1>3

\* Where a reader is that has been given another stretch.
LEMMA PlaceAfter ==
  ASSUME NEW n \in Nat, NEW s \in Seq(1..n), NEW from \in Nat, NEW to \in Nat,
         from <= to, to <= n
  PROVE  /\ s \o Delivery!Stretch(from, to) \in Seq(1..n)
         /\ Delivery!Place(s \o Delivery!Stretch(from, to))
              = (IF from < to THEN to ELSE Delivery!Place(s))
<1> DEFINE t == Delivery!Stretch(from, to)
<1>1. t \in Seq(1..n) /\ Len(t) = to - from /\ \A i \in 1..(to - from) : t[i] = from + i
  BY StretchFacts
<1>2. from = to => t = <<>>
  BY NoStretch
<1> HIDE DEF t
<1>3. /\ s \o t \in Seq(1..n) /\ Len(s \o t) = Len(s) + Len(t)
      /\ \A i \in 1..(Len(s) + Len(t)) :
           (s \o t)[i] = IF i <= Len(s) THEN s[i] ELSE t[i - Len(s)]
  BY <1>1, ConcatProperties
<1>4. Len(s) \in Nat
  BY LenProperties
<1>5. CASE from < to
  <2>1. s \o t # <<>>
    BY <1>1, <1>3, <1>4, <1>5
  <2>2. (s \o t)[Len(s \o t)] = t[to - from]
    BY <1>1, <1>3, <1>4, <1>5
  <2>3. t[to - from] = to
    BY <1>1, <1>5
  <2> QED BY <1>3, <1>5, <2>1, <2>2, <2>3 DEF Delivery!Place, t
<1>6. CASE ~(from < to)
  <2>1. s \o t = s
    BY <1>2, <1>6, ConcatEmptySeq
  <2> QED BY <1>6, <2>1 DEF t
<1> QED BY <1>5, <1>6

LEMMA PlaceTyped ==
  ASSUME NEW n \in Nat, NEW s \in Seq(1..n)
  PROVE  Delivery!Place(s) \in 0..n
BY DEF Delivery!Place

LEMMA MinOfTwo ==
  ASSUME NEW a \in Int, NEW b \in Int
  PROVE  Min({a, b}) \in {a, b} /\ Min({a, b}) <= a /\ Min({a, b}) <= b
<1>1. \E x \in {a, b} : \A y \in {a, b} : x <= y
  OBVIOUS
<1> QED BY <1>1 DEF Min

LEMMA BatchRuns ==
  ASSUME TypeOK, NEW since \in 0..log
  PROVE  /\ Batch(since) = Delivery!Stretch(since, since + Len(Batch(since)))
         /\ Batch(since) \in Seq(1..log)
         /\ since + Len(Batch(since)) \in 0..log
<1>0. log \in Nat /\ since \in Nat /\ PageSize \in Nat /\ log - since \in Nat
  BY PagesAreNotEmpty, BoundsAreNumbers DEF TypeOK
<1> DEFINE n == Min({PageSize, log - since})
<1>1. n \in {PageSize, log - since} /\ n <= log - since
  <2>1. PageSize \in Int /\ log - since \in Int
    BY <1>0
  <2> QED BY <2>1, MinOfTwo, Zenon
<1> HIDE DEF n
<1>2. n \in Nat /\ since + n \in Nat /\ since <= since + n /\ since + n <= log
      /\ (since + n) - since = n
  BY <1>0, <1>1
<1>3. Batch(since) = Delivery!Stretch(since, since + n)
  BY <1>2 DEF Batch, n, Delivery!Stretch
<1>4. /\ Delivery!Stretch(since, since + n) \in Seq(1..log)
      /\ Len(Delivery!Stretch(since, since + n)) = (since + n) - since
  BY <1>0, <1>2, StretchFacts, Zenon
<1> QED BY <1>2, <1>3, <1>4

(***************************************************************************)
(* The type invariant.                                                     *)
(***************************************************************************)
LEMMA InitTyped == Init => TypeOK
<1> SUFFICES ASSUME Init PROVE TypeOK
  OBVIOUS
<1>1. NoRecord \in RecordType
  BY DEF Init, NoRecord, RecordType
<1>2. Idle \in StreamType
  BY <1>1 DEF Idle, StreamType
<1>3. <<>> \in Seq(1..log)
  OBVIOUS
<1> QED BY <1>1, <1>2, <1>3, BoundsAreNumbers DEF Init, TypeOK, NoCursor

LEMMA Defaults ==
  ASSUME TypeOK
  PROVE  NoRecord \in RecordType /\ Idle \in StreamType /\ <<>> \in Seq(1..log)
<1>1. NoRecord \in RecordType
  BY BoundsAreNumbers DEF TypeOK, NoRecord, RecordType
<1> QED BY <1>1 DEF Idle, StreamType

LEMMA LogGrows ==
  ASSUME TypeOK, log' \in {log, log + 1}, epoch' \in {epoch, epoch + 1}
  PROVE  /\ RecordType \subseteq RecordType' /\ StreamType \subseteq StreamType'
         /\ Seq(1..log) \subseteq Seq(1..log') /\ 1..log \subseteq 1..log'
<1>1. /\ 1..log \subseteq 1..log' /\ 0..log \subseteq 0..log'
      /\ 0..epoch \subseteq 0..epoch'
  BY BoundsAreNumbers DEF TypeOK
<1>2. Seq(1..log) \subseteq Seq(1..log')
  BY <1>1, SeqMonotonic
<1>3. RecordType \subseteq RecordType'
  BY <1>1, <1>2 DEF RecordType
<1> QED BY <1>1, <1>2, <1>3 DEF StreamType

LEMMA SameTypes ==
  ASSUME log' = log, epoch' = epoch
  PROVE  RecordType' = RecordType /\ StreamType' = StreamType
BY DEF RecordType, StreamType

\* A step of a tab that ends with Stop.
LEMMA StopTyped ==
  ASSUME TypeOK, NEW c \in Tabs, Stop(c), record' \in RecordType, cached' = cached
  PROVE  TypeOK'
<1>1. RecordType' = RecordType /\ StreamType' = StreamType
  BY SameTypes DEF Stop
<1>2. Idle \in StreamType
  BY Defaults
<1> QED BY <1>1, <1>2 DEF TypeOK, Stop, Release

\* A step that changes only the stream of a tab and the lock.
LEMMA StreamTyped ==
  ASSUME TypeOK, NEW c \in Tabs, NEW y \in StreamType,
         stream' = [stream EXCEPT ![c] = y], lock' \in {lock, c, Free},
         UNCHANGED <<log, epoch, cache, cursor, seen, kept, fresh, used>>
  PROVE  TypeOK'
<1>1. RecordType' = RecordType /\ StreamType' = StreamType
  BY SameTypes
<1> QED BY <1>1 DEF TypeOK, cache

LEMMA StartTyped ==
  ASSUME TypeOK, NEW c \in Tabs, NEW version \in Nat, NEW numSeen \in Nat,
         NEW yielded \in Seq(1..log), Start(c, version, numSeen, yielded)
  PROVE  TypeOK'
<1>1. RecordType' = RecordType /\ StreamType' = StreamType
  BY SameTypes DEF Start
<1> DEFINE y == [Idle EXCEPT !.pc = "acquire", !.version = version,
                   !.numSeen = numSeen, !.seenGeneration = record.generation,
                   !.seenVersion = record.version]
<1>2. y \in StreamType
  BY Defaults DEF TypeOK, StreamType, RecordType, Idle
<1>3. stream' = [stream EXCEPT ![c] = y]
  BY DEF Start
<1> HIDE DEF y
<1>4. used' \in [starts : Nat, clears : Nat]
  <2>1. used \in [starts : Nat, clears : Nat] /\ used' = [used EXCEPT !.starts = @ + 1]
    BY DEF Start, TypeOK
  <2> QED BY <2>1
<1>5. seen' \in [Tabs -> Seq(1..log)] /\ stream' \in [Tabs -> StreamType]
  <2>1. /\ seen \in [Tabs -> Seq(1..log)] /\ stream \in [Tabs -> StreamType]
        /\ seen' = [seen EXCEPT ![c] = yielded]
    BY DEF Start, TypeOK
  <2> QED BY <1>2, <1>3, <2>1
<1> QED BY <1>1, <1>4, <1>5 DEF Start, TypeOK, cache

LEMMA RenumberedTyped ==
  ASSUME TypeOK, NEW x \in StreamType
  PROVE  Renumbered(x) \in StreamType
BY DEF Renumbered, StreamType

LEMMA AnsweredTyped ==
  ASSUME TypeOK, NEW c \in Tabs, Answered(c)
  PROVE  TypeOK'
<1> DEFINE x == stream[c]
           page == Batch(x.query.since)
           end == x.query.since + Len(page)
           q == [x.query EXCEPT !.since = end, !.epoch = epoch,
                                !.more = end < log, !.wait = end = log]
           y == [x EXCEPT !.pc = "answered", !.batch = page, !.query = q]
<1>1. x \in StreamType /\ x.query \in RecordType /\ x.query.since \in 0..log
  BY DEF TypeOK, StreamType, RecordType
<1>2. page \in Seq(1..log) /\ end \in 0..log
  BY <1>1, BatchRuns
<1>3. epoch \in 0..epoch
  BY BoundsAreNumbers DEF TypeOK
<1>4. stream' = [stream EXCEPT ![c] = y]
  BY DEF Answered
<1> HIDE DEF page, end
<1>5. q \in RecordType
  <2>1. (end < log) \in BOOLEAN /\ (end = log) \in BOOLEAN
    OBVIOUS
  <2> QED BY <1>1, <1>2, <1>3, <2>1 DEF RecordType
<1> HIDE DEF q
<1>6. y \in StreamType
  BY <1>1, <1>2, <1>5 DEF StreamType
<1> HIDE DEF y
<1> QED BY <1>4, <1>6, StreamTyped DEF Answered

LEMMA WriteTyped ==
  ASSUME TypeOK, NEW c \in Tabs, WriteRecord(c)
  PROVE  TypeOK'
<1> DEFINE x == stream[c]
           new == x.query.version = 0
           version == IF new THEN fresh.version + 1 ELSE x.query.version
           r == [x.query EXCEPT !.version = version, !.ids = @ \o x.batch,
                                !.generation = fresh'.generation]
           y == [x EXCEPT !.pc = "replay", !.query = r, !.batch = <<>>]
<1>1. RecordType' = RecordType /\ StreamType' = StreamType
  BY SameTypes DEF WriteRecord
<1>2. x \in StreamType /\ x.query \in RecordType /\ x.batch \in Seq(1..log)
      /\ x.query.ids \in Seq(1..log)
  BY DEF TypeOK, StreamType, RecordType
<1>3. fresh' = [version |-> IF new THEN version ELSE fresh.version,
                generation |-> fresh.generation + 1]
  BY DEF WriteRecord
<1>4. version \in Nat /\ fresh' \in [version : Nat, generation : Nat]
      /\ fresh'.generation \in Nat
  <2>1. /\ fresh.version \in Nat /\ fresh.generation \in Nat
        /\ x.query.version \in Nat
    BY <1>2 DEF TypeOK, RecordType
  <2>2. version \in Nat
    BY <2>1
  <2> HIDE DEF version
  <2> QED BY <1>3, <2>1, <2>2
<1>5. x.query.ids \o x.batch \in Seq(1..log)
  BY <1>2, ConcatProperties
<1>6. record' = r /\ stream' = [stream EXCEPT ![c] = y]
  BY DEF WriteRecord, Extended
<1> HIDE DEF version
<1>7. r \in RecordType
  BY <1>2, <1>4, <1>5 DEF RecordType
<1> HIDE DEF r
<1>8. y \in StreamType
  BY <1>2, <1>7, Defaults DEF StreamType
<1> HIDE DEF y
<1>9. stream' \in [Tabs -> StreamType] /\ record' \in RecordType
  <2>1. stream \in [Tabs -> StreamType]
    BY DEF TypeOK
  <2> QED BY <1>6, <1>7, <1>8, <2>1
<1> HIDE <1>6
<1> QED BY <1>1, <1>4, <1>9 DEF WriteRecord, TypeOK, Release, cache

\* What a page yields is what the reader lacks of the record.
LEMMA UnseenIs ==
  ASSUME TypeOK, PagesRun, NEW c \in Tabs, stream[c].pc = "replay"
  PROVE  LET x == stream[c]
             n == Len(x.query.ids)
         IN /\ n \in 0..log /\ x.numSeen \in Nat
            /\ Unseen(x) = (IF x.numSeen <= n THEN Delivery!Stretch(x.numSeen, n)
                                              ELSE <<>>)
<1> DEFINE x == stream[c]  end == x.query.since - Len(x.batch)
<1>1. x \in StreamType /\ x.query.since \in 0..log /\ x.numSeen \in Nat
      /\ x.batch \in Seq(1..log) /\ log \in Nat
  <2>1. x \in StreamType /\ log \in Nat
    BY BoundsAreNumbers DEF TypeOK
  <2> QED BY <2>1 DEF StreamType, RecordType
<1>2. PageRuns(x)
  BY DEF PagesRun
<1>3. end \in Nat /\ x.query.ids = Delivery!Stretch(0, end) /\ end <= log
  <2>1. Len(x.batch) \in Nat
    BY <1>1, LenProperties
  <2> QED BY <1>1, <1>2, <2>1 DEF PageRuns
<1> HIDE DEF end
<1>4. Len(x.query.ids) = end
  <2>1. 0 \in Nat /\ 0 <= end /\ end - 0 = end
    BY <1>3
  <2> QED BY <1>1, <1>3, <2>1, StretchFacts
<1>5. Unseen(x) = SubSeq(Delivery!Stretch(0, end), x.numSeen + 1, end)
  BY <1>3, <1>4 DEF Unseen
<1>6. Unseen(x) = IF x.numSeen <= end THEN Delivery!Stretch(x.numSeen, end) ELSE <<>>
  BY <1>1, <1>3, <1>5, RestOfStretch
<1> QED BY <1>1, <1>3, <1>4, <1>6

LEMMA ReplayTyped ==
  ASSUME TypeOK, PagesRun, NEW c \in Tabs, Replay(c)
  PROVE  TypeOK'
<1> DEFINE x == stream[c]  all == Len(x.query.ids)
<1>1. RecordType' = RecordType /\ StreamType' = StreamType
  BY SameTypes DEF Replay
<1>2. x \in StreamType /\ x.query \in RecordType /\ log \in Nat /\ seen[c] \in Seq(1..log)
  BY BoundsAreNumbers DEF TypeOK, StreamType
<1>3. /\ all \in 0..log /\ x.numSeen \in Nat
      /\ Unseen(x) = IF x.numSeen <= all THEN Delivery!Stretch(x.numSeen, all) ELSE <<>>
  BY UnseenIs DEF Replay
<1>4. seen[c] \o Unseen(x) \in Seq(1..log)
  <2>1. CASE x.numSeen <= all
    <3>1. Delivery!Stretch(x.numSeen, all) \in Seq(1..log)
      BY <1>2, <1>3, <2>1, PlaceAfter
    <3> QED BY <1>2, <1>3, <2>1, <3>1
  <2>2. CASE ~(x.numSeen <= all)
    BY <1>2, <1>3, <2>2, ConcatEmptySeq
  <2> QED BY <2>1, <2>2
<1>5. seen' \in [Tabs -> Seq(1..log)] /\ seen'[c] \in Seq(1..log)
  BY <1>4 DEF Replay, TypeOK
<1> DEFINE y == [x EXCEPT !.pc = "acquire", !.firstPage = FALSE, !.numSeen = all,
                   !.seenGeneration = x.query.generation,
                   !.seenVersion = x.query.version, !.query = NoRecord]
<1>6. y \in StreamType /\ Idle \in StreamType
  <2>1. /\ x.query.generation \in Nat /\ x.query.version \in Nat /\ all \in Nat
        /\ NoRecord \in RecordType
    <3>1. x.query.generation \in Nat /\ x.query.version \in Nat
      BY <1>2 DEF RecordType
    <3> QED BY <1>2, <1>3, <3>1, Defaults
  <2> HIDE DEF all
  <2> QED BY <1>2, <2>1, Defaults DEF StreamType
<1>7. stream' \in {[stream EXCEPT ![c] = y], [stream EXCEPT ![c] = Idle]}
  BY DEF Replay
<1> HIDE DEF y
<1>8. stream' \in [Tabs -> StreamType]
  BY <1>6, <1>7 DEF TypeOK
<1>9. /\ cursor' \in [Tabs -> [version : Nat, numSeen : Nat]]
      /\ kept' \in [Tabs -> Seq(1..log)]
  <2>1. x.query.version \in Nat /\ all \in Nat
    BY <1>2, <1>3 DEF RecordType
  <2>2. \/ UNCHANGED <<cursor, kept>>
        \/ /\ cursor' = [cursor EXCEPT ![c] =
                           [version |-> x.query.version, numSeen |-> all]]
           /\ kept' = [kept EXCEPT ![c] = seen'[c]]
    BY DEF Replay
  <2> HIDE DEF all
  <2>3. [version |-> x.query.version, numSeen |-> all] \in [version : Nat, numSeen : Nat]
    BY <2>1
  <2>4. cursor \in [Tabs -> [version : Nat, numSeen : Nat]] /\ kept \in [Tabs -> Seq(1..log)]
    BY DEF TypeOK
  <2> HIDE DEF x
  <2>5. cursor' \in [Tabs -> [version : Nat, numSeen : Nat]]
    BY <2>2, <2>3, <2>4
  <2>6. kept' \in [Tabs -> Seq(1..log)]
    BY <1>5, <2>2, <2>4
  <2> QED BY <2>5, <2>6
<1> QED BY <1>1, <1>5, <1>8, <1>9 DEF Replay, TypeOK, cache

LEMMA NewPc ==
  ASSUME NEW x \in StreamType,
         NEW pc \in {"idle", "acquire", "waiting", "fetching", "answered", "cached", "replay"}
  PROVE  [x EXCEPT !.pc = pc] \in StreamType
BY DEF StreamType

LEMMA TypeStep ==
  ASSUME TypeOK, PagesRun, [Next]_vars
  PROVE  TypeOK'
<1>1. CASE Arrive
  <2>1. /\ log' \in 0..MaxLog
        /\ UNCHANGED <<epoch, cache, stream, lock, cursor, seen, kept, fresh, used>>
    BY <1>1, BoundsAreNumbers DEF Arrive, TypeOK
  <2> QED BY <1>1, <2>1, LogGrows DEF Arrive, TypeOK, cache
<1>2. CASE Expire
  BY <1>2, LogGrows, BoundsAreNumbers DEF Expire, TypeOK, cache
<1>3. CASE RetryAfterPasses
  BY <1>3, SameTypes DEF RetryAfterPasses, TypeOK, RecordType
<1>4. CASE ClearStorage
  <2>1. used \in [starts : Nat, clears : Nat] /\ used' = [used EXCEPT !.clears = @ + 1]
    BY <1>4 DEF ClearStorage, TypeOK
  <2>2. used' \in [starts : Nat, clears : Nat]
    BY <2>1
  <2> QED BY <1>4, <2>2, SameTypes, Defaults DEF ClearStorage, TypeOK
<1>5. ASSUME NEW c \in Tabs, Query(c) PROVE TypeOK'
  BY <1>5, StartTyped, Defaults DEF Query
<1>6. ASSUME NEW c \in Tabs, ContinueQuery(c) PROVE TypeOK'
  BY <1>6, StartTyped DEF ContinueQuery, TypeOK
<1>7. ASSUME NEW c \in Tabs, ReportStale(c) \/ RequestFails(c) \/ Close(c) PROVE TypeOK'
  BY <1>7, StopTyped DEF ReportStale, RequestFails, Close, cache, TypeOK
<1>8. ASSUME NEW c \in Tabs, ReusePage(c) PROVE TypeOK'
  <2> DEFINE y == [Renumbered(stream[c]) EXCEPT !.pc = "replay", !.query = record]
  <2>1. y \in StreamType
    <3>1. Renumbered(stream[c]) \in StreamType /\ record \in RecordType
      BY RenumberedTyped DEF TypeOK
    <3> QED BY <3>1 DEF StreamType
  <2> HIDE DEF y
  <2> QED BY <1>8, <2>1, StreamTyped DEF ReusePage, y
<1>9. ASSUME NEW c \in Tabs, AwaitRetry(c) PROVE TypeOK'
  <2> DEFINE y == [Renumbered(stream[c]) EXCEPT !.pc = "waiting"]
  <2>1. y \in StreamType
    <3>1. Renumbered(stream[c]) \in StreamType /\ record \in RecordType
      BY RenumberedTyped DEF TypeOK
    <3> QED BY <3>1 DEF StreamType
  <2> HIDE DEF y
  <2> QED BY <1>9, <2>1, StreamTyped DEF AwaitRetry, y
<1>10. ASSUME NEW c \in Tabs, Request(c) PROVE TypeOK'
  <2> DEFINE y == [Renumbered(stream[c]) EXCEPT !.pc = "fetching", !.query = record]
  <2>1. y \in StreamType
    <3>1. Renumbered(stream[c]) \in StreamType /\ record \in RecordType
      BY RenumberedTyped DEF TypeOK
    <3> QED BY <3>1 DEF StreamType
  <2> HIDE DEF y
  <2> QED BY <1>10, <2>1, StreamTyped DEF Request, y
<1>11. ASSUME NEW c \in Tabs, WakeUp(c) PROVE TypeOK'
  <2> DEFINE y == [stream[c] EXCEPT !.pc = "acquire"]
  <2>1. y \in StreamType
    BY NewPc DEF TypeOK
  <2>2. stream' = [stream EXCEPT ![c] = y]
    BY <1>11 DEF WakeUp
  <2> HIDE DEF y
  <2> QED BY <1>11, <2>1, <2>2, StreamTyped DEF WakeUp
<1>12. ASSUME NEW c \in Tabs, Answered(c) PROVE TypeOK'
  BY <1>12, AnsweredTyped
<1>13. ASSUME NEW c \in Tabs, CursorExpired(c) PROVE TypeOK'
  <2>1. record' \in RecordType /\ cached' = cached
    BY <1>13, Defaults DEF CursorExpired, TypeOK
  <2>2. CASE stream[c].firstPage /\ stream[c].version = 0
    <3> DEFINE y == [stream[c] EXCEPT !.query = NoRecord, !.numSeen = 0]
    <3>1. y \in StreamType
      BY Defaults DEF TypeOK, StreamType
    <3>2. stream' = [stream EXCEPT ![c] = y]
      BY <1>13, <2>2 DEF CursorExpired
    <3> HIDE DEF y
    <3> QED BY <1>13, <2>1, <2>2, <3>1, <3>2, SameTypes DEF CursorExpired, TypeOK
  <2>3. CASE ~(stream[c].firstPage /\ stream[c].version = 0)
    BY <1>13, <2>1, <2>3, StopTyped DEF CursorExpired
  <2> QED BY <2>2, <2>3
<1>14. ASSUME NEW c \in Tabs, CacheMessages(c) PROVE TypeOK'
  <2> DEFINE y == [stream[c] EXCEPT !.pc = "cached"]
  <2>1. y \in StreamType /\ stream[c].batch \in Seq(1..log)
    <3>1. stream[c] \in StreamType
      BY DEF TypeOK
    <3>2. y \in StreamType
      BY <3>1, NewPc
    <3> QED BY <3>1, <3>2 DEF StreamType
  <2>2. Range(stream[c].batch) \subseteq 1..log
    <3>1. stream[c].batch \in [1..Len(stream[c].batch) -> 1..log]
      BY <2>1, LenProperties
    <3> QED BY <3>1 DEF Range
  <2>3. stream' = [stream EXCEPT ![c] = y]
    BY <1>14 DEF CacheMessages
  <2> HIDE DEF y
  <2>4. stream' \in [Tabs -> StreamType] /\ cached' \subseteq 1..log
    <3>1. stream \in [Tabs -> StreamType] /\ cached \subseteq 1..log
      BY DEF TypeOK
    <3>2. cached' = cached \cup Range(stream[c].batch)
      BY <1>14 DEF CacheMessages
    <3>3. stream' \in [Tabs -> StreamType]
      BY <2>1, <2>3, <3>1
    <3> QED BY <2>2, <3>1, <3>2, <3>3
  <2>5. UNCHANGED <<log, epoch, record, lock, cursor, seen, kept, fresh, used>>
    BY <1>14 DEF CacheMessages
  <2> QED BY <2>4, <2>5, SameTypes DEF TypeOK
<1>15. ASSUME NEW c \in Tabs, WriteRecord(c) PROVE TypeOK'
  BY <1>15, WriteTyped
<1>16. ASSUME NEW c \in Tabs, Replay(c) PROVE TypeOK'
  BY <1>16, ReplayTyped
<1>17. ASSUME NEW c \in Tabs, OutOfSync(c) PROVE TypeOK'
  BY <1>17, StopTyped, Defaults DEF OutOfSync
<1>18. CASE UNCHANGED vars
  BY <1>18, SameTypes DEF vars, cache, TypeOK
<1> QED BY <1>1, <1>2, <1>3, <1>4, <1>5, <1>6, <1>7, <1>8, <1>9, <1>10, <1>11, <1>12,
           <1>13, <1>14, <1>15, <1>16, <1>17, <1>18 DEF Next, Work, Go

(***************************************************************************)
(* Records and pages are stretches of the log.                             *)
(***************************************************************************)
LEMMA EmptyPage ==
  ASSUME NEW x, x.query = NoRecord, x.batch = <<>>, x.pc # "replay"
  PROVE  PageRuns(x)
<1>1. Delivery!Stretch(0, 0) = <<>>
  BY NoStretch
<1> QED BY <1>1 DEF PageRuns, NoRecord

\* A page of a record that nothing has been added to.
LEMMA WholePage ==
  ASSUME NEW x, NEW r \in RecordType, log \in Nat, x.query = r, x.batch = <<>>,
         r.ids = Delivery!Stretch(0, r.since), r.version = 0 => r.ids = <<>>,
         x.pc = "replay" => r.version # 0
  PROVE  PageRuns(x)
<1>1. r.since \in Nat
  BY DEF RecordType
<1>2. Delivery!Stretch(r.since, r.since) = <<>>
  BY <1>1, NoStretch
<1>3. r.since - Len(<<>>) = r.since
  BY <1>1
<1> QED BY <1>1, <1>2, <1>3 DEF PageRuns

LEMMA PageSet ==
  ASSUME TypeOK, PagesRun, RecordRuns', NEW c \in Tabs, NEW y, PageRuns(y),
         stream' = [stream EXCEPT ![c] = y]
  PROVE  PagesRun'
<1> SUFFICES ASSUME NEW d \in Tabs PROVE PageRuns(stream'[d])
  BY DEF PagesRun, PageRuns
<1>1. stream'[d] = IF d = c THEN y ELSE stream[d]
  BY DEF TypeOK
<1> QED BY <1>1 DEF PagesRun

LEMMA NoRecordRuns == record' = NoRecord => RecordRuns'
<1>1. Delivery!Stretch(0, 0) = <<>>
  BY NoStretch
<1> QED BY <1>1 DEF RecordRuns, NoRecord

LEMMA InitRuns == Init => PagesRun
<1> SUFFICES ASSUME Init PROVE PagesRun
  OBVIOUS
<1>1. Delivery!Stretch(0, 0) = <<>>
  BY NoStretch
<1>2. PageRuns(Idle)
  BY EmptyPage DEF Idle
<1> QED BY <1>1, <1>2 DEF Init, PagesRun, RecordRuns, NoRecord

LEMMA StopRuns ==
  ASSUME TypeOK, PagesRun, NEW c \in Tabs, Stop(c), record' \in {record, NoRecord}
  PROVE  PagesRun'
<1>1. RecordRuns'
  BY NoRecordRuns DEF PagesRun, RecordRuns
<1>2. PageRuns(Idle)
  BY EmptyPage DEF Idle
<1> QED BY <1>1, <1>2, PageSet DEF Stop

\* What the steps of a tab need of its stream.
LEMMA StreamFacts ==
  ASSUME TypeOK, PagesRun, NEW c \in Tabs
  PROVE  LET x == stream[c]  r == Renumbered(x) IN
         /\ x \in StreamType /\ x.query \in RecordType /\ x.batch \in Seq(1..log)
         /\ PageRuns(x) /\ log \in Nat
         /\ x.query.since \in 0..log /\ Len(x.batch) \in Nat
         /\ r \in StreamType /\ r.pc = x.pc /\ r.query = x.query /\ r.batch = x.batch
         /\ r.version = x.version /\ r.seenVersion = x.seenVersion
         /\ r.firstPage = x.firstPage
         /\ r.numSeen = IF record.version # x.seenVersion THEN 0 ELSE x.numSeen
<1> DEFINE x == stream[c]
<1>1. x \in StreamType /\ log \in Nat
  BY BoundsAreNumbers DEF TypeOK
<1>2. x.query \in RecordType /\ x.batch \in Seq(1..log)
  BY <1>1 DEF StreamType
<1>3. x.query.since \in 0..log /\ Len(x.batch) \in Nat
  BY <1>2, LenProperties DEF RecordType
<1>4. PageRuns(x)
  BY DEF PagesRun
<1> HIDE DEF x
<1>5. Renumbered(x) \in StreamType
  BY <1>1, RenumberedTyped
<1>6. /\ Renumbered(x).pc = x.pc /\ Renumbered(x).query = x.query
      /\ Renumbered(x).batch = x.batch /\ Renumbered(x).version = x.version
      /\ Renumbered(x).seenVersion = x.seenVersion
      /\ Renumbered(x).firstPage = x.firstPage
      /\ Renumbered(x).numSeen = IF record.version # x.seenVersion THEN 0 ELSE x.numSeen
  BY <1>1 DEF Renumbered, StreamType
<1> QED BY <1>1, <1>2, <1>3, <1>4, <1>5, <1>6 DEF x

LEMMA RequestRuns ==
  ASSUME TypeOK, PagesRun, NEW c \in Tabs, ReusePage(c) \/ Request(c)
  PROVE  PagesRun'
<1> DEFINE x == stream[c]
           y == [Renumbered(x) EXCEPT !.pc = IF Request(c) THEN "fetching" ELSE "replay",
                                      !.query = record]
<1>1. x.pc = "acquire" /\ x.batch = <<>>
  BY StreamFacts DEF ReusePage, Request, AtWork, PageRuns
<1>2. /\ Renumbered(x) \in StreamType /\ Renumbered(x).batch = x.batch /\ log \in Nat
      /\ record \in RecordType
  BY StreamFacts DEF TypeOK
<1>3. stream' \in {[stream EXCEPT ![c] = [Renumbered(x) EXCEPT !.pc = "replay", !.query = record]],
                   [stream EXCEPT ![c] = [Renumbered(x) EXCEPT !.pc = "fetching", !.query = record]]}
      /\ record' = record
  BY DEF ReusePage, Request, cache
<1>4. CASE ReusePage(c)
  <2> DEFINE z == [Renumbered(x) EXCEPT !.pc = "replay", !.query = record]
  <2>1. z.query = record /\ z.batch = <<>> /\ z.pc = "replay"
    BY <1>1, <1>2 DEF StreamType
  <2>2. stream' = [stream EXCEPT ![c] = z] /\ record.version # 0
    BY <1>4 DEF ReusePage, News
  <2> HIDE DEF z
  <2>3. PageRuns(z)
    BY <1>2, <2>1, <2>2, WholePage DEF PagesRun, RecordRuns
  <2> QED BY <1>3, <2>2, <2>3, PageSet DEF PagesRun, RecordRuns
<1>5. CASE Request(c)
  <2> DEFINE z == [Renumbered(x) EXCEPT !.pc = "fetching", !.query = record]
  <2>1. z.query = record /\ z.batch = <<>> /\ z.pc = "fetching"
    BY <1>1, <1>2 DEF StreamType
  <2>2. stream' = [stream EXCEPT ![c] = z]
    BY <1>5 DEF Request
  <2> HIDE DEF z
  <2>3. PageRuns(z)
    BY <1>2, <2>1, <2>2, WholePage DEF PagesRun, RecordRuns
  <2> QED BY <1>3, <2>2, <2>3, PageSet DEF PagesRun, RecordRuns
<1> QED BY <1>4, <1>5

\* Steps that keep what a stream has of the record, and the record.
LEMMA KeptRuns ==
  ASSUME TypeOK, PagesRun, NEW c \in Tabs, NEW y, record' = record,
         stream' = [stream EXCEPT ![c] = y],
         y.query = stream[c].query, y.batch = stream[c].batch, y.pc # "replay",
         y.pc = "cached" <=> stream[c].pc = "answered", y.pc # "answered",
         stream[c].pc # "cached"
  PROVE  PagesRun'
<1>1. PageRuns(y)
  BY StreamFacts DEF PageRuns
<1> QED BY <1>1, PageSet DEF PagesRun, RecordRuns

LEMMA AnsweredRuns ==
  ASSUME TypeOK, PagesRun, NEW c \in Tabs, Answered(c)
  PROVE  PagesRun'
<1> DEFINE x == stream[c]
           since == x.query.since
           page == Batch(since)
           end == since + Len(page)
           q == [x.query EXCEPT !.since = end, !.epoch = epoch,
                                !.more = end < log, !.wait = end = log]
           y == [x EXCEPT !.pc = "answered", !.batch = page, !.query = q]
<1>1. /\ x \in StreamType /\ x.query \in RecordType /\ PageRuns(x) /\ since \in 0..log
      /\ log \in Nat
  BY StreamFacts
<1>2. x.batch = <<>>
  BY <1>1 DEF PageRuns, Answered
<1>3. x.query.ids = Delivery!Stretch(0, since) /\ (x.query.version = 0 => x.query.ids = <<>>)
  <2>1. since - Len(<<>>) = since
    BY <1>1
  <2> QED BY <1>1, <1>2, <2>1 DEF PageRuns
<1>4. page = Delivery!Stretch(since, end) /\ end \in 0..log /\ Len(page) \in Nat
  <2>1. page \in Seq(1..log) /\ page = Delivery!Stretch(since, end) /\ end \in 0..log
    BY <1>1, BatchRuns
  <2> QED BY <2>1, LenProperties
<1>5. stream' = [stream EXCEPT ![c] = y] /\ record' = record
  BY DEF Answered, cache
<1>6. end - Len(page) = since
  BY <1>1, <1>4
<1> HIDE DEF page, end
<1>7. q.ids = x.query.ids /\ q.version = x.query.version /\ q.since = end
  BY <1>1 DEF RecordType
<1> HIDE DEF q
<1>8. y.pc = "answered" /\ y.batch = page /\ y.query = q
  BY <1>1 DEF StreamType
<1> HIDE DEF y
<1>9. PageRuns(y)
  BY <1>1, <1>3, <1>4, <1>6, <1>7, <1>8 DEF PageRuns
<1> QED BY <1>5, <1>9, PageSet DEF PagesRun, RecordRuns

LEMMA WriteRuns ==
  ASSUME TypeOK, PagesRun, NEW c \in Tabs, WriteRecord(c)
  PROVE  PagesRun'
<1> DEFINE x == stream[c]
           since == x.query.since
           version == IF x.query.version = 0 THEN fresh.version + 1 ELSE x.query.version
           r == [x.query EXCEPT !.version = version, !.ids = @ \o x.batch,
                                !.generation = fresh'.generation]
           y == [x EXCEPT !.pc = "replay", !.query = r, !.batch = <<>>]
<1>1. /\ x \in StreamType /\ x.query \in RecordType /\ PageRuns(x) /\ since \in 0..log
      /\ Len(x.batch) \in Nat /\ log \in Nat
  BY StreamFacts
<1>2. x.query.ids \o x.batch = Delivery!Stretch(0, since)
  <2> DEFINE end == since - Len(x.batch)
  <2>1. /\ end \in Nat /\ end <= since /\ since \in Nat
        /\ x.query.ids = Delivery!Stretch(0, end) /\ x.batch = Delivery!Stretch(end, since)
    BY <1>1 DEF PageRuns
  <2> HIDE DEF end
  <2>2. 0 \in Nat /\ 0 <= end
    BY <2>1
  <2> QED BY <2>1, <2>2, StretchesJoin
<1>3. version # 0
  <2>1. fresh.version \in Nat
    BY DEF TypeOK
  <2> QED BY <2>1
<1>4. record' = r /\ stream' = [stream EXCEPT ![c] = y]
  BY DEF WriteRecord, Extended
<1>5. r \in RecordType /\ log' = log
  <2>1. TypeOK' /\ log' = log /\ epoch' = epoch
    BY WriteTyped DEF WriteRecord
  <2>2. RecordType' = RecordType
    BY <2>1, SameTypes
  <2> QED BY <1>4, <2>1, <2>2 DEF TypeOK
<1> HIDE DEF version
<1>6. r.ids = Delivery!Stretch(0, r.since) /\ r.version # 0
  BY <1>1, <1>2, <1>3 DEF RecordType
<1> HIDE DEF r
<1>7. y.pc = "replay" /\ y.query = r /\ y.batch = <<>>
  BY <1>1 DEF StreamType
<1> HIDE DEF y
<1>8. PageRuns(y)
  BY <1>1, <1>5, <1>6, <1>7, WholePage
<1> QED BY <1>4, <1>6, <1>8, PageSet DEF RecordRuns

LEMMA PagesStep ==
  ASSUME TypeOK, PagesRun, [Next]_vars
  PROVE  PagesRun'
<1>1. CASE UNCHANGED <<record, stream>>
  BY <1>1 DEF PagesRun, RecordRuns, PageRuns
<1>2. CASE RetryAfterPasses
  <2>1. record'.ids = record.ids /\ record'.since = record.since
        /\ record'.version = record.version /\ stream' = stream
    BY <1>2 DEF RetryAfterPasses, TypeOK, RecordType
  <2> QED BY <2>1 DEF PagesRun, RecordRuns, PageRuns
<1>3. CASE ClearStorage
  BY <1>3, NoRecordRuns DEF ClearStorage, PagesRun, PageRuns
<1>4. ASSUME NEW c \in Tabs, NEW version, NEW numSeen, NEW yielded,
             Start(c, version, numSeen, yielded)
      PROVE  PagesRun'
  <2> DEFINE y == [Idle EXCEPT !.pc = "acquire", !.version = version,
                     !.numSeen = numSeen, !.seenGeneration = record.generation,
                     !.seenVersion = record.version]
  <2>1. stream' = [stream EXCEPT ![c] = y] /\ record' = record
    BY <1>4 DEF Start, cache
  <2>2. y.query = NoRecord /\ y.batch = <<>> /\ y.pc # "replay"
    BY DEF Idle
  <2> HIDE DEF y
  <2> QED BY <2>1, <2>2, EmptyPage, PageSet DEF PagesRun, RecordRuns
<1>5. ASSUME NEW c \in Tabs,
             ReportStale(c) \/ RequestFails(c) \/ Close(c) \/ OutOfSync(c)
      PROVE  PagesRun'
  BY <1>5, StopRuns DEF ReportStale, RequestFails, Close, OutOfSync, cache
<1>6. ASSUME NEW c \in Tabs, ReusePage(c) \/ Request(c) PROVE PagesRun'
  BY <1>6, RequestRuns
<1>7. ASSUME NEW c \in Tabs, AwaitRetry(c) PROVE PagesRun'
  <2> DEFINE y == [Renumbered(stream[c]) EXCEPT !.pc = "waiting"]
  <2>1. stream' = [stream EXCEPT ![c] = y] /\ record' = record /\ stream[c].pc = "acquire"
    BY <1>7 DEF AwaitRetry, AtWork, cache
  <2>2. y.query = stream[c].query /\ y.batch = stream[c].batch /\ y.pc = "waiting"
    BY StreamFacts DEF StreamType
  <2> HIDE DEF y
  <2> QED BY <2>1, <2>2, KeptRuns
<1>8. ASSUME NEW c \in Tabs, WakeUp(c) PROVE PagesRun'
  <2> DEFINE y == [stream[c] EXCEPT !.pc = "acquire"]
  <2>1. stream' = [stream EXCEPT ![c] = y] /\ record' = record /\ stream[c].pc = "waiting"
    BY <1>8 DEF WakeUp, cache
  <2>2. y.query = stream[c].query /\ y.batch = stream[c].batch /\ y.pc = "acquire"
    BY StreamFacts DEF StreamType
  <2> HIDE DEF y
  <2> QED BY <2>1, <2>2, KeptRuns
<1>9. ASSUME NEW c \in Tabs, Answered(c) PROVE PagesRun'
  BY <1>9, AnsweredRuns
<1>10. ASSUME NEW c \in Tabs, CursorExpired(c) PROVE PagesRun'
  <2>1. record' \in {record, NoRecord}
    BY <1>10 DEF CursorExpired
  <2>2. CASE stream[c].firstPage /\ stream[c].version = 0
    <3> DEFINE y == [stream[c] EXCEPT !.query = NoRecord, !.numSeen = 0]
    <3>1. stream' = [stream EXCEPT ![c] = y] /\ stream[c].pc = "fetching"
      BY <1>10, <2>2 DEF CursorExpired
    <3>2. y.query = NoRecord /\ y.batch = <<>> /\ y.pc # "replay"
      <4>1. PICK x : x = stream[c]
        OBVIOUS
      <4>2. x \in StreamType /\ PageRuns(x) /\ x.pc = "fetching"
        BY <3>1, <4>1, StreamFacts
      <4>3. x.batch = <<>>
        BY <4>2 DEF PageRuns
      <4> QED BY <4>1, <4>2, <4>3 DEF StreamType
    <3>3. RecordRuns'
      BY <2>1, NoRecordRuns DEF PagesRun, RecordRuns
    <3> HIDE DEF y
    <3> QED BY <3>1, <3>2, <3>3, EmptyPage, PageSet
  <2>3. CASE ~(stream[c].firstPage /\ stream[c].version = 0)
    BY <1>10, <2>1, <2>3, StopRuns DEF CursorExpired
  <2> QED BY <2>2, <2>3
<1>11. ASSUME NEW c \in Tabs, CacheMessages(c) PROVE PagesRun'
  <2> DEFINE y == [stream[c] EXCEPT !.pc = "cached"]
  <2>1. stream' = [stream EXCEPT ![c] = y] /\ record' = record /\ stream[c].pc = "answered"
    BY <1>11 DEF CacheMessages
  <2>2. y.query = stream[c].query /\ y.batch = stream[c].batch /\ y.pc = "cached"
    BY StreamFacts DEF StreamType
  <2> HIDE DEF y
  <2> QED BY <2>1, <2>2, KeptRuns
<1>12. ASSUME NEW c \in Tabs, WriteRecord(c) PROVE PagesRun'
  BY <1>12, WriteRuns
<1>13. ASSUME NEW c \in Tabs, Replay(c) PROVE PagesRun'
  <2> DEFINE x == stream[c]
             y == [x EXCEPT !.pc = "acquire", !.firstPage = FALSE,
                     !.numSeen = Len(x.query.ids), !.seenGeneration = x.query.generation,
                     !.seenVersion = x.query.version, !.query = NoRecord]
  <2>1. /\ stream' \in {[stream EXCEPT ![c] = y], [stream EXCEPT ![c] = Idle]}
        /\ record' = record /\ x.pc = "replay"
    BY <1>13 DEF Replay, cache
  <2>2. y.query = NoRecord /\ y.batch = <<>> /\ y.pc # "replay"
    BY <2>1, StreamFacts DEF StreamType, PageRuns
  <2> HIDE DEF y
  <2>3. PageRuns(y) /\ PageRuns(Idle)
    BY <2>2, EmptyPage DEF Idle
  <2> QED BY <2>1, <2>3, PageSet DEF PagesRun, RecordRuns
<1> QED BY <1>1, <1>2, <1>3, <1>4, <1>5, <1>6, <1>7, <1>8, <1>9, <1>10, <1>11, <1>12, <1>13
        DEF Next, Work, Go, Query, ContinueQuery, Arrive, Expire, vars, cache

(***************************************************************************)
(* What each step of a tab does to its stream, field by field, and that it *)
(* leaves the streams of the other tabs alone.                             *)
(***************************************************************************)
OthersKept(c) == \A d \in Tabs : d # c => stream'[d] = stream[d]
SameStart(y, x) ==
  y.version = x.version /\ y.seenVersion = x.seenVersion /\ y.firstPage = x.firstPage
SamePage(y, x) == y.query = x.query /\ y.batch = x.batch

LEMMA StartEffect ==
  ASSUME TypeOK, NEW c \in Tabs, NEW version, NEW numSeen, NEW yielded,
         Start(c, version, numSeen, yielded)
  PROVE  /\ OthersKept(c) /\ stream[c].pc = "idle"
         /\ stream'[c].pc = "acquire" /\ stream'[c].version = version
         /\ stream'[c].numSeen = numSeen /\ stream'[c].seenVersion = record.version
         /\ stream'[c].firstPage /\ stream'[c].query = NoRecord /\ stream'[c].batch = <<>>
         /\ seen' = [seen EXCEPT ![c] = yielded]
         /\ seen'[c] = yielded /\ (\A d \in Tabs : d # c => seen'[d] = seen[d])
         /\ UNCHANGED <<log, record, cached, lock, cursor, kept, fresh>>
         /\ used'.clears = used.clears
<1> DEFINE y == [Idle EXCEPT !.pc = "acquire", !.version = version,
                   !.numSeen = numSeen, !.seenGeneration = record.generation,
                   !.seenVersion = record.version]
<1>1. stream' = [stream EXCEPT ![c] = y] /\ stream[c].pc = "idle"
  BY DEF Start
<1>2. y.pc = "acquire" /\ y.version = version /\ y.numSeen = numSeen /\ y.firstPage = TRUE
      /\ y.seenVersion = record.version /\ y.query = NoRecord /\ y.batch = <<>>
  BY DEF Idle
<1>3. used'.clears = used.clears
  BY DEF Start, TypeOK
<1> HIDE DEF y
<1>4. stream'[c] = y /\ OthersKept(c)
  BY <1>1 DEF TypeOK, OthersKept
<1>5. /\ seen' = [seen EXCEPT ![c] = yielded] /\ seen'[c] = yielded
      /\ \A d \in Tabs : d # c => seen'[d] = seen[d]
  BY DEF Start, TypeOK
<1> QED BY <1>1, <1>2, <1>3, <1>4, <1>5 DEF Start, cache

LEMMA StopEffect ==
  ASSUME TypeOK, NEW c \in Tabs, Stop(c)
  PROVE  /\ OthersKept(c) /\ stream'[c] = Idle /\ stream'[c].pc = "idle"
         /\ stream'[c].version = 0 /\ stream'[c].seenVersion = 0
         /\ stream'[c].query = NoRecord /\ stream'[c].batch = <<>>
         /\ lock' = (IF lock = c THEN Free ELSE lock)
         /\ UNCHANGED <<log, cursor, seen, kept, fresh, used>>
BY DEF Stop, Release, TypeOK, OthersKept, Idle

LEMMA ReuseEffect ==
  ASSUME TypeOK, PagesRun, NEW c \in Tabs, ReusePage(c)
  PROVE  /\ OthersKept(c) /\ stream[c].pc = "acquire" /\ ~Stale(stream[c])
         /\ SameStart(stream'[c], stream[c]) /\ stream'[c].pc = "replay"
         /\ stream'[c].query = record /\ stream'[c].batch = <<>>
         /\ stream'[c].numSeen
              = (IF record.version # stream[c].seenVersion THEN 0 ELSE stream[c].numSeen)
         /\ UseLock => lock = Free
         /\ UNCHANGED <<log, record, cached, lock, cursor, seen, kept, fresh, used>>
<1> DEFINE z == Renumbered(stream[c])  y == [z EXCEPT !.pc = "replay", !.query = record]
<1>1. stream' = [stream EXCEPT ![c] = y] /\ stream[c].pc = "acquire"
  BY DEF ReusePage, AtWork
<1>2. z \in StreamType /\ z.batch = <<>> /\ SameStart(z, stream[c])
      /\ z.numSeen = (IF record.version # stream[c].seenVersion THEN 0 ELSE stream[c].numSeen)
  BY <1>1, StreamFacts DEF PageRuns, SameStart
<1> HIDE DEF z
<1>3. y.pc = "replay" /\ y.query = record /\ y.batch = z.batch /\ y.numSeen = z.numSeen
      /\ SameStart(y, z)
  BY <1>2 DEF StreamType, SameStart
<1> HIDE DEF y
<1>4. stream'[c] = y /\ OthersKept(c)
  BY <1>1 DEF TypeOK, OthersKept
<1> QED BY <1>1, <1>2, <1>3, <1>4 DEF ReusePage, AtWork, cache, SameStart

LEMMA AwaitEffect ==
  ASSUME TypeOK, PagesRun, NEW c \in Tabs, AwaitRetry(c)
  PROVE  /\ OthersKept(c) /\ stream[c].pc = "acquire" /\ ~Stale(stream[c])
         /\ SameStart(stream'[c], stream[c]) /\ SamePage(stream'[c], stream[c])
         /\ stream'[c].pc = "waiting"
         /\ stream'[c].numSeen
              = (IF record.version # stream[c].seenVersion THEN 0 ELSE stream[c].numSeen)
         /\ UNCHANGED <<log, record, cached, lock, cursor, seen, kept, fresh, used>>
<1> DEFINE z == Renumbered(stream[c])  y == [z EXCEPT !.pc = "waiting"]
<1>1. stream' = [stream EXCEPT ![c] = y] /\ stream[c].pc = "acquire"
  BY DEF AwaitRetry, AtWork
<1>2. z \in StreamType /\ SamePage(z, stream[c]) /\ SameStart(z, stream[c])
      /\ z.numSeen = (IF record.version # stream[c].seenVersion THEN 0 ELSE stream[c].numSeen)
  BY <1>1, StreamFacts DEF SamePage, SameStart
<1> HIDE DEF z
<1>3. y.pc = "waiting" /\ SamePage(y, z) /\ y.numSeen = z.numSeen /\ SameStart(y, z)
  BY <1>2 DEF StreamType, SameStart, SamePage
<1> HIDE DEF y
<1>4. stream'[c] = y /\ OthersKept(c)
  BY <1>1 DEF TypeOK, OthersKept
<1> QED BY <1>1, <1>2, <1>3, <1>4 DEF AwaitRetry, cache, SameStart, SamePage

LEMMA RequestEffect ==
  ASSUME TypeOK, PagesRun, NEW c \in Tabs, Request(c)
  PROVE  /\ OthersKept(c) /\ stream[c].pc = "acquire" /\ ~Stale(stream[c])
         /\ SameStart(stream'[c], stream[c]) /\ stream'[c].pc = "fetching"
         /\ stream'[c].query = record /\ stream'[c].batch = <<>>
         /\ stream'[c].numSeen
              = (IF record.version # stream[c].seenVersion THEN 0 ELSE stream[c].numSeen)
         /\ UseLock => lock = Free /\ lock' = c
         /\ UNCHANGED <<log, record, cached, cursor, seen, kept, fresh, used>>
<1> DEFINE z == Renumbered(stream[c])  y == [z EXCEPT !.pc = "fetching", !.query = record]
<1>1. stream' = [stream EXCEPT ![c] = y] /\ stream[c].pc = "acquire"
  BY DEF Request, AtWork
<1>2. z \in StreamType /\ z.batch = <<>> /\ SameStart(z, stream[c])
      /\ z.numSeen = (IF record.version # stream[c].seenVersion THEN 0 ELSE stream[c].numSeen)
  BY <1>1, StreamFacts DEF PageRuns, SameStart
<1> HIDE DEF z
<1>3. y.pc = "fetching" /\ y.query = record /\ y.batch = z.batch /\ y.numSeen = z.numSeen
      /\ SameStart(y, z)
  BY <1>2 DEF StreamType, SameStart
<1> HIDE DEF y
<1>4. stream'[c] = y /\ OthersKept(c)
  BY <1>1 DEF TypeOK, OthersKept
<1> QED BY <1>1, <1>2, <1>3, <1>4 DEF Request, AtWork, cache, SameStart

LEMMA WakeEffect ==
  ASSUME TypeOK, NEW c \in Tabs, WakeUp(c)
  PROVE  /\ OthersKept(c) /\ stream[c].pc = "waiting" /\ stream'[c].pc = "acquire"
         /\ SameStart(stream'[c], stream[c]) /\ SamePage(stream'[c], stream[c])
         /\ stream'[c].numSeen = stream[c].numSeen
         /\ UNCHANGED <<log, record, cached, lock, cursor, seen, kept, fresh, used>>
BY DEF WakeUp, TypeOK, StreamType, OthersKept, SameStart, SamePage, cache

LEMMA AnsweredEffect ==
  ASSUME TypeOK, PagesRun, NEW c \in Tabs, Answered(c)
  PROVE  /\ OthersKept(c) /\ stream[c].pc = "fetching" /\ stream'[c].pc = "answered"
         /\ SameStart(stream'[c], stream[c]) /\ stream'[c].numSeen = stream[c].numSeen
         /\ stream'[c].query.version = stream[c].query.version
         /\ stream'[c].query.ids = stream[c].query.ids
         /\ UNCHANGED <<log, record, cached, lock, cursor, seen, kept, fresh, used>>
<1> DEFINE x == stream[c]
           page == Batch(x.query.since)
           end == x.query.since + Len(page)
           q == [x.query EXCEPT !.since = end, !.epoch = epoch,
                                !.more = end < log, !.wait = end = log]
           y == [x EXCEPT !.pc = "answered", !.batch = page, !.query = q]
<1>1. stream' = [stream EXCEPT ![c] = y] /\ x.pc = "fetching"
  BY DEF Answered
<1>2. x \in StreamType /\ x.query \in RecordType
  BY StreamFacts
<1> HIDE DEF page, end, x
<1>3. q.version = x.query.version /\ q.ids = x.query.ids
  BY <1>2 DEF RecordType
<1> HIDE DEF q
<1>4. y.pc = "answered" /\ y.query = q /\ SameStart(y, x) /\ y.numSeen = x.numSeen
  BY <1>2 DEF StreamType, SameStart
<1> HIDE DEF y
<1>5. stream'[c] = y /\ OthersKept(c)
  BY <1>1 DEF TypeOK, OthersKept
<1> QED BY <1>1, <1>3, <1>4, <1>5 DEF Answered, cache, SameStart, x

LEMMA RetryEffect ==
  ASSUME TypeOK, PagesRun, NEW c \in Tabs, CursorExpired(c),
         stream[c].firstPage /\ stream[c].version = 0
  PROVE  /\ OthersKept(c) /\ stream[c].pc = "fetching" /\ stream'[c].pc = "fetching"
         /\ SameStart(stream'[c], stream[c]) /\ stream'[c].numSeen = 0
         /\ stream'[c].query = NoRecord /\ record' = NoRecord
         /\ UNCHANGED <<log, cached, lock, cursor, seen, kept, fresh, used>>
<1> DEFINE x == stream[c]  y == [x EXCEPT !.query = NoRecord, !.numSeen = 0]
<1>1. stream' = [stream EXCEPT ![c] = y] /\ x.pc = "fetching"
  BY DEF CursorExpired
<1>2. y.pc = x.pc /\ y.query = NoRecord /\ SameStart(y, x) /\ y.numSeen = 0
  <2>1. x \in StreamType
    BY StreamFacts
  <2> HIDE DEF x
  <2> QED BY <2>1 DEF StreamType, SameStart
<1> HIDE DEF y
<1>3. stream'[c] = y /\ OthersKept(c)
  BY <1>1 DEF TypeOK, OthersKept
<1> QED BY <1>1, <1>2, <1>3 DEF CursorExpired

LEMMA CacheEffect ==
  ASSUME TypeOK, NEW c \in Tabs, CacheMessages(c)
  PROVE  /\ OthersKept(c) /\ stream[c].pc = "answered" /\ stream'[c].pc = "cached"
         /\ SameStart(stream'[c], stream[c]) /\ SamePage(stream'[c], stream[c])
         /\ stream'[c].numSeen = stream[c].numSeen
         /\ cached' = cached \cup Range(stream[c].batch)
         /\ UNCHANGED <<log, record, lock, cursor, seen, kept, fresh, used>>
BY DEF CacheMessages, TypeOK, StreamType, OthersKept, SameStart, SamePage

LEMMA WriteEffect ==
  ASSUME TypeOK, PagesRun, NEW c \in Tabs, WriteRecord(c)
  PROVE  LET q == stream[c].query IN
         /\ OthersKept(c) /\ stream[c].pc = "cached" /\ stream'[c].pc = "replay"
         /\ SameStart(stream'[c], stream[c]) /\ stream'[c].numSeen = stream[c].numSeen
         /\ stream'[c].query = record' /\ stream'[c].batch = <<>>
         /\ record'.ids = q.ids \o stream[c].batch
         /\ record'.version = (IF q.version = 0 THEN fresh.version + 1 ELSE q.version)
         /\ fresh'.version = (IF q.version = 0 THEN fresh.version + 1 ELSE fresh.version)
         /\ lock' = (IF lock = c THEN Free ELSE lock)
         /\ UNCHANGED <<log, cached, cursor, seen, kept, used>>
<1> DEFINE x == stream[c]
           version == IF x.query.version = 0 THEN fresh.version + 1 ELSE x.query.version
           r == [x.query EXCEPT !.version = version, !.ids = @ \o x.batch,
                                !.generation = fresh'.generation]
           y == [x EXCEPT !.pc = "replay", !.query = r, !.batch = <<>>]
<1>1. /\ record' = r /\ stream' = [stream EXCEPT ![c] = y] /\ x.pc = "cached"
      /\ fresh'.version = (IF x.query.version = 0 THEN version ELSE fresh.version)
  BY DEF WriteRecord, Extended
<1>2. x \in StreamType /\ x.query \in RecordType
  BY StreamFacts
<1> HIDE DEF x
<1>3. r.version = version /\ r.ids = x.query.ids \o x.batch
  BY <1>2 DEF RecordType
<1> HIDE DEF r
<1>4. y.pc = "replay" /\ y.query = r /\ y.batch = <<>> /\ SameStart(y, x)
      /\ y.numSeen = x.numSeen
  BY <1>2 DEF StreamType, SameStart
<1> HIDE DEF y
<1>5. stream'[c] = y /\ OthersKept(c)
  BY <1>1 DEF TypeOK, OthersKept
<1> QED BY <1>1, <1>3, <1>4, <1>5 DEF WriteRecord, Release, SameStart, x

LEMMA ReplayEffect ==
  ASSUME TypeOK, PagesRun, NEW c \in Tabs, Replay(c)
  PROVE  LET x == stream[c]
             all == Len(x.query.ids)
         IN
         /\ OthersKept(c) /\ x.pc = "replay" /\ all \in 0..log /\ x.numSeen \in Nat
         /\ Range(Unseen(x)) \subseteq cached
         /\ seen' = [seen EXCEPT ![c] = @ \o Unseen(x)]
         /\ seen'[c] = seen[c] \o (IF x.numSeen <= all THEN Delivery!Stretch(x.numSeen, all)
                                                        ELSE <<>>)
         /\ Delivery!Place(seen'[c])
              = (IF x.numSeen < all THEN all ELSE Delivery!Place(seen[c]))
         /\ \A d \in Tabs : d # c => seen'[d] = seen[d]
         /\ \/ /\ stream'[c].pc = "acquire" /\ stream'[c].version = x.version
               /\ stream'[c].numSeen = all /\ stream'[c].seenVersion = x.query.version
               /\ ~stream'[c].firstPage /\ stream'[c].query = NoRecord
               /\ UNCHANGED <<cursor, kept>>
            \/ /\ stream'[c] = Idle
               /\ kept' = [kept EXCEPT ![c] = seen'[c]]
               /\ cursor'[c].version = x.query.version /\ cursor'[c].numSeen = all
               /\ kept'[c] = seen'[c]
               /\ \A d \in Tabs : d # c => cursor'[d] = cursor[d] /\ kept'[d] = kept[d]
         /\ UNCHANGED <<log, record, cached, lock, fresh, used>>
<1> DEFINE x == stream[c]  all == Len(x.query.ids)
           y == [x EXCEPT !.pc = "acquire", !.firstPage = FALSE, !.numSeen = all,
                   !.seenGeneration = x.query.generation,
                   !.seenVersion = x.query.version, !.query = NoRecord]
           fits == IF x.numSeen <= all THEN Delivery!Stretch(x.numSeen, all) ELSE <<>>
<1>1. x \in StreamType /\ log \in Nat /\ seen[c] \in Seq(1..log) /\ x.pc = "replay"
  BY StreamFacts DEF Replay, TypeOK
<1>2. all \in 0..log /\ x.numSeen \in Nat /\ Unseen(x) = fits
  BY UnseenIs, <1>1
<1>3. /\ seen' = [seen EXCEPT ![c] = @ \o Unseen(x)] /\ seen'[c] = seen[c] \o Unseen(x)
      /\ \A d \in Tabs : d # c => seen'[d] = seen[d]
  BY DEF Replay, TypeOK
<1>4. Delivery!Place(seen[c] \o fits) = IF x.numSeen < all THEN all ELSE Delivery!Place(seen[c])
  <2>1. CASE x.numSeen <= all
    <3>1. all \in Nat /\ all <= log
      BY <1>1, <1>2
    <3> HIDE DEF all, x
    <3>2. Delivery!Place(seen[c] \o Delivery!Stretch(x.numSeen, all))
            = IF x.numSeen < all THEN all ELSE Delivery!Place(seen[c])
      BY <1>1, <1>2, <2>1, <3>1, PlaceAfter
    <3> QED BY <2>1, <3>2
  <2>2. CASE ~(x.numSeen <= all)
    <3>1. seen[c] \o <<>> = seen[c]
      BY <1>1, ConcatEmptySeq
    <3> QED BY <1>2, <2>2, <3>1
  <2> QED BY <2>1, <2>2
<1>5. Range(Unseen(x)) \subseteq cached /\ UNCHANGED <<log, record, cached, lock, fresh, used>>
  BY DEF Replay, cache
<1>6. seen'[c] = seen[c] \o fits
  BY <1>2, <1>3
<1>7. \/ stream' = [stream EXCEPT ![c] = y] /\ UNCHANGED <<cursor, kept>>
      \/ /\ stream' = [stream EXCEPT ![c] = Idle]
         /\ cursor' = [cursor EXCEPT ![c] = [version |-> x.query.version, numSeen |-> all]]
         /\ kept' = [kept EXCEPT ![c] = seen'[c]]
  BY DEF Replay
<1>8. /\ y.pc = "acquire" /\ y.version = x.version /\ y.numSeen = all
      /\ y.seenVersion = x.query.version /\ ~y.firstPage /\ y.query = NoRecord
  BY <1>1 DEF StreamType
<1> HIDE DEF y
<1>9. OthersKept(c) /\ stream'[c] \in {y, Idle}
  BY <1>7 DEF TypeOK, OthersKept
<1>10. CASE stream' = [stream EXCEPT ![c] = y] /\ UNCHANGED <<cursor, kept>>
  <2>1. stream'[c] = y
    BY <1>10 DEF TypeOK
  <2> QED BY <1>1, <1>2, <1>3, <1>4, <1>8, <1>9, <1>10, <1>5, <1>6, <2>1
<1>11. CASE /\ stream' = [stream EXCEPT ![c] = Idle]
           /\ cursor' = [cursor EXCEPT ![c] = [version |-> x.query.version, numSeen |-> all]]
           /\ kept' = [kept EXCEPT ![c] = seen'[c]]
  <2>1. stream'[c] = Idle /\ kept'[c] = seen'[c]
        /\ cursor'[c] = [version |-> x.query.version, numSeen |-> all]
        /\ \A d \in Tabs : d # c => cursor'[d] = cursor[d] /\ kept'[d] = kept[d]
    BY <1>11 DEF TypeOK
  <2>2. cursor'[c].version = x.query.version /\ cursor'[c].numSeen = all
    BY <2>1
  <2> QED BY <1>1, <1>2, <1>3, <1>4, <1>9, <1>11, <1>5, <1>6, <2>1, <2>2
<1> QED BY <1>7, <1>10, <1>11

LEMMA ReplayEnds ==
  ASSUME TypeOK, PagesRun, NEW c \in Tabs, Replay(c)
  PROVE  /\ OthersKept(c) /\ UNCHANGED <<log, record, cached, lock, fresh, used>>
         /\ stream[c].pc = "replay" /\ stream'[c].pc \in {"acquire", "idle"}
         /\ stream'[c].query = NoRecord
<1>1. OthersKept(c) /\ UNCHANGED <<log, record, cached, lock, fresh, used>>
      /\ stream[c].pc = "replay"
  BY ReplayEffect
<1>2. \/ stream'[c].pc = "acquire" /\ stream'[c].query = NoRecord
      \/ stream'[c] = Idle
  BY ReplayEffect
<1> QED BY <1>1, <1>2 DEF Idle

(***************************************************************************)
(* Versions are handed out by fresh, and counts never run ahead.           *)
(***************************************************************************)
LEMMA Numbers ==
  ASSUME TypeOK
  PROVE  /\ log \in Nat /\ fresh.version \in Nat /\ record.version \in Nat
         /\ Len(record.ids) \in Nat
         /\ \A c \in Tabs :
              /\ cursor[c].version \in Nat /\ cursor[c].numSeen \in Nat
              /\ stream[c].version \in Nat /\ stream[c].seenVersion \in Nat
              /\ stream[c].numSeen \in Nat /\ stream[c].query.version \in Nat
              /\ Len(stream[c].query.ids) \in Nat
              /\ seen[c] \in Seq(1..log) /\ kept[c] \in Seq(1..log)
              /\ Delivery!Place(seen[c]) \in Nat /\ Delivery!Place(kept[c]) \in Nat
<1>1. log \in Nat /\ fresh.version \in Nat /\ record \in RecordType
  BY BoundsAreNumbers DEF TypeOK
<1>2. ASSUME NEW r \in RecordType PROVE r.version \in Nat /\ Len(r.ids) \in Nat
  <2>1. r.version \in Nat /\ r.ids \in Seq(1..log)
    BY DEF RecordType
  <2> QED BY <2>1, LenProperties
<1>3. ASSUME NEW c \in Tabs
      PROVE  /\ cursor[c].version \in Nat /\ cursor[c].numSeen \in Nat
             /\ stream[c].version \in Nat /\ stream[c].seenVersion \in Nat
             /\ stream[c].numSeen \in Nat /\ stream[c].query.version \in Nat
             /\ Len(stream[c].query.ids) \in Nat
             /\ seen[c] \in Seq(1..log) /\ kept[c] \in Seq(1..log)
             /\ Delivery!Place(seen[c]) \in Nat /\ Delivery!Place(kept[c]) \in Nat
  <2>1. /\ stream[c] \in StreamType /\ cursor[c] \in [version : Nat, numSeen : Nat]
        /\ seen[c] \in Seq(1..log) /\ kept[c] \in Seq(1..log)
    BY DEF TypeOK
  <2>2. /\ stream[c].version \in Nat /\ stream[c].seenVersion \in Nat
        /\ stream[c].numSeen \in Nat /\ stream[c].query \in RecordType
    BY <2>1 DEF StreamType
  <2>3. Delivery!Place(seen[c]) \in 0..log /\ Delivery!Place(kept[c]) \in 0..log
    BY <1>1, <2>1, PlaceTyped
  <2> QED BY <1>1, <1>2, <2>1, <2>2, <2>3
<1> QED BY <1>1, <1>2, <1>3

LEMMA InitBasic == Init => VersionsAreOld /\ CountsAreCovered
BY DEF Init, VersionsAreOld, OldVersions, CountsAreCovered, Covered, Idle, NoRecord,
       NoCursor, Busy, Delivery!Place

LEMMA VersionsStep ==
  ASSUME TypeOK, PagesRun, VersionsAreOld, [Next]_vars
  PROVE  VersionsAreOld'
<1>0. /\ fresh.version \in Nat /\ record.version <= fresh.version
      /\ \A d \in Tabs : OldVersions(stream[d], cursor[d], fresh.version)
  BY Numbers DEF VersionsAreOld
<1> DEFINE Goal == /\ record'.version <= fresh'.version
                   /\ \A d \in Tabs : OldVersions(stream'[d], cursor'[d], fresh'.version)
<1> SUFFICES Goal
  BY DEF VersionsAreOld, OldVersions
<1>1. CASE UNCHANGED <<record, stream, cursor, fresh>>
  BY <1>0, <1>1
<1>2. CASE RetryAfterPasses
  BY <1>0, <1>2 DEF RetryAfterPasses, TypeOK, RecordType
<1>3. CASE ClearStorage
  BY <1>0, <1>3 DEF ClearStorage, NoRecord
<1>4. ASSUME NEW c \in Tabs, Query(c) PROVE Goal
  <2>1. Start(c, 0, 0, <<>>)
    BY <1>4 DEF Query
  <2>2. OldVersions(stream'[c], cursor'[c], fresh'.version)
    BY <1>0, <2>1, StartEffect DEF OldVersions, NoRecord
  <2> QED BY <1>0, <2>1, <2>2, StartEffect DEF OthersKept
<1>5. ASSUME NEW c \in Tabs, ContinueQuery(c) PROVE Goal
  <2>1. Start(c, cursor[c].version, cursor[c].numSeen, kept[c])
    BY <1>5 DEF ContinueQuery
  <2>2. OldVersions(stream'[c], cursor'[c], fresh'.version)
    BY <1>0, <2>1, StartEffect DEF OldVersions, NoRecord
  <2> QED BY <1>0, <2>1, <2>2, StartEffect DEF OthersKept
<1>6. ASSUME NEW c \in Tabs, Stop(c), record' \in {record, NoRecord} PROVE Goal
  <2>1. OldVersions(stream'[c], cursor'[c], fresh'.version)
    BY <1>0, <1>6, StopEffect DEF OldVersions, NoRecord
  <2> QED BY <1>0, <1>6, <2>1, StopEffect DEF OthersKept, NoRecord
<1>7. ASSUME NEW c \in Tabs, ReusePage(c) \/ Request(c) PROVE Goal
  <2>1. OldVersions(stream'[c], cursor'[c], fresh'.version)
    BY <1>0, <1>7, ReuseEffect, RequestEffect DEF OldVersions, SameStart
  <2> QED BY <1>0, <1>7, <2>1, ReuseEffect, RequestEffect DEF OthersKept
<1>8. ASSUME NEW c \in Tabs, AwaitRetry(c) \/ WakeUp(c) \/ CacheMessages(c) PROVE Goal
  <2>1. OldVersions(stream'[c], cursor'[c], fresh'.version)
    BY <1>0, <1>8, AwaitEffect, WakeEffect, CacheEffect DEF OldVersions, SameStart, SamePage
  <2> QED BY <1>0, <1>8, <2>1, AwaitEffect, WakeEffect, CacheEffect DEF OthersKept
<1>9. ASSUME NEW c \in Tabs, Answered(c) PROVE Goal
  <2>1. OldVersions(stream'[c], cursor'[c], fresh'.version)
    BY <1>0, <1>9, AnsweredEffect DEF OldVersions, SameStart
  <2> QED BY <1>0, <1>9, <2>1, AnsweredEffect DEF OthersKept
<1>10. ASSUME NEW c \in Tabs, CursorExpired(c) PROVE Goal
  <2>1. CASE stream[c].firstPage /\ stream[c].version = 0
    <3>1. OldVersions(stream'[c], cursor'[c], fresh'.version)
      BY <1>0, <1>10, <2>1, RetryEffect DEF OldVersions, SameStart, NoRecord
    <3> QED BY <1>0, <1>10, <2>1, <3>1, RetryEffect DEF OthersKept, NoRecord
  <2>2. CASE ~(stream[c].firstPage /\ stream[c].version = 0)
    BY <1>6, <1>10, <2>2 DEF CursorExpired
  <2> QED BY <2>1, <2>2
<1>11. ASSUME NEW c \in Tabs, WriteRecord(c) PROVE Goal
  <2>1. /\ fresh.version <= fresh'.version /\ record'.version <= fresh'.version
        /\ fresh'.version \in Nat
    <3>1. /\ record'.version = (IF stream[c].query.version = 0 THEN fresh.version + 1
                                                              ELSE stream[c].query.version)
          /\ fresh'.version = (IF stream[c].query.version = 0 THEN fresh.version + 1
                                                             ELSE fresh.version)
      BY <1>11, WriteEffect
    <3>2. stream[c].query.version <= fresh.version /\ stream[c].query.version \in Nat
      BY <1>0, Numbers DEF OldVersions
    <3> QED BY <1>0, <3>1, <3>2
  <2>2. \A d \in Tabs : OldVersions(stream[d], cursor[d], fresh'.version)
    <3> SUFFICES ASSUME NEW d \in Tabs PROVE OldVersions(stream[d], cursor[d], fresh'.version)
      OBVIOUS
    <3>1. /\ stream[d].version \in Nat /\ stream[d].seenVersion \in Nat
          /\ stream[d].query.version \in Nat /\ cursor[d].version \in Nat
      BY Numbers
    <3> QED BY <1>0, <2>1, <3>1 DEF OldVersions
  <2>3. OldVersions(stream'[c], cursor'[c], fresh'.version)
    <3>1. /\ SameStart(stream'[c], stream[c]) /\ cursor' = cursor
          /\ stream'[c].query = record'
      BY <1>11, WriteEffect
    <3>2. OldVersions(stream[c], cursor[c], fresh'.version)
      BY <2>2
    <3> QED BY <2>1, <3>1, <3>2 DEF OldVersions, SameStart
  <2> QED BY <1>11, <2>1, <2>2, <2>3, WriteEffect DEF OthersKept
<1>12. ASSUME NEW c \in Tabs, Replay(c) PROVE Goal
  <2>0. stream[c].query.version # 0
    BY <1>12, StreamFacts DEF Replay, PageRuns
  <2>4. \/ /\ stream'[c].version = stream[c].version /\ cursor' = cursor
           /\ stream'[c].seenVersion = stream[c].query.version
           /\ stream'[c].query = NoRecord
        \/ stream'[c] = Idle /\ cursor'[c].version = stream[c].query.version
    BY <1>12, ReplayEffect
  <2>1. OldVersions(stream'[c], cursor'[c], fresh'.version)
    <3>1. OldVersions(stream[c], cursor[c], fresh.version) /\ fresh' = fresh
      BY <1>0, <1>12, ReplayEffect
    <3> QED BY <1>0, <2>0, <2>4, <3>1 DEF OldVersions, NoRecord, Idle
  <2>2. \A d \in Tabs : d # c => stream'[d] = stream[d] /\ cursor'[d] = cursor[d]
    BY <1>12, ReplayEffect DEF OthersKept
  <2>3. record' = record /\ fresh' = fresh
    BY <1>12, ReplayEffect
  <2> QED BY <1>0, <2>1, <2>2, <2>3
<1> HIDE DEF Goal
<1> QED BY <1>1, <1>2, <1>3, <1>4, <1>5, <1>6, <1>7, <1>8, <1>9, <1>10, <1>11, <1>12
        DEF Next, Work, Go, Arrive, Expire, ReportStale, RequestFails, Close, OutOfSync,
            vars, cache

\* A count and the place it stands for, at the start of a stream.
LEMMA CoveredStep ==
  ASSUME TypeOK, PagesRun, VersionsAreOld, CountsAreCovered, [Next]_vars
  PROVE  CountsAreCovered'
<1> DEFINE Of(x, k, s, t) == Covered(x, s) /\ k.numSeen <= Delivery!Place(t)
           Goal == \A d \in Tabs : Of(stream'[d], cursor'[d], seen'[d], kept'[d])
<1>0. \A d \in Tabs : Of(stream[d], cursor[d], seen[d], kept[d])
  BY DEF CountsAreCovered
<1> SUFFICES Goal
  BY DEF CountsAreCovered, Covered, Busy, Delivery!Place
<1>1. CASE UNCHANGED <<stream, cursor, seen, kept>>
  BY <1>0, <1>1
<1>2. ASSUME NEW c \in Tabs, Query(c) PROVE Goal
  <2>1. Start(c, 0, 0, <<>>)
    BY <1>2 DEF Query
  <2>2. Of(stream'[c], cursor'[c], seen'[c], kept'[c])
    BY <1>0, <2>1, StartEffect DEF Covered, Delivery!Place
  <2> QED BY <1>0, <2>1, <2>2, StartEffect DEF OthersKept
<1>3. ASSUME NEW c \in Tabs, ContinueQuery(c) PROVE Goal
  <2>1. Start(c, cursor[c].version, cursor[c].numSeen, kept[c])
    BY <1>3 DEF ContinueQuery
  <2>2. cursor[c].version # 0
    BY <1>3 DEF ContinueQuery, VersionsAreOld, OldVersions, TypeOK, NoCursor
  <2>3. Of(stream'[c], cursor'[c], seen'[c], kept'[c])
    BY <1>0, <2>1, <2>2, StartEffect DEF Covered
  <2> QED BY <1>0, <2>1, <2>3, StartEffect DEF OthersKept
<1>4. ASSUME NEW c \in Tabs, Stop(c) PROVE Goal
  <2>1. Of(stream'[c], cursor'[c], seen'[c], kept'[c])
    BY <1>0, <1>4, StopEffect DEF Covered, Busy
  <2> QED BY <1>0, <1>4, <2>1, StopEffect DEF OthersKept
<1>5. ASSUME NEW c \in Tabs, UNCHANGED <<cursor, seen, kept>>, OthersKept(c),
             Busy(stream[c]), SameStart(stream'[c], stream[c]),
             stream'[c].numSeen \in {0, stream[c].numSeen}
      PROVE  Goal
  <2>1. Delivery!Place(seen[c]) \in Nat
    BY Numbers
  <2>2. Of(stream'[c], cursor'[c], seen'[c], kept'[c])
    BY <1>0, <1>5, <2>1 DEF Covered, SameStart
  <2> QED BY <1>0, <1>5, <2>2 DEF OthersKept
<1>6. ASSUME NEW c \in Tabs, CursorExpired(c) PROVE Goal
  <2>1. CASE stream[c].firstPage /\ stream[c].version = 0
    BY <1>5, <1>6, <2>1, RetryEffect DEF Busy
  <2>2. CASE ~(stream[c].firstPage /\ stream[c].version = 0)
    BY <1>4, <1>6, <2>2 DEF CursorExpired
  <2> QED BY <2>1, <2>2
<1>7. ASSUME NEW c \in Tabs, Replay(c) PROVE Goal
  <2> DEFINE all == Len(stream[c].query.ids)
  <2>0. stream[c].query.version # 0
    BY <1>7, StreamFacts DEF Replay, PageRuns
  <2>1. all \in Nat /\ stream[c].numSeen \in Nat /\ Delivery!Place(seen[c]) \in Nat
    BY Numbers
  <2>2. stream[c].numSeen <= Delivery!Place(seen[c])
    BY <1>0, <1>7, ReplayEffect DEF Covered, Busy
  <2>3. all <= Delivery!Place(seen'[c])
    <3>1. Delivery!Place(seen'[c]) = (IF stream[c].numSeen < all THEN all
                                                               ELSE Delivery!Place(seen[c]))
      BY <1>7, ReplayEffect
    <3> HIDE DEF all
    <3> QED BY <2>1, <2>2, <3>1
  <2>4. Of(stream'[c], cursor'[c], seen'[c], kept'[c])
    <3>1. \/ /\ stream'[c].numSeen = all /\ ~stream'[c].firstPage
             /\ stream'[c].seenVersion = stream[c].query.version
             /\ UNCHANGED <<cursor, kept>>
          \/ /\ stream'[c] = Idle /\ cursor'[c].numSeen = all /\ kept'[c] = seen'[c]
      BY <1>7, ReplayEffect
    <3> HIDE DEF all
    <3>2. Idle.pc = "idle"
      BY DEF Idle
    <3>3. CASE stream'[c] = Idle /\ cursor'[c].numSeen = all /\ kept'[c] = seen'[c]
      BY <2>3, <3>2, <3>3 DEF Covered, Busy
    <3>4. CASE /\ stream'[c].numSeen = all /\ ~stream'[c].firstPage
               /\ stream'[c].seenVersion = stream[c].query.version
               /\ UNCHANGED <<cursor, kept>>
      BY <1>0, <2>0, <2>3, <3>4 DEF Covered, Busy
    <3> QED BY <3>1, <3>3, <3>4
  <2>5. \A d \in Tabs : d # c => /\ stream'[d] = stream[d] /\ cursor'[d] = cursor[d]
                                 /\ seen'[d] = seen[d] /\ kept'[d] = kept[d]
    BY <1>7, ReplayEffect DEF OthersKept
  <2> QED BY <1>0, <2>4, <2>5
<1> HIDE DEF Goal
<1>8. ASSUME NEW c \in Tabs, ReusePage(c) \/ AwaitRetry(c) \/ Request(c) PROVE Goal
  BY <1>5, <1>8, ReuseEffect, AwaitEffect, RequestEffect DEF Busy
<1>9. ASSUME NEW c \in Tabs, WakeUp(c) \/ Answered(c) \/ CacheMessages(c) \/ WriteRecord(c)
      PROVE Goal
  BY <1>5, <1>9, WakeEffect, AnsweredEffect, CacheEffect, WriteEffect DEF Busy
<1> QED BY <1>1, <1>2, <1>3, <1>4, <1>6, <1>7, <1>8, <1>9
        DEF Next, Work, Go, Arrive, Expire, RetryAfterPasses, ClearStorage, ReportStale,
            RequestFails, Close, OutOfSync, vars, cache

(***************************************************************************)
(* What holds as long as the cache is in order.                            *)
(***************************************************************************)
\* A page never lacks a message, so nobody deletes the record of another.
LEMMA UnseenIsListed ==
  ASSUME TypeOK, NEW c \in Tabs
  PROVE  Range(Unseen(stream[c])) \subseteq Range(stream[c].query.ids)
<1> DEFINE ids == stream[c].query.ids  k == stream[c].numSeen
<1>1. ids \in Seq(1..log) /\ k \in Nat /\ Len(ids) \in Nat
  <2>1. stream[c] \in StreamType
    BY DEF TypeOK
  <2>2. ids \in Seq(1..log) /\ k \in Nat
    BY <2>1 DEF StreamType, RecordType
  <2> QED BY <2>2, LenProperties
<1>2. DOMAIN ids = 1..Len(ids)
  BY <1>1, LenProperties
<1> HIDE DEF ids, k
<1>3. Unseen(stream[c]) = SubSeq(ids, k + 1, Len(ids))
  BY DEF Unseen, ids, k
<1>4. CASE k + 1 > Len(ids)
  <2>1. Unseen(stream[c]) = <<>>
    BY <1>1, <1>3, <1>4, SubSeqEmpty
  <2> QED BY <2>1 DEF Range
<1>5. CASE ~(k + 1 > Len(ids))
  <2> DEFINE u == SubSeq(ids, k + 1, Len(ids))
  <2>1. \A i \in k + 1 .. Len(ids) : ids[i] \in Range(ids)
    BY <1>1, <1>2 DEF Range
  <2>2. u \in Seq(Range(ids))
    <3>1. k + 1 \in Int /\ Len(ids) \in Int
      BY <1>1
    <3> HIDE DEF u
    <3> QED BY <2>1, <3>1, SubSeqProperties, Zenon DEF u
  <2> HIDE DEF u
  <2>3. u \in [1..Len(u) -> Range(ids)]
    BY <2>2, LenProperties
  <2>4. Range(u) \subseteq Range(ids)
    BY <2>3 DEF Range
  <2> QED BY <1>3, <2>4 DEF u, ids
<1> QED BY <1>4, <1>5

\* The steps there are until the storage is cleared, by what they do to it.
World == /\ UNCHANGED <<cached, lock, stream, cursor, seen, kept, fresh>>
         /\ record'.version = record.version /\ record'.ids = record.ids
StopAt(c) == /\ Stop(c) /\ cached' = cached
             /\ record' = record \/ (record' = NoRecord /\ Working(stream[c]))
Retry(c) == CursorExpired(c) /\ stream[c].firstPage /\ stream[c].version = 0

LEMMA UnclearedSteps ==
  ASSUME Basics, Uncleared', [Next]_vars
  PROVE  /\ Uncleared
         /\ \/ World
            \/ \E c \in Tabs :
                 \/ Query(c) \/ ContinueQuery(c) \/ StopAt(c) \/ Retry(c)
                 \/ ReusePage(c) \/ AwaitRetry(c) \/ Request(c) \/ WakeUp(c)
                 \/ Answered(c) \/ CacheMessages(c) \/ WriteRecord(c) \/ Replay(c)
<1>0. TypeOK /\ PagesRun /\ used \in [starts : Nat, clears : Nat]
  BY DEF Basics, TypeOK
<1>1. ~ClearStorage
  <2>1. ASSUME ClearStorage PROVE used'.clears # 0
    BY <1>0, <2>1 DEF ClearStorage
  <2> QED BY <2>1 DEF Uncleared
<1>2. Uncleared
  <2>1. CASE UNCHANGED used
    BY <2>1 DEF Uncleared
  <2>2. ASSUME NEW c \in Tabs, NEW version, NEW numSeen, NEW yielded,
               Start(c, version, numSeen, yielded)
        PROVE  Uncleared
    BY <1>0, <2>2, StartEffect DEF Uncleared
  <2> QED BY <1>1, <2>1, <2>2
          DEF Next, Arrive, Expire, RetryAfterPasses, Query, ContinueQuery, Work, Go,
              ReportStale, ReusePage, AwaitRetry, Request, WakeUp, Answered, CursorExpired,
              RequestFails, CacheMessages, WriteRecord, Replay, OutOfSync, Close, Stop, vars
<1>3. ASSUME NEW c \in Tabs PROVE ~OutOfSync(c)
  BY <1>0, <1>2, UnseenIsListed DEF OutOfSync, Basics, AllBacked, Backed
<1>4. CASE RetryAfterPasses
  <2>1. World
    BY <1>0, <1>4 DEF RetryAfterPasses, World, TypeOK, RecordType
  <2> QED BY <1>2, <2>1
<1>5. CASE Arrive \/ Expire \/ UNCHANGED vars
  BY <1>2, <1>5 DEF Arrive, Expire, vars, cache, World
<1>6. ASSUME NEW c \in Tabs, ReportStale(c) \/ RequestFails(c) \/ Close(c) PROVE StopAt(c)
  BY <1>6 DEF ReportStale, RequestFails, Close, StopAt, cache
<1>7. ASSUME NEW c \in Tabs, CursorExpired(c) PROVE StopAt(c) \/ Retry(c)
  BY <1>7 DEF CursorExpired, StopAt, Retry, Working
<1> QED BY <1>1, <1>2, <1>3, <1>4, <1>5, <1>6, <1>7 DEF Next, Work, Go

LEMMA OrderlySteps ==
  ASSUME Basics, InOrder => Order, InOrder', [Next]_vars
  PROVE  /\ InOrder
         /\ \/ World
            \/ \E c \in Tabs :
                 \/ Query(c) \/ ContinueQuery(c) \/ StopAt(c) \/ Retry(c)
                 \/ ReusePage(c) \/ AwaitRetry(c) \/ Request(c) \/ WakeUp(c)
                 \/ Answered(c) \/ CacheMessages(c) \/ WriteRecord(c) \/ Replay(c)
BY UnclearedSteps DEF InOrder

\* While a tab works, the others do not.
LEMMA WorksFacts ==
  ASSUME OneWorks, NEW c \in Tabs, Working(stream[c])
  PROVE  /\ lock = c /\ stream[c].query.version = record.version
         /\ stream[c].query.ids = record.ids
         /\ \A d \in Tabs : d # c => ~Working(stream[d])
BY DEF OneWorks, WorksAlone

LEMMA OneWorksStep ==
  ASSUME Basics, InOrder => Order, InOrder', [Next]_vars
  PROVE  OneWorks'
<1>0. TypeOK /\ PagesRun /\ UseLock /\ OneWorks
  BY OrderlySteps DEF Basics, Order, InOrder
<1> SUFFICES ASSUME NEW d \in Tabs PROVE WorksAlone(d)'
  BY DEF OneWorks
<1>a. WorksAlone(d)
  BY <1>0 DEF OneWorks
<1>1. CASE World
  BY <1>a, <1>1 DEF World, WorksAlone
<1>2. ASSUME NEW c \in Tabs, Query(c) \/ ContinueQuery(c) PROVE WorksAlone(d)'
  <2>1. PICK version, numSeen, yielded : Start(c, version, numSeen, yielded)
    BY <1>2 DEF Query, ContinueQuery
  <2> QED BY <1>0, <1>a, <2>1, StartEffect DEF WorksAlone, Working, OthersKept
<1>3. ASSUME NEW c \in Tabs, StopAt(c) PROVE WorksAlone(d)'
  <2>1. CASE d = c
    BY <1>0, <1>3, <2>1, StopEffect DEF StopAt, WorksAlone, Working
  <2>2. CASE d # c
    <3>1. Working(stream[d]) => record' = record
      BY <1>0, <1>3, <2>2, WorksFacts DEF StopAt
    <3> QED BY <1>0, <1>3, <1>a, <2>2, <3>1, StopEffect DEF StopAt, WorksAlone, OthersKept
  <2> QED BY <2>1, <2>2
<1>4. ASSUME NEW c \in Tabs, Retry(c) PROVE WorksAlone(d)'
  <2>1. Working(stream[c])
    BY <1>4 DEF Retry, CursorExpired, Working
  <2>2. CASE d = c
    BY <1>0, <1>4, <2>1, <2>2, WorksFacts, RetryEffect DEF Retry, WorksAlone
  <2>3. CASE d # c
    BY <1>0, <1>4, <2>1, <2>3, WorksFacts, RetryEffect DEF Retry, WorksAlone, OthersKept
  <2> QED BY <2>2, <2>3
<1>5. ASSUME NEW c \in Tabs, ReusePage(c) PROVE WorksAlone(d)'
  BY <1>0, <1>5, <1>a, ReuseEffect DEF WorksAlone, Working, OthersKept
<1>6. ASSUME NEW c \in Tabs, AwaitRetry(c) \/ WakeUp(c) PROVE WorksAlone(d)'
  BY <1>0, <1>6, <1>a, AwaitEffect, WakeEffect DEF WorksAlone, Working, OthersKept
<1>7. ASSUME NEW c \in Tabs, Request(c) PROVE WorksAlone(d)'
  <2>1. lock = Free /\ lock' = c
    BY <1>0, <1>7, RequestEffect
  <2>2. ~Working(stream[d])
    BY <1>a, <2>1, FreeIsNoTab DEF WorksAlone
  <2> QED BY <1>0, <1>7, <2>1, <2>2, RequestEffect DEF WorksAlone, OthersKept
<1>8. ASSUME NEW c \in Tabs, Answered(c) \/ CacheMessages(c) PROVE WorksAlone(d)'
  <2>1. CASE d = c
    BY <1>0, <1>8, <1>a, <2>1, AnsweredEffect, CacheEffect DEF WorksAlone, Working, SamePage
  <2>2. CASE d # c
    BY <1>0, <1>8, <1>a, <2>2, AnsweredEffect, CacheEffect DEF WorksAlone, OthersKept
  <2> QED BY <2>1, <2>2
<1>9. ASSUME NEW c \in Tabs, WriteRecord(c) PROVE WorksAlone(d)'
  <2>1. Working(stream[c])
    BY <1>9 DEF WriteRecord, Working
  <2>2. ~Working(stream[d])'
    BY <1>0, <1>9, <2>1, WorksFacts, WriteEffect DEF Working, OthersKept
  <2> QED BY <2>2 DEF WorksAlone
<1>10. ASSUME NEW c \in Tabs, Replay(c) PROVE WorksAlone(d)'
  <2>1. OthersKept(c) /\ ~Working(stream'[c]) /\ lock' = lock /\ record' = record
    BY <1>0, <1>10, ReplayEnds DEF Working
  <2> QED BY <1>a, <2>1 DEF WorksAlone, OthersKept
<1> QED BY OrderlySteps, <1>1, <1>2, <1>3, <1>4, <1>5, <1>6, <1>7, <1>8, <1>9, <1>10

LEMMA BackedStep ==
  ASSUME Basics, Uncleared', [Next]_vars
  PROVE  AllBacked'
<1>0. TypeOK /\ PagesRun /\ AllBacked
  BY UnclearedSteps DEF Basics
<1>a. Range(<<>>) = {}
  BY DEF Range
<1> DEFINE Goal == Range(record'.ids) \subseteq cached' /\ \A d \in Tabs : Backed(d)'
<1> SUFFICES Goal
  BY DEF AllBacked
<1>b. Range(record.ids) \subseteq cached /\ \A d \in Tabs : Backed(d)
  BY <1>0 DEF AllBacked
\* Steps after which every stream is backed as it was, or by the record.
<1>c. ASSUME NEW c \in Tabs, OthersKept(c), cached' = cached,
             record'.ids \in {record.ids, <<>>},
             stream'[c].query.ids \in {<<>>, record.ids, stream[c].query.ids},
             stream'[c].pc # "cached"
      PROVE  Goal
  <2>1. \A d \in Tabs : Backed(d)'
    BY <1>a, <1>b, <1>c DEF Backed, OthersKept
  <2>2. Range(record'.ids) \subseteq cached'
    BY <1>a, <1>b, <1>c
  <2> QED BY <2>1, <2>2
<1>1. CASE World
  <2>1. \A d \in Tabs : Backed(d)'
    BY <1>b, <1>1 DEF World, Backed
  <2> QED BY <1>b, <1>1, <2>1 DEF World
<1>2. ASSUME NEW c \in Tabs, Query(c) \/ ContinueQuery(c) PROVE Goal
  <2>1. PICK version, numSeen, yielded : Start(c, version, numSeen, yielded)
    BY <1>2 DEF Query, ContinueQuery
  <2> QED BY <1>0, <1>c, <2>1, StartEffect DEF NoRecord
<1>3. ASSUME NEW c \in Tabs, StopAt(c) PROVE Goal
  BY <1>0, <1>c, <1>3, StopEffect DEF StopAt, NoRecord
<1>4. ASSUME NEW c \in Tabs, Retry(c) PROVE Goal
  BY <1>0, <1>c, <1>4, RetryEffect DEF Retry, NoRecord
<1>5. ASSUME NEW c \in Tabs, ReusePage(c) \/ Request(c) PROVE Goal
  BY <1>0, <1>c, <1>5, ReuseEffect, RequestEffect
<1>6. ASSUME NEW c \in Tabs, AwaitRetry(c) \/ WakeUp(c) PROVE Goal
  BY <1>0, <1>c, <1>6, AwaitEffect, WakeEffect DEF SamePage
<1>7. ASSUME NEW c \in Tabs, Answered(c) PROVE Goal
  BY <1>0, <1>c, <1>7, AnsweredEffect
<1>8. ASSUME NEW c \in Tabs, CacheMessages(c) PROVE Goal
  <2>1. /\ cached' = cached \cup Range(stream[c].batch) /\ record' = record
        /\ SamePage(stream'[c], stream[c]) /\ OthersKept(c)
    BY <1>0, <1>8, CacheEffect
  <2>2. \A d \in Tabs : Backed(d)'
    BY <1>b, <2>1 DEF Backed, OthersKept, SamePage
  <2> QED BY <1>b, <2>1, <2>2
<1>9. ASSUME NEW c \in Tabs, WriteRecord(c) PROVE Goal
  <2> DEFINE ids == stream[c].query.ids  batch == stream[c].batch
  <2>1. /\ cached' = cached /\ OthersKept(c) /\ record'.ids = ids \o batch
        /\ stream'[c].query = record' /\ stream'[c].pc = "replay" /\ stream[c].pc = "cached"
    BY <1>0, <1>9, WriteEffect
  <2>2. Range(ids) \subseteq cached /\ Range(batch) \subseteq cached
    BY <1>b, <2>1 DEF Backed
  <2>3. ids \in Seq(cached) /\ batch \in Seq(cached)
    <3>1. ids \in Seq(1..log) /\ batch \in Seq(1..log)
      BY <1>0 DEF TypeOK, StreamType, RecordType
    <3> HIDE DEF ids, batch
    <3>2. ids \in [1..Len(ids) -> 1..log] /\ batch \in [1..Len(batch) -> 1..log]
          /\ Len(ids) \in Nat /\ Len(batch) \in Nat
      BY <3>1, LenProperties
    <3>3. ids \in [1..Len(ids) -> cached] /\ batch \in [1..Len(batch) -> cached]
      BY <2>2, <3>2 DEF Range
    <3> QED BY <3>2, <3>3, SeqDef
  <2> HIDE DEF ids, batch
  <2>4. ids \o batch \in Seq(cached)
    BY <2>3, ConcatProperties
  <2>5. Range(ids \o batch) \subseteq cached
    <3>1. ids \o batch \in [1..Len(ids \o batch) -> cached]
      BY <2>4, LenProperties
    <3> QED BY <3>1 DEF Range
  <2>6. \A d \in Tabs : Backed(d)'
    BY <1>b, <2>1, <2>5 DEF Backed, OthersKept
  <2> QED BY <2>1, <2>5, <2>6
<1>10. ASSUME NEW c \in Tabs, Replay(c) PROVE Goal
  <2>1. /\ OthersKept(c) /\ cached' = cached /\ record' = record
        /\ stream'[c].query = NoRecord /\ stream'[c].pc # "cached"
    BY <1>0, <1>10, ReplayEnds
  <2> QED BY <1>c, <2>1 DEF NoRecord
<1> HIDE DEF Goal
<1> QED BY UnclearedSteps, <1>1, <1>2, <1>3, <1>4, <1>5, <1>6, <1>7, <1>8, <1>9, <1>10

LEMMA DeadStep ==
  ASSUME Basics, InOrder => Order, InOrder', [Next]_vars
  PROVE  DeadStayDead'
<1>0. TypeOK /\ PagesRun /\ VersionsAreOld /\ OneWorks /\ DeadStayDead
  BY OrderlySteps DEF Basics, Order
<1> SUFFICES ASSUME NEW d \in Tabs PROVE StaysDead(d)'
  BY DEF DeadStayDead
<1>a. StaysDead(d)
  BY <1>0 DEF DeadStayDead
\* Steps of another tab that leave the record or delete it.
<1>b. ASSUME NEW c \in Tabs, OthersKept(c), d # c,
             record'.version \in {0, record.version}
      PROVE  StaysDead(d)'
  BY <1>a, <1>b DEF StaysDead, OthersKept
<1>1. CASE World
  BY <1>a, <1>1 DEF World, StaysDead
<1>2. ASSUME NEW c \in Tabs, Query(c) \/ ContinueQuery(c) PROVE StaysDead(d)'
  <2>1. PICK version, numSeen, yielded : Start(c, version, numSeen, yielded)
    BY <1>2 DEF Query, ContinueQuery
  <2>2. CASE d = c
    BY <1>0, <2>1, <2>2, StartEffect DEF StaysDead, Working
  <2>3. CASE d # c
    BY <1>0, <1>b, <2>1, <2>3, StartEffect
  <2> QED BY <2>2, <2>3
<1>3. ASSUME NEW c \in Tabs, StopAt(c) PROVE StaysDead(d)'
  <2>1. CASE d = c
    BY <1>0, <1>3, <2>1, StopEffect DEF StopAt, StaysDead, Working, Busy
  <2>2. CASE d # c
    BY <1>0, <1>3, <1>b, <2>2, StopEffect DEF StopAt, NoRecord
  <2> QED BY <2>1, <2>2
<1>4. ASSUME NEW c \in Tabs, Retry(c) PROVE StaysDead(d)'
  <2>1. CASE d = c
    BY <1>0, <1>4, <2>1, RetryEffect DEF Retry, StaysDead, SameStart
  <2>2. CASE d # c
    BY <1>0, <1>4, <1>b, <2>2, RetryEffect DEF Retry, NoRecord
  <2> QED BY <2>1, <2>2
<1>5. ASSUME NEW c \in Tabs, ReusePage(c) \/ Request(c) PROVE StaysDead(d)'
  <2>1. CASE d = c
    <3>1. /\ stream'[c].query = record /\ SameStart(stream'[c], stream[c])
          /\ record' = record /\ ~Stale(stream[c]) /\ stream[c].pc = "acquire"
      BY <1>0, <1>5, ReuseEffect, RequestEffect
    <3> QED BY <1>a, <2>1, <3>1 DEF StaysDead, SameStart, Stale, Busy
  <2>2. CASE d # c
    BY <1>0, <1>5, <1>b, <2>2, ReuseEffect, RequestEffect
  <2> QED BY <2>1, <2>2
<1>6. ASSUME NEW c \in Tabs, AwaitRetry(c) \/ WakeUp(c) \/ CacheMessages(c)
      PROVE  StaysDead(d)'
  <2>1. CASE d = c
    BY <1>0, <1>6, <1>a, <2>1, AwaitEffect, WakeEffect, CacheEffect
       DEF StaysDead, SameStart, SamePage, Working, Busy
  <2>2. CASE d # c
    BY <1>0, <1>6, <1>b, <2>2, AwaitEffect, WakeEffect, CacheEffect
  <2> QED BY <2>1, <2>2
<1>7. ASSUME NEW c \in Tabs, Answered(c) PROVE StaysDead(d)'
  <2>1. CASE d = c
    BY <1>0, <1>7, <1>a, <2>1, AnsweredEffect DEF StaysDead, SameStart, Working, Busy
  <2>2. CASE d # c
    BY <1>0, <1>7, <1>b, <2>2, AnsweredEffect
  <2> QED BY <2>1, <2>2
<1>8. ASSUME NEW c \in Tabs, WriteRecord(c) PROVE StaysDead(d)'
  <2>0. Working(stream[c]) /\ Busy(stream[c])
    BY <1>8 DEF WriteRecord, Working, Busy
  <2>1. /\ OthersKept(c) /\ stream'[c].query = record' /\ SameStart(stream'[c], stream[c])
        /\ record'.version = IF stream[c].query.version = 0 THEN fresh.version + 1
                                                             ELSE stream[c].query.version
    BY <1>0, <1>8, WriteEffect
  <2>2. stream[c].query.version = record.version
    BY <1>0, <2>0, WorksFacts
  <2>3. stream[d].version \in Nat /\ stream[d].version <= fresh.version
        /\ fresh.version \in Nat
    <3>1. /\ cursor[d].version <= fresh.version /\ stream[d].version <= fresh.version
          /\ stream[d].seenVersion <= fresh.version /\ stream[d].query.version <= fresh.version
      BY <1>0 DEF VersionsAreOld, OldVersions
    <3>2. /\ cursor[d].version \in Nat /\ stream[d].version \in Nat /\ fresh.version \in Nat
          /\ stream[d].seenVersion \in Nat /\ stream[d].query.version \in Nat
      BY <1>0, Numbers
    <3> QED BY <3>1, <3>2
  <2>4. record'.version \in {record.version, fresh.version + 1}
        /\ stream[d].version # fresh.version + 1
    BY <2>1, <2>2, <2>3
  <2>5. CASE d = c
    <3>1. stream[c].version # 0 => stream[c].query.version = stream[c].version
      BY <1>a, <2>0, <2>5 DEF StaysDead
    <3> QED BY <1>a, <2>0, <2>1, <2>2, <2>4, <2>5, <3>1 DEF StaysDead, SameStart
  <2>6. CASE d # c
    BY <1>a, <2>1, <2>4, <2>6 DEF StaysDead, OthersKept
  <2> QED BY <2>5, <2>6
<1>9. ASSUME NEW c \in Tabs, Replay(c) PROVE StaysDead(d)'
  <2>0. OthersKept(c) /\ record' = record /\ stream[c].pc = "replay"
        /\ stream'[c].pc \in {"acquire", "idle"}
    BY <1>0, <1>9, ReplayEnds
  <2>1. CASE d = c
    <3>1. \/ /\ stream'[c].version = stream[c].version
             /\ stream'[c].seenVersion = stream[c].query.version
          \/ stream'[c] = Idle
      BY <1>0, <1>9, ReplayEffect
    <3> QED BY <1>a, <2>0, <2>1, <3>1 DEF StaysDead, Working, Busy, Idle
  <2>2. CASE d # c
    BY <1>b, <2>0, <2>2
  <2> QED BY <2>1, <2>2
<1> QED BY OrderlySteps, <1>1, <1>2, <1>3, <1>4, <1>5, <1>6, <1>7, <1>8, <1>9

\* A stream that is not stale and goes on counting finds its record.
LEMMA CountFits ==
  ASSUME Basics, Order, NEW c \in Tabs, Busy(stream[c]), ~Stale(stream[c])
  PROVE  (IF record.version # stream[c].seenVersion THEN 0 ELSE stream[c].numSeen)
           <= Len(record.ids)
<1> DEFINE x == stream[c]
<1>1. /\ Len(record.ids) \in Nat /\ x.numSeen \in Nat /\ Covered(x, seen[c])
      /\ Listed(c)
  BY Numbers DEF Basics, CountsAreCovered, Order, CountsAreListed
<1>2. x.version \in {0, record.version} /\ (record.version = x.seenVersion \/ x.firstPage)
  BY DEF Stale
<1>3. CASE x.version = 0 /\ x.firstPage
  <2>1. x.numSeen <= 0
    BY <1>1, <1>3 DEF Covered, Delivery!Place
  <2> QED BY <1>1, <2>1
<1>4. CASE x.version = 0 /\ ~x.firstPage
  BY <1>1, <1>2, <1>4 DEF Covered, Listed
<1>5. CASE x.version # 0
  BY <1>1, <1>2, <1>5 DEF Listed
<1> QED BY <1>3, <1>4, <1>5

LEMMA SumIsMore ==
  \A i, j \in Nat : \A k : k = i + j => k \in Nat /\ \A n \in Nat : n <= i => n <= k
OBVIOUS

LEMMA ListedStep ==
  ASSUME Basics, InOrder => Order, InOrder', [Next]_vars
  PROVE  CountsAreListed'
<1>0. /\ TypeOK /\ PagesRun /\ VersionsAreOld /\ OneWorks /\ CountsAreListed /\ Order
      /\ DeadStayDead
  BY OrderlySteps DEF Basics, Order
<1> SUFFICES ASSUME NEW d \in Tabs PROVE Listed(d)'
  BY DEF CountsAreListed
<1>a. Listed(d) /\ Len(record.ids) \in Nat /\ record.version \in Nat
  BY <1>0, Numbers DEF CountsAreListed
\* Steps of another tab.
<1>b. ASSUME NEW c \in Tabs, OthersKept(c), d # c, cursor'[d] = cursor[d], record' = record
      PROVE  Listed(d)'
  BY <1>a, <1>b DEF Listed, OthersKept
\* A deleted record lists nothing, and nobody has counted anything of it.
<1>c. ASSUME record' = NoRecord, cursor' = cursor,
             stream'[d].pc = "replay" => stream'[d].query.version # 0,
             Working(stream'[d]) \/ stream'[d].pc = "replay"
               => stream'[d].numSeen <= Len(stream'[d].query.ids)
      PROVE  Listed(d)'
  <2>1. cursor[d].version = 0 => cursor[d].numSeen = 0
    BY <1>0 DEF VersionsAreOld, OldVersions
  <2>2. record'.version = 0 /\ Len(record'.ids) = 0
    BY <1>c DEF NoRecord
  <2> QED BY <1>c, <2>1, <2>2 DEF Listed
<1>d. stream[d].pc = "replay" => stream[d].query.version # 0
  BY <1>0 DEF PagesRun, PageRuns
<1>1. CASE World
  <2>1. record'.version = record.version /\ record'.ids = record.ids
        /\ stream' = stream /\ cursor' = cursor
    BY <1>1 DEF World
  <2> QED BY <1>a, <2>1 DEF Listed
<1>2. ASSUME NEW c \in Tabs, Query(c) PROVE Listed(d)'
  <2>1. Start(c, 0, 0, <<>>)
    BY <1>2 DEF Query
  <2>2. CASE d = c
    BY <1>0, <1>a, <2>1, <2>2, StartEffect DEF Listed, Working
  <2>3. CASE d # c
    BY <1>0, <1>b, <2>1, <2>3, StartEffect
  <2> QED BY <2>2, <2>3
<1>3. ASSUME NEW c \in Tabs, ContinueQuery(c) PROVE Listed(d)'
  <2>1. Start(c, cursor[c].version, cursor[c].numSeen, kept[c])
    BY <1>3 DEF ContinueQuery
  <2>2. CASE d = c
    BY <1>0, <1>a, <2>1, <2>2, StartEffect DEF Listed, Working
  <2>3. CASE d # c
    BY <1>0, <1>b, <2>1, <2>3, StartEffect
  <2> QED BY <2>2, <2>3
<1>4. ASSUME NEW c \in Tabs, StopAt(c) PROVE Listed(d)'
  <2>1. OthersKept(c) /\ stream'[c].pc = "idle" /\ cursor' = cursor
    BY <1>0, <1>4, StopEffect DEF StopAt
  <2>2. CASE record' = record
    <3>1. CASE d = c
      BY <1>a, <2>1, <2>2, <3>1 DEF Listed, Working, Busy
    <3> QED BY <1>b, <2>1, <2>2, <3>1
  <2>3. CASE record' = NoRecord
    BY <1>a, <1>c, <1>d, <2>1, <2>3 DEF Listed, Working, OthersKept
  <2> QED BY <1>4, <2>2, <2>3 DEF StopAt
<1>5. ASSUME NEW c \in Tabs, Retry(c) PROVE Listed(d)'
  <2>1. /\ OthersKept(c) /\ stream'[c].pc = "fetching" /\ cursor' = cursor
        /\ stream'[c].numSeen = 0 /\ stream'[c].query = NoRecord /\ record' = NoRecord
    BY <1>0, <1>5, RetryEffect DEF Retry
  <2> QED BY <1>a, <1>c, <1>d, <2>1 DEF Listed, OthersKept, NoRecord
<1>6. ASSUME NEW c \in Tabs, ReusePage(c) \/ Request(c) PROVE Listed(d)'
  <2>1. /\ stream'[c].query = record /\ record' = record /\ cursor' = cursor
        /\ stream'[c].numSeen = (IF record.version # stream[c].seenVersion THEN 0
                                                             ELSE stream[c].numSeen)
        /\ ~Stale(stream[c]) /\ stream[c].pc = "acquire" /\ OthersKept(c)
    BY <1>0, <1>6, ReuseEffect, RequestEffect
  <2>2. stream'[c].numSeen <= Len(record.ids)
    BY <1>0, <2>1, CountFits DEF Busy
  <2>3. CASE d = c
    BY <1>a, <2>1, <2>2, <2>3 DEF Listed
  <2> QED BY <1>b, <2>1, <2>3
<1>7. ASSUME NEW c \in Tabs, AwaitRetry(c) PROVE Listed(d)'
  <2>1. /\ record' = record /\ cursor' = cursor /\ OthersKept(c)
        /\ SameStart(stream'[c], stream[c])
        /\ stream'[c].numSeen = (IF record.version # stream[c].seenVersion THEN 0
                                                             ELSE stream[c].numSeen)
        /\ ~Stale(stream[c]) /\ stream[c].pc = "acquire" /\ stream'[c].pc = "waiting"
    BY <1>0, <1>7, AwaitEffect
  <2>2. stream'[c].numSeen <= Len(record.ids)
    BY <1>0, <2>1, CountFits DEF Busy
  <2>3. CASE d = c
    BY <1>a, <2>1, <2>2, <2>3 DEF Listed, Working
  <2> QED BY <1>b, <2>1, <2>3
<1>8. ASSUME NEW c \in Tabs, WakeUp(c) \/ Answered(c) \/ CacheMessages(c) PROVE Listed(d)'
  <2>1. /\ record' = record /\ cursor' = cursor /\ OthersKept(c)
        /\ SameStart(stream'[c], stream[c]) /\ stream'[c].numSeen = stream[c].numSeen
        /\ stream'[c].query.ids = stream[c].query.ids /\ Busy(stream[c])
        /\ stream'[c].pc # "replay"
        /\ Working(stream'[c]) => Working(stream[c])
    BY <1>0, <1>8, WakeEffect, AnsweredEffect, CacheEffect DEF SamePage, Busy, Working
  <2>2. CASE d = c
    BY <1>a, <2>1, <2>2 DEF Listed, SameStart
  <2> QED BY <1>b, <2>1, <2>2
<1>9. ASSUME NEW c \in Tabs, WriteRecord(c) PROVE Listed(d)'
  <2> DEFINE q == stream[c].query
  <2>0. Working(stream[c]) /\ Busy(stream[c])
    BY <1>9 DEF WriteRecord, Working, Busy
  <2>1. /\ OthersKept(c) /\ stream'[c].query = record' /\ SameStart(stream'[c], stream[c])
        /\ record'.version = (IF q.version = 0 THEN fresh.version + 1 ELSE q.version)
        /\ record'.ids = q.ids \o stream[c].batch /\ cursor' = cursor
        /\ stream'[c].numSeen = stream[c].numSeen /\ stream'[c].pc = "replay"
    BY <1>0, <1>9, WriteEffect
  <2>2. q.version = record.version /\ q.ids = record.ids
    BY <1>0, <2>0, WorksFacts
  <2>3. /\ Len(record.ids) \in Nat /\ Len(record'.ids) \in Nat
        /\ \A n \in Nat : n <= Len(record.ids) => n <= Len(record'.ids)
    <3>1. q.ids \in Seq(1..log) /\ stream[c].batch \in Seq(1..log)
      BY <1>0 DEF TypeOK, StreamType, RecordType
    <3>2. /\ Len(q.ids \o stream[c].batch) = Len(q.ids) + Len(stream[c].batch)
          /\ Len(q.ids) \in Nat /\ Len(stream[c].batch) \in Nat
      BY <3>1, ConcatProperties, LenProperties
    <3>3. Len(record'.ids) = Len(record.ids) + Len(stream[c].batch)
      BY <2>1, <2>2, <3>2, Zenon
    <3>4. Len(record.ids) \in Nat /\ Len(stream[c].batch) \in Nat
      BY <2>2, <3>2, Zenon
    <3> QED BY <3>3, <3>4, SumIsMore, Zenon
  <2>4. /\ cursor[d].version # fresh.version + 1 /\ stream[d].version # fresh.version + 1
        /\ stream[d].seenVersion # fresh.version + 1
        /\ stream[d].query.version # fresh.version + 1
        /\ fresh.version \in Nat
    <3>1. /\ cursor[d].version <= fresh.version /\ stream[d].version <= fresh.version
          /\ stream[d].seenVersion <= fresh.version /\ stream[d].query.version <= fresh.version
      BY <1>0 DEF VersionsAreOld, OldVersions
    <3>2. /\ cursor[d].version \in Nat /\ stream[d].version \in Nat /\ fresh.version \in Nat
          /\ stream[d].seenVersion \in Nat /\ stream[d].query.version \in Nat
      BY <1>0, Numbers
    <3> QED BY <3>1, <3>2
  <2>5. /\ cursor[d].numSeen \in Nat /\ stream[d].numSeen \in Nat
        /\ Len(stream[d].query.ids) \in Nat
    BY <1>0, Numbers
  <2>6. stream[c].numSeen \in Nat /\ stream[c].numSeen <= Len(record.ids)
    BY <1>0, <2>0, <2>2, Numbers DEF CountsAreListed, Listed
  <2>7. record'.version \in {record.version, fresh.version + 1}
        /\ (record'.version = record.version => record.version # 0)
    BY <1>a, <2>1, <2>2, <2>4
  <2>8. CASE d = c
    <3>1. cursor'[d].version = record'.version => cursor'[d].numSeen <= Len(record'.ids)
      <4>1. cursor'[d] = cursor[d]
        BY <2>1
      <4>2. cursor[d].version = record.version => cursor[d].numSeen <= Len(record'.ids)
        BY <1>a, <2>3, <2>5 DEF Listed
      <4> HIDE DEF q
      <4> QED BY <2>4, <2>7, <4>1, <4>2
    <3>2. stream'[d].numSeen <= Len(record'.ids) /\ stream'[d].query = record'
      <4>1. stream[d].numSeen <= Len(record'.ids)
        BY <2>3, <2>6, <2>8
      <4>2. stream'[d].numSeen = stream[d].numSeen /\ stream'[d].query = record'
        BY <2>1, <2>8
      <4> QED BY <4>1, <4>2
    <3> QED BY <2>3, <3>1, <3>2 DEF Listed
  <2>9. CASE d # c
    <3>1. stream'[d] = stream[d] /\ cursor'[d] = cursor[d]
      BY <2>1, <2>9 DEF OthersKept
    <3> QED BY <1>a, <2>3, <2>4, <2>5, <2>7, <3>1 DEF Listed
  <2> QED BY <2>8, <2>9
<1>10. ASSUME NEW c \in Tabs, Replay(c) PROVE Listed(d)'
  <2> DEFINE x == stream[c]  all == Len(x.query.ids)
  <2>0. OthersKept(c) /\ record' = record /\ x.pc = "replay"
        /\ stream'[c].pc \in {"acquire", "idle"}
    BY <1>0, <1>10, ReplayEnds
  <2>1. \/ /\ stream'[c].pc = "acquire" /\ stream'[c].version = x.version
           /\ stream'[c].numSeen = all /\ stream'[c].seenVersion = x.query.version
           /\ cursor' = cursor
        \/ /\ stream'[c].pc = "idle" /\ cursor'[c].version = x.query.version
           /\ cursor'[c].numSeen = all
    <3>1. \/ /\ stream'[c].pc = "acquire" /\ stream'[c].version = x.version
             /\ stream'[c].numSeen = all /\ stream'[c].seenVersion = x.query.version
             /\ cursor' = cursor
          \/ /\ stream'[c] = Idle /\ cursor'[c].version = x.query.version
             /\ cursor'[c].numSeen = all
      BY <1>0, <1>10, ReplayEffect
    <3> QED BY <3>1 DEF Idle
  <2>2. CASE d = c
    <3>1. record.version = x.query.version => all <= Len(record.ids)
      BY <1>a, <2>0, <2>2 DEF Listed
    <3>2. x.version # 0 => x.query.version = x.version
      BY <1>0, <2>0 DEF DeadStayDead, StaysDead
    <3> HIDE DEF all, x
    <3>3. CASE /\ stream'[c].pc = "acquire" /\ stream'[c].version = x.version
               /\ stream'[c].numSeen = all /\ stream'[c].seenVersion = x.query.version
               /\ cursor' = cursor
      BY <1>a, <2>0, <2>2, <3>1, <3>2, <3>3 DEF Listed, Working
    <3>4. CASE /\ stream'[c].pc = "idle" /\ cursor'[c].version = x.query.version
               /\ cursor'[c].numSeen = all
      BY <2>0, <2>2, <3>1, <3>4 DEF Listed, Working, Busy
    <3> QED BY <2>1, <3>3, <3>4
  <2>3. CASE d # c
    <3>1. cursor'[d] = cursor[d]
      BY <1>0, <1>10, <2>3, ReplayEffect
    <3> QED BY <1>b, <2>0, <2>3, <3>1
  <2> QED BY <2>2, <2>3
<1> QED BY OrderlySteps, <1>1, <1>2, <1>3, <1>4, <1>5, <1>6, <1>7, <1>8, <1>9, <1>10

\* A stream that starts to count anew has yielded nothing.
LEMMA CountStaysExact ==
  ASSUME Basics, Order, NEW c \in Tabs, Busy(stream[c]), ~Stale(stream[c])
  PROVE  (IF record.version # stream[c].seenVersion THEN 0 ELSE stream[c].numSeen)
           = Delivery!Place(seen[c])
<1> DEFINE x == stream[c]
<1>1. Covered(x, seen[c]) /\ Exact(c) /\ StaysDead(c)
  BY DEF Basics, CountsAreCovered, Order, CountsAreExact, DeadStayDead
<1>2. x.version \in {0, record.version} /\ (record.version = x.seenVersion \/ x.firstPage)
  BY DEF Stale
<1>3. CASE record.version = x.seenVersion
  BY <1>1, <1>3 DEF Exact
<1>4. CASE record.version # x.seenVersion
  <2>1. x.version = 0
    BY <1>1, <1>2, <1>4 DEF StaysDead
  <2>2. seen[c] = <<>>
    BY <1>1, <1>2, <1>4, <2>1 DEF Covered
  <2> QED BY <1>4, <2>2 DEF Delivery!Place
<1> QED BY <1>3, <1>4

\* In order, a stream replays from where its reader is, and to the end of its
\* record.
LEMMA ReplayIsExact ==
  ASSUME Basics, Order, NEW c \in Tabs, Replay(c)
  PROVE  /\ stream[c].numSeen = Delivery!Place(seen[c])
         /\ Delivery!Place(seen'[c]) = Len(stream[c].query.ids)
<1> DEFINE all == Len(stream[c].query.ids)
<1>1. /\ TypeOK /\ PagesRun /\ Listed(c) /\ Exact(c)
  BY DEF Basics, Order, CountsAreListed, CountsAreExact
<1>2. stream[c].pc = "replay" /\ Busy(stream[c])
  BY DEF Replay, Busy
<1>3. stream[c].numSeen = Delivery!Place(seen[c]) /\ stream[c].numSeen <= all
  BY <1>1, <1>2 DEF Listed, Exact
<1>4. Delivery!Place(seen'[c]) = (IF stream[c].numSeen < all THEN all
                                                           ELSE Delivery!Place(seen[c]))
  BY <1>1, ReplayEffect
<1>5. all \in Nat /\ stream[c].numSeen \in Nat
  BY <1>1, Numbers
<1> HIDE DEF all
<1>6. Delivery!Place(seen'[c]) = all
  BY <1>3, <1>4, <1>5
<1> QED BY <1>3, <1>6 DEF all

LEMMA ExactStep ==
  ASSUME Basics, InOrder => Order, InOrder', [Next]_vars
  PROVE  CountsAreExact'
<1> DEFINE Of(x, k, s, t) == /\ k.numSeen = Delivery!Place(t)
                             /\ Busy(x) => x.numSeen = Delivery!Place(s)
           Goal == \A d \in Tabs : Of(stream'[d], cursor'[d], seen'[d], kept'[d])
<1>0. TypeOK /\ PagesRun /\ Order
  BY OrderlySteps DEF Basics
<1>a. \A d \in Tabs : Of(stream[d], cursor[d], seen[d], kept[d])
  BY <1>0 DEF Order, CountsAreExact, Exact
<1> SUFFICES Goal
  BY DEF CountsAreExact, Exact, Busy, Delivery!Place
\* Steps of a stream that leave what was yielded.
<1>b. ASSUME NEW c \in Tabs, UNCHANGED <<cursor, seen, kept>>, OthersKept(c),
             Busy(stream'[c]) => stream'[c].numSeen = Delivery!Place(seen[c])
      PROVE  Goal
  <2>1. Of(stream'[c], cursor'[c], seen'[c], kept'[c])
    BY <1>a, <1>b
  <2> QED BY <1>a, <1>b, <2>1 DEF OthersKept
<1>1. CASE World
  <2>1. UNCHANGED <<stream, cursor, seen, kept>>
    BY <1>1 DEF World
  <2> QED BY <1>a, <2>1
<1>2. ASSUME NEW c \in Tabs, NEW version, NEW numSeen, NEW yielded,
             Start(c, version, numSeen, yielded), numSeen = Delivery!Place(yielded)
      PROVE  Goal
  <2>1. Of(stream'[c], cursor'[c], seen'[c], kept'[c])
    BY <1>0, <1>2, <1>a, StartEffect
  <2> QED BY <1>0, <1>2, <1>a, <2>1, StartEffect DEF OthersKept
<1>3. ASSUME NEW c \in Tabs, Query(c) PROVE Goal
  BY <1>2, <1>3 DEF Query, Delivery!Place
<1>4. ASSUME NEW c \in Tabs, ContinueQuery(c) PROVE Goal
  BY <1>2, <1>4, <1>a DEF ContinueQuery
<1>5. ASSUME NEW c \in Tabs, Replay(c) PROVE Goal
  <2> DEFINE all == Len(stream[c].query.ids)
  <2>1. Delivery!Place(seen'[c]) = all
    BY <1>0, <1>5, ReplayIsExact
  <2>2. \/ /\ stream'[c].numSeen = all /\ UNCHANGED <<cursor, kept>>
        \/ /\ stream'[c] = Idle /\ cursor'[c].numSeen = all /\ kept'[c] = seen'[c]
    BY <1>0, <1>5, ReplayEffect
  <2>3. \A d \in Tabs : d # c => /\ stream'[d] = stream[d] /\ cursor'[d] = cursor[d]
                                 /\ seen'[d] = seen[d] /\ kept'[d] = kept[d]
    BY <1>0, <1>5, ReplayEffect DEF OthersKept
  <2> HIDE DEF all
  <2>4. Of(stream'[c], cursor'[c], seen'[c], kept'[c])
    BY <1>a, <2>1, <2>2 DEF Busy, Idle
  <2> QED BY <1>a, <2>3, <2>4
<1> HIDE DEF Goal
<1>6. ASSUME NEW c \in Tabs, StopAt(c) PROVE Goal
  BY <1>0, <1>6, <1>b, StopEffect DEF StopAt, Busy
<1>7. ASSUME NEW c \in Tabs, Retry(c) PROVE Goal
  <2>1. seen[c] = <<>>
    BY <1>0, <1>7, RetryEffect DEF Retry, Basics, CountsAreCovered, Covered, Busy
  <2>2. Delivery!Place(seen[c]) = 0
    BY <2>1 DEF Delivery!Place
  <2> QED BY <1>0, <1>7, <1>b, <2>2, RetryEffect DEF Retry
<1>8. ASSUME NEW c \in Tabs, ReusePage(c) \/ AwaitRetry(c) \/ Request(c) PROVE Goal
  <2>1. /\ UNCHANGED <<cursor, seen, kept>> /\ OthersKept(c)
        /\ Busy(stream[c]) /\ ~Stale(stream[c])
        /\ stream'[c].numSeen
             = (IF record.version # stream[c].seenVersion THEN 0 ELSE stream[c].numSeen)
    BY <1>0, <1>8, ReuseEffect, AwaitEffect, RequestEffect DEF Busy
  <2>2. stream'[c].numSeen = Delivery!Place(seen[c])
    BY <1>0, <2>1, CountStaysExact
  <2> QED BY <1>b, <2>1, <2>2
<1>9. ASSUME NEW c \in Tabs, WakeUp(c) \/ Answered(c) \/ CacheMessages(c) \/ WriteRecord(c)
      PROVE  Goal
  <2>1. /\ UNCHANGED <<cursor, seen, kept>> /\ OthersKept(c)
        /\ Busy(stream[c]) /\ stream'[c].numSeen = stream[c].numSeen
    BY <1>0, <1>9, WakeEffect, AnsweredEffect, CacheEffect, WriteEffect DEF Busy
  <2> QED BY <1>a, <1>b, <2>1
<1> QED BY OrderlySteps, <1>1, <1>3, <1>4, <1>5, <1>6, <1>7, <1>8, <1>9

(***************************************************************************)
(* The inductive invariant.                                                *)
(***************************************************************************)
LEMMA InitInOrder == Init => Order /\ AllBacked
<1> SUFFICES ASSUME Init PROVE Order /\ AllBacked
  OBVIOUS
<1>1. Range(<<>>) = {}
  BY DEF Range
<1> QED BY <1>1 DEF Init, Order, OneWorks, WorksAlone, AllBacked, Backed, DeadStayDead,
        StaysDead, CountsAreListed, Listed, CountsAreExact, Exact, Idle, NoRecord, NoCursor,
        Busy, Working, Delivery!Place

\* IInv: pages run through the log, versions are handed out in order, no stream
\* counts ahead of what it has yielded, and the cache holds what is listed until
\* it is cleared; as long as it is in order, one tab works at a time and the
\* streams' counts are exact.
THEOREM Inductive == Spec => []IInv
<1>1. Init => IInv
  BY InitTyped, InitRuns, InitBasic, InitInOrder DEF IInv, Basics
<1>2. IInv /\ [Next]_vars => IInv'
  <2> SUFFICES ASSUME IInv, [Next]_vars PROVE IInv'
    OBVIOUS
  <2>0. Basics /\ (InOrder => Order)
    BY DEF IInv
  <2>1. TypeOK'
    BY <2>0, TypeStep DEF Basics
  <2>2. PagesRun'
    BY <2>0, PagesStep DEF Basics
  <2>3. VersionsAreOld'
    BY <2>0, VersionsStep DEF Basics
  <2>4. CountsAreCovered'
    BY <2>0, CoveredStep DEF Basics
  <2>5. ASSUME Uncleared' PROVE AllBacked'
    BY <2>0, <2>5, BackedStep
  <2>6. ASSUME InOrder' PROVE Order'
    BY <2>0, <2>6, OneWorksStep, DeadStep, ListedStep, ExactStep DEF Order
  <2> QED BY <2>1, <2>2, <2>3, <2>4, <2>5, <2>6 DEF IInv, Basics
<1> QED BY <1>1, <1>2, PTL DEF Spec

\* Streams, records and caches hold messages of the log only (1-services/
\* 4-inboxes.ts and its cache).
THEOREM StreamTypes == Spec => []TypeOK
<1>1. IInv => TypeOK
  BY DEF IInv, Basics
<1> QED BY Inductive, <1>1, PTL

\* Until the storage is cleared, the ids that a record lists can be read, with
\* a lock or without, also when a tab stops halfway through storing a page.
THEOREM ListedIsBacked == Spec => []RecordIsBacked
<1>1. IInv => RecordIsBacked
  BY DEF IInv, Basics, Uncleared, AllBacked, RecordIsBacked
<1> QED BY Inductive, <1>1, PTL

(***************************************************************************)
(* The refinement of MessageDelivery.                                      *)
(***************************************************************************)
Again == ~UseLock \/ used.clears > 0
DeliveryVars == <<log, seen, kept, Again>>

\* Messages are given again only when the cache is not in order.
LEMMA AgainUnlessInOrder ==
  ASSUME TypeOK
  PROVE  ~Again => InOrder
BY DEF TypeOK, Again, InOrder, Uncleared

LEMMA AgainStays ==
  ASSUME used'.clears = used.clears
  PROVE  Again' = Again
BY DEF Again

\* A replay delivers the next stretch of the log.
LEMMA ReplayDelivers ==
  ASSUME IInv, NEW c \in Tabs, Replay(c)
  PROVE  Delivery!Deliver(c)
<1> DEFINE x == stream[c]  all == Len(x.query.ids)  place == Delivery!Place(seen[c])
           Yields(from, to) ==
             seen' = [seen EXCEPT ![c] = @ \o Delivery!Stretch(from, to)]
<1>0. TypeOK /\ PagesRun /\ Covered(x, seen[c])
  BY DEF IInv, Basics, CountsAreCovered
<1>1. /\ x.pc = "replay" /\ all \in 0..log /\ x.numSeen \in Nat
      /\ UNCHANGED <<log, used>>
      /\ seen' = [seen EXCEPT ![c] = @ \o Unseen(x)]
      /\ seen'[c] = seen[c] \o (IF x.numSeen <= all THEN Delivery!Stretch(x.numSeen, all)
                                                     ELSE <<>>)
  BY <1>0, ReplayEffect
<1>2. kept' \in {kept, [kept EXCEPT ![c] = seen'[c]]}
  <2>1. \/ kept' = kept
        \/ kept' = [kept EXCEPT ![c] = seen'[c]]
    BY <1>0, ReplayEffect
  <2> QED BY <2>1
<1>3. Again' = Again
  BY <1>1, AgainStays
<1>4. place \in 0..log /\ seen \in [Tabs -> Seq(1..log)] /\ log \in Nat
  <2>1. seen \in [Tabs -> Seq(1..log)] /\ log \in Nat
    BY <1>0, BoundsAreNumbers DEF TypeOK
  <2> QED BY <2>1, PlaceTyped
<1>5. x.numSeen <= place
  BY <1>0, <1>1 DEF Covered, Busy
<1>6. seen' = [seen EXCEPT ![c] = seen'[c]]
  BY <1>1, <1>4
<1> HIDE DEF all, place
<1>7. \E from \in 0..place, to \in 0..log :
        from <= to /\ (from = place \/ Again) /\ Yields(from, to)
  <2>1. CASE x.numSeen <= all
    <3>1. Yields(x.numSeen, all)
      BY <1>1, <1>4, <1>6, <2>1
    <3>2. x.numSeen = place \/ Again
      <4>1. ASSUME ~Again PROVE x.numSeen = place
        <5>1. Basics /\ Order
          BY <1>0, <4>1, AgainUnlessInOrder DEF IInv
        <5> QED BY <5>1, ReplayIsExact DEF place
      <4> QED BY <4>1
    <3>3. x.numSeen \in 0..place /\ all \in 0..log
      BY <1>1, <1>4, <1>5
    <3> QED BY <2>1, <3>1, <3>2, <3>3
  <2>2. CASE ~(x.numSeen <= all)
    <3>1. seen'[c] = seen[c] /\ Delivery!Stretch(place, place) = <<>>
      <4>1. seen[c] \o <<>> = seen[c]
        BY <1>4, ConcatEmptySeq
      <4>2. Delivery!Stretch(place, place) = <<>>
        BY <1>4, NoStretch
      <4> QED BY <1>1, <2>2, <4>1, <4>2
    <3>2. Yields(place, place)
      BY <1>4, <1>6, <3>1, ConcatEmptySeq
    <3>3. place \in 0..place /\ place \in 0..log /\ place <= place
      BY <1>4
    <3> QED BY <3>2, <3>3
  <2> QED BY <2>1, <2>2
<1> HIDE DEF Yields
<1>8. UNCHANGED <<log, Again>>
  BY <1>1, <1>3
<1> QED BY <1>2, <1>7, <1>8 DEF Delivery!Deliver, place, Yields, Again

\* Every other step begins a stream, resets the cache, or leaves what readers
\* have been given.
LEMMA StepsDeliver ==
  ASSUME IInv, [Next]_vars
  PROVE  [Delivery!Next]_DeliveryVars
<1>0. TypeOK /\ used \in [starts : Nat, clears : Nat]
  BY DEF IInv, Basics, TypeOK
<1>1. CASE Arrive
  BY <1>1 DEF Arrive, Delivery!Next, Delivery!Arrive
<1>2. CASE ClearStorage
  <2>1. used'.clears > 0
    BY <1>0, <1>2 DEF ClearStorage
  <2>2. (~UseLock \/ used'.clears > 0) = TRUE
    BY <2>1
  <2> QED BY <1>2, <2>2 DEF ClearStorage, Delivery!Next, Delivery!Reset
<1>3. ASSUME NEW c \in Tabs, Query(c) \/ ContinueQuery(c) PROVE Delivery!Next
  <2>1. PICK version, numSeen, yielded :
          Start(c, version, numSeen, yielded) /\ yielded \in {<<>>, kept[c]}
    BY <1>3 DEF Query, ContinueQuery
  <2>2. seen' = [seen EXCEPT ![c] = yielded] /\ UNCHANGED <<log, kept>>
        /\ used'.clears = used.clears
    BY <1>0, <2>1, StartEffect
  <2>3. Delivery!Begin(c)
    BY <2>1, <2>2 DEF Delivery!Begin
  <2> QED BY <2>3 DEF Delivery!Next
<1>4. ASSUME NEW c \in Tabs, Replay(c) PROVE Delivery!Next
  BY <1>4, ReplayDelivers DEF Delivery!Next
<1>5. CASE UNCHANGED <<log, seen, kept, used>>
  BY <1>5 DEF DeliveryVars, Again
<1> QED BY <1>1, <1>2, <1>3, <1>4, <1>5
        DEF Next, Work, Go, Expire, RetryAfterPasses, ReportStale, ReusePage, AwaitRetry,
            Request, WakeUp, Answered, CursorExpired, RequestFails, CacheMessages,
            WriteRecord, OutOfSync, Close, Stop, vars, cache

\* The streams implement the promise of MessageDelivery: the messages in the
\* order of the inbox and none left out, over shared pages, expired cursors,
\* cleared caches and tabs that stop at any step; and none twice as long as a
\* lock orders the streams and nobody clears the storage.
THEOREM StreamsDeliver == Spec => DeliveryHolds
<1>1. Init => Delivery!Init
  BY LockIsSettled DEF Init, Delivery!Init
<1>2. IInv /\ [Next]_vars => [Delivery!Next]_DeliveryVars
  BY StepsDeliver
<1> QED BY Inductive, <1>1, <1>2, PTL
        DEF Spec, DeliveryHolds, Delivery!Spec, DeliveryVars, Again

(***************************************************************************)
(* What the promise says of all that a reader has been given.              *)
(***************************************************************************)
Runs(s) == s = Delivery!Stretch(0, Delivery!Place(s))
Promised == ~Again => \A c \in Tabs : Runs(seen[c]) /\ Runs(kept[c])

LEMMA NothingRuns == Runs(<<>>)
<1>1. Delivery!Place(<<>>) = 0
  BY DEF Delivery!Place
<1> QED BY <1>1, NoStretch DEF Runs

LEMMA MoreRuns ==
  ASSUME NEW n \in Nat, NEW s \in Seq(1..n), Runs(s),
         NEW to \in 0..n, Delivery!Place(s) <= to
  PROVE  Runs(s \o Delivery!Stretch(Delivery!Place(s), to))
<1> DEFINE from == Delivery!Place(s)
<1>1. from \in 0..n
  BY PlaceTyped
<1> HIDE DEF from
<1>2. from <= to
  BY DEF from
<1>3. s = Delivery!Stretch(0, from)
  BY DEF Runs, from
<1>4. /\ from \in Nat /\ to \in Nat /\ 0 \in Nat /\ 0 <= from /\ to <= n
  BY <1>1
<1>5. s \o Delivery!Stretch(from, to) = Delivery!Stretch(0, to)
  BY <1>2, <1>3, <1>4, StretchesJoin
<1>6. Delivery!Place(s \o Delivery!Stretch(from, to)) = (IF from < to THEN to ELSE from)
  BY <1>2, <1>4, PlaceAfter DEF from
<1>7. (IF from < to THEN to ELSE from) = to
  BY <1>2, <1>4
<1> QED BY <1>5, <1>6, <1>7 DEF Runs, from

LEMMA PromiseKept ==
  ASSUME TypeOK, Promised, [Delivery!Next]_DeliveryVars
  PROVE  Promised'
<1> DEFINE Goal == \A d \in Tabs : Runs(seen'[d]) /\ Runs(kept'[d])
<1> SUFFICES ASSUME ~Again' PROVE Goal
  BY DEF Promised, Runs, Delivery!Stretch, Delivery!Place
<1>0. /\ log \in Nat /\ seen \in [Tabs -> Seq(1..log)] /\ kept \in [Tabs -> Seq(1..log)]
  BY BoundsAreNumbers DEF TypeOK
<1>1. ~Again
  BY DEF DeliveryVars, Again, Delivery!Next, Delivery!Arrive, Delivery!Reset,
         Delivery!Deliver, Delivery!Begin
<1>2. \A d \in Tabs : Runs(seen[d]) /\ Runs(kept[d])
  BY <1>1 DEF Promised
<1>3. CASE UNCHANGED <<seen, kept>>
  BY <1>2, <1>3
<1>4. ASSUME NEW c \in Tabs, Delivery!Begin(c) PROVE Goal
  BY <1>0, <1>2, <1>4, NothingRuns DEF Delivery!Begin
<1>5. ASSUME NEW c \in Tabs, Delivery!Deliver(c) PROVE Goal
  <2>1. PICK to \in 0..log :
          /\ Delivery!Place(seen[c]) <= to
          /\ seen' = [seen EXCEPT ![c] =
                        @ \o Delivery!Stretch(Delivery!Place(seen[c]), to)]
    BY <1>1, <1>5 DEF Delivery!Deliver, Again
  <2>2. Runs(seen[c] \o Delivery!Stretch(Delivery!Place(seen[c]), to))
    BY <1>0, <1>2, <2>1, MoreRuns
  <2>3. \A d \in Tabs : Runs(seen'[d])
    BY <1>0, <1>2, <2>1, <2>2
  <2>4. kept' \in {kept, [kept EXCEPT ![c] = seen'[c]]}
    BY <1>5 DEF Delivery!Deliver
  <2> QED BY <1>0, <1>2, <2>3, <2>4
<1> HIDE DEF Goal
<1>6. CASE Delivery!Next
  BY <1>3, <1>4, <1>5, <1>6 DEF Delivery!Next, Delivery!Arrive, Delivery!Reset
<1> QED BY <1>3, <1>6 DEF DeliveryVars

\* A stream and those that continue it yield the messages of the inbox from the
\* first one on, none twice and none left out, as long as a lock orders the
\* streams and nobody clears the storage: it follows from the promise alone.
THEOREM EachMessageOnce == Spec => []SeenInOrder
<1>1. Init => Promised
  BY NothingRuns DEF Init, Promised
<1>2. IInv /\ Promised /\ [Next]_vars => Promised'
  BY StepsDeliver, PromiseKept DEF IInv, Basics
<1>3. IInv /\ Promised => SeenInOrder
  <2> SUFFICES ASSUME IInv, Promised, InOrder, NEW c \in Tabs
               PROVE  seen[c] = [i \in 1..Len(seen[c]) |-> i]
    BY DEF SeenInOrder, InOrder, Uncleared
  <2>1. TypeOK /\ ~Again
    <3>1. used \in [starts : Nat, clears : Nat] /\ TypeOK
      BY DEF IInv, Basics, TypeOK
    <3> QED BY <3>1 DEF InOrder, Uncleared, Again
  <2> DEFINE place == Delivery!Place(seen[c])
  <2>2. seen[c] = Delivery!Stretch(0, place) /\ place \in Nat
    BY <2>1, Numbers DEF Promised, Runs
  <2> HIDE DEF place
  <2>3. seen[c] = [i \in 1..place |-> i] /\ Len(seen[c]) = place
    BY <2>2 DEF Delivery!Stretch
  <2> QED BY <2>3
<1> QED BY Inductive, <1>1, <1>2, <1>3, PTL DEF Spec

-----------------------------------------------------------------------------
(* The inboxes of the server: the tables behind the streams above.  What   *)
(* InboxServer calls cache and used is infos and spent here.               *)

Caches == {Unknown, NotFound} \cup [account : Accounts, number : Nat]
Sends == [pc : {"idle", "inserted", "exists"}, number : Nat, inbox : Ids \cup {Shared},
          msg : Messages \cup {"none"}, id : Nat, seq : Nat]
Followers == [pc : {"idle", "more", "end"}, inbox : Ids \cup {Shared}, account : Accounts \cup {0},
              query : Queries \cup {Boxes!NoQuery}, since : Nat, step : Nat,
              got : SUBSET Nat, page : SUBSET Nat, early : SUBSET Nat, astray : BOOLEAN]

BoxTypes ==
  /\ inbox \in [Ids -> Nat] /\ owner \in [Ids -> Accounts \cup {0}]
  /\ rows \subseteq Boxes!RowRecords /\ IsFiniteSet(rows)
  /\ infos \in [Workers -> [Ids -> Caches]]
  /\ send \in [Senders -> Sends] /\ reader \in [Readers -> Followers]
  /\ acked \subseteq [inbox : Ids \cup {Shared}, msg : Messages, id : Nat]
  /\ spent \in [rows : Nat, sends : Nat, crashes : Nat, queries : Nat]

\* Numbers and ids of messages come in their order, and are unique; so is a
\* message in its inbox.
RowsAreApart ==
  /\ \A r \in rows : r.id <= spent.rows /\ r.seq \in 1..spent.rows
  /\ \A r, x \in rows : r # x => r.id # x.id /\ r.seq # x.seq
  /\ \A r, x \in rows : r.inbox = x.inbox /\ r.msg = x.msg => r = x

\* An inbox is made once, and has a number of its own while it is there.
InboxesAreApart ==
  /\ \E n \in Nat : \A i \in Ids : inbox[i] <= n
  /\ \A i, j \in Ids : inbox[i] = inbox[j] /\ inbox[i] # 0 => i = j
  /\ \A i \in Ids : owner[i] = 0 => inbox[i] = 0

\* The number of an inbox, which it keeps in the caches after its deletion.
Of(num, i) == IF i = Shared THEN 0 ELSE num[i]
Made(i) == i = Shared \/ owner[i] # 0

NumbersLast(num) ==
  /\ \A i \in Ids : inbox[i] # 0 => num[i] = inbox[i]
  /\ \A w \in Workers, i \in Ids : infos[w][i] # Unknown =>
       owner[i] # 0 /\ (infos[w][i] # NotFound => infos[w][i].number = num[i])
  /\ \A s \in Senders : LET x == send[s] IN
       x.pc # "idle" =>
         /\ x.number = Of(num, x.inbox) /\ Made(x.inbox)
         /\ x.msg \in Messages
         /\ x.pc = "inserted" =>
              /\ x.id <= spent.rows
              /\ \A r \in rows : r.id = x.id => r.inbox = x.number /\ r.msg = x.msg
  /\ \A x \in acked :
       /\ Made(x.inbox) /\ x.id <= spent.rows
       /\ \A r \in rows : r.id = x.id => r.inbox = Of(num, x.inbox) /\ r.msg = x.msg

\* What a reader has read of its inbox it was given, or came too late for it.
Asked(x, r) == Boxes!Matches(r, r.inbox, x.query)
Told(x, r) ==
  IF Asked(x, r)
  THEN r.msg \in x.query.accepts => r.id \in x.got \cup x.page \cup x.early
  ELSE r.id \in x.early

ReaderFits(x) ==
  /\ x.step + 1 \in 1..Len(PageLimits) /\ Made(x.inbox)
  /\ \A k \in x.got \cup x.page : k <= spent.rows
  /\ \A r \in rows : r.id \in x.got \cup x.page => r.seq <= x.since
  /\ \A r, y \in rows : r.id \in x.got /\ y.id \in x.page => r.seq < y.seq
  /\ Boxes!Live(x.inbox) /\ ~x.astray =>
       /\ x.since = 0 \/ \E r \in rows : r.inbox = Boxes!NumberOf(x.inbox) /\ r.seq >= x.since
       /\ \A r \in rows : r.inbox = Boxes!NumberOf(x.inbox) /\ r.seq <= x.since => Told(x, r)

\* A row that is there, with its tags or more of them, and one that comes after all others.
Image(q, r) == /\ q.id = r.id /\ q.seq = r.seq /\ q.inbox = r.inbox /\ q.msg = r.msg
               /\ \A t : <<r.inbox, t>> \in r.tags => <<r.inbox, t>> \in q.tags
Comes(q) == q.id > spent.rows /\ q.seq > 0 /\ \A r \in rows : q.seq > r.seq

BoxInv ==
  /\ BoxTypes /\ RowsAreApart /\ InboxesAreApart
  /\ \E num \in [Ids -> Nat] : NumbersLast(num)
  /\ \A c \in Readers : ReaderFits(reader[c])

\* A set of numbers has a least one.
LEMMA LeastOf ==
  ASSUME NEW T \in SUBSET Nat, T # {}
  PROVE  \E x \in T : \A y \in T : x <= y
<1> DEFINE R == OpToRel(<, Nat)
<1>1. IsWellFoundedOn(R, Nat)
  BY NatLessThanWellFounded
<1>2. \A x, y \in Nat : x < y => <<x, y>> \in R
  BY DEF OpToRel
<1> HIDE DEF R
<1>3. PICK x \in T : \A y \in T : ~(<<y, x>> \in R)
  BY <1>1, WFMin
<1>4. ASSUME NEW y \in T PROVE x <= y
  <2>1. ~(y < x)
    BY <1>2, <1>3
  <2>2. QED
    BY <2>1
<1>5. QED
  BY <1>4


LEMMA MaxIs ==
  ASSUME NEW S \in SUBSET Nat, S # {}, NEW n \in Nat, \A x \in S : x <= n
  PROVE  Boxes!Max(S) \in S /\ \A x \in S : Boxes!Max(S) >= x
  <1> DEFINE U == {m \in Nat : \A x \in S : x <= m}
  <1>1. n \in U /\ U \in SUBSET Nat
    OBVIOUS
  <1>2. PICK m \in U : \A k \in U : m <= k
    BY <1>1, LeastOf
  <1>3. m \in S
    <2> SUFFICES ASSUME m \notin S PROVE FALSE
      OBVIOUS
    <2>1. PICK y \in S : TRUE
      OBVIOUS
    <2>2. m \in Nat /\ \A x \in S : x < m
      OBVIOUS
    <2>3. m - 1 \in U
      BY <2>1, <2>2
    <2> QED
      BY <1>2, <2>2, <2>3
  <1>4. \E x \in S : \A y \in S : x >= y
    BY <1>3
  <1> QED
    BY <1>4 DEF Boxes!Max

\* SQLite's next number comes after all others.
LEMMA NextNumberIs ==
  ASSUME NEW S \in SUBSET Nat, NEW n \in Nat, \A x \in S : x <= n
  PROVE  Boxes!NextNumber(S) \in 1..n + 1 /\ \A x \in S : x < Boxes!NextNumber(S)
  <1> DEFINE T == S \cup {0}
             m == Boxes!Max(T)
  <1>1. T \in SUBSET Nat /\ T # {} /\ \A x \in T : x <= n
    OBVIOUS
  <1> HIDE DEF T
  <1>2. m \in T /\ \A x \in T : m >= x
    BY <1>1, MaxIs
  <1> HIDE DEF m
  <1>3. Boxes!NextNumber(S) = m + 1
    BY DEF Boxes!NextNumber, m, T
  <1>4. m \in Nat /\ m <= n /\ \A x \in S : m >= x
    BY <1>1, <1>2 DEF T
  <1> QED
    BY <1>3, <1>4

LEMMA RowFields ==
  ASSUME BoxTypes, NEW r \in rows
  PROVE  /\ r.id \in Nat /\ r.seq \in Nat /\ r.inbox \in Nat /\ r.msg \in Messages
         /\ r.tags \in SUBSET Boxes!TagRows /\ r \in Boxes!RowRecords
  BY DEF BoxTypes, Boxes!RowRecords

\* The number of the last row of a page.
LEMMA LastSeqIs ==
  ASSUME BoxTypes, RowsAreApart, NEW page \in SUBSET rows, NEW q, NEW since \in Nat
  PROVE  LET last == Boxes!LastSeq(page, q, since) IN
         /\ last \in Nat /\ last >= since
         /\ \A r \in page : r.seq <= last
         /\ last = since \/ \E r \in page : r.seq = last
  <1> DEFINE S == {since} \cup {r.seq : r \in page}
             n == since + spent.rows
             last == Boxes!Max(S)
  <1>1. \A r \in page : r.seq \in Nat /\ r.seq <= spent.rows /\ spent.rows \in Nat
    BY RowFields DEF RowsAreApart, BoxTypes
  <1>2. n \in Nat /\ S \in SUBSET Nat /\ S # {}
    BY <1>1 DEF BoxTypes
  <1>3. \A x \in S : x <= n
    BY <1>1, <1>2 DEF BoxTypes
  <1> HIDE DEF n, S
  <1>4. last \in S /\ \A x \in S : last >= x
    BY <1>2, <1>3, MaxIs
  <1> HIDE DEF last
  <1>5. Boxes!LastSeq(page, q, since) = last
    BY DEF Boxes!LastSeq, last, S
  <1>6. last \in Nat
    BY <1>2, <1>4
  <1>7. since \in S /\ \A r \in page : r.seq \in S
    BY DEF S
  <1>8. last = since \/ \E r \in page : r.seq = last
    BY <1>4 DEF S
  <1> QED
    BY <1>1, <1>4, <1>5, <1>6, <1>7, <1>8

LEMMA SameCardinality == \A S : Boxes!Cardinality(S) = Cardinality(S)
  BY DEF Boxes!Cardinality, Cardinality

\* A page has every candidate that comes before one it has.
LEMMA OldestComeFirst ==
  ASSUME NEW S \in SUBSET Boxes!RowRecords, IsFiniteSet(S), NEW n \in Nat,
         NEW p \in Boxes!Oldest(S, n), NEW r \in S, r.seq <= p.seq
  PROVE  r \in Boxes!Oldest(S, n)
  <1> DEFINE Before(y) == {x \in S : x.seq < y.seq}
  <1>1. p \in S /\ Cardinality(Before(p)) < n
    BY SameCardinality DEF Boxes!Oldest
  <1>2. Before(r) \in SUBSET Before(p)
    <2>1. \A x \in S : x.seq \in Nat
      BY DEF Boxes!RowRecords
    <2> QED
      BY <1>1, <2>1
  <1>3. IsFiniteSet(Before(p)) /\ IsFiniteSet(Before(r))
    BY FS_Subset
  <1>4. Cardinality(Before(r)) <= Cardinality(Before(p))
    BY <1>2, <1>3, FS_Subset
  <1>5. Cardinality(Before(r)) \in Nat /\ Cardinality(Before(p)) \in Nat
    BY <1>3, FS_CardinalityType
  <1>6. Cardinality(Before(r)) < n
    BY <1>1, <1>4, <1>5
  <1> QED
    BY <1>6, SameCardinality DEF Boxes!Oldest

\* What a worker knows of an inbox.
LEMMA InfoIs ==
  ASSUME BoxTypes, NEW num \in [Ids -> Nat], NumbersLast(num),
         NEW w \in Workers, NEW i \in Ids \cup {Shared}, Boxes!Known(w, i)
  PROVE  /\ Made(i) /\ Boxes!Info(w, i).number = Of(num, i) /\ Of(num, i) \in Nat
         /\ Boxes!Live(i) => Boxes!Info(w, i).number = Boxes!NumberOf(i)
  <1>1. CASE i = Shared
    BY <1>1 DEF Boxes!Info, Made, Of, Boxes!NumberOf
  <1>2. CASE i # Shared
    <2>1. i \in Ids /\ infos[w][i] # Unknown /\ infos[w][i] # NotFound /\ Boxes!Info(w, i) = infos[w][i]
      BY <1>2 DEF Boxes!Known, Boxes!Info
    <2>2. owner[i] # 0 /\ infos[w][i].number = num[i]
      BY <2>1 DEF NumbersLast
    <2>3. inbox[i] # 0 => num[i] = inbox[i]
      BY <2>1 DEF NumbersLast
    <2> QED
      BY <1>2, <2>1, <2>2, <2>3 DEF Made, Of, Boxes!Live, Boxes!NumberOf
  <1> QED
    BY <1>1, <1>2

\* A step that keeps the rows of an inbox, but for tags and new rows, keeps what
\* its readers were told.
LEMMA ReaderStays ==
  ASSUME BoxTypes, BoxTypes', RowsAreApart, spent.rows <= spent'.rows,
         NEW x \in Followers, ReaderFits(x), Made(x.inbox)',
         Boxes!Live(x.inbox)'
           => Boxes!Live(x.inbox) /\ Boxes!NumberOf(x.inbox)' = Boxes!NumberOf(x.inbox),
         \A q \in rows' : Comes(q) \/ \E r \in rows : Image(q, r),
         Boxes!Live(x.inbox)' => \A r \in rows : r.inbox = Boxes!NumberOf(x.inbox) =>
                             \E q \in rows' : q.inbox = r.inbox /\ q.seq = r.seq
  PROVE  ReaderFits(x)'
  <1>1. /\ spent.rows \in Nat /\ spent'.rows \in Nat /\ x.since \in Nat
        /\ x.got \subseteq Nat /\ x.page \subseteq Nat
    BY DEF BoxTypes, Followers
  <1>2. \A q \in rows' : q.id \in Nat /\ q.seq \in Nat
    BY DEF BoxTypes, Boxes!RowRecords
  <1>3. \A r \in rows : r.id \in Nat /\ r.seq \in Nat
    BY RowFields
  <1>4. \A k \in x.got \cup x.page : k <= spent.rows
    BY DEF ReaderFits
  <1>5. ASSUME NEW q \in rows', q.id \in x.got \cup x.page
        PROVE  \E r \in rows : Image(q, r)
    <2>1. ~(q.id > spent.rows)
      BY <1>1, <1>2, <1>4, <1>5
    <2> QED
      BY <2>1 DEF Comes
  <1>6. \A k \in x.got \cup x.page : k <= spent'.rows
    BY <1>1, <1>4
  <1>7. ASSUME NEW q \in rows', q.id \in x.got \cup x.page PROVE q.seq <= x.since
    BY <1>5, <1>7 DEF Image, ReaderFits
  <1>8. ASSUME NEW q \in rows', NEW y \in rows', q.id \in x.got, y.id \in x.page
        PROVE  q.seq < y.seq
    <2>1. PICK r \in rows : Image(q, r)
      BY <1>5, <1>8
    <2>2. PICK z \in rows : Image(y, z)
      BY <1>5, <1>8
    <2>3. r.id \in x.got /\ z.id \in x.page
      BY <1>8, <2>1, <2>2 DEF Image
    <2>4. r.seq < z.seq
      BY <2>3 DEF ReaderFits
    <2> QED
      BY <2>1, <2>2, <2>4 DEF Image
  <1>9. ASSUME Boxes!Live(x.inbox)', ~x.astray
        PROVE  /\ x.since = 0 \/ \E q \in rows' : q.inbox = Boxes!NumberOf(x.inbox)' /\ q.seq >= x.since
               /\ \A q \in rows' : q.inbox = Boxes!NumberOf(x.inbox)' /\ q.seq <= x.since => Told(x, q)
    <2>1. Boxes!Live(x.inbox) /\ Boxes!NumberOf(x.inbox)' = Boxes!NumberOf(x.inbox)
      BY <1>9
    <2>2. x.since = 0 \/ \E r \in rows : r.inbox = Boxes!NumberOf(x.inbox) /\ r.seq >= x.since
      BY <1>9, <2>1 DEF ReaderFits
    <2>3. x.since = 0 \/ \E q \in rows' : q.inbox = Boxes!NumberOf(x.inbox) /\ q.seq >= x.since
      BY <1>9, <2>2
    <2>4. ASSUME NEW q \in rows', q.inbox = Boxes!NumberOf(x.inbox), q.seq <= x.since PROVE Told(x, q)
      <3>1. ~Comes(q)
        BY <1>1, <1>2, <1>3, <2>2, <2>4 DEF Comes
      <3>2. PICK r \in rows : Image(q, r)
        BY <3>1
      <3>3. Told(x, r)
        BY <1>9, <2>1, <2>4, <3>2 DEF ReaderFits, Image
      <3> QED
        BY <3>2, <3>3 DEF Told, Asked, Image, Boxes!Matches
    <2> QED
      BY <2>1, <2>3, <2>4
  <1> QED
    BY <1>6, <1>7, <1>8, <1>9 DEF ReaderFits, Told, Asked, Boxes!Matches

\* What a page gives, and the reader that has it.
LEMMA AnswerFits ==
  ASSUME BoxInv, NEW c \in Readers, NEW w \in Workers, NEW x \in Followers,
         ReaderFits(x), Boxes!Answer(c, w, x)
  PROVE  /\ reader'[c] \in Followers /\ reader' \in [Readers -> Followers]
         /\ \A d \in Readers \ {c} : reader'[d] = reader[d]
         /\ reader'[c].inbox = x.inbox
         /\ ReaderFits(reader'[c])
         /\ reader'[c].pc = "end" /\ Boxes!Live(x.inbox) /\ ~reader'[c].astray =>
              \A r \in rows :
                r.inbox = Boxes!NumberOf(x.inbox) /\ Asked(reader'[c], r) => Told(reader'[c], r)
  <1> DEFINE info == Boxes!Info(w, x.inbox)
             mine == {r \in rows : r.inbox = info.number}
             wanted == {r \in rows : Boxes!Matches(r, info.number, x.query) /\ r.seq > x.since}
             limit == PageLimits[x.step + 1]
             page == Boxes!Oldest(wanted, limit)
             last == Boxes!LastSeq(page, x.query, x.since)
             given == {r.id : r \in {y \in page : y.msg \in x.query.accepts}}
             late == {r.id : r \in {y \in mine :
                        y.seq <= last /\ ~Boxes!Matches(y, info.number, x.query)}}
             astray == x.astray \/ ~(page \subseteq mine)
             n == [x EXCEPT
                     !.pc = IF page = wanted THEN "end" ELSE "more",
                     !.since = last,
                     !.step = IF @ + 1 < Len(PageLimits) THEN @ + 1 ELSE @,
                     !.got = @ \cup x.page,
                     !.page = given,
                     !.early = @ \cup late,
                     !.astray = @ \/ ~(page \subseteq mine)]
  <1>1. Boxes!Known(w, x.inbox) /\ reader' = [reader EXCEPT ![c] = n]
    BY DEF Boxes!Answer
  <1>2. BoxTypes /\ RowsAreApart
    BY DEF BoxInv
  <1>3. /\ x.inbox \in Ids \cup {Shared} /\ x.since \in Nat /\ x.step \in Nat
        /\ x.got \in SUBSET Nat /\ x.page \in SUBSET Nat /\ x.early \in SUBSET Nat
    BY DEF Followers
  <1>4. Boxes!Live(x.inbox) => info.number = Boxes!NumberOf(x.inbox)
    <2>1. PICK num \in [Ids -> Nat] : NumbersLast(num)
      BY DEF BoxInv
    <2> QED
      BY <1>1, <1>2, <1>3, <2>1, InfoIs
  <1>5. \A r \in rows : r.id \in Nat /\ r.seq \in Nat
    BY <1>2, RowFields
  <1> HIDE DEF info
  <1>6. limit \in Nat
    <2>1. x.step + 1 \in 1..Len(PageLimits)
      BY DEF ReaderFits
    <2> QED
      BY <2>1, LimitsArePositive
  <1>7. mine \in SUBSET rows /\ wanted \in SUBSET rows /\ wanted \in SUBSET Boxes!RowRecords
        /\ IsFiniteSet(wanted)
    BY <1>2, FS_Subset DEF BoxTypes
  <1> HIDE DEF limit
  <1>8. page \in SUBSET wanted
    BY DEF Boxes!Oldest
  <1>9. ASSUME NEW p \in page, NEW r \in wanted, r.seq <= p.seq PROVE r \in page
    BY <1>6, <1>7, <1>9, OldestComeFirst
  <1>10. \A r \in wanted : Boxes!Matches(r, info.number, x.query) /\ r.seq > x.since
    OBVIOUS
  <1>11. \A r \in rows : Boxes!Matches(r, info.number, x.query) /\ r.seq > x.since => r \in wanted
    OBVIOUS
  <1>12. \A r \in mine : r \in rows /\ r.inbox = info.number
    OBVIOUS
  <1>13. \A r \in rows : r.inbox = info.number => r \in mine
    OBVIOUS
  <1> HIDE DEF page, wanted, mine
  <1>14. /\ last \in Nat /\ last >= x.since
         /\ \A r \in page : r.seq <= last
         /\ last = x.since \/ \E r \in page : r.seq = last
    <2>1. page \in SUBSET rows
      BY <1>7, <1>8
    <2> QED
      BY <1>2, <1>3, <2>1, LastSeqIs
  <1> HIDE DEF last
  <1>15. /\ \A r \in page : r.msg \in x.query.accepts => r.id \in given
         /\ \A k \in given : \E r \in page : r.id = k
         /\ \A r \in mine : r.seq <= last /\ ~Boxes!Matches(r, info.number, x.query)
                            => r.id \in late
         /\ \A k \in late : \E r \in mine : r.id = k
    OBVIOUS
  <1>16. given \in SUBSET Nat /\ late \in SUBSET Nat
    BY <1>5, <1>7, <1>8, <1>15
  <1> HIDE DEF given, late
  <1>17. /\ n.pc = (IF page = wanted THEN "end" ELSE "more") /\ n.since = last
         /\ n.step = (IF x.step + 1 < Len(PageLimits) THEN x.step + 1 ELSE x.step)
         /\ n.got = x.got \cup x.page /\ n.page = given /\ n.early = x.early \cup late
         /\ n.astray = astray
         /\ n.inbox = x.inbox /\ n.account = x.account /\ n.query = x.query
    BY DEF Followers
  <1>18. n \in Followers
    <2> DEFINE pc == IF page = wanted THEN "end" ELSE "more"
               step == IF x.step + 1 < Len(PageLimits) THEN x.step + 1 ELSE x.step
               got == x.got \cup x.page
               early == x.early \cup late
    <2>1. pc \in {"idle", "more", "end"} /\ step \in Nat
      BY <1>3
    <2>3. got \in SUBSET Nat /\ early \in SUBSET Nat /\ astray \in BOOLEAN
      BY <1>3, <1>16
    <2>2. n = [x EXCEPT !.pc = pc, !.since = last, !.step = step, !.got = got, !.page = given,
                        !.early = early, !.astray = astray]
      BY DEF Followers
    <2> HIDE DEF n, pc, step, got, early, astray
    <2> QED
      BY <1>14, <1>16, <2>1, <2>2, <2>3 DEF Followers
  <1> HIDE DEF n, astray
  <1>19. /\ reader'[c] = n /\ reader' \in [Readers -> Followers]
         /\ \A d \in Readers \ {c} : reader'[d] = reader[d]
    BY <1>1, <1>2, <1>18 DEF BoxTypes
  <1>20. n.step + 1 \in 1..Len(PageLimits) /\ Made(n.inbox)
    BY <1>3, <1>17, LimitsArePositive DEF ReaderFits
  <1>21. \A k \in n.got \cup n.page : k <= spent.rows
    <2>1. \A k \in given : k <= spent.rows
      BY <1>2, <1>7, <1>8, <1>15 DEF RowsAreApart
    <2> QED
      BY <1>17, <2>1 DEF ReaderFits
  <1>22. \A r \in rows : r.id \in given => r \in page
    <2> SUFFICES ASSUME NEW r \in rows, r.id \in given PROVE r \in page
      OBVIOUS
    <2>1. PICK y \in page : y.id = r.id
      BY <1>15
    <2>2. y \in rows
      BY <1>7, <1>8
    <2> QED
      BY <1>2, <2>1, <2>2 DEF RowsAreApart
  <1>23. \A r \in rows : r.id \in n.got => r.seq <= x.since
    BY <1>17 DEF ReaderFits
  <1>24. \A r \in rows : r.id \in n.got \cup n.page => r.seq <= n.since
    BY <1>3, <1>5, <1>14, <1>17, <1>22, <1>23
  <1>25. \A r, y \in rows : r.id \in n.got /\ y.id \in n.page => r.seq < y.seq
    BY <1>3, <1>5, <1>8, <1>10, <1>17, <1>22, <1>23
  <1>26. ASSUME Boxes!Live(n.inbox), ~n.astray
         PROVE  /\ n.since = 0 \/ \E r \in rows : r.inbox = Boxes!NumberOf(n.inbox) /\ r.seq >= n.since
                /\ \A r \in rows : r.inbox = Boxes!NumberOf(n.inbox) /\ r.seq <= n.since => Told(n, r)
                /\ page = wanted =>
                     \A r \in rows : r.inbox = Boxes!NumberOf(n.inbox) /\ Asked(n, r) => Told(n, r)
    <2>1. /\ Boxes!Live(x.inbox) /\ Boxes!NumberOf(n.inbox) = info.number
          /\ page \subseteq mine /\ ~x.astray
      BY <1>4, <1>17, <1>26 DEF astray
    <2>10. ASSUME NEW r \in rows, r.inbox = info.number
           PROVE  /\ Asked(n, r) <=> Boxes!Matches(r, info.number, x.query)
                  /\ Asked(x, r) <=> Boxes!Matches(r, info.number, x.query)
      BY <1>17, <2>10 DEF Asked
    <2>2. last = x.since \/ \E r \in rows : r.inbox = info.number /\ r.seq = last
      BY <1>12, <1>14, <2>1
    <2>3. x.since = 0 \/ \E r \in rows : r.inbox = info.number /\ r.seq >= x.since
      BY <1>4, <2>1 DEF ReaderFits
    <2>4. n.since = 0 \/ \E r \in rows : r.inbox = info.number /\ r.seq >= n.since
      <3>1. CASE last = x.since
        BY <1>17, <2>3, <3>1
      <3>2. CASE \E r \in rows : r.inbox = info.number /\ r.seq = last
        BY <1>5, <1>17, <3>2
      <3> QED
        BY <2>2, <3>1, <3>2
    <2>5. ASSUME NEW r \in rows, r.inbox = info.number, r.seq <= x.since PROVE Told(n, r)
      <3>1. Told(x, r)
        BY <1>4, <2>1, <2>5 DEF ReaderFits
      <3>2. CASE Asked(x, r)
        BY <1>17, <2>5, <2>10, <3>1, <3>2 DEF Told
      <3>3. CASE ~Asked(x, r)
        BY <1>17, <2>5, <2>10, <3>1, <3>3 DEF Told
      <3> QED
        BY <3>2, <3>3
    <2>6. ASSUME NEW r \in page PROVE Told(n, r)
      <3>1. r \in rows /\ r.inbox = info.number /\ Boxes!Matches(r, info.number, x.query)
        BY <1>8, <1>10, <1>12, <2>1
      <3> QED
        BY <1>15, <1>17, <2>10, <3>1 DEF Told
    <2>7. ASSUME NEW r \in rows, r.inbox = info.number, r.seq > x.since, r.seq <= last
          PROVE  Told(n, r)
      <3>1. CASE ~Boxes!Matches(r, info.number, x.query)
        BY <1>13, <1>15, <1>17, <2>7, <2>10, <3>1 DEF Told
      <3>3. CASE Boxes!Matches(r, info.number, x.query)
        <4>1. r \in wanted
          BY <1>11, <2>7, <3>3
        <4>2. PICK p \in page : p.seq = last
          BY <1>3, <1>5, <1>14, <2>7
        <4>3. r \in page
          BY <1>9, <2>7, <4>1, <4>2
        <4> QED
          BY <2>6, <4>3
      <3> QED
        BY <3>1, <3>3
    <2>8. ASSUME NEW r \in rows, r.inbox = info.number, r.seq <= n.since PROVE Told(n, r)
      BY <1>3, <1>5, <1>17, <2>5, <2>7, <2>8
    <2>9. ASSUME page = wanted, NEW r \in rows, r.inbox = info.number, Asked(n, r)
          PROVE  Told(n, r)
      <3>1. CASE r.seq <= x.since
        BY <2>5, <2>9, <3>1
      <3>3. CASE ~(r.seq <= x.since)
        <4>1. r \in wanted
          BY <1>3, <1>5, <1>11, <2>9, <2>10, <3>3
        <4> QED
          BY <2>6, <2>9, <4>1
      <3> QED
        BY <3>1, <3>3
    <2> QED
      BY <2>1, <2>4, <2>8, <2>9
  <1>27. ReaderFits(n)
    BY <1>20, <1>21, <1>24, <1>25, <1>26 DEF ReaderFits
  <1>28. n.pc = "end" => page = wanted
    BY <1>17
  <1>29. n.pc = "end" /\ Boxes!Live(x.inbox) /\ ~n.astray =>
              \A r \in rows : r.inbox = Boxes!NumberOf(x.inbox) /\ Asked(n, r) => Told(n, r)
    BY <1>17, <1>26, <1>28
  <1> QED
    BY <1>17, <1>18, <1>19, <1>27, <1>29

\* The same for all readers of a step that is not theirs.
LEMMA ReadersStay ==
  ASSUME BoxTypes, UNCHANGED reader, \A c \in Readers : ReaderFits(reader[c]),
         \A x \in Followers : ReaderFits(x) => ReaderFits(x)'
  PROVE  \A c \in Readers : ReaderFits(reader[c])'
  <1> SUFFICES ASSUME NEW c \in Readers PROVE ReaderFits(reader[c])'
    OBVIOUS
  <1>1. PICK x \in Followers : x = reader[c] /\ x = reader'[c]
    BY DEF BoxTypes
  <1>2. ReaderFits(x)'
    BY <1>1
  <1> QED
    BY <1>1, <1>2 DEF ReaderFits, Made, Boxes!Live, Boxes!NumberOf, Told, Asked, Boxes!Matches

LEMMA CreateFits ==
  ASSUME BoxInv, NEW i \in Ids, NEW a \in Accounts, Boxes!CreateInbox(i, a)
  PROVE  BoxInv'
  <1> DEFINE k == Boxes!NextNumber({inbox[j] : j \in Ids})
  <1>1. BoxTypes /\ RowsAreApart /\ InboxesAreApart /\ \A c \in Readers : ReaderFits(reader[c])
    BY DEF BoxInv
  <1>2. owner[i] = 0 /\ UNCHANGED <<rows, infos, send, reader, acked, spent>>
    BY DEF Boxes!CreateInbox
  <1>3. PICK n \in Nat : \A j \in Ids : inbox[j] <= n
    BY <1>1 DEF InboxesAreApart
  <1>4. k \in 1..n + 1 /\ \A j \in Ids : inbox[j] < k
    <2>1. {inbox[j] : j \in Ids} \in SUBSET Nat /\ \A x \in {inbox[j] : j \in Ids} : x <= n
      BY <1>1, <1>3 DEF BoxTypes
    <2>2. k \in 1..n + 1 /\ \A x \in {inbox[j] : j \in Ids} : x < k
      BY <2>1, NextNumberIs
    <2> QED
      BY <2>2
  <1>5. inbox' = [inbox EXCEPT ![i] = k] /\ owner' = [owner EXCEPT ![i] = a] /\ a # 0
    BY AccountsAreNumbers DEF Boxes!CreateInbox
  <1> HIDE DEF k
  <1>6. BoxTypes'
    BY <1>1, <1>2, <1>4, <1>5 DEF BoxTypes
  <1>7. RowsAreApart'
    BY <1>1, <1>2 DEF RowsAreApart
  <1>8. InboxesAreApart'
    <2>1. inbox \in [Ids -> Nat] /\ \A j \in Ids : inbox'[j] = IF j = i THEN k ELSE inbox[j]
      BY <1>1, <1>5 DEF BoxTypes
    <2>2. \A j \in Ids : inbox'[j] <= n + 1
      BY <1>3, <1>4, <2>1
    <2>3. \A j, l \in Ids : inbox'[j] = inbox'[l] /\ inbox'[j] # 0 => j = l
      BY <1>1, <1>4, <2>1 DEF InboxesAreApart
    <2>4. \A j \in Ids : owner'[j] = 0 => inbox'[j] = 0
      BY <1>1, <1>5, <2>1 DEF InboxesAreApart, BoxTypes
    <2>5. \E m \in Nat : \A j \in Ids : inbox'[j] <= m
      <3>1. n + 1 \in Nat
        BY <1>3
      <3> QED
        BY <2>2, <3>1
    <2> QED
      BY <2>3, <2>4, <2>5 DEF InboxesAreApart
  <1>9. \A j \in Ids \cup {Shared} : Made(j) => j = Shared \/ owner'[j] # 0
    BY <1>1, <1>5 DEF Made, BoxTypes
  <1>10. \E num \in [Ids -> Nat] : NumbersLast(num)'
    <2>1. PICK old \in [Ids -> Nat] : NumbersLast(old)
      BY DEF BoxInv
    <2>2. PICK num \in [Ids -> Nat] : num[i] = k /\ \A j \in Ids \ {i} : num[j] = old[j]
      <3>1. [old EXCEPT ![i] = k] \in [Ids -> Nat]
        BY <1>4
      <3> QED
        BY <3>1
    <2>3. ASSUME NEW j \in Ids \cup {Shared}, Made(j) PROVE Of(num, j) = Of(old, j)
      BY <1>2, <2>2, <2>3 DEF Of, Made
    <2>4. \A j \in Ids : inbox'[j] # 0 => num[j] = inbox'[j]
      BY <1>1, <1>5, <2>1, <2>2 DEF NumbersLast, BoxTypes
    <2>5. \A w \in Workers, j \in Ids : infos'[w][j] # Unknown =>
            owner'[j] # 0 /\ (infos'[w][j] # NotFound => infos'[w][j].number = num[j])
      BY <1>1, <1>2, <1>5, <2>1, <2>2 DEF NumbersLast, BoxTypes
    <2>6. ASSUME NEW s \in Senders, send[s].pc # "idle"
          PROVE  /\ send[s].number = Of(num, send[s].inbox)
                 /\ (send[s].inbox = Shared \/ owner'[send[s].inbox] # 0)
                 /\ send[s].msg \in Messages
                 /\ send[s].pc = "inserted" =>
                      /\ send[s].id <= spent.rows
                      /\ \A r \in rows : r.id = send[s].id
                           => r.inbox = send[s].number /\ r.msg = send[s].msg
      <3>1. send[s].inbox \in Ids \cup {Shared}
        BY <1>1 DEF BoxTypes, Sends
      <3>2. Made(send[s].inbox)
        BY <2>1, <2>6 DEF NumbersLast
      <3>3. Of(num, send[s].inbox) = Of(old, send[s].inbox)
        BY <2>3, <3>1, <3>2
      <3> QED
        BY <1>9, <2>1, <2>6, <3>1, <3>2, <3>3 DEF NumbersLast
    <2>7. ASSUME NEW x \in acked
          PROVE  /\ (x.inbox = Shared \/ owner'[x.inbox] # 0) /\ x.id <= spent.rows
                 /\ \A r \in rows : r.id = x.id => r.inbox = Of(num, x.inbox) /\ r.msg = x.msg
      <3>1. x.inbox \in Ids \cup {Shared} /\ Made(x.inbox)
        BY <1>1, <2>1 DEF BoxTypes, NumbersLast
      <3>2. Of(num, x.inbox) = Of(old, x.inbox)
        BY <2>3, <3>1
      <3> QED
        BY <1>9, <2>1, <3>1, <3>2 DEF NumbersLast
    <2>8. NumbersLast(num)'
      BY <1>2, <2>4, <2>5, <2>6, <2>7 DEF NumbersLast, Of, Made
    <2> QED
      BY <2>2, <2>8
  <1>11. ASSUME NEW x \in Followers, ReaderFits(x) PROVE ReaderFits(x)'
    <2>1. x.inbox \in Ids \cup {Shared} /\ Made(x.inbox) /\ Made(x.inbox)'
      BY <1>9, <1>11 DEF ReaderFits, Followers, Made
    <2>2. x.inbox = Shared \/ x.inbox # i
      BY <1>2, <2>1 DEF Made
    <2>3. Boxes!Live(x.inbox)'
            => Boxes!Live(x.inbox) /\ Boxes!NumberOf(x.inbox)' = Boxes!NumberOf(x.inbox)
      BY <1>1, <1>5, <2>1, <2>2 DEF Boxes!Live, Boxes!NumberOf, BoxTypes
    <2>4. /\ \A q \in rows' : \E r \in rows : Image(q, r)
          /\ \A r \in rows : \E q \in rows' : q.inbox = r.inbox /\ q.seq = r.seq
          /\ spent.rows <= spent'.rows
      BY <1>1, <1>2 DEF Image, BoxTypes
    <2> QED
      BY <1>1, <1>6, <1>11, <2>1, <2>3, <2>4, ReaderStays
  <1>12. \A c \in Readers : ReaderFits(reader[c])'
    BY <1>1, <1>2, <1>11, ReadersStay
  <1> QED
    BY <1>2, <1>6, <1>7, <1>8, <1>10, <1>12 DEF BoxInv

LEMMA DeleteFits ==
  ASSUME BoxInv, NEW i \in Ids, Boxes!DeleteInbox(i)
  PROVE  BoxInv'
  <1>1. BoxTypes /\ RowsAreApart /\ InboxesAreApart /\ \A c \in Readers : ReaderFits(reader[c])
    BY DEF BoxInv
  <1> DEFINE stay == {r \in rows : r.inbox # inbox[i]}
             Left(r) == {e \in r.tags : e[1] # inbox[i]}
             Trim(r) == [r EXCEPT !.tags = Left(r)]
  <1>2. /\ inbox[i] # 0 /\ inbox' = [inbox EXCEPT ![i] = 0]
        /\ rows' = {Trim(r) : r \in stay}
        /\ UNCHANGED <<owner, infos, send, reader, acked, spent>>
    BY DEF Boxes!DeleteInbox
  <1>12. ASSUME NEW r \in stay PROVE Trim(r) \in Boxes!RowRecords /\ Image(Trim(r), r)
    <2>1. r \in Boxes!RowRecords /\ Left(r) \in SUBSET Boxes!TagRows
      BY <1>1, RowFields
    <2>2. \A k : <<r.inbox, k>> \in r.tags => <<r.inbox, k>> \in Left(r)
      BY <1>12
    <2> HIDE DEF Left
    <2>3. /\ Trim(r) \in Boxes!RowRecords /\ Trim(r).tags = Left(r) /\ Trim(r).id = r.id
          /\ Trim(r).seq = r.seq /\ Trim(r).inbox = r.inbox /\ Trim(r).msg = r.msg
      BY <2>1 DEF Boxes!RowRecords
    <2> HIDE DEF Trim
    <2> QED
      BY <2>2, <2>3 DEF Image
  <1> HIDE DEF Trim
  <1>13. \A q \in rows' : \E r \in stay : q = Trim(r) /\ Image(q, r) /\ q \in Boxes!RowRecords
    BY <1>2, <1>12
  <1>3. /\ \A q \in rows' : \E r \in rows : Image(q, r)
        /\ \A r \in rows : r.inbox # inbox[i] => \E q \in rows' : q.inbox = r.inbox /\ q.seq = r.seq
    BY <1>2, <1>12, <1>13 DEF Image
  <1>4. BoxTypes'
    <2>1. IsFiniteSet(rows')
      <3>1. IsFiniteSet(stay)
        BY <1>1, FS_Subset DEF BoxTypes
      <3> HIDE DEF stay
      <3> DEFINE f == [r \in stay |-> Trim(r)]
      <3>2. f \in Surjection(stay, rows')
        BY <1>2 DEF Surjection
      <3> HIDE DEF f
      <3> QED
        BY <3>1, <3>2, FS_Surjection
    <2>2. rows' \subseteq Boxes!RowRecords
      BY <1>13
    <2> QED
      BY <1>1, <1>2, <2>1, <2>2 DEF BoxTypes
  <1>5. RowsAreApart'
    <2>1. \A q \in rows' : q.id <= spent'.rows /\ q.seq \in 1..spent'.rows
      BY <1>1, <1>2, <1>3 DEF RowsAreApart, Image
    <2>2. \A q, z \in rows' : q # z =>
            q.id # z.id /\ q.seq # z.seq /\ ~(q.inbox = z.inbox /\ q.msg = z.msg)
      <3> SUFFICES ASSUME NEW q \in rows', NEW z \in rows', q # z
                   PROVE  q.id # z.id /\ q.seq # z.seq /\ ~(q.inbox = z.inbox /\ q.msg = z.msg)
        OBVIOUS
      <3>1. PICK r \in rows : q = Trim(r) /\ Image(q, r)
        BY <1>13
      <3>2. PICK y \in rows : z = Trim(y) /\ Image(z, y)
        BY <1>13
      <3>3. r # y
        BY <3>1, <3>2
      <3> QED
        BY <1>1, <3>1, <3>2, <3>3 DEF RowsAreApart, Image
    <2> QED
      BY <2>1, <2>2 DEF RowsAreApart
  <1>6. \A j \in Ids : inbox'[j] = IF j = i THEN 0 ELSE inbox[j]
    BY <1>1, <1>2 DEF BoxTypes
  <1>7. InboxesAreApart'
    <2>1. PICK n \in Nat : \A j \in Ids : inbox[j] <= n
      BY <1>1 DEF InboxesAreApart
    <2>2. \A j \in Ids : inbox'[j] <= n
      BY <1>6, <2>1
    <2>3. \A j, l \in Ids : inbox'[j] = inbox'[l] /\ inbox'[j] # 0 => j = l
      BY <1>1, <1>6 DEF InboxesAreApart
    <2>4. \A j \in Ids : owner'[j] = 0 => inbox'[j] = 0
      BY <1>1, <1>2, <1>6 DEF InboxesAreApart
    <2> QED
      BY <2>2, <2>3, <2>4 DEF InboxesAreApart
  <1>8. PICK num \in [Ids -> Nat] : NumbersLast(num)
    BY DEF BoxInv
  <1>9. NumbersLast(num)'
    <2>1. \A j \in Ids : inbox'[j] # 0 => num[j] = inbox'[j]
      BY <1>6, <1>8 DEF NumbersLast
    <2>2. ASSUME NEW k, NEW n, NEW m, \A r \in rows : r.id = k => r.inbox = n /\ r.msg = m
          PROVE  \A q \in rows' : q.id = k => q.inbox = n /\ q.msg = m
      BY <1>3, <2>2 DEF Image
    <2>3. \A s \in Senders : LET x == send[s] IN
            x.pc # "idle" =>
              /\ x.number = Of(num, x.inbox) /\ Made(x.inbox) /\ x.msg \in Messages
              /\ x.pc = "inserted" =>
                   /\ x.id <= spent.rows
                   /\ \A q \in rows' : q.id = x.id => q.inbox = x.number /\ q.msg = x.msg
      BY <1>8, <2>2 DEF NumbersLast
    <2>4. \A x \in acked :
            /\ Made(x.inbox) /\ x.id <= spent.rows
            /\ \A q \in rows' : q.id = x.id => q.inbox = Of(num, x.inbox) /\ q.msg = x.msg
      BY <1>8, <2>2 DEF NumbersLast
    <2>5. \A w \in Workers, j \in Ids : infos[w][j] # Unknown =>
            owner[j] # 0 /\ (infos[w][j] # NotFound => infos[w][j].number = num[j])
      BY <1>8 DEF NumbersLast
    <2> QED
      BY <1>2, <2>1, <2>3, <2>4, <2>5 DEF NumbersLast, Made, Of
  <1>10. ASSUME NEW x \in Followers, ReaderFits(x) PROVE ReaderFits(x)'
    <2>1. x.inbox \in Ids \cup {Shared} /\ Made(x.inbox) /\ Made(x.inbox)'
      BY <1>2, <1>10 DEF ReaderFits, Followers, Made
    <2>2. Boxes!Live(x.inbox)'
            => Boxes!Live(x.inbox) /\ Boxes!NumberOf(x.inbox)' = Boxes!NumberOf(x.inbox)
      BY <1>2, <1>6, <2>1 DEF Boxes!Live, Boxes!NumberOf
    <2>3. Boxes!Live(x.inbox)' => Boxes!NumberOf(x.inbox) # inbox[i]
      BY <1>1, <1>2, <1>6, <2>1 DEF Boxes!Live, Boxes!NumberOf, InboxesAreApart
    <2>4. /\ \A q \in rows' : \E r \in rows : Image(q, r)
          /\ Boxes!Live(x.inbox)' => \A r \in rows : r.inbox = Boxes!NumberOf(x.inbox) =>
                                 \E q \in rows' : q.inbox = r.inbox /\ q.seq = r.seq
          /\ spent.rows <= spent'.rows
      BY <1>1, <1>2, <1>3, <2>3 DEF BoxTypes
    <2> QED
      BY <1>1, <1>4, <1>10, <2>1, <2>2, <2>4, ReaderStays
  <1>11. \A c \in Readers : ReaderFits(reader[c])'
    BY <1>1, <1>2, <1>10, ReadersStay
  <1> QED
    BY <1>2, <1>4, <1>5, <1>7, <1>9, <1>11 DEF BoxInv

LEMMA LearnFits ==
  ASSUME BoxInv, NEW w \in Workers, NEW i \in Ids, Boxes!Learn(w, i)
  PROVE  BoxInv'
  <1> DEFINE k == IF inbox[i] = 0 THEN NotFound ELSE [account |-> owner[i], number |-> inbox[i]]
  <1>1. BoxTypes /\ RowsAreApart /\ InboxesAreApart /\ \A c \in Readers : ReaderFits(reader[c])
    BY DEF BoxInv
  <1>2. /\ owner[i] # 0 /\ infos' = [infos EXCEPT ![w][i] = k]
        /\ UNCHANGED <<inbox, owner, rows, send, reader, acked, spent>>
    BY DEF Boxes!Learn
  <1>3. PICK num \in [Ids -> Nat] : NumbersLast(num)
    BY DEF BoxInv
  <1>4. k \in Caches /\ (k # NotFound => k.number = num[i])
    <2>1. owner[i] \in Accounts /\ inbox[i] \in Nat
      BY <1>1, <1>2 DEF BoxTypes
    <2>2. inbox[i] # 0 => num[i] = inbox[i]
      BY <1>3 DEF NumbersLast
    <2> QED
      BY <2>1, <2>2 DEF Caches
  <1> HIDE DEF k
  <1>5. \A v \in Workers, j \in Ids : infos'[v][j] = IF v = w /\ j = i THEN k ELSE infos[v][j]
    BY <1>1, <1>2 DEF BoxTypes
  <1>6. BoxTypes'
    BY <1>1, <1>2, <1>4 DEF BoxTypes
  <1>7. RowsAreApart' /\ InboxesAreApart'
    BY <1>1, <1>2 DEF RowsAreApart, InboxesAreApart
  <1>8. NumbersLast(num)'
    <2>1. \A v \in Workers, j \in Ids : infos'[v][j] # Unknown =>
            owner[j] # 0 /\ (infos'[v][j] # NotFound => infos'[v][j].number = num[j])
      BY <1>2, <1>3, <1>4, <1>5 DEF NumbersLast
    <2> QED
      BY <1>2, <1>3, <2>1 DEF NumbersLast, Made, Of
  <1>9. \A c \in Readers : ReaderFits(reader[c])'
    BY <1>1, <1>2 DEF ReaderFits, Made, Boxes!Live, Boxes!NumberOf, Told, Asked, Boxes!Matches
  <1> QED
    BY <1>6, <1>7, <1>8, <1>9 DEF BoxInv

\* A call that has inserted or found its row, of the inbox that it names.
LEMMA CallFits ==
  ASSUME BoxInv, NEW s \in Senders, NEW w \in Workers, NEW i \in Ids \cup {Shared},
         NEW m \in Messages, Boxes!InsertMessage(s, w, i, m)
  PROVE  LET number == Boxes!Info(w, i).number
             row == [id |-> spent.rows + 1, seq |-> Boxes!NextNumber({r.seq : r \in rows}),
                     inbox |-> number, msg |-> m, tags |-> {}]
         IN  /\ row \in Boxes!RowRecords /\ Comes(row) /\ row.seq \in 1..spent.rows + 1
             /\ \A x \in rows : x.seq # row.seq /\ x.id # row.id
  <1> DEFINE number == Boxes!Info(w, i).number
             row == [id |-> spent.rows + 1, seq |-> Boxes!NextNumber({r.seq : r \in rows}),
                     inbox |-> number, msg |-> m, tags |-> {}]
  <1>1. BoxTypes /\ RowsAreApart
    BY DEF BoxInv
  <1>2. number \in Nat
    <2>1. PICK num \in [Ids -> Nat] : NumbersLast(num)
      BY DEF BoxInv
    <2> QED
      BY <1>1, <2>1, InfoIs DEF Boxes!InsertMessage
  <1>3. spent.rows \in Nat
    BY <1>1 DEF BoxTypes
  <1>4. \A r \in rows : r.id \in Nat /\ r.seq \in Nat /\ r.id <= spent.rows /\ r.seq <= spent.rows
    BY <1>1, <1>3, RowFields DEF RowsAreApart
  <1>5. row.seq \in 1..spent.rows + 1 /\ \A r \in rows : r.seq < row.seq
    <2> DEFINE S == {r.seq : r \in rows}
    <2>1. S \in SUBSET Nat /\ \A x \in S : x <= spent.rows
      BY <1>4
    <2>2. Boxes!NextNumber(S) \in 1..spent.rows + 1 /\ \A x \in S : x < Boxes!NextNumber(S)
      BY <1>3, <2>1, NextNumberIs
    <2> QED
      BY <2>2
  <1>6. row \in Boxes!RowRecords
    BY <1>2, <1>3, <1>5 DEF Boxes!RowRecords
  <1>7. row.id = spent.rows + 1
    OBVIOUS
  <1> HIDE DEF row
  <1>8. Comes(row)
    BY <1>3, <1>4, <1>5, <1>7 DEF Comes
  <1>9. \A x \in rows : x.seq # row.seq /\ x.id # row.id
    BY <1>3, <1>4, <1>5, <1>7
  <1> QED
    BY <1>5, <1>6, <1>8, <1>9 DEF row

LEMMA InsertFits ==
  ASSUME BoxInv, NEW s \in Senders, NEW w \in Workers, NEW i \in Ids \cup {Shared},
         NEW m \in Messages, Boxes!InsertMessage(s, w, i, m)
  PROVE  BoxInv'
  <1> DEFINE number == Boxes!Info(w, i).number
             row == [id |-> spent.rows + 1, seq |-> Boxes!NextNumber({r.seq : r \in rows}),
                     inbox |-> number, msg |-> m, tags |-> {}]
             call == [pc |-> "inserted", inbox |-> i, number |-> number, msg |-> m, id |-> row.id,
                      seq |-> row.seq]
  <1>1. BoxTypes /\ RowsAreApart /\ InboxesAreApart /\ \A c \in Readers : ReaderFits(reader[c])
    BY DEF BoxInv
  <1>2. PICK num \in [Ids -> Nat] : NumbersLast(num)
    BY DEF BoxInv
  <1>3. Made(i) /\ number = Of(num, i) /\ number \in Nat
    BY <1>1, <1>2, InfoIs DEF Boxes!InsertMessage
  <1>4. UNCHANGED <<inbox, owner, infos, reader, acked>>
    BY DEF Boxes!InsertMessage
  <1>5. /\ row \in Boxes!RowRecords /\ Comes(row) /\ row.seq \in 1..spent.rows + 1
        /\ \A x \in rows : x.seq # row.seq /\ x.id # row.id
    BY CallFits
  <1>6. row.id = spent.rows + 1 /\ row.inbox = number /\ row.msg = m /\ spent.rows \in Nat
    BY <1>1 DEF BoxTypes
  <1>7. PICK n \in Sends :
          /\ n.inbox = i /\ n.number = number /\ n.msg = m
          /\ send' = [send EXCEPT ![s] = n]
          /\ \/ /\ n.pc = "inserted" /\ n.id = row.id
                /\ Boxes!Same(number, m) = {}
                /\ rows' = rows \cup {row} /\ spent' = [spent EXCEPT !.sends = @ + 1, !.rows = @ + 1]
             \/ /\ n.pc = "exists"
                /\ rows' = rows /\ spent' = [spent EXCEPT !.sends = @ + 1]
    <2>1. call \in Sends /\ [call EXCEPT !.pc = "exists"] \in Sends
      <3>1. row.id \in Nat /\ row.seq \in Nat
        BY <1>5, <1>6
      <3> HIDE DEF row
      <3> QED
        BY <1>3, <3>1 DEF Sends
    <2>2. CASE Boxes!Same(number, m) = {}
      <3>1. send' = [send EXCEPT ![s] = call] /\ rows' = rows \cup {row}
            /\ spent' = [spent EXCEPT !.sends = @ + 1, !.rows = @ + 1]
        BY <2>2 DEF Boxes!InsertMessage
      <3> HIDE DEF row
      <3> QED
        BY <2>1, <2>2, <3>1
    <2>3. CASE Boxes!Same(number, m) # {}
      <3>1. send' = [send EXCEPT ![s] = [call EXCEPT !.pc = "exists"]] /\ rows' = rows
            /\ spent' = [spent EXCEPT !.sends = @ + 1]
        BY <2>3 DEF Boxes!InsertMessage
      <3> HIDE DEF row
      <3> QED
        BY <2>1, <3>1
    <2> QED
      BY <2>2, <2>3
  <1> HIDE DEF call, row, number
  <1>8. /\ spent' \in [rows : Nat, sends : Nat, crashes : Nat, queries : Nat]
        /\ spent.rows <= spent'.rows
        /\ \/ rows' = rows
           \/ spent'.rows = spent.rows + 1 /\ rows' = rows \cup {row}
    <2>1. spent \in [rows : Nat, sends : Nat, crashes : Nat, queries : Nat]
      BY <1>1 DEF BoxTypes
    <2>2. CASE spent' = [spent EXCEPT !.sends = @ + 1, !.rows = @ + 1]
      <3>1. spent'.rows = spent.rows + 1 /\ spent.rows <= spent'.rows
        BY <2>1, <2>2
      <3> DEFINE a == spent.sends + 1
                 b == spent.rows + 1
      <3>4. a \in Nat /\ b \in Nat /\ spent' = [spent EXCEPT !.sends = a, !.rows = b]
        BY <2>1, <2>2
      <3>2. spent' \in [rows : Nat, sends : Nat, crashes : Nat, queries : Nat]
        <4> HIDE DEF a, b
        <4> QED
          BY <2>1, <3>4
      <3>3. rows' = rows \/ rows' = rows \cup {row}
        BY <1>7
      <3> QED
        BY <3>1, <3>2, <3>3
    <2>3. CASE spent' = [spent EXCEPT !.sends = @ + 1] /\ rows' = rows
      BY <2>1, <2>3
    <2> QED
      BY <1>7, <2>2, <2>3
  <1>9. BoxTypes'
    <2>1. IsFiniteSet(rows') /\ rows' \subseteq Boxes!RowRecords
      BY <1>1, <1>5, <1>8, FS_AddElement DEF BoxTypes
    <2>2. send' \in [Senders -> Sends]
      BY <1>1, <1>7 DEF BoxTypes
    <2> QED
      BY <1>1, <1>4, <1>8, <2>1, <2>2 DEF BoxTypes
  <1>10. RowsAreApart'
    <2>1. \A r \in rows' : r.id <= spent'.rows /\ r.seq \in 1..spent'.rows
      <3>1. \A r \in rows : r.id \in Nat /\ r.seq \in Nat /\ r.id <= spent.rows /\ r.seq \in 1..spent.rows
        BY <1>1, RowFields DEF RowsAreApart
      <3>2. spent'.rows \in Nat
        BY <1>8
      <3> QED
        BY <1>5, <1>6, <1>8, <3>1, <3>2
    <2>2. \A r, x \in rows' : r # x => r.id # x.id /\ r.seq # x.seq
      BY <1>1, <1>5, <1>8 DEF RowsAreApart
    <2>3. \A r, x \in rows' : r.inbox = x.inbox /\ r.msg = x.msg => r = x
      BY <1>1, <1>6, <1>7 DEF RowsAreApart, Boxes!Same
    <2> QED
      BY <2>1, <2>2, <2>3 DEF RowsAreApart
  <1>11. InboxesAreApart'
    BY <1>1, <1>4 DEF InboxesAreApart
  <1>12. NumbersLast(num)'
    <2>1. ASSUME NEW t \in Senders, send'[t].pc # "idle"
          PROVE  /\ send'[t].number = Of(num, send'[t].inbox)
                 /\ send'[t].inbox = Shared \/ owner[send'[t].inbox] # 0
                 /\ send'[t].msg \in Messages
                 /\ send'[t].pc = "inserted" =>
                      /\ send'[t].id <= spent'.rows
                      /\ \A r \in rows' : r.id = send'[t].id =>
                           r.inbox = send'[t].number /\ r.msg = send'[t].msg
      <3>1. CASE t = s
        <4>1. send'[t] = n
          BY <1>1, <1>7, <3>1 DEF BoxTypes
        <4>2. n.pc = "inserted" =>
                n.id = row.id /\ rows' = rows \cup {row} /\ spent'.rows = spent.rows + 1
          BY <1>1, <1>7 DEF BoxTypes
        <4>3. n.pc = "inserted" =>
                /\ n.id <= spent'.rows
                /\ \A r \in rows' : r.id = n.id => r = row
          BY <1>5, <1>6, <4>2
        <4> QED
          BY <1>3, <1>6, <1>7, <4>1, <4>3 DEF Made
      <3>2. CASE t # s
        <4>1. send'[t] = send[t]
          BY <1>1, <1>7, <3>2 DEF BoxTypes
        <4>2. /\ send[t].number = Of(num, send[t].inbox) /\ Made(send[t].inbox)
              /\ send[t].msg \in Messages
              /\ send[t].pc = "inserted" =>
                   /\ send[t].id <= spent.rows
                   /\ \A r \in rows : r.id = send[t].id
                           => r.inbox = send[t].number /\ r.msg = send[t].msg
          BY <1>2, <2>1, <4>1 DEF NumbersLast
        <4>3. send[t].id \in Nat
          BY <1>1 DEF BoxTypes, Sends
        <4>4. send[t].id <= spent.rows => send[t].id # row.id /\ send[t].id <= spent'.rows
          BY <1>6, <1>8, <4>3
        <4>5. \A r \in rows' : r = row \/ r \in rows
          BY <1>8
        <4> QED
          BY <4>1, <4>2, <4>4, <4>5 DEF Made
      <3> QED
        BY <3>1, <3>2
    <2>2. ASSUME NEW x \in acked
          PROVE  /\ Made(x.inbox) /\ x.id <= spent'.rows
                 /\ \A r \in rows' : r.id = x.id => r.inbox = Of(num, x.inbox) /\ r.msg = x.msg
      <3>1. /\ Made(x.inbox) /\ x.id <= spent.rows /\ x.id \in Nat
            /\ \A r \in rows : r.id = x.id => r.inbox = Of(num, x.inbox) /\ r.msg = x.msg
        BY <1>1, <1>2 DEF NumbersLast, BoxTypes
      <3>2. x.id # row.id /\ x.id <= spent'.rows
        BY <1>6, <1>8, <3>1
      <3>3. \A r \in rows' : r = row \/ r \in rows
        BY <1>8
      <3> QED
        BY <3>1, <3>2, <3>3
    <2>3. /\ \A j \in Ids : inbox[j] # 0 => num[j] = inbox[j]
          /\ \A v \in Workers, j \in Ids : infos[v][j] # Unknown =>
               owner[j] # 0 /\ (infos[v][j] # NotFound => infos[v][j].number = num[j])
      BY <1>2 DEF NumbersLast
    <2> QED
      BY <1>4, <2>1, <2>2, <2>3 DEF NumbersLast, Made, Of
  <1>13. ASSUME NEW x \in Followers, ReaderFits(x) PROVE ReaderFits(x)'
    <2>1. /\ Made(x.inbox)'
          /\ Boxes!Live(x.inbox)' = Boxes!Live(x.inbox)
          /\ Boxes!NumberOf(x.inbox)' = Boxes!NumberOf(x.inbox)
      BY <1>4, <1>13 DEF ReaderFits, Made, Boxes!Live, Boxes!NumberOf
    <2>2. /\ \A q \in rows' : Comes(q) \/ \E r \in rows : Image(q, r)
          /\ \A r \in rows : \E q \in rows' : q.inbox = r.inbox /\ q.seq = r.seq
      BY <1>5, <1>8 DEF Image
    <2> QED
      BY <1>1, <1>8, <1>9, <1>13, <2>1, <2>2, ReaderStays
  <1>14. \A c \in Readers : ReaderFits(reader[c])'
    BY <1>1, <1>4, <1>13, ReadersStay
  <1> QED
    BY <1>9, <1>10, <1>11, <1>12, <1>14 DEF BoxInv

\* The answer of a call: the message has been in the inbox with this id.
LEMMA AckedLasts ==
  ASSUME BoxTypes, NEW num \in [Ids -> Nat], NumbersLast(num), NEW s \in Senders, NEW id \in Nat,
         send[s].pc # "idle", id <= spent.rows,
         \A r \in rows : r.id = id => r.inbox = send[s].number /\ r.msg = send[s].msg,
         UNCHANGED <<inbox, owner, infos, spent>>, Boxes!Acknowledge(s, id),
         \A q \in rows' : \E r \in rows : Image(q, r)
  PROVE  /\ NumbersLast(num)' /\ send' \in [Senders -> Sends]
         /\ acked' \subseteq [inbox : Ids \cup {Shared}, msg : Messages, id : Nat]
  <1> DEFINE y == [inbox |-> send[s].inbox, msg |-> send[s].msg, id |-> id]
  <1>1. /\ send' = [send EXCEPT ![s] = Boxes!IdleSend] /\ acked' = acked \cup {y}
    BY DEF Boxes!Acknowledge
  <1>2. /\ send[s].number = Of(num, send[s].inbox) /\ Made(send[s].inbox) /\ send[s].msg \in Messages
        /\ send[s].inbox \in Ids \cup {Shared}
    BY DEF NumbersLast, BoxTypes, Sends
  <1>3. /\ y.inbox = send[s].inbox /\ y.msg = send[s].msg /\ y.id = id
        /\ y \in [inbox : Ids \cup {Shared}, msg : Messages, id : Nat]
    BY <1>2
  <1> HIDE DEF y
  <1>4. Boxes!IdleSend \in Sends /\ Boxes!IdleSend.pc = "idle"
    BY DEF Boxes!IdleSend, Sends
  <1>5. /\ send' \in [Senders -> Sends]
        /\ \A t \in Senders : send'[t] = IF t = s THEN Boxes!IdleSend ELSE send[t]
    BY <1>1, <1>4 DEF BoxTypes
  <1>6. \A x \in acked' :
          /\ Made(x.inbox) /\ x.id <= spent.rows
          /\ \A q \in rows' : q.id = x.id => q.inbox = Of(num, x.inbox) /\ q.msg = x.msg
    <2> SUFFICES ASSUME NEW x \in acked'
                 PROVE  /\ Made(x.inbox) /\ x.id <= spent.rows
                        /\ \A q \in rows' : q.id = x.id => q.inbox = Of(num, x.inbox) /\ q.msg = x.msg
      OBVIOUS
    <2>1. /\ Made(x.inbox) /\ x.id <= spent.rows
          /\ \A r \in rows : r.id = x.id => r.inbox = Of(num, x.inbox) /\ r.msg = x.msg
      <3>1. CASE x \in acked
        BY <3>1 DEF NumbersLast
      <3>2. CASE x = y
        BY <1>2, <1>3, <3>2
      <3> QED
        BY <1>1, <3>1, <3>2
    <2> QED
      BY <2>1 DEF Image
  <1>7. ASSUME NEW t \in Senders, send'[t].pc # "idle"
        PROVE  /\ send'[t].number = Of(num, send'[t].inbox)
               /\ send'[t].inbox = Shared \/ owner[send'[t].inbox] # 0
               /\ send'[t].msg \in Messages
               /\ send'[t].pc = "inserted" =>
                    /\ send'[t].id <= spent.rows
                    /\ \A q \in rows' : q.id = send'[t].id =>
                         q.inbox = send'[t].number /\ q.msg = send'[t].msg
    <2>1. send'[t] = send[t]
      BY <1>4, <1>5, <1>7
    <2>2. /\ send[t].number = Of(num, send[t].inbox) /\ Made(send[t].inbox)
          /\ send[t].msg \in Messages
          /\ send[t].pc = "inserted" =>
               /\ send[t].id <= spent.rows
               /\ \A r \in rows : r.id = send[t].id => r.inbox = send[t].number /\ r.msg = send[t].msg
      BY <1>7, <2>1 DEF NumbersLast
    <2> QED
      BY <2>1, <2>2 DEF Made, Image
  <1>8. /\ \A j \in Ids : inbox[j] # 0 => num[j] = inbox[j]
        /\ \A v \in Workers, j \in Ids : infos[v][j] # Unknown =>
             owner[j] # 0 /\ (infos[v][j] # NotFound => infos[v][j].number = num[j])
    BY DEF NumbersLast
  <1>9. NumbersLast(num)'
    BY <1>6, <1>7, <1>8 DEF NumbersLast, Made, Of
  <1> QED
    BY <1>1, <1>3, <1>5, <1>9 DEF BoxTypes

\* The tags of a message leave its row what it is.
LEMMA TagsFit ==
  ASSUME BoxInv, NEW s \in Senders, Boxes!InsertTags(s)
  PROVE  BoxInv'
  <1>1. BoxTypes /\ RowsAreApart /\ InboxesAreApart /\ \A c \in Readers : ReaderFits(reader[c])
    BY DEF BoxInv
  <1>2. PICK num \in [Ids -> Nat] : NumbersLast(num)
    BY DEF BoxInv
  <1> DEFINE id == send[s].id
             at == {r \in rows : r.seq = send[s].seq}
             new == {send[s].number} \X TagsOf[send[s].msg]
  <1>3. /\ send[s].pc = "inserted" /\ at # {}
        /\ rows' = (rows \ at) \cup {[r EXCEPT !.tags = @ \cup new] : r \in at}
        /\ Boxes!Acknowledge(s, id) /\ UNCHANGED <<inbox, owner, infos, reader, spent>>
    BY DEF Boxes!InsertTags, Boxes!TagsGoIn
  <1>4. PICK o \in rows : o.seq = send[s].seq
    BY <1>3
  <1>5. at = {o}
    BY <1>1, <1>4 DEF RowsAreApart
  <1> DEFINE tags == o.tags \cup new
             t == [o EXCEPT !.tags = tags]
  <1>6. rows' = (rows \ {o}) \cup {t}
    BY <1>3, <1>5
  <1> HIDE DEF at
  <1>7. t \in Boxes!RowRecords /\ Image(t, o) /\ o \in Boxes!RowRecords
    <2>1. send[s].number \in Nat /\ send[s].msg \in Messages
      BY <1>1, <1>2, <1>3 DEF BoxTypes, Sends, NumbersLast
    <2>2. new \in SUBSET Boxes!TagRows
      BY <2>1 DEF Boxes!TagRows
    <2> HIDE DEF new
    <2>3. o \in Boxes!RowRecords /\ tags \in SUBSET Boxes!TagRows
      BY <1>1, <2>2, RowFields
    <2>4. \A k : <<o.inbox, k>> \in o.tags => <<o.inbox, k>> \in tags
      OBVIOUS
    <2> HIDE DEF tags
    <2>5. /\ t.id = o.id /\ t.seq = o.seq /\ t.inbox = o.inbox /\ t.msg = o.msg /\ t.tags = tags
          /\ t \in Boxes!RowRecords
      BY <2>3 DEF Boxes!RowRecords
    <2> HIDE DEF t
    <2> QED
      BY <2>3, <2>4, <2>5 DEF Image
  <1> HIDE DEF t, new, tags
  <1>8. \A q \in rows' : \E r \in rows : Image(q, r) /\ (r # o => q = r)
    BY <1>6, <1>7 DEF Image
  <1>9. \A r \in rows : \E q \in rows' : q.inbox = r.inbox /\ q.seq = r.seq
    BY <1>6, <1>7 DEF Image
  <1>10. IsFiniteSet(rows') /\ rows' \subseteq Boxes!RowRecords
    <2>1. IsFiniteSet(rows \ {o})
      BY <1>1, FS_Subset DEF BoxTypes
    <2>2. IsFiniteSet(rows')
      BY <1>6, <2>1, FS_AddElement
    <2> QED
      BY <1>1, <1>6, <1>7, <2>2 DEF BoxTypes
  <1>11. /\ NumbersLast(num)' /\ send' \in [Senders -> Sends]
         /\ acked' \subseteq [inbox : Ids \cup {Shared}, msg : Messages, id : Nat]
    <2>1. id \in Nat /\ id <= spent.rows
          /\ \A r \in rows : r.id = id => r.inbox = send[s].number /\ r.msg = send[s].msg
      BY <1>1, <1>2, <1>3 DEF NumbersLast, BoxTypes, Sends
    <2> QED
      BY <1>1, <1>2, <1>3, <1>8, <2>1, AckedLasts
  <1>12. BoxTypes'
    BY <1>1, <1>3, <1>10, <1>11 DEF BoxTypes
  <1>13. RowsAreApart'
    <2>1. \A q \in rows' : q.id <= spent'.rows /\ q.seq \in 1..spent'.rows
      BY <1>1, <1>3, <1>8 DEF RowsAreApart, Image
    <2>2. \A q, z \in rows' : q # z => q.id # z.id /\ q.seq # z.seq
      BY <1>1, <1>6, <1>7 DEF RowsAreApart, Image
    <2>3. \A q, z \in rows' : q.inbox = z.inbox /\ q.msg = z.msg => q = z
      BY <1>1, <1>6, <1>7 DEF RowsAreApart, Image
    <2> QED
      BY <2>1, <2>2, <2>3 DEF RowsAreApart
  <1>14. InboxesAreApart'
    BY <1>1, <1>3 DEF InboxesAreApart
  <1>15. ASSUME NEW x \in Followers, ReaderFits(x) PROVE ReaderFits(x)'
    <2>1. /\ Made(x.inbox)'
          /\ Boxes!Live(x.inbox)' = Boxes!Live(x.inbox)
          /\ Boxes!NumberOf(x.inbox)' = Boxes!NumberOf(x.inbox)
      BY <1>3, <1>15 DEF ReaderFits, Made, Boxes!Live, Boxes!NumberOf
    <2>2. spent.rows <= spent'.rows
      BY <1>1, <1>3 DEF BoxTypes
    <2> QED
      BY <1>1, <1>8, <1>9, <1>12, <1>15, <2>1, <2>2, ReaderStays
  <1>16. \A c \in Readers : ReaderFits(reader[c])'
    BY <1>1, <1>3, <1>15, ReadersStay
  <1> QED
    BY <1>11, <1>12, <1>13, <1>14, <1>16 DEF BoxInv

LEMMA SelectFits ==
  ASSUME BoxInv, NEW s \in Senders, Boxes!SelectExisting(s)
  PROVE  BoxInv'
  <1>1. BoxTypes /\ RowsAreApart /\ InboxesAreApart /\ \A c \in Readers : ReaderFits(reader[c])
    BY DEF BoxInv
  <1>2. PICK num \in [Ids -> Nat] : NumbersLast(num)
    BY DEF BoxInv
  <1>3. /\ send[s].pc # "idle" /\ UNCHANGED <<inbox, owner, rows, infos, reader, spent>>
    BY DEF Boxes!SelectExisting
  <1>4. PICK r \in rows : r.inbox = send[s].number /\ r.msg = send[s].msg /\ Boxes!Acknowledge(s, r.id)
    BY DEF Boxes!SelectExisting, Boxes!Same
  <1>5. r.id \in Nat /\ r.id <= spent.rows /\ \A x \in rows : x.id = r.id => x = r
    BY <1>1, RowFields DEF RowsAreApart
  <1>6. \A q \in rows' : \E x \in rows : Image(q, x)
    BY <1>3 DEF Image
  <1>7. /\ NumbersLast(num)' /\ send' \in [Senders -> Sends]
        /\ acked' \subseteq [inbox : Ids \cup {Shared}, msg : Messages, id : Nat]
    BY <1>1, <1>2, <1>3, <1>4, <1>5, <1>6, AckedLasts
  <1>8. BoxTypes' /\ RowsAreApart' /\ InboxesAreApart'
    BY <1>1, <1>3, <1>7 DEF BoxTypes, RowsAreApart, InboxesAreApart
  <1>9. \A c \in Readers : ReaderFits(reader[c])'
    BY <1>1, <1>3 DEF ReaderFits, Made, Boxes!Live, Boxes!NumberOf, Told, Asked, Boxes!Matches
  <1> QED
    BY <1>7, <1>8, <1>9 DEF BoxInv

LEMMA EndOfSendFits ==
  ASSUME BoxInv, NEW s \in Senders, Boxes!SendFails(s) \/ Boxes!Crash(s)
  PROVE  BoxInv'
  <1>1. BoxTypes /\ RowsAreApart /\ InboxesAreApart /\ \A c \in Readers : ReaderFits(reader[c])
    BY DEF BoxInv
  <1>2. PICK num \in [Ids -> Nat] : NumbersLast(num)
    BY DEF BoxInv
  <1>3. /\ send' = [send EXCEPT ![s] = Boxes!IdleSend]
        /\ UNCHANGED <<inbox, owner, rows, infos, reader, acked>>
    BY DEF Boxes!SendFails, Boxes!Crash
  <1>4. spent' \in [rows : Nat, sends : Nat, crashes : Nat, queries : Nat] /\ spent'.rows = spent.rows
    BY <1>1 DEF Boxes!SendFails, Boxes!Crash, BoxTypes
  <1>5. Boxes!IdleSend \in Sends /\ Boxes!IdleSend.pc = "idle"
    BY DEF Boxes!IdleSend, Sends
  <1>6. /\ send' \in [Senders -> Sends]
        /\ \A t \in Senders : send'[t].pc # "idle" => send'[t] = send[t]
    BY <1>1, <1>3, <1>5 DEF BoxTypes
  <1>7. BoxTypes' /\ RowsAreApart' /\ InboxesAreApart'
    BY <1>1, <1>3, <1>4, <1>6 DEF BoxTypes, RowsAreApart, InboxesAreApart
  <1>8. NumbersLast(num)'
    BY <1>2, <1>3, <1>4, <1>6 DEF NumbersLast, Made, Of
  <1>9. \A c \in Readers : ReaderFits(reader[c])'
    BY <1>1, <1>3, <1>4 DEF ReaderFits, Made, Boxes!Live, Boxes!NumberOf, Told, Asked, Boxes!Matches
  <1> QED
    BY <1>7, <1>8, <1>9 DEF BoxInv

\* A step of one reader.
LEMMA OneReads ==
  ASSUME BoxInv, NEW c \in Readers, UNCHANGED <<inbox, owner, rows, infos, send, acked>>,
         spent' \in [rows : Nat, sends : Nat, crashes : Nat, queries : Nat], spent'.rows = spent.rows,
         reader' \in [Readers -> Followers],
         \A d \in Readers \ {c} : reader'[d] = reader[d], ReaderFits(reader'[c])
  PROVE  BoxInv'
  <1>1. BoxTypes /\ RowsAreApart /\ InboxesAreApart /\ \A d \in Readers : ReaderFits(reader[d])
    BY DEF BoxInv
  <1>2. PICK num \in [Ids -> Nat] : NumbersLast(num)
    BY DEF BoxInv
  <1>3. BoxTypes' /\ RowsAreApart' /\ InboxesAreApart'
    BY <1>1 DEF BoxTypes, RowsAreApart, InboxesAreApart
  <1>4. NumbersLast(num)'
    BY <1>2 DEF NumbersLast, Made, Of
  <1>5. \A d \in Readers : ReaderFits(reader'[d])
    BY <1>1
  <1>6. \A d \in Readers : ReaderFits(reader[d])'
    BY <1>5 DEF ReaderFits, Made, Boxes!Live, Boxes!NumberOf, Told, Asked, Boxes!Matches
  <1> QED
    BY <1>3, <1>4, <1>6 DEF BoxInv

LEMMA IdleFits ==
  ASSUME BoxInv, NEW i \in Ids \cup {Shared}, NEW a \in Accounts \cup {0},
         NEW q \in Queries \cup {Boxes!NoQuery}, Made(i)
  PROVE  LET x == [Boxes!IdleReader EXCEPT !.inbox = i, !.account = a, !.query = q]
         IN  x \in Followers /\ ReaderFits(x) /\ x.pc = "idle" /\ x.inbox = i
  <1> DEFINE x == [Boxes!IdleReader EXCEPT !.inbox = i, !.account = a, !.query = q]
  <1>1. /\ x.pc = "idle" /\ x.inbox = i /\ x.since = 0 /\ x.step = 0
        /\ x.got = {} /\ x.page = {} /\ x.early = {} /\ x.query = q
    BY DEF Boxes!IdleReader
  <1>2. x \in Followers
    BY DEF Followers, Boxes!IdleReader
  <1> HIDE DEF x
  <1>3. \A r \in rows : r.seq \in Nat /\ ~(r.seq <= 0)
    BY RowFields DEF BoxInv, RowsAreApart, BoxTypes
  <1>4. 0 + 1 \in 1..Len(PageLimits)
    BY LimitsArePositive
  <1>5. ReaderFits(x)
    BY <1>1, <1>3, <1>4 DEF ReaderFits
  <1> QED
    BY <1>1, <1>2, <1>5 DEF x

\* The steps of readers, and what the end of a query says.
LEMMA ReadingFits ==
  ASSUME BoxInv, NEW c \in Readers, NEW w \in Workers,
         \/ Boxes!NextPage(c, w)
         \/ \E i \in Ids \cup {Shared}, a \in Accounts, q \in Queries : Boxes!Query(c, w, i, a, q)
  PROVE  /\ BoxInv'
         /\ \A d \in Readers \ {c} : reader'[d] = reader[d]
         /\ reader'[c].pc = "end" /\ Boxes!Live(reader'[c].inbox) /\ ~reader'[c].astray =>
              \A r \in rows :
                r.inbox = Boxes!NumberOf(reader'[c].inbox) /\ Asked(reader'[c], r)
                  => Told(reader'[c], r)
  <1>1. BoxTypes /\ \A d \in Readers : ReaderFits(reader[d])
    BY DEF BoxInv
  <1>2. spent' \in [rows : Nat, sends : Nat, crashes : Nat, queries : Nat] /\ spent'.rows = spent.rows
    <2>1. spent \in [rows : Nat, sends : Nat, crashes : Nat, queries : Nat]
      BY <1>1 DEF BoxTypes
    <2>2. spent' = spent \/ spent' = [spent EXCEPT !.queries = @ + 1]
      BY DEF Boxes!NextPage, Boxes!Query
    <2> QED
      BY <2>1, <2>2
  <1>3. PICK x \in Followers : ReaderFits(x) /\ Boxes!Answer(c, w, x)
    <2>1. CASE Boxes!NextPage(c, w)
      BY <1>1, <2>1 DEF Boxes!NextPage, BoxTypes
    <2>2. ASSUME NEW i \in Ids \cup {Shared}, NEW a \in Accounts, NEW q \in Queries,
                 Boxes!Query(c, w, i, a, q)
          PROVE  \E x \in Followers : ReaderFits(x) /\ Boxes!Answer(c, w, x)
      <3> DEFINE x == [Boxes!IdleReader EXCEPT !.inbox = i, !.account = a, !.query = q]
      <3>1. Boxes!Answer(c, w, x)
        BY <2>2 DEF Boxes!Query
      <3>2. x.inbox = i
        BY DEF Boxes!IdleReader
      <3>3. Made(i)
        <4>1. PICK num \in [Ids -> Nat] : NumbersLast(num)
          BY DEF BoxInv
        <4>2. Boxes!Known(w, i)
          BY <3>1, <3>2 DEF Boxes!Answer
        <4> QED
          BY <1>1, <4>1, <4>2, InfoIs
      <3>4. x \in Followers /\ ReaderFits(x)
        BY <3>3, IdleFits
      <3> QED
        BY <3>1, <3>4
    <2> QED
      BY <2>1, <2>2
  <1>4. /\ reader'[c] \in Followers /\ reader' \in [Readers -> Followers]
        /\ \A d \in Readers \ {c} : reader'[d] = reader[d]
        /\ reader'[c].inbox = x.inbox
        /\ ReaderFits(reader'[c])
        /\ reader'[c].pc = "end" /\ Boxes!Live(x.inbox) /\ ~reader'[c].astray =>
             \A r \in rows :
                r.inbox = Boxes!NumberOf(x.inbox) /\ Asked(reader'[c], r) => Told(reader'[c], r)
    BY <1>3, AnswerFits
  <1>5. UNCHANGED <<inbox, owner, rows, infos, send, acked>>
    BY <1>3 DEF Boxes!Answer
  <1>6. BoxInv'
    BY <1>2, <1>4, <1>5, OneReads
  <1> QED
    BY <1>4, <1>6

LEMMA EndFits ==
  ASSUME BoxInv, NEW c \in Readers, Boxes!EndQuery(c)
  PROVE  /\ BoxInv' /\ reader'[c].pc = "idle"
         /\ \A d \in Readers \ {c} : reader'[d] = reader[d]
  <1>1. /\ reader' = [reader EXCEPT ![c] = Boxes!IdleReader]
        /\ UNCHANGED <<inbox, owner, rows, infos, send, acked, spent>>
    BY DEF Boxes!EndQuery
  <1>2. Boxes!IdleReader \in Followers /\ ReaderFits(Boxes!IdleReader) /\ Boxes!IdleReader.pc = "idle"
    <2>1. /\ Boxes!IdleReader.step = 0 /\ Boxes!IdleReader.inbox = Shared /\ Boxes!IdleReader.got = {}
          /\ Boxes!IdleReader.page = {} /\ Boxes!IdleReader.since = 0 /\ Boxes!IdleReader.pc = "idle"
          /\ Boxes!IdleReader \in Followers
      BY DEF Boxes!IdleReader, Followers
    <2>2. \A r \in rows : r.seq \in Nat /\ ~(r.seq <= 0)
      BY RowFields DEF BoxInv, RowsAreApart, BoxTypes
    <2>3. 0 + 1 \in 1..Len(PageLimits)
      BY LimitsArePositive
    <2> QED
      BY <2>1, <2>2, <2>3 DEF ReaderFits, Made
  <1>3. BoxTypes
    BY DEF BoxInv
  <1>4. /\ reader' \in [Readers -> Followers] /\ reader'[c] = Boxes!IdleReader
        /\ \A d \in Readers \ {c} : reader'[d] = reader[d]
    BY <1>1, <1>2, <1>3 DEF BoxTypes
  <1>5. spent' \in [rows : Nat, sends : Nat, crashes : Nat, queries : Nat] /\ spent'.rows = spent.rows
    BY <1>1, <1>3 DEF BoxTypes
  <1>6. BoxInv'
    BY <1>1, <1>2, <1>4, <1>5, OneReads
  <1> QED
    BY <1>2, <1>4, <1>6

LEMMA InitBoxes ==
  ASSUME Boxes!Init
  PROVE  BoxInv
  <1>1. BoxTypes
    <2>1. Boxes!IdleReader \in Followers /\ Boxes!IdleSend \in Sends /\ Unknown \in Caches
      BY DEF Boxes!IdleReader, Followers, Boxes!IdleSend, Sends, Caches
    <2>2. IsFiniteSet(rows) /\ rows \subseteq Boxes!RowRecords
      BY FS_EmptySet DEF Boxes!Init
    <2> QED
      BY <2>1, <2>2 DEF Boxes!Init, BoxTypes
  <1>2. RowsAreApart /\ InboxesAreApart
    BY DEF Boxes!Init, RowsAreApart, InboxesAreApart
  <1>3. \E num \in [Ids -> Nat] : NumbersLast(num)
    <2>1. [i \in Ids |-> 0] \in [Ids -> Nat]
      OBVIOUS
    <2>2. Boxes!IdleSend.pc = "idle"
      BY DEF Boxes!IdleSend
    <2>3. NumbersLast([i \in Ids |-> 0])
      BY <2>2 DEF Boxes!Init, NumbersLast
    <2> QED
      BY <2>1, <2>3
  <1>4. ReaderFits(Boxes!IdleReader)
    <2>1. /\ Boxes!IdleReader.step = 0 /\ Boxes!IdleReader.inbox = Shared
          /\ Boxes!IdleReader.got = {} /\ Boxes!IdleReader.page = {}
          /\ Boxes!IdleReader.since = 0
      BY DEF Boxes!IdleReader
    <2>2. 0 + 1 \in 1..Len(PageLimits)
      BY LimitsArePositive
    <2>3. rows = {}
      BY DEF Boxes!Init
    <2> QED
      BY <2>1, <2>2, <2>3 DEF ReaderFits, Made
  <1>5. \A c \in Readers : ReaderFits(reader[c])
    BY <1>4 DEF Boxes!Init
  <1> QED
    BY <1>1, <1>2, <1>3, <1>5 DEF BoxInv

LEMMA NextBoxes ==
  ASSUME BoxInv, [Boxes!Next]_(Boxes!vars)
  PROVE  /\ BoxInv'
         /\ \A c \in Readers :
              /\ reader'[c] # reader[c] /\ reader'[c].pc = "end"
              /\ Boxes!Live(reader'[c].inbox) /\ ~reader'[c].astray
              => \A r \in rows : r.inbox = Boxes!NumberOf(reader'[c].inbox)
                                /\ Asked(reader'[c], r) => Told(reader'[c], r)
  <1> DEFINE Ends == \A c \in Readers :
              /\ reader'[c] # reader[c] /\ reader'[c].pc = "end"
              /\ Boxes!Live(reader'[c].inbox) /\ ~reader'[c].astray
              => \A r \in rows : r.inbox = Boxes!NumberOf(reader'[c].inbox)
                                /\ Asked(reader'[c], r) => Told(reader'[c], r)
  <1>1. UNCHANGED reader => Ends
    OBVIOUS
  <1>2. ASSUME NEW i \in Ids, (\E a \in Accounts : Boxes!CreateInbox(i, a)) \/ Boxes!DeleteInbox(i)
        PROVE  BoxInv' /\ Ends
    <2>1. UNCHANGED reader
      BY <1>2 DEF Boxes!CreateInbox, Boxes!DeleteInbox
    <2> QED
      BY <1>1, <1>2, <2>1, CreateFits, DeleteFits
  <1>3. ASSUME NEW w \in Workers, NEW i \in Ids, Boxes!Learn(w, i) PROVE BoxInv' /\ Ends
    <2>1. UNCHANGED reader
      BY <1>3 DEF Boxes!Learn
    <2> QED
      BY <1>1, <1>3, <2>1, LearnFits
  <1>4. ASSUME NEW s \in Senders, NEW w \in Workers, NEW i \in Ids \cup {Shared}, NEW m \in Messages,
               Boxes!InsertMessage(s, w, i, m)
        PROVE  BoxInv' /\ Ends
    <2>1. UNCHANGED reader
      BY <1>4 DEF Boxes!InsertMessage
    <2> QED
      BY <1>1, <1>4, <2>1, InsertFits
  <1>5. ASSUME NEW s \in Senders, Boxes!InsertTags(s) \/ Boxes!SelectExisting(s)
                                  \/ Boxes!SendFails(s) \/ Boxes!Crash(s)
        PROVE  BoxInv' /\ Ends
    <2>1. UNCHANGED reader
      BY <1>5 DEF Boxes!InsertTags, Boxes!SelectExisting, Boxes!SendFails, Boxes!Crash
    <2> QED
      BY <1>1, <1>5, <2>1, TagsFit, SelectFits, EndOfSendFits
  <1>6. ASSUME NEW c \in Readers, NEW w \in Workers,
               \/ Boxes!NextPage(c, w)
               \/ \E i \in Ids \cup {Shared}, a \in Accounts, q \in Queries : Boxes!Query(c, w, i, a, q)
        PROVE  BoxInv' /\ Ends
    BY <1>6, ReadingFits
  <1>7. ASSUME NEW c \in Readers, Boxes!EndQuery(c) PROVE BoxInv' /\ Ends
    BY <1>7, EndFits
  <1>8. ASSUME UNCHANGED Boxes!vars PROVE BoxInv' /\ Ends
    <2>1. UNCHANGED reader
      BY <1>8 DEF Boxes!vars
    <2>2. BoxInv'
      <3>1. UNCHANGED <<inbox, owner, rows, infos, send, reader, acked, spent>>
        BY <1>8 DEF Boxes!vars
      <3>2. BoxTypes' /\ RowsAreApart' /\ InboxesAreApart'
        BY <3>1 DEF BoxInv, BoxTypes, RowsAreApart, InboxesAreApart
      <3>3. \E num \in [Ids -> Nat] : NumbersLast(num)'
        BY <3>1 DEF BoxInv, NumbersLast, Made, Of
      <3>4. \A c \in Readers : ReaderFits(reader[c])'
        BY <3>1 DEF BoxInv, ReaderFits, Made, Boxes!Live, Boxes!NumberOf, Told, Asked, Boxes!Matches
      <3> QED
        BY <3>2, <3>3, <3>4 DEF BoxInv
    <2> QED
      BY <1>1, <2>1, <2>2
  <1> HIDE DEF Ends
  <1>9. BoxInv' /\ Ends
    <2>1. CASE \E s \in Senders :
                 \/ \E w \in Workers, i \in Ids \cup {Shared}, m \in Messages :
                      Boxes!InsertMessage(s, w, i, m)
                 \/ Boxes!InsertTags(s) \/ Boxes!SelectExisting(s)
                 \/ Boxes!SendFails(s) \/ Boxes!Crash(s)
      BY <1>4, <1>5, <2>1
    <2>2. CASE \E c \in Readers :
                 \/ \E w \in Workers, i \in Ids \cup {Shared}, a \in Accounts, q \in Queries :
                      Boxes!Query(c, w, i, a, q)
                 \/ \E w \in Workers : Boxes!NextPage(c, w)
                 \/ Boxes!EndQuery(c)
      BY <1>6, <1>7, <2>2
    <2>3. CASE \E i \in Ids : (\E a \in Accounts : Boxes!CreateInbox(i, a)) \/ Boxes!DeleteInbox(i)
      BY <1>2, <2>3
    <2>4. CASE \E w \in Workers, i \in Ids : Boxes!Learn(w, i)
      BY <1>3, <2>4
    <2>5. CASE Boxes!Next
      BY <2>1, <2>2, <2>3, <2>4, <2>5 DEF Boxes!Next
    <2> QED
      BY <1>8, <2>5
  <1> QED
    BY <1>9 DEF Ends

\* The tables, the caches of workers, the calls and the cursors hold what the
\* server stores, and no two messages have a number or an id in common.
THEOREM BoxesFit == Boxes!Spec => []Boxes!TypeOK
  <1>1. Boxes!Init => BoxInv
    BY InitBoxes
  <1>2. BoxInv /\ [Boxes!Next]_(Boxes!vars) => BoxInv'
    BY NextBoxes
  <1>3. BoxInv => Boxes!TypeOK
    BY DEF BoxInv, BoxTypes, RowsAreApart, Boxes!TypeOK, Caches, Sends, Followers
  <1> QED
    BY <1>1, <1>2, <1>3, PTL DEF Boxes!Spec

\* However long the list of tags, whichever workers answer and whoever sends
\* between two pages: the end of a query is the end of what it asks for.
THEOREM EndsMeanEverything == Boxes!Spec => EndMeansEverything
  <1>1. Boxes!Init => BoxInv
    BY InitBoxes
  <1>2. BoxInv /\ [Boxes!Next]_(Boxes!vars) => BoxInv'
    BY NextBoxes
  <1>3. BoxInv /\ [Boxes!Next]_(Boxes!vars) =>
          [\A c \in Readers :
             LET x == reader'[c] IN
             x # reader[c] /\ x.pc = "end" /\ Boxes!Live(x.inbox) /\ ~x.astray =>
               \A r \in rows :
                 r.inbox = Boxes!NumberOf(x.inbox) /\ Boxes!Matches(r, r.inbox, x.query)
                   /\ r.msg \in x.query.accepts
                   => r.id \in x.got \cup x.page \cup x.early]_(Boxes!vars)
    BY NextBoxes DEF Told, Asked
  <1> QED
    BY <1>1, <1>2, <1>3, PTL DEF Boxes!Spec, EndMeansEverything, Boxes!EndMeansEverything

\* The pages of a query come in the order of the numbers, none twice.
THEOREM PagesGoOn == Boxes!Spec => []PagesAscend
  <1>1. Boxes!Init => BoxInv
    BY InitBoxes
  <1>2. BoxInv /\ [Boxes!Next]_(Boxes!vars) => BoxInv'
    BY NextBoxes
  <1>3. BoxInv => PagesAscend
    BY DEF BoxInv, ReaderFits, PagesAscend, Boxes!PagesAscend
  <1> QED
    BY <1>1, <1>2, <1>3, PTL DEF Boxes!Spec

\* Whoever sends a message again, it has the id that it had.
THEOREM MessagesAreOne == Boxes!Spec => []SentOnce
  <1>1. Boxes!Init => BoxInv
    BY InitBoxes
  <1>2. BoxInv /\ [Boxes!Next]_(Boxes!vars) => BoxInv'
    BY NextBoxes
  <1>3. BoxInv => SentOnce
    <2> SUFFICES ASSUME BoxInv, NEW x \in acked, NEW y \in acked, NEW r \in rows, NEW z \in rows,
                        x.inbox = y.inbox, x.msg = y.msg, x.id = r.id, y.id = z.id
                 PROVE  x.id = y.id
      BY DEF SentOnce, Boxes!SentOnce
    <2>1. PICK num \in [Ids -> Nat] : NumbersLast(num)
      BY DEF BoxInv
    <2>2. r.inbox = z.inbox /\ r.msg = z.msg
      BY <2>1 DEF NumbersLast
    <2> QED
      BY <2>2 DEF BoxInv, RowsAreApart
  <1> QED
    BY <1>1, <1>2, <1>3, PTL DEF Boxes!Spec
=============================================================================
