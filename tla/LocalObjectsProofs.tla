------------------------- MODULE LocalObjectsProofs -------------------------
(* Theorems about LocalObjects, and about the list that LiveDiscover fills *)
(* from it, for any objects, channels, writers, readers, pages and runs.   *)
EXTENDS LiveDiscover, TLAPS

-----------------------------------------------------------------------------
(* The types, and what a call of a writer works on.                        *)

Targeted ==
  \A w \in Writers : op[w].pc # "idle" =>
    op[w].url \in Urls /\ op[w].result \in {"live", "dead"}
Typed == TypeOK /\ Targeted

Docs    == [state : States, lastModified : Nat, seq : Nat]
Ops     == [pc : {"idle", "clock", "put", "written"}, url : Urls \cup {"none"},
            result : States, stamp : Nat]
Streams == [pc : {"idle", "clock", "query"}, since : Nat, continues : BOOLEAN,
            cursor : Nat, hasCursor : BOOLEAN, start : Nat, channel : 1..(Query + 1),
            processed : SUBSET Urls, batch : [Urls -> States]]

LEMMA TypeParts ==
  TypeOK <=> /\ clock \in Nat /\ ops \in 0..MaxOps
             /\ docs \in [Urls -> Docs]
             /\ op \in [Writers -> Ops]
             /\ stream \in [Readers -> Streams]
             /\ known \in [Readers -> [Urls -> States]]
  BY DEF TypeOK, Docs, Ops, Streams

LEMMA StartTypes ==
  NoDoc \in Docs /\ IdleOp \in Ops /\ Unknown \in [Urls -> States] /\ NewStream \in Streams
  <1>1. Unknown \in [Urls -> States]
    BY DEF Unknown, States
  <1>2. 1 \in 1..(Query + 1) /\ {} \in SUBSET Urls
    BY QueryAssumption
  <1> QED
    BY <1>1, <1>2 DEF NoDoc, IdleOp, NewStream, Docs, Ops, Streams, States

LEMMA InitTypes == Init => Typed
  <1> SUFFICES ASSUME Init PROVE Typed
    OBVIOUS
  <1>1. TypeOK
    BY StartTypes, TypeParts, MaxOpsAssumption DEF Init
  <1> QED
    BY <1>1 DEF Init, Typed, Targeted, IdleOp

\* The steps of a writer; a step of a reader writes nothing.
Calls(w) == \E u \in Urls : Post(w, u) \/ Delete(w, u)
Reads(r) == Discover(r) \/ ContinueDiscover(r) \/ Poll(r)

LEMMA CallTypes ==
  ASSUME Typed, NEW w \in Writers, Calls(w)
  PROVE  Typed'
  <1>1. PICK u \in Urls, state \in {"live", "dead"} : Call(w, u, state)
    BY DEF Calls, Post, Delete
  <1> DEFINE new == [pc |-> "clock", url |-> u, result |-> state, stamp |-> 0]
  <1>2. new \in Ops /\ new.url = u /\ new.result = state
    BY DEF Ops, States
  <1>3. op' = [op EXCEPT ![w] = new] /\ UNCHANGED <<clock, docs, stream, known>>
    BY <1>1 DEF Call, data
  <1> HIDE DEF new
  <1>4. ops' \in 0..MaxOps
    BY <1>1, TypeParts, MaxOpsAssumption DEF Call, Typed
  <1>5. TypeOK'
    BY <1>2, <1>3, <1>4, TypeParts DEF Typed, TypeOK, Docs, Ops, Streams
  <1> QED
    BY <1>2, <1>3, <1>5, TypeParts DEF Typed, Targeted

LEMMA StepTypes ==
  ASSUME Typed, NEW w \in Writers, Step(w)
  PROVE  Typed'
  <1>1. clock \in Nat /\ docs \in [Urls -> Docs] /\ op \in [Writers -> Ops]
    BY TypeParts DEF Typed
  <1>2. ASSUME NEW o \in Ops, op' = [op EXCEPT ![w] = o], clock' \in Nat,
               o.pc # "idle" => o.url \in Urls /\ o.result \in {"live", "dead"},
               docs' \in [Urls -> Docs], UNCHANGED <<stream, known, ops>>
        PROVE  Typed'
    <2>1. TypeOK'
      BY <1>1, <1>2 DEF Typed, TypeOK, Docs, Ops
    <2> QED
      BY <1>1, <1>2, <2>1 DEF Typed, Targeted
  <1>3. op[w] \in Ops /\ (op[w].pc # "idle" => op[w].url \in Urls /\ op[w].result \in {"live", "dead"})
    BY <1>1 DEF Typed, Targeted
  <1>4. CASE ReadClock(w)
    <2> DEFINE o == [op[w] EXCEPT !.pc = "put", !.stamp = clock]
    <2>1. /\ o \in Ops /\ o.url = op[w].url /\ o.result = op[w].result
          /\ op' = [op EXCEPT ![w] = o]
      BY <1>1, <1>3, <1>4 DEF ReadClock, Ops
    <2> HIDE DEF o
    <2> QED
      BY <1>1, <1>2, <1>3, <1>4, <2>1 DEF ReadClock, data
  <1>5. CASE Put(w)
    <2> DEFINE o == [op[w] EXCEPT !.pc = "written"]
    <2>1. /\ o \in Ops /\ o.url = op[w].url /\ o.result = op[w].result
          /\ op' = [op EXCEPT ![w] = o]
      BY <1>1, <1>3, <1>5 DEF Put, Ops
    <2>2. clock' \in Nat /\ docs' \in [Urls -> Docs]
      BY <1>1, <1>3, <1>5 DEF Put, Write, Docs, Ops
    <2> HIDE DEF o
    <2> QED
      BY <1>1, <1>2, <1>3, <1>5, <2>1, <2>2 DEF Put
  <1>6. CASE Return(w) \/ Refused(w)
    BY <1>1, <1>2, <1>6, StartTypes DEF Return, Refused, data, IdleOp
  <1> QED
    BY <1>4, <1>5, <1>6 DEF Step

LEMMA ReadTypes ==
  ASSUME Typed, NEW r \in Readers, Reads(r)
  PROVE  Typed' /\ UNCHANGED <<clock, docs, op, ops>>
  <1>1. /\ stream \in [Readers -> Streams] /\ stream[r] \in Streams
        /\ docs \in [Urls -> Docs] /\ clock \in Nat
        /\ known \in [Readers -> [Urls -> States]]
    BY TypeParts DEF Typed
  <1>2. UNCHANGED <<clock, docs, op, ops>>
    BY DEF Reads, Poll, Discover, ContinueDiscover, Begin, ReadStartTime, QueryChannel,
           Yield, ReturnCursor, data
  <1>3. ASSUME NEW x \in Streams, stream' = [stream EXCEPT ![r] = x],
               known' \in [Readers -> [Urls -> States]]
        PROVE  Typed'
    <2>1. stream' \in [Readers -> Streams]
      BY <1>1, <1>3
    <2> QED
      BY <1>2, <1>3, <2>1 DEF Typed, TypeOK, Targeted, Streams
  <1>4. ASSUME Discover(r) PROVE Typed'
    <2> DEFINE x == [NewStream EXCEPT !.pc = "clock"]
    <2>1. x \in Streams
      BY StartTypes DEF Streams
    <2>2. stream' = [stream EXCEPT ![r] = x] /\ known' = [known EXCEPT ![r] = Unknown]
      BY <1>4 DEF Discover, Begin
    <2> HIDE DEF x
    <2> QED
      BY <1>1, <1>3, <2>1, <2>2, StartTypes
  <1>5. ASSUME ContinueDiscover(r) PROVE Typed'
    <2> DEFINE x == [[stream[r] EXCEPT !.since = stream[r].cursor, !.continues = TRUE]
                       EXCEPT !.pc = "clock"]
    <2>1. x \in Streams
      BY <1>1 DEF Streams
    <2>2. stream' = [stream EXCEPT ![r] = x] /\ known' = known
      BY <1>5 DEF ContinueDiscover, Begin
    <2> HIDE DEF x
    <2> QED
      BY <1>1, <1>3, <2>1, <2>2
  <1>6. ASSUME ReadStartTime(r) PROVE Typed'
    <2> DEFINE x == [stream[r] EXCEPT !.pc = "query", !.channel = 1, !.processed = {},
                                      !.start = clock]
    <2>1. x \in Streams
      <3>1. 1 \in 1..(Query + 1) /\ {} \in SUBSET Urls
        BY QueryAssumption
      <3> QED
        BY <1>1, <3>1 DEF Streams
    <2>2. stream' = [stream EXCEPT ![r] = x] /\ known' = known
      BY <1>1, <1>6 DEF ReadStartTime, StartTime
    <2> HIDE DEF x
    <2> QED
      BY <1>1, <1>3, <2>1, <2>2
  <1>7. ASSUME QueryChannel(r) PROVE Typed'
    <2> DEFINE b == [u \in Urls |-> IF u \in Rows(stream[r]) /\ Returned(stream[r], u)
                                    THEN docs[u].state ELSE "none"]
               x == [stream[r] EXCEPT !.channel = stream[r].channel + 1,
                                      !.processed = stream[r].processed \cup Rows(stream[r]),
                                      !.batch = b]
    <2>1. b \in [Urls -> States]
      BY <1>1 DEF Docs, States
    <2>2. stream[r].channel + 1 \in 1..(Query + 1)
      BY <1>1, <1>7, QueryAssumption DEF QueryChannel, More, Streams
    <2>3. Rows(stream[r]) \subseteq Urls
      BY DEF Rows
    <2>4. stream' = [stream EXCEPT ![r] = x] /\ known' = known
      BY <1>1, <1>7 DEF QueryChannel
    <2> HIDE DEF b
    <2>5. x \in Streams
      BY <1>1, <2>1, <2>2, <2>3 DEF Streams
    <2> HIDE DEF x
    <2> QED
      BY <1>1, <1>3, <2>4, <2>5
  <1>8. ASSUME NEW u \in Urls, Yield(r, u) PROVE Typed'
    <2> DEFINE x == [stream[r] EXCEPT !.batch = [@ EXCEPT ![u] = "none"]]
    <2>1. stream[r].batch \in [Urls -> States]
      BY <1>1 DEF Streams
    <2>2. x \in Streams
      BY <1>1, <2>1 DEF Streams, States
    <2>3. stream' = [stream EXCEPT ![r] = x]
      BY <1>1, <1>8 DEF Yield
    <2>4. known' \in [Readers -> [Urls -> States]]
      BY <1>1, <1>8, <2>1 DEF Yield
    <2> HIDE DEF x
    <2> QED
      BY <1>3, <2>2, <2>3, <2>4
  <1>9. ASSUME ReturnCursor(r) PROVE Typed'
    <2> DEFINE x == [NewStream EXCEPT !.cursor = stream[r].start, !.hasCursor = TRUE]
    <2>1. x \in Streams
      BY <1>1, StartTypes DEF Streams
    <2>2. stream' = [stream EXCEPT ![r] = x] /\ known' = known
      BY <1>9 DEF ReturnCursor
    <2> HIDE DEF x
    <2> QED
      BY <1>1, <1>3, <2>1, <2>2
  <1> QED
    BY <1>2, <1>4, <1>5, <1>6, <1>7, <1>8, <1>9 DEF Reads, Poll

LEMMA NextTypes ==
  ASSUME Typed, [Next]_vars
  PROVE  Typed'
  <1>1. CASE UNCHANGED vars
    BY <1>1 DEF vars, data, Typed, TypeOK, Targeted
  <1>2. ASSUME NEW w \in Writers, Calls(w) \/ Step(w) PROVE Typed'
    BY <1>2, CallTypes, StepTypes
  <1>3. ASSUME NEW r \in Readers, Reads(r) PROVE Typed'
    BY <1>3, ReadTypes
  <1> QED
    BY <1>1, <1>2, <1>3 DEF Next, Calls, Reads

\* The types of the documents, of the calls and of the streams.
THEOREM ObjectTypes == Spec => []TypeOK
  <1>1. Typed => TypeOK
    BY DEF Typed
  <1> QED
    BY InitTypes, NextTypes, <1>1, PTL DEF Spec

-----------------------------------------------------------------------------
(* Tombstones.                                                             *)

\* What is being posted is not there yet, and nobody else writes it.
Working(w) == op[w].pc \in {"clock", "put"}
Posting(w) == Working(w) /\ op[w].result = "live"
PostsAreNew ==
  \A w \in Writers : Posting(w) =>
    /\ docs[op[w].url].state = "none"
    /\ \A x \in Writers \ {w} : Working(x) => op[x].url # op[w].url

\* What a put changes.
LEMMA PutWrites ==
  ASSUME Typed, NEW w \in Writers, Put(w)
  PROVE  /\ op[w].url \in Urls /\ op[w].result \in {"live", "dead"}
         /\ clock' = clock + 1
         /\ docs'[op[w].url].state = op[w].result
         /\ docs'[op[w].url].lastModified = op[w].stamp
         /\ docs'[op[w].url].seq = clock + 1
         /\ \A u \in Urls \ {op[w].url} : docs'[u] = docs[u]
         /\ op'[w].pc = "written" /\ op'[w].url = op[w].url
         /\ \A x \in Writers \ {w} : op'[x] = op[x]
  <1>1. /\ docs \in [Urls -> Docs] /\ op \in [Writers -> Ops] /\ op[w] \in Ops
        /\ op[w].url \in Urls /\ op[w].result \in {"live", "dead"}
    BY TypeParts DEF Typed, Targeted, Put
  <1>2. op'[w].pc = "written" /\ op'[w].url = op[w].url
    BY <1>1 DEF Put, Ops
  <1>3. \A x \in Writers \ {w} : op'[x] = op[x]
    BY <1>1 DEF Put
  <1>4. /\ clock' = clock + 1
        /\ docs' = [docs EXCEPT ![op[w].url] =
                      [state |-> op[w].result, lastModified |-> op[w].stamp, seq |-> clock + 1]]
    BY DEF Put, Write
  <1> QED
    BY <1>1, <1>2, <1>3, <1>4

\* Every step but a put leaves the documents and the clock alone.
LEMMA OnlyPutsWrite ==
  ASSUME [Next]_vars
  PROVE  UNCHANGED <<clock, docs>> \/ \E w \in Writers : Put(w)
  BY DEF Next, vars, data, Post, Delete, Call, Step, ReadClock, Return, Refused, Discover,
         ContinueDiscover, Begin, Poll, ReadStartTime, QueryChannel, Yield, ReturnCursor

LEMMA NextPosts ==
  ASSUME Typed, PostsAreNew, [Next]_vars
  PROVE  PostsAreNew'
  <1>1. op \in [Writers -> Ops]
    BY TypeParts DEF Typed
  <1>2. ASSUME UNCHANGED docs,
               \A w \in Writers : Working(w)' =>
                 Working(w) /\ op'[w].url = op[w].url /\ op'[w].result = op[w].result
        PROVE  PostsAreNew'
    BY <1>2 DEF PostsAreNew, Posting
  <1>3. ASSUME UNCHANGED <<docs, op>> PROVE PostsAreNew'
    BY <1>2, <1>3 DEF Working
  <1>4. ASSUME NEW w \in Writers, NEW u \in Urls, Post(w, u) PROVE PostsAreNew'
    <2>1. /\ op'[w].pc = "clock" /\ op'[w].url = u /\ docs' = docs
          /\ \A x \in Writers \ {w} : op'[x] = op[x] /\ op[x].url # u
          /\ docs[u].state = "none"
      BY <1>1, <1>4 DEF Post, Call, data
    <2> QED
      BY <2>1 DEF PostsAreNew, Posting, Working
  <1>5. ASSUME NEW w \in Writers, NEW u \in Urls, Delete(w, u) PROVE PostsAreNew'
    <2>1. /\ op'[w].pc = "clock" /\ op'[w].url = u /\ op'[w].result = "dead" /\ docs' = docs
          /\ \A x \in Writers \ {w} : op'[x] = op[x]
          /\ docs[u].state = "live"
      BY <1>1, <1>5 DEF Delete, Call, data
    <2> QED
      BY <2>1 DEF PostsAreNew, Posting, Working
  <1>6. ASSUME NEW w \in Writers, ReadClock(w) PROVE PostsAreNew'
    <2>1. /\ op'[w].url = op[w].url /\ op'[w].result = op[w].result /\ op[w].pc = "clock"
          /\ \A x \in Writers \ {w} : op'[x] = op[x]
          /\ docs' = docs
      BY <1>1, <1>6 DEF ReadClock, Ops, data
    <2> QED
      BY <1>2, <2>1 DEF Working
  <1>7. ASSUME NEW w \in Writers, Put(w) PROVE PostsAreNew'
    <2>1. \A x \in Writers : Working(x)' => x # w /\ op'[x] = op[x] /\ Working(x)
      BY <1>7, PutWrites DEF Working
    <2>2. Working(w)
      BY <1>7 DEF Put, Working
    <2>3. \A x \in Writers : Posting(x)' => docs'[op[x].url] = docs[op[x].url]
      <3>1. \A x \in Writers : Posting(x)' => op[x].url \in Urls /\ op[x].url # op[w].url
        BY <2>1, <2>2 DEF PostsAreNew, Posting, Working, Typed, Targeted
      <3> QED
        BY <1>7, <3>1, PutWrites
    <2> QED
      BY <2>1, <2>3 DEF PostsAreNew, Posting
  <1>8. ASSUME NEW w \in Writers, Return(w) \/ Refused(w) PROVE PostsAreNew'
    <2>1. /\ op'[w] = IdleOp /\ docs' = docs
          /\ \A x \in Writers \ {w} : op'[x] = op[x]
      BY <1>1, <1>8 DEF Return, Refused, data
    <2>2. \A x \in Writers : Working(x)' => x # w
      BY <2>1 DEF Working, IdleOp
    <2> QED
      BY <1>2, <2>1, <2>2 DEF Working
  <1>9. ASSUME NEW r \in Readers, Reads(r) PROVE PostsAreNew'
    BY <1>3, <1>9, ReadTypes
  <1> QED
    BY <1>3, <1>4, <1>5, <1>6, <1>7, <1>8, <1>9 DEF Next, Step, Reads, vars, data

\* A deleted object stays deleted as it was, whatever writers race for it: a
\* second delete is refused, and no post gets its url.
THEOREM TombstonesStay == Spec => TombstonesAreFinal
  <1>1. Init => Typed /\ PostsAreNew
    BY InitTypes DEF Init, PostsAreNew, Posting, Working, IdleOp
  <1>2. Typed /\ PostsAreNew /\ [Next]_vars => (Typed /\ PostsAreNew)'
    BY NextTypes, NextPosts
  <1>3. ASSUME Typed, PostsAreNew, [Next]_vars
        PROVE  [\A u \in Urls : docs[u].state = "dead" => docs'[u] = docs[u]]_vars
    <2>1. ASSUME NEW u \in Urls, docs[u].state = "dead", NEW w \in Writers, Put(w)
          PROVE  op[w].url # u
      <3>1. op[w].result \in {"live", "dead"}
        BY <1>3, <2>1, PutWrites
      <3>2. op[w].result = "live" => docs[op[w].url].state = "none"
        BY <1>3, <2>1 DEF PostsAreNew, Posting, Working, Put
      <3>3. op[w].result = "dead" => docs[op[w].url].state # "dead"
        BY <2>1 DEF Put, Conflict
      <3> QED
        BY <2>1, <3>1, <3>2, <3>3
    <2> QED
      BY <1>3, <2>1, PutWrites, OnlyPutsWrite
  <1> QED
    BY <1>1, <1>2, <1>3, PTL DEF Spec, TombstonesAreFinal

-----------------------------------------------------------------------------
(* Cursors.                                                                *)

\* The numbers that a stream has read are in the past; between streams nothing
\* waits for the caller, and a first stream has returned what it has seen only.
Sane(r) ==
  LET x == stream[r] IN
  /\ x.cursor <= clock /\ x.since <= clock /\ x.start <= clock
  /\ x.pc # "query" => x.batch = Unknown
  /\ x.pc = "clock" /\ ~x.continues => x.processed = {}
  /\ x.pc = "query" /\ x.hasCursor => x.cursor <= x.start
  /\ x.continues => x.hasCursor /\ x.since = x.cursor
  /\ x.pc # "idle" /\ ~x.continues =>
       \A u \in Urls \ x.processed : known[r][u] = "none" /\ x.batch[u] = "none"

\* Nothing is known, or waits, of an object that was never there.  What waits
\* and is out of date was written since the stream began.
Held(r, u) ==
  LET x == stream[r] IN
  /\ docs[u].state = "none" => known[r][u] = "none" /\ x.batch[u] = "none"
  /\ x.batch[u] \notin {"none", docs[u].state} /\ ~Overtaken(u) =>
       docs[u].lastModified >= x.start

\* The stream will still ask for the object, or has it in its hands.
Pending(x, u) ==
  \/ x.batch[u] = docs[u].state
  \/ /\ u \notin x.processed
     /\ \E ch \in ChannelsOf[u] : ch >= x.channel
     /\ x.continues => docs[u].lastModified >= x.since

\* What the next cursor will stand for is known, or will be asked for.
Promised(r, u) ==
  stream[r].pc = "query" /\ Discoverable(u) /\ ~Overtaken(u) =>
    Reported(r, u) \/ docs[u].lastModified >= stream[r].start \/ Pending(stream[r], u)

Kept(r, u) ==
  stream[r].hasCursor /\ Discoverable(u) /\ ~Overtaken(u) => Covered(r, u)

Covering ==
  \A r \in Readers : Sane(r) /\ \A u \in Urls : Held(r, u) /\ Promised(r, u) /\ Kept(r, u)

LEMMA InitCovers == Init => Covering
  <1> SUFFICES ASSUME Init, NEW r \in Readers
               PROVE  Sane(r) /\ \A u \in Urls : Held(r, u) /\ Promised(r, u) /\ Kept(r, u)
    BY DEF Covering
  <1>1. /\ stream[r] = NewStream /\ known[r] = Unknown /\ clock = 0
        /\ \A u \in Urls : docs[u] = NoDoc
        /\ NewStream.batch = Unknown /\ NewStream.pc = "idle"
        /\ NewStream.hasCursor = FALSE /\ NewStream.continues = FALSE
        /\ NewStream.cursor = 0 /\ NewStream.since = 0 /\ NewStream.start = 0
        /\ NewStream.processed = {}
        /\ NoDoc.state = "none" /\ \A u \in Urls : Unknown[u] = "none"
    BY DEF Init, NewStream, Unknown, NoDoc
  <1>2. Sane(r)
    BY <1>1 DEF Sane
  <1>3. \A u \in Urls : Held(r, u)
    BY <1>1 DEF Held
  <1>4. \A u \in Urls : Promised(r, u) /\ Kept(r, u)
    BY <1>1 DEF Promised, Kept
  <1> QED
    BY <1>2, <1>3, <1>4

\* The fields of the state that the lemmas below compare.
LEMMA Fields ==
  ASSUME Typed, NEW r \in Readers
  PROVE  /\ clock \in Nat
         /\ stream \in [Readers -> Streams] /\ stream[r] \in Streams
         /\ stream[r].cursor \in Nat /\ stream[r].since \in Nat /\ stream[r].start \in Nat
         /\ stream[r].channel \in 1..(Query + 1) /\ stream[r].batch \in [Urls -> States]
         /\ known \in [Readers -> [Urls -> States]] /\ known[r] \in [Urls -> States]
         /\ docs \in [Urls -> Docs]
         /\ \A u \in Urls : /\ docs[u].lastModified \in Nat /\ docs[u].seq \in Nat
                            /\ docs[u].state \in States
                            /\ ChannelsOf[u] \subseteq 1..Query
  <1>1. /\ clock \in Nat /\ stream \in [Readers -> Streams]
        /\ known \in [Readers -> [Urls -> States]] /\ docs \in [Urls -> Docs]
    BY TypeParts DEF Typed
  <1>2. stream[r] \in Streams /\ known[r] \in [Urls -> States]
    BY <1>1
  <1>3. \A u \in Urls : docs[u] \in Docs /\ ChannelsOf[u] \subseteq 1..Query
    BY <1>1, ChannelsAssumption
  <1> QED
    BY <1>1, <1>2, <1>3 DEF Streams, Docs

\* A put that is not overtaken carries the number of this moment, and nobody has
\* read a later one.
LEMMA PutCovers ==
  ASSUME Typed, Covering, NEW w \in Writers, Put(w)
  PROVE  Covering'
  <1> DEFINE v == op[w].url
  <1>1. UNCHANGED <<stream, known>>
    BY DEF Put
  <1>2. /\ clock' = clock + 1 /\ clock \in Nat /\ v \in Urls
        /\ docs'[v].state \in {"live", "dead"} /\ docs'[v].seq = clock + 1
        /\ \A u \in Urls \ {v} : docs'[u] = docs[u]
        /\ docs'[v].lastModified \in Nat
    <2>1. op[w].stamp \in Nat
      BY DEF Typed, TypeOK
    <2> QED
      BY <2>1, PutWrites, TypeParts DEF Typed
  <1> HIDE DEF v
  <1>3. ASSUME NEW r \in Readers PROVE Sane(r)'
    <2>1. Sane(r)
      BY DEF Covering
    <2> QED
      BY <1>1, <1>2, <2>1, Fields DEF Sane
  <1>4. ASSUME NEW r \in Readers, NEW u \in Urls
        PROVE  Held(r, u)' /\ Promised(r, u)' /\ Kept(r, u)'
    <2>1. Sane(r) /\ Held(r, u) /\ Promised(r, u) /\ Kept(r, u)
      BY DEF Covering
    <2>3. CASE u # v
      <3>1. docs'[u] = docs[u]
        BY <1>2, <2>3
      <3> QED
        BY <1>1, <2>1, <3>1
           DEF Held, Promised, Kept, Pending, Covered, Reported, Overtaken
    <2>4. CASE u = v
      <3>1. Overtaken(u)' <=> docs'[v].lastModified # clock
        BY <1>2, <2>4 DEF Overtaken
      <3>2. stream[r].start <= clock /\ stream[r].cursor <= clock
        BY <2>1 DEF Sane
      <3>3. Held(r, u)'
        BY <1>1, <1>2, <2>4, <3>1, <3>2 DEF Held
      <3>4. Promised(r, u)'
        BY <1>1, <1>2, <2>4, <3>1, <3>2 DEF Promised
      <3>5. Kept(r, u)'
        BY <1>1, <1>2, <2>4, <3>1, <3>2 DEF Kept, Covered
      <3> QED
        BY <3>3, <3>4, <3>5
    <2> QED
      BY <2>3, <2>4
  <1> QED
    BY <1>3, <1>4 DEF Covering

\* One reader takes a step; for the others nothing changes.
LEMMA OthersCover ==
  ASSUME Covering, NEW r \in Readers, UNCHANGED <<clock, docs>>,
         \A s \in Readers \ {r} : stream'[s] = stream[s] /\ known'[s] = known[s],
         Sane(r)',
         \A u \in Urls : Held(r, u)' /\ Promised(r, u)' /\ Kept(r, u)'
  PROVE  Covering'
  <1>1. ASSUME NEW s \in Readers \ {r} PROVE Sane(s)'
    BY DEF Covering, Sane
  <1>2. ASSUME NEW s \in Readers \ {r}, NEW u \in Urls
        PROVE  Held(s, u)' /\ Promised(s, u)' /\ Kept(s, u)'
    <2>1. Held(s, u) /\ Promised(s, u) /\ Kept(s, u)
      BY DEF Covering
    <2>2. stream'[s] = stream[s] /\ known'[s] = known[s]
      OBVIOUS
    <2> QED
      BY <2>1, <2>2 DEF Held, Promised, Kept, Pending, Covered, Reported, Overtaken
  <1> QED
    BY <1>1, <1>2 DEF Covering

LEMMA DiscoverCovers ==
  ASSUME Typed, Covering, NEW r \in Readers, Discover(r)
  PROVE  Covering'
  <1> DEFINE x == [NewStream EXCEPT !.pc = "clock"]
  <1>1. /\ stream'[r] = x /\ known'[r] = Unknown /\ UNCHANGED <<clock, docs>>
        /\ \A s \in Readers \ {r} : stream'[s] = stream[s] /\ known'[s] = known[s]
    BY Fields DEF Discover, Begin, data
  <1>2. /\ x.pc = "clock" /\ x.batch = Unknown /\ x.hasCursor = FALSE /\ x.continues = FALSE
        /\ x.cursor = 0 /\ x.since = 0 /\ x.start = 0 /\ x.processed = {}
        /\ \A u \in Urls : Unknown[u] = "none"
    BY DEF NewStream, Unknown
  <1> HIDE DEF x
  <1>3. Sane(r)'
    BY <1>1, <1>2, Fields DEF Sane
  <1>4. \A u \in Urls : Held(r, u)' /\ Promised(r, u)' /\ Kept(r, u)'
    BY <1>1, <1>2 DEF Held, Promised, Kept
  <1> QED
    BY <1>1, <1>3, <1>4, OthersCover

LEMMA ContinueCovers ==
  ASSUME Typed, Covering, NEW r \in Readers, ContinueDiscover(r)
  PROVE  Covering'
  <1> DEFINE x == stream[r]
             n == [[x EXCEPT !.since = x.cursor, !.continues = TRUE] EXCEPT !.pc = "clock"]
  <1>1. /\ stream'[r] = n /\ x.hasCursor /\ x.pc = "idle" /\ UNCHANGED <<clock, docs, known>>
        /\ \A s \in Readers \ {r} : stream'[s] = stream[s]
    BY Fields DEF ContinueDiscover, Begin, data
  <1>2. /\ n.pc = "clock" /\ n.since = x.cursor /\ n.continues = TRUE /\ n.cursor = x.cursor
        /\ n.hasCursor = x.hasCursor /\ n.start = x.start
        /\ n.processed = x.processed /\ n.batch = x.batch
    BY Fields DEF Streams
  <1>3. Sane(r) /\ \A u \in Urls : Held(r, u) /\ Kept(r, u)
    BY DEF Covering
  <1> HIDE DEF n
  <1>4. Sane(r)'
    BY <1>1, <1>2, <1>3 DEF Sane
  <1>5. ASSUME NEW u \in Urls PROVE Held(r, u)' /\ Promised(r, u)' /\ Kept(r, u)'
    <2>1. Held(r, u) /\ Kept(r, u)
      BY <1>3
    <2>2. Held(r, u)' /\ Promised(r, u)'
      BY <1>1, <1>2, <2>1 DEF Held, Promised, Overtaken
    <2>3. Kept(r, u)'
      BY <1>1, <1>2, <2>1 DEF Kept, Covered, Reported, Overtaken
    <2> QED
      BY <2>2, <2>3
  <1> QED
    BY <1>1, <1>4, <1>5, OthersCover

LEMMA StartCovers ==
  ASSUME Typed, Covering, NEW r \in Readers, ReadStartTime(r)
  PROVE  Covering'
  <1> DEFINE x == stream[r]
  <1>1. /\ x.pc = "clock" /\ UNCHANGED <<clock, docs, known>>
        /\ \A s \in Readers \ {r} : stream'[s] = stream[s]
        /\ stream'[r].pc = "query" /\ stream'[r].channel = 1 /\ stream'[r].processed = {}
        /\ stream'[r].start = clock
        /\ stream'[r].cursor = x.cursor /\ stream'[r].since = x.since
        /\ stream'[r].hasCursor = x.hasCursor /\ stream'[r].continues = x.continues
        /\ stream'[r].batch = x.batch
    BY Fields DEF ReadStartTime, StartTime, data, Streams
  <1>2. Sane(r) /\ clock \in Nat /\ clock <= clock
    BY Fields DEF Covering
  <1> HIDE DEF x
  <1>3. Sane(r)'
    BY <1>1, <1>2, Fields DEF Sane, x
  <1>4. ASSUME NEW u \in Urls PROVE Held(r, u)' /\ Promised(r, u)' /\ Kept(r, u)'
    <2>1. Held(r, u) /\ Kept(r, u)
      BY DEF Covering
    <2>2. x.batch[u] = "none"
      BY <1>1, <1>2 DEF Sane, Unknown, x
    <2>3. Held(r, u)'
      BY <1>1, <2>1, <2>2 DEF Held, x
    <2>4. Kept(r, u)'
      BY <1>1, <2>1 DEF Kept, Covered, Reported, Overtaken, x
    <2>5. Promised(r, u)'
      <3> SUFFICES ASSUME Discoverable(u), ~Overtaken(u)
                   PROVE  Reported(r, u)' \/ Pending(stream[r], u)'
        BY <1>1 DEF Promised, Overtaken
      <3>1. PICK ch \in ChannelsOf[u] : ch >= 1
        BY Fields DEF Discoverable
      <3>2. CASE x.continues
        <4>1. Reported(r, u) \/ docs[u].lastModified >= x.since
          BY <1>2, <2>1, <3>2 DEF Sane, Kept, Covered, x
        <4> QED
          BY <1>1, <3>1, <4>1 DEF Reported, Pending
      <3>3. CASE ~x.continues
        BY <1>1, <3>1, <3>3 DEF Pending
      <3> QED
        BY <3>2, <3>3
    <2> QED
      BY <2>3, <2>4, <2>5
  <1> QED
    BY <1>1, <1>3, <1>4, OthersCover

LEMMA QueryCovers ==
  ASSUME Typed, Covering, NEW r \in Readers, QueryChannel(r)
  PROVE  Covering'
  <1> DEFINE x == stream[r]
             n == stream'[r]
  <1>1. /\ x.pc = "query" /\ x.batch = Unknown /\ x.channel <= Query
        /\ UNCHANGED <<clock, docs, known>>
        /\ \A s \in Readers \ {r} : stream'[s] = stream[s]
        /\ n.pc = "query" /\ n.channel = x.channel + 1
        /\ n.processed = x.processed \cup Rows(x)
        /\ n.start = x.start /\ n.cursor = x.cursor /\ n.since = x.since
        /\ n.hasCursor = x.hasCursor /\ n.continues = x.continues
    BY Fields DEF QueryChannel, More, data, Streams
  <1>2. \A u \in Urls : n.batch[u] = IF u \in Rows(x) /\ Returned(x, u)
                                     THEN docs[u].state ELSE "none"
    BY Fields DEF QueryChannel, Streams
  <1>3. Sane(r) /\ x.channel \in Nat
    BY Fields DEF Covering
  <1> HIDE DEF x, n
  <1>4. Sane(r)'
    BY <1>1, <1>2, <1>3 DEF Sane, x, n
  <1>5. ASSUME NEW u \in Urls PROVE Held(r, u)' /\ Promised(r, u)' /\ Kept(r, u)'
    <2>1. Held(r, u) /\ Promised(r, u) /\ Kept(r, u) /\ x.batch[u] = "none"
      BY <1>1 DEF Covering, Unknown
    <2>2. Held(r, u)'
      BY <1>1, <1>2, <2>1 DEF Held, x, n
    <2>3. Kept(r, u)'
      BY <1>1, <2>1 DEF Kept, Covered, Reported, Overtaken, x, n
    <2>4. Promised(r, u)'
      <3> SUFFICES ASSUME Discoverable(u), ~Overtaken(u), ~Reported(r, u),
                          ~(docs[u].lastModified >= x.start)
                   PROVE  Pending(stream[r], u)'
        BY <1>1 DEF Promised, Overtaken, Reported, x, n
      <3>1. docs[u].state # "none"
        BY <2>1 DEF Held, Reported
      <3>2. PICK ch \in ChannelsOf[u] :
              /\ u \notin x.processed /\ ch >= x.channel
              /\ x.continues => docs[u].lastModified >= x.since
        BY <1>1, <2>1, <3>1 DEF Promised, Pending, x
      <3>3. CASE u \in Rows(x)
        <4>1. docs[u].state = "live" \/ x.continues
          <5>1. ~x.continues => known[r][u] = "none"
            BY <1>1, <1>3, <3>2 DEF Sane, x
          <5> QED
            BY <3>1, <5>1, Fields DEF Reported, States
        <4>2. Returned(x, u)
          BY <3>2, <4>1 DEF Returned, Discoverable
        <4> QED
          BY <1>1, <1>2, <3>3, <4>2 DEF Pending, n
      <3>4. CASE u \notin Rows(x)
        <4>1. ch # x.channel
          BY <3>1, <3>2, <3>4 DEF Rows
        <4>2. ch \in Nat
          BY Fields
        <4>3. ch >= n.channel
          BY <1>1, <1>3, <3>2, <4>1, <4>2
        <4> QED
          BY <1>1, <3>2, <3>4, <4>3 DEF Pending, n
      <3> QED
        BY <3>3, <3>4
    <2> QED
      BY <2>2, <2>3, <2>4
  <1> QED
    BY <1>1, <1>4, <1>5, OthersCover DEF n

LEMMA YieldCovers ==
  ASSUME Typed, Covering, NEW r \in Readers, NEW v \in Urls, Yield(r, v)
  PROVE  Covering'
  <1> DEFINE x == stream[r]
             n == stream'[r]
  <1>1. /\ x.pc = "query" /\ x.batch[v] # "none"
        /\ UNCHANGED <<clock, docs>>
        /\ \A s \in Readers \ {r} : stream'[s] = stream[s] /\ known'[s] = known[s]
        /\ n.pc = "query" /\ n.channel = x.channel /\ n.processed = x.processed
        /\ n.start = x.start /\ n.cursor = x.cursor /\ n.since = x.since
        /\ n.hasCursor = x.hasCursor /\ n.continues = x.continues
        /\ n.batch[v] = "none" /\ known'[r][v] = x.batch[v]
        /\ \A u \in Urls \ {v} : n.batch[u] = x.batch[u] /\ known'[r][u] = known[r][u]
    BY Fields DEF Yield, data, Streams
  <1>2. Sane(r)
    BY DEF Covering
  <1> HIDE DEF x, n
  <1>3. Sane(r)'
    BY <1>1, <1>2 DEF Sane, x, n
  <1>4. ASSUME NEW u \in Urls PROVE Held(r, u)' /\ Promised(r, u)' /\ Kept(r, u)'
    <2>1. Held(r, u) /\ Promised(r, u) /\ Kept(r, u)
      BY DEF Covering
    <2>2. CASE u # v
      <3>1. Held(r, u)'
        BY <1>1, <2>1, <2>2 DEF Held, Overtaken, x, n
      <3>2. Promised(r, u)'
        BY <1>1, <2>1, <2>2 DEF Promised, Reported, Pending, Overtaken, x, n
      <3>3. Kept(r, u)'
        BY <1>1, <2>1, <2>2 DEF Kept, Covered, Reported, Overtaken, x, n
      <3> QED
        BY <3>1, <3>2, <3>3
    <2>3. CASE u = v
      <3>1. docs[v].state # "none"
        BY <1>1, <2>1, <2>3 DEF Held, x
      <3>2. Held(r, u)'
        BY <1>1, <2>3, <3>1 DEF Held, x, n
      <3>3. ~Overtaken(u) => Reported(r, u)' \/ docs[u].lastModified >= x.start
        BY <1>1, <2>1, <2>3 DEF Held, Reported, x
      <3>4. Promised(r, u)'
        BY <1>1, <2>3, <3>3 DEF Promised, Overtaken, n
      <3>5. Kept(r, u)'
        <4>1. x.hasCursor => x.cursor <= x.start
          BY <1>1, <1>2 DEF Sane, x
        <4>2. x.cursor \in Nat /\ x.start \in Nat /\ docs[u].lastModified \in Nat
          BY Fields DEF x
        <4> QED
          BY <1>1, <2>3, <3>3, <4>1, <4>2 DEF Kept, Covered, Overtaken, n
      <3> QED
        BY <3>2, <3>4, <3>5
    <2> QED
      BY <2>2, <2>3
  <1> QED
    BY <1>1, <1>3, <1>4, OthersCover DEF n

LEMMA ReturnCovers ==
  ASSUME Typed, Covering, NEW r \in Readers, ReturnCursor(r)
  PROVE  Covering'
  <1> DEFINE x == stream[r]
             n == [NewStream EXCEPT !.cursor = x.start, !.hasCursor = TRUE]
  <1>1. /\ x.pc = "query" /\ x.channel > Query /\ x.batch = Unknown
        /\ stream'[r] = n /\ UNCHANGED <<clock, docs, known>>
        /\ \A s \in Readers \ {r} : stream'[s] = stream[s]
    BY Fields DEF ReturnCursor, data
  <1>2. /\ n.pc = "idle" /\ n.hasCursor = TRUE /\ n.cursor = x.start /\ n.since = 0
        /\ n.start = 0 /\ n.continues = FALSE /\ n.processed = {} /\ n.batch = Unknown
        /\ \A u \in Urls : Unknown[u] = "none"
    BY DEF NewStream, Unknown
  <1>3. Sane(r)
    BY DEF Covering
  <1> HIDE DEF n
  <1>4. Sane(r)'
    BY <1>1, <1>2, <1>3, Fields DEF Sane
  <1>5. ASSUME NEW u \in Urls PROVE Held(r, u)' /\ Promised(r, u)' /\ Kept(r, u)'
    <2>1. Held(r, u) /\ Promised(r, u)
      BY DEF Covering
    <2>2. Held(r, u)' /\ Promised(r, u)'
      BY <1>1, <1>2, <2>1 DEF Held, Promised
    <2>3. Kept(r, u)'
      <3> SUFFICES ASSUME Discoverable(u), ~Overtaken(u)
                   PROVE  Reported(r, u) \/ docs[u].lastModified >= x.start
        BY <1>1, <1>2 DEF Kept, Covered, Reported, Overtaken
      <3>1. ~ \E ch \in ChannelsOf[u] : ch >= x.channel
        BY <1>1, Fields, QueryAssumption
      <3>2. x.batch[u] = docs[u].state => Reported(r, u)
        BY <1>1, <1>2, <2>1 DEF Held, Reported
      <3> QED
        BY <1>1, <2>1, <3>1, <3>2 DEF Promised, Pending
    <2> QED
      BY <2>2, <2>3
  <1> QED
    BY <1>1, <1>4, <1>5, OthersCover

LEMMA NextCovers ==
  ASSUME Typed, Covering, [Next]_vars
  PROVE  Covering'
  <1>1. ASSUME UNCHANGED <<clock, docs, stream, known>> PROVE Covering'
    BY <1>1 DEF Covering, Sane, Held, Promised, Kept, Pending, Covered, Reported, Overtaken
  <1>2. ASSUME NEW w \in Writers, Calls(w) \/ Step(w) PROVE Covering'
    <2>1. Put(w) \/ UNCHANGED <<clock, docs, stream, known>>
      BY <1>2 DEF Calls, Post, Delete, Call, Step, ReadClock, Return, Refused, data
    <2> QED
      BY <1>1, <2>1, PutCovers
  <1>3. ASSUME NEW r \in Readers, Reads(r) PROVE Covering'
    BY <1>3, DiscoverCovers, ContinueCovers, StartCovers, QueryCovers, YieldCovers,
       ReturnCovers DEF Reads, Poll
  <1>4. CASE UNCHANGED vars
    BY <1>1, <1>4 DEF vars, data
  <1> QED
    BY <1>2, <1>3, <1>4 DEF Next, Calls, Reads

\* However long a stream takes over its channels, and whoever writes meanwhile:
\* what its cursor leaves out was given to the reader, or was overtaken.
THEOREM CursorsAlwaysCover == Spec => []CursorsCover
  <1>1. Covering => CursorsCover
    BY DEF Covering, CursorsCover, Kept
  <1>2. Init => Typed /\ Covering
    BY InitTypes, InitCovers
  <1>3. Typed /\ Covering /\ [Next]_vars => (Typed /\ Covering)'
    BY NextTypes, NextCovers
  <1> QED
    BY <1>1, <1>2, <1>3, PTL DEF Spec

-----------------------------------------------------------------------------
(* Lists.  The list of LiveDiscover is over the streams of LocalObjects.   *)

\* A step of a list drops a stream, or is a step of the objects.
Dropped(r) ==
  \E x \in {NewStream, [stream[r] EXCEPT !.pc = "idle"]} :
    /\ stream' = [stream EXCEPT ![r] = x]
    /\ x = NewStream \/ stream[r].batch = Unknown
    /\ UNCHANGED <<clock, docs, op, known, ops>>

\* What a writer has written is there, unless it was deleted since.
WritesAreThere ==
  \A w \in Writers : op[w].pc = "written" =>
    docs[op[w].url].state \in {op[w].result, "dead"}

\* A tombstone that a stream has in its hands stays.
GravesAreGraves ==
  \A r \in Readers, u \in Urls : stream[r].batch[u] = "dead" => docs[u].state = "dead"

\* The run that comes next has no stream yet, and one that has a stream listens.
RunsAreNew ==
  /\ \A r \in Readers : r > run => stream[r] = NewStream
  /\ stream[run] # NewStream => listening

Right(u) == u \in raw <=> docs[u].state = "live"

\* Of an object from before the cursor the list is right.
ListKept(u) ==
  stream[run].hasCursor /\ docs[u].lastModified < stream[run].cursor => Right(u)

\* Of one from before the stream it is right, or the stream has yet to tell it; and
\* a first stream, which tells no tombstones, has none to tell.
ListPromised(u) ==
  stream[run].pc = "query" /\ docs[u].lastModified < stream[run].start =>
    /\ Right(u) \/ Pending(stream[run], u)
    /\ ~stream[run].continues /\ docs[u].state = "dead" => u \notin raw

ListHolds ==
  \A u \in Urls : Settled(u) /\ docs[u].state # "none" => ListKept(u) /\ ListPromised(u)

Base == Typed /\ PostsAreNew /\ Covering /\ WritesAreThere /\ GravesAreGraves
ViewInv == Base /\ ViewTypeOK /\ RunsAreNew /\ ListHolds

LEMMA ViewSteps ==
  ASSUME ViewTypeOK, ViewNext \/ UNCHANGED all
  PROVE  \/ [Next]_vars
         \/ \E r \in Readers : Dropped(r)
  <1>1. run \in Readers /\ 1..run \subseteq Readers
    BY RunsAreReaders DEF ViewTypeOK
  <1>2. ASSUME NEW w \in Writers, NEW u \in Urls, (Post(w, u) \/ Delete(w, u)) /\ UNCHANGED view
        PROVE  Next
    BY <1>2 DEF Next
  <1>3. ASSUME NEW w \in Writers, Work(w)
        PROVE  Next
    BY <1>3 DEF Work, Write1, ReturnOfPage, ReturnElsewhere, Next, Step
  <1>4. ASSUME NEW u \in Urls, Get(u) \/ GetReturns(u) \/ Deliver(u)
        PROVE  Next \/ UNCHANGED vars
    BY <1>1, <1>4 DEF Get, GetReturns, Deliver, Next, Poll
  <1>5. ASSUME NEW r \in 1..run, Stream(r)
        PROVE  Next \/ Dropped(r)
    <2>1. CASE \E u \in Urls : LastOfClosed(r, u)
      BY <2>1 DEF LastOfClosed, Dropped, data
    <2>2. CASE StartStream(r) \/ AskChannel(r) \/ Complete(r)
      BY <1>1, <2>2 DEF StartStream, AskChannel, Complete, Next, Poll
    <2> QED
      BY <1>5, <2>1, <2>2 DEF Stream
  <1>6. CASE Watch \/ Listen \/ Flatten \/ UNCHANGED all
    BY <1>6 DEF Watch, Listen, Flatten, all
  <1>7. CASE PollAgain
    BY <1>1, <1>7 DEF PollAgain, Next
  <1>8. CASE PollFails
    <2>1. stream' = [stream EXCEPT ![run] = [stream[run] EXCEPT !.pc = "idle"]]
      BY <1>8 DEF PollFails
    <2> QED
      BY <1>1, <1>8, <2>1 DEF PollFails, Dropped, data
  <1> QED
    BY <1>1, <1>2, <1>3, <1>4, <1>5, <1>6, <1>7, <1>8 DEF ViewNext

LEMMA DroppedCovers ==
  ASSUME Base, NEW r \in Readers, Dropped(r)
  PROVE  Base'
  <1>1. /\ stream \in [Readers -> Streams] /\ stream[r] \in Streams /\ NewStream \in Streams
        /\ NewStream.batch = Unknown /\ NewStream.pc = "idle"
        /\ NewStream.hasCursor = FALSE /\ NewStream.continues = FALSE
        /\ NewStream.cursor = 0 /\ NewStream.since = 0 /\ NewStream.start = 0
        /\ \A u \in Urls : Unknown[u] = "none"
    BY StartTypes, Fields DEF Base, NewStream, Unknown
  <1>2. PICK x \in Streams :
          /\ stream' = [stream EXCEPT ![r] = x]
          /\ x.pc = "idle" /\ x.batch = Unknown
          /\ \/ x.hasCursor = FALSE /\ x.continues = FALSE /\ x.cursor = 0 /\ x.since = 0 /\ x.start = 0
             \/ /\ x.hasCursor = stream[r].hasCursor /\ x.continues = stream[r].continues
                /\ x.cursor = stream[r].cursor /\ x.since = stream[r].since /\ x.start = stream[r].start
    <2>1. [stream[r] EXCEPT !.pc = "idle"] \in Streams
      BY <1>1 DEF Streams
    <2> QED
      BY <1>1, <2>1 DEF Dropped, Streams
  <1>3. stream'[r] = x /\ \A s \in Readers \ {r} : stream'[s] = stream[s]
    BY <1>1, <1>2
  <1>4. UNCHANGED <<clock, docs, op, known, ops>>
    BY DEF Dropped
  <1>5. stream' \in [Readers -> Streams]
    BY <1>1, <1>2
  <1>6. Typed'
    BY <1>4, <1>5 DEF Base, Typed, TypeOK, Targeted, Streams
  <1>7. PostsAreNew' /\ WritesAreThere'
    BY <1>4 DEF Base, PostsAreNew, Posting, Working, WritesAreThere
  <1>8. Sane(r)'
    <2>1. Sane(r) /\ clock \in Nat
      BY Fields DEF Base, Covering
    <2> QED
      BY <1>2, <1>3, <1>4, <2>1 DEF Sane
  <1>9. ASSUME NEW u \in Urls PROVE Held(r, u)' /\ Promised(r, u)' /\ Kept(r, u)'
    <2>1. Held(r, u) /\ Kept(r, u)
      BY DEF Base, Covering
    <2>2. Held(r, u)' /\ Promised(r, u)'
      BY <1>1, <1>2, <1>3, <1>4, <2>1 DEF Held, Promised
    <2>3. Kept(r, u)'
      BY <1>2, <1>3, <1>4, <2>1 DEF Kept, Covered, Reported, Overtaken
    <2> QED
      BY <2>2, <2>3
  <1>10. Covering'
    BY <1>3, <1>4, <1>8, <1>9, OthersCover DEF Base
  <1>11. GravesAreGraves'
    BY <1>1, <1>2, <1>3, <1>4 DEF Base, GravesAreGraves
  <1> QED
    BY <1>6, <1>7, <1>10, <1>11 DEF Base

\* A tombstone stays, and a post is of an object that was never there.
LEMMA GravesStay ==
  ASSUME Typed, PostsAreNew, [Next]_vars, NEW u \in Urls
  PROVE  /\ docs[u].state = "dead" => docs'[u] = docs[u]
         /\ docs[u].state # "none" => docs'[u].state \in {docs[u].state, "dead"}
  <1>1. CASE UNCHANGED docs
    BY <1>1
  <1>2. ASSUME NEW w \in Writers, Put(w)
        PROVE  /\ docs[u].state = "dead" => docs'[u] = docs[u]
               /\ docs[u].state # "none" => docs'[u].state \in {docs[u].state, "dead"}
    <2>1. /\ \A v \in Urls \ {op[w].url} : docs'[v] = docs[v]
          /\ docs'[op[w].url].state = op[w].result
          /\ op[w].result \in {"live", "dead"}
      BY <1>2, PutWrites
    <2>2. op[w].result = "live" => docs[op[w].url].state = "none"
      BY <1>2 DEF PostsAreNew, Posting, Working, Put
    <2>3. op[w].result = "dead" => docs[op[w].url].state # "dead"
      BY <1>2 DEF Put, Conflict
    <2> QED
      BY <2>1, <2>2, <2>3
  <1> QED
    BY <1>1, <1>2, OnlyPutsWrite

LEMMA NextBase ==
  ASSUME Base, [Next]_vars
  PROVE  Base'
  <1>1. Typed' /\ PostsAreNew' /\ Covering'
    BY NextTypes, NextPosts, NextCovers DEF Base
  <1>2. op \in [Writers -> Ops] /\ docs \in [Urls -> Docs] /\ stream \in [Readers -> Streams]
    BY TypeParts DEF Base, Typed
  <1>3. ASSUME NEW u \in Urls
        PROVE  /\ docs[u].state = "dead" => docs'[u].state = "dead"
               /\ docs[u].state # "none" => docs'[u].state \in {docs[u].state, "dead"}
    BY GravesStay DEF Base
  <1>4. ASSUME NEW w \in Writers, op'[w].pc = "written"
        PROVE  docs'[op'[w].url].state \in {op'[w].result, "dead"}
    <2>1. CASE op'[w] = op[w]
      <3>1. /\ op[w].url \in Urls /\ op[w].result \in {"live", "dead"}
            /\ docs[op[w].url].state \in {op[w].result, "dead"}
        BY <1>4, <2>1 DEF Base, Typed, Targeted, WritesAreThere
      <3> QED
        BY <2>1, <3>1, <1>3
    <2>2. ASSUME Put(w) PROVE docs'[op'[w].url].state \in {op'[w].result, "dead"}
      <3>1. docs'[op[w].url].state = op[w].result /\ op'[w].url = op[w].url
        BY <2>2, PutWrites DEF Base
      <3>2. op'[w].result = op[w].result
        BY <1>2, <2>2 DEF Put, Ops
      <3> QED
        BY <3>1, <3>2
    <2>3. op'[w] = op[w] \/ Put(w)
      <3>1. ASSUME NEW x \in Writers, NEW u \in Urls, Post(x, u) \/ Delete(x, u)
            PROVE  op'[w] = op[w]
        BY <1>2, <1>4, <3>1 DEF Post, Delete, Call
      <3>2. ASSUME NEW x \in Writers, ReadClock(x) \/ Return(x) \/ Refused(x)
            PROVE  op'[w] = op[w]
        BY <1>2, <1>4, <3>2 DEF ReadClock, Return, Refused, IdleOp, Ops
      <3>3. ASSUME NEW x \in Writers, Put(x)
            PROVE  op'[w] = op[w] \/ Put(w)
        BY <3>3, PutWrites DEF Base
      <3>4. ASSUME NEW r \in Readers, Reads(r)
            PROVE  op'[w] = op[w]
        BY <3>4, ReadTypes DEF Base
      <3> QED
        BY <3>1, <3>2, <3>3, <3>4 DEF Next, Step, Reads, vars
    <2> QED
      BY <2>1, <2>2, <2>3
  <1>5. ASSUME NEW r \in Readers, NEW u \in Urls, stream'[r].batch[u] = "dead"
        PROVE  docs'[u].state = "dead"
    <2>1. stream'[r].batch[u] \in {stream[r].batch[u], docs[u].state, "none"}
      <3>1. CASE stream'[r] = stream[r]
        BY <3>1
      <3>2. ASSUME NEW s \in Readers, Reads(s)
            PROVE  stream'[r].batch[u] \in {stream[r].batch[u], docs[u].state, "none"}
        <4>1. CASE s # r
          BY <1>2, <3>2, <4>1 DEF Reads, Poll, Discover, ContinueDiscover, Begin, ReadStartTime,
             StartTime, QueryChannel, Yield, ReturnCursor
        <4>2. CASE Discover(r) \/ ReturnCursor(r)
          <5>1. stream'[r] \in {[NewStream EXCEPT !.pc = "clock"],
                                [NewStream EXCEPT !.cursor = stream[r].start, !.hasCursor = TRUE]}
            BY <1>2, <4>2 DEF Discover, ReturnCursor, Begin
          <5>2. stream'[r].batch = Unknown
            BY <5>1 DEF NewStream
          <5> QED
            BY <5>2 DEF Unknown
        <4>3. CASE ContinueDiscover(r) \/ ReadStartTime(r)
          <5>1. stream[r] \in Streams
            BY <1>2
          <5>2. ASSUME ContinueDiscover(r) PROVE stream'[r].batch = stream[r].batch
            <6>1. stream'[r] = [[stream[r] EXCEPT !.since = stream[r].cursor, !.continues = TRUE]
                                  EXCEPT !.pc = "clock"]
              BY <1>2, <5>2 DEF ContinueDiscover, Begin
            <6> QED
              BY <5>1, <6>1 DEF Streams
          <5>3. ASSUME ReadStartTime(r) PROVE stream'[r].batch = stream[r].batch
            BY <1>2, <5>1, <5>3 DEF ReadStartTime, StartTime, Streams
          <5> QED
            BY <4>3, <5>2, <5>3
        <4>4. CASE QueryChannel(r)
          BY <1>2, <4>4 DEF QueryChannel, Streams
        <4>5. CASE \E v \in Urls : Yield(r, v)
          BY <1>2, <4>5 DEF Yield, Streams
        <4> QED
          BY <3>2, <4>1, <4>2, <4>3, <4>4, <4>5 DEF Reads, Poll
      <3>3. stream' = stream \/ \E s \in Readers : Reads(s)
        BY DEF Next, Reads, vars, Post, Delete, Call, Step, ReadClock, Put, Return, Refused
      <3> QED
        BY <3>1, <3>2, <3>3
    <2>2. docs[u].state = "dead"
      BY <1>5, <2>1 DEF Base, GravesAreGraves
    <2> QED
      BY <1>3, <2>2
  <1> QED
    BY <1>1, <1>4, <1>5 DEF Base, WritesAreThere, GravesAreGraves

LEMMA ViewBase ==
  ASSUME Base, ViewTypeOK, ViewNext \/ UNCHANGED all
  PROVE  Base'
  BY ViewSteps, NextBase, DroppedCovers

\* An object is told to the list only when it is there, or was.
LEMMA ToldTypes ==
  ASSUME NEW u \in Urls, NEW value \in {"live", "dead"}, Dispatch(u, value),
         docs'[u].state # "none", raw \subseteq {v \in Matching : docs'[v].state # "none"}
  PROVE  raw' \subseteq {v \in Matching : docs'[v].state # "none"}
  BY DEF Dispatch, MatchObject, Discoverable

LEMMA ViewTypes ==
  ASSUME Base, ViewTypeOK, ViewNext \/ UNCHANGED all
  PROVE  ViewTypeOK'
  <1>1. TypeOK'
    BY ViewBase DEF Base, Typed
  <1>2. ASSUME NEW u \in Urls, docs[u].state # "none" PROVE docs'[u].state # "none"
    <2>1. ASSUME [Next]_vars PROVE docs'[u].state # "none"
      <3>1. docs'[u].state \in {docs[u].state, "dead"}
        BY <1>2, <2>1, GravesStay DEF Base
      <3> QED
        BY <1>2, <3>1
    <2>2. ASSUME NEW r \in Readers, Dropped(r) PROVE docs'[u].state # "none"
      BY <1>2, <2>2 DEF Dropped
    <2> QED
      BY <2>1, <2>2, ViewSteps
  <1>3. /\ raw \cup shown \subseteq {u \in Matching : docs'[u].state # "none"}
        /\ getting \cup late \subseteq {u \in Urls : docs'[u].state # "none"}
        /\ Matching \subseteq Urls
    BY <1>2, MatchingAssumption DEF ViewTypeOK
  <1>4. run \in 1..MaxRuns /\ listening \in BOOLEAN /\ failed \in BOOLEAN /\ MaxRuns \in Nat
    BY RunsAreReaders DEF ViewTypeOK
  <1>5. \A r \in Readers, u \in Urls :
          stream[r].batch[u] # "none" =>
            stream[r].batch[u] \in {"live", "dead"} /\ docs[u].state # "none"
    BY Fields DEF Base, Covering, Held, States
  <1>6. \A w \in Writers : op[w].pc = "written" =>
          op[w].url \in Urls /\ op[w].result \in {"live", "dead"} /\ docs[op[w].url].state # "none"
    BY DEF Base, Typed, Targeted, WritesAreThere
  <1>7. run \in Readers /\ 1..run \subseteq Readers
    BY <1>4, RunsAreReaders
  \* what is told, with what is remembered of it
  <1>8. ASSUME NEW u \in Urls, NEW value \in {"live", "dead"}, docs[u].state # "none",
               Dispatch(u, value), Hindsight(u, value) \/ UNCHANGED late,
               UNCHANGED <<run, listening, shown>>, failed' \in BOOLEAN, getting' \subseteq getting
        PROVE  ViewTypeOK'
    <2>1. late' \subseteq late \cup {u}
      BY <1>8 DEF Hindsight
    <2>2. docs'[u].state # "none"
      BY <1>2, <1>8
    <2>3. raw' \subseteq {v \in Matching : docs'[v].state # "none"}
      BY <1>3, <1>8, <2>2, ToldTypes
    <2> QED
      BY <1>1, <1>3, <1>4, <1>8, <2>1, <2>2, <2>3 DEF ViewTypeOK
  <1>9. ASSUME raw' \subseteq raw, shown' \subseteq shown \cup raw, late' \subseteq late \cup raw,
               getting' \subseteq getting \cup {u \in Urls : docs[u].state # "none"},
               run' \in 1..MaxRuns, listening' \in BOOLEAN, failed' \in BOOLEAN
        PROVE  ViewTypeOK'
    BY <1>1, <1>2, <1>3, <1>9 DEF ViewTypeOK
  <1>10. CASE UNCHANGED view
    BY <1>4, <1>9, <1>10 DEF view
  <1>11. ASSUME NEW w \in Writers, Work(w) PROVE ViewTypeOK'
    <2>1. CASE Write1(w) \/ ReturnElsewhere(w)
      BY <1>10, <2>1 DEF Write1, ReturnElsewhere
    <2>2. CASE ReturnOfPage(w)
      BY <1>4, <1>6, <1>8, <2>2 DEF ReturnOfPage, Return
    <2> QED
      BY <1>11, <2>1, <2>2 DEF Work
  <1>12. ASSUME NEW u \in Urls, Get(u) PROVE ViewTypeOK'
    BY <1>4, <1>9, <1>12 DEF Get, Found
  <1>13. ASSUME NEW u \in Urls, GetReturns(u) PROVE ViewTypeOK'
    <2>1. docs[u].state # "none"
      BY <1>13 DEF GetReturns, ViewTypeOK
    <2> QED
      BY <1>4, <1>8, <1>13, <2>1 DEF GetReturns
  <1>14. ASSUME NEW u \in Urls, Deliver(u) PROVE ViewTypeOK'
    BY <1>4, <1>5, <1>7, <1>8, <1>14 DEF Deliver, Yield
  <1>15. ASSUME NEW r \in 1..run, Stream(r) PROVE ViewTypeOK'
    <2>1. CASE StartStream(r)
      <3>1. late' \subseteq late \cup raw
        BY <2>1 DEF StartStream
      <3> QED
        BY <1>4, <1>9, <2>1, <3>1 DEF StartStream
    <2>2. CASE AskChannel(r)
      BY <1>10, <2>2 DEF AskChannel
    <2>3. CASE Complete(r)
      BY <1>4, <1>9, <2>3 DEF Complete
    <2>4. ASSUME NEW u \in Urls, LastOfClosed(r, u) PROVE ViewTypeOK'
      BY <1>4, <1>5, <1>7, <1>8, <2>4 DEF LastOfClosed
    <2> QED
      BY <1>15, <2>1, <2>2, <2>3, <2>4 DEF Stream
  <1>16. CASE Watch
    <2>1. run' \in 1..MaxRuns /\ raw' = {} /\ shown' = {} /\ UNCHANGED <<getting, late>>
      BY <1>4, <1>16 DEF Watch
    <2> QED
      BY <1>4, <1>9, <1>16, <2>1 DEF Watch
  <1>17. CASE Listen \/ Flatten
    BY <1>4, <1>9, <1>17 DEF Listen, Flatten, FlattenBatch
  <1>18. CASE PollAgain
    BY <1>10, <1>18 DEF PollAgain
  <1>19. CASE PollFails
    BY <1>4, <1>9, <1>19 DEF PollFails
  <1>20. CASE UNCHANGED all
    BY <1>10, <1>20 DEF all
  <1> QED
    BY <1>10, <1>11, <1>12, <1>13, <1>14, <1>15, <1>16, <1>17, <1>18, <1>19, <1>20 DEF ViewNext

\* Only the active run begins a stream, and it listens then.
LEMMA RunsStayNew ==
  ASSUME Base, ViewTypeOK, RunsAreNew, ViewNext \/ UNCHANGED all
  PROVE  RunsAreNew'
  <1>1. /\ run \in Readers /\ 1..run \subseteq Readers /\ run \in Nat /\ Readers \subseteq Nat
        /\ stream \in [Readers -> Streams] /\ NewStream.pc = "idle" /\ NewStream.batch = Unknown
    BY RunsAreReaders, TypeParts DEF ViewTypeOK, Base, Typed, NewStream
  <1>2. ASSUME NEW s \in 1..run, UNCHANGED <<run, listening>>,
               \A r \in Readers \ {s} : stream'[r] = stream[r],
               stream[s] # NewStream \/ listening \/ stream'[s] = stream[s]
        PROVE  RunsAreNew'
    <2>1. \A r \in Readers : r > run => r # s
      BY <1>1
    <2> QED
      BY <1>1, <1>2, <2>1 DEF RunsAreNew
  <1>3. ASSUME UNCHANGED <<stream, run>>, listening => listening' PROVE RunsAreNew'
    BY <1>3 DEF RunsAreNew
  <1>4. ASSUME NEW w \in Writers, NEW u \in Urls, (Post(w, u) \/ Delete(w, u)) /\ UNCHANGED view
        PROVE  RunsAreNew'
    BY <1>3, <1>4 DEF Post, Delete, Call, view
  <1>5. ASSUME NEW w \in Writers, Work(w) PROVE RunsAreNew'
    BY <1>3, <1>5 DEF Work, Write1, ReturnOfPage, ReturnElsewhere, ReadClock, Put, Refused, Return, view
  <1>6. ASSUME NEW u \in Urls, Get(u) \/ GetReturns(u) PROVE RunsAreNew'
    BY <1>3, <1>6 DEF Get, GetReturns, vars
  <1>7. ASSUME NEW u \in Urls, Deliver(u) PROVE RunsAreNew'
    <2>1. /\ stream[run].pc = "query" /\ UNCHANGED <<run, listening>>
          /\ \A s \in Readers \ {run} : stream'[s] = stream[s]
      BY <1>1, <1>7 DEF Deliver, Yield
    <2>2. run \in 1..run
      BY <1>1, RunsAreReaders DEF ViewTypeOK
    <2> QED
      BY <1>1, <1>2, <2>1, <2>2
  <1>8. ASSUME NEW r \in 1..run, Stream(r) PROVE RunsAreNew'
    <2>1. stream[r].pc \in {"clock", "query"} /\ UNCHANGED <<run, listening>>
          /\ \A s \in Readers \ {r} : stream'[s] = stream[s]
      BY <1>1, <1>8 DEF Stream, StartStream, ReadStartTime, StartTime, AskChannel, QueryChannel, More,
         Complete, ReturnCursor, LastOfClosed, view
    <2> QED
      BY <1>1, <1>2, <2>1
  <1>9. CASE Watch
    <2>1. run' = run + 1 /\ stream' = stream /\ run' \in Readers
      BY <1>1, <1>9, RunsAreReaders DEF Watch, vars
    <2>2. \A s \in Readers : s > run => stream[s] = NewStream
      BY DEF RunsAreNew
    <2>3. stream[run'] = NewStream
      BY <1>1, <2>1, <2>2
    <2>4. \A s \in Readers : s > run' => s > run
      BY <1>1, <2>1
    <2> QED
      BY <2>1, <2>2, <2>3, <2>4 DEF RunsAreNew
  <1>10. CASE Listen \/ Flatten \/ UNCHANGED all
    BY <1>3, <1>10 DEF Listen, Flatten, all, vars, view
  <1>11. CASE PollAgain
    <2>2. run \in 1..run
      BY <1>1, RunsAreReaders DEF ViewTypeOK
    <2>1. listening /\ UNCHANGED <<run, listening>> /\ \A s \in Readers \ {run} : stream'[s] = stream[s]
      BY <1>1, <1>11 DEF PollAgain, Ready, view, Discover, ContinueDiscover, Begin
    <2> QED
      BY <1>2, <2>1, <2>2
  <1>12. CASE PollFails
    <2>2. run \in 1..run
      BY <1>1, RunsAreReaders DEF ViewTypeOK
    <2>1. /\ stream[run] # NewStream /\ UNCHANGED <<run, listening>>
          /\ \A s \in Readers \ {run} : stream'[s] = stream[s]
      BY <1>1, <1>12 DEF PollFails
    <2> QED
      BY <1>2, <2>1, <2>2
  <1> QED
    BY <1>4, <1>5, <1>6, <1>7, <1>8, <1>9, <1>10, <1>11, <1>12 DEF ViewNext

\* An object that is told nothing of, while the stream of the run goes on as it
\* was, or waits with its cursor.
LEMMA ListStays ==
  ASSUME NEW u \in Urls, ListHolds, docs'[u] = docs[u],
         u \in raw' <=> u \in raw, u \in late => u \in late',
         stream'[run'].hasCursor =>
           stream[run].hasCursor /\ stream'[run'].cursor = stream[run].cursor,
         stream'[run'].pc = "query" => stream'[run'] = stream[run],
         Settled(u)', docs'[u].state # "none"
  PROVE  ListKept(u)' /\ ListPromised(u)'
  <1>1. Settled(u) /\ docs[u].state # "none"
    BY DEF Settled, Discoverable, Overtaken
  <1>2. ListKept(u) /\ ListPromised(u)
    BY <1>1 DEF ListHolds
  <1>3. ListKept(u)'
    BY <1>2 DEF ListKept, Right
  <1>4. ListPromised(u)'
    BY <1>2 DEF ListPromised, Right, Pending
  <1> QED
    BY <1>3, <1>4

\* The same for all objects.
LEMMA ListsStay ==
  ASSUME ListHolds, UNCHANGED <<docs, raw>>, late \subseteq late',
         stream'[run'].hasCursor =>
           stream[run].hasCursor /\ stream'[run'].cursor = stream[run].cursor,
         stream'[run'].pc = "query" => stream'[run'] = stream[run]
  PROVE  ListHolds'
  <1> SUFFICES ASSUME NEW u \in Urls, Settled(u)', docs'[u].state # "none"
               PROVE  ListKept(u)' /\ ListPromised(u)'
    BY DEF ListHolds
  <1> QED
    BY ListStays

LEMMA ListIsRight ==
  ASSUME NEW u \in Urls, Right(u)'
  PROVE  ListKept(u)' /\ ListPromised(u)'
  BY DEF ListKept, ListPromised, Right

\* What is told of an object is its state, or was and is remembered as late.
LEMMA ToldList ==
  ASSUME RunsAreNew, ListHolds, NEW u \in Urls, NEW value \in {"live", "dead"},
         docs[u].state \in {value, "dead"}, Dispatch(u, value), Hindsight(u, value),
         UNCHANGED <<docs, run>>, stream'[run] = stream[run]
  PROVE  ListHolds'
  <1> SUFFICES ASSUME NEW v \in Urls, Settled(v)', docs'[v].state # "none"
               PROVE  ListKept(v)' /\ ListPromised(v)'
    BY DEF ListHolds
  <1>1. late \subseteq late' /\ (u \in late' \/ docs[u].state = value)
    BY DEF Hindsight
  <1>2. CASE v # u
    <2>1. v \in raw' <=> v \in raw
      BY <1>2 DEF Dispatch
    <2> QED
      BY <1>1, <2>1, ListStays
  <1>3. CASE v = u /\ ~listening
    <2>1. stream[run].hasCursor = FALSE /\ stream[run].pc = "idle"
      BY <1>3 DEF RunsAreNew, NewStream
    <2> QED
      BY <2>1 DEF ListKept, ListPromised
  <1>4. CASE v = u /\ listening
    <2>1. MatchObject(u) /\ docs[u].state = value
      BY <1>1, <1>4 DEF Settled, MatchObject, Discoverable
    <2>2. u \in raw' <=> value = "live"
      BY <1>4, <2>1 DEF Dispatch
    <2>3. Right(v)'
      BY <1>4, <2>1, <2>2 DEF Right
    <2> QED
      BY <2>3, ListIsRight
  <1> QED
    BY <1>2, <1>3, <1>4

\* A put carries a number that no stream of the run has passed.
LEMMA PutList ==
  ASSUME Base, ListHolds, run \in Readers, NEW w \in Writers, Put(w), UNCHANGED view
  PROVE  ListHolds'
  <1> SUFFICES ASSUME NEW u \in Urls, Settled(u)', docs'[u].state # "none"
               PROVE  ListKept(u)' /\ ListPromised(u)'
    BY DEF ListHolds
  <1>1. /\ UNCHANGED <<stream, run, raw, late>> /\ clock \in Nat
        /\ stream[run].cursor \in Nat /\ stream[run].start \in Nat
    BY Fields DEF Put, view, Base
  <1>2. CASE u # op[w].url
    <2>1. docs'[u] = docs[u]
      BY <1>2, PutWrites DEF Base
    <2> QED
      BY <1>1, <2>1, ListStays
  <1>3. CASE u = op[w].url
    <2>1. docs'[u].lastModified = op[w].stamp /\ docs'[u].seq = clock + 1 /\ op[w].stamp \in Nat
      BY <1>3, PutWrites DEF Base, Typed, TypeOK
    <2>2. docs'[u].lastModified = clock
      BY <1>1, <2>1 DEF Settled, Overtaken
    <2>3. stream[run].cursor <= clock /\ stream[run].start <= clock
      BY DEF Base, Covering, Sane
    <2> QED
      BY <1>1, <2>2, <2>3 DEF ListKept, ListPromised
  <1> QED
    BY <1>2, <1>3

\* A first stream takes the tombstones on the list for late; a continuation
\* asks for what its cursor leaves out.
LEMMA StartList ==
  ASSUME Base, ListHolds, run \in Readers, StartStream(run)
  PROVE  ListHolds'
  <1> SUFFICES ASSUME NEW u \in Urls, Settled(u)', docs'[u].state # "none"
               PROVE  ListKept(u)' /\ ListPromised(u)'
    BY DEF ListHolds
  <1> DEFINE x == stream[run]
             n == stream'[run]
  <1>1. /\ x.pc = "clock" /\ UNCHANGED <<docs, raw, run>> /\ late \subseteq late'
        /\ n.channel = 1 /\ n.processed = {} /\ n.cursor = x.cursor /\ n.since = x.since
        /\ n.hasCursor = x.hasCursor /\ n.continues = x.continues
    BY Fields DEF Base, StartStream, ReadStartTime, StartTime, data, Streams
  <1>2. ~x.continues => {v \in raw : docs[v].state = "dead"} \subseteq late'
    BY DEF StartStream
  <1>3. Settled(u) /\ ListKept(u)
    BY <1>1 DEF Settled, Discoverable, Overtaken, ListHolds
  <1>4. ListKept(u)'
    BY <1>1, <1>3 DEF ListKept, Right
  <1>5. PICK ch \in ChannelsOf[u] : ch >= 1
    BY <1>3, Fields DEF Base, Settled, Discoverable
  <1>6. x.continues => x.hasCursor /\ x.since = x.cursor
    BY DEF Base, Covering, Sane
  <1>7. CASE x.continues
    <2>1. docs[u].lastModified < x.cursor \/ docs[u].lastModified >= x.since
      BY <1>6, <1>7, Fields DEF Base
    <2>2. docs[u].lastModified < x.cursor => Right(u)'
      BY <1>1, <1>3, <1>6, <1>7 DEF ListKept, Right
    <2>3. docs[u].lastModified >= x.since => Pending(stream[run], u)'
      BY <1>1, <1>5 DEF Pending
    <2> QED
      BY <1>1, <1>4, <1>7, <2>1, <2>2, <2>3 DEF ListPromised
  <1>8. CASE ~x.continues
    <2>1. Pending(stream[run], u)'
      BY <1>1, <1>5, <1>8 DEF Pending
    <2>2. docs[u].state = "dead" => u \notin raw
      BY <1>2, <1>8 DEF Settled
    <2> QED
      BY <1>1, <1>4, <2>1, <2>2 DEF ListPromised
  <1> QED
    BY <1>7, <1>8

\* A channel gives what the stream was to give, or leaves it to a later one.
LEMMA AskList ==
  ASSUME Base, ListHolds, run \in Readers, AskChannel(run)
  PROVE  ListHolds'
  <1> SUFFICES ASSUME NEW u \in Urls, Settled(u)', docs'[u].state # "none"
               PROVE  ListKept(u)' /\ ListPromised(u)'
    BY DEF ListHolds
  <1> DEFINE x == stream[run]
             n == stream'[run]
  <1>1. /\ x.pc = "query" /\ x.batch = Unknown
        /\ UNCHANGED <<docs, raw, run, late>>
        /\ n.pc = "query" /\ n.channel = x.channel + 1
        /\ n.processed = x.processed \cup Rows(x)
        /\ n.start = x.start /\ n.cursor = x.cursor /\ n.since = x.since
        /\ n.hasCursor = x.hasCursor /\ n.continues = x.continues
    BY Fields DEF Base, AskChannel, view, QueryChannel, More, data, Streams
  <1>2. \A v \in Urls : n.batch[v] = IF v \in Rows(x) /\ Returned(x, v)
                                     THEN docs[v].state ELSE "none"
    BY Fields DEF Base, AskChannel, QueryChannel, Streams
  <1>3. /\ x.channel \in Nat /\ docs[u].state \in States /\ ChannelsOf[u] \subseteq Nat
        /\ x.batch[u] = "none"
    BY <1>1, Fields DEF Base, Unknown
  <1>4. Settled(u) /\ docs[u].state # "none" /\ ListKept(u) /\ ListPromised(u)
    BY <1>1 DEF Settled, Discoverable, Overtaken, ListHolds
  <1> HIDE DEF x, n
  <1>5. ListKept(u)'
    BY <1>1, <1>4 DEF ListKept, Right, x, n
  <1>6. ASSUME docs[u].lastModified < x.start
        PROVE  Right(u) \/ Pending(n, u)
    <2> SUFFICES ASSUME ~Right(u) PROVE Pending(n, u)
      OBVIOUS
    <2>1. PICK ch \in ChannelsOf[u] :
            /\ u \notin x.processed /\ ch >= x.channel
            /\ x.continues => docs[u].lastModified >= x.since
      BY <1>1, <1>3, <1>4, <1>6 DEF ListPromised, Pending, x
    <2>2. CASE u \in Rows(x)
      <3>1. docs[u].state = "live" \/ x.continues
        BY <1>1, <1>3, <1>4, <1>6 DEF ListPromised, Right, States, x
      <3>2. Returned(x, u)
        BY <1>4, <2>1, <3>1 DEF Returned, Settled, Discoverable
      <3> QED
        BY <1>2, <2>2, <3>2 DEF Pending
    <2>3. CASE u \notin Rows(x)
      <3>1. ch # x.channel
        BY <1>4, <2>1, <2>3 DEF Rows
      <3>2. ch >= n.channel
        BY <1>1, <1>3, <2>1, <3>1
      <3> QED
        BY <1>1, <2>1, <2>3, <3>2 DEF Pending
    <2> QED
      BY <2>2, <2>3
  <1>7. Pending(n, u) => Pending(stream[run], u)'
    BY <1>1 DEF Pending, n
  <1>8. ListPromised(u)'
    BY <1>1, <1>4, <1>6, <1>7 DEF ListPromised, Right, x, n
  <1> QED
    BY <1>5, <1>8

\* The stream has told all it had to tell when it returns its cursor.
LEMMA CompleteList ==
  ASSUME Base, ListHolds, run \in Readers, Complete(run)
  PROVE  ListHolds'
  <1> SUFFICES ASSUME NEW u \in Urls, Settled(u)', docs'[u].state # "none"
               PROVE  ListKept(u)' /\ ListPromised(u)'
    BY DEF ListHolds
  <1> DEFINE x == stream[run]
             n == [NewStream EXCEPT !.cursor = x.start, !.hasCursor = TRUE]
  <1>1. /\ x.pc = "query" /\ x.channel > Query /\ x.batch = Unknown
        /\ UNCHANGED <<docs, raw, run, late>> /\ stream'[run] = n
    BY Fields DEF Base, Complete, ReturnCursor, data
  <1>2. n.pc = "idle" /\ n.cursor = x.start
    BY DEF NewStream
  <1>3. Settled(u) /\ docs[u].state # "none" /\ ListPromised(u)
    BY <1>1 DEF Settled, Discoverable, Overtaken, ListHolds
  <1>4. ~Pending(x, u)
    <2>1. x.batch[u] # docs[u].state
      BY <1>1, <1>3 DEF Unknown
    <2>2. ~ \E ch \in ChannelsOf[u] : ch >= x.channel
      BY <1>1, Fields, QueryAssumption DEF Base
    <2> QED
      BY <2>1, <2>2 DEF Pending
  <1>5. docs[u].lastModified < x.start => Right(u)
    BY <1>1, <1>3, <1>4 DEF ListPromised
  <1> HIDE DEF n
  <1>6. ListKept(u)'
    BY <1>1, <1>2, <1>5 DEF ListKept, Right
  <1>7. ListPromised(u)'
    BY <1>1, <1>2 DEF ListPromised
  <1> QED
    BY <1>6, <1>7

\* The listener is told what the stream has in its hands; when that is out of
\* date, the object was written since the stream began.
LEMMA DeliverList ==
  ASSUME Base, RunsAreNew, ListHolds, run \in Readers, NEW v \in Urls, Deliver(v)
  PROVE  ListHolds'
  <1> SUFFICES ASSUME NEW u \in Urls, Settled(u)', docs'[u].state # "none"
               PROVE  ListKept(u)' /\ ListPromised(u)'
    BY DEF ListHolds
  <1> DEFINE x == stream[run]
             n == stream'[run]
  <1>1. /\ x.pc = "query" /\ x.batch[v] # "none"
        /\ UNCHANGED <<docs, run, late>>
        /\ n.pc = "query" /\ n.channel = x.channel /\ n.processed = x.processed
        /\ n.start = x.start /\ n.cursor = x.cursor /\ n.since = x.since
        /\ n.hasCursor = x.hasCursor /\ n.continues = x.continues
        /\ \A t \in Urls \ {v} : n.batch[t] = x.batch[t]
    BY Fields DEF Base, Deliver, Yield, data, Streams
  <1>2. Settled(u) /\ docs[u].state # "none" /\ ListKept(u) /\ ListPromised(u)
    BY <1>1 DEF Settled, Discoverable, Overtaken, ListHolds
  <1> HIDE DEF x, n
  <1>3. CASE u # v
    <2>1. u \in raw' <=> u \in raw
      BY <1>3 DEF Deliver, Dispatch
    <2>2. Right(u)' <=> Right(u)
      BY <1>1, <2>1 DEF Right
    <2>3. Pending(stream[run], u)' <=> Pending(x, u)
      BY <1>1, <1>3 DEF Pending, n
    <2>4. ListKept(u)'
      BY <1>1, <1>2, <2>2 DEF ListKept, x, n
    <2>5. ListPromised(u)'
      BY <1>1, <1>2, <2>1, <2>2, <2>3 DEF ListPromised, x, n
    <2> QED
      BY <2>4, <2>5
  <1>4. CASE u = v /\ x.batch[v] = docs[v].state
    <2>1. stream[run] # NewStream
      BY <1>1 DEF NewStream, x
    <2>2. listening /\ MatchObject(v)
      BY <1>2, <1>4, <2>1 DEF RunsAreNew, MatchObject, Settled
    <2>3. docs[v].state \in {"live", "dead"}
      BY <1>2, <1>4, Fields DEF Base, States
    <2>4. v \in raw' <=> docs[v].state = "live"
      BY <1>4, <2>2, <2>3 DEF Deliver, Dispatch, x
    <2>5. Right(u)'
      BY <1>1, <1>4, <2>4 DEF Right
    <2> QED
      BY <2>5, ListIsRight
  <1>5. CASE u = v /\ x.batch[v] # docs[v].state
    <2>1. docs[u].lastModified >= x.start
      BY <1>1, <1>2, <1>5 DEF Base, Covering, Held, Settled, x
    <2>2. x.hasCursor => x.cursor <= x.start
      BY <1>1 DEF Base, Covering, Sane, x
    <2>3. x.cursor \in Nat /\ x.start \in Nat /\ docs[u].lastModified \in Nat
      BY Fields DEF Base, x
    <2> QED
      BY <1>1, <2>1, <2>2, <2>3 DEF ListKept, ListPromised, n
  <1> QED
    BY <1>3, <1>4, <1>5

LEMMA ListStep ==
  ASSUME ViewInv, ViewNext \/ UNCHANGED all
  PROVE  ListHolds'
  <1>1. /\ Base /\ RunsAreNew /\ ListHolds
        /\ run \in Readers /\ 1..run \subseteq Readers /\ run \in Nat /\ Readers \subseteq Nat
        /\ stream \in [Readers -> Streams]
    BY RunsAreReaders, TypeParts DEF ViewInv, ViewTypeOK, Base, Typed
  <1>2. ASSUME UNCHANGED <<docs, raw, run>>, late \subseteq late', stream'[run] = stream[run]
        PROVE  ListHolds'
    BY <1>1, <1>2, ListsStay
  <1>3. ASSUME NEW w \in Writers, NEW u \in Urls, (Post(w, u) \/ Delete(w, u)) /\ UNCHANGED view
        PROVE  ListHolds'
    BY <1>2, <1>3 DEF Post, Delete, Call, data, view
  <1>4. ASSUME NEW w \in Writers, Work(w) PROVE ListHolds'
    <2>1. CASE Put(w) /\ UNCHANGED view
      BY <1>1, <2>1, PutList
    <2>2. CASE (ReadClock(w) \/ Refused(w) \/ Return(w)) /\ UNCHANGED view
      BY <1>2, <2>2 DEF ReadClock, Refused, Return, data, view
    <2>3. CASE ReturnOfPage(w)
      <3>1. op[w].url \in Urls /\ op[w].result \in {"live", "dead"}
            /\ docs[op[w].url].state \in {op[w].result, "dead"}
        BY <1>1, <2>3 DEF ReturnOfPage, Return, Base, Typed, Targeted, WritesAreThere
      <3>2. UNCHANGED <<docs, run, stream>>
        BY <2>3 DEF ReturnOfPage, Return, data
      <3>3. Dispatch(op[w].url, op[w].result) /\ Hindsight(op[w].url, op[w].result)
        BY <2>3 DEF ReturnOfPage
      <3> QED
        BY <1>1, <3>1, <3>2, <3>3, ToldList
    <2> QED
      BY <1>4, <2>1, <2>2, <2>3 DEF Work, Write1, ReturnElsewhere
  <1>5. ASSUME NEW u \in Urls, Get(u) PROVE ListHolds'
    BY <1>2, <1>5 DEF Get, vars, data
  <1>6. ASSUME NEW u \in Urls, GetReturns(u) PROVE ListHolds'
    <2>1. docs[u].state \in {"live", "dead"}
      BY <1>1, <1>6, Fields DEF GetReturns, ViewInv, ViewTypeOK, Base, States
    <2>2. UNCHANGED <<docs, run, stream>>
      BY <1>6 DEF GetReturns, vars, data
    <2>3. Dispatch(u, "live") /\ Hindsight(u, "live")
      BY <1>6 DEF GetReturns
    <2> QED
      BY <1>1, <2>1, <2>2, <2>3, ToldList
  <1>7. ASSUME NEW u \in Urls, Deliver(u) PROVE ListHolds'
    BY <1>1, <1>7, DeliverList
  <1>8. ASSUME NEW r \in 1..run, Stream(r) PROVE ListHolds'
    <2>1. r \in Readers
      BY <1>1
    <2>2. ASSUME NEW u \in Urls, LastOfClosed(r, u) PROVE ListHolds'
      <3>1. stream[r].batch[u] \in States /\ Held(r, u)
        BY <1>1, <2>1, Fields DEF Base, Covering
      <3>2. stream[r].batch[u] \in {"live", "dead"} /\ docs[u].state \in {"live", "dead"}
        BY <1>1, <2>2, <3>1, Fields DEF Base, LastOfClosed, Held, States
      <3>3. docs[u].state \in {stream[r].batch[u], "dead"}
        BY <1>1, <2>1, <3>2 DEF Base, GravesAreGraves
      <3>4. UNCHANGED <<docs, run>> /\ stream'[run] = stream[run]
        BY <1>1, <2>1, <2>2 DEF LastOfClosed, data
      <3>5. Dispatch(u, stream[r].batch[u]) /\ Hindsight(u, stream[r].batch[u])
        BY <2>2 DEF LastOfClosed
      <3> QED
        BY <1>1, <3>2, <3>3, <3>4, <3>5, ToldList
    <2>3. CASE r = run /\ (StartStream(r) \/ AskChannel(r) \/ Complete(r))
      BY <1>1, <2>3, StartList, AskList, CompleteList
    <2>4. CASE r # run /\ (StartStream(r) \/ AskChannel(r) \/ Complete(r))
      <3>1. stream'[run] = stream[run]
        BY <1>1, <2>1, <2>4 DEF StartStream, ReadStartTime, StartTime, AskChannel, QueryChannel,
           Complete, ReturnCursor
      <3>2. UNCHANGED <<docs, raw, run>> /\ late \subseteq late'
        BY <2>4 DEF StartStream, ReadStartTime, AskChannel, QueryChannel, Complete, ReturnCursor,
           data, view
      <3> QED
        BY <1>2, <3>1, <3>2
    <2> QED
      BY <1>8, <2>2, <2>3, <2>4 DEF Stream
  <1>9. CASE Watch
    <2>1. run' = run + 1 /\ stream' = stream /\ run' \in Readers
      BY <1>1, <1>9, RunsAreReaders DEF Watch, vars
    <2>2. \A s \in Readers : s > run => stream[s] = NewStream
      BY <1>1 DEF RunsAreNew
    <2>3. stream'[run'] = NewStream
      BY <1>1, <2>1, <2>2
    <2>4. NewStream.hasCursor = FALSE /\ NewStream.pc = "idle"
      BY DEF NewStream
    <2> QED
      BY <2>3, <2>4 DEF ListHolds, ListKept, ListPromised
  <1>10. CASE Listen \/ Flatten \/ UNCHANGED all
    BY <1>2, <1>10 DEF Listen, Flatten, all, vars, data, view
  <1>11. CASE PollAgain
    <2>1. UNCHANGED <<docs, raw, run, late>>
      BY <1>11 DEF PollAgain, Discover, ContinueDiscover, Begin, data, view
    <2>2. ASSUME Discover(run) PROVE stream'[run].hasCursor = FALSE /\ stream'[run].pc = "clock"
      <3>1. stream'[run] = [NewStream EXCEPT !.pc = "clock"]
        BY <1>1, <2>2 DEF Discover, Begin
      <3> QED
        BY <3>1 DEF NewStream
    <2>3. ASSUME ContinueDiscover(run)
          PROVE  /\ stream'[run].pc = "clock" /\ stream'[run].cursor = stream[run].cursor
                 /\ stream'[run].hasCursor = stream[run].hasCursor
      <3>1. stream'[run] = [[stream[run] EXCEPT !.since = stream[run].cursor, !.continues = TRUE]
                              EXCEPT !.pc = "clock"]
        BY <1>1, <2>3 DEF ContinueDiscover, Begin
      <3>2. stream[run] \in Streams
        BY <1>1
      <3> QED
        BY <3>1, <3>2 DEF Streams
    <2>4. Discover(run) \/ ContinueDiscover(run)
      BY <1>11 DEF PollAgain
    <2> QED
      BY <1>1, <2>1, <2>2, <2>3, <2>4, ListsStay
  <1>12. CASE PollFails
    <2>1. /\ UNCHANGED <<docs, raw, run, late>>
          /\ stream' = [stream EXCEPT ![run] = [stream[run] EXCEPT !.pc = "idle"]]
      BY <1>12 DEF PollFails, data
    <2>2. stream[run] \in Streams /\ stream'[run] = [stream[run] EXCEPT !.pc = "idle"]
      BY <1>1, <2>1
    <2>3. /\ stream'[run].pc = "idle" /\ stream'[run].cursor = stream[run].cursor
          /\ stream'[run].hasCursor = stream[run].hasCursor
      BY <2>2 DEF Streams
    <2> QED
      BY <1>1, <2>1, <2>3, ListsStay
  <1> QED
    BY <1>3, <1>4, <1>5, <1>6, <1>7, <1>8, <1>9, <1>10, <1>11, <1>12 DEF ViewNext

LEMMA InitView == ViewInit => ViewInv
  <1> SUFFICES ASSUME ViewInit PROVE ViewInv
    OBVIOUS
  <1>1. Typed /\ Covering /\ Init
    BY InitTypes, InitCovers DEF ViewInit
  <1>2. /\ \A r \in Readers : stream[r] = NewStream
        /\ \A w \in Writers : op[w] = IdleOp
        /\ NewStream.hasCursor = FALSE /\ NewStream.pc = "idle" /\ NewStream.batch = Unknown
        /\ \A u \in Urls : Unknown[u] = "none"
        /\ IdleOp.pc = "idle"
    BY <1>1 DEF Init, NewStream, IdleOp, Unknown
  <1>3. PostsAreNew /\ WritesAreThere /\ GravesAreGraves
    BY <1>2 DEF PostsAreNew, Posting, Working, WritesAreThere, GravesAreGraves
  <1>4. 1 \in Readers /\ run = 1 /\ 1 \in 1..MaxRuns
    BY RunsAreReaders DEF ViewInit
  <1>5. ViewTypeOK
    BY <1>1, <1>4 DEF Typed, ViewTypeOK, ViewInit
  <1>6. RunsAreNew /\ ListHolds
    BY <1>2, <1>4 DEF RunsAreNew, ListHolds, ListKept, ListPromised
  <1> QED
    BY <1>1, <1>3, <1>5, <1>6 DEF ViewInv, Base

LEMMA ViewInvHolds == FairViewSpec => []ViewInv
  <1>1. ViewInit => ViewInv
    BY InitView
  <1>2. ViewInv /\ [ViewNext]_all => ViewInv'
    BY ViewBase, ViewTypes, RunsStayNew, ListStep DEF ViewInv
  <1> QED
    BY <1>1, <1>2, PTL DEF FairViewSpec

\* The types of the list and of what tells it: what is on the list was posted,
\* and belongs to it.
THEOREM ListTypes == FairViewSpec => []ViewTypeOK
  <1>1. ViewInv => ViewTypeOK
    BY DEF ViewInv
  <1> QED
    BY <1>1, ViewInvHolds, PTL

\* A cursor covers what it stands for on a page too, where the watcher drops
\* streams, and polls fail with some of their objects told.
THEOREM CursorsCoverLists == FairViewSpec => []CursorsCover
  <1>1. ViewInv => CursorsCover
    BY DEF ViewInv, Base, Covering, CursorsCover, Kept
  <1> QED
    BY <1>1, ViewInvHolds, PTL

\* However the page's own calls, the polls, their failures and the restarts of
\* the watcher interleave with the writers of other tabs: once a poll has
\* returned a cursor, the list is what that cursor stands for.
THEOREM ListsFollowCursors == FairViewSpec => []ListFollowsCursor
  <1>1. ViewInv => ListFollowsCursor
    BY DEF ViewInv, ListHolds, ListKept, Right, ListFollowsCursor
  <1> QED
    BY <1>1, ViewInvHolds, PTL
=============================================================================
