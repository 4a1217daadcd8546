---------------------------- MODULE Announcements ----------------------------
(******************************************************************************)
(* How objects of the decentralized implementation are posted, deleted and    *)
(* discovered: the bytes of an object are in its actor's storage bucket, and  *)
(* messages in inboxes announce it.  A post stores the bytes and announces    *)
(* them; a delete removes the bytes and announces tombstones, which name the  *)
(* message that they withdraw.  The actor's personal inbox comes last, and    *)
(* its message lists the others.                                              *)
(*                                                                            *)
(* A reader checks each message once against the storage bucket, and labels   *)
(* it with what it found, for all devices of its account; the calls that set  *)
(* labels are not waited for.  One actor posts; an inbox is the log that      *)
(* InboxServer and InboxStream make of it.  Every message here is genuine:    *)
(* signatures, tags and tickets are right.                                    *)
(******************************************************************************)
EXTENDS Integers, Sequences, FiniteSets

CONSTANTS
  Objects,
  Matching,     \* objects that the schema of the streams accepts
  Others,       \* shared inboxes, and personal inboxes of allowed actors
  Personal,     \* the personal inbox of the actor that posts
  Targets,      \* the others to which an object is announced
  Devices,      \* devices, with a message cache each
  Readers,      \* the devices that discover
  Me,           \* the device of the actor that posts
  Reads,        \* the inboxes of each device
  AccountOf,    \* the account of each device
  Anonymous,    \* no account
  MaxLog,       \* bound: messages of an inbox
  MaxDeletes,   \* bound: calls of delete
  MaxQueries,   \* bound: calls of discover
  Faults,       \* what may fail
  MaxFaults     \* bound: failures, of whatever kind

Inboxes == Others \cup {Personal}
Accounts == {AccountOf[d] : d \in Devices}
Places == 1..MaxLog

ASSUME TargetsAreOthers == Targets \in [Objects -> SUBSET Others]
ASSUME ReadsAreInboxes == Reads \in [Devices -> SUBSET Inboxes]
ASSUME ReadersAreDevices == Readers \subseteq Devices
ASSUME BoundIsNatural == MaxLog \in Nat
ASSUME MeReads == Me \in Devices /\ Personal \in Reads[Me]
                  /\ AccountOf[Me] # Anonymous

VARIABLES
  stored,   \* objects whose bytes are in the storage bucket
  log,      \* messages of each inbox
  act,      \* post or delete of each object
  label,    \* labels on the server, of each account
  cached,   \* labels in the message cache of each device
  pending,  \* label calls that have not arrived
  reader,   \* the streams of each device
  view,     \* history: the last that each device was given of an object
  blamed,   \* history: objects that a failure kept a reader from checking
  unresolved, \* history: those that were not found, but had not been looked for
  used      \* how much of each bound is spent

vars == <<stored, log, act, label, cached, pending, reader, view, blamed, unresolved, used>>

None == [i \in Inboxes |-> 0]
IdleAct == [pc |-> "idle", todo |-> {}, prior |-> None, anns |-> None]
Nothing == [obj |-> "nothing", state |-> "none"]
Unseen  == [o \in Objects |-> "none"]
NoCursor == -1
NewReader == [started |-> FALSE, active |-> {},
              place |-> None, cursor |-> [i \in Inboxes |-> NoCursor],
              filtered |-> [i \in Inboxes |-> TRUE],
              out |-> [i \in Inboxes |-> Nothing], last |-> Unseen]

Init ==
  /\ stored = {}
  /\ log = [i \in Inboxes |-> <<>>]
  /\ act = [o \in Objects |-> IdleAct]
  /\ label = [a \in Accounts |-> [i \in Inboxes |-> [k \in Places |-> "none"]]]
  /\ cached = [d \in Devices |-> [i \in Inboxes |-> [k \in Places |-> "absent"]]]
  /\ pending = {}
  /\ reader = [d \in Devices |-> NewReader]
  /\ view = [d \in Devices |-> Unseen]
  /\ blamed = {}
  /\ unresolved = {}
  /\ used = [deletes |-> 0, queries |-> 0, faults |-> 0]

Spend(what, bound) ==
  used[what] < bound /\ used' = [used EXCEPT ![what] = @ + 1]
Fault(kind) == kind \in Faults /\ Spend("faults", MaxFaults)

\* What keeps a reader from an object: its storage bucket is out of reach, or the
\* DID of its actor is, or names no storage bucket.
Outages == {"none", "bucket", "did"}

readers == <<label, cached, pending, reader, view, blamed, unresolved>>

-------------------------------------------------------------------------------
(* What a reader makes of a message: processOneLabeledMessage. *)

\* Messages are replayed from the cache of the device, or come in a new page,
\* with the labels of the server.
ServerLabel(d, i, k) ==
  IF AccountOf[d] = Anonymous THEN "none" ELSE label[AccountOf[d]][i][k]
LabelSeen(d, i, k, paged) ==
  IF k \in paged \/ cached[d][i][k] = "absent" THEN ServerLabel(d, i, k)
  ELSE cached[d][i][k]

\* What of the cache a new page may replace.
Pages(d, i, places) ==
  SUBSET {k \in places : cached[d][i][k] \notin {"absent", ServerLabel(d, i, k)}}

\* The message that a tombstone names, when it is about the same object and is
\* not labelled as trash yet.
Withdraws(i, m) == m.tomb \in 1..Len(log[i]) /\ log[i][m.tomb].obj = m.obj
TrashPast(d, i, m) ==
  IF Withdraws(i, m) /\ LabelSeen(d, i, m.tomb, {}) # "trash"
  THEN {<<m.tomb, "trash">>} ELSE {}

\* The answer of the storage bucket, and what the reader makes of it: a DID that
\* does not resolve is "not found" like bytes that are gone; what else fails is
\* an error.
Answer(o) == IF o \in stored THEN "found" ELSE "missing"
Finds(o, outage) == CASE outage = "bucket" -> "error"
                      [] outage = "did"    -> "missing"
                      [] OTHER             -> Answer(o)
Blame(o, outage) ==
  /\ blamed' = IF outage = "none" THEN blamed ELSE blamed \cup {o}
  /\ unresolved' = IF outage = "did" THEN unresolved \cup {o} ELSE unresolved

MutIsTombstone(i, m) == FALSE
\* Trash is passed on when it is a tombstone of this object.
IsTombstone(i, m) == m.tomb # 0 /\ Withdraws(i, m)

\* The state that the reader is given of the object, or "none".
Judgement(d, i, k, paged, answer) ==
  LET m == log[i][k]
      l == LabelSeen(d, i, k, paged)
  IN  CASE l = "valid" -> "live"
        [] l = "trash" /\ IsTombstone(i, m) -> "dead"
        [] l = "none" /\ m.tomb = 0 /\ answer = "found" -> "live"
        [] l = "none" /\ m.tomb # 0 /\ answer = "missing" -> "dead"
        [] OTHER -> "none"

MutFirstLabel(m, answer) == CASE m.tomb = 0 /\ answer = "found" -> "valid"
                              [] answer # "found"               -> "trash"
                              [] OTHER                          -> "invalid"
\* The label of a message that has none; an error is an incorrect object.
FirstLabel(m, answer) == CASE m.tomb = 0 /\ answer = "found" -> "valid"
                           [] answer = "missing"             -> "trash"
                           [] OTHER                          -> "invalid"

\* The labels that it sets.
Verdicts(d, i, k, paged, answer) ==
  LET m == log[i][k]
      l == LabelSeen(d, i, k, paged)
      first == FirstLabel(m, answer)
  IN  CASE l = "trash" /\ m.tomb # 0 -> TrashPast(d, i, m)
        [] l = "none" -> {<<k, first>>} \cup (IF m.tomb # 0 /\ first = "trash"
                                            THEN TrashPast(d, i, m) ELSE {})
        [] OTHER -> {}

About(i, o) == {k \in 1..Len(log[i]) : log[i][k].obj = o}

\* The message that get and delete find: the last that is live, unless a
\* tombstone follows.  0 is not found.
Lookup(d, i, o, paged, answers) ==
  LET given == [k \in About(i, o) |-> Judgement(d, i, k, paged, answers[k])]
      isLast(k) == /\ given[k] = "live"
                   /\ \A j \in About(i, o) : j > k => given[j] = "none"
  IN  IF \E k \in About(i, o) : isLast(k)
      THEN CHOOSE k \in About(i, o) : isLast(k) ELSE 0

Labels(d, i, verdicts) ==
  {[device |-> d, inbox |-> i, place |-> v[1], label |-> v[2]] : v \in verdicts}

\* A new page goes into the cache, over what is there.
Fetch(d, i, places, paged) ==
  cached' = [cached EXCEPT ![d][i] =
               [k \in Places |-> IF k \in places THEN LabelSeen(d, i, k, paged)
                                 ELSE @[k]]]

-------------------------------------------------------------------------------
(* post and delete. *)

\* An inbox stores the same message once, and answers its id.
PlaceOf(i, m) ==
  IF \E k \in 1..Len(log[i]) : log[i][k] = m
  THEN CHOOSE k \in 1..Len(log[i]) : log[i][k] = m ELSE Len(log[i]) + 1
Append1(i, m) ==
  /\ PlaceOf(i, m) <= MaxLog
  /\ log' = IF PlaceOf(i, m) > Len(log[i]) THEN [log EXCEPT ![i] = Append(@, m)]
            ELSE log

\* post puts the bytes under a random key.
Post(o) ==
  /\ act[o].pc = "idle" /\ o \notin stored
  /\ \A i \in Inboxes : About(i, o) = {}
  /\ stored' = stored \cup {o}
  /\ act' = [act EXCEPT ![o] = [IdleAct EXCEPT !.pc = "announce",
                                               !.todo = Targets[o]]]
  /\ UNCHANGED <<log, readers, used>>

\* What a delete withdraws: the announcements, and the message in the own inbox.
Prior(k) == [log[Personal][k].anns EXCEPT ![Personal] = k]

\* The messages that an outage may hit: the others are labelled.
Checked(d, i, o, paged) == {k \in About(i, o) : LabelSeen(d, i, k, paged) = "none"}
Answers(i, o, hit, outage) ==
  [k \in About(i, o) |-> Finds(o, IF k \in hit THEN outage ELSE "none")]

SpendDelete(outage) ==
  /\ used.deletes < MaxDeletes
  /\ outage # "none" => outage \in Faults /\ used.faults < MaxFaults
  /\ used' = [used EXCEPT !.deletes = @ + 1,
                          !.faults = IF outage = "none" THEN @ ELSE @ + 1]

\* delete looks in the personal inbox first, and labels what it sees there.
Delete(o, paged, hit, outage) ==
  LET answers == Answers(Personal, o, hit, outage)
      k == Lookup(Me, Personal, o, paged, answers)
  IN  /\ act[o].pc = "idle" /\ SpendDelete(outage)
      /\ hit = {} <=> outage = "none"
      /\ Fetch(Me, Personal, About(Personal, o), paged)
      /\ pending' = pending \cup
           UNION {Labels(Me, Personal, Verdicts(Me, Personal, j, paged, answers[j])) :
                    j \in About(Personal, o)}
      /\ Blame(o, outage)
      /\ act' = IF k = 0 THEN act
                ELSE [act EXCEPT ![o] = [IdleAct EXCEPT !.pc = "erase",
                                                        !.prior = Prior(k)]]
      /\ UNCHANGED <<stored, log, label, reader, view>>

EraseBytes(o) == act[o].pc = "erase" /\ stored' = stored \ {o}

\* The bytes go before any tombstone.
Erase(o) ==
  /\ EraseBytes(o)
  /\ act' = [act EXCEPT ![o].pc = "announce", ![o].todo = Targets[o]]
  /\ UNCHANGED <<log, readers, used>>

Message(o, i) == [obj |-> o, tomb |-> act[o].prior[i], anns |-> None]

Announce(o, i) ==
  /\ act[o].pc = "announce" /\ i \in act[o].todo
  /\ Append1(i, Message(o, i))
  /\ act' = [act EXCEPT ![o].todo = @ \ {i},
                        ![o].anns[i] = PlaceOf(i, Message(o, i))]
  /\ UNCHANGED <<stored, readers, used>>

\* An inbox that fails is left out of the list, whether it has the message or
\* not.
AnnounceFails(o, i) ==
  /\ act[o].pc = "announce" /\ i \in act[o].todo
  /\ Fault("send")
  /\ Append1(i, Message(o, i)) \/ UNCHANGED log
  /\ act' = [act EXCEPT ![o].todo = @ \ {i}]
  /\ UNCHANGED <<stored, readers>>

AnnounceToSelf(o) ==
  /\ act[o].pc = "announce" /\ act[o].todo = {}
  /\ Append1(Personal, [Message(o, Personal) EXCEPT !.anns = act[o].anns])
  /\ act' = [act EXCEPT ![o] = IdleAct]
  /\ UNCHANGED <<stored, readers, used>>

\* The page is closed, the storage bucket refuses, or the personal inbox fails.
Stop(o) ==
  /\ act[o].pc # "idle" /\ Fault("send")
  /\ act' = [act EXCEPT ![o] = IdleAct]
  /\ UNCHANGED <<stored, log, readers>>

-------------------------------------------------------------------------------
(* discover and continueDiscover: a stream for each inbox, merged as their     *)
(* results come.                                                              *)

Streams(d, x) ==
  /\ reader[d].active = {}
  /\ reader' = [reader EXCEPT ![d] = [x EXCEPT !.started = TRUE,
                                              !.active = Reads[d]]]
  /\ UNCHANGED <<stored, log, act, label, cached, pending, blamed, unresolved>>

Discover(d) ==
  /\ Spend("queries", MaxQueries)
  /\ Streams(d, NewReader)
  /\ view' = [view EXCEPT ![d] = Unseen]

\* An inbox without a cursor, because its stream failed, is asked anew; the
\* cursor has the channels, and no schema.
ContinueDiscover(d) ==
  LET x == reader[d]
  IN  /\ x.started
      /\ Streams(d, [x EXCEPT
           !.place = [i \in Inboxes |-> IF x.cursor[i] = NoCursor THEN 0
                                        ELSE x.cursor[i]],
           !.filtered = [i \in Inboxes |-> x.filtered[i] /\ x.cursor[i] # NoCursor]])
      /\ UNCHANGED <<view, used>>

\* The stream takes the next message, which passes the schema, and checks it.
Process(d, i, paged, outage) ==
  LET x == reader[d]
      k == x.place[i] + 1
      o == log[i][k].obj
      answer == Finds(o, outage)
      state  == Judgement(d, i, k, paged, answer)
  IN  /\ x.filtered[i] => o \in Matching
      /\ IF outage = "none" THEN UNCHANGED used
         ELSE LabelSeen(d, i, k, paged) = "none" /\ Fault(outage)
      /\ Fetch(d, i, {k}, paged)
      /\ pending' = pending \cup Labels(d, i, Verdicts(d, i, k, paged, answer))
      /\ Blame(o, outage)
      /\ reader' = [reader EXCEPT
           ![d].place[i] = k,
           ![d].out[i] = IF state = "none" THEN Nothing
                         ELSE [obj |-> o, state |-> state]]
      /\ UNCHANGED <<stored, log, act, label, view>>

\* The server leaves out what the schema refuses.
SkipRefused(d, i) ==
  LET x == reader[d]
  IN  /\ x.filtered[i] /\ log[i][x.place[i] + 1].obj \notin Matching
      /\ reader' = [reader EXCEPT ![d].place[i] = @ + 1]
      /\ UNCHANGED <<stored, log, act, label, cached, pending, view, blamed, unresolved, used>>

MutRepeats(x, y) == x.last[y.obj] # "none"
\* lastTombstoneState: what another inbox has already told.
Repeats(x, y) == x.last[y.obj] = y.state

Receive(d, i) ==
  LET x == reader[d]
      y == x.out[i]
  IN  /\ y # Nothing
      /\ reader' = [reader EXCEPT ![d].out[i] = Nothing,
                                  ![d].last[y.obj] = y.state]
      /\ view' = IF Repeats(x, y) THEN view
                 ELSE [view EXCEPT ![d][y.obj] = y.state]
      /\ UNCHANGED <<stored, log, act, label, cached, pending, blamed, unresolved, used>>

\* The state of the stream ends with it; the cursors stay.
Leave(d, i, cursor) ==
  LET others == reader[d].active \ {i}
  IN  reader' = [reader EXCEPT ![d].active = others, ![d].cursor[i] = cursor,
                               ![d].place[i] = 0,
                               ![d].last = IF others = {} THEN Unseen ELSE reader[d].last]

CursorAt(d, i) == reader[d].place[i]

EndOfInbox(d, i) ==
  /\ reader[d].place[i] = Len(log[i])
  /\ Leave(d, i, CursorAt(d, i))
  /\ UNCHANGED <<stored, log, act, label, cached, pending, view, blamed, unresolved, used>>

MutLeaveFailed(d, i) == Leave(d, i, Len(log[i]))
\* A failing inbox leaves the race without a new cursor.
LeaveFailed(d, i) == Leave(d, i, reader[d].cursor[i])

InboxFails(d, i) ==
  /\ Fault("inbox")
  /\ LeaveFailed(d, i)
  /\ UNCHANGED <<stored, log, act, label, cached, pending, view, blamed, unresolved>>

\* A label call arrives in any order after others: the server takes it, if there
\* is an account, and the device puts it into its cache.
Label(c) ==
  LET a == AccountOf[c.device]
  IN  /\ c \in pending /\ pending' = pending \ {c}
      /\ label' = IF a = Anonymous THEN label
                  ELSE [label EXCEPT ![a][c.inbox][c.place] = c.label]
      /\ cached' = IF cached[c.device][c.inbox][c.place] = "absent" THEN cached
                   ELSE [cached EXCEPT ![c.device][c.inbox][c.place] = c.label]
      /\ UNCHANGED <<stored, log, act, reader, view, blamed, unresolved, used>>

LabelFails(c) ==
  /\ c \in pending /\ pending' = pending \ {c}
  /\ Fault("label")
  /\ UNCHANGED <<stored, log, act, label, cached, reader, view, blamed, unresolved>>

\* The stream of the inbox waits for its next message.
Waits(d, i) == i \in reader[d].active /\ reader[d].out[i] = Nothing

Read(d, i) ==
  \/ /\ Waits(d, i) /\ reader[d].place[i] < Len(log[i])
     /\ \/ SkipRefused(d, i)
        \/ \E paged \in Pages(d, i, {reader[d].place[i] + 1}), outage \in Outages :
             Process(d, i, paged, outage)
  \/ Waits(d, i) /\ (EndOfInbox(d, i) \/ InboxFails(d, i))
  \/ Receive(d, i)

Next ==
  \/ \E o \in Objects :
       \/ Post(o) \/ Erase(o) \/ AnnounceToSelf(o) \/ Stop(o)
       \/ \E paged \in Pages(Me, Personal, About(Personal, o)), outage \in Outages :
            \E hit \in SUBSET Checked(Me, Personal, o, paged) :
              Delete(o, paged, hit, outage)
       \/ \E i \in Others : Announce(o, i) \/ AnnounceFails(o, i)
  \/ \E d \in Readers :
       \/ Discover(d) \/ ContinueDiscover(d)
       \/ \E i \in Reads[d] : Read(d, i)
  \/ \E c \in pending : Label(c) \/ LabelFails(c)

Spec == Init /\ [][Next]_vars

-------------------------------------------------------------------------------
LabelNames == {"none", "valid", "trash", "invalid"}

TypeOK ==
  /\ stored \subseteq Objects /\ blamed \subseteq Objects
  /\ unresolved \subseteq blamed
  /\ \A i \in Inboxes :
       /\ Len(log[i]) <= MaxLog
       /\ \A k \in 1..Len(log[i]) : /\ log[i][k].obj \in Objects
                                    /\ log[i][k].tomb \in 0..(k - 1)
                                    /\ log[i][k].anns \in [Inboxes -> 0..MaxLog]
  /\ act \in [Objects -> [pc : {"idle", "erase", "announce"},
                          todo : SUBSET Others, prior : [Inboxes -> 0..MaxLog],
                          anns : [Inboxes -> 0..MaxLog]]]
  /\ label \in [Accounts -> [Inboxes -> [Places -> LabelNames]]]
  /\ cached \in [Devices -> [Inboxes -> [Places -> LabelNames \cup {"absent"}]]]
  /\ \A c \in pending : /\ c.device \in Devices /\ c.inbox \in Inboxes
                         /\ c.place \in 1..Len(log[c.inbox])
                         /\ c.label \in LabelNames \ {"none"}
  /\ \A d \in Devices : \A i \in Inboxes :
       /\ reader[d].place[i] \in 0..Len(log[i])
       /\ reader[d].cursor[i] \in NoCursor..Len(log[i])
  /\ view \in [Devices -> [Objects -> {"none", "live", "dead"}]]

\* Every label there is, was or will be on its way.
Labelled(i, k, l) ==
  \/ \E a \in Accounts : label[a][i][k] = l
  \/ \E d \in Devices : cached[d][i][k] = l
  \/ \E c \in pending : c.inbox = i /\ c.place = k /\ c.label = l

\* A message is labelled as trash only when the bytes of its object are gone, or
\* when the DID of its actor once did not resolve to a storage bucket, whatever
\* devices, and label calls in flight, there are: trash is for ever.
TrashIsDeleted ==
  \A i \in Inboxes : \A k \in 1..Len(log[i]) :
    Labelled(i, k, "trash") => log[i][k].obj \notin stored \ unresolved

\* Trash means that the item "was deleted before we got a chance to validate it".
TrashWasDeleted ==
  \A i \in Inboxes : \A k \in 1..Len(log[i]) :
    Labelled(i, k, "trash") => log[i][k].obj \notin stored

\* The device has read all its inboxes to the end.
Settled(d) ==
  /\ reader[d].started /\ reader[d].active = {}
  /\ \A i \in Reads[d] : reader[d].cursor[i] = Len(log[i])

Mentions(i, o)  == About(i, o) # {}
Withdrawn(i, o) == \E k \in About(i, o) : log[i][k].tomb # 0

\* A device that has read everything does not show an object that was deleted
\* and withdrawn from the inboxes that announce it: tombstones win over the
\* announcements of other inboxes, and over labels set late or by other devices.
DeletionsReach ==
  \A d \in Devices, o \in Objects :
    /\ Settled(d) /\ o \notin stored \cup blamed
    /\ \A i \in Reads[d] : Mentions(i, o) => Withdrawn(i, o)
    => view[d][o] # "live"

\* A device that has read everything shows each object that is announced to it
\* and was not deleted, if the schema accepts it and no check of it failed.
PostsReach ==
  \A d \in Devices, o \in Matching :
    /\ Settled(d) /\ o \in stored \ blamed
    /\ \E i \in Reads[d] : Mentions(i, o)
    => view[d][o] = "live"

\* Once an object is withdrawn from an inbox, get does not find it there any
\* more, and delete does not find it in the personal inbox.
WithdrawnIsNotFound ==
  \A d \in Devices, o \in Objects : \A i \in Reads[d] :
    o \notin blamed /\ Withdrawn(i, o) =>
      \A paged \in Pages(d, i, About(i, o)) : Lookup(d, i, o, paged, Answers(i, o, {}, "none")) = 0

\* A message is labelled as invalid only when it is "an incorrect object" or "an
\* incorrect tombstone object"; here all are correct.
InvalidIsIncorrect ==
  \A i \in Inboxes : \A k \in 1..Len(log[i]) : ~Labelled(i, k, "invalid")

\* A continuation returns what matches the original stream.
ContinuationsMatch ==
  \A d \in Devices, o \in Objects : view[d][o] = "live" => o \in Matching
===============================================================================
