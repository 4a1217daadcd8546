-------------------------- MODULE AnnouncementsProofs --------------------------
(* Theorems about Announcements, for any objects, inboxes, devices and bounds. *)
EXTENDS Announcements, SequenceTheorems, TLAPS

(***************************************************************************)
(* The inductive invariant.                                                *)
(***************************************************************************)
States == {"none", "live", "dead"}
Given == {Nothing} \cup [obj : Objects, state : {"live", "dead"}]
LabelsSet == {"valid", "trash", "invalid"}
Messages == [obj : Objects, tomb : Nat, anns : [Inboxes -> Nat]]
Acts == [pc : {"idle", "erase", "announce"}, todo : SUBSET Others,
         prior : [Inboxes -> Nat], anns : [Inboxes -> Nat]]
StreamSets == [started : BOOLEAN, active : SUBSET Inboxes,
               place : [Inboxes -> Nat], cursor : [Inboxes -> Int],
               filtered : [Inboxes -> BOOLEAN], out : [Inboxes -> Given],
               last : [Objects -> States]]

Types ==
  /\ stored \subseteq Objects /\ blamed \subseteq Objects /\ unresolved \subseteq blamed
  /\ log \in [Inboxes -> Seq(Messages)]
  /\ \A i \in Inboxes : Len(log[i]) <= MaxLog
  /\ act \in [Objects -> Acts]
  /\ label \in [Accounts -> [Inboxes -> [Places -> LabelNames]]]
  /\ cached \in [Devices -> [Inboxes -> [Places -> LabelNames \cup {"absent"}]]]
  /\ pending \subseteq [device : Devices, inbox : Inboxes, place : Places, label : LabelsSet]
  /\ reader \in [Devices -> StreamSets]
  /\ view \in [Devices -> [Objects -> States]]

\* A place names a message about the object in the inbox, or it is 0.
Names(places, o) ==
  \A i \in Inboxes : places[i] # 0 => places[i] \in About(i, o)

\* Tombstones and lists name messages about their own object; a tombstone is in an
\* inbox, or about to be sent, only when the bytes are gone.
MessageHolds(i, k) ==
  LET m == log[i][k]
  IN  /\ m.tomb # 0 => m.tomb \in About(i, m.obj) /\ m.tomb < k /\ m.obj \notin stored
      /\ Names(m.anns, m.obj)
ActHolds(o) ==
  /\ Names(act[o].prior, o) /\ Names(act[o].anns, o)
  /\ act[o].pc = "announce" /\ act[o].prior # None => o \notin stored
LogsHold ==
  /\ \A i \in Inboxes : \A k \in 1..Len(log[i]) : MessageHolds(i, k)
  /\ \A o \in Objects : ActHolds(o)

\* Before its first tombstone about the object, if any.
Precedes(i, k, o) == \A j \in About(i, o) : log[i][j].tomb # 0 => k < j

\* What a label says of its message.
Deserved(i, k, l) ==
  /\ k \in 1..Len(log[i])
  /\ l = "trash" => log[i][k].obj \notin stored \ unresolved
  /\ l = "invalid" => log[i][k].obj \in blamed
  /\ l = "valid" => log[i][k].tomb = 0 /\ Precedes(i, k, log[i][k].obj)
LabelsHold ==
  \A i \in Inboxes, k \in Places, l \in LabelsSet : Labelled(i, k, l) => Deserved(i, k, l)

\* How far a device has read an inbox; it goes on from there.
Position(x, i) == IF i \in x.active THEN x.place[i] ELSE x.cursor[i]

Gone(o) == o \notin stored /\ \E i \in Inboxes : About(i, o) # {}
Passes(x, i, o) == x.filtered[i] => o \in Matching

StreamHolds(x, i) ==
  /\ x.place[i] <= Len(log[i]) /\ x.cursor[i] \in NoCursor..Len(log[i])
  /\ i \in x.active => x.cursor[i] <= x.place[i]
  /\ i \notin x.active => x.out[i] = Nothing
  /\ x.out[i].state = "live" =>
       /\ About(i, x.out[i].obj) # {} /\ Passes(x, i, x.out[i].obj)
       /\ Precedes(i, x.place[i], x.out[i].obj)
  /\ x.out[i].state = "dead" => Gone(x.out[i].obj)

\* An inbox that has shown an object, and has not told yet that it was withdrawn.
Shows(x, i, o) ==
  /\ About(i, o) # {} /\ Passes(x, i, o)
  /\ x.out[i] = [obj |-> o, state |-> "dead"] \/ Precedes(i, Position(x, i), o)

ViewHolds(x, shown, reads, o) ==
  /\ x.last[o] \in {"none", shown[o]}
  /\ shown[o] = "dead" => Gone(o)
  /\ shown[o] = "live" /\ o \notin blamed => \E i \in reads : Shows(x, i, o)
  /\ o \in Matching /\ o \in stored \ blamed =>
       \A i \in reads : (\E k \in About(i, o) : k <= Position(x, i)) =>
         shown[o] = "live" \/ x.out[i] = [obj |-> o, state |-> "live"]
ReaderHolds(x, shown, reads) ==
  /\ x.active \subseteq reads
  /\ \A i \in Inboxes : StreamHolds(x, i)
  /\ \A o \in Objects : ViewHolds(x, shown, reads, o)
ReadersHold == \A d \in Devices : ReaderHolds(reader[d], view[d], Reads[d])

Inv == Types /\ LogsHold /\ LabelsHold /\ ReadersHold

-----------------------------------------------------------------------------
LEMMA InitHolds == Init => Inv
<1> SUFFICES ASSUME Init PROVE Inv
  OBVIOUS
<1>1. Len(<<>>) = 0 /\ <<>> \in Seq(Messages)
  BY EmptySeq
<1>2. None \in [Inboxes -> Nat] /\ IdleAct \in Acts
  BY DEF None, IdleAct, Acts
<1>3. Unseen \in [Objects -> States] /\ Nothing \in Given
  BY DEF Unseen, States, Given
<1>4. NewReader \in StreamSets
  BY <1>2, <1>3 DEF NewReader, StreamSets, NoCursor, None
<1>5. Types
  BY <1>1, <1>2, <1>3, <1>4, BoundIsNatural DEF Init, Types, LabelNames, Places, States
<1>6. \A i \in Inboxes : Len(log[i]) = 0 /\ \A o : About(i, o) = {}
  BY <1>1 DEF Init, About
<1>7. LogsHold
  BY <1>6 DEF LogsHold, ActHolds, Names, Init, IdleAct, None
<1>8. LabelsHold
  BY DEF LabelsHold, Labelled, LabelsSet, Init, Accounts
<1>9. ASSUME NEW d \in Devices PROVE ReaderHolds(NewReader, Unseen, Reads[d])
  <2>1. NewReader.active = {} /\ NewReader.place = None /\ NewReader.last = Unseen
        /\ NewReader.cursor = [i \in Inboxes |-> NoCursor] /\ NewReader.out = [i \in Inboxes |-> Nothing]
    BY DEF NewReader
  <2>2. \A i \in Inboxes : StreamHolds(NewReader, i)
    BY <1>6, <2>1 DEF StreamHolds, Nothing, NoCursor, None
  <2>3. \A o \in Objects : ViewHolds(NewReader, Unseen, Reads[d], o)
    BY <1>6, <2>1, ReadsAreInboxes DEF ViewHolds, Unseen
  <2> QED BY <2>1, <2>2, <2>3 DEF ReaderHolds
<1>10. ReadersHold
  BY <1>9 DEF ReadersHold, Init
<1> QED BY <1>5, <1>7, <1>8, <1>10 DEF Inv

(***************************************************************************)
(* Logs grow.                                                              *)
(***************************************************************************)

\* A check that failed stays a check that failed.
Doubts == blamed \subseteq blamed' /\ unresolved \subseteq unresolved'

\* Messages stay, and bytes come of objects only that no message is about.
Grows ==
  /\ \A i \in Inboxes :
       /\ Len(log[i]) \in Nat /\ Len(log'[i]) \in Nat /\ Len(log[i]) <= Len(log'[i])
       /\ \A k \in 1..Len(log[i]) : log'[i][k] = log[i][k]
  /\ \A o \in stored' \ stored : \A i \in Inboxes : About(i, o) = {} /\ About(i, o)' = {}

LEMMA AboutGrows ==
  ASSUME Grows, NEW i \in Inboxes, NEW o
  PROVE  /\ About(i, o) \subseteq About(i, o)'
         /\ \A k \in About(i, o)' : k <= Len(log[i]) => k \in About(i, o)
         /\ \A k \in About(i, o)' : k \in 1..Len(log'[i])
BY DEF Grows, About

LEMMA PrecedesGrows ==
  ASSUME Grows, NEW i \in Inboxes, NEW o, NEW k \in Int, k <= Len(log[i]), Precedes(i, k, o)
  PROVE  Precedes(i, k, o)'
<1> SUFFICES ASSUME NEW j \in About(i, o)', log'[i][j].tomb # 0 PROVE k < j
  BY DEF Precedes
<1>1. CASE j <= Len(log[i])
  <2>1. j \in About(i, o) /\ log'[i][j] = log[i][j]
    BY <1>1, AboutGrows DEF Grows, About
  <2> QED BY <2>1 DEF Precedes
<1>2. CASE ~(j <= Len(log[i]))
  BY <1>2, AboutGrows DEF Grows
<1> QED BY <1>1, <1>2

LEMMA GoneStays ==
  ASSUME Grows, NEW o, Gone(o) PROVE Gone(o)'
<1>1. PICK i \in Inboxes : About(i, o) # {}
  BY DEF Gone
<1>2. About(i, o)' # {}
  BY <1>1, AboutGrows
<1> QED BY <1>1, <1>2 DEF Gone, Grows

LEMMA DeservedStays ==
  ASSUME Grows, Doubts, NEW i \in Inboxes, NEW k, NEW l, Deserved(i, k, l)
  PROVE  Deserved(i, k, l)'
<1>1. k \in 1..Len(log[i]) /\ k \in 1..Len(log'[i]) /\ log'[i][k] = log[i][k]
  BY DEF Deserved, Grows
<1>2. k \in About(i, log[i][k].obj)
  BY <1>1 DEF About
<1>3. l = "valid" => Precedes(i, k, log[i][k].obj)'
  <2> SUFFICES ASSUME l = "valid" PROVE Precedes(i, k, log[i][k].obj)'
    OBVIOUS
  <2>1. PICK o : o = log[i][k].obj
    OBVIOUS
  <2>2. Precedes(i, k, o)
    BY <2>1 DEF Deserved
  <2>3. k \in Int /\ k <= Len(log[i])
    BY <1>1
  <2>4. Precedes(i, k, o)'
    BY <2>2, <2>3, PrecedesGrows
  <2> QED BY <1>1, <2>1, <2>4
<1>4. l = "trash" => log[i][k].obj \notin stored' \ unresolved'
  BY <1>2 DEF Deserved, Grows, Doubts
<1> QED BY <1>1, <1>3, <1>4 DEF Deserved, Doubts

LEMMA NamesGrow ==
  ASSUME Grows, NEW places, NEW o, Names(places, o)
  PROVE  Names(places, o)'
BY AboutGrows DEF Names

LEMMA StreamGrows ==
  ASSUME Inv, Grows, NEW x \in StreamSets, NEW i \in Inboxes, StreamHolds(x, i)
  PROVE  StreamHolds(x, i)'
<1>1. x.place[i] \in Nat /\ x.cursor[i] \in Int
  BY DEF StreamSets
<1>2. x.place[i] <= Len(log'[i]) /\ x.cursor[i] \in NoCursor..Len(log'[i])
  BY <1>1 DEF StreamHolds, Grows, NoCursor
<1>3. ASSUME x.out[i].state = "live"
      PROVE  /\ About(i, x.out[i].obj)' # {} /\ Passes(x, i, x.out[i].obj)
             /\ Precedes(i, x.place[i], x.out[i].obj)'
  <2>1. PICK o : o = x.out[i].obj
    OBVIOUS
  <2>2. PICK k : k = x.place[i]
    OBVIOUS
  <2>3. About(i, o) # {} /\ Passes(x, i, o) /\ Precedes(i, k, o) /\ k <= Len(log[i])
    BY <1>3, <2>1, <2>2 DEF StreamHolds
  <2>4. Precedes(i, k, o)' /\ About(i, o)' # {}
    BY <1>1, <2>2, <2>3, PrecedesGrows, AboutGrows
  <2> QED BY <2>1, <2>2, <2>3, <2>4
<1>4. x.out[i].state = "dead" => Gone(x.out[i].obj)'
  BY GoneStays DEF StreamHolds
<1> QED BY <1>2, <1>3, <1>4 DEF StreamHolds, Passes

LEMMA PositionIs ==
  ASSUME NEW x \in StreamSets, NEW i \in Inboxes, StreamHolds(x, i), Len(log[i]) \in Nat
  PROVE  Position(x, i) \in Int /\ Position(x, i) <= Len(log[i])
<1>1. x.place[i] \in Nat /\ x.cursor[i] \in Int
  BY DEF StreamSets
<1> QED BY <1>1 DEF Position, StreamHolds, NoCursor

LEMMA ViewGrows ==
  ASSUME Inv, Grows, Doubts, NEW x \in StreamSets, \A i \in Inboxes : StreamHolds(x, i),
         NEW shown, NEW reads \in SUBSET Inboxes, NEW o \in Objects, ViewHolds(x, shown, reads, o)
  PROVE  ViewHolds(x, shown, reads, o)'
<1>1. \A i \in reads : Position(x, i) \in Int /\ Position(x, i) <= Len(log[i])
  BY PositionIs DEF Grows
<1>2. shown[o] = "dead" => Gone(o)'
  BY GoneStays DEF ViewHolds
<1>3. ASSUME NEW i \in reads, Shows(x, i, o) PROVE Shows(x, i, o)'
  <2>1. PICK k : k = Position(x, i)
    OBVIOUS
  <2>2. Precedes(i, k, o) => Precedes(i, k, o)'
    BY <1>1, <2>1, PrecedesGrows
  <2> QED BY <1>3, <2>1, <2>2, AboutGrows DEF Shows, Position, Passes
<1>4. ASSUME o \in Matching, o \in stored' \ blamed', NEW i \in reads,
             NEW k \in About(i, o)', k <= Position(x, i)
      PROVE  shown[o] = "live" \/ x.out[i] = [obj |-> o, state |-> "live"]
  <2>1. k \in About(i, o)
    BY <1>1, <1>4, AboutGrows DEF Grows
  <2>2. o \in stored \ blamed
    BY <1>4, <2>1 DEF Grows, Doubts
  <2> QED BY <1>4, <2>1, <2>2 DEF ViewHolds
<1> QED BY <1>2, <1>3, <1>4 DEF ViewHolds, Position, Doubts

LEMMA ReaderGrows ==
  ASSUME Inv, Grows, Doubts, NEW d \in Devices, NEW x \in StreamSets, NEW shown,
         ReaderHolds(x, shown, Reads[d])
  PROVE  ReaderHolds(x, shown, Reads[d])'
<1>1. Reads[d] \in SUBSET Inboxes
  BY ReadsAreInboxes
<1>2. \A i \in Inboxes : StreamHolds(x, i)'
  BY StreamGrows DEF ReaderHolds
<1>3. \A o \in Objects : ViewHolds(x, shown, Reads[d], o)'
  BY <1>1, ViewGrows DEF ReaderHolds
<1> QED BY <1>2, <1>3 DEF ReaderHolds

\* What the writers do keeps what the readers have.
LEMMA ReadersStay ==
  ASSUME Inv, Grows, UNCHANGED readers
  PROVE  LabelsHold' /\ ReadersHold'
<1>1. UNCHANGED <<label, cached, pending, reader, view, blamed, unresolved>> /\ Doubts
  BY DEF readers, Doubts
<1>2. LabelsHold'
  <2> SUFFICES ASSUME NEW i \in Inboxes, NEW k \in Places, NEW l \in LabelsSet, Labelled(i, k, l)'
               PROVE  Deserved(i, k, l)'
    BY DEF LabelsHold
  <2>1. Labelled(i, k, l)
    BY <1>1 DEF Labelled
  <2> QED BY <1>1, <2>1, DeservedStays DEF Inv, LabelsHold
<1>3. ASSUME NEW d \in Devices PROVE ReaderHolds(reader[d], view[d], Reads[d])'
  <2>1. PICK x : x = reader[d]
    OBVIOUS
  <2>2. PICK shown : shown = view[d]
    OBVIOUS
  <2>3. x \in StreamSets /\ ReaderHolds(x, shown, Reads[d])
    BY <2>1, <2>2 DEF Inv, Types, ReadersHold
  <2>4. ReaderHolds(x, shown, Reads[d])'
    BY <1>1, <2>3, ReaderGrows
  <2> QED BY <1>1, <2>1, <2>2, <2>4
<1> QED BY <1>2, <1>3 DEF ReadersHold

(***************************************************************************)
(* post and delete.                                                        *)
(***************************************************************************)
LEMMA SeqFacts ==
  ASSUME Inv, NEW i \in Inboxes
  PROVE  /\ log[i] \in Seq(Messages) /\ Len(log[i]) \in Nat
         /\ \A k \in 1..Len(log[i]) : log[i][k] \in Messages
<1>1. log[i] \in Seq(Messages)
  BY DEF Inv, Types
<1> QED BY <1>1, LenProperties, ElementOfSeq

\* What may be sent to an inbox.
MaySend(i, m) ==
  /\ m \in Messages /\ Names(m.anns, m.obj)
  /\ m.tomb # 0 => m.tomb \in About(i, m.obj) /\ m.obj \notin stored

LEMMA PlaceIs ==
  ASSUME Inv, NEW i \in Inboxes, NEW m
  PROVE  \/ PlaceOf(i, m) \in 1..Len(log[i]) /\ log[i][PlaceOf(i, m)] = m
         \/ PlaceOf(i, m) = Len(log[i]) + 1
BY DEF PlaceOf

LEMMA Appended ==
  ASSUME Inv, NEW i \in Inboxes, NEW m \in Messages, Append1(i, m)
  PROVE  /\ log' \in [Inboxes -> Seq(Messages)]
         /\ \A j \in Inboxes : Len(log'[j]) <= MaxLog
         /\ \A j \in Inboxes \ {i} : log'[j] = log[j]
         /\ Len(log'[i]) \in {Len(log[i]), Len(log[i]) + 1}
         /\ \A k \in 1..Len(log[i]) : log'[i][k] = log[i][k]
         /\ \A k \in 1..Len(log'[i]) : k \in 1..Len(log[i]) \/ (k = Len(log[i]) + 1 /\ log'[i][k] = m)
         /\ PlaceOf(i, m) \in 1..Len(log'[i]) /\ log'[i][PlaceOf(i, m)] = m
<1>1. log \in [Inboxes -> Seq(Messages)] /\ \A j \in Inboxes : Len(log[j]) <= MaxLog
  BY DEF Inv, Types
<1>2. Len(log[i]) \in Nat /\ log[i] \in Seq(Messages)
  BY SeqFacts
<1>3. CASE PlaceOf(i, m) \in 1..Len(log[i]) /\ log[i][PlaceOf(i, m)] = m
  <2>1. log' = log
    BY <1>2, <1>3 DEF Append1
  <2>2. log'[i] = log[i] /\ \A j \in Inboxes : log'[j] = log[j]
    BY <2>1
  <2>3. \A k \in 1..Len(log'[i]) : k \in 1..Len(log[i])
    BY <2>2
  <2>4. log' \in [Inboxes -> Seq(Messages)] /\ \A j \in Inboxes : Len(log'[j]) <= MaxLog
    BY <1>1, <2>1
  <2>5. Len(log'[i]) = Len(log[i]) /\ \A k \in 1..Len(log[i]) : log'[i][k] = log[i][k]
    BY <2>2
  <2>6. PlaceOf(i, m) \in 1..Len(log'[i]) /\ log'[i][PlaceOf(i, m)] = m
    BY <1>3, <2>2
  <2> QED BY <2>2, <2>3, <2>4, <2>5, <2>6
<1>4. CASE PlaceOf(i, m) = Len(log[i]) + 1
  <2>1. log' = [log EXCEPT ![i] = Append(log[i], m)] /\ Len(log[i]) + 1 <= MaxLog
    BY <1>2, <1>4 DEF Append1
  <2>2. PICK s : s = Append(log[i], m)
    OBVIOUS
  <2>3. /\ s \in Seq(Messages) /\ Len(s) = Len(log[i]) + 1 /\ s[Len(log[i]) + 1] = m
        /\ \A k \in 1..Len(log[i]) : s[k] = log[i][k]
    BY <1>2, <2>2, AppendProperties
  <2>4. log' \in [Inboxes -> Seq(Messages)] /\ log'[i] = s /\ \A j \in Inboxes \ {i} : log'[j] = log[j]
    BY <1>1, <2>1, <2>2, <2>3
  <2>5. /\ \A j \in Inboxes : Len(log'[j]) <= MaxLog
        /\ Len(log'[i]) \in {Len(log[i]), Len(log[i]) + 1}
        /\ \A k \in 1..Len(log[i]) : log'[i][k] = log[i][k]
    BY <1>1, <1>2, <2>1, <2>3, <2>4
  <2>6. \A k \in 1..Len(s) : k \in 1..Len(log[i]) \/ k = Len(log[i]) + 1
    BY <1>2, <2>3
  <2>7. Len(log[i]) + 1 \in 1..Len(s)
    BY <1>2, <2>3
  <2>8. \A k \in 1..Len(log'[i]) : k \in 1..Len(log[i]) \/ (k = Len(log[i]) + 1 /\ log'[i][k] = m)
    <3>1. \A k : k = Len(log[i]) + 1 => s[k] = m
      BY <2>3
    <3> QED BY <2>4, <2>6, <3>1, Zenon
  <2>9. PlaceOf(i, m) \in 1..Len(log'[i]) /\ log'[i][PlaceOf(i, m)] = m
    BY <1>4, <2>3, <2>4, <2>7
  <2> QED BY <2>4, <2>5, <2>8, <2>9
<1> QED BY <1>3, <1>4, PlaceIs

LEMMA Sent ==
  ASSUME Inv, NEW i \in Inboxes, NEW m, MaySend(i, m), Append1(i, m), UNCHANGED stored
  PROVE  /\ Grows /\ log' \in [Inboxes -> Seq(Messages)]
         /\ \A j \in Inboxes : Len(log'[j]) <= MaxLog
         /\ PlaceOf(i, m) \in About(i, m.obj)'
         /\ \A j \in Inboxes : \A k \in 1..Len(log'[j]) : MessageHolds(j, k)'
<1>1. m \in Messages
  BY DEF MaySend
<1>2. \A j \in Inboxes : Len(log[j]) \in Nat
  BY SeqFacts
<1>3. Grows
  <2>1. \A j \in Inboxes \ {i} : log'[j] = log[j]
    BY <1>1, Appended
  <2>2. Len(log'[i]) \in {Len(log[i]), Len(log[i]) + 1} /\ \A k \in 1..Len(log[i]) : log'[i][k] = log[i][k]
    BY <1>1, Appended
  <2> QED BY <1>2, <2>1, <2>2 DEF Grows
<1>4. PlaceOf(i, m) \in About(i, m.obj)'
  BY <1>1, Appended DEF About
<1>5. ASSUME NEW j \in Inboxes, NEW k \in 1..Len(log[j]), log'[j][k] = log[j][k]
      PROVE  MessageHolds(j, k)'
  <2>1. PICK p : p = log[j][k]
    OBVIOUS
  <2>2. /\ p.tomb # 0 => p.tomb \in About(j, p.obj) /\ p.tomb < k /\ p.obj \notin stored
        /\ Names(p.anns, p.obj)
    BY <2>1 DEF Inv, LogsHold, MessageHolds
  <2>3. Names(p.anns, p.obj)' /\ About(j, p.obj) \subseteq About(j, p.obj)'
    BY <1>3, <2>2, NamesGrow, AboutGrows
  <2> QED BY <1>5, <2>1, <2>2, <2>3 DEF MessageHolds
<1>6. ASSUME NEW k, k = Len(log[i]) + 1, log'[i][k] = m PROVE MessageHolds(i, k)'
  <2>1. Names(m.anns, m.obj)' /\ About(i, m.obj) \subseteq About(i, m.obj)'
    BY <1>3, NamesGrow, AboutGrows DEF MaySend
  <2>2. m.tomb # 0 => m.tomb \in About(i, m.obj)' /\ m.tomb < k /\ m.obj \notin stored'
    BY <1>2, <1>6, <2>1 DEF MaySend, About
  <2> QED BY <1>2, <1>6, <2>1, <2>2 DEF MessageHolds
<1>7. ASSUME NEW j \in Inboxes, NEW k \in 1..Len(log'[j]) PROVE MessageHolds(j, k)'
  <2>1. CASE j # i
    <3>1. log'[j] = log[j]
      BY <1>1, <2>1, Appended
    <3> QED BY <1>5, <3>1
  <2>2. CASE j = i
    <3>1. k \in 1..Len(log[i]) \/ (k = Len(log[i]) + 1 /\ log'[i][k] = m)
      BY <1>1, <2>2, Appended
    <3>2. CASE k \in 1..Len(log[i])
      BY <1>5, <2>2, <3>2, <1>1, Appended
    <3>3. CASE k = Len(log[i]) + 1 /\ log'[i][k] = m
      BY <1>6, <2>2, <3>3
    <3> QED BY <3>1, <3>2, <3>3
  <2> QED BY <2>1, <2>2
<1> QED BY <1>1, <1>3, <1>4, <1>7, Appended

LEMMA ActStays ==
  ASSUME Inv, Grows, NEW o \in Objects, act'[o] = act[o], o \in stored' => o \in stored
  PROVE  ActHolds(o)'
<1>1. PICK a : a = act[o]
  OBVIOUS
<1>2. Names(a.prior, o) /\ Names(a.anns, o) /\ (a.pc = "announce" /\ a.prior # None => o \notin stored)
  BY <1>1 DEF Inv, LogsHold, ActHolds
<1>3. Names(a.prior, o)' /\ Names(a.anns, o)'
  BY <1>2, NamesGrow
<1> QED BY <1>1, <1>2, <1>3 DEF ActHolds, None

LEMMA IdleHolds ==
  /\ IdleAct \in Acts /\ IdleAct.pc = "idle"
  /\ IdleAct.prior = None /\ IdleAct.anns = None
  /\ \A i \in Inboxes : None[i] = 0
BY DEF IdleAct, Acts, None

\* One object has another act.
LEMMA ActsHold ==
  ASSUME Inv, Grows, NEW o \in Objects, NEW a \in Acts, act' = [act EXCEPT ![o] = a],
         \A p \in Objects \ {o} : p \in stored' => p \in stored,
         Names(a.prior, o)', Names(a.anns, o)', a.pc = "announce" /\ a.prior # None => o \notin stored'
  PROVE  act' \in [Objects -> Acts] /\ \A p \in Objects : ActHolds(p)'
<1>1. act \in [Objects -> Acts]
  BY DEF Inv, Types
<1>2. act' \in [Objects -> Acts] /\ act'[o] = a /\ \A p \in Objects \ {o} : act'[p] = act[p]
  BY <1>1
<1>3. \A p \in Objects \ {o} : ActHolds(p)'
  BY <1>2, ActStays
<1>4. ActHolds(o)'
  BY <1>2 DEF ActHolds, None
<1> QED BY <1>2, <1>3, <1>4

LEMMA SameLogs ==
  ASSUME Inv, UNCHANGED log, \A o \in stored' \ stored : \A i \in Inboxes : About(i, o) = {}
  PROVE  Grows /\ \A i \in Inboxes : \A k \in 1..Len(log'[i]) : MessageHolds(i, k)'
<1>1. \A i, o : About(i, o)' = About(i, o)
  BY DEF About
<1>2. Grows
  BY <1>1, SeqFacts DEF Grows
<1>3. ASSUME NEW i \in Inboxes, NEW k \in 1..Len(log[i]) PROVE MessageHolds(i, k)'
  <2>1. PICK m : m = log[i][k]
    OBVIOUS
  <2>2. m.obj \notin stored => m.obj \notin stored' \/ About(i, m.obj) = {}
    BY DEF Grows
  <2>3. k \in About(i, m.obj)
    BY <2>1 DEF About
  <2>4. MessageHolds(i, k)
    BY DEF Inv, LogsHold
  <2> QED BY <1>1, <2>1, <2>2, <2>3, <2>4 DEF MessageHolds, Names
<1> QED BY <1>2, <1>3

LEMMA WriterHolds ==
  ASSUME Inv, Grows, UNCHANGED readers, stored' \subseteq Objects,
         log' \in [Inboxes -> Seq(Messages)], \A i \in Inboxes : Len(log'[i]) <= MaxLog,
         \A i \in Inboxes : \A k \in 1..Len(log'[i]) : MessageHolds(i, k)',
         act' \in [Objects -> Acts], \A o \in Objects : ActHolds(o)'
  PROVE  Inv'
<1>1. Types'
  BY DEF Inv, Types, readers
<1>2. LogsHold'
  BY DEF LogsHold
<1> QED BY <1>1, <1>2, ReadersStay DEF Inv

LEMMA PostStep == ASSUME Inv, NEW o \in Objects, Post(o) PROVE Inv'
<1>1. /\ act[o].pc = "idle" /\ \A i \in Inboxes : About(i, o) = {}
      /\ stored' = stored \cup {o} /\ UNCHANGED <<log, readers>>
      /\ act' = [act EXCEPT ![o] = [IdleAct EXCEPT !.pc = "announce", !.todo = Targets[o]]]
  BY DEF Post
<1>2. /\ Grows /\ \A i \in Inboxes : \A k \in 1..Len(log'[i]) : MessageHolds(i, k)'
  BY <1>1, SameLogs
<1>3. PICK a : a = [IdleAct EXCEPT !.pc = "announce", !.todo = Targets[o]]
  OBVIOUS
<1>4. a \in Acts /\ a.prior = None /\ a.anns = None
  <2>1. Targets[o] \in SUBSET Others
    BY TargetsAreOthers
  <2> QED BY <1>3, <2>1, IdleHolds DEF Acts
<1>5. act' \in [Objects -> Acts] /\ \A p \in Objects : ActHolds(p)'
  <2>1. Names(a.prior, o)' /\ Names(a.anns, o)'
    BY <1>4, IdleHolds DEF Names
  <2> QED BY <1>1, <1>2, <1>3, <1>4, <2>1, ActsHold
<1> QED BY <1>1, <1>2, <1>5, WriterHolds DEF Inv, Types

LEMMA StopStep == ASSUME Inv, NEW o \in Objects, Stop(o) PROVE Inv'
<1>1. UNCHANGED <<stored, log, readers>> /\ act' = [act EXCEPT ![o] = IdleAct]
  BY DEF Stop
<1>2. /\ Grows /\ \A i \in Inboxes : \A k \in 1..Len(log'[i]) : MessageHolds(i, k)'
  BY <1>1, SameLogs
<1>3. Names(IdleAct.prior, o)' /\ Names(IdleAct.anns, o)'
  BY IdleHolds DEF Names
<1>4. act' \in [Objects -> Acts] /\ \A p \in Objects : ActHolds(p)'
  BY <1>1, <1>2, <1>3, IdleHolds, ActsHold
<1> QED BY <1>1, <1>2, <1>4, WriterHolds DEF Inv, Types

LEMMA EraseStep == ASSUME Inv, NEW o \in Objects, Erase(o) PROVE Inv'
<1>1. /\ UNCHANGED <<log, readers>> /\ stored' = stored \ {o}
      /\ act' = [act EXCEPT ![o].pc = "announce", ![o].todo = Targets[o]]
  BY DEF Erase, EraseBytes
<1>2. /\ Grows /\ \A i \in Inboxes : \A k \in 1..Len(log'[i]) : MessageHolds(i, k)'
  BY <1>1, SameLogs
<1>3. PICK b : b = act[o]
  OBVIOUS
<1>4. PICK a : a = [b EXCEPT !.pc = "announce", !.todo = Targets[o]]
  OBVIOUS
<1>5. b \in Acts /\ Names(b.prior, o) /\ Names(b.anns, o)
  BY <1>3 DEF Inv, Types, LogsHold, ActHolds
<1>6. a \in Acts /\ a.prior = b.prior /\ a.anns = b.anns
  <2>1. Targets[o] \in SUBSET Others
    BY TargetsAreOthers
  <2> QED BY <1>4, <1>5, <2>1 DEF Acts
<1>7. act' = [act EXCEPT ![o] = a]
  BY <1>1, <1>3, <1>4 DEF Inv, Types
<1>8. Names(a.prior, o)' /\ Names(a.anns, o)'
  BY <1>2, <1>5, <1>6, NamesGrow
<1>9. act' \in [Objects -> Acts] /\ \A p \in Objects : ActHolds(p)'
  BY <1>1, <1>2, <1>6, <1>7, <1>8, ActsHold
<1> QED BY <1>1, <1>2, <1>9, WriterHolds DEF Inv, Types

LEMMA MessageIs ==
  ASSUME Inv, NEW o \in Objects, NEW i \in Inboxes, act[o].pc = "announce"
  PROVE  /\ MaySend(i, Message(o, i)) /\ Message(o, i).obj = o
         /\ LET m == [Message(o, i) EXCEPT !.anns = act[o].anns]
            IN  MaySend(i, m) /\ m.obj = o
<1>1. PICK a : a = act[o]
  OBVIOUS
<1>2. a \in Acts /\ Names(a.prior, o) /\ Names(a.anns, o) /\ (a.prior # None => o \notin stored)
  BY <1>1 DEF Inv, Types, LogsHold, ActHolds
<1>3. a.prior[i] # 0 => a.prior[i] \in About(i, o) /\ a.prior # None
  BY <1>2, IdleHolds DEF Names
<1>4. PICK m : m = Message(o, i)
  OBVIOUS
<1>5. m = [obj |-> o, tomb |-> a.prior[i], anns |-> None]
  BY <1>1, <1>4 DEF Message
<1>6. a.prior[i] \in Nat /\ a.anns \in [Inboxes -> Nat] /\ None \in [Inboxes -> Nat]
  BY <1>2, IdleHolds DEF Acts
<1>7. m \in Messages /\ m.obj = o /\ m.tomb = a.prior[i] /\ m.anns = None
  BY <1>5, <1>6 DEF Messages
<1>8. Names(None, o)
  BY IdleHolds DEF Names
<1>9. MaySend(i, m)
  BY <1>2, <1>3, <1>7, <1>8 DEF MaySend
<1>10. PICK n : n = [m EXCEPT !.anns = a.anns]
  OBVIOUS
<1>11. n \in Messages /\ n.obj = o /\ n.tomb = a.prior[i] /\ n.anns = a.anns
  BY <1>6, <1>7, <1>10 DEF Messages
<1>12. MaySend(i, n)
  BY <1>2, <1>3, <1>11 DEF MaySend
<1> QED BY <1>1, <1>4, <1>7, <1>9, <1>10, <1>11, <1>12

LEMMA AnnounceStep ==
  ASSUME Inv, NEW o \in Objects, NEW i \in Inboxes, Announce(o, i) \/ AnnounceFails(o, i)
  PROVE  Inv'
<1>1. act[o].pc = "announce" /\ UNCHANGED <<stored, readers>>
  BY DEF Announce, AnnounceFails
<1>2. PICK m : m = Message(o, i)
  OBVIOUS
<1>3. MaySend(i, m) /\ m.obj = o
  BY <1>1, <1>2, MessageIs
<1>4. PICK b : b = act[o]
  OBVIOUS
<1>5. /\ b \in Acts /\ Names(b.prior, o) /\ Names(b.anns, o)
      /\ b.pc = "announce" /\ (b.prior # None => o \notin stored)
  BY <1>1, <1>4 DEF Inv, Types, LogsHold, ActHolds
<1>6. /\ Grows /\ log' \in [Inboxes -> Seq(Messages)] /\ \A j \in Inboxes : Len(log'[j]) <= MaxLog
      /\ \A j \in Inboxes : \A k \in 1..Len(log'[j]) : MessageHolds(j, k)'
  <2>1. CASE Append1(i, m)
    BY <1>1, <1>3, <2>1, Sent
  <2>2. CASE UNCHANGED log
    BY <1>1, <2>2, SameLogs DEF Inv, Types
  <2> QED BY <1>2, <2>1, <2>2 DEF Announce, AnnounceFails
<1>7. Names(b.prior, o)' /\ Names(b.anns, o)'
  BY <1>5, <1>6, NamesGrow
<1>8. act' \in [Objects -> Acts] /\ \A p \in Objects : ActHolds(p)'
  <2>1. CASE Announce(o, i)
    <3>1. PICK k : k = PlaceOf(i, m)
      OBVIOUS
    <3>2. k \in About(i, o)' /\ k \in Nat
      <4>1. Append1(i, m)
        BY <1>2, <2>1 DEF Announce
      <4> QED BY <1>1, <1>3, <3>1, <4>1, Sent DEF About
    <3>3. PICK a : a = [b EXCEPT !.todo = b.todo \ {i}, !.anns[i] = k]
      OBVIOUS
    <3>4. a \in Acts /\ a.pc = b.pc /\ a.prior = b.prior /\ a.anns = [b.anns EXCEPT ![i] = k]
      BY <1>5, <3>2, <3>3 DEF Acts
    <3>5. act' = [act EXCEPT ![o] = a]
      <4>1. act' = [act EXCEPT ![o].todo = @ \ {i}, ![o].anns[i] = k]
        BY <1>2, <2>1, <3>1 DEF Announce
      <4>2. act \in [Objects -> Acts]
        BY DEF Inv, Types
      <4> QED BY <1>4, <1>5, <3>3, <4>1, <4>2 DEF Acts
    <3>6. b.anns \in [Inboxes -> Nat]
      BY <1>5 DEF Acts
    <3>7. Names(a.anns, o)'
      BY <1>7, <3>2, <3>4, <3>6 DEF Names
    <3> QED BY <1>1, <1>5, <1>6, <1>7, <3>4, <3>5, <3>7, ActsHold
  <2>2. CASE AnnounceFails(o, i)
    <3>1. PICK a : a = [b EXCEPT !.todo = b.todo \ {i}]
      OBVIOUS
    <3>2. a \in Acts /\ a.pc = b.pc /\ a.prior = b.prior /\ a.anns = b.anns
      BY <1>5, <3>1 DEF Acts
    <3>3. act' = [act EXCEPT ![o] = a]
      BY <1>4, <2>2, <3>1 DEF AnnounceFails, Inv, Types
    <3> QED BY <1>1, <1>5, <1>6, <1>7, <3>2, <3>3, ActsHold
  <2> QED BY <2>1, <2>2
<1> QED BY <1>1, <1>6, <1>8, WriterHolds DEF Inv, Types

LEMMA AnnounceToSelfStep == ASSUME Inv, NEW o \in Objects, AnnounceToSelf(o) PROVE Inv'
<1>1. PICK m : m = [Message(o, Personal) EXCEPT !.anns = act[o].anns]
  OBVIOUS
<1>2. /\ act[o].pc = "announce" /\ Append1(Personal, m) /\ act' = [act EXCEPT ![o] = IdleAct]
      /\ UNCHANGED <<stored, readers>>
  BY <1>1 DEF AnnounceToSelf
<1>3. Personal \in Inboxes
  BY DEF Inboxes
<1>4. MaySend(Personal, m)
  BY <1>1, <1>2, <1>3, MessageIs
<1>5. /\ Grows /\ log' \in [Inboxes -> Seq(Messages)] /\ \A j \in Inboxes : Len(log'[j]) <= MaxLog
      /\ \A j \in Inboxes : \A k \in 1..Len(log'[j]) : MessageHolds(j, k)'
  BY <1>2, <1>3, <1>4, Sent
<1>6. Names(IdleAct.prior, o)' /\ Names(IdleAct.anns, o)'
  BY IdleHolds DEF Names
<1>7. act' \in [Objects -> Acts] /\ \A p \in Objects : ActHolds(p)'
  BY <1>2, <1>5, <1>6, IdleHolds, ActsHold
<1> QED BY <1>2, <1>5, <1>7, WriterHolds DEF Inv, Types

(***************************************************************************)
(* Labels.                                                                 *)
(***************************************************************************)
LEMMA SeenLabels ==
  ASSUME Inv, NEW d \in Devices, NEW i \in Inboxes, NEW k \in Places, NEW paged
  PROVE  /\ LabelSeen(d, i, k, paged) \in LabelNames
         /\ LabelSeen(d, i, k, paged) # "none" =>
              LabelSeen(d, i, k, paged) \in LabelsSet /\ Labelled(i, k, LabelSeen(d, i, k, paged))
<1>1. ServerLabel(d, i, k) \in LabelNames
      /\ (ServerLabel(d, i, k) # "none" => \E a \in Accounts : label[a][i][k] = ServerLabel(d, i, k))
  <2>1. AccountOf[d] \in Accounts
    BY DEF Accounts
  <2>2. label[AccountOf[d]][i][k] \in LabelNames
    BY <2>1 DEF Inv, Types
  <2> QED BY <2>1, <2>2 DEF ServerLabel, LabelNames
<1>2. cached[d][i][k] \in LabelNames \cup {"absent"}
  BY DEF Inv, Types
<1> QED BY <1>1, <1>2 DEF LabelSeen, Labelled, LabelNames, LabelsSet

LEMMA InLog ==
  ASSUME Inv, NEW i \in Inboxes, NEW k \in 1..Len(log[i])
  PROVE  /\ k \in Places /\ log[i][k] \in Messages /\ log[i][k].obj \in Objects
         /\ k \in About(i, log[i][k].obj) /\ MessageHolds(i, k)
<1>1. Len(log[i]) \in Nat /\ Len(log[i]) <= MaxLog
  BY SeqFacts DEF Inv, Types
<1>2. log[i][k] \in Messages
  BY SeqFacts
<1> QED BY <1>1, <1>2, BoundIsNatural DEF Places, Messages, About, Inv, LogsHold

\* A tombstone names another message about its object, whose bytes are gone.
LEMMA TombIs ==
  ASSUME Inv, NEW i \in Inboxes, NEW k \in 1..Len(log[i]), log[i][k].tomb # 0
  PROVE  /\ log[i][k].tomb \in 1..Len(log[i]) /\ Withdraws(i, log[i][k])
         /\ log[i][log[i][k].tomb].obj = log[i][k].obj
         /\ log[i][k].obj \notin stored /\ IsTombstone(i, log[i][k])
BY InLog DEF MessageHolds, About, Withdraws, IsTombstone

\* What a check is answered: an answer that is wrong was noted.
Told(o, answer) ==
  \/ answer = Answer(o)
  \/ answer = "error" /\ o \in blamed'
  \/ answer = "missing" /\ o \in blamed' /\ o \in unresolved'

LEMMA AnswerIsTold ==
  ASSUME NEW o, NEW outage \in Outages, Blame(o, outage)
  PROVE  Told(o, Finds(o, outage)) /\ Told(o, Answer(o))
BY DEF Told, Finds, Blame, Outages

LEMMA FirstLabelDeserved ==
  ASSUME Inv, Doubts, UNCHANGED <<stored, log>>,
         NEW i \in Inboxes, NEW k \in 1..Len(log[i]), NEW answer,
         Told(log[i][k].obj, answer)
  PROVE  /\ FirstLabel(log[i][k], answer) \in LabelsSet
         /\ Deserved(i, k, FirstLabel(log[i][k], answer))'
<1>1. PICK m : m = log[i][k]
  OBVIOUS
<1>2. m.tomb # 0 => m.obj \notin stored
  BY <1>1, TombIs
<1>3. CASE m.tomb = 0 /\ answer = "found"
  <2>1. m.obj \in stored
    BY <1>1, <1>3 DEF Answer, Told
  <2>2. \A j \in About(i, m.obj) : log[i][j].tomb = 0
    BY <2>1, TombIs DEF About
  <2>3. FirstLabel(m, answer) = "valid"
    BY <1>3 DEF FirstLabel
  <2> QED BY <1>1, <1>3, <2>2, <2>3 DEF Deserved, Precedes, About, LabelsSet
<1>4. CASE answer = "missing"
  <2>1. m.obj \notin stored \/ m.obj \in unresolved'
    BY <1>1, <1>4 DEF Answer, Told
  <2>2. FirstLabel(m, answer) = "trash"
    BY <1>4 DEF FirstLabel
  <2> QED BY <1>1, <2>1, <2>2 DEF Deserved, LabelsSet
<1>5. CASE answer = "error" /\ m.obj \in blamed'
  <2>1. FirstLabel(m, answer) = "invalid"
    BY <1>5 DEF FirstLabel
  <2> QED BY <1>1, <1>5, <2>1 DEF Deserved, LabelsSet
<1>6. CASE m.tomb # 0 /\ answer = "found"
  BY <1>1, <1>2, <1>6 DEF Answer, Told
<1> QED BY <1>1, <1>3, <1>4, <1>5, <1>6 DEF Answer, Told

LEMMA TrashPastDeserved ==
  ASSUME Inv, Doubts, UNCHANGED <<stored, log>>, NEW d,
         NEW i \in Inboxes, NEW k \in 1..Len(log[i]), log[i][k].tomb # 0,
         NEW v \in TrashPast(d, i, log[i][k])
  PROVE  v[1] \in Places /\ v[2] \in LabelsSet /\ Deserved(i, v[1], v[2])'
<1>1. v = <<log[i][k].tomb, "trash">>
  BY DEF TrashPast
<1>2. PICK j : j = log[i][k].tomb
  OBVIOUS
<1>3. j \in 1..Len(log[i]) /\ log[i][j].obj \notin stored
  BY <1>2, TombIs
<1>4. Deserved(i, j, "trash")'
  BY <1>3 DEF Deserved
<1> QED BY <1>1, <1>2, <1>3, <1>4, InLog DEF LabelsSet

LEMMA VerdictsDeserved ==
  ASSUME Inv, Doubts, UNCHANGED <<stored, log>>, NEW d, NEW paged,
         NEW i \in Inboxes, NEW k \in 1..Len(log[i]), NEW answer,
         Told(log[i][k].obj, answer),
         NEW v \in Verdicts(d, i, k, paged, answer)
  PROVE  v[1] \in Places /\ v[2] \in LabelsSet /\ Deserved(i, v[1], v[2])'
<1>1. PICK m : m = log[i][k]
  OBVIOUS
<1>2. \/ v = <<k, FirstLabel(m, answer)>>
      \/ m.tomb # 0 /\ v \in TrashPast(d, i, m)
  BY <1>1 DEF Verdicts
<1>3. CASE m.tomb # 0 /\ v \in TrashPast(d, i, m)
  BY <1>1, <1>3, TrashPastDeserved
<1>4. CASE v = <<k, FirstLabel(m, answer)>>
  <2>1. PICK l : l = FirstLabel(m, answer)
    OBVIOUS
  <2>2. l \in LabelsSet /\ Deserved(i, k, l)'
    BY <1>1, <2>1, FirstLabelDeserved
  <2> QED BY <1>4, <2>1, <2>2, InLog
<1> QED BY <1>2, <1>3, <1>4

CallSet == [device : Devices, inbox : Inboxes, place : Places, label : LabelsSet]

LEMMA LabelsAdded ==
  ASSUME Inv, Doubts, UNCHANGED <<stored, log, label>>,
         NEW d \in Devices, NEW i \in Inboxes, NEW places, NEW paged, Fetch(d, i, places, paged),
         NEW new \in SUBSET CallSet, pending' = pending \cup new,
         \A c \in new : Deserved(c.inbox, c.place, c.label)'
  PROVE  /\ cached' \in [Devices -> [Inboxes -> [Places -> LabelNames \cup {"absent"}]]]
         /\ pending' \subseteq CallSet /\ LabelsHold'
<1>1. cached \in [Devices -> [Inboxes -> [Places -> LabelNames \cup {"absent"}]]] /\ pending \subseteq CallSet
  BY DEF Inv, Types, CallSet
<1>2. PICK f : f = [k \in Places |-> IF k \in places THEN LabelSeen(d, i, k, paged) ELSE cached[d][i][k]]
  OBVIOUS
<1>3. cached' = [cached EXCEPT ![d][i] = f]
  BY <1>2 DEF Fetch
<1>4. f \in [Places -> LabelNames \cup {"absent"}]
  BY <1>1, <1>2, SeenLabels
<1>5. /\ cached' \in [Devices -> [Inboxes -> [Places -> LabelNames \cup {"absent"}]]]
      /\ cached'[d][i] = f
      /\ \A e \in Devices, j \in Inboxes : e # d \/ j # i => cached'[e][j] = cached[e][j]
  BY <1>1, <1>3, <1>4
<1>6. Grows
  BY SameLogs
<1>7. ASSUME NEW j \in Inboxes, NEW k \in Places, NEW l \in LabelsSet, Labelled(j, k, l)'
      PROVE  Deserved(j, k, l)'
  <2>1. ASSUME Labelled(j, k, l) PROVE Deserved(j, k, l)'
    BY <1>6, <2>1, DeservedStays DEF Inv, LabelsHold
  <2>2. CASE \E a \in Accounts : label'[a][j][k] = l
    BY <2>1, <2>2 DEF Labelled
  <2>3. ASSUME NEW e \in Devices, cached'[e][j][k] = l PROVE Deserved(j, k, l)'
    <3>1. CASE e = d /\ j = i /\ k \in places
      <4>1. l = LabelSeen(d, i, k, paged)
        BY <1>2, <1>5, <2>3, <3>1
      <4>2. l # "none"
        BY DEF LabelsSet
      <4> QED BY <2>1, <3>1, <4>1, <4>2, SeenLabels
    <3>2. CASE ~(e = d /\ j = i /\ k \in places)
      <4>1. cached[e][j][k] = l
        BY <1>2, <1>5, <2>3, <3>2
      <4> QED BY <2>1, <4>1 DEF Labelled
    <3> QED BY <3>1, <3>2
  <2>4. CASE \E c \in pending' : c.inbox = j /\ c.place = k /\ c.label = l
    <3>1. PICK c \in pending \cup new : c.inbox = j /\ c.place = k /\ c.label = l
      BY <2>4
    <3>2. c \in pending => Labelled(j, k, l)
      BY <3>1 DEF Labelled
    <3> QED BY <2>1, <3>1, <3>2
  <2> QED BY <1>7, <2>2, <2>3, <2>4 DEF Labelled
<1> QED BY <1>1, <1>5, <1>7 DEF LabelsHold

LEMMA LabelsTyped ==
  ASSUME Inv, Doubts, UNCHANGED <<stored, log>>, NEW d \in Devices,
         NEW i \in Inboxes, NEW verdicts,
         \A v \in verdicts : v[1] \in Places /\ v[2] \in LabelsSet /\ Deserved(i, v[1], v[2])'
  PROVE  /\ Labels(d, i, verdicts) \subseteq CallSet
         /\ \A c \in Labels(d, i, verdicts) : Deserved(c.inbox, c.place, c.label)'
<1> SUFFICES ASSUME NEW v \in verdicts, NEW c,
                    c = [device |-> d, inbox |-> i, place |-> v[1], label |-> v[2]]
             PROVE  c \in CallSet /\ Deserved(c.inbox, c.place, c.label)'
  BY DEF Labels
<1>1. PICK k, l : k = v[1] /\ l = v[2]
  OBVIOUS
<1>2. Deserved(i, k, l)' /\ k \in Places /\ l \in LabelsSet
  BY <1>1
<1>3. c.inbox = i /\ c.place = k /\ c.label = l
  BY <1>1
<1> QED BY <1>1, <1>2, <1>3 DEF CallSet

LEMMA ArrivedLabels ==
  ASSUME Inv, NEW c \in pending, pending' = pending \ {c}, UNCHANGED <<stored, log, reader, view, blamed, unresolved, act>>,
         \/ UNCHANGED <<label, cached>>
         \/ Label(c)
  PROVE  Inv'
<1>1. c \in CallSet /\ pending \subseteq CallSet
  BY DEF Inv, Types, CallSet
<1>2. c.device \in Devices /\ c.inbox \in Inboxes /\ c.place \in Places /\ c.label \in LabelsSet
  BY <1>1 DEF CallSet
<1>3. /\ label \in [Accounts -> [Inboxes -> [Places -> LabelNames]]]
      /\ cached \in [Devices -> [Inboxes -> [Places -> LabelNames \cup {"absent"}]]]
  BY DEF Inv, Types
<1>4. c.label \in LabelNames
  BY <1>2 DEF LabelsSet, LabelNames
<1>5. /\ label' \in [Accounts -> [Inboxes -> [Places -> LabelNames]]]
      /\ \A a \in Accounts, i \in Inboxes, k \in Places :
           label'[a][i][k] = label[a][i][k] \/ (i = c.inbox /\ k = c.place /\ label'[a][i][k] = c.label)
  <2>1. CASE UNCHANGED label
    BY <1>3, <2>1
  <2>2. CASE label' = [label EXCEPT ![AccountOf[c.device]][c.inbox][c.place] = c.label]
    <3>1. PICK b : b = AccountOf[c.device]
      OBVIOUS
    <3>2. b \in Accounts /\ label' = [label EXCEPT ![b][c.inbox][c.place] = c.label]
      BY <1>2, <2>2, <3>1 DEF Accounts
    <3> QED BY <1>2, <1>3, <1>4, <3>2
  <2> QED BY <2>1, <2>2 DEF Label
<1>6. /\ cached' \in [Devices -> [Inboxes -> [Places -> LabelNames \cup {"absent"}]]]
      /\ \A d \in Devices, i \in Inboxes, k \in Places :
           cached'[d][i][k] = cached[d][i][k] \/ (i = c.inbox /\ k = c.place /\ cached'[d][i][k] = c.label)
  <2>1. CASE UNCHANGED cached
    BY <1>3, <2>1
  <2>2. CASE cached' = [cached EXCEPT ![c.device][c.inbox][c.place] = c.label]
    BY <1>2, <1>3, <1>4, <2>2
  <2> QED BY <2>1, <2>2 DEF Label
<1>7. Types'
  BY <1>5, <1>6 DEF Inv, Types
<1>8. Grows /\ Doubts /\ \A i \in Inboxes : \A k \in 1..Len(log'[i]) : MessageHolds(i, k)'
  BY SameLogs DEF Doubts
<1>9. LogsHold'
  BY <1>8, ActStays DEF LogsHold
<1>10. LabelsHold'
  <2> SUFFICES ASSUME NEW i \in Inboxes, NEW k \in Places, NEW l \in LabelsSet, Labelled(i, k, l)'
               PROVE  Deserved(i, k, l)'
    BY DEF LabelsHold
  <2>1. Labelled(i, k, l)
    <3>1. (i = c.inbox /\ k = c.place /\ l = c.label) => Labelled(i, k, l)
      BY DEF Labelled
    <3>2. ASSUME NEW a \in Accounts, label'[a][i][k] = l PROVE Labelled(i, k, l)
      <4>1. label[a][i][k] = l \/ (i = c.inbox /\ k = c.place /\ l = c.label)
        BY <1>5, <3>2
      <4> QED BY <3>1, <4>1 DEF Labelled
    <3>3. ASSUME NEW d \in Devices, cached'[d][i][k] = l PROVE Labelled(i, k, l)
      <4>1. cached[d][i][k] = l \/ (i = c.inbox /\ k = c.place /\ l = c.label)
        BY <1>6, <3>3
      <4> QED BY <3>1, <4>1 DEF Labelled
    <3>4. ASSUME NEW e \in pending', e.inbox = i, e.place = k, e.label = l PROVE Labelled(i, k, l)
      BY <3>4 DEF Labelled
    <3> QED BY <3>2, <3>3, <3>4 DEF Labelled
  <2> QED BY <1>8, <2>1, DeservedStays DEF Inv, LabelsHold
<1>11. ASSUME NEW d \in Devices PROVE ReaderHolds(reader[d], view[d], Reads[d])'
  <2>1. PICK x : x = reader[d]
    OBVIOUS
  <2>2. PICK shown : shown = view[d]
    OBVIOUS
  <2>3. ReaderHolds(x, shown, Reads[d])'
    BY <1>8, <2>1, <2>2, ReaderGrows DEF Inv, Types, ReadersHold
  <2> QED BY <2>1, <2>2, <2>3
<1> QED BY <1>7, <1>9, <1>10, <1>11 DEF Inv, ReadersHold

LEMMA LabelStep == ASSUME Inv, NEW c \in pending, Label(c) \/ LabelFails(c) PROVE Inv'
BY ArrivedLabels DEF Label, LabelFails

LEMMA LookupIs ==
  ASSUME NEW d, NEW i, NEW o, NEW paged, NEW answers
  PROVE  Lookup(d, i, o, paged, answers) = 0 \/ Lookup(d, i, o, paged, answers) \in About(i, o)
<1> DEFINE given == [k \in About(i, o) |-> Judgement(d, i, k, paged, answers[k])]
           isLast(k) == /\ given[k] = "live"
                        /\ \A j \in About(i, o) : j > k => given[j] = "none"
<1>1. Lookup(d, i, o, paged, answers) =
        IF \E k \in About(i, o) : isLast(k) THEN CHOOSE k \in About(i, o) : isLast(k) ELSE 0
  BY DEF Lookup
<1> HIDE DEF isLast
<1> QED BY <1>1

LEMMA PriorIs ==
  ASSUME Inv, NEW o \in Objects, NEW k \in About(Personal, o)
  PROVE  Prior(k) \in [Inboxes -> Nat] /\ Names(Prior(k), o)
<1>1. Personal \in Inboxes
  BY DEF Inboxes
<1>2. PICK m : m = log[Personal][k]
  OBVIOUS
<1>3. k \in 1..Len(log[Personal]) /\ m.obj = o
  BY <1>2 DEF About
<1>4. m \in Messages /\ Names(m.anns, o) /\ k \in Nat
  BY <1>1, <1>2, <1>3, InLog, SeqFacts DEF MessageHolds
<1>5. PICK p : p = m.anns
  OBVIOUS
<1>6. p \in [Inboxes -> Nat] /\ Prior(k) = [p EXCEPT ![Personal] = k]
  BY <1>2, <1>4, <1>5 DEF Messages, Prior
<1>7. PICK q : q = [p EXCEPT ![Personal] = k]
  OBVIOUS
<1>8. q \in [Inboxes -> Nat] /\ q[Personal] = k /\ \A i \in Inboxes \ {Personal} : q[i] = p[i]
  BY <1>1, <1>4, <1>6, <1>7
<1>9. Names(q, o)
  BY <1>4, <1>5, <1>8 DEF Names
<1> QED BY <1>6, <1>7, <1>8, <1>9

LEMMA Blamed ==
  ASSUME Inv, NEW o \in Objects, NEW outage, Blame(o, outage)
  PROVE  Doubts /\ blamed' \subseteq Objects /\ unresolved' \subseteq blamed'
BY DEF Inv, Types, Blame, Doubts

LEMMA DeleteStep ==
  ASSUME Inv, NEW o \in Objects, NEW paged, NEW hit, NEW outage \in Outages, Delete(o, paged, hit, outage)
  PROVE  Inv'
<1> DEFINE answers == Answers(Personal, o, hit, outage)
           Set(j) == Labels(Me, Personal, Verdicts(Me, Personal, j, paged, answers[j]))
           new == UNION {Set(j) : j \in About(Personal, o)}
<1>0. Blame(o, outage) /\ Doubts /\ blamed' \subseteq Objects /\ unresolved' \subseteq blamed'
  BY Blamed DEF Delete
<1>1. PICK k : k = Lookup(Me, Personal, o, paged, answers)
  OBVIOUS
<1>2. /\ act[o].pc = "idle" /\ Fetch(Me, Personal, About(Personal, o), paged)
      /\ pending' = pending \cup new
      /\ act' = IF k = 0 THEN act
                ELSE [act EXCEPT ![o] = [IdleAct EXCEPT !.pc = "erase", !.prior = Prior(k)]]
      /\ UNCHANGED <<stored, log, label, reader, view>>
  BY <1>1 DEF Delete
<1>3. Me \in Devices /\ Personal \in Inboxes
  BY MeReads DEF Inboxes
<1>4. ASSUME NEW j \in About(Personal, o)
      PROVE  Set(j) \subseteq CallSet /\ \A c \in Set(j) : Deserved(c.inbox, c.place, c.label)'
  <2>1. j \in 1..Len(log[Personal]) /\ log[Personal][j].obj = o
    BY DEF About
  <2>2. PICK answer : answer = answers[j]
    OBVIOUS
  <2>3. answer \in {Finds(o, outage), Answer(o)}
    BY <2>2 DEF Answers, Finds
  <2>4. Told(o, answer)
    BY <1>0, <2>3, AnswerIsTold
  <2>5. \A v \in Verdicts(Me, Personal, j, paged, answer) :
          v[1] \in Places /\ v[2] \in LabelsSet /\ Deserved(Personal, v[1], v[2])'
    BY <1>0, <1>2, <1>3, <2>1, <2>4, VerdictsDeserved
  <2> QED BY <1>0, <1>2, <1>3, <2>2, <2>5, LabelsTyped
<1> HIDE DEF Set, answers
<1>5. new \subseteq CallSet /\ \A c \in new : Deserved(c.inbox, c.place, c.label)'
  BY <1>4
<1> HIDE DEF new
<1>6. /\ cached' \in [Devices -> [Inboxes -> [Places -> LabelNames \cup {"absent"}]]]
      /\ pending' \subseteq CallSet /\ LabelsHold'
  BY <1>0, <1>2, <1>3, <1>5, LabelsAdded
<1>7. Grows /\ \A i \in Inboxes : \A j \in 1..Len(log'[i]) : MessageHolds(i, j)'
  BY <1>2, SameLogs
<1>8. act' \in [Objects -> Acts] /\ \A p \in Objects : ActHolds(p)'
  <2>1. CASE k = 0
    BY <1>2, <1>7, <2>1, ActStays DEF Inv, Types
  <2>2. CASE k # 0
    <3>1. PICK a : a = [IdleAct EXCEPT !.pc = "erase", !.prior = Prior(k)]
      OBVIOUS
    <3>2. Prior(k) \in [Inboxes -> Nat] /\ Names(Prior(k), o)
      BY <1>1, <2>2, LookupIs, PriorIs
    <3>3. a \in Acts /\ a.pc = "erase" /\ a.prior = Prior(k) /\ a.anns = None
      BY <3>1, <3>2, IdleHolds DEF Acts
    <3>4. Names(a.prior, o)' /\ Names(a.anns, o)'
      <4>1. Names(a.prior, o) /\ Names(a.anns, o)
        BY <3>2, <3>3, IdleHolds DEF Names
      <4> QED BY <1>7, <4>1, NamesGrow
    <3> QED BY <1>2, <1>7, <2>2, <3>1, <3>3, <3>4, ActsHold
  <2> QED BY <2>1, <2>2
<1>9. Types'
  BY <1>0, <1>2, <1>6, <1>8 DEF Inv, Types, CallSet
<1>10. ASSUME NEW d \in Devices PROVE ReaderHolds(reader[d], view[d], Reads[d])'
  <2>1. PICK x : x = reader[d]
    OBVIOUS
  <2>2. PICK shown : shown = view[d]
    OBVIOUS
  <2>3. ReaderHolds(x, shown, Reads[d])'
    BY <1>0, <1>2, <1>7, <2>1, <2>2, ReaderGrows DEF Inv, Types, ReadersHold
  <2> QED BY <1>2, <2>1, <2>2, <2>3
<1> QED BY <1>6, <1>7, <1>8, <1>9, <1>10 DEF Inv, LogsHold, ReadersHold

(***************************************************************************)
(* discover and continueDiscover.                                          *)
(***************************************************************************)
LEMMA ReaderStep ==
  ASSUME Inv, NEW d \in Devices, UNCHANGED <<stored, log, act, label>>,
         Doubts, blamed' \subseteq Objects, unresolved' \subseteq blamed',
         cached' \in [Devices -> [Inboxes -> [Places -> LabelNames \cup {"absent"}]]],
         pending' \subseteq CallSet, LabelsHold',
         NEW y \in StreamSets, NEW shown \in [Objects -> States],
         reader' = [reader EXCEPT ![d] = y], view' = [view EXCEPT ![d] = shown],
         ReaderHolds(y, shown, Reads[d])'
  PROVE  Inv'
<1>1. reader \in [Devices -> StreamSets] /\ view \in [Devices -> [Objects -> States]]
  BY DEF Inv, Types
<1>2. /\ reader' \in [Devices -> StreamSets] /\ view' \in [Devices -> [Objects -> States]]
      /\ reader'[d] = y /\ view'[d] = shown
      /\ \A e \in Devices \ {d} : reader'[e] = reader[e] /\ view'[e] = view[e]
  BY <1>1
<1>3. Types'
  BY <1>2 DEF Inv, Types, CallSet
<1>4. Grows /\ \A i \in Inboxes : \A k \in 1..Len(log'[i]) : MessageHolds(i, k)'
  BY SameLogs
<1>5. LogsHold'
  BY <1>4, ActStays DEF LogsHold
<1>6. ASSUME NEW e \in Devices PROVE ReaderHolds(reader[e], view[e], Reads[e])'
  <2>1. PICK z, w : z = reader'[e] /\ w = view'[e]
    OBVIOUS
  <2>2. CASE e = d
    BY <1>2, <2>2
  <2>3. CASE e # d
    <3>1. z \in StreamSets /\ ReaderHolds(z, w, Reads[e])
      BY <1>1, <1>2, <2>1, <2>3 DEF Inv, ReadersHold
    <3>2. ReaderHolds(z, w, Reads[e])'
      BY <1>4, <3>1, ReaderGrows
    <3> QED BY <2>1, <3>2
  <2> QED BY <2>2, <2>3
<1> QED BY <1>3, <1>5, <1>6 DEF Inv, ReadersHold

LEMMA UnlabelledStep ==
  ASSUME Inv, UNCHANGED <<stored, log, label, cached, pending, blamed, unresolved>>
  PROVE  /\ LabelsHold' /\ pending' \subseteq CallSet
         /\ cached' \in [Devices -> [Inboxes -> [Places -> LabelNames \cup {"absent"}]]]
<1>1. Grows /\ Doubts
  BY SameLogs DEF Doubts
<1>2. LabelsHold'
  <2> SUFFICES ASSUME NEW i \in Inboxes, NEW k \in Places, NEW l \in LabelsSet, Labelled(i, k, l)'
               PROVE  Deserved(i, k, l)'
    BY DEF LabelsHold
  <2>1. Labelled(i, k, l)
    BY DEF Labelled
  <2> QED BY <1>1, <2>1, DeservedStays DEF Inv, LabelsHold
<1> QED BY <1>2 DEF Inv, Types, CallSet

\* As ReaderStep, for what sets no labels.
LEMMA QuietStep ==
  ASSUME Inv, NEW d \in Devices, UNCHANGED <<stored, log, act, label, cached, pending, blamed, unresolved>>,
         NEW y \in StreamSets, NEW shown \in [Objects -> States],
         reader' = [reader EXCEPT ![d] = y], view' = [view EXCEPT ![d] = shown],
         ReaderHolds(y, shown, Reads[d])
  PROVE  Inv'
<1>1. Grows /\ Doubts
  BY SameLogs DEF Doubts
<1>2. ReaderHolds(y, shown, Reads[d])'
  BY <1>1, ReaderGrows
<1>3. blamed' \subseteq Objects /\ unresolved' \subseteq blamed'
  BY DEF Inv, Types
<1> QED BY <1>1, <1>2, <1>3, UnlabelledStep, ReaderStep

LEMMA ReaderIs ==
  ASSUME Inv, NEW d \in Devices
  PROVE  /\ reader[d] \in StreamSets /\ view[d] \in [Objects -> States]
         /\ view = [view EXCEPT ![d] = view[d]]
         /\ ReaderHolds(reader[d], view[d], Reads[d])
         /\ Reads[d] \subseteq Inboxes /\ reader[d].active \subseteq Reads[d]
BY ReadsAreInboxes DEF Inv, Types, ReadersHold, ReaderHolds

\* Streams that have got no further give no more than they did.
LEMMA GoesBack ==
  ASSUME Inv, NEW x \in StreamSets, NEW y \in StreamSets, NEW shown, NEW reads \in SUBSET Inboxes,
         ReaderHolds(x, shown, reads), y.active \subseteq reads, y.out = x.out,
         \A o \in Objects : y.last[o] \in {"none", x.last[o]},
         \A i \in Inboxes :
           /\ y.filtered[i] => x.filtered[i]
           /\ y.place[i] <= Len(log[i]) /\ y.cursor[i] \in NoCursor..Len(log[i])
           /\ i \in y.active => y.cursor[i] <= y.place[i]
           /\ x.out[i] = Nothing \/ (i \in y.active /\ y.place[i] = x.place[i])
           /\ \A k \in 1..Len(log[i]) : i \in reads /\ k <= Position(y, i) => k <= Position(x, i)
  PROVE  ReaderHolds(y, shown, reads)
<1>1. ASSUME NEW i \in Inboxes PROVE StreamHolds(y, i)
  <2>1. StreamHolds(x, i)
    BY DEF ReaderHolds
  <2>2. Nothing.state = "none"
    BY DEF Nothing
  <2> QED BY <2>1, <2>2 DEF StreamHolds, Passes
<1>2. ASSUME NEW o \in Objects PROVE ViewHolds(y, shown, reads, o)
  <2>1. ViewHolds(x, shown, reads, o)
    BY DEF ReaderHolds
  <2>2. ASSUME NEW i \in reads, Shows(x, i, o) PROVE Shows(y, i, o)
    <3>1. Position(x, i) \in Int /\ Position(y, i) \in Int
      BY DEF StreamSets, Position
    <3>2. \A j \in About(i, o) : j \in 1..Len(log[i])
      BY DEF About
    <3>3. \A j \in 1..Len(log[i]) : j \in Int
      BY SeqFacts
    <3>4. Precedes(i, Position(x, i), o) => Precedes(i, Position(y, i), o)
      BY <3>1, <3>2, <3>3 DEF Precedes
    <3> QED BY <2>2, <3>4 DEF Shows, Passes
  <2>3. \A i \in reads : \A k \in About(i, o) : k <= Position(y, i) => k <= Position(x, i)
    BY DEF About
  <2> QED BY <2>1, <2>2, <2>3 DEF ViewHolds
<1> QED BY <1>1, <1>2 DEF ReaderHolds

LEMMA DiscoverStep == ASSUME Inv, NEW d \in Devices, Discover(d) PROVE Inv'
<1>1. PICK y : y = [NewReader EXCEPT !.started = TRUE, !.active = Reads[d]]
  OBVIOUS
<1>2. /\ UNCHANGED <<stored, log, act, label, cached, pending, blamed, unresolved>>
      /\ reader' = [reader EXCEPT ![d] = y] /\ view' = [view EXCEPT ![d] = Unseen]
  BY <1>1 DEF Discover, Streams
<1>3. /\ y.active = Reads[d] /\ y.place = None /\ y.cursor = [i \in Inboxes |-> NoCursor]
      /\ y.out = [i \in Inboxes |-> Nothing] /\ y.last = Unseen
      /\ y.started = TRUE /\ y.filtered = [i \in Inboxes |-> TRUE]
      /\ y = [started |-> TRUE, active |-> Reads[d], place |-> None, cursor |-> [i \in Inboxes |-> NoCursor],
              filtered |-> [i \in Inboxes |-> TRUE], out |-> [i \in Inboxes |-> Nothing], last |-> Unseen]
  BY <1>1 DEF NewReader
<1>4. Reads[d] \subseteq Inboxes /\ Unseen \in [Objects -> States]
  BY ReadsAreInboxes DEF Unseen, States
<1>5. y \in StreamSets
  BY <1>3, <1>4 DEF StreamSets, None, NoCursor, Given
<1>6. \A i \in Inboxes : StreamHolds(y, i)
  BY <1>3, SeqFacts DEF StreamHolds, Nothing, NoCursor, None
<1>7. ASSUME NEW o \in Objects PROVE ViewHolds(y, Unseen, Reads[d], o)
  <2>1. ASSUME NEW i \in Reads[d], NEW k \in About(i, o) PROVE ~(k <= Position(y, i))
    <3>1. Position(y, i) = 0 /\ Len(log[i]) \in Nat
      BY <1>3, <1>4, SeqFacts DEF Position, None
    <3> QED BY <3>1 DEF About
  <2> QED BY <1>3, <2>1 DEF ViewHolds, Unseen
<1>8. ReaderHolds(y, Unseen, Reads[d])
  BY <1>3, <1>6, <1>7 DEF ReaderHolds
<1> QED BY <1>2, <1>4, <1>5, <1>8, QuietStep

LEMMA ContinueStep == ASSUME Inv, NEW d \in Devices, ContinueDiscover(d) PROVE Inv'
<1>1. PICK x : x = reader[d]
  OBVIOUS
<1>2. PICK place : place = [i \in Inboxes |-> IF x.cursor[i] = NoCursor THEN 0 ELSE x.cursor[i]]
  OBVIOUS
<1>3. PICK filtered : filtered = [i \in Inboxes |-> x.filtered[i] /\ x.cursor[i] # NoCursor]
  OBVIOUS
<1>4. PICK y : y = [[x EXCEPT !.place = place, !.filtered = filtered] EXCEPT
                      !.started = TRUE, !.active = Reads[d]]
  OBVIOUS
<1>5. /\ x.active = {} /\ reader' = [reader EXCEPT ![d] = y]
      /\ UNCHANGED <<stored, log, act, label, cached, pending, blamed, unresolved, view>>
  BY <1>1, <1>2, <1>3, <1>4 DEF ContinueDiscover, Streams
<1>6. /\ x \in StreamSets /\ ReaderHolds(x, view[d], Reads[d]) /\ Reads[d] \subseteq Inboxes
      /\ view' = [view EXCEPT ![d] = view[d]] /\ view[d] \in [Objects -> States]
  BY <1>1, <1>5, ReaderIs
<1>7. /\ x.cursor \in [Inboxes -> Int] /\ x.filtered \in [Inboxes -> BOOLEAN]
      /\ \A i \in Inboxes : x.cursor[i] \in NoCursor..Len(log[i]) /\ Len(log[i]) \in Nat
      /\ \A i \in Inboxes : x.out[i] = Nothing
  BY <1>5, <1>6, SeqFacts DEF StreamSets, ReaderHolds, StreamHolds
<1>8. /\ place \in [Inboxes -> Nat]
      /\ \A i \in Inboxes : place[i] <= Len(log[i]) /\ x.cursor[i] <= place[i]
      /\ \A i \in Inboxes : place[i] = 0 \/ place[i] = x.cursor[i]
  BY <1>2, <1>7 DEF NoCursor
<1>9. filtered \in [Inboxes -> BOOLEAN] /\ \A i \in Inboxes : filtered[i] => x.filtered[i]
  BY <1>3, <1>7
<1>10. /\ y \in StreamSets /\ y.active = Reads[d] /\ y.place = place /\ y.filtered = filtered
       /\ y.cursor = x.cursor /\ y.out = x.out /\ y.last = x.last
  BY <1>4, <1>6, <1>8, <1>9 DEF StreamSets
<1>11. ASSUME NEW i \in Inboxes, NEW k \in 1..Len(log[i]), i \in Reads[d], k <= Position(y, i)
       PROVE  k <= Position(x, i)
  <2>1. Position(y, i) = place[i] /\ Position(x, i) = x.cursor[i]
    BY <1>5, <1>10, <1>11 DEF Position
  <2>2. place[i] = 0 \/ place[i] = x.cursor[i]
    BY <1>8
  <2>3. place[i] \in Nat /\ x.cursor[i] \in Int /\ k \in Nat \ {0}
    BY <1>7, <1>8, SeqFacts
  <2> QED BY <1>11, <2>1, <2>2, <2>3
<1>12. ReaderHolds(y, view[d], Reads[d])
  BY <1>6, <1>7, <1>8, <1>9, <1>10, <1>11, GoesBack
<1> QED BY <1>5, <1>6, <1>10, <1>12, QuietStep

LEMMA LeaveStep ==
  ASSUME Inv, NEW d \in Devices, NEW i \in Inboxes, Waits(d, i), NEW cursor,
         cursor \in {reader[d].place[i], reader[d].cursor[i]}, Leave(d, i, cursor),
         UNCHANGED <<stored, log, act, label, cached, pending, view, blamed, unresolved>>
  PROVE  Inv'
<1>1. PICK x : x = reader[d]
  OBVIOUS
<1>2. PICK others : others = x.active \ {i}
  OBVIOUS
<1>3. PICK last : last = IF others = {} THEN Unseen ELSE x.last
  OBVIOUS
<1>4. PICK y : y = [x EXCEPT !.active = others, !.cursor[i] = cursor, !.place[i] = 0, !.last = last]
  OBVIOUS
<1>5. /\ x \in StreamSets /\ ReaderHolds(x, view[d], Reads[d]) /\ Reads[d] \subseteq Inboxes
      /\ x.active \subseteq Reads[d]
      /\ view' = [view EXCEPT ![d] = view[d]] /\ view[d] \in [Objects -> States]
  BY <1>1, ReaderIs
<1>6. reader' = [reader EXCEPT ![d] = y]
  <2>1. reader' = [reader EXCEPT ![d].active = others, ![d].cursor[i] = cursor,
                                 ![d].place[i] = 0, ![d].last = last]
    BY <1>1, <1>2, <1>3 DEF Leave
  <2>2. reader \in [Devices -> StreamSets]
    BY DEF Inv, Types
  <2> QED BY <1>1, <1>4, <1>5, <2>1, <2>2 DEF StreamSets
<1>7. i \in x.active /\ x.out[i] = Nothing /\ cursor \in {x.place[i], x.cursor[i]}
  BY <1>1 DEF Waits
<1>8. /\ x.place \in [Inboxes -> Nat] /\ x.cursor \in [Inboxes -> Int]
      /\ \A j \in Inboxes : StreamHolds(x, j) /\ Len(log[j]) \in Nat
  BY <1>5, SeqFacts DEF StreamSets, ReaderHolds
<1>9. cursor \in NoCursor..Len(log[i]) /\ cursor <= x.place[i]
  BY <1>7, <1>8 DEF StreamHolds, NoCursor
<1>10. last \in [Objects -> States] /\ \A o \in Objects : last[o] \in {"none", x.last[o]}
  BY <1>3, <1>5 DEF StreamSets, Unseen, States
<1>11. /\ y \in StreamSets /\ y.active = others /\ y.last = last /\ y.out = x.out
       /\ y.filtered = x.filtered
       /\ y.place = [x.place EXCEPT ![i] = 0] /\ y.cursor = [x.cursor EXCEPT ![i] = cursor]
  <2>1. PICK place : place = [x.place EXCEPT ![i] = 0]
    OBVIOUS
  <2>2. PICK cursors : cursors = [x.cursor EXCEPT ![i] = cursor]
    OBVIOUS
  <2>3. cursor \in Int
    BY <1>8, <1>9 DEF NoCursor
  <2>4. place \in [Inboxes -> Nat] /\ cursors \in [Inboxes -> Int]
    BY <1>8, <2>1, <2>2, <2>3
  <2>5. y = [[x EXCEPT !.active = others, !.last = last] EXCEPT !.place = place, !.cursor = cursors]
    BY <1>4, <1>5, <2>1, <2>2 DEF StreamSets
  <2>6. others \in SUBSET Inboxes
    BY <1>2, <1>5
  <2> QED BY <1>5, <1>10, <2>1, <2>2, <2>4, <2>5, <2>6 DEF StreamSets
<1>12. ASSUME NEW j \in Inboxes
       PROVE  /\ y.place[j] <= Len(log[j]) /\ y.cursor[j] \in NoCursor..Len(log[j])
              /\ j \in y.active => y.cursor[j] <= y.place[j]
              /\ x.out[j] = Nothing \/ (j \in y.active /\ y.place[j] = x.place[j])
              /\ \A k \in 1..Len(log[j]) : k <= Position(y, j) => k <= Position(x, j)
  <2>1. CASE j = i
    <3>1. y.place[i] = 0 /\ y.cursor[i] = cursor /\ i \notin y.active
      BY <1>2, <1>8, <1>11
    <3>2. Position(y, i) = cursor /\ Position(x, i) = x.place[i]
      BY <1>7, <3>1 DEF Position
    <3>3. \A k \in 1..Len(log[i]) : k <= cursor => k <= x.place[i]
      BY <1>8, <1>9 DEF NoCursor
    <3> QED BY <1>7, <1>8, <1>9, <2>1, <3>1, <3>2, <3>3
  <2>2. CASE j # i
    <3>1. y.place[j] = x.place[j] /\ y.cursor[j] = x.cursor[j] /\ (j \in y.active <=> j \in x.active)
      BY <1>2, <1>8, <1>11, <2>2
    <3> QED BY <1>8, <3>1 DEF StreamHolds, Position
  <2> QED BY <2>1, <2>2
<1>13. y.active \subseteq Reads[d]
  BY <1>2, <1>5, <1>11
<1>14. ReaderHolds(y, view[d], Reads[d])
  BY <1>5, <1>10, <1>11, <1>12, <1>13, GoesBack
<1> QED BY <1>5, <1>6, <1>11, <1>14, QuietStep

LEMMA LeaveSteps ==
  ASSUME Inv, NEW d \in Devices, NEW i \in Inboxes, Waits(d, i), EndOfInbox(d, i) \/ InboxFails(d, i)
  PROVE  Inv'
BY LeaveStep DEF EndOfInbox, InboxFails, LeaveFailed, CursorAt

LEMMA SameView ==
  ASSUME UNCHANGED <<stored, log>>, NEW y, NEW shown, NEW reads, NEW o,
         y.last[o] \in {"none", shown[o]}, shown[o] = "dead" => Gone(o),
         shown[o] = "live" /\ o \notin blamed' => \E i \in reads : Shows(y, i, o),
         o \in Matching /\ o \in stored \ blamed' =>
           \A i \in reads : (\E k \in About(i, o) : k <= Position(y, i)) =>
             shown[o] = "live" \/ y.out[i] = [obj |-> o, state |-> "live"]
  PROVE  ViewHolds(y, shown, reads, o)'
<1>1. \A i : About(i, o)' = About(i, o) /\ Position(y, i)' = Position(y, i)
  BY DEF About, Position
<1>2. ASSUME NEW i, NEW k PROVE Precedes(i, k, o)' <=> Precedes(i, k, o)
  BY DEF About, Precedes
<1>3. ASSUME NEW i, Shows(y, i, o) PROVE Shows(y, i, o)'
  <2>1. PICK k : k = Position(y, i)
    OBVIOUS
  <2>2. Precedes(i, k, o)' <=> Precedes(i, k, o)
    BY <1>2
  <2> QED BY <1>1, <1>3, <2>1, <2>2 DEF Shows, Passes
<1>4. Gone(o)' <=> Gone(o)
  BY <1>1 DEF Gone
<1> QED BY <1>1, <1>3, <1>4 DEF ViewHolds

\* The stream of an inbox takes its next message.
Takes(x, y, i, k, z) ==
  /\ i \in x.active /\ x.out[i] = Nothing /\ k \in 1..Len(log[i]) /\ k = x.place[i] + 1
  /\ y.active = x.active /\ y.cursor = x.cursor /\ y.filtered = x.filtered /\ y.last = x.last
  /\ y.place[i] = k /\ y.out[i] = z
  /\ \A j \in Inboxes \ {i} : y.place[j] = x.place[j] /\ y.out[j] = x.out[j]

\* What it makes of a message about o.
Makes(x, i, k, o, z) ==
  /\ z \in {Nothing, [obj |-> o, state |-> "live"], [obj |-> o, state |-> "dead"]}
  /\ z.state = "live" => Passes(x, i, o) /\ Precedes(i, k, o)
  /\ z.state = "dead" => Gone(o)
  /\ log[i][k].tomb # 0 => z.state = "dead" \/ o \in blamed' \/ ~Passes(x, i, o)
  /\ o \in Matching /\ o \in stored \ blamed' => z.state = "live"

LEMMA Advances ==
  ASSUME Inv, UNCHANGED <<stored, log>>, Doubts,
         NEW x \in StreamSets, NEW y \in StreamSets, NEW shown, NEW reads \in SUBSET Inboxes,
         ReaderHolds(x, shown, reads), NEW i \in reads, NEW k, NEW z, NEW o,
         Takes(x, y, i, k, z), o = log[i][k].obj, Makes(x, i, k, o, z)
  PROVE  ReaderHolds(y, shown, reads)'
<1> USE DEF Takes, Makes
<1>1. Nothing.state = "none"
  BY DEF Nothing
<1>2. /\ z.state = "live" => z = [obj |-> o, state |-> "live"]
      /\ z.state = "dead" => z = [obj |-> o, state |-> "dead"]
      /\ z.state # "none" => z.obj = o
  BY <1>1
<1>3. i \in Inboxes /\ Len(log[i]) \in Nat /\ x.place[i] \in Nat
  BY SeqFacts DEF StreamSets
<1>4. k \in About(i, o)
  BY DEF About
<1>5. ASSUME NEW j \in Inboxes PROVE StreamHolds(y, j)'
  <2>1. StreamHolds(x, j)
    BY DEF ReaderHolds
  <2>2. CASE j = i
    <3>1. StreamHolds(y, i)
      BY <1>1, <1>2, <1>3, <1>4, <2>1, <2>2 DEF StreamHolds, Passes, NoCursor
    <3> QED BY <2>2, <3>1, StreamGrows, SameLogs
  <2>3. CASE j # i
    <3>1. StreamHolds(y, j)
      BY <2>1, <2>3 DEF StreamHolds, Passes
    <3> QED BY <3>1, StreamGrows, SameLogs
  <2> QED BY <2>2, <2>3
<1>6. \A j \in Inboxes \ {i} : Position(y, j) = Position(x, j)
  BY DEF Position
<1>7. Position(y, i) = k /\ Position(x, i) = x.place[i]
  BY DEF Position
<1>8. ASSUME NEW p \in Objects PROVE ViewHolds(y, shown, reads, p)'
  <2>1. ViewHolds(x, shown, reads, p)
    BY DEF ReaderHolds
  <2>2. ASSUME NEW j \in reads, Shows(x, j, p), p \notin blamed' PROVE Shows(y, j, p)
    <3>1. CASE j # i
      BY <1>6, <2>2, <3>1 DEF Shows, Passes
    <3>2. CASE j = i
      <4>1. About(i, p) # {} /\ Passes(x, i, p) /\ Precedes(i, x.place[i], p)
        BY <1>7, <2>2, <3>2, <1>1 DEF Shows
      <4>2. ASSUME NEW n \in About(i, p), log[i][n].tomb # 0, ~(k < n) PROVE z = [obj |-> p, state |-> "dead"]
        <5>1. x.place[i] < n /\ n \in 1..Len(log[i])
          BY <4>1, <4>2 DEF Precedes, About
        <5>2. n = k
          BY <1>3, <4>2, <5>1
        <5>3. p = o
          BY <5>2 DEF About
        <5> QED BY <1>2, <2>2, <4>1, <4>2, <5>2, <5>3
      <4> QED BY <1>7, <3>2, <4>1, <4>2 DEF Shows, Passes, Precedes
    <3> QED BY <3>1, <3>2
  <2>3. ASSUME p \in Matching, p \in stored \ blamed', NEW j \in reads,
               NEW n \in About(j, p), n <= Position(y, j)
        PROVE  shown[p] = "live" \/ y.out[j] = [obj |-> p, state |-> "live"]
    <3>1. p \in stored \ blamed
      BY <2>3 DEF Doubts
    <3>2. n <= Position(x, j) => shown[p] = "live" \/ x.out[j] = [obj |-> p, state |-> "live"]
      BY <2>1, <2>3, <3>1 DEF ViewHolds
    <3>3. CASE j # i
      BY <1>6, <2>3, <3>2, <3>3
    <3>4. CASE j = i
      <4>1. n \in 1..Len(log[i]) /\ log[i][n].obj = p
        BY <3>4 DEF About
      <4>2. CASE n = k
        <5>1. p = o
          BY <4>1, <4>2
        <5> QED BY <1>2, <2>3, <3>4, <5>1
      <4>3. CASE n # k
        <5>1. n <= Position(x, j)
          BY <1>3, <1>7, <2>3, <3>4, <4>1, <4>3
        <5>2. x.out[j] # [obj |-> p, state |-> "live"]
          BY <1>1, <3>4
        <5> QED BY <3>2, <5>1, <5>2
      <4> QED BY <4>2, <4>3
    <3> QED BY <3>3, <3>4
  <2>4. /\ y.last[p] \in {"none", shown[p]} /\ (shown[p] = "dead" => Gone(p))
        /\ (shown[p] = "live" /\ p \notin blamed' => \E j \in reads : Shows(y, j, p))
    BY <2>1, <2>2 DEF ViewHolds, Doubts
  <2>5. p \in Matching /\ p \in stored \ blamed' =>
          \A j \in reads : (\E n \in About(j, p) : n <= Position(y, j)) =>
            shown[p] = "live" \/ y.out[j] = [obj |-> p, state |-> "live"]
    BY <2>3
  <2> QED BY <2>4, <2>5, SameView
<1> QED BY <1>5, <1>8 DEF ReaderHolds

LEMMA SkipStep ==
  ASSUME Inv, NEW d \in Devices, NEW i \in Reads[d], Waits(d, i), reader[d].place[i] < Len(log[i]),
         SkipRefused(d, i)
  PROVE  Inv'
<1>1. PICK x : x = reader[d]
  OBVIOUS
<1>2. PICK k : k = x.place[i] + 1
  OBVIOUS
<1>3. PICK y : y = [x EXCEPT !.place[i] = k]
  OBVIOUS
<1>4. /\ x \in StreamSets /\ ReaderHolds(x, view[d], Reads[d]) /\ Reads[d] \subseteq Inboxes
      /\ view' = [view EXCEPT ![d] = view[d]] /\ view[d] \in [Objects -> States]
  BY <1>1, ReaderIs DEF SkipRefused
<1>5. /\ UNCHANGED <<stored, log, act, label, cached, pending, blamed, unresolved>>
      /\ i \in x.active /\ x.out[i] = Nothing /\ x.place[i] < Len(log[i])
      /\ x.filtered[i] /\ log[i][k].obj \notin Matching
  BY <1>1, <1>2 DEF SkipRefused, Waits
<1>6. reader' = [reader EXCEPT ![d] = y]
  <2>1. reader \in [Devices -> StreamSets]
    BY DEF Inv, Types
  <2> QED BY <1>1, <1>2, <1>3, <1>4, <2>1 DEF SkipRefused, StreamSets
<1>7. x.place \in [Inboxes -> Nat] /\ i \in Inboxes /\ Len(log[i]) \in Nat
  BY <1>4, SeqFacts DEF StreamSets
<1>8. k \in 1..Len(log[i]) /\ k \in Nat
  BY <1>2, <1>5, <1>7
<1>9. /\ y \in StreamSets /\ y.active = x.active /\ y.cursor = x.cursor /\ y.filtered = x.filtered
      /\ y.last = x.last /\ y.out = x.out /\ y.place = [x.place EXCEPT ![i] = k]
  <2>1. PICK place : place = [x.place EXCEPT ![i] = k]
    OBVIOUS
  <2>2. place \in [Inboxes -> Nat]
    BY <1>7, <1>8, <2>1
  <2>3. y = [x EXCEPT !.place = place]
    BY <1>3, <1>4, <2>1 DEF StreamSets
  <2> QED BY <1>4, <2>1, <2>2, <2>3 DEF StreamSets
<1>10. /\ y.place[i] = k
       /\ \A j \in Inboxes \ {i} : y.place[j] = x.place[j] /\ y.out[j] = x.out[j]
  BY <1>7, <1>9
<1>11. PICK o : o = log[i][k].obj
  OBVIOUS
<1>12. ~Passes(x, i, o) /\ o \notin Matching
  BY <1>5, <1>11 DEF Passes
<1>13. Nothing.state = "none"
  BY DEF Nothing
<1>131. Doubts /\ blamed' \subseteq Objects /\ unresolved' \subseteq blamed'
  BY <1>5 DEF Inv, Types, Doubts
<1>14. ReaderHolds(y, view[d], Reads[d])'
  <2>1. PICK shown : shown = view[d]
    OBVIOUS
  <2>2. PICK z : z = Nothing
    OBVIOUS
  <2>3. Reads[d] \in SUBSET Inboxes /\ ReaderHolds(x, shown, Reads[d])
    BY <1>4, <2>1
  <2>4. Takes(x, y, i, k, z)
    BY <1>2, <1>5, <1>8, <1>9, <1>10, <2>2 DEF Takes
  <2>5. Makes(x, i, k, o, z)
    BY <1>12, <1>13, <2>2 DEF Makes
  <2>6. ReaderHolds(y, shown, Reads[d])'
    BY <1>4, <1>5, <1>9, <1>11, <1>131, <2>3, <2>4, <2>5, Advances
  <2>7. view' = view
    BY DEF SkipRefused
  <2> QED BY <2>1, <2>6, <2>7
<1>15. LabelsHold' /\ pending' \subseteq CallSet
       /\ cached' \in [Devices -> [Inboxes -> [Places -> LabelNames \cup {"absent"}]]]
  BY <1>5, UnlabelledStep
<1>16. PICK shown : shown = view[d]
  OBVIOUS
<1>17. ReaderHolds(y, shown, Reads[d])' /\ view' = [view EXCEPT ![d] = shown] /\ shown \in [Objects -> States]
  BY <1>4, <1>14, <1>16 DEF SkipRefused
<1> QED BY <1>5, <1>6, <1>9, <1>15, <1>17, <1>131, ReaderStep

LEMMA ReceiveStep ==
  ASSUME Inv, NEW d \in Devices, NEW i \in Reads[d], Receive(d, i)
  PROVE  Inv'
<1>1. PICK x : x = reader[d]
  OBVIOUS
<1>2. PICK z : z = x.out[i]
  OBVIOUS
<1>3. PICK o, s : o = z.obj /\ s = z.state
  OBVIOUS
<1>4. PICK shown : shown = view[d]
  OBVIOUS
<1>5. PICK w : w = [shown EXCEPT ![o] = s]
  OBVIOUS
<1>6. PICK y : y = [x EXCEPT !.out[i] = Nothing, !.last[o] = s]
  OBVIOUS
<1>7. /\ x \in StreamSets /\ ReaderHolds(x, shown, Reads[d]) /\ Reads[d] \subseteq Inboxes
      /\ view = [view EXCEPT ![d] = shown] /\ shown \in [Objects -> States]
  BY <1>1, <1>4, ReaderIs
<1>8. z # Nothing /\ UNCHANGED <<stored, log, act, label, cached, pending, blamed, unresolved>>
  BY <1>1, <1>2 DEF Receive
<1>9. /\ i \in Inboxes /\ x.out \in [Inboxes -> Given] /\ x.last \in [Objects -> States]
  BY <1>7 DEF StreamSets
<1>10. /\ z = [obj |-> o, state |-> s] /\ o \in Objects /\ s \in {"live", "dead"}
  BY <1>2, <1>3, <1>8, <1>9 DEF Given
<1>11. reader' = [reader EXCEPT ![d] = y]
  <2>1. reader \in [Devices -> StreamSets]
    BY DEF Inv, Types
  <2>2. reader' = [reader EXCEPT ![d].out[i] = Nothing, ![d].last[o] = s]
    BY <1>1, <1>2, <1>3 DEF Receive
  <2> QED BY <1>1, <1>6, <1>7, <2>1, <2>2 DEF StreamSets
<1>12. /\ y \in StreamSets /\ y.active = x.active /\ y.cursor = x.cursor /\ y.filtered = x.filtered
       /\ y.place = x.place /\ y.out = [x.out EXCEPT ![i] = Nothing] /\ y.last = [x.last EXCEPT ![o] = s]
  <2>1. PICK out : out = [x.out EXCEPT ![i] = Nothing]
    OBVIOUS
  <2>2. PICK last : last = [x.last EXCEPT ![o] = s]
    OBVIOUS
  <2>3. out \in [Inboxes -> Given] /\ last \in [Objects -> States]
    BY <1>9, <1>10, <2>1, <2>2 DEF Given, States
  <2>4. y = [x EXCEPT !.out = out, !.last = last]
    BY <1>6, <1>7, <2>1, <2>2 DEF StreamSets
  <2> QED BY <1>7, <2>1, <2>2, <2>3, <2>4 DEF StreamSets
<1>13. /\ y.out[i] = Nothing /\ y.last[o] = s /\ w[o] = s
       /\ \A j \in Inboxes \ {i} : y.out[j] = x.out[j]
       /\ \A p \in Objects \ {o} : y.last[p] = x.last[p] /\ w[p] = shown[p]
  BY <1>5, <1>7, <1>9, <1>10, <1>12
<1>14. w \in [Objects -> States]
  BY <1>5, <1>7, <1>10 DEF States
<1>15. view' = [view EXCEPT ![d] = w]
  <2>1. CASE Repeats(x, z)
    <3>1. x.last[o] = s
      BY <1>3, <2>1 DEF Repeats
    <3>2. ViewHolds(x, shown, Reads[d], o)
      BY <1>7, <1>10 DEF ReaderHolds
    <3>3. shown[o] = s
      BY <1>10, <3>1, <3>2 DEF ViewHolds
    <3>4. w = shown
      BY <1>5, <1>7, <3>3
    <3> QED BY <1>1, <1>2, <1>7, <2>1, <3>4 DEF Receive
  <2>2. CASE ~Repeats(x, z)
    <3>1. view' = [view EXCEPT ![d][o] = s]
      BY <1>1, <1>2, <1>3, <2>2 DEF Receive
    <3> QED BY <1>4, <1>5, <3>1
  <2> QED BY <2>1, <2>2
<1>16. Nothing.state = "none"
  BY DEF Nothing
<1>17. StreamHolds(x, i) /\ i \in x.active
  <2>1. StreamHolds(x, i)
    BY <1>7, <1>9 DEF ReaderHolds
  <2> QED BY <1>2, <1>8, <2>1 DEF StreamHolds
<1>18. ASSUME NEW j \in Inboxes PROVE StreamHolds(y, j)
  <2>1. StreamHolds(x, j)
    BY <1>7 DEF ReaderHolds
  <2>2. CASE j = i
    BY <1>12, <1>13, <1>16, <1>17, <2>1, <2>2 DEF StreamHolds, Passes
  <2>3. CASE j # i
    <3>1. y.out[j] = x.out[j]
      BY <1>13, <2>3
    <3> QED BY <1>12, <2>1, <3>1 DEF StreamHolds, Passes
  <2> QED BY <2>2, <2>3
<1>19. \A j : Position(y, j) = Position(x, j)
  BY <1>12 DEF Position
<1>20. ViewHolds(y, w, Reads[d], o)
  <2>1. CASE s = "live"
    <3>1. About(i, o) # {} /\ Passes(x, i, o) /\ Precedes(i, x.place[i], o)
      BY <1>2, <1>3, <1>17, <2>1 DEF StreamHolds
    <3>2. Position(y, i) = x.place[i]
      BY <1>17, <1>19 DEF Position
    <3>3. Shows(y, i, o)
      BY <1>12, <3>1, <3>2 DEF Shows, Passes
    <3> QED BY <1>13, <2>1, <3>3 DEF ViewHolds
  <2>2. CASE s = "dead"
    <3>1. Gone(o)
      BY <1>2, <1>3, <1>17, <2>2 DEF StreamHolds
    <3>2. o \notin stored
      BY <3>1 DEF Gone
    <3> QED BY <1>13, <2>2, <3>1, <3>2 DEF ViewHolds
  <2> QED BY <1>10, <2>1, <2>2
<1>21. ASSUME NEW p \in Objects, p # o PROVE ViewHolds(y, w, Reads[d], p)
  <2>1. ViewHolds(x, shown, Reads[d], p)
    BY <1>7 DEF ReaderHolds
  <2>2. y.last[p] = x.last[p] /\ w[p] = shown[p]
    BY <1>13, <1>21
  <2>3. ASSUME NEW j \in Reads[d], NEW t, x.out[j] = [obj |-> p, state |-> t] PROVE y.out[j] = x.out[j]
    <3>1. j # i
      BY <1>2, <1>3, <1>21, <2>3
    <3> QED BY <1>7, <1>13, <3>1
  <2>4. ASSUME NEW j \in Reads[d], Shows(x, j, p) PROVE Shows(y, j, p)
    <3>1. Passes(y, j, p) <=> Passes(x, j, p)
      BY <1>12 DEF Passes
    <3> QED BY <1>19, <2>3, <2>4, <3>1 DEF Shows
  <2> QED BY <1>19, <2>1, <2>2, <2>3, <2>4 DEF ViewHolds
<1>22. ReaderHolds(y, w, Reads[d])
  BY <1>7, <1>12, <1>18, <1>20, <1>21 DEF ReaderHolds
<1> QED BY <1>8, <1>11, <1>12, <1>14, <1>15, <1>22, QuietStep

LEMMA JudgementIs ==
  ASSUME Inv, NEW d \in Devices, NEW i \in Inboxes, NEW k \in 1..Len(log[i]), NEW paged, NEW answer,
         NEW o, o = log[i][k].obj, answer \in {Answer(o), "error", "missing"},
         NEW state, state = Judgement(d, i, k, paged, answer)
  PROVE  /\ state \in {"none", "live", "dead"}
         /\ state = "live" => Precedes(i, k, o)
         /\ state = "dead" => Gone(o)
         /\ answer = Answer(o) /\ o \notin blamed =>
              (log[i][k].tomb # 0 => state = "dead") /\ (o \in stored => state = "live")
<1>1. PICK m : m = log[i][k]
  OBVIOUS
<1>2. PICK l : l = LabelSeen(d, i, k, paged)
  OBVIOUS
<1>3. /\ k \in Places /\ o \in Objects /\ k \in About(i, o)
  BY InLog
<1>4. l \in LabelNames /\ (l # "none" => l \in LabelsSet /\ Deserved(i, k, l))
  BY <1>2, <1>3, SeenLabels DEF Inv, LabelsHold
<1>5. /\ l = "trash" => o \notin stored \/ o \in blamed
      /\ l = "invalid" => o \in blamed
      /\ l = "valid" => m.tomb = 0 /\ Precedes(i, k, o)
  BY <1>1, <1>4 DEF Deserved, LabelsSet, Inv, Types
<1>6. m.tomb # 0 => o \notin stored /\ IsTombstone(i, m)
  BY <1>1, TombIs
<1>7. o \in stored => Precedes(i, k, o)
  BY TombIs DEF Precedes, About
<1>8. o \notin stored => Gone(o)
  BY <1>3 DEF Gone
<1>9. state = CASE l = "valid" -> "live"
                [] l = "trash" /\ IsTombstone(i, m) -> "dead"
                [] l = "none" /\ m.tomb = 0 /\ answer = "found" -> "live"
                [] l = "none" /\ m.tomb # 0 /\ answer = "missing" -> "dead"
                [] OTHER -> "none"
  BY <1>1, <1>2 DEF Judgement
<1>10. answer \in {"found", "missing", "error"} /\ (answer = "found" => o \in stored)
       /\ (answer = Answer(o) => answer = (IF o \in stored THEN "found" ELSE "missing"))
  BY DEF Answer
<1>11. state \in {"none", "live", "dead"}
  BY <1>9
<1>12. state = "live" => Precedes(i, k, o)
  BY <1>4, <1>5, <1>7, <1>9, <1>10
<1>13. state = "dead" => Gone(o)
  <2>1. state = "dead" => m.tomb # 0
    BY <1>4, <1>9 DEF IsTombstone
  <2> QED BY <1>6, <1>8, <2>1
<1>14. ASSUME answer = Answer(o), o \notin blamed, m.tomb # 0 PROVE state = "dead"
  <2>1. answer = "missing" /\ l # "invalid" /\ l # "valid" /\ IsTombstone(i, m)
    BY <1>5, <1>6, <1>10, <1>14
  <2> QED BY <1>4, <1>9, <1>14, <2>1 DEF LabelNames
<1>15. ASSUME answer = Answer(o), o \notin blamed, o \in stored PROVE state = "live"
  <2>1. answer = "found" /\ l # "invalid" /\ l # "trash" /\ m.tomb = 0
    BY <1>5, <1>6, <1>10, <1>15
  <2> QED BY <1>4, <1>9, <2>1 DEF LabelNames
<1> QED BY <1>1, <1>11, <1>12, <1>13, <1>14, <1>15

LEMMA JudgementMakes ==
  ASSUME Inv, UNCHANGED <<stored, log>>, Doubts,
         NEW d \in Devices, NEW i \in Inboxes, NEW k \in 1..Len(log[i]), NEW x, NEW paged, NEW answer,
         NEW o, o = log[i][k].obj, Passes(x, i, o),
         Told(o, answer),
         NEW state, state = Judgement(d, i, k, paged, answer)
  PROVE  Makes(x, i, k, o, IF state = "none" THEN Nothing ELSE [obj |-> o, state |-> state])
<1>1. PICK z : z = IF state = "none" THEN Nothing ELSE [obj |-> o, state |-> state]
  OBVIOUS
<1>2. /\ state \in {"none", "live", "dead"}
      /\ state = "live" => Precedes(i, k, o)
      /\ state = "dead" => Gone(o)
      /\ answer = Answer(o) /\ o \notin blamed =>
           (log[i][k].tomb # 0 => state = "dead") /\ (o \in stored => state = "live")
  BY JudgementIs DEF Told
<1>3. z.state = state /\ z \in {Nothing, [obj |-> o, state |-> "live"], [obj |-> o, state |-> "dead"]}
  BY <1>1, <1>2 DEF Nothing
<1>4. o \notin blamed' => answer = Answer(o) /\ o \notin blamed
  BY DEF Told, Doubts
<1> QED BY <1>1, <1>2, <1>3, <1>4 DEF Makes

LEMMA ProcessStep ==
  ASSUME Inv, NEW d \in Devices, NEW i \in Reads[d], Waits(d, i), reader[d].place[i] < Len(log[i]),
         NEW paged, NEW outage \in Outages, Process(d, i, paged, outage)
  PROVE  Inv'
<1>1. PICK x : x = reader[d]
  OBVIOUS
<1>2. PICK k : k = x.place[i] + 1
  OBVIOUS
<1>3. PICK o : o = log[i][k].obj
  OBVIOUS
<1>4. PICK answer : answer = Finds(o, outage)
  OBVIOUS
<1>5. PICK state : state = Judgement(d, i, k, paged, answer)
  OBVIOUS
<1>6. PICK z : z = IF state = "none" THEN Nothing ELSE [obj |-> o, state |-> state]
  OBVIOUS
<1>7. PICK y : y = [x EXCEPT !.place[i] = k, !.out[i] = z]
  OBVIOUS
<1>8. PICK shown : shown = view[d]
  OBVIOUS
<1>9. /\ x.filtered[i] => o \in Matching
      /\ Fetch(d, i, {k}, paged)
      /\ pending' = pending \cup Labels(d, i, Verdicts(d, i, k, paged, answer))
      /\ Blame(o, outage)
      /\ reader' = [reader EXCEPT ![d].place[i] = k, ![d].out[i] = z]
      /\ UNCHANGED <<stored, log, act, label, view>>
  BY <1>1, <1>2, <1>3, <1>4, <1>5, <1>6 DEF Process
<1>10. /\ x \in StreamSets /\ ReaderHolds(x, shown, Reads[d]) /\ Reads[d] \in SUBSET Inboxes
       /\ view' = [view EXCEPT ![d] = shown] /\ shown \in [Objects -> States]
  BY <1>1, <1>8, <1>9, ReaderIs
<1>11. i \in x.active /\ x.out[i] = Nothing /\ x.place[i] < Len(log[i])
  BY <1>1 DEF Waits
<1>12. /\ x.place \in [Inboxes -> Nat] /\ x.out \in [Inboxes -> Given]
       /\ i \in Inboxes /\ Len(log[i]) \in Nat
  BY <1>10, SeqFacts DEF StreamSets
<1>13. k \in 1..Len(log[i]) /\ k \in Nat
  BY <1>2, <1>11, <1>12
<1>14. o \in Objects /\ Passes(x, i, o)
  BY <1>3, <1>9, <1>12, <1>13, InLog DEF Passes
<1>15. /\ Doubts /\ blamed' \subseteq Objects /\ unresolved' \subseteq blamed'
       /\ Told(o, answer)
  BY <1>4, <1>9, <1>14, Blamed, AnswerIsTold
<1>16. Makes(x, i, k, o, z)
  BY <1>3, <1>5, <1>6, <1>9, <1>12, <1>13, <1>14, <1>15, JudgementMakes
<1>17. z \in Given
  BY <1>14, <1>16 DEF Makes, Given
<1>18. reader' = [reader EXCEPT ![d] = y]
  <2>1. reader \in [Devices -> StreamSets]
    BY DEF Inv, Types
  <2> QED BY <1>1, <1>7, <1>9, <1>10, <2>1 DEF StreamSets
<1>19. /\ y \in StreamSets /\ y.active = x.active /\ y.cursor = x.cursor /\ y.filtered = x.filtered
       /\ y.last = x.last /\ y.out = [x.out EXCEPT ![i] = z] /\ y.place = [x.place EXCEPT ![i] = k]
  <2>1. PICK place : place = [x.place EXCEPT ![i] = k]
    OBVIOUS
  <2>2. PICK out : out = [x.out EXCEPT ![i] = z]
    OBVIOUS
  <2>3. place \in [Inboxes -> Nat] /\ out \in [Inboxes -> Given]
    BY <1>12, <1>13, <1>17, <2>1, <2>2
  <2>4. y = [x EXCEPT !.place = place, !.out = out]
    BY <1>7, <1>10, <2>1, <2>2 DEF StreamSets
  <2> QED BY <1>10, <2>1, <2>2, <2>3, <2>4 DEF StreamSets
<1>20. Takes(x, y, i, k, z)
  BY <1>2, <1>11, <1>12, <1>13, <1>19 DEF Takes
<1>21. ReaderHolds(y, shown, Reads[d])'
  BY <1>3, <1>9, <1>10, <1>15, <1>16, <1>19, <1>20, Advances
<1>22. /\ Labels(d, i, Verdicts(d, i, k, paged, answer)) \subseteq CallSet
       /\ \A c \in Labels(d, i, Verdicts(d, i, k, paged, answer)) : Deserved(c.inbox, c.place, c.label)'
  <2>1. \A v \in Verdicts(d, i, k, paged, answer) :
          v[1] \in Places /\ v[2] \in LabelsSet /\ Deserved(i, v[1], v[2])'
    BY <1>3, <1>9, <1>12, <1>13, <1>15, VerdictsDeserved
  <2> QED BY <1>9, <1>12, <1>15, <2>1, LabelsTyped
<1>23. PICK new : new = Labels(d, i, Verdicts(d, i, k, paged, answer))
  OBVIOUS
<1>24. /\ cached' \in [Devices -> [Inboxes -> [Places -> LabelNames \cup {"absent"}]]]
       /\ pending' \subseteq CallSet /\ LabelsHold'
  <2>1. \A c \in new : Deserved(c.inbox, c.place, c.label)'
    BY <1>22, <1>23
  <2> QED BY <1>9, <1>12, <1>15, <1>22, <1>23, <2>1, LabelsAdded
<1> QED BY <1>9, <1>10, <1>15, <1>18, <1>19, <1>21, <1>24, ReaderStep

(***************************************************************************)
(* The theorems.                                                           *)
(***************************************************************************)
LEMMA NextHolds == ASSUME Inv, Next PROVE Inv'
<1>1. ASSUME NEW o \in Objects, Post(o) \/ Erase(o) \/ AnnounceToSelf(o) \/ Stop(o) PROVE Inv'
  BY <1>1, PostStep, EraseStep, AnnounceToSelfStep, StopStep
<1>2. ASSUME NEW o \in Objects, NEW paged, NEW outage \in Outages, NEW hit,
             Delete(o, paged, hit, outage)
      PROVE  Inv'
  BY <1>2, DeleteStep
<1>3. ASSUME NEW o \in Objects, NEW i \in Others, Announce(o, i) \/ AnnounceFails(o, i) PROVE Inv'
  BY <1>3, AnnounceStep DEF Inboxes
<1>4. ASSUME NEW d \in Readers, Discover(d) \/ ContinueDiscover(d) PROVE Inv'
  BY <1>4, ReadersAreDevices, DiscoverStep, ContinueStep
<1>5. ASSUME NEW d \in Readers, NEW i \in Reads[d], Read(d, i) PROVE Inv'
  <2>1. d \in Devices /\ i \in Inboxes
    BY ReadersAreDevices, ReadsAreInboxes
  <2>2. CASE Waits(d, i) /\ reader[d].place[i] < Len(log[i]) /\ SkipRefused(d, i)
    BY <2>1, <2>2, SkipStep
  <2>3. ASSUME NEW paged, NEW outage \in Outages, Waits(d, i), reader[d].place[i] < Len(log[i]),
               Process(d, i, paged, outage)
        PROVE  Inv'
    BY <2>1, <2>3, ProcessStep
  <2>4. CASE Waits(d, i) /\ (EndOfInbox(d, i) \/ InboxFails(d, i))
    BY <2>1, <2>4, LeaveSteps
  <2>5. CASE Receive(d, i)
    BY <2>1, <2>5, ReceiveStep
  <2> QED BY <1>5, <2>2, <2>3, <2>4, <2>5 DEF Read
<1>6. ASSUME NEW c \in pending, Label(c) \/ LabelFails(c) PROVE Inv'
  BY <1>6, LabelStep
<1> QED BY <1>1, <1>2, <1>3, <1>4, <1>5, <1>6 DEF Next

LEMMA StutterHolds == ASSUME Inv, UNCHANGED vars PROVE Inv'
<1>1. UNCHANGED <<stored, log, act, label, cached, pending, blamed, unresolved>> /\ UNCHANGED <<reader, view>>
  BY DEF vars
<1>2. LabelsHold' /\ Types'
  BY <1>1, UnlabelledStep DEF Inv, Types
<1>3. Grows /\ \A i \in Inboxes : \A k \in 1..Len(log'[i]) : MessageHolds(i, k)'
  BY <1>1, SameLogs
<1>4. LogsHold'
  BY <1>1, <1>3, ActStays DEF LogsHold
<1>5. ReadersHold'
  BY <1>1, <1>3, ReadersStay DEF readers
<1> QED BY <1>2, <1>4, <1>5 DEF Inv

\* Labels are deserved, tombstones and lists name messages about their object, and
\* readers were given what the part that they have read says.
THEOREM Inductive == Spec => []Inv
BY InitHolds, NextHolds, StutterHolds, PTL DEF Spec

\* A message is labelled as trash, on the server, in the cache of a device or in a
\* call that is under way, only when the bytes of its object are gone, or a reader
\* that checked a message about it could not resolve its actor's DID, however many
\* devices and accounts label it, in whatever order the calls arrive.
THEOREM TrashHolds == Spec => []TrashIsDeleted
<1>1. Inv => TrashIsDeleted
  <2> SUFFICES ASSUME Inv, NEW i \in Inboxes, NEW k \in 1..Len(log[i]), Labelled(i, k, "trash")
               PROVE  log[i][k].obj \notin stored \ unresolved
    BY DEF TrashIsDeleted
  <2>1. Deserved(i, k, "trash")
    BY InLog DEF Inv, LabelsHold, LabelsSet
  <2> QED BY <2>1 DEF Deserved
<1> QED BY <1>1, Inductive, PTL

LEMMA SettledIs ==
  ASSUME Inv, NEW d \in Devices, Settled(d), NEW i \in Reads[d]
  PROVE  /\ i \in Inboxes /\ Position(reader[d], i) = Len(log[i]) /\ Len(log[i]) \in Nat
         /\ reader[d].out[i] = Nothing
<1>1. i \in Inboxes
  BY ReadsAreInboxes
<1>2. StreamHolds(reader[d], i)
  BY <1>1 DEF Inv, ReadersHold, ReaderHolds
<1> QED BY <1>1, <1>2, SeqFacts DEF Settled, Position, StreamHolds

\* A device that has read all its inboxes does not show an object that was deleted
\* and withdrawn from the inboxes that announce it.
THEOREM DeletedAreGone == Spec => []DeletionsReach
<1>1. Inv => DeletionsReach
  <2> SUFFICES ASSUME Inv, NEW d \in Devices, NEW o \in Objects, Settled(d),
                      o \notin stored \cup blamed, view[d][o] = "live",
                      NEW i \in Reads[d], Shows(reader[d], i, o),
                      Mentions(i, o) => Withdrawn(i, o)
               PROVE  FALSE
    BY DEF DeletionsReach, Inv, ReadersHold, ReaderHolds, ViewHolds
  <2>1. i \in Inboxes /\ Position(reader[d], i) = Len(log[i]) /\ reader[d].out[i] = Nothing
    BY SettledIs
  <2>2. Precedes(i, Len(log[i]), o) /\ About(i, o) # {}
    <3>1. Nothing # [obj |-> o, state |-> "dead"]
      BY DEF Nothing
    <3> QED BY <2>1, <3>1 DEF Shows
  <2>3. PICK k \in About(i, o) : log[i][k].tomb # 0
    BY <2>2 DEF Mentions, Withdrawn
  <2>4. Len(log[i]) < k /\ k \in 1..Len(log[i])
    BY <2>2, <2>3 DEF Precedes, About
  <2> QED BY <2>1, <2>4, SeqFacts
<1> QED BY <1>1, Inductive, PTL

\* A device that has read all its inboxes shows each object that is announced there
\* and was not deleted, if the schema accepts it and no check of it failed.
THEOREM PostsAreShown == Spec => []PostsReach
<1>1. Inv => PostsReach
  <2> SUFFICES ASSUME Inv, NEW d \in Devices, NEW o \in Objects, o \in Matching, Settled(d),
                      o \in stored \ blamed, NEW i \in Reads[d], Mentions(i, o)
               PROVE  view[d][o] = "live"
    BY DEF PostsReach, Inv, Types
  <2>1. i \in Inboxes /\ Position(reader[d], i) = Len(log[i]) /\ reader[d].out[i] = Nothing
        /\ Len(log[i]) \in Nat
    BY SettledIs
  <2>2. PICK k \in About(i, o) : k <= Position(reader[d], i)
    BY <2>1 DEF Mentions, About
  <2>3. reader[d].out[i] # [obj |-> o, state |-> "live"]
    BY <2>1 DEF Nothing
  <2> QED BY <2>2, <2>3 DEF Inv, ReadersHold, ReaderHolds, ViewHolds
<1> QED BY <1>1, Inductive, PTL

\* Once an object is withdrawn from an inbox, and no failure kept a device from
\* checking it, get does not find it in that inbox, nor does delete in its own.
THEOREM WithdrawnIsForgotten == Spec => []WithdrawnIsNotFound
<1>1. Inv => WithdrawnIsNotFound
  <2> SUFFICES ASSUME Inv, NEW d \in Devices, NEW o \in Objects, NEW i \in Reads[d],
                      o \notin blamed, Withdrawn(i, o), NEW paged
               PROVE  Lookup(d, i, o, paged, Answers(i, o, {}, "none")) = 0
    BY DEF WithdrawnIsNotFound
  <2> DEFINE answers == Answers(i, o, {}, "none")
             given == [k \in About(i, o) |-> Judgement(d, i, k, paged, answers[k])]
             isLast(k) == /\ given[k] = "live"
                          /\ \A j \in About(i, o) : j > k => given[j] = "none"
  <2>1. i \in Inboxes
    BY ReadsAreInboxes
  <2>2. PICK t \in About(i, o) : log[i][t].tomb # 0
    BY DEF Withdrawn
  <2>3. ASSUME NEW k \in About(i, o)
        PROVE  (given[k] = "live" => Precedes(i, k, o)) /\ (log[i][k].tomb # 0 => given[k] = "dead")
    <3>0. answers[k] = Answer(o)
      BY DEF Answers, Finds
    <3>1. PICK state : state = Judgement(d, i, k, paged, Answer(o))
      OBVIOUS
    <3>2. k \in 1..Len(log[i]) /\ log[i][k].obj = o /\ given[k] = state
      BY <3>0, <3>1 DEF About
    <3>3. /\ state = "live" => Precedes(i, k, o)
          /\ log[i][k].tomb # 0 => state = "dead"
      BY <2>1, <3>1, <3>2, JudgementIs
    <3> QED BY <3>2, <3>3
  <2> HIDE DEF given
  <2>4. ASSUME NEW k \in About(i, o), isLast(k) PROVE FALSE
    <3>1. k < t
      BY <2>2, <2>3, <2>4 DEF Precedes
    <3>2. k \in Nat /\ t \in Nat
      BY <2>1, SeqFacts DEF About
    <3>3. given[t] = "none" /\ given[t] = "dead"
      BY <2>2, <2>3, <2>4, <3>1, <3>2
    <3> QED BY <3>3
  <2>5. Lookup(d, i, o, paged, answers) =
          IF \E k \in About(i, o) : isLast(k) THEN CHOOSE k \in About(i, o) : isLast(k) ELSE 0
    BY DEF Lookup, given
  <2> QED BY <2>4, <2>5
<1> QED BY <1>1, Inductive, PTL
===============================================================================
