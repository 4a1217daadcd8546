------------------------ MODULE ActorUpdatesProofs ------------------------
(* Theorems about ActorUpdates, for any accounts, names, actors, clients   *)
(* and bounds.                                                             *)
EXTENDS ActorUpdates, TLAPS

-----------------------------------------------------------------------------
(* The types.                                                              *)

\* A request is of an account and about an actor, and so is a key.
Addressed ==
  /\ \A c \in Clients :
       call[c].pc # "idle" => call[c].account \in Accounts /\ call[c].did \in Dids
  /\ \A a \in Accounts : actors[a].key # NoKey => actors[a].did \in Dids
Typed == TypeOK /\ Addressed

LEMMA InitTypes == Init => Typed
  <1> SUFFICES ASSUME Init PROVE Typed
    OBVIOUS
  <1>1. 1..FirstKeys \subseteq Keys /\ FirstKeys \in Keys
    BY BoundsAreNatural DEF Keys
  <1>2. NoDocument \in Documents
    BY DEF NoDocument, Documents
  <1>3. plc \in [Dids -> Documents]
    BY <1>1, <1>2, ForeignExists DEF Init, NoDocument, Documents
  <1>4. call \in [Clients -> Requests]
    BY <1>2 DEF Init, Idle, Requests
  <1>5. Addressed
    BY DEF Init, Addressed, Idle, NoActor
  <1> QED
    BY <1>1, <1>3, <1>4, <1>5, FirstHandles, BoundsAreNatural DEF Init, Typed, TypeOK, NoActor

\* A request goes on with the type that it had.
LEMMA GoesTypes ==
  ASSUME Typed, NEW c \in Clients, NEW r \in Requests,
         NEW pc \in {"data", "prev", "publish", "save"}, Goes(c, r, pc)
  PROVE  call' \in [Clients -> Requests]
  <1>1. [r EXCEPT !.pc = pc] \in Requests
    BY DEF Requests
  <1> QED
    BY <1>1 DEF Goes, Typed, TypeOK

LEMMA EndsTypes ==
  ASSUME Typed, NEW c \in Clients, Ends(c)
  PROVE  call' \in [Clients -> Requests]
  <1>1. Idle \in Requests
    BY DEF Idle, Requests, NoDocument, Documents
  <1> QED
    BY <1>1 DEF Ends, Typed, TypeOK

\* The address of a request does not change while it runs.
LEMMA AddressStays ==
  ASSUME Typed, NEW c \in Clients, NEW r \in Requests, NEW pc \in {"data", "prev", "publish", "save"},
         r.account \in Accounts /\ r.did \in Dids,
         Goes(c, r, pc) \/ Ends(c), actors' = actors
  PROVE  Addressed'
  <1> SUFFICES ASSUME NEW e \in Clients, call'[e].pc # "idle"
               PROVE  call'[e].account \in Accounts /\ call'[e].did \in Dids
    BY DEF Typed, Addressed
  <1>1. CASE e # c
    BY <1>1 DEF Goes, Ends, Typed, TypeOK, Addressed
  <1>2. CASE e = c /\ Goes(c, r, pc)
    BY <1>2 DEF Goes, Typed, TypeOK, Requests
  <1>3. CASE e = c /\ Ends(c)
    BY <1>3 DEF Ends, Typed, TypeOK, Idle
  <1> QED
    BY <1>1, <1>2, <1>3


LEMMA FetchDataTypes ==
  ASSUME Typed, NEW c \in Clients, FetchData(c)
  PROVE  Typed'
  <1> DEFINE r == call[c]
             doc == plc[r.did]
             data == IF r.op = "update" THEN [doc EXCEPT !.others = r.data.others] ELSE doc
             fetched == [r EXCEPT !.data = data]
  <1>1. r \in Requests /\ r.account \in Accounts /\ r.did \in Dids
    BY DEF FetchData, Typed, TypeOK, Addressed
  <1>a. doc \in Documents /\ data \in Documents
    BY <1>1 DEF Typed, TypeOK, Requests, Documents
  <1> HIDE DEF data
  <1>2. /\ fetched \in Requests
        /\ fetched.account \in Accounts /\ fetched.did \in Dids
    BY <1>1, <1>a DEF Requests
  <1>3. Ends(c) \/ Goes(c, r, "save") \/ Goes(c, fetched, "prev")
    BY DEF FetchData, data
  <1>4. UNCHANGED <<plc, handles, actors, keys, exported, exchanged, requests, elsewhere, lost>>
    BY DEF FetchData, counts
  <1> HIDE DEF fetched, r
  <1>5. call' \in [Clients -> Requests]
    BY <1>1, <1>2, <1>3, GoesTypes, EndsTypes
  <1>6. Addressed'
    BY <1>1, <1>2, <1>3, <1>4, AddressStays
  <1> QED
    BY <1>4, <1>5, <1>6 DEF Typed, TypeOK

LEMMA FetchPrevTypes ==
  ASSUME Typed, NEW c \in Clients, FetchPrev(c)
  PROVE  Typed'
  <1> DEFINE r == call[c]
             name == IF r.op = "import" THEN handles[r.account] ELSE r.name
             fetched == [r EXCEPT !.prev = plc[r.did].rev, !.name = name]
  <1>1. r \in Requests /\ r.account \in Accounts /\ r.did \in Dids
    BY DEF FetchPrev, Typed, TypeOK, Addressed
  <1>2. name \in Names \cup {NoName} /\ plc[r.did].rev \in Nat
    BY <1>1 DEF Typed, TypeOK, Requests, Documents
  <1>3. Ends(c) \/ Goes(c, fetched, "publish")
    BY DEF FetchPrev
  <1> HIDE DEF name
  <1>4. /\ fetched \in Requests
        /\ fetched.account \in Accounts /\ fetched.did \in Dids
    BY <1>1, <1>2 DEF Requests
  <1>5. UNCHANGED <<plc, handles, actors, keys, exported, exchanged, requests, elsewhere, lost>>
    BY DEF FetchPrev, counts
  <1> HIDE DEF fetched, r
  <1>6. call' \in [Clients -> Requests]
    BY <1>3, <1>4, GoesTypes, EndsTypes
  <1>7. Addressed'
    <2>1. actors' = actors
      BY <1>5
    <2>2. CASE Ends(c)
      BY <1>4, <2>1, <2>2, AddressStays
    <2>3. CASE Goes(c, fetched, "publish")
      BY <1>4, <2>1, <2>3, AddressStays
    <2> QED
      BY <1>3, <2>2, <2>3
  <1> QED
    BY <1>5, <1>6, <1>7 DEF Typed, TypeOK

\* What a request publishes is a document.
LEMMA NextDocumentType ==
  ASSUME NEW r \in Requests, r.op \in {"create", "import"} => r.new # NoKey
  PROVE  NextDocument(r) \in Documents
  <1>1. NextKeys(r) \subseteq Keys
    BY DEF NextKeys, Requests, Documents
  <1> QED
    BY <1>1 DEF NextDocument, Requests, Documents
-----------------------------------------------------------------------------
(* The inductive invariant.                                                *)

\* What each kind of request has, at each of its steps.
Shape(r) ==
  /\ r.pc = "idle" <=> r.op = "none"
  /\ r.new # NoKey <=> r.op \in {"create", "import"}
  /\ r.op = "create" => r.pc \in {"publish", "save"} /\ r.key = r.new /\ r.prev = 0
  /\ r.op = "import" => r.key # NoKey
  /\ r.op = "attach" => r.pc \in {"data", "save"}
  /\ r.op = "update" => r.pc # "save"
  /\ r.op = "change" => r.name \in Names
  /\ r.op # "create" /\ r.pc = "publish" => r.prev # 0 /\ r.key \in r.data.keys
Shapes == \A c \in Clients : Shape(call[c])

\* Keys are numbered as they are generated.
Numbered ==
  /\ \A k \in exported : k <= keys
  /\ \A a \in Accounts : actors[a].key <= keys
  /\ \A c \in Clients : call[c].key <= keys /\ call[c].new <= keys

\* A generated key is its request's own until the row is saved.
OwnKeys ==
  \A c \in Clients : call[c].new # NoKey =>
    /\ call[c].new \notin exported
    /\ \A a \in Accounts : actors[a].key # call[c].new
    /\ \A e \in Clients \ {c} : call[e].new # call[c].new /\ call[e].key # call[c].new

AtMostOne(S) == \A j, k \in S : j = k

\* A document that nobody has published has no keys; the others, and what
\* requests have read of them, have one.
SingleKeys ==
  /\ \A d \in Dids : plc[d].rev = 0 => plc[d].keys = {}
  /\ \A d \in Dids : HasOneKey(d) => AtMostOne(plc[d].keys)
  /\ \A c \in Clients : HasOneKey(call[c].did) => AtMostOne(call[c].data.keys)
  /\ \A c \in Clients : call[c].pc = "prev" => plc[call[c].did].rev # 0

\* Nobody imports an actor with the key that a row keeps for it.
ImportsAreOfOthers ==
  \A c \in Clients, a \in Accounts :
    call[c].op = "import" => ~(actors[a].did = call[c].did /\ actors[a].key = call[c].key)

\* The key that a request is about to save has been published.
SavesArePublished ==
  \A c \in Clients :
    /\ call[c].pc = "save" /\ call[c].op \in {"create", "import"}
    /\ HasOneKey(call[c].did)
    => call[c].new \in plc[call[c].did].keys

Coherent ==
  /\ Shapes /\ Numbered /\ OwnKeys /\ SingleKeys
  /\ ImportsAreOfOthers /\ SavesArePublished /\ ControlKept
IInv == Typed /\ Coherent
-----------------------------------------------------------------------------
(* Requests begin.                                                         *)

\* What every new request has in common.
Asked(r) ==
  /\ r \in Requests /\ r.account \in Accounts /\ r.did \in Dids
  /\ Shape(r) /\ r.pc \in {"data", "publish"} /\ r.data.keys = {}
  /\ \/ r.new = NoKey /\ keys' = keys
     \/ r.new = keys + 1 /\ keys' = keys + 1
  /\ r.key \in {NoKey, r.new} \cup exported \cup {actors[a].key : a \in Accounts}
  /\ r.op = "import" =>
       \A a \in Accounts : ~(actors[a].did = r.did /\ actors[a].key = r.key)

LEMMA BeginAsks ==
  ASSUME Typed, NEW c \in Clients, Begin(c)
  PROVE  /\ \E r : Asked(r) /\ call' = [call EXCEPT ![c] = r]
         /\ keys' \in Keys /\ requests' \in 0..MaxRequests
         /\ UNCHANGED <<plc, handles, actors, exported, exchanged, elsewhere, lost>>
  <1> USE DEF Requests, Idle, NoDocument, Documents, Goes
  <1> DEFINE Begun ==
        /\ \E r : Asked(r) /\ call' = [call EXCEPT ![c] = r]
        /\ keys' \in Keys /\ requests < MaxRequests /\ requests' = requests + 1
        /\ UNCHANGED <<plc, handles, actors, exported, exchanged, elsewhere, lost>>
  <1>1. PICK a \in Accounts :
          \/ \E others \in 0..MaxElsewhere : Update(c, a, others)
          \/ \E n \in Names : Change(c, a, n)
          \/ \E d \in Dids, replace \in BOOLEAN :
               \/ Create(c, a, d, replace)
               \/ Attach(c, a, d, replace)
               \/ \E k \in Keys : Import(c, a, d, k, replace)
    BY DEF Begin
  <1>2. keys \in Keys /\ handles[a] \in Names /\ exported \subseteq Keys
    BY DEF Typed, TypeOK
  <1>3. keys < MaxKeys /\ Generated => keys + 1 \in Keys \ {NoKey} /\ keys' \in Keys
    BY <1>2, BoundsAreNatural DEF Generated, Keys, NoKey
  <1>4. ASSUME NEW others \in 0..MaxElsewhere, Update(c, a, others) PROVE Begun
    <2> DEFINE r == [Idle EXCEPT !.op = "update", !.account = a, !.did = actors[a].did,
                                 !.key = actors[a].key, !.name = handles[a],
                                 !.data = [NoDocument EXCEPT !.others = others], !.pc = "data"]
    <2>a. others \in Nat
      BY BoundsAreNatural
    <2>1. r \in Requests /\ r.account \in Accounts /\ r.did \in Dids
      BY <1>2, <1>4, <2>a DEF Typed, TypeOK, Addressed, Update
    <2>2. Shape(r) /\ r.pc = "data" /\ r.data.keys = {} /\ r.op = "update"
      BY DEF Shape
    <2>3. r.new = NoKey /\ keys' = keys /\ call' = [call EXCEPT ![c] = r]
      BY <1>4 DEF Update
    <2>4. r.key = actors[a].key
      OBVIOUS
    <2> HIDE DEF r, Requests, Idle, NoDocument, Documents
    <2>5. Asked(r)
      BY <2>1, <2>2, <2>3, <2>4 DEF Asked
    <2> QED
      BY <1>2, <1>4, <2>3, <2>5 DEF Update, Begins
  <1>5. ASSUME NEW n \in Names, Change(c, a, n) PROVE Begun
    <2> DEFINE r == [Idle EXCEPT !.op = "change", !.account = a, !.did = actors[a].did,
                                 !.key = actors[a].key, !.name = n, !.pc = "data"]
    <2>1. r \in Requests /\ r.account \in Accounts /\ r.did \in Dids
      BY <1>5 DEF Typed, TypeOK, Change
    <2>2. Asked(r) /\ call' = [call EXCEPT ![c] = r]
      BY <1>2, <1>5, <2>1 DEF Change, Asked, Shape
    <2> QED
      BY <1>2, <1>5, <2>2 DEF Change, Begins
  <1>6. ASSUME NEW d \in Dids, NEW replace \in BOOLEAN, Create(c, a, d, replace)
        PROVE  Begun
    <2> DEFINE r == [Idle EXCEPT !.op = "create", !.account = a, !.did = d, !.new = keys + 1,
                                 !.key = keys + 1, !.name = handles[a], !.replace = replace,
                                 !.pc = "publish"]
    <2>1. keys + 1 \in Keys \ {NoKey} /\ keys' \in Keys
      BY <1>3, <1>6 DEF Create
    <2>2. r \in Requests /\ r.account \in Accounts /\ r.did \in Dids
      BY <1>2, <2>1
    <2>3. Shape(r) /\ r.pc = "publish" /\ r.data.keys = {} /\ r.op = "create"
      BY <2>1 DEF Shape
    <2>4. r.new = keys + 1 /\ keys' = keys + 1 /\ r.key = r.new
      BY <1>6 DEF Create, Generated
    <2>5. call' = [call EXCEPT ![c] = r]
      BY <1>6 DEF Create
    <2> HIDE DEF r, Requests, Idle, NoDocument, Documents
    <2>6. Asked(r)
      BY <2>2, <2>3, <2>4 DEF Asked
    <2> QED
      BY <1>6, <2>1, <2>5, <2>6 DEF Create, Begins
  <1>7. ASSUME NEW d \in Dids, NEW replace \in BOOLEAN, Attach(c, a, d, replace)
        PROVE  Begun
    <2> DEFINE r == [Idle EXCEPT !.op = "attach", !.account = a, !.did = d,
                                 !.name = handles[a], !.replace = replace, !.pc = "data"]
    <2>1. r \in Requests /\ r.account \in Accounts /\ r.did \in Dids
      BY <1>2
    <2>2. Asked(r) /\ call' = [call EXCEPT ![c] = r]
      BY <1>2, <1>7, <2>1 DEF Attach, Asked, Shape
    <2> QED
      BY <1>2, <1>7, <2>2 DEF Attach, Begins
  <1>8. ASSUME NEW d \in Dids, NEW replace \in BOOLEAN, NEW k \in Keys,
               Import(c, a, d, k, replace)
        PROVE  Begun
    <2> DEFINE r == [Idle EXCEPT !.op = "import", !.account = a, !.did = d, !.key = k,
                                 !.new = keys + 1, !.replace = replace, !.pc = "data"]
    <2>1. keys + 1 \in Keys \ {NoKey} /\ keys' \in Keys
      BY <1>3, <1>8 DEF Import
    <2>2. r \in Requests /\ r.account \in Accounts /\ r.did \in Dids
      BY <2>1
    <2>3. k # NoKey /\ \A b \in Accounts : ~(actors[b].did = d /\ actors[b].key = k)
      BY <1>8, <1>2 DEF Import, MayHold, Keys, NoKey
    <2>4. /\ r.op = "import" /\ r.pc = "data" /\ r.data.keys = {}
          /\ r.key = k /\ r.new = keys + 1 /\ r.did = d
      OBVIOUS
    <2>5. Shape(r)
      BY <2>1, <2>3, <2>4 DEF Shape
    <2>6. k \in exported /\ keys' = keys + 1
      BY <1>8 DEF Import, Generated
    <2>7. call' = [call EXCEPT ![c] = r]
      BY <1>8 DEF Import
    <2> HIDE DEF r, Requests, Idle, NoDocument, Documents
    <2>8. Asked(r)
      BY <2>2, <2>3, <2>4, <2>5, <2>6 DEF Asked
    <2> QED
      BY <1>8, <2>1, <2>7, <2>8 DEF Import, Begins
  <1> HIDE DEF Begun
  <1>9. Begun
    BY <1>1, <1>4, <1>5, <1>6, <1>7, <1>8
  <1> HIDE DEF Requests, Idle
  <1>10. requests \in 0..MaxRequests /\ MaxRequests \in Nat
    BY BoundsAreNatural DEF Typed, TypeOK
  <1> USE DEF Begun
  <1>11. requests < MaxRequests /\ requests' = requests + 1
    BY <1>9
  <1>12. requests' \in 0..MaxRequests
    BY <1>10, <1>11
  <1> QED
    BY <1>9, <1>12
-----------------------------------------------------------------------------
(* A request that goes on, begins or ends.                                 *)

\* r may be the request of client c, when n keys have been generated.
Fits(c, r, n) ==
  /\ Shape(r)
  /\ r.key <= n /\ r.new <= n
  /\ r.new # NoKey =>
       /\ r.new \notin exported
       /\ \A a \in Accounts : actors[a].key # r.new
       /\ \A e \in Clients \ {c} : call[e].new # r.new /\ call[e].key # r.new
  /\ \A e \in Clients \ {c} : call[e].new # NoKey => r.key # call[e].new
  /\ HasOneKey(r.did) => AtMostOne(r.data.keys)
  /\ r.pc = "prev" => plc[r.did].rev # 0
  /\ r.op = "import" =>
       \A a \in Accounts : ~(actors[a].did = r.did /\ actors[a].key = r.key)
  /\ r.pc = "save" /\ r.op \in {"create", "import"} /\ HasOneKey(r.did)
       => r.new \in plc[r.did].keys

LEMMA IdleFits ==
  ASSUME IInv, NEW c \in Clients
  PROVE  Fits(c, Idle, keys)
  <1>1. keys \in Nat /\ keys >= 0
    BY BoundsAreNatural DEF IInv, Typed, TypeOK, Keys
  <1> QED
    BY <1>1 DEF IInv, Fits, Shape, Idle, NoDocument, AtMostOne, NoKey

\* Everything but the request itself stays, and keys are only added.
LEMMA CallChanges ==
  ASSUME IInv, NEW c \in Clients, NEW r, keys' \in Keys, keys <= keys',
         Fits(c, r, keys'), call' = [call EXCEPT ![c] = r],
         UNCHANGED <<plc, actors, exported, exchanged>>
  PROVE  Coherent'
  <1>0. /\ call'[c] = r
        /\ \A e \in Clients \ {c} : call'[e] = call[e]
    BY DEF IInv, Typed, TypeOK
  <1>1. Shapes'
    BY <1>0 DEF IInv, Coherent, Shapes, Fits
  <1>2. Numbered'
    <2>1. keys \in Int /\ keys' \in Int
      BY BoundsAreNatural DEF IInv, Typed, TypeOK, Keys
    <2>2. /\ \A k \in exported : k \in Int
          /\ \A a \in Accounts : actors[a].key \in Int
          /\ \A e \in Clients : call[e].key \in Int /\ call[e].new \in Int
      BY BoundsAreNatural DEF IInv, Typed, TypeOK, Keys, Requests, NoKey
    <2> QED
      BY <1>0, <2>1, <2>2 DEF IInv, Coherent, Numbered, Fits
  <1>3. OwnKeys'
    BY <1>0 DEF IInv, Coherent, OwnKeys, Fits
  <1>4. SingleKeys'
    BY <1>0 DEF IInv, Coherent, SingleKeys, Fits, HasOneKey
  <1>5. ImportsAreOfOthers'
    BY <1>0 DEF IInv, Coherent, ImportsAreOfOthers, Fits
  <1>6. SavesArePublished'
    BY <1>0 DEF IInv, Coherent, SavesArePublished, Fits, HasOneKey
  <1>7. ControlKept'
    BY DEF IInv, Coherent, ControlKept, Controlled, HasOneKey
  <1> QED
    BY <1>1, <1>2, <1>3, <1>4, <1>5, <1>6, <1>7 DEF Coherent

LEMMA BeginPreserves ==
  ASSUME IInv, NEW c \in Clients, Begin(c)
  PROVE  IInv'
  <1>0. Typed
    BY DEF IInv
  <1>1. /\ \E r : Asked(r) /\ call' = [call EXCEPT ![c] = r]
        /\ keys' \in Keys /\ requests' \in 0..MaxRequests
        /\ UNCHANGED <<plc, handles, actors, exported, exchanged, elsewhere, lost>>
    BY <1>0, BeginAsks
  <1>2. PICK r : Asked(r) /\ call' = [call EXCEPT ![c] = r]
    BY <1>1
  <1>3. Typed'
    BY <1>0, <1>1, <1>2 DEF Typed, TypeOK, Addressed, Asked
  <1>4. /\ keys \in Int /\ keys' \in Int /\ keys <= keys'
        /\ \A k \in Keys \cup {NoKey} : k \in Int
    BY <1>0, <1>1, <1>2, BoundsAreNatural DEF Typed, TypeOK, Keys, NoKey, Asked
  <1>5. /\ r.key \in Keys \cup {NoKey} /\ r.new \in Keys \cup {NoKey}
        /\ exported \subseteq Keys
        /\ \A a \in Accounts : actors[a].key \in Keys \cup {NoKey}
        /\ \A e \in Clients : /\ call[e].key \in Keys \cup {NoKey}
                              /\ call[e].new \in Keys \cup {NoKey}
    BY <1>0, <1>2 DEF Typed, TypeOK, Asked, Requests
  <1>6. r.new # NoKey => r.new = keys'
    BY <1>2 DEF Asked
  <1>7. r.key <= keys' /\ r.new <= keys'
    BY <1>2, <1>4, <1>5, <1>6 DEF Asked, IInv, Coherent, Numbered, NoKey, Keys
  <1>8. r.new # NoKey =>
          /\ r.new \notin exported
          /\ \A a \in Accounts : actors[a].key # r.new
          /\ \A e \in Clients \ {c} : call[e].new # r.new /\ call[e].key # r.new
    BY <1>2, <1>4, <1>5 DEF Asked, IInv, Coherent, Numbered
  <1>9. \A e \in Clients \ {c} : call[e].new # NoKey => r.key # call[e].new
    BY <1>2, <1>8 DEF Asked, IInv, Coherent, OwnKeys
  <1>10. Fits(c, r, keys')
    BY <1>2, <1>7, <1>8, <1>9 DEF Asked, Fits, AtMostOne
  <1>11. Coherent'
    BY <1>1, <1>2, <1>4, <1>10, CallChanges
  <1> QED
    BY <1>3, <1>11 DEF IInv

\* What a request that runs has, from the invariant.
LEMMA RunningFits ==
  ASSUME IInv, NEW c \in Clients
  PROVE  /\ call[c] \in Requests /\ Fits(c, call[c], keys)
         /\ call[c].pc # "idle" => call[c].account \in Accounts /\ call[c].did \in Dids
  BY DEF IInv, Typed, TypeOK, Addressed, Coherent, Fits, Shapes, Numbered, OwnKeys,
         SingleKeys, ImportsAreOfOthers, SavesArePublished

LEMMA FetchDataPreserves ==
  ASSUME IInv, NEW c \in Clients, FetchData(c)
  PROVE  IInv'
  <1> DEFINE r == call[c]
             doc == plc[r.did]
             data == IF r.op = "update" THEN [doc EXCEPT !.others = r.data.others] ELSE doc
             fetched == [r EXCEPT !.data = data, !.pc = "prev"]
             saving == [r EXCEPT !.pc = "save"]
  <1>0. /\ keys \in Keys /\ keys <= keys /\ keys' = keys /\ UNCHANGED <<plc, actors, exported, exchanged>>
    BY BoundsAreNatural DEF IInv, Typed, TypeOK, FetchData, Keys
  <1>1. r \in Requests /\ r.did \in Dids /\ Fits(c, r, keys) /\ r.pc = "data"
    BY RunningFits DEF FetchData
  <1>2. doc \in Documents /\ (HasOneKey(r.did) => AtMostOne(doc.keys))
    BY <1>1 DEF IInv, Typed, TypeOK, Coherent, SingleKeys
  <1>3. \/ call' = [call EXCEPT ![c] = Idle]
        \/ Compares(r) /\ call' = [call EXCEPT ![c] = saving]
        \/ ~Compares(r) /\ doc.rev # 0 /\ call' = [call EXCEPT ![c] = fetched]
    BY DEF FetchData, Goes, Ends
  <1>4. ASSUME Compares(r) PROVE Fits(c, saving, keys)
    BY <1>1, <1>4 DEF Fits, Shape, Compares, Requests
  <1>a. data.keys = doc.keys
    BY <1>2 DEF Documents
  <1> HIDE DEF data
  <1>5. ASSUME ~Compares(r), doc.rev # 0 PROVE Fits(c, fetched, keys)
    BY <1>1, <1>2, <1>a, <1>5 DEF Fits, Shape, Compares, Requests
  <1> HIDE DEF fetched, saving
  <1>6. Coherent'
    BY <1>0, <1>3, <1>4, <1>5, IdleFits, CallChanges
  <1>7. Typed'
    BY FetchDataTypes DEF IInv
  <1> QED
    BY <1>6, <1>7 DEF IInv

LEMMA FetchPrevPreserves ==
  ASSUME IInv, NEW c \in Clients, FetchPrev(c)
  PROVE  IInv'
  <1> DEFINE r == call[c]
             name == IF r.op = "import" THEN handles[r.account] ELSE r.name
             fetched == [r EXCEPT !.prev = plc[r.did].rev, !.name = name, !.pc = "publish"]
  <1>0. /\ keys \in Keys /\ keys <= keys /\ keys' = keys /\ UNCHANGED <<plc, actors, exported, exchanged>>
    BY BoundsAreNatural DEF IInv, Typed, TypeOK, FetchPrev, Keys
  <1>1. r \in Requests /\ r.did \in Dids /\ Fits(c, r, keys) /\ r.pc = "prev"
    BY RunningFits DEF FetchPrev
  <1>2. \/ call' = [call EXCEPT ![c] = Idle]
        \/ r.key \in r.data.keys /\ call' = [call EXCEPT ![c] = fetched]
    BY DEF FetchPrev, Goes, Ends
  <1>a. r.op # "import" => name = r.name
    OBVIOUS
  <1> HIDE DEF name
  <1>3. ASSUME r.key \in r.data.keys PROVE Fits(c, fetched, keys)
    BY <1>1, <1>a, <1>3 DEF Fits, Shape, Requests
  <1> HIDE DEF fetched
  <1>4. Coherent'
    BY <1>0, <1>2, <1>3, IdleFits, CallChanges
  <1>5. Typed'
    BY FetchPrevTypes DEF IInv
  <1> QED
    BY <1>4, <1>5 DEF IInv
-----------------------------------------------------------------------------
(* A request publishes, and saves its row.                                 *)

LEMMA PublishTypes ==
  ASSUME IInv, NEW c \in Clients, Publish(c)
  PROVE  Typed'
  <1> DEFINE r == call[c]
  <1>1. r \in Requests /\ r.account \in Accounts /\ r.did \in Dids /\ Shape(r)
    BY RunningFits DEF Publish, Fits
  <1>2. NextDocument(r) \in Documents
    BY <1>1, NextDocumentType DEF Shape
  <1>3. plc' \in [Dids -> Documents]
    BY <1>1, <1>2 DEF Publish, IInv, Typed, TypeOK
  <1>4. Goes(c, r, "save") \/ Ends(c)
    BY DEF Publish
  <1>5. UNCHANGED <<handles, actors, keys, exported, exchanged, requests, elsewhere>>
    BY DEF Publish
  <1>6. lost' \in 0..MaxLost
    <2>1. MaxLost \in Nat /\ lost \in 0..MaxLost
      BY BoundsAreNatural DEF IInv, Typed, TypeOK
    <2>2. lost' = lost \/ (lost < MaxLost /\ lost' = lost + 1)
      BY DEF Publish, Goes, Ends
    <2> QED
      BY <2>1, <2>2
  <1> HIDE DEF r
  <1>7. call' \in [Clients -> Requests]
    BY <1>1, <1>4, GoesTypes, EndsTypes DEF IInv
  <1>8. Addressed'
    BY <1>1, <1>4, <1>5, AddressStays DEF IInv
  <1> QED
    BY <1>3, <1>5, <1>6, <1>7, <1>8 DEF IInv, Typed, TypeOK

\* The step of publishing: what the other documents, requests and rows keep.
LEMMA PublishPreserves ==
  ASSUME IInv, NEW c \in Clients, Publish(c)
  PROVE  IInv'
  <1> DEFINE r == call[c]
             saving == [r EXCEPT !.pc = "save"]
             good == plc[r.did].rev = r.prev /\ (r.prev = 0 \/ r.key \in plc[r.did].keys)
  <1>0. /\ keys \in Keys /\ keys <= keys /\ keys' = keys /\ UNCHANGED <<actors, exported, exchanged>>
    BY BoundsAreNatural DEF IInv, Typed, TypeOK, Publish, Keys
  <1>1. r \in Requests /\ r.did \in Dids /\ Fits(c, r, keys) /\ r.pc = "publish"
    BY RunningFits DEF Publish
  <1>2. \/ plc' = plc /\ call' = [call EXCEPT ![c] = Idle]
        \/ /\ good /\ plc' = [plc EXCEPT ![r.did] = NextDocument(r)]
           /\ call' = [call EXCEPT ![c] = Idle] \/ (r.op # "update" /\ call' = [call EXCEPT ![c] = saving])
    BY DEF Publish, Goes, Ends
  <1>3. Typed'
    BY PublishTypes
  <1>4. CASE plc' = plc /\ call' = [call EXCEPT ![c] = Idle]
    <2>1. Coherent'
      BY <1>0, <1>4, IdleFits, CallChanges
    <2> QED
      BY <1>3, <2>1 DEF IInv
  <1>5. ASSUME good, plc' = [plc EXCEPT ![r.did] = NextDocument(r)],
               \/ call' = [call EXCEPT ![c] = Idle]
               \/ r.op # "update" /\ call' = [call EXCEPT ![c] = saving]
        PROVE  Coherent'
    <2>1. /\ NextDocument(r).keys = NextKeys(r) /\ NextDocument(r).rev # 0
      BY <1>1 DEF NextDocument, Requests
    <2>2. /\ plc \in [Dids -> Documents]
          /\ plc'[r.did] = NextDocument(r)
          /\ \A d \in Dids \ {r.did} : plc'[d] = plc[d]
      BY <1>1, <1>5 DEF IInv, Typed, TypeOK
    \* The one key of the document before is the one that signed.
    <2>3. ASSUME HasOneKey(r.did), NEW k \in plc[r.did].keys PROVE r.op # "create" /\ k = r.key
      BY <1>1, <1>5, <2>3 DEF IInv, Coherent, SingleKeys, Fits, Shape, AtMostOne
    <2>4. ASSUME HasOneKey(r.did) PROVE AtMostOne(NextKeys(r))
      BY <1>1, <2>4 DEF Fits, Shape, NextKeys, AtMostOne
    <2>5. r.op \in {"create", "import"} => r.new \in NextKeys(r)
      BY DEF NextKeys
    <2>6. \A e \in Clients : \/ e # c /\ call'[e] = call[e]
                             \/ e = c /\ (call'[e] = Idle \/ (r.op # "update" /\ call'[e] = saving))
      BY <1>5 DEF IInv, Typed, TypeOK
    <2>7. /\ saving.pc = "save" /\ saving.op = r.op /\ saving.did = r.did
          /\ saving.key = r.key /\ saving.new = r.new /\ saving.data = r.data
          /\ saving.prev = r.prev /\ saving.name = r.name
      BY <1>1 DEF Requests
    <2>8. r.op # "update" => Shape(saving)
      <3>1. r.op # "attach" /\ r.op # "none" /\ Shape(r)
        BY <1>1 DEF Fits, Shape
      <3> HIDE DEF saving
      <3> QED
        BY <2>7, <3>1 DEF Shape
    <2> HIDE DEF saving
    <2>9. Shapes'
      BY <1>5, <2>6, <2>8, IdleFits DEF IInv, Coherent, Shapes, Fits
    <2>10. Numbered'
      BY <1>0, <2>6, <2>7, IdleFits DEF IInv, Coherent, Numbered, Fits
    <2>11. OwnKeys'
      BY <1>0, <2>6, <2>7, IdleFits DEF IInv, Coherent, OwnKeys, Fits
    <2>12. SingleKeys'
      <3>1. ASSUME NEW e \in Clients
            PROVE  /\ HasOneKey(call'[e].did) => AtMostOne(call'[e].data.keys)
                   /\ call'[e].pc = "prev" => call[e].pc = "prev" /\ call'[e].did = call[e].did
        BY <2>6, <2>7, IdleFits DEF IInv, Coherent, SingleKeys, Fits, Idle
      <3>2. ASSUME NEW d \in Dids
            PROVE  /\ plc'[d].rev = 0 => plc'[d].keys = {}
                   /\ HasOneKey(d) => AtMostOne(plc'[d].keys)
                   /\ plc[d].rev # 0 => plc'[d].rev # 0
        BY <2>1, <2>2, <2>4 DEF IInv, Coherent, SingleKeys
      <3>3. \A e \in Clients : call[e].pc = "prev" => call[e].did \in Dids /\ plc[call[e].did].rev # 0
        BY DEF IInv, Typed, Addressed, Coherent, SingleKeys
      <3> QED
        BY <3>1, <3>2, <3>3 DEF SingleKeys, HasOneKey
    <2>13. ImportsAreOfOthers'
      BY <1>0, <2>6, <2>7, IdleFits DEF IInv, Coherent, ImportsAreOfOthers, Fits
    <2>14. SavesArePublished'
      <3> SUFFICES ASSUME NEW e \in Clients, call'[e].pc = "save",
                          call'[e].op \in {"create", "import"}, HasOneKey(call'[e].did)
                   PROVE  call'[e].new \in plc'[call'[e].did].keys
        BY DEF SavesArePublished, HasOneKey
      <3>1. CASE e = c
        BY <1>5, <2>1, <2>2, <2>5, <2>6, <2>7, <3>1 DEF Idle
      <3>2. CASE e # c /\ call[e].did # r.did
        BY <2>2, <2>6, <3>2 DEF IInv, Typed, Addressed, Coherent, SavesArePublished
      <3>3. ASSUME e # c, call[e].did = r.did PROVE FALSE
        <4>1. call[e].new \in plc[r.did].keys /\ HasOneKey(r.did)
          BY <2>6, <3>3 DEF IInv, Coherent, SavesArePublished
        <4>2. call[e].new # NoKey /\ call[e].new # r.key
          BY <2>6, <3>3, RunningFits DEF Fits, Shape
        <4> QED
          BY <2>3, <4>1, <4>2
      <3> QED
        BY <3>1, <3>2, <3>3
    <2>15. ControlKept'
      <3> SUFFICES ASSUME NEW a \in Accounts, HasOneKey(actors[a].did), actors[a].key # NoKey,
                          actors[a].key \notin exchanged
                   PROVE  actors[a].key \in plc'[actors[a].did].keys
        BY <1>0 DEF ControlKept, Controlled, HasOneKey
      <3>1. actors[a].did \in Dids /\ actors[a].key \in plc[actors[a].did].keys
        BY DEF IInv, Typed, Addressed, Coherent, ControlKept, Controlled
      <3>2. CASE actors[a].did = r.did
        <4>1. r.op # "create" /\ actors[a].key = r.key
          BY <2>3, <3>1, <3>2
        <4>2. r.op # "import"
          BY <1>1, <3>2, <4>1 DEF Fits
        <4>3. r.key \in NextKeys(r)
          BY <1>1, <4>1, <4>2 DEF Fits, Shape, NextKeys
        <4> QED
          BY <2>1, <2>2, <3>2, <4>1, <4>3
      <3> QED
        BY <2>2, <3>1, <3>2
    <2> QED
      BY <2>9, <2>10, <2>11, <2>12, <2>13, <2>14, <2>15 DEF Coherent
  <1> QED
    BY <1>2, <1>3, <1>4, <1>5 DEF IInv

LEMMA SaveTypes ==
  ASSUME IInv, NEW c \in Clients, Save(c)
  PROVE  Typed'
  <1> DEFINE r == call[c]
             row == [did |-> r.did, key |-> IF r.op = "attach" THEN NoKey ELSE r.new]
  <1>1. r \in Requests /\ r.account \in Accounts /\ r.did \in Dids /\ Shape(r) /\ r.pc = "save"
    BY RunningFits DEF Save, Fits
  <1>2. /\ row \in [did : Dids \cup {NoDid}, key : Keys \cup {NoKey}]
        /\ row.did \in Dids
    BY <1>1 DEF Requests
  <1>3. /\ UNCHANGED <<plc, keys, exported, exchanged, requests, elsewhere, lost>> /\ Ends(c)
        /\ \/ actors' = actors
           \/ actors' = [actors EXCEPT ![r.account] = row]
    BY <1>1 DEF Save, counts, IInv, Typed, TypeOK
  <1>4. handles' \in [Accounts -> Names]
    <2>1. r.op = "change" => r.name \in Names
      BY <1>1 DEF Shape
    <2> QED
      BY <1>1, <2>1 DEF Save, IInv, Typed, TypeOK
  <1> HIDE DEF row
  <1>5. actors' \in [Accounts -> [did : Dids \cup {NoDid}, key : Keys \cup {NoKey}]]
    BY <1>1, <1>2, <1>3 DEF IInv, Typed, TypeOK
  <1>6. call' \in [Clients -> Requests]
    BY <1>3, EndsTypes DEF IInv
  <1>7. \A e \in Clients : call'[e] = call[e] \/ call'[e] = Idle
    BY <1>3 DEF Ends, IInv, Typed, TypeOK
  <1>8. Addressed'
    <2>1. Addressed /\ actors \in [Accounts -> [did : Dids \cup {NoDid}, key : Keys \cup {NoKey}]]
      BY DEF IInv, Typed, TypeOK
    <2>2. ASSUME NEW e \in Clients, call'[e].pc # "idle"
          PROVE  call'[e].account \in Accounts /\ call'[e].did \in Dids
      <3>1. call'[e] = call[e]
        BY <1>7, <2>2 DEF Idle
      <3> QED BY <2>1, <2>2, <3>1 DEF Addressed
    <2>3. ASSUME NEW b \in Accounts, actors'[b].key # NoKey
          PROVE  actors'[b].did \in Dids
      <3>1. actors'[b] = actors[b] \/ actors'[b] = row
        BY <1>1, <1>3, <2>1
      <3> QED BY <1>2, <2>1, <2>3, <3>1 DEF Addressed
    <2> QED BY <2>2, <2>3 DEF Addressed
  <1> QED
    BY <1>3, <1>4, <1>5, <1>6, <1>8 DEF IInv, Typed, TypeOK

LEMMA SavePreserves ==
  ASSUME IInv, NEW c \in Clients, Save(c)
  PROVE  IInv'
  <1> DEFINE r == call[c]
             row == [did |-> r.did, key |-> IF r.op = "attach" THEN NoKey ELSE r.new]
  <1>1. r \in Requests /\ r.account \in Accounts /\ Fits(c, r, keys) /\ r.pc = "save"
    BY RunningFits DEF Save
  <1>2. /\ UNCHANGED <<plc, keys, exported, exchanged>> /\ call' = [call EXCEPT ![c] = Idle]
        /\ \/ actors' = actors
           \/ r.op # "change" /\ actors' = [actors EXCEPT ![r.account] = row]
    BY <1>1 DEF Save, Ends, IInv, Typed, TypeOK
  <1>3. Typed'
    BY SaveTypes
  <1>4. CASE actors' = actors
    <2>1. keys \in Keys /\ keys' \in Keys /\ keys <= keys'
      BY <1>2, BoundsAreNatural DEF IInv, Typed, TypeOK, Keys
    <2>2. Coherent'
      BY <1>2, <1>4, <2>1, IdleFits, CallChanges
    <2> QED
      BY <1>3, <2>2 DEF IInv
  <1>5. ASSUME r.op # "change", actors' = [actors EXCEPT ![r.account] = row]
        PROVE  Coherent'
    <2>1. /\ actors'[r.account] = row
          /\ \A a \in Accounts \ {r.account} : actors'[a] = actors[a]
          /\ call'[c] = Idle /\ \A e \in Clients \ {c} : call'[e] = call[e]
      BY <1>1, <1>2, <1>5 DEF IInv, Typed, TypeOK
    \* The key of the row is the one that the request generated, or none.
    <2>2. /\ row.did = r.did
          /\ row.key = NoKey \/ (row.key = r.new /\ r.op \in {"create", "import"})
      BY <1>1, <1>5 DEF Fits, Shape, Requests
    <2>3. row.key <= keys
      BY <1>1, <2>2 DEF Fits, Shape
    <2> HIDE DEF row
    <2>4. Shapes'
      BY <2>1, IdleFits DEF IInv, Coherent, Shapes, Fits
    <2>5. Numbered'
      BY <1>2, <2>1, <2>3, IdleFits DEF IInv, Coherent, Numbered, Fits
    <2>6. OwnKeys'
      BY <1>1, <1>2, <2>1, <2>2 DEF IInv, Coherent, OwnKeys, Fits, Idle
    <2>7. SingleKeys'
      BY <1>2, <2>1, IdleFits DEF IInv, Coherent, SingleKeys, Fits, HasOneKey
    <2>8. ImportsAreOfOthers'
      <3> SUFFICES ASSUME NEW e \in Clients, NEW a \in Accounts, call'[e].op = "import",
                          actors'[a].did = call'[e].did, actors'[a].key = call'[e].key
                   PROVE  FALSE
        BY DEF ImportsAreOfOthers
      <3>1. e # c /\ call'[e] = call[e] /\ call[e].key # NoKey
        BY <2>1, RunningFits DEF Idle, Fits, Shape
      <3>2. a = r.account /\ call[e].key = r.new
        BY <2>1, <2>2, <3>1 DEF IInv, Coherent, ImportsAreOfOthers
      <3> QED
        BY <1>1, <3>1, <3>2 DEF Fits
    <2>9. SavesArePublished'
      BY <1>2, <2>1 DEF IInv, Coherent, SavesArePublished, HasOneKey, Idle
    <2>10. ControlKept'
      <3> SUFFICES ASSUME NEW a \in Accounts, HasOneKey(actors'[a].did), actors'[a].key # NoKey,
                          actors'[a].key \notin exchanged
                   PROVE  actors'[a].key \in plc[actors'[a].did].keys
        BY <1>2 DEF ControlKept, Controlled, HasOneKey
      <3>1. CASE a = r.account
        BY <1>1, <2>1, <2>2, <3>1 DEF Fits
      <3>2. CASE a # r.account
        BY <2>1, <3>2 DEF IInv, Coherent, ControlKept, Controlled
      <3> QED
        BY <3>1, <3>2
    <2> QED
      BY <2>4, <2>5, <2>6, <2>7, <2>8, <2>9, <2>10 DEF Coherent
  <1> QED
    BY <1>2, <1>3, <1>4, <1>5 DEF IInv
-----------------------------------------------------------------------------
(* The other steps.                                                        *)

LEMMA ExportPreserves ==
  ASSUME IInv, NEW a \in Accounts, Export(a)
  PROVE  IInv'
  <1>1. /\ exported' = exported \cup {actors[a].key} /\ actors[a].key # NoKey
        /\ UNCHANGED <<plc, handles, actors, keys, exchanged, call, requests, elsewhere, lost>>
    BY DEF Export, counts
  <1>2. Typed'
    BY <1>1 DEF IInv, Typed, TypeOK, Addressed
  <1>3. Numbered'
    BY <1>1 DEF IInv, Coherent, Numbered
  <1>4. OwnKeys'
    BY <1>1 DEF IInv, Coherent, OwnKeys
  <1>5. Shapes' /\ SingleKeys' /\ ImportsAreOfOthers' /\ SavesArePublished' /\ ControlKept'
    BY <1>1 DEF IInv, Coherent, Shapes, SingleKeys, ImportsAreOfOthers, SavesArePublished,
                ControlKept, Controlled, HasOneKey
  <1> QED
    BY <1>2, <1>3, <1>4, <1>5 DEF IInv, Coherent

LEMMA RemoveKeyPreserves ==
  ASSUME IInv, NEW a \in Accounts, RemoveKey(a)
  PROVE  IInv'
  <1>1. /\ actors' = [actors EXCEPT ![a].key = NoKey]
        /\ requests < MaxRequests /\ requests' = requests + 1
        /\ UNCHANGED <<plc, handles, keys, exported, exchanged, call, elsewhere, lost>>
    BY DEF RemoveKey
  <1>2. actors' \in [Accounts -> [did : Dids \cup {NoDid}, key : Keys \cup {NoKey}]]
    BY <1>1 DEF IInv, Typed, TypeOK
  <1>3. \A b \in Accounts : /\ actors'[b].did = actors[b].did
                            /\ actors'[b].key = actors[b].key \/ actors'[b].key = NoKey
    BY <1>1 DEF IInv, Typed, TypeOK
  <1>4. requests' \in 0..MaxRequests
    BY <1>1, BoundsAreNatural DEF IInv, Typed, TypeOK
  <1>5. Typed'
    BY <1>1, <1>2, <1>3, <1>4 DEF IInv, Typed, TypeOK, Addressed
  <1>6. Numbered'
    <2>1. NoKey <= keys
      BY BoundsAreNatural DEF IInv, Typed, TypeOK, Keys, NoKey
    <2> QED
      BY <1>1, <1>3, <2>1 DEF IInv, Coherent, Numbered
  <1>7. OwnKeys'
    BY <1>1, <1>3 DEF IInv, Coherent, OwnKeys
  <1>8. ImportsAreOfOthers'
    BY <1>1, <1>3, RunningFits DEF IInv, Coherent, ImportsAreOfOthers, Fits, Shape
  <1>9. Shapes' /\ SingleKeys' /\ SavesArePublished'
    BY <1>1 DEF IInv, Coherent, Shapes, SingleKeys, SavesArePublished, HasOneKey
  <1>10. ControlKept'
    BY <1>1, <1>3 DEF IInv, Coherent, ControlKept, Controlled, HasOneKey
  <1> QED
    BY <1>5, <1>6, <1>7, <1>8, <1>9, <1>10 DEF IInv, Coherent

LEMMA ElsewherePreserves ==
  ASSUME IInv, NEW d \in Dids, Elsewhere(d)
  PROVE  IInv'
  <1>1. /\ elsewhere < MaxElsewhere /\ elsewhere' = elsewhere + 1
        /\ UNCHANGED <<handles, actors, keys, exported, exchanged, call, requests, lost>>
    BY DEF Elsewhere
  <1>a. plc \in [Dids -> Documents] /\ plc[d] \in Documents /\ plc[d].rev + 1 \in Nat \ {0}
    BY DEF IInv, Typed, TypeOK, Documents
  <1>b. PICK x \in Documents : /\ plc' = [plc EXCEPT ![d] = x]
                              /\ x.keys = plc[d].keys /\ x.rev # 0
    <2>1. CASE plc' = [plc EXCEPT ![d].rev = @ + 1, ![d].others = @ + 1]
      <3>1. PICK y \in Documents : y = plc[d]
        BY <1>a
      <3>2. PICK x : x = [y EXCEPT !.rev = @ + 1, !.others = @ + 1]
        OBVIOUS
      <3>3. y.rev + 1 \in Nat \ {0} /\ y.keys \in SUBSET Keys /\ y.others + 1 \in Nat
            /\ y.others \in Nat /\ y.handle \in Names \cup {NoName}
        BY <1>a, <3>1 DEF Documents
      <3>4. x \in Documents /\ x.keys = y.keys /\ x.rev # 0
        <4>1. x = [rev |-> y.rev + 1, keys |-> y.keys, handle |-> y.handle,
                   others |-> y.others + 1]
          BY <3>1, <3>2 DEF Documents
        <4> QED BY <3>3, <4>1 DEF Documents
      <3>5. plc' = [plc EXCEPT ![d] = x]
        BY <1>a, <2>1, <3>1, <3>2
      <3> QED BY <3>1, <3>4, <3>5
    <2>2. ASSUME NEW n \in Names, plc' = [plc EXCEPT ![d].rev = @ + 1, ![d].handle = n]
          PROVE  \E x \in Documents : /\ plc' = [plc EXCEPT ![d] = x]
                                      /\ x.keys = plc[d].keys /\ x.rev # 0
      <3>1. PICK y \in Documents : y = plc[d]
        BY <1>a
      <3>2. PICK x : x = [y EXCEPT !.rev = @ + 1, !.handle = n]
        OBVIOUS
      <3>3. y.rev + 1 \in Nat \ {0} /\ y.keys \in SUBSET Keys /\ y.others + 1 \in Nat
            /\ y.others \in Nat /\ y.handle \in Names \cup {NoName}
        BY <1>a, <3>1 DEF Documents
      <3>4. x \in Documents /\ x.keys = y.keys /\ x.rev # 0
        <4>1. x = [rev |-> y.rev + 1, keys |-> y.keys, handle |-> n,
                   others |-> y.others]
          BY <3>1, <3>2 DEF Documents
        <4> QED BY <3>3, <4>1, <2>2 DEF Documents
      <3>5. plc' = [plc EXCEPT ![d] = x]
        BY <1>a, <2>2, <3>1, <3>2
      <3> QED BY <3>1, <3>4, <3>5
    <2> QED BY <2>1, <2>2 DEF Elsewhere
  <1>2. plc' \in [Dids -> Documents]
    BY <1>a, <1>b
  <1>3. \A e \in Dids : /\ plc'[e].keys = plc[e].keys
                        /\ plc'[e].rev = plc[e].rev \/ plc'[e].rev # 0
    BY <1>a, <1>b
  <1>4. elsewhere' \in 0..MaxElsewhere
    BY <1>1, BoundsAreNatural DEF IInv, Typed, TypeOK
  <1>5. Typed'
    BY <1>1, <1>2, <1>4 DEF IInv, Typed, TypeOK, Addressed
  <1>6. \A c \in Clients : call[c].pc # "idle" => call[c].did \in Dids
    BY DEF IInv, Typed, Addressed
  <1>7. SingleKeys'
    BY <1>1, <1>3, <1>6 DEF IInv, Coherent, SingleKeys, HasOneKey, AtMostOne
  <1>8. SavesArePublished'
    BY <1>1, <1>3, <1>6 DEF IInv, Coherent, SavesArePublished, HasOneKey
  <1>9. ControlKept'
    BY <1>1, <1>3 DEF IInv, Typed, Addressed, Coherent, ControlKept, Controlled, HasOneKey
  <1>10. Shapes' /\ Numbered' /\ OwnKeys' /\ ImportsAreOfOthers'
    BY <1>1 DEF IInv, Coherent, Shapes, Numbered, OwnKeys, ImportsAreOfOthers
  <1> QED
    BY <1>5, <1>7, <1>8, <1>9, <1>10 DEF IInv, Coherent

\* The key that another provider replaces was exported: no request has made it.
LEMMA ImportElsewherePreserves ==
  ASSUME IInv, NEW d \in Dids, NEW k \in Keys, NEW n \in Names, ImportElsewhere(d, k, n)
  PROVE  IInv'
  <1> DEFINE new == keys + 1
             doc == [plc[d] EXCEPT !.rev = @ + 1, !.handle = n, !.keys = (@ \ {k}) \cup {new}]
  <1>1. /\ elsewhere < MaxElsewhere /\ elsewhere' = elsewhere + 1
        /\ k \in plc[d].keys /\ k \in exported /\ keys < MaxKeys /\ keys' = new
        /\ exported' = exported \cup {new} /\ exchanged' = exchanged \cup {k}
        /\ UNCHANGED <<handles, actors, call, requests, lost>>
    BY DEF ImportElsewhere, Generated
  <1>2. /\ keys \in Keys /\ exported \subseteq Keys /\ exchanged \subseteq exported
        /\ plc \in [Dids -> Documents]
    BY DEF IInv, Typed, TypeOK
  <1>3. new \in Keys /\ keys \in Int /\ keys <= new /\ ~(new <= keys)
    BY <1>1, <1>2, BoundsAreNatural DEF Keys
  <1>4. /\ plc' = [plc EXCEPT ![d] = doc] /\ plc[d] \in Documents
    BY <1>2 DEF ImportElsewhere, Documents
  <1>a. PICK p : p = plc[d]
    OBVIOUS
  <1>b. /\ p \in Documents /\ p.rev \in Nat /\ p.keys \subseteq Keys
        /\ doc = [p EXCEPT !.rev = p.rev + 1, !.handle = n, !.keys = (p.keys \ {k}) \cup {new}]
    BY <1>4, <1>a DEF Documents
  <1>5. /\ doc \in Documents /\ doc.rev # 0 /\ doc.keys = (plc[d].keys \ {k}) \cup {new}
    <2>1. PICK ks, v : ks = (p.keys \ {k}) \cup {new} /\ v = p.rev + 1
      OBVIOUS
    <2>2. ks \subseteq Keys /\ v \in Nat /\ v # 0
      BY <1>3, <1>b, <2>1
    <2>3. doc = [p EXCEPT !.rev = v, !.handle = n, !.keys = ks]
      BY <1>b, <2>1
    <2> QED
      BY <1>a, <1>b, <2>1, <2>2, <2>3 DEF Documents
  <1> HIDE DEF doc, new
  <1>6. /\ plc' \in [Dids -> Documents] /\ plc'[d] = doc
        /\ \A e \in Dids \ {d} : plc'[e] = plc[e]
    BY <1>2, <1>4, <1>5
  <1>7. elsewhere' \in 0..MaxElsewhere
    BY <1>1, BoundsAreNatural DEF IInv, Typed, TypeOK
  <1>8. exported' \subseteq Keys /\ exchanged' \subseteq exported' /\ keys' \in Keys
    BY <1>1, <1>2, <1>3
  <1>9. Typed'
    BY <1>1, <1>6, <1>7, <1>8 DEF IInv, Typed, TypeOK, Addressed
  <1>10. \A j \in Keys \cup {NoKey} : j \in Int
    BY BoundsAreNatural DEF Keys, NoKey
  <1>11. /\ \A a \in Accounts : actors[a].key \in Keys \cup {NoKey} /\ actors[a].key <= keys
         /\ \A c \in Clients : /\ call[c].key \in Keys \cup {NoKey} /\ call[c].key <= keys
                               /\ call[c].new \in Keys \cup {NoKey} /\ call[c].new <= keys
         /\ \A j \in exported : j <= keys
    BY DEF IInv, Typed, TypeOK, Coherent, Numbered, Requests
  <1>12. Numbered'
    <2>1. \A j \in Keys \cup {NoKey} : j <= keys => j <= new
      BY <1>3, <1>10
    <2>2. \A j \in exported' : j <= new
      BY <1>1, <1>2, <1>3, <1>11, <2>1
    <2> QED
      BY <1>1, <1>11, <2>1, <2>2 DEF Numbered
  <1>13. \A c \in Clients : call[c].new # new
    BY <1>3, <1>11
  <1>14. OwnKeys'
    BY <1>1, <1>13 DEF IInv, Coherent, OwnKeys
  <1>15. \A c \in Clients : call[c].pc # "idle" => call[c].did \in Dids
    BY DEF IInv, Typed, Addressed
  <1>16. SingleKeys'
    <2>1. ASSUME NEW e \in Dids
          PROVE  /\ plc'[e].rev = 0 => plc'[e].keys = {}
                 /\ HasOneKey(e) => AtMostOne(plc'[e].keys)
                 /\ plc[e].rev # 0 => plc'[e].rev # 0
      <3>1. CASE e # d
        BY <1>6, <3>1 DEF IInv, Coherent, SingleKeys
      <3>2. CASE e = d
        <4>1. HasOneKey(d) => AtMostOne(doc.keys)
          BY <1>1, <1>5 DEF IInv, Coherent, SingleKeys, AtMostOne
        <4> QED
          BY <1>5, <1>6, <3>2, <4>1
      <3> QED
        BY <3>1, <3>2
    <2> QED
      BY <1>1, <1>15, <2>1 DEF IInv, Coherent, SingleKeys, HasOneKey
  <1>17. SavesArePublished'
    <2> SUFFICES ASSUME NEW c \in Clients, call[c].pc = "save",
                        call[c].op \in {"create", "import"}, HasOneKey(call[c].did)
                 PROVE  call[c].new \in plc'[call[c].did].keys
      BY <1>1 DEF SavesArePublished, HasOneKey
    <2>1. call[c].new \in plc[call[c].did].keys /\ call[c].did \in Dids
      BY <1>15 DEF IInv, Coherent, SavesArePublished
    <2>2. call[c].new \notin exported
      BY RunningFits DEF Fits, Shape
    <2> QED
      BY <1>1, <1>5, <1>6, <2>1, <2>2
  <1>18. ControlKept'
    <2> SUFFICES ASSUME NEW a \in Accounts, HasOneKey(actors[a].did), actors[a].key # NoKey,
                        actors[a].key \notin exchanged'
                 PROVE  actors[a].key \in plc'[actors[a].did].keys
      BY <1>1 DEF ControlKept, Controlled, HasOneKey
    <2>1. actors[a].did \in Dids /\ actors[a].key \in plc[actors[a].did].keys /\ actors[a].key # k
      BY <1>1 DEF IInv, Typed, Addressed, Coherent, ControlKept, Controlled
    <2> QED
      BY <1>5, <1>6, <2>1
  <1>19. Shapes' /\ ImportsAreOfOthers'
    BY <1>1 DEF IInv, Coherent, Shapes, ImportsAreOfOthers
  <1> QED
    BY <1>9, <1>12, <1>14, <1>16, <1>17, <1>18, <1>19 DEF IInv, Coherent

LEMMA InitInvariant == Init => IInv
  <1> SUFFICES ASSUME Init PROVE IInv
    OBVIOUS
  <1>1. Typed
    BY InitTypes
  <1>2. FirstKeys \in Nat /\ FirstKeys > 0
    BY BoundsAreNatural
  <1>3. Shapes /\ OwnKeys /\ ImportsAreOfOthers /\ SavesArePublished /\ ControlKept
    BY DEF Init, Shapes, Shape, OwnKeys, ImportsAreOfOthers, SavesArePublished,
           ControlKept, Controlled, Idle, NoActor, NoKey
  <1>4. Numbered
    BY <1>2 DEF Init, Numbered, Idle, NoActor, NoKey
  <1>5. SingleKeys
    <2>1. ASSUME NEW d \in Dids
          PROVE  /\ plc[d].rev = 0 => plc[d].keys = {}
                 /\ HasOneKey(d) => AtMostOne(plc[d].keys)
      BY <1>2 DEF Init, HasOneKey, AtMostOne, NoDocument
    <2>2. ASSUME NEW c \in Clients
          PROVE  /\ AtMostOne(call[c].data.keys) /\ call[c].pc # "prev"
      BY DEF Init, AtMostOne, Idle, NoDocument
    <2> QED
      BY <2>1, <2>2 DEF SingleKeys
  <1> QED
    BY <1>1, <1>3, <1>4, <1>5 DEF IInv, Coherent

LEMMA NextInvariant == IInv /\ [Next]_vars => IInv'
  <1> SUFFICES ASSUME IInv, [Next]_vars PROVE IInv'
    OBVIOUS
  <1>1. ASSUME NEW c \in Clients, Begin(c) PROVE IInv'
    BY <1>1, BeginPreserves
  <1>2. ASSUME NEW c \in Clients, FetchData(c) \/ FetchPrev(c) PROVE IInv'
    BY <1>2, FetchDataPreserves, FetchPrevPreserves
  <1>3. ASSUME NEW c \in Clients, Publish(c) \/ Save(c) PROVE IInv'
    BY <1>3, PublishPreserves, SavePreserves
  <1>4. ASSUME NEW a \in Accounts, Export(a) \/ RemoveKey(a) PROVE IInv'
    BY <1>4, ExportPreserves, RemoveKeyPreserves
  <1>5. ASSUME NEW d \in Dids, \/ Elsewhere(d)
                              \/ \E k \in Keys, n \in Names : ImportElsewhere(d, k, n)
        PROVE  IInv'
    BY <1>5, ElsewherePreserves, ImportElsewherePreserves
  <1>6. ASSUME UNCHANGED vars PROVE IInv'
    BY <1>6 DEF vars, IInv, Typed, TypeOK, Addressed, Coherent, Shapes, Numbered, OwnKeys,
                SingleKeys, ImportsAreOfOthers, SavesArePublished, ControlKept, Controlled,
                HasOneKey
  <1> QED
    BY <1>1, <1>2, <1>3, <1>4, <1>5, <1>6 DEF Next

-----------------------------------------------------------------------------
\* The types of management.ts hold for any number of accounts, actors and requests.
THEOREM ActorTypes == Spec => []TypeOK
  <1>1. IInv => TypeOK
    BY DEF IInv, Typed
  <1> QED
    BY InitInvariant, NextInvariant, <1>1, PTL DEF Spec

\* A key that saveActor() has stored controls the actor's document in the
\* directory, whatever requests, other services and lost answers come between,
\* unless it was exported and another provider has exchanged it, as long as nobody
\* else has given the document a second key.
THEOREM KeysStayInControl == Spec => []ControlKept
  <1>1. IInv => ControlKept
    BY DEF IInv, Coherent
  <1> QED
    BY InitInvariant, NextInvariant, <1>1, PTL DEF Spec
=============================================================================
