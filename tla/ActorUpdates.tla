--------------------------- MODULE ActorUpdates ---------------------------
(***************************************************************************)
(* Actors: the documents that the PLC directory publishes, and the rows by *)
(* which the server manages them.  A request reads its rows, reads the     *)
(* published document, reads the latest operation to build on, publishes a *)
(* whole new document, and then writes its row.  Requests of any accounts, *)
(* and other services that hold a key, run between those steps.            *)
(*                                                                         *)
(* The directory is external: it takes an operation that builds on the     *)
(* latest one and is signed with a key of the document.                    *)
(***************************************************************************)
EXTENDS Integers, FiniteSets

CONSTANTS
  Accounts, Names, Dids, Clients,
  FirstHandle,  \* the handle each account has registered
  Foreign,      \* the actor that another service made
  FirstKeys,    \* the number of its keys, all in the hands of its user
  MaxKeys, MaxRequests, MaxElsewhere, MaxLost  \* bounds

ASSUME FirstHandles ==
  /\ FirstHandle \in [Accounts -> Names]
  /\ \A a, b \in Accounts : FirstHandle[a] = FirstHandle[b] => a = b
ASSUME ForeignExists == Foreign \in Dids
ASSUME BoundsAreNatural ==
  /\ {MaxKeys, MaxRequests, MaxElsewhere, MaxLost} \subseteq Nat
  /\ FirstKeys \in 1..MaxKeys

Keys == 1..MaxKeys
NoKey == 0
NoName == "none"
NoDid == "none"

VARIABLES
  plc,        \* the directory: latest operation, keys, first did:web alias, the rest
  handles,    \* table handles: account -> identifier
  actors,     \* table actors: account -> did, secret_key
  keys,       \* keys generated
  exported,   \* keys that are held outside this server, too
  exchanged,  \* history: keys that other providers replaced
  call,       \* the request of each client
  requests, elsewhere, lost  \* counts, for the bounds

vars == <<plc, handles, actors, keys, exported, exchanged, call, requests, elsewhere, lost>>
counts == <<requests, elsewhere, lost>>

NoDocument == [rev |-> 0, keys |-> {}, handle |-> NoName, others |-> 0]
NoActor == [did |-> NoDid, key |-> NoKey]
Idle == [pc |-> "idle", op |-> "none", account |-> "none", did |-> NoDid, key |-> NoKey,
         new |-> NoKey, name |-> NoName, replace |-> FALSE, data |-> NoDocument, prev |-> 0]

Init ==
  /\ plc = [d \in Dids |-> IF d = Foreign THEN [NoDocument EXCEPT !.rev = 1, !.keys = 1..FirstKeys]
                           ELSE NoDocument]
  /\ handles = FirstHandle
  /\ actors = [a \in Accounts |-> NoActor]
  /\ keys = FirstKeys /\ exported = 1..FirstKeys /\ exchanged = {}
  /\ call = [c \in Clients |-> Idle]
  /\ requests = 0 /\ elsewhere = 0 /\ lost = 0
-----------------------------------------------------------------------------
Goes(c, r, pc) == call' = [call EXCEPT ![c] = [r EXCEPT !.pc = pc]]
Ends(c) == call' = [call EXCEPT ![c] = Idle]
Generated == keys' = keys + 1

Begins(c) ==
  /\ call[c] = Idle
  /\ requests < MaxRequests
  /\ requests' = requests + 1

\* checkReplacement() and checkActorAvailable(): later requests may change both.
MayHold(a, d, replace) ==
  /\ replace <=> actors[a].did # NoDid
  /\ \A b \in Accounts \ {a} : actors[b].did # d

\* POST /create: the new actor has one new key.
Create(c, a, d, replace) ==
  /\ Begins(c)
  /\ replace <=> actors[a].did # NoDid
  /\ plc[d].rev = 0 /\ \A e \in Clients : call[e].did # d
  /\ keys < MaxKeys /\ Generated
  /\ Goes(c, [Idle EXCEPT !.op = "create", !.account = a, !.did = d, !.new = keys + 1,
                          !.key = keys + 1, !.name = handles[a], !.replace = replace], "publish")
  /\ UNCHANGED <<plc, handles, actors, exported, exchanged, elsewhere, lost>>

\* PUT /actor/:did, for an actor whose key is here.  The services and the other
\* aliases come with the request, as a page has read and edited them.
Update(c, a, others) ==
  /\ Begins(c)
  /\ actors[a].key # NoKey
  /\ Goes(c, [Idle EXCEPT !.op = "update", !.account = a, !.did = actors[a].did,
                          !.key = actors[a].key, !.name = handles[a],
                          !.data = [NoDocument EXCEPT !.others = others]], "data")
  /\ UNCHANGED <<plc, handles, actors, keys, exported, exchanged, elsewhere, lost>>

\* POST /change, once the name is reserved, or its domain verified.
Change(c, a, n) ==
  /\ Begins(c)
  /\ n \notin {handles[b] : b \in Accounts}
  /\ actors[a].did # NoDid
  /\ Goes(c, [Idle EXCEPT !.op = "change", !.account = a, !.did = actors[a].did,
                          !.key = actors[a].key, !.name = n], "data")
  /\ UNCHANGED <<plc, handles, actors, keys, exported, exchanged, elsewhere, lost>>

\* POST /import with a key that the user has.
Import(c, a, d, k, replace) ==
  /\ Begins(c)
  /\ k \in exported
  /\ MayHold(a, d, replace)
  /\ ~(actors[a].did = d /\ actors[a].key # NoKey)
  /\ keys < MaxKeys /\ Generated
  /\ Goes(c, [Idle EXCEPT !.op = "import", !.account = a, !.did = d, !.key = k,
                          !.new = keys + 1, !.replace = replace], "data")
  /\ UNCHANGED <<plc, handles, actors, exported, exchanged, elsewhere, lost>>

\* POST /attach: the key stays elsewhere.
Attach(c, a, d, replace) ==
  /\ Begins(c)
  /\ MayHold(a, d, replace)
  /\ Goes(c, [Idle EXCEPT !.op = "attach", !.account = a, !.did = d,
                          !.name = handles[a], !.replace = replace], "data")
  /\ UNCHANGED <<plc, handles, actors, keys, exported, exchanged, elsewhere, lost>>

\* GET /actor/:did, and DELETE /actor/:did/key
Export(a) ==
  /\ actors[a].key \notin exported \cup {NoKey}
  /\ exported' = exported \cup {actors[a].key}
  /\ UNCHANGED <<plc, handles, actors, keys, exchanged, call, counts>>

RemoveKey(a) ==
  /\ actors[a].key # NoKey
  /\ requests < MaxRequests
  /\ requests' = requests + 1
  /\ actors' = [actors EXCEPT ![a].key = NoKey]
  /\ UNCHANGED <<plc, handles, keys, exported, exchanged, call, elsewhere, lost>>
-----------------------------------------------------------------------------
\* Requests that only compare the document write their row next.
Compares(r) == r.op = "attach" \/ (r.op = "change" /\ r.key = NoKey)

\* fetchActorData(); PUT takes nothing but the keys from it.
FetchData(c) ==
  LET r == call[c]
      doc == plc[r.did]
      data == IF r.op = "update" THEN [doc EXCEPT !.others = r.data.others] ELSE doc
  IN /\ r.pc = "data"
     /\ CASE doc.rev = 0 -> Ends(c)
          [] doc.rev # 0 /\ Compares(r) -> IF doc.handle = r.name THEN Goes(c, r, "save") ELSE Ends(c)
          [] OTHER -> Goes(c, [r EXCEPT !.data = data], "prev")
     /\ UNCHANGED <<plc, handles, actors, keys, exported, exchanged, counts>>

\* fetchActorCid(); the key must be one of the document that was read before.
\* An import reads the account's handle only now.
FetchPrev(c) ==
  LET r == call[c]
      name == IF r.op = "import" THEN handles[r.account] ELSE r.name
  IN /\ r.pc = "prev"
     /\ IF r.key \in r.data.keys
        THEN Goes(c, [r EXCEPT !.prev = plc[r.did].rev, !.name = name], "publish")
        ELSE Ends(c)
     /\ UNCHANGED <<plc, handles, actors, keys, exported, exchanged, counts>>

MutNextKeys(r) == IF r.op = "create" THEN {r.new} ELSE r.data.keys  \* mutant
\* The keys that a request publishes: an import replaces the imported one.
NextKeys(r) ==
  CASE r.op = "create" -> {r.new}
    [] r.op = "import" -> (r.data.keys \ {r.key}) \cup {r.new}
    [] OTHER -> r.data.keys

MutNextDocument(r) ==  \* mutant: the account in the place of its handle
  [rev |-> r.prev + 1, keys |-> NextKeys(r), handle |-> r.account, others |-> r.data.others]

\* The document that publishDid() sends: that which was read, with the first
\* did:web alias and, for an import, the key exchanged.
NextDocument(r) ==
  [rev |-> r.prev + 1, keys |-> NextKeys(r), handle |-> r.name, others |-> r.data.others]

\* The directory takes the operation or refuses it; the request may be gone
\* before it learns of it.
Publish(c) ==
  LET r == call[c]
      good == /\ plc[r.did].rev = r.prev
              /\ r.prev = 0 \/ r.key \in plc[r.did].keys
  IN /\ r.pc = "publish"
     /\ \/ /\ good
           /\ plc' = [plc EXCEPT ![r.did] = NextDocument(r)]
           /\ \/ /\ IF r.op = "update" THEN Ends(c) ELSE Goes(c, r, "save")
                 /\ UNCHANGED lost
              \/ /\ r.op # "update" /\ lost < MaxLost
                 /\ lost' = lost + 1
                 /\ Ends(c)
        \/ /\ ~good
           /\ Ends(c)
           /\ UNCHANGED <<plc, lost>>
     /\ UNCHANGED <<handles, actors, keys, exported, exchanged, requests, elsewhere>>

\* saveActor() and updateHandle: the unique columns decide.
Save(c) ==
  LET r == call[c]
      a == r.account
      row == [did |-> r.did, key |-> IF r.op = "attach" THEN NoKey ELSE r.new]
  IN /\ r.pc = "save"
     /\ \/ /\ r.op = "change"
           /\ handles' = [handles EXCEPT ![a] =
                IF \E b \in Accounts \ {a} : handles[b] = r.name THEN @ ELSE r.name]
           /\ UNCHANGED actors
        \/ /\ r.op # "change"
           /\ actors' = [actors EXCEPT ![a] =
                IF \/ \E b \in Accounts \ {a} : actors[b].did = r.did
                   \/ (~r.replace /\ @.did # NoDid)
                THEN @ ELSE row]
           /\ UNCHANGED handles
     /\ Ends(c)
     /\ UNCHANGED <<plc, keys, exported, exchanged, counts>>

\* Another service that holds a key of the document adds services of its own, or
\* puts another alias first.
Elsewhere(d) ==
  /\ elsewhere < MaxElsewhere
  /\ elsewhere' = elsewhere + 1
  /\ plc[d].keys \cap exported # {}
  /\ \/ plc' = [plc EXCEPT ![d].rev = @ + 1, ![d].others = @ + 1]
     \/ \E n \in Names : plc' = [plc EXCEPT ![d].rev = @ + 1, ![d].handle = n]
  /\ UNCHANGED <<handles, actors, keys, exported, exchanged, call, requests, lost>>

\* Another provider imports the actor with an exported key: it puts a key of its
\* own in the place of that key, and its handle first.  It may export its key.
ImportElsewhere(d, k, n) ==
  /\ elsewhere < MaxElsewhere
  /\ elsewhere' = elsewhere + 1
  /\ k \in plc[d].keys \cap exported
  /\ keys < MaxKeys /\ Generated
  /\ plc' = [plc EXCEPT ![d].rev = @ + 1, ![d].handle = n,
                        ![d].keys = (@ \ {k}) \cup {keys + 1}]
  /\ exported' = exported \cup {keys + 1}
  /\ exchanged' = exchanged \cup {k}
  /\ UNCHANGED <<handles, actors, call, requests, lost>>

Begin(c) ==
  \E a \in Accounts :
    \/ \E others \in 0..MaxElsewhere : Update(c, a, others)
    \/ \E n \in Names : Change(c, a, n)
    \/ \E d \in Dids, replace \in BOOLEAN :
         \/ Create(c, a, d, replace)
         \/ Attach(c, a, d, replace)
         \/ \E k \in Keys : Import(c, a, d, k, replace)

Next ==
  \/ \E c \in Clients : Begin(c) \/ FetchData(c) \/ FetchPrev(c) \/ Publish(c) \/ Save(c)
  \/ \E a \in Accounts : Export(a) \/ RemoveKey(a)
  \/ \E d \in Dids : Elsewhere(d) \/ \E k \in Keys, n \in Names : ImportElsewhere(d, k, n)

Spec == Init /\ [][Next]_vars
-----------------------------------------------------------------------------
(* Properties.                                                             *)

Documents == [rev : Nat, keys : SUBSET Keys, handle : Names \cup {NoName}, others : Nat]

Requests ==
  [pc : {"idle", "data", "prev", "publish", "save"},
   op : {"none", "create", "update", "change", "import", "attach"},
   account : Accounts \cup {"none"}, did : Dids \cup {NoDid},
   key : Keys \cup {NoKey}, new : Keys \cup {NoKey}, name : Names \cup {NoName},
   replace : BOOLEAN, data : Documents, prev : Nat]

\* The types of the state.
TypeOK ==
  /\ plc \in [Dids -> Documents]
  /\ handles \in [Accounts -> Names]
  /\ actors \in [Accounts -> [did : Dids \cup {NoDid}, key : Keys \cup {NoKey}]]
  /\ keys \in Keys /\ exported \subseteq Keys /\ exchanged \subseteq exported
  /\ call \in [Clients -> Requests]
  /\ requests \in 0..MaxRequests /\ elsewhere \in 0..MaxElsewhere /\ lost \in 0..MaxLost

Controlled(a) == actors[a].key # NoKey => actors[a].key \in plc[actors[a].did].keys

\* No document but that of Foreign ever has more than one key.
HasOneKey(d) == d # Foreign \/ FirstKeys = 1

\* A key that the server keeps for an actor controls the published document,
\* whatever requests and other services publish at the same time, and whichever
\* answer is lost, unless it was exported and another provider has replaced it.
\* This is of documents to which nobody else has given a second key.
ControlKept ==
  \A a \in Accounts :
    HasOneKey(actors[a].did) => Controlled(a) \/ actors[a].key \in exchanged

\* The same of documents with several keys: a request that read the keys before
\* an import with another of them publishes them after it.
AllControlled == \A a \in Accounts : Controlled(a) \/ actors[a].key \in exchanged

\* What another service wrote into the document of an actor stays there, but for
\* what a PUT of the actor's own account leaves out.
OthersAreKept ==
  [][\A d \in Dids :
       \/ plc'[d].others >= plc[d].others
       \/ \E c \in Clients : call[c].op = "update" /\ call[c].did = d /\ call'[c] = Idle]_vars
=============================================================================
