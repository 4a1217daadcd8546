----------------------------- MODULE MessageLabels -----------------------------
(***************************************************************************)
(* Labels of messages.  The server keeps them by account and by the number *)
(* of the message's row, a number that is given again once the row with    *)
(* the largest one is gone; tabs of a browser share a cache of messages    *)
(* with their labels, whatever their accounts.  A label is set by two      *)
(* statements on the server, and then by a reading and a writing of the    *)
(* cache; gets and pages of queries write what they were answered.         *)
(***************************************************************************)
EXTENDS Integers, Sequences, FiniteSets, FiniteSetsExt

CONSTANTS
  Inboxes, Shared,  \* inboxes; the shared one is not deleted
  OwnerOf,          \* the account of each of the others
  Tabs, AccountOf,  \* tabs of a browser; their accounts, or Nobody
  Nobody,
  Labels,           \* numbers above Unlabeled
  Absent, Null,     \* not cached; cached as not found
  MayRace,          \* inboxes are deleted between the statements of a label
  MaxMessages, MaxCalls  \* bounds

VARIABLES
  inboxes,   \* that are not deleted
  messages,  \* table inbox_messages
  labels,    \* table inbox_message_labels
  cached,    \* cache.messages: the label of each message
  calls,     \* get, label, or a query of each tab
  sent,      \* where each message was sent to; its place is its id
  begun,     \* how many calls were made
  said       \* history: which account labelled which message

labelVars == <<inboxes, messages, labels, cached, calls, sent, begun, said>>

Unlabeled == 0
Ids == 1..MaxMessages
Idle == [pc |-> "idle", id |-> 0, label |-> Unlabeled, seq |-> 0]

LabelsInit ==
  /\ inboxes = Inboxes /\ messages = {} /\ labels = {}
  /\ cached = [id \in Ids |-> Absent]
  /\ calls = [t \in Tabs |-> Idle]
  /\ sent = <<>> /\ begun = 0
  /\ said = {}
-----------------------------------------------------------------------------
(* Tables.  The rows of labels go with the row of their message.           *)

NextSeq == Max({m.seq : m \in messages} \cup {0}) + 1
MutWithRows(rows) == labels  \* mutant: labels stay
WithRows(rows) == {l \in labels : \E m \in rows : m.seq = l.seq}

SendMessage(i) ==
  /\ i \in inboxes /\ Len(sent) < MaxMessages
  /\ sent' = Append(sent, i)
  /\ messages' = messages \cup {[id |-> Len(sent'), seq |-> NextSeq, inbox |-> i]}
  /\ UNCHANGED <<inboxes, labels, cached, calls, begun, said>>

DeleteInbox(i) ==
  LET kept == {m \in messages : m.inbox # i} IN
  /\ i \in inboxes \ {Shared}
  /\ MayRace \/ \A t \in Tabs, m \in messages \ kept :
                  calls[t].pc = "selected" => calls[t].seq # m.seq
  /\ inboxes' = inboxes \ {i} /\ messages' = kept /\ labels' = WithRows(kept)
  /\ UNCHANGED <<cached, calls, sent, begun, said>>

MayRead(t, id) == sent[id] # Shared => OwnerOf[sent[id]] = AccountOf[t]
Found(t) == {m \in messages : m.id = calls[t].id /\ MayRead(t, m.id)}

LabelOf(m, a) ==
  IF \E l \in labels : l.seq = m.seq /\ l.account = a
  THEN (CHOOSE l \in labels : l.seq = m.seq /\ l.account = a).label ELSE Unlabeled
-----------------------------------------------------------------------------
Begin(t, x) ==
  /\ calls[t].pc = "idle" /\ begun < MaxCalls /\ begun' = begun + 1
  /\ calls' = [calls EXCEPT ![t] = x]
  /\ UNCHANGED <<inboxes, messages, labels, cached, sent>>
Continue(t, x) ==
  /\ calls' = [calls EXCEPT ![t] = x]
  /\ UNCHANGED <<inboxes, messages, sent, begun, said>>

\* label() of a message that was received; without a token, in the cache only.
Label(t, id, l) ==
  /\ cached[id] \notin {Absent, Null}
  /\ Begin(t, [Idle EXCEPT !.id = id, !.label = l,
                           !.pc = IF AccountOf[t] = Nobody THEN "labelled" ELSE "label"])
  /\ said' = said \cup {[id |-> id, account |-> AccountOf[t], label |-> l]}

\* The number of the message, or 403 or 404.
SelectMessage(t) ==
  /\ calls[t].pc = "label"
  /\ \/ Found(t) = {} /\ Continue(t, Idle)
     \/ \E m \in Found(t) : Continue(t, [calls[t] EXCEPT !.pc = "selected", !.seq = m.seq])
  /\ UNCHANGED <<labels, cached>>

\* INSERT ... ON CONFLICT DO UPDATE; there must be a message of this number.
InsertLabel(t) ==
  LET x == calls[t]
      others == {l \in labels : l.seq # x.seq \/ l.account # AccountOf[t]}
  IN
  /\ x.pc = "selected"
  /\ IF \E m \in messages : m.seq = x.seq
     THEN /\ labels' = others \cup {[seq |-> x.seq, account |-> AccountOf[t], label |-> x.label]}
          /\ Continue(t, [x EXCEPT !.pc = "labelled"])
     ELSE UNCHANGED labels /\ Continue(t, Idle)
  /\ UNCHANGED cached

ReadCache(t) ==
  /\ calls[t].pc = "labelled"
  /\ Continue(t, IF cached[calls[t].id] \in {Absent, Null} THEN Idle
                 ELSE [calls[t] EXCEPT !.pc = "store"])
  /\ UNCHANGED <<labels, cached>>

\* get() asks the server for what is not cached, and a query for whatever is next.
Get(t, id) ==
  /\ cached[id] = Absent
  /\ Begin(t, [Idle EXCEPT !.id = id, !.pc = "get"])
  /\ UNCHANGED said

QueryPage(t, id) ==
  /\ \E m \in messages : m.id = id /\ MayRead(t, id)
  /\ Begin(t, [Idle EXCEPT !.id = id, !.pc = "query"])
  /\ UNCHANGED said

\* A message with its label; or 403 or nothing, or 404 from a worker that remembers
\* the inbox, which get() caches.
Answered(t) ==
  LET x == calls[t] IN
  /\ x.pc \in {"get", "query"}
  /\ \/ \E m \in Found(t) :
          Continue(t, [x EXCEPT !.pc = "store", !.label = LabelOf(m, AccountOf[t])])
     \/ Found(t) = {} /\ Continue(t, Idle)
     \/ /\ Found(t) = {} /\ MayRead(t, x.id) /\ x.pc = "get"
        /\ Continue(t, [x EXCEPT !.pc = "store", !.label = Null])
  /\ UNCHANGED <<labels, cached>>

StoreInCache(t) ==
  /\ calls[t].pc = "store"
  /\ cached' = [cached EXCEPT ![calls[t].id] = calls[t].label]
  /\ Continue(t, Idle)
  /\ UNCHANGED labels

LabelsNext ==
  \/ \E i \in Inboxes : SendMessage(i) \/ DeleteInbox(i)
  \/ \E t \in Tabs, id \in DOMAIN sent :
       Get(t, id) \/ QueryPage(t, id) \/ \E l \in Labels : Label(t, id, l)
  \/ \E t \in Tabs :
       SelectMessage(t) \/ InsertLabel(t) \/ ReadCache(t) \/ Answered(t) \/ StoreInCache(t)
-----------------------------------------------------------------------------
\* A label on the server was given to this message, by this account, and one in
\* the cache to this message, whatever inboxes were deleted, numbers given again
\* and answers overtaken by others; what is cached as not found is not there.
LabelsAreTheirs ==
  /\ \A l \in labels, m \in messages : l.seq = m.seq =>
       [id |-> m.id, account |-> l.account, label |-> l.label] \in said
  /\ \A id \in Ids : cached[id] \in Labels =>
       \E x \in said : x.id = id /\ x.label = cached[id]
  /\ \A m \in messages : cached[m.id] # Null
=============================================================================
