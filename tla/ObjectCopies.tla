----------------------------- MODULE ObjectCopies -----------------------------
(***************************************************************************)
(* The record of an object in the bucket of its author, the copies of the  *)
(* object that are sent to inboxes, and what their readers check: encode() *)
(* and validate() of ObjectEncoding, announceObject(), and                 *)
(* processOneLabeledMessage().                                             *)
(*                                                                         *)
(* A hash, a signature and a ticket are what they were made from, so that  *)
(* two of them are equal only when these are.  Requests do not fail and    *)
(* labels are set at once: Announcements is about failures and delays.     *)
(* The shared inbox is read by nobody in particular.                       *)
(***************************************************************************)
EXTENDS Integers, Sequences, FiniteSets, SequencesExt

CONSTANTS
  Author,
  Everyone,    \* the shared inbox
  Recipients,  \* other actors, with a personal inbox each
  Drafts,      \* what the author may post
  Undefined,   \* no allowed list: the object is public
  MaxPosts, MaxMixed,  \* bounds: posts, and messages that no call has sent
  MaxSent              \* bound: of these and the deletions together

\* The inboxes of a post: of its author, of everyone, and of recipients.
Addressees == {Author, Everyone} \cup Recipients

VARIABLES
  posts,   \* objects in the order of their calls, with their records
  bucket,  \* the posts whose records are stored: each has its own key
  inbox,   \* messages of each inbox: the id of a message is its place
  label,   \* what the owner of an inbox made of each message
  mixed,   \* history: the messages that no call has sent, by inbox and place
  deletions  \* history: the posts that were deleted, and whether by such a message

copiesVars == <<posts, bucket, inbox, label, mixed, deletions>>

CopiesInit ==
  /\ posts = <<>> /\ bucket = {}
  /\ inbox = [i \in Addressees |-> <<>>]
  /\ label = [i \in Addressees |-> <<>>]
  /\ mixed = {} /\ deletions = <<>>

MaySend == Len(posts) + Cardinality(mixed) + Len(deletions) < MaxSent
-----------------------------------------------------------------------------
(* encode() *)

\* [...new Set(channels)]
Unique(channels) ==
  FoldLeft(LAMBDA s, c : IF c \in ToSet(s) THEN s ELSE Append(s, c), <<>>, channels)

ChannelAttestation(actor, channel) == [actor |-> actor, channel |-> channel]
AllowedAttestation(actor, ticket) == [actor |-> actor, ticket |-> ticket]

\* A ticket is random: the post and the place in its list that it was made for.
Tickets(n, draft) == [j \in DOMAIN draft.allowed |-> <<n, j>>]

Record(n, draft) ==
  LET channels == Unique(draft.channels) IN
  [kind |-> draft.kind, value |-> draft.value, nonce |-> n,
   channels |-> [j \in DOMAIN channels |-> ChannelAttestation(Author, channels[j])],
   private |-> draft.allowed # Undefined,
   allowed |-> IF draft.allowed = Undefined THEN <<>>
               ELSE [j \in DOMAIN draft.allowed |->
                      AllowedAttestation(draft.allowed[j], Tickets(n, draft)[j])]]

ContentAddress(rec) == [hash |-> rec]
\* decodeObjectUrl() gives actor and address of every spelling, of which encode() has one.
Url(actor, rec) ==
  [actor |-> actor, address |-> ContentAddress(rec), spelling |-> "encoded"]

\* A tag of a channel is its public id; the URL is the first tag.
Encoded(n, draft) ==
  LET rec == Record(n, draft) IN
  [record |-> rec,
   tags |-> [url |-> Url(Author, rec), channels |-> Unique(draft.channels)],
   tickets |-> IF draft.allowed = Undefined THEN Undefined ELSE Tickets(n, draft),
   object |-> [value |-> draft.value, channels |-> Unique(draft.channels),
               url |-> Url(Author, rec), actor |-> Author, allowed |-> draft.allowed]]

\* maskGraffitiObject(): others see no channels, and only themselves as allowed.
Masked(object, actor) ==
  IF actor = object.actor THEN object
  ELSE [object EXCEPT !.channels = <<>>,
          !.allowed = IF @ # Undefined /\ actor # Everyone THEN <<actor>> ELSE @]
-----------------------------------------------------------------------------
(* validate(), of a copy c and the record that its reader finds under its key *)

MutAddressFits(c, rec) == TRUE  \* mutant: the record may be another's
AddressFits(c, rec) == c.object.url.address = ContentAddress(rec)

IsTheRecord(c, rec) ==
  /\ c.object.url.actor = c.object.actor
  /\ c.tags.url = c.object.url
  /\ AddressFits(c, rec)
  /\ rec.kind = c.kind
  /\ rec.value = c.object.value

\* Each tag has its attestation; the channels are left out, or they are all there.
ChannelsFit(c, rec) ==
  /\ Len(rec.channels) = Len(c.tags.channels)
  /\ \A j \in DOMAIN rec.channels :
       rec.channels[j] = ChannelAttestation(c.object.url.actor, c.tags.channels[j])
  /\ c.object.channels # <<>> => c.object.channels = c.tags.channels

\* A recipient shows its own ticket, the author shows them all.
RecipientsFit(c, rec, reader) ==
  LET list == c.object.allowed
      fits(actor, ticket, j) ==
        j \in DOMAIN rec.allowed /\ rec.allowed[j] = AllowedAttestation(actor, ticket)
  IN CASE c.info.form = "none" -> ~rec.private
       [] c.info.form = "one" ->
            /\ rec.private /\ reader # Everyone
            /\ list = <<reader>>
            /\ fits(reader, c.info.tickets[1], c.info.index)
       [] c.info.form = "all" ->
            /\ rec.private /\ list # Undefined
            /\ \A j \in DOMAIN list :
                 j \in DOMAIN c.info.tickets /\ fits(list[j], c.info.tickets[j], j)

Validates(c, reader) ==
  LET rec == posts[c.key].record
  IN IsTheRecord(c, rec) /\ ChannelsFit(c, rec) /\ RecipientsFit(c, rec, reader)
-----------------------------------------------------------------------------
(* announceObject(), of a post or of the message by which it is deleted *)

Info(form, tickets, index) == [form |-> form, tickets |-> tickets, index |-> index]

MutNamed(prior, to) ==  \* mutant: the id of any announcement
  IF prior = <<>> THEN 0 ELSE prior[1].id
\* The message that a tombstone withdraws: the first announcement to its inbox.
Named(prior, to) ==
  LET ids == SelectSeq(prior, LAMBDA a : a.to = to)
  IN IF ids = <<>> THEN 0 ELSE ids[1].id

\* Else it throws, before it sends anything.
HasTickets(what) ==
  what.object.allowed # Undefined =>
    what.tickets # Undefined /\ Len(what.tickets) = Len(what.object.allowed)

To(what) == IF what.object.allowed = Undefined THEN <<Everyone>> ELSE what.object.allowed

Message(what, prior, to, object, info) ==
  [to |-> to, object |-> object, tags |-> what.tags, kind |-> what.kind, key |-> what.key,
   info |-> info, tomb |-> Named(prior, to), anns |-> <<>>]

ForOthers(what, prior) ==
  [j \in DOMAIN To(what) |->
    Message(what, prior, To(what)[j], Masked(what.object, To(what)[j]),
            IF what.object.allowed = Undefined THEN Info("none", <<>>, 0)
            ELSE Info("one", <<what.tickets[j]>>, j))]
ForAuthor(what, prior) ==
  Message(what, prior, Author, what.object,
          IF what.tickets = Undefined THEN Info("none", <<>>, 0)
          ELSE Info("all", what.tickets, 0))

\* A message that an inbox has already is not added again.
Received(box, sent) ==
  FoldLeft(LAMBDA b, m : IF m \in ToSet(b) THEN b ELSE Append(b, m), box, sent)

\* Answers come in any order: it matters for the copies of one inbox.
Orders(to) ==
  IF IsInjective(to) THEN {[j \in DOMAIN to |-> j]}
  ELSE {f \in [DOMAIN to -> DOMAIN to] : IsInjective(f)}

\* The last message is for the author, and lists the others.
Announce(what, prior, labels) ==
  LET others == ForOthers(what, prior)
      boxes == [i \in Addressees |->
                 Received(inbox[i], SelectSeq(others, LAMBDA m : m.to = i))]
      ann(m) == [to |-> m.to, id |-> CHOOSE k \in DOMAIN boxes[m.to] : boxes[m.to][k] = m]
  IN /\ \E order \in Orders(To(what)) :
          LET own == [ForAuthor(what, prior) EXCEPT
                       !.anns = [j \in DOMAIN others |-> ann(others[order[j]])]]
          IN inbox' = [boxes EXCEPT ![Author] = Received(@, <<own>>)]
     /\ label' = [i \in Addressees |->
                   [k \in DOMAIN inbox'[i] |-> IF k \in DOMAIN labels[i] THEN labels[i][k] ELSE "none"]]

\* post(), and postMedia() for its record.
Post(draft) ==
  LET n == Len(posts) + 1
      made == Encoded(n, draft)
  IN /\ n <= MaxPosts /\ MaySend
     /\ posts' = Append(posts, made)
     /\ bucket' = bucket \cup {n}
     /\ Announce([object |-> made.object, tags |-> made.tags, tickets |-> made.tickets,
                   kind |-> made.record.kind, key |-> n], <<>>, label)
     /\ UNCHANGED <<mixed, deletions>>
-----------------------------------------------------------------------------
(* Readers: processOneLabeledMessage() *)

\* A tombstone has to name a message of its object.
NamesItsObject(i, m) ==
  m.tomb \in DOMAIN inbox[i] /\ inbox[i][m.tomb].object.url = m.object.url

\* The label of a message that has none.  (A reader that is no recipient is Everyone.)
Verdict(reader, m) ==
  CASE m.key \notin bucket                -> "trash"
    [] m.tomb = 0 /\ Validates(m, reader) -> "valid"
    [] OTHER                              -> "invalid"

\* What the reader is given for a message.
Yields(reader, i, k) ==
  LET m == inbox[i][k]
      read == IF label[i][k] = "none" THEN Verdict(reader, m) ELSE label[i][k]
  IN CASE read = "valid" -> "object"
       [] read = "trash" /\ m.tomb # 0 /\ (label[i][k] = "none" \/ NamesItsObject(i, m)) -> "tombstone"
       [] OTHER -> "nothing"

\* The labels of an inbox after its messages ks were processed: a correct tombstone
\* turns the message that it names into trash, too.
Processed(reader, i, ks) ==
  LET new == {k \in ks : label[i][k] = "none"}
      named == {inbox[i][k].tomb : k \in
                 {k \in new : Verdict(reader, inbox[i][k]) = "trash" /\ NamesItsObject(i, inbox[i][k])}}
  IN [k \in DOMAIN label[i] |->
       CASE k \in named -> "trash"
         [] k \in new \ named -> Verdict(reader, inbox[i][k])
         [] OTHER -> label[i][k]]

Tagged(i, url) == {k \in DOMAIN inbox[i] : inbox[i][k].tags.url = url}

\* get() and getMedia(), which read all that an inbox has about an object.
Get(i, url) ==
  /\ \E k \in Tagged(i, url) : label[i][k] = "none"
  /\ label' = [label EXCEPT ![i] = Processed(i, i, Tagged(i, url))]
  /\ UNCHANGED <<posts, bucket, inbox, mixed, deletions>>

\* The last message about an object that an inbox yields; 0 when it is a tombstone.
LastFound(reader, i, url, kind) ==
  LET found == {k \in Tagged(i, url) :
                 /\ inbox[i][k].object.url = url /\ inbox[i][k].kind = kind
                 /\ Yields(reader, i, k) # "nothing"}
  IN IF found = {} \/ Yields(reader, i, Max(found)) = "tombstone" THEN 0 ELSE Max(found)

\* delete() and deleteMedia(), which look for the object in the inbox of the author, not
\* as its recipient, and withdraw the message k that they find and those that it lists.
Delete(k) ==
  LET m == inbox[Author][k]
      found == [label EXCEPT ![Author] =
                 Processed(Everyone, Author, Tagged(Author, m.object.url))]
      what == [object |-> m.object, tags |-> m.tags, kind |-> m.kind, key |-> m.key,
               tickets |-> IF m.info.form = "all" THEN m.info.tickets ELSE Undefined]
  IN /\ MaySend
     /\ k = LastFound(Everyone, Author, m.object.url, m.kind)
     /\ bucket' = bucket \ {m.key}
     /\ IF HasTickets(what)
        THEN Announce(what, Append(m.anns, [to |-> Author, id |-> k]), found)
        ELSE label' = found /\ UNCHANGED inbox
     /\ deletions' = Append(deletions, [key |-> m.key, mixed |-> <<Author, k>> \in mixed])
     /\ UNCHANGED <<posts, mixed>>

\* Others send a message with a part of another one in its place, or send it again.
Mix(i, k, from, l, part) ==
  LET m == inbox[i][k]
      o == inbox[from][l]
      changed == CASE part = "message"  -> [o EXCEPT !.to = i]
                   [] part = "value"    -> [m EXCEPT !.object.value = o.object.value]
                   [] part = "channels" -> [m EXCEPT !.object.channels = o.object.channels]
                   [] part = "allowed"  -> [m EXCEPT !.object.allowed = o.object.allowed]
                   [] part = "url"      -> [m EXCEPT !.object.url = o.object.url,
                                                     !.tags.url = o.object.url]
                   [] part = "spelling" -> [m EXCEPT !.object.url.spelling = "other",
                                                     !.tags.url.spelling = "other"]
                   [] OTHER             -> [m EXCEPT ![part] = o[part]]
  IN /\ MaySend /\ Cardinality(mixed) < MaxMixed /\ changed \notin ToSet(inbox[i])
     /\ inbox' = [inbox EXCEPT ![i] = Append(@, changed)]
     /\ label' = [label EXCEPT ![i] = Append(@, "none")]
     /\ mixed' = mixed \cup {<<i, Len(inbox[i]) + 1>>}
     /\ UNCHANGED <<posts, bucket, deletions>>

Parts == {"message", "value", "channels", "allowed", "url", "spelling", "tags", "kind", "key",
          "info", "anns"}

CopiesNext ==
  \/ \E draft \in Drafts : Post(draft)
  \/ \E k \in DOMAIN inbox[Author] : Delete(k)
  \/ \E i \in Addressees : \E k \in DOMAIN inbox[i] : Get(i, inbox[i][k].tags.url)
  \/ \E i, from \in Addressees : \E k \in DOMAIN inbox[i], l \in DOMAIN inbox[from], part \in Parts :
       Mix(i, k, from, l, part)
-----------------------------------------------------------------------------
\* What a valid copy says about an object is what its author posted, as far as the
\* reader may know it: all or none of its channels, and of a list of recipients the
\* reader's place, or its beginning for the author who has all tickets.
\* (validate() does not look at the list that a copy of a public object has.)
ValidCopiesAreTrue ==
  \A i \in Addressees : \A k \in DOMAIN inbox[i] :
    label[i][k] = "valid" =>
      LET c == inbox[i][k] IN
      \E n \in DOMAIN posts :
        LET o == posts[n].object IN
        /\ c.object.url.actor = o.url.actor /\ c.object.url.address = o.url.address
        /\ c.object.actor = o.actor /\ c.object.value = o.value
        /\ c.kind = posts[n].record.kind
        /\ c.object.channels \in {<<>>, o.channels}
        /\ o.allowed # Undefined =>
             \/ c.object.allowed = <<i>> /\ i \in ToSet(o.allowed)
             \/ c.info.form = "all" /\ IsPrefix(c.object.allowed, o.allowed)

\* The copies of post n that its call has sent to inbox i, and those that are withdrawn,
\* or will be by a tombstone that its reader has yet to process.
SentCopies(i, n) ==
  {k \in DOMAIN inbox[i] :
    inbox[i][k].object.url = posts[n].object.url /\ inbox[i][k].tomb = 0 /\ <<i, k>> \notin mixed}
IsWithdrawn(i, k) ==
  \/ label[i][k] # "valid"
  \/ \E j \in DOMAIN inbox[i] :
       inbox[i][j].tomb = k /\ label[i][j] = "none" /\ NamesItsObject(i, inbox[i][j])

\* No inbox to which a deleted object was sent yields it any more; and one of the copies
\* there, at least, is withdrawn, where no message of others can have withdrawn another.
DeletionReaches(n) ==
  \A i \in Addressees :
    SentCopies(i, n) # {} =>
      /\ LastFound(i, i, posts[n].object.url, posts[n].record.kind) = 0
      /\ mixed = {} => \E k \in SentCopies(i, n) : IsWithdrawn(i, k)

\* Whoever is on the list of an object, its author and others twice included, a deletion
\* reaches every inbox, unless it went by a message that no call has sent.
Misled == {d.key : d \in {d \in ToSet(deletions) : d.mixed}}
DeletionsReachReaders == \A n \in DOMAIN posts \ (bucket \cup Misled) : DeletionReaches(n)

\* So does a deletion by any valid copy in the inbox of the author.
MisledDeletionsReach == \A n \in Misled : DeletionReaches(n)

\* Every copy of a deleted object is withdrawn, or was never valid.
DeletionsNameTheirCopies ==
  \A n \in DOMAIN posts \ (bucket \cup Misled) :
    \A i \in Addressees : \A k \in SentCopies(i, n) : IsWithdrawn(i, k)

\* Every message that is sent for a post is found to be correct, until the post is deleted.
SentCopiesAreValid ==
  \A i \in Addressees : \A k \in DOMAIN inbox[i] :
    <<i, k>> \notin mixed /\ inbox[i][k].tomb = 0 /\ inbox[i][k].key \in bucket =>
      label[i][k] # "invalid"
=============================================================================
