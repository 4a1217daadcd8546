--------------------------- MODULE MCInboxServer ---------------------------
(***************************************************************************)
(* Small instances of InboxServer for TLC, and what is assumed of its      *)
(* constants.  Its variables are declared here so that the theorems about  *)
(* streams of messages can be next to those about the inboxes they read.   *)
(***************************************************************************)
EXTENDS Integers, Sequences, TLC

CONSTANTS
  Ids, Shared, Accounts, Workers, Unknown, NotFound, Senders, Readers, Messages, TagsOf, Queries,
  PageLimits, MaxRows, MaxSends, MaxCrashes, MaxQueries,  \* of InboxServer
  m1, m2, m3, red, blue  \* model values

ASSUME AccountsAreNumbers == Accounts \subseteq Nat \ {0}
ASSUME TagsAreSets == DOMAIN TagsOf = Messages
ASSUME LimitsArePositive == PageLimits \in Seq(Nat \ {0}) /\ PageLimits # <<>>

VARIABLES inbox, owner, rows, infos, send, reader, acked, spent

Boxes == INSTANCE InboxServer WITH cache <- infos, used <- spent

\* One message of each tag, and one of both.
MCTagsOf ==
  [m \in Messages |-> CASE m = m1 -> {red}
                        [] m = m2 -> {red, blue}
                        [] OTHER  -> {blue}]

\* The schema refuses more messages than a page holds.
PickyQuery == {[tags |-> {red, blue}, accepts |-> {m1}]}
OneQuery == {[tags |-> {red}, accepts |-> Messages]}

SmallPages == <<1, 2>>
-----------------------------------------------------------------------------
BoxSpec == Boxes!FairSpec

(* The properties, each stated with its comment in InboxServer.            *)

\* A query that ends has given all that it asks for.
EndMeansEverything == Boxes!EndMeansEverything
\* Every query ends.
QueriesEnd == Boxes!QueriesEnd

(* Two that are left out of the run, and two that the code does not keep.  *)

PagesAscend == Boxes!PagesAscend
SentOnce == Boxes!SentOnce
\* Who is told of no more has what was acknowledged.
AcknowledgedIsDelivered == Boxes!AcknowledgedIsDelivered
\* What was sent to one inbox is in no other.
SentToItsInbox == Boxes!SentToItsInbox
=============================================================================
