-------------------------- MODULE MessageDelivery --------------------------
(***************************************************************************)
(* What a stream of inbox messages promises its reader, whatever caches    *)
(* and tabs lie between: the messages in the order of the inbox, none left *)
(* out, and each one once as long as the cache is in order.  A reader      *)
(* begins anew, or takes up where a cursor it was given left it.           *)
(***************************************************************************)
EXTENDS Naturals, Sequences

CONSTANTS Tabs, MaxLog

VARIABLES
  log,    \* number of messages in the inbox that the query asks for
  seen,   \* what each reader has been given since it began anew
  kept,   \* what it had been given when it got its last cursor
  again   \* the cache is not in order: messages may be given again

Init ==
  /\ log = 0
  /\ seen = [c \in Tabs |-> <<>>]
  /\ kept = [c \in Tabs |-> <<>>]
  /\ again \in BOOLEAN

Arrive ==
  /\ log < MaxLog
  /\ log' = log + 1
  /\ UNCHANGED <<seen, kept, again>>

\* The place in the log that a reader has come to.
Place(s) == IF s = <<>> THEN 0 ELSE s[Len(s)]

\* The messages after one place in the log, up to another.
Stretch(from, to) == [i \in 1..(to - from) |-> from + i]

\* The next messages of the log, and a cursor if it is the end for now.
Deliver(c) ==
  /\ \E from \in 0..Place(seen[c]), to \in 0..log :
       /\ from <= to
       /\ from = Place(seen[c]) \/ again
       /\ seen' = [seen EXCEPT ![c] = @ \o Stretch(from, to)]
  /\ kept' \in {kept, [kept EXCEPT ![c] = seen'[c]]}
  /\ UNCHANGED <<log, again>>

Begin(c) ==
  /\ seen' \in {[seen EXCEPT ![c] = <<>>], [seen EXCEPT ![c] = kept[c]]}
  /\ UNCHANGED <<log, kept, again>>

\* The cache is reset under its readers, and is not in order from then on.
Reset == again' = TRUE /\ UNCHANGED <<log, seen, kept>>

Next == Arrive \/ Reset \/ \E c \in Tabs : Deliver(c) \/ Begin(c)

Spec == Init /\ [][Next]_<<log, seen, kept, again>>
=============================================================================
