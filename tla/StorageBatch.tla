----------------------------- MODULE StorageBatch -----------------------------
(***************************************************************************)
(* The client of the storage buckets: gets that ask for at most the same   *)
(* number of bytes wait together for a moment, and are sent as one batch.  *)
(* A server without batches is found out by its 404, and asked value by    *)
(* value from then on.                                                     *)
(***************************************************************************)
EXTENDS Integers, Sequences, FiniteSets, TLC

CONSTANTS
  MaxGets,       \* bound: calls of get()
  Asks,          \* what calls may ask for: an endpoint, a key and maxBytes
  OldEndpoints,  \* servers without the route /values
  Stored,        \* the number of bytes of every key; Missing if there are none
  BatchKeys, BatchBytes,  \* limits of a batch, the same for clients and servers
  MaxFaults      \* bound: requests that fail

Missing == -1
Gets == 1..MaxGets

VARIABLES
  gets,         \* what a call asked for, where it is, and its answer
  queues,       \* every queue there was, with its timer
  open,         \* queues that calls still join
  batches,      \* requests to /values on their way
  unsupported,  \* endpoints that answered 404
  faults,       \* requests that failed
  hit           \* history: calls that a failed request was for

batchVars == <<gets, queues, open, batches, unsupported, faults, hit>>

NotCalled == [pc |-> "none", endpoint |-> "none", key |-> "none", limit |-> 0, answer |-> "none"]

BatchInit ==
  /\ gets = [g \in Gets |-> NotCalled]
  /\ queues = <<>> /\ open = {}
  /\ batches = {} /\ unsupported = {}
  /\ faults = 0 /\ hit = {}
-----------------------------------------------------------------------------
Smaller(x, y) == IF x < y THEN x ELSE y

MutBatchWidth(limit) ==  \* mutant: rounded up
  Smaller(BatchKeys, (BatchBytes + limit - 1) \div limit)
BatchWidth(limit) == Smaller(BatchKeys, BatchBytes \div limit)

IsBatched(e, limit) == limit > 0 /\ BatchWidth(limit) >= 2 /\ e \notin unsupported

Joined(e, limit) == {q \in open : queues[q].endpoint = e /\ queues[q].limit = limit}

\* Calls whose requests are sent one by one: getOne().
SentAlone(f, S) == [g \in Gets |-> IF g \in S THEN [f[g] EXCEPT !.pc = "one"] ELSE f[g]]

MutClosed(e, limit) == {}  \* mutant: the queue stays in the map
\* What flush() takes out of the map: the queue it finds there.
Closed(e, limit) == Joined(e, limit)

\* flush() of queue q, which holds these calls: a batch, or requests of their own.
Flush(q, calls, called, qs, more) ==
  LET e == qs[q].endpoint
      alone == Len(calls) = 1 \/ e \in unsupported
      sent == {calls[i] : i \in DOMAIN calls}
  IN /\ queues' = [qs EXCEPT ![q].calls = calls, ![q].timer = "off"]
     /\ open' = (open \cup more) \ (Closed(e, qs[q].limit) \cup more)
     /\ IF alone
        THEN gets' = SentAlone(called, sent) /\ UNCHANGED batches
        ELSE /\ gets' = [g \in Gets |-> IF g \in sent THEN [called[g] EXCEPT !.pc = "sent"]
                                                    ELSE called[g]]
             /\ batches' = batches \cup {q}
     /\ UNCHANGED <<unsupported, faults, hit>>

\* get(): a call joins the queue of its endpoint and limit, which is sent when full.
Get(g, ask) ==
  LET e == ask.endpoint
      limit == ask.limit
      found == Joined(e, limit)
      new == Len(queues) + 1
      q == IF found = {} THEN new ELSE CHOOSE x \in found : TRUE
      qs == IF found = {}
            THEN Append(queues, [endpoint |-> e, limit |-> limit, calls |-> <<>>, timer |-> "unset"])
            ELSE queues
      more == IF found = {} THEN {new} ELSE {}
      calls == Append(qs[q].calls, g)
      called == [gets EXCEPT ![g] = [NotCalled EXCEPT !.pc = "queued", !.endpoint = e,
                                                      !.key = ask.key, !.limit = limit]]
  IN /\ g = Cardinality({h \in Gets : gets[h].pc # "none"}) + 1
     /\ IF ~IsBatched(e, limit)
        THEN /\ gets' = [called EXCEPT ![g].pc = "one"]
             /\ UNCHANGED <<queues, open, batches, unsupported, faults, hit>>
        ELSE IF Len(calls) = BatchWidth(limit)
        THEN Flush(q, calls, called, qs, more)
        ELSE /\ gets' = called
             /\ open' = open \cup more
             /\ queues' = [qs EXCEPT ![q].calls = calls,
                             ![q].timer = IF @ = "unset" THEN "on" ELSE @]
             /\ UNCHANGED <<batches, unsupported, faults, hit>>

\* The 2 ms of a queue are over.
TimerFires(q) ==
  /\ queues[q].timer = "on"
  /\ Flush(q, queues[q].calls, gets, queues, {})
-----------------------------------------------------------------------------
\* The first answer settles a call.
Settled(f, answer) ==
  [g \in Gets |-> IF g \in DOMAIN answer /\ f[g].answer = "none"
                  THEN [f[g] EXCEPT !.pc = "settled", !.answer = answer[g]] ELSE f[g]]

\* The value of a key under a limit, as the Durable Object reports it.
BatchResult(k, limit) ==
  CASE Stored[k] = Missing -> "not found"
    [] Stored[k] > limit   -> "too large"
    [] OTHER               -> k

\* POST /values: the limits of the route, and a result for every key in order.
ServerAnswer(e, keys, limit) ==
  IF e \in OldEndpoints THEN [status |-> 404, results |-> <<>>]
  ELSE IF Len(keys) > BatchKeys \/ Len(keys) * limit > BatchBytes
  THEN [status |-> 400, results |-> <<>>]
  ELSE [status |-> 200, results |-> [i \in DOMAIN keys |-> BatchResult(keys[i], limit)]]

MutAnswerTo(i, n) == n + 1 - i  \* mutant: results taken from the end
AnswerTo(i, n) == i

\* getBatch() with an answer.
BatchAnswered(q) ==
  LET calls == queues[q].calls
      keys == [i \in DOMAIN calls |-> gets[calls[i]].key]
      response == ServerAnswer(queues[q].endpoint, keys, queues[q].limit)
      members == {calls[i] : i \in DOMAIN calls}
      Position(g) == CHOOSE i \in DOMAIN calls : calls[i] = g
  IN /\ q \in batches
     /\ batches' = batches \ {q}
     /\ \/ /\ response.status = 404
           /\ unsupported' = unsupported \cup {queues[q].endpoint}
           /\ gets' = SentAlone(gets, members)
        \/ /\ response.status = 400
           /\ gets' = Settled(gets, [g \in members |-> "error"])
           /\ UNCHANGED unsupported
        \/ /\ response.status = 200
           /\ gets' = Settled(gets, [g \in members |->
                                       response.results[AnswerTo(Position(g), Len(calls))]])
           /\ UNCHANGED unsupported
     /\ UNCHANGED <<queues, open, faults, hit>>

MutRejected(members) ==  \* mutant: only the first call hears of the failure
  IF members = {} THEN {} ELSE {CHOOSE g \in members : TRUE}
Rejected(members) == members

\* The request fails, or its answer is not what a server sends.
BatchFails(q) ==
  LET members == {queues[q].calls[i] : i \in DOMAIN queues[q].calls}
  IN /\ q \in batches /\ faults < MaxFaults
     /\ faults' = faults + 1
     /\ hit' = hit \cup members
     /\ batches' = batches \ {q}
     /\ gets' = Settled(gets, [g \in Rejected(members) |-> "error"])
     /\ UNCHANGED <<queues, open, unsupported>>

\* getOne(): the answer to a request of its own; a value too large is an error.
OneAnswered(g) ==
  LET result == BatchResult(gets[g].key, gets[g].limit)
  IN /\ gets[g].pc = "one"
     /\ gets' = Settled(gets, [h \in {g} |-> IF result = "too large" THEN "error" ELSE result])
     /\ UNCHANGED <<queues, open, batches, unsupported, faults, hit>>

OneFails(g) ==
  /\ gets[g].pc = "one" /\ faults < MaxFaults
  /\ faults' = faults + 1
  /\ hit' = hit \cup {g}
  /\ gets' = Settled(gets, [h \in {g} |-> "error"])
  /\ UNCHANGED <<queues, open, batches, unsupported>>

BatchProgress ==
  \/ \E q \in DOMAIN queues : TimerFires(q)
  \/ \E q \in batches : BatchAnswered(q) \/ BatchFails(q)
  \/ \E g \in Gets : OneAnswered(g) \/ OneFails(g)

BatchNext ==
  \/ \E g \in Gets, ask \in Asks : Get(g, ask)
  \/ BatchProgress
-----------------------------------------------------------------------------
\* What a get may answer when no request for it failed.
RightAnswers(g) ==
  LET right == BatchResult(gets[g].key, gets[g].limit)
  IN IF right = "too large" THEN {right, "error"} ELSE {right}

\* A get answers with the value of its own key, or with the reason there is
\* none, whichever gets it was sent with and whichever server it asked; an
\* error is for a request that failed, or a value beyond the limit.
AnswersAreOwn ==
  \A g \in Gets : gets[g].pc = "settled" =>
    gets[g].answer \in RightAnswers(g) \cup (IF g \in hit THEN {"error"} ELSE {})

GetsWait == \E g \in Gets : gets[g].pc \notin {"none", "settled"}

\* Every get is answered: none is left behind in a queue, a batch that fails, or
\* one that an old server refuses.
GetsSettle == GetsWait ~> ~GetsWait
=============================================================================
