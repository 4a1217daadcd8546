------------------------------ MODULE GuardProofs ------------------------------
(* Theorems about the data guard, for any tree of frames and any bounds. *)
EXTENDS MCDataGuard, SequenceTheorems, TLAPS

(***************************************************************************)
(* The inductive invariant of the requests and rules of a site.            *)
(***************************************************************************)
Busy == {"asking", "remembering", "deleting", "blocking"}
Pcs == Outcomes \cup {"none", "loading", "fetching", "queued"} \cup Busy
Records == [pc : Pcs, source : Sources, kind : Kinds \cup {"none"},
            decision : Decisions \cup {None}, old : SUBSET (1..Len(made))]

Types ==
  /\ approved \subseteq Sources /\ active \in BOOLEAN
  /\ made \in Seq(Rules) /\ Len(made) <= MaxRules
  /\ stored \subseteq 1..Len(made) /\ rules \subseteq 1..Len(made) /\ left \subseteq 1..Len(made)
  /\ loaded \subseteq Sources /\ itemReads \subseteq Sources /\ blocked \subseteq Sources
  /\ queue \in Seq(Requests)
  /\ req \in [Requests -> Records]
  /\ outside \in 0..MaxOutside
  /\ last \in [Grants -> Decisions \cup {None}]
  /\ elsewhere \subseteq Grants

\* Only the request at the front of the queue is being decided.
OneIsDecided == \A r \in Requests : req[r].pc \in Busy => queue # <<>> /\ Head(queue) = r

\* The rules of a grant, or a block <<source, "block">>, among those of a log.
RulesFor(log, ids, g) == {i \in ids : log[i].source = g[1] /\ log[i].method = g[2]}

\* The newest of them has this decision.
Says(log, ids, g, decision) ==
  \E i \in RulesFor(log, ids, g) :
    log[i].decision = decision /\ \A j \in RulesFor(log, ids, g) : j <= i

\* One of them is newer than those that are being deleted.
Outlasts(log, ids, g, old) == \E j \in RulesFor(log, ids, g) : \A i \in old : i < j

\* In the storage, the newest rule for a grant is what the user last decided.  The
\* older ones are those that could not be deleted; they remain if it is revoked.
GrantIsStored(g) ==
  /\ IF last[g] = None THEN RulesFor(made, stored, g) \subseteq left
     ELSE Says(made, stored, g, last[g])
  /\ \A i, j \in RulesFor(made, stored, g) : i < j => i \in left

\* What the page knows of a loaded source agrees with it, or another page decided.
GrantIsKnown(g) ==
  g[1] \in loaded /\ g \notin elsewhere /\ last[g] # None => Says(made, rules, g, last[g])

BlockIsStored(s) ==
  LET g == <<s, "block">>
  IN RulesFor(made, stored, g) # {} /\ (s \in loaded => RulesFor(made, rules, g) # {})

GrantOf(q) == <<q.source, q.kind>>

\* A request has the kinds and the rules that its state calls for.
Sound(q) ==
  /\ q.pc \in Busy \cup {"loading", "fetching", "queued"} => q.kind # "none"
  /\ q.pc \in Busy \cup {"fetching", "queued"} =>
       q.kind \notin {"notice", "stream"} /\ (q.kind # "logout" => q.source \in loaded)
  /\ q.pc = "blocking" => q.kind # "logout"
  /\ q.pc \in {"remembering", "deleting"} =>
       q.kind \in {"read", "delete"} /\ q.decision \in Decisions /\ q.source \notin blocked
  /\ \A i \in q.old : made[i].source = q.source /\ made[i].method = q.kind

\* What it asks the user for is not decided; what it deletes, a newer rule replaces.
Timely(q) ==
  LET g == GrantOf(q) IN
  /\ q.pc = "asking" /\ g \in Grants \ elsewhere => last[g] = None
  /\ q.pc = "deleting" /\ last[g] # None => Outlasts(made, stored, g, q.old)
  /\ q.pc = "deleting" /\ last[g] # None /\ g \notin elsewhere =>
       last[g] = q.decision /\ Outlasts(made, rules, g, q.old)

Memory ==
  /\ \A g \in Grants : GrantIsStored(g) /\ GrantIsKnown(g)
  /\ \A s \in blocked : BlockIsStored(s)

Inv ==
  /\ Types /\ OneIsDecided /\ Memory
  /\ \A r \in Requests : Sound(req[r]) /\ Timely(req[r])
-----------------------------------------------------------------------------
USE SourcesAreATree, KindsAreKnown, BoundsAreNatural, NoneIsNoDecision

LEMMA StateUpdate ==
  ASSUME NEW P, NEW S, NEW K, NEW D, NEW O, NEW pc \in P,
         NEW q \in [pc : P, source : S, kind : K, decision : D, old : O]
  PROVE  [q EXCEPT !.pc = pc] = [pc |-> pc, source |-> q.source, kind |-> q.kind,
                                 decision |-> q.decision, old |-> q.old]
OBVIOUS

LEMMA EndedFits ==
  ASSUME NEW outcome \in Outcomes
  PROVE  /\ Ended(outcome) \in Records
         /\ Ended(outcome).pc = outcome /\ outcome \notin Busy
         /\ Sound(Ended(outcome)) /\ Timely(Ended(outcome))
<1> DEFINE q == Ended(outcome)
<1>1. q = [pc |-> outcome, source |-> <<>>, kind |-> "none", decision |-> None, old |-> {}]
  <2>1. NoRequest = [pc |-> "none", source |-> <<>>, kind |-> "none", decision |-> None, old |-> {}]
    BY DEF NoRequest
  <2>2. NoRequest \in [pc : {"none", outcome}, source : {<<>>}, kind : {"none"}, decision : {None},
                       old : {{}}]
    BY <2>1
  <2>3. PICK n : n = NoRequest
    OBVIOUS
  <2>4. [n EXCEPT !.pc = outcome] = [pc |-> outcome, source |-> n.source, kind |-> n.kind,
                                     decision |-> n.decision, old |-> n.old]
    <3>1. outcome \in {"none", outcome} /\ n \in [pc : {"none", outcome}, source : {<<>>},
                       kind : {"none"}, decision : {None}, old : {{}}]
      BY <2>2, <2>3
    <3> QED BY <3>1, StateUpdate, SMT
  <2> QED BY <2>1, <2>3, <2>4 DEF Ended
<1>2. q \in Records
  BY <1>1 DEF Records, Pcs
<1>3. outcome \notin Busy \cup {"loading", "fetching", "queued", "none"}
  BY DEF Busy, Outcomes
<1>4. Sound(q)
  BY <1>1, <1>3 DEF Sound, Busy
<1>5. Timely(q)
  BY <1>1, <1>3 DEF Timely, Busy
<1> QED BY <1>1, <1>2, <1>3, <1>4, <1>5

LEMMA InitHolds == Init => Inv
<1> SUFFICES ASSUME Init PROVE Inv
  OBVIOUS
<1>1. NoRequest \in [pc : Pcs, source : Sources, kind : Kinds \cup {"none"},
                     decision : Decisions \cup {None}, old : SUBSET (1..Len(<<>>))]
  BY DEF NoRequest, Pcs
<1>2. Types
  <2>1. MaxRules \in Nat /\ MaxOutside \in Nat /\ Len(<<>>) = 0 /\ <<>> \in Seq(Rules)
    OBVIOUS
  <2>2. req \in [Requests -> Records]
    BY <1>1 DEF Init, Records
  <2>3. made \in Seq(Rules) /\ Len(made) <= MaxRules
    BY <2>1 DEF Init
  <2>4. last \in [Grants -> Decisions \cup {None}] /\ queue \in Seq(Requests) /\ outside \in 0..MaxOutside
    BY <2>1 DEF Init
  <2> QED BY <2>2, <2>3, <2>4 DEF Init, Types
<1>3. \A r \in Requests : req[r] = NoRequest
  BY DEF Init
<1>4. NoRequest.pc = "none" /\ NoRequest.old = {}
  BY DEF NoRequest
<1>5. OneIsDecided
  BY <1>3, <1>4 DEF OneIsDecided, Busy
<1>6. Sound(NoRequest) /\ Timely(NoRequest)
  BY <1>4 DEF Sound, Timely, Busy
<1>7. Memory
  <2>1. \A g \in Grants : last[g] = None
    BY DEF Init
  <2>2. \A g : RulesFor(made, stored, g) = {}
    BY DEF Init, RulesFor
  <2> QED BY <2>1, <2>2 DEF Init, Memory, GrantIsStored, GrantIsKnown
<1> QED BY <1>2, <1>3, <1>5, <1>6, <1>7 DEF Inv
-----------------------------------------------------------------------------
(* Rules of a log. *)

LEMMA LaterRules ==
  ASSUME NEW log \in Seq(Rules), NEW rule \in Rules, NEW ids \in SUBSET (1..Len(log)), NEW g
  PROVE  LET new == Len(log) + 1 IN
         /\ Append(log, rule) \in Seq(Rules) /\ Len(Append(log, rule)) = new
         /\ RulesFor(Append(log, rule), ids, g) = RulesFor(log, ids, g)
         /\ RulesFor(Append(log, rule), ids \cup {new}, g) =
              IF g[1] = rule.source /\ g[2] = rule.method THEN RulesFor(log, ids, g) \cup {new}
              ELSE RulesFor(log, ids, g)
<1> DEFINE new == Len(log) + 1
           more == Append(log, rule)
<1>1. more \in Seq(Rules) /\ Len(more) = new /\ more[new] = rule
  OBVIOUS
<1>2. \A i \in ids : more[i] = log[i]
  OBVIOUS
<1> HIDE DEF new, more
<1>3. RulesFor(more, ids, g) = RulesFor(log, ids, g)
  BY <1>2 DEF RulesFor
<1>4. RulesFor(more, ids \cup {new}, g) =
        IF g[1] = rule.source /\ g[2] = rule.method THEN RulesFor(log, ids, g) \cup {new}
        ELSE RulesFor(log, ids, g)
  BY <1>1, <1>2 DEF RulesFor
<1> QED BY <1>1, <1>3, <1>4 DEF new, more

LEMMA LaterSays ==
  ASSUME NEW log \in Seq(Rules), NEW rule \in Rules, NEW ids \in SUBSET (1..Len(log)), NEW g,
         NEW old
  PROVE  /\ \A decision : Says(Append(log, rule), ids, g, decision) <=> Says(log, ids, g, decision)
         /\ Outlasts(Append(log, rule), ids, g, old) <=> Outlasts(log, ids, g, old)
<1>1. \A i \in ids : Append(log, rule)[i] = log[i]
  OBVIOUS
<1>2. RulesFor(Append(log, rule), ids, g) = RulesFor(log, ids, g)
  BY LaterRules
<1>3. \A i \in RulesFor(log, ids, g) : Append(log, rule)[i] = log[i]
  BY <1>1 DEF RulesFor
<1> HIDE <1>1
<1> QED BY <1>2, <1>3 DEF Says, Outlasts

\* A new rule is the newest one of its grant.
LEMMA NewRuleSays ==
  ASSUME NEW log \in Seq(Rules), NEW rule \in Rules, NEW ids \in SUBSET (1..Len(log)),
         NEW g, g[1] = rule.source, g[2] = rule.method, NEW old \in SUBSET (1..Len(log))
  PROVE  /\ Says(Append(log, rule), ids \cup {Len(log) + 1}, g, rule.decision)
         /\ Outlasts(Append(log, rule), ids \cup {Len(log) + 1}, g, old)
<1> DEFINE new == Len(log) + 1
           more == Append(log, rule)
<1>1. RulesFor(more, ids \cup {new}, g) = RulesFor(log, ids, g) \cup {new}
  <2>1. RulesFor(more, ids \cup {new}, g) =
          IF g[1] = rule.source /\ g[2] = rule.method THEN RulesFor(log, ids, g) \cup {new}
          ELSE RulesFor(log, ids, g)
    BY LaterRules, Zenon
  <2> HIDE DEF new, more
  <2> QED BY <2>1
<1>2. more[new] = rule /\ new \in Nat
  OBVIOUS
<1>3. (\A i \in RulesFor(log, ids, g) : i <= new) /\ (\A i \in old : i < new)
  <2>1. \A n \in Nat : \A i \in 1..n : i <= n + 1 /\ i < n + 1
    OBVIOUS
  <2>2. Len(log) \in Nat /\ RulesFor(log, ids, g) \subseteq 1..Len(log) /\ old \subseteq 1..Len(log)
    <3>1. RulesFor(log, ids, g) \subseteq ids
      BY DEF RulesFor
    <3> QED BY <3>1, LenProperties
  <2> QED BY <2>1, <2>2, Zenon DEF new
<1> HIDE DEF new, more
<1>4. Says(more, ids \cup {new}, g, rule.decision)
  <2>1. \A j \in RulesFor(more, ids \cup {new}, g) : j <= new
    BY <1>1, <1>2, <1>3
  <2>2. new \in RulesFor(more, ids \cup {new}, g)
    BY <1>1
  <2> QED BY <1>2, <2>1, <2>2, Zenon DEF Says
<1>5. Outlasts(more, ids \cup {new}, g, old)
  BY <1>1, <1>3 DEF Outlasts
<1> QED BY <1>4, <1>5 DEF new, more

\* What counts is not affected when an older rule goes.
LEMMA OlderRuleGoes ==
  ASSUME NEW log, NEW n \in Nat, NEW ids \in SUBSET (1..n), NEW g, NEW i \in ids,
         NEW j \in RulesFor(log, ids, g), i < j
  PROVE  /\ \A decision : Says(log, ids, g, decision) => Says(log, ids \ {i}, g, decision)
         /\ \A old \in SUBSET (1..n) :
              Outlasts(log, ids, g, old) => Outlasts(log, ids \ {i}, g, old)
<1>1. RulesFor(log, ids \ {i}, g) = RulesFor(log, ids, g) \ {i}
  BY DEF RulesFor
<1>2. RulesFor(log, ids, g) \subseteq 1..n
  BY DEF RulesFor
<1>3. ASSUME NEW decision, Says(log, ids, g, decision) PROVE Says(log, ids \ {i}, g, decision)
  <2>1. PICK k \in RulesFor(log, ids, g) :
          log[k].decision = decision /\ \A x \in RulesFor(log, ids, g) : x <= k
    BY <1>3, Zenon DEF Says
  <2>2. k # i
    BY <1>2, <2>1
  <2> QED BY <1>1, <2>1, <2>2, Zenon DEF Says
<1>4. ASSUME NEW old \in SUBSET (1..n), Outlasts(log, ids, g, old)
      PROVE  Outlasts(log, ids \ {i}, g, old)
  <2>1. PICK k \in RulesFor(log, ids, g) : \A x \in old : x < k
    BY <1>4 DEF Outlasts
  <2>2. CASE k # i
    BY <1>1, <2>1, <2>2 DEF Outlasts
  <2>3. CASE k = i
    <3>1. \A x \in old : x < j
      BY <1>2, <2>1, <2>3
    <3>2. j \in RulesFor(log, ids \ {i}, g)
      <4>1. i \in Nat /\ j \in Nat
        BY <1>2
      <4>2. j # i
        BY <4>1
      <4> QED BY <1>1, <4>2, Zenon
    <3> QED BY <3>1, <3>2, Zenon DEF Outlasts
  <2> QED BY <2>2, <2>3
<1> QED BY <1>3, <1>4

LEMMA SaysDecides ==
  ASSUME NEW ids \in SUBSET (1..Len(made)), made \in Seq(Rules), NEW g, NEW decision,
         Says(made, ids, g, decision)
  PROVE  Decided(ids, g[1], g[2]) = decision
<1> DEFINE of == RulesFor(made, ids, g)
           latest == CHOOSE i \in of : \A j \in of : j <= i
<1>1. PICK i \in of : made[i].decision = decision /\ \A j \in of : j <= i
  BY DEF Says
<1>2. of \subseteq Nat
  <2>1. of \subseteq ids
    BY DEF RulesFor
  <2> HIDE DEF of
  <2>2. Len(made) \in Nat
    BY LenProperties
  <2> QED BY <2>1, <2>2
<1> HIDE DEF of
<1>3. latest \in of /\ \A j \in of : j <= latest
  BY <1>1
<1>4. latest = i
  <2> HIDE DEF latest
  <2> QED BY <1>1, <1>2, <1>3
<1>5. Decided(ids, g[1], g[2]) = made[latest].decision
  <2>1. Of(ids, g[1], g[2]) = of
    BY DEF Of, of, RulesFor
  <2> QED BY <1>1, <2>1 DEF Decided
<1> QED BY <1>1, <1>4, <1>5
-----------------------------------------------------------------------------
(* Steps of one request that leave the rules alone. *)

\* The queue goes on in one of three ways.
LEMMA QueueStep ==
  ASSUME Types, OneIsDecided, NEW r \in Requests, NEW x \in Records,
         req' = [req EXCEPT ![r] = x],
         \/ queue' = queue /\ (x.pc \in Busy => queue # <<>> /\ Head(queue) = r)
         \/ queue' = Append(queue, r) /\ x.pc \notin Busy
         \/ queue' = Tail(queue) /\ x.pc \notin Busy /\ queue # <<>> /\ Head(queue) = r
  PROVE  queue' \in Seq(Requests) /\ OneIsDecided'
<1>1. queue \in Seq(Requests) /\ req \in [Requests -> Records]
  BY DEF Types
<1>2. \A p \in Requests : req'[p] = IF p = r THEN x ELSE req[p]
  BY <1>1
<1>3. CASE queue' = queue /\ (x.pc \in Busy => queue # <<>> /\ Head(queue) = r)
  BY <1>1, <1>2, <1>3 DEF OneIsDecided
<1>4. CASE queue' = Append(queue, r) /\ x.pc \notin Busy
  <2>1. queue' \in Seq(Requests) /\ queue' # <<>> /\ (queue # <<>> => Head(queue') = Head(queue))
    BY <1>1, <1>4
  <2> QED BY <1>2, <1>4, <2>1 DEF OneIsDecided
<1>5. CASE queue' = Tail(queue) /\ x.pc \notin Busy /\ queue # <<>> /\ Head(queue) = r
  <2>1. queue' \in Seq(Requests)
    BY <1>1, <1>5
  <2> QED BY <1>2, <1>5, <2>1 DEF OneIsDecided
<1> QED BY <1>3, <1>4, <1>5

LEMMA QuietRequest ==
  ASSUME Inv, NEW r \in Requests, NEW x \in Records, Sound(x), Timely(x),
         req' = [req EXCEPT ![r] = x], queue' \in Seq(Requests), OneIsDecided',
         approved' \subseteq Sources, itemReads' \subseteq Sources,
         UNCHANGED <<active, outside, rulesVars, history>>
  PROVE  Inv'
<1>1. Types /\ Memory /\ \A p \in Requests : Sound(req[p]) /\ Timely(req[p])
  BY DEF Inv
<1>2. UNCHANGED <<made, stored, loaded, rules, last, blocked, left, elsewhere>>
  BY DEF rulesVars, history
<1>3. req \in [Requests -> Records]
  BY <1>1 DEF Types
<1>4. \A p \in Requests : req'[p] = IF p = r THEN x ELSE req[p]
  BY <1>3
<1>5. req' \in [Requests -> Records']
  BY <1>2, <1>3 DEF Records
<1>6. Types'
  BY <1>1, <1>2, <1>5 DEF Types
<1>7. Memory'
  BY <1>1, <1>2 DEF Memory, GrantIsStored, GrantIsKnown, BlockIsStored
<1>8. ASSUME NEW q, Sound(q), Timely(q) PROVE Sound(q)' /\ Timely(q)'
  <2>1. Sound(q)'
    BY <1>2, <1>8 DEF Sound
  <2>2. Timely(q)'
    BY <1>2, <1>8 DEF Timely
  <2> QED BY <2>1, <2>2
<1>9. ASSUME NEW p \in Requests PROVE Sound(req[p])' /\ Timely(req[p])'
  <2>1. PICK q : q = req'[p] /\ Sound(q) /\ Timely(q)
    BY <1>1, <1>4
  <2>2. Sound(q)' /\ Timely(q)'
    BY <1>8, <2>1
  <2> QED BY <2>1, <2>2 DEF Sound, Timely
<1> QED BY <1>6, <1>7, <1>9 DEF Inv

LEMMA SourceUpdate ==
  ASSUME NEW P, NEW S, NEW K, NEW D, NEW O, NEW source \in S, NEW kind \in K,
         NEW q \in [pc : P, source : S, kind : K, decision : D, old : O]
  PROVE  [q EXCEPT !.source = source, !.kind = kind] =
           [pc |-> q.pc, source |-> source, kind |-> kind, decision |-> q.decision, old |-> q.old]
<1> DEFINE y == [q EXCEPT !.source = source]
<1>1. y = [pc |-> q.pc, source |-> source, kind |-> q.kind, decision |-> q.decision, old |-> q.old]
  OBVIOUS
<1>2. y \in [pc : P, source : S, kind : K, decision : D, old : O]
  BY <1>1
<1>3. [y EXCEPT !.kind = kind] =
        [pc |-> y.pc, source |-> y.source, kind |-> kind, decision |-> y.decision, old |-> y.old]
  <2> HIDE DEF y
  <2> QED BY <1>2
<1>4. [y EXCEPT !.kind = kind] =
        [pc |-> q.pc, source |-> source, kind |-> kind, decision |-> q.decision, old |-> q.old]
  <2> HIDE DEF y
  <2> QED BY <1>1, <1>3
<1> QED BY <1>4, Zenon

LEMMA NewState ==
  ASSUME Types, NEW r \in Requests, NEW pc \in Pcs
  PROVE  LET x == [req[r] EXCEPT !.pc = pc] IN
         /\ x \in Records
         /\ x.pc = pc /\ x.source = req[r].source /\ x.kind = req[r].kind
         /\ x.decision = req[r].decision /\ x.old = req[r].old
<1>1. req[r] \in Records
  BY DEF Types
<1> DEFINE q == req[r]
<1> HIDE DEF q
<1>2. q \in [pc : Pcs, source : Sources, kind : Kinds \cup {"none"},
             decision : Decisions \cup {None}, old : SUBSET (1..Len(made))]
  BY <1>1 DEF Records, q
<1>3. [q EXCEPT !.pc = pc] = [pc |-> pc, source |-> q.source, kind |-> q.kind,
                              decision |-> q.decision, old |-> q.old]
  BY <1>2, StateUpdate
<1> DEFINE x == [q EXCEPT !.pc = pc]
<1> HIDE DEF x
<1>4. x = [pc |-> pc, source |-> q.source, kind |-> q.kind, decision |-> q.decision, old |-> q.old]
  BY <1>3 DEF x
<1>5. x \in Records
  BY <1>2, <1>4 DEF Records
<1>6. /\ x \in Records
      /\ x.pc = pc /\ x.source = q.source /\ x.kind = q.kind
      /\ x.decision = q.decision /\ x.old = q.old
  BY <1>4, <1>5
<1> QED BY <1>6 DEF x, q

\* A request ends, at the front of the queue or outside of it.
LEMMA RequestEnds ==
  ASSUME Inv, NEW r \in Requests, NEW outcome \in Outcomes,
         \/ Put(r, Ended(outcome)) /\ queue' = queue
         \/ Leave(r, outcome) /\ queue # <<>> /\ Head(queue) = r,
         approved' \subseteq Sources, itemReads' \subseteq Sources,
         UNCHANGED <<active, outside, rulesVars, history>>
  PROVE  Inv'
<1> DEFINE x == Ended(outcome)
<1>1. x \in Records /\ x.pc \notin Busy /\ Sound(x) /\ Timely(x)
  BY EndedFits, Zenon
<1> HIDE DEF x
<1>2. req' = [req EXCEPT ![r] = x]
  BY DEF Put, Leave, x
<1>3. Types /\ OneIsDecided
  BY DEF Inv
<1>4. queue' = queue \/ (queue' = Tail(queue) /\ queue # <<>> /\ Head(queue) = r)
  BY DEF Leave
<1>5. queue' \in Seq(Requests) /\ OneIsDecided'
  BY <1>1, <1>2, <1>3, <1>4, QueueStep
<1> QED BY <1>1, <1>2, <1>5, QuietRequest

LEMMA RequestedRecord ==
  ASSUME NEW s \in Sources, NEW kind \in Kinds, NEW pc \in Pcs
  PROVE  [[NoRequest EXCEPT !.source = s, !.kind = kind] EXCEPT !.pc = pc] =
           [pc |-> pc, source |-> s, kind |-> kind, decision |-> None, old |-> {}]
<1> DEFINE R == [pc : Pcs, source : Sources, kind : Kinds \cup {"none"},
                 decision : Decisions \cup {None}, old : SUBSET (1..Len(made))]
<1>1. PICK n : n = NoRequest
  OBVIOUS
<1>2. n \in R /\ n.decision = None /\ n.old = {}
  BY <1>1 DEF NoRequest, Pcs
<1>3. PICK y : y = [n EXCEPT !.source = s, !.kind = kind]
  OBVIOUS
<1>4. y = [pc |-> n.pc, source |-> s, kind |-> kind, decision |-> n.decision, old |-> n.old]
  BY <1>2, <1>3, SourceUpdate
<1>5. y \in R
  BY <1>2, <1>4
<1>6. [y EXCEPT !.pc = pc] = [pc |-> pc, source |-> y.source, kind |-> y.kind,
                              decision |-> y.decision, old |-> y.old]
  BY <1>5, StateUpdate
<1> QED BY <1>1, <1>2, <1>3, <1>4, <1>6

LEMMA RequestStep ==
  ASSUME Inv, NEW r \in Requests, NEW s \in Sources, NEW kind \in Kinds, Request(r, s, kind)
  PROVE  Inv'
<1> DEFINE q == [NoRequest EXCEPT !.source = s, !.kind = kind]
<1>1. ASSUME NEW pc \in {"queued", "loading"}, pc = "queued" => kind = "logout"
      PROVE  LET x == [q EXCEPT !.pc = pc]
             IN x \in Records /\ x.pc = pc /\ Sound(x) /\ Timely(x)
  <2>1. PICK x : x = [q EXCEPT !.pc = pc]
    OBVIOUS
  <2>2. pc \in Pcs
    BY DEF Pcs
  <2>3. x = [pc |-> pc, source |-> s, kind |-> kind, decision |-> None, old |-> {}]
    BY <2>1, <2>2, RequestedRecord
  <2>4. x \in Records
    BY <2>2, <2>3 DEF Records
  <2>5. kind # "none"
    BY DEF AllKinds
  <2>6. Sound(x)
    BY <1>1, <2>3, <2>5 DEF Sound, Busy
  <2>7. Timely(x)
    BY <2>3 DEF Timely
  <2> QED BY <2>1, <2>3, <2>4, <2>6, <2>7
<1>2. Types /\ OneIsDecided
  BY DEF Inv
<1>3. /\ approved' \subseteq Sources /\ itemReads' \subseteq Sources
      /\ UNCHANGED <<active, outside, rulesVars, history>>
  BY <1>2 DEF Types, Request, logins
<1>4. CASE Put(r, Ended("refused")) /\ queue' = queue
  BY <1>3, <1>4, RequestEnds DEF Outcomes
<1>5. CASE kind = "logout" /\ Put(r, [q EXCEPT !.pc = "queued"]) /\ queue' = Append(queue, r)
  <2>1. PICK x : x = [q EXCEPT !.pc = "queued"]
    OBVIOUS
  <2>2. x \in Records /\ x.pc = "queued" /\ Sound(x) /\ Timely(x)
    BY <1>1, <1>5, <2>1
  <2>3. req' = [req EXCEPT ![r] = x]
    BY <1>5, <2>1 DEF Put
  <2>4. queue' \in Seq(Requests) /\ OneIsDecided'
    BY <1>2, <1>5, <2>2, <2>3, QueueStep DEF Busy
  <2> QED BY <1>3, <2>2, <2>3, <2>4, QuietRequest
<1>6. CASE Put(r, [q EXCEPT !.pc = "loading"]) /\ queue' = queue
  <2>1. PICK x : x = [q EXCEPT !.pc = "loading"]
    OBVIOUS
  <2>2. x \in Records /\ x.pc = "loading" /\ Sound(x) /\ Timely(x)
    BY <1>1, <1>6, <2>1
  <2>3. req' = [req EXCEPT ![r] = x]
    BY <1>6, <2>1 DEF Put
  <2>4. queue' \in Seq(Requests) /\ OneIsDecided'
    BY <1>2, <1>6, <2>2, <2>3, QueueStep DEF Busy
  <2> QED BY <1>3, <2>2, <2>3, <2>4, QuietRequest
<1> QED BY <1>4, <1>5, <1>6 DEF Request

LEMMA Advances ==
  ASSUME Inv, NEW r \in Requests, NEW pc \in {"fetching", "queued", "asking", "blocking"},
         Put(r, [req[r] EXCEPT !.pc = pc]),
         \/ queue' = queue /\ (pc \in Busy => queue # <<>> /\ Head(queue) = r)
         \/ queue' = Append(queue, r) /\ pc \notin Busy,
         UNCHANGED <<logins, rulesVars, itemReads, outside, history>>,
         req[r].kind \notin {"none", "notice", "stream"},
         req[r].kind # "logout" => req[r].source \in loaded,
         pc = "blocking" => req[r].kind # "logout",
         pc = "asking" /\ GrantOf(req[r]) \in Grants \ elsewhere => last[GrantOf(req[r])] = None
  PROVE  Inv'
<1>1. Types /\ OneIsDecided /\ Sound(req[r])
  BY DEF Inv
<1>2. pc \in Pcs
  BY DEF Pcs, Busy
<1>3. PICK x : x = [req[r] EXCEPT !.pc = pc]
  OBVIOUS
<1>4. /\ x \in Records
      /\ x.pc = pc /\ x.source = req[r].source /\ x.kind = req[r].kind /\ x.old = req[r].old
  BY <1>1, <1>2, <1>3, NewState
<1>5. req' = [req EXCEPT ![r] = x]
  BY <1>3 DEF Put
<1>6. queue' \in Seq(Requests) /\ OneIsDecided'
  BY <1>1, <1>4, <1>5, QueueStep
<1>7. Sound(x)
  BY <1>1, <1>4 DEF Sound, Busy
<1>8. Timely(x)
  BY <1>4 DEF Timely, GrantOf
<1>9. approved' \subseteq Sources /\ itemReads' \subseteq Sources /\ active' = active
  BY <1>1 DEF Types, logins
<1> QED BY <1>4, <1>5, <1>6, <1>7, <1>8, <1>9, QuietRequest

\* What the page knows decides what it says of a request.
LEMMA StateFollows ==
  ASSUME Inv, NEW r \in Requests, GrantOf(req[r]) \in Grants \ elsewhere,
         req[r].source \in loaded, last[GrantOf(req[r])] # None
  PROVE  State(r) = last[GrantOf(req[r])]
<1> DEFINE q == req[r]
           g == GrantOf(q)
<1>1. Says(made, rules, g, last[g])
  BY DEF Inv, Memory, GrantIsKnown, GrantOf
<1>2. Decided(rules, q.source, q.kind) = last[g]
  <2>1. g[1] = q.source /\ g[2] = q.kind
    BY DEF GrantOf
  <2>2. rules \in SUBSET (1..Len(made)) /\ made \in Seq(Rules)
    BY DEF Inv, Types
  <2> QED BY <1>1, <2>1, <2>2, SaysDecides
<1>3. last[g] # None /\ q.kind \in {"read", "delete"}
  BY DEF GrantOf, Grants
<1> QED BY <1>2, <1>3 DEF State, GrantOf

LEMMA RevokedAreSources ==
  ASSUME approved \subseteq Sources, NEW s \in Sources
  PROVE  Revoked(s) \subseteq Sources
BY DEF Revoked

LEMMA CheckedStep == ASSUME Inv, NEW r \in Requests, Checked(r) PROVE Inv'
<1>1. /\ Types /\ Sound(req[r]) /\ req[r].pc = "loading" /\ req[r].source \in loaded
      /\ req[r].kind # "notice"
      /\ UNCHANGED <<logins, rulesVars, itemReads, queue, outside, history>>
  BY DEF Inv, Checked, Ready
<1>2. approved' \subseteq Sources /\ itemReads' \subseteq Sources /\ active' = active
  BY <1>1 DEF Types, logins
<1>3. CASE \E outcome \in Outcomes : Put(r, Ended(outcome))
  BY <1>1, <1>2, <1>3, RequestEnds
<1>4. CASE req[r].kind # "stream" /\ Put(r, [req[r] EXCEPT !.pc = "fetching"])
  <2>1. req[r].kind # "none" /\ "fetching" \notin Busy
    BY <1>1 DEF Sound, Busy
  <2> QED BY <1>1, <1>4, <2>1, Advances
<1> QED BY <1>3, <1>4 DEF Checked, Outcomes

LEMMA NoticedStep == ASSUME Inv, NEW r \in Requests, Noticed(r) PROVE Inv'
<1>1. Types /\ UNCHANGED <<logins, rulesVars, itemReads, queue, outside, history>>
  BY DEF Inv, Noticed
<1>2. approved' \subseteq Sources /\ itemReads' \subseteq Sources /\ active' = active
  BY <1>1 DEF Types, logins
<1>3. \E outcome \in Outcomes : Put(r, Ended(outcome))
  BY DEF Noticed, Outcomes
<1> QED BY <1>1, <1>2, <1>3, RequestEnds

LEMMA FetchedStep == ASSUME Inv, NEW r \in Requests, Fetched(r) PROVE Inv'
<1>1. /\ Types /\ Sound(req[r]) /\ req[r].pc = "fetching"
      /\ UNCHANGED <<logins, rulesVars, itemReads, outside, history>>
  BY DEF Inv, Fetched
<1>2. approved' \subseteq Sources /\ itemReads' \subseteq Sources /\ active' = active
  BY <1>1 DEF Types, logins
<1>3. CASE Put(r, Ended("failed")) /\ queue' = queue
  BY <1>1, <1>2, <1>3, RequestEnds DEF Outcomes
<1>4. CASE Put(r, [req[r] EXCEPT !.pc = "queued"]) /\ queue' = Append(queue, r)
  <2>1. /\ req[r].kind \notin {"none", "notice", "stream"} /\ "queued" \notin Busy
        /\ req[r].kind # "logout" => req[r].source \in loaded
    BY <1>1 DEF Sound, Busy
  <2> QED BY <1>1, <1>4, <2>1, Advances
<1> QED BY <1>3, <1>4 DEF Fetched

LEMMA DecideStep == ASSUME Inv, NEW r \in Requests, Decide(r) PROVE Inv'
<1>1. /\ Types /\ Sound(req[r]) /\ req[r].pc = "queued" /\ queue # <<>> /\ Head(queue) = r
      /\ UNCHANGED <<logins, rulesVars, itemReads, outside, history>>
  BY DEF Inv, Decide, AtFront
<1>2. approved' \subseteq Sources /\ itemReads' \subseteq Sources /\ active' = active
  BY <1>1 DEF Types, logins
<1>3. CASE \E outcome \in Outcomes : Leave(r, outcome)
  BY <1>1, <1>2, <1>3, RequestEnds
<1>4. CASE State(r) = "ask" /\ Put(r, [req[r] EXCEPT !.pc = "asking"]) /\ queue' = queue
  <2>1. /\ req[r].kind \notin {"none", "notice", "stream"}
        /\ req[r].kind # "logout" => req[r].source \in loaded
    BY <1>1 DEF Sound, Busy
  <2>2. ASSUME GrantOf(req[r]) \in Grants \ elsewhere PROVE last[GrantOf(req[r])] = None
    <3>1. last[GrantOf(req[r])] \in Decisions \cup {None} /\ req[r].kind # "logout"
      BY <1>1, <2>2 DEF Types, GrantOf, Grants
    <3> QED BY <1>4, <2>1, <2>2, <3>1, StateFollows DEF Decisions
  <2> QED BY <1>1, <1>4, <2>1, <2>2, Advances
<1> QED BY <1>3, <1>4 DEF Decide, Outcomes

\* The prompt is answered in a way that leaves nothing to write.
LEMMA AnswerSteps ==
  ASSUME Inv, NEW r \in Requests, Refuse(r) \/ AllowOnce(r) \/ LeaveSite(r) \/ LeaveDevice(r)
  PROVE  Inv'
<1>1. /\ Types /\ queue # <<>> /\ Head(queue) = r
      /\ req[r].source \in Sources
      /\ UNCHANGED <<active, rulesVars, outside, history>>
  BY DEF Inv, Types, Records, Refuse, AllowOnce, LeaveSite, LeaveDevice, AtFront, logins
<1>2. approved' \subseteq Sources
  BY <1>1, RevokedAreSources DEF Types, Refuse, AllowOnce, LeaveSite, LeaveDevice, logins
<1>3. itemReads' \subseteq Sources
  BY <1>1 DEF Types, Refuse, AllowOnce, LeaveSite, LeaveDevice
<1>4. \E outcome \in Outcomes : Leave(r, outcome)
  BY DEF Refuse, AllowOnce, LeaveSite, LeaveDevice, Outcomes
<1> QED BY <1>1, <1>2, <1>3, <1>4, RequestEnds

LEMMA BlockStep == ASSUME Inv, NEW r \in Requests, Block(r) PROVE Inv'
<1>1. /\ Types /\ Sound(req[r]) /\ req[r].pc = "asking" /\ queue # <<>> /\ Head(queue) = r
      /\ req[r].kind # "logout" /\ Put(r, [req[r] EXCEPT !.pc = "blocking"])
      /\ UNCHANGED <<logins, rulesVars, itemReads, queue, outside, history>>
  BY DEF Inv, Block, AtFront
<1>2. req[r].kind \notin {"none", "notice", "stream"} /\ req[r].source \in loaded
  BY <1>1 DEF Sound, Busy
<1> QED BY <1>1, <1>2, Advances

LEMMA DecisionUpdate ==
  ASSUME NEW P, NEW S, NEW K, NEW D, NEW O, NEW decision \in D,
         NEW q \in [pc : P, source : S, kind : K, decision : D, old : O]
  PROVE  [q EXCEPT !.decision = decision] = [pc |-> q.pc, source |-> q.source, kind |-> q.kind,
                                             decision |-> decision, old |-> q.old]
OBVIOUS

LEMMA OldUpdate ==
  ASSUME NEW P, NEW S, NEW K, NEW D, NEW O, NEW old \in O,
         NEW q \in [pc : P, source : S, kind : K, decision : D, old : O]
  PROVE  [q EXCEPT !.old = old] = [pc |-> q.pc, source |-> q.source, kind |-> q.kind,
                                   decision |-> q.decision, old |-> old]
OBVIOUS

LEMMA RememberedRecord ==
  ASSUME NEW q \in Records, NEW decision \in Decisions, NEW old \in SUBSET (1..Len(made))
  PROVE  [q EXCEPT !.pc = "remembering", !.decision = decision, !.old = old] =
           [pc |-> "remembering", source |-> q.source, kind |-> q.kind, decision |-> decision,
            old |-> old]
<1> DEFINE R == [pc : Pcs, source : Sources, kind : Kinds \cup {"none"},
                 decision : Decisions \cup {None}, old : SUBSET (1..Len(made))]
<1>1. q \in R /\ "remembering" \in Pcs
  BY DEF Records, Pcs, Busy
<1>2. PICK y : y = [q EXCEPT !.pc = "remembering"]
  OBVIOUS
<1>3. y = [pc |-> "remembering", source |-> q.source, kind |-> q.kind, decision |-> q.decision,
           old |-> q.old]
  BY <1>1, <1>2, StateUpdate
<1>4. y \in R
  BY <1>1, <1>3
<1>5. PICK z : z = [y EXCEPT !.decision = decision]
  OBVIOUS
<1>6. z = [pc |-> y.pc, source |-> y.source, kind |-> y.kind, decision |-> decision, old |-> y.old]
  BY <1>4, <1>5, DecisionUpdate
<1>7. z \in R
  BY <1>4, <1>6
<1>8. PICK w : w = [z EXCEPT !.old = old]
  OBVIOUS
<1>9. w = [pc |-> z.pc, source |-> z.source, kind |-> z.kind, decision |-> z.decision, old |-> old]
  BY <1>7, <1>8, OldUpdate
<1>10. [q EXCEPT !.pc = "remembering", !.decision = decision, !.old = old] = w
  BY <1>2, <1>5, <1>8, Zenon
<1> QED BY <1>3, <1>6, <1>9, <1>10

LEMMA RememberStep ==
  ASSUME Inv, NEW r \in Requests, NEW decision \in Decisions, Remember(r, decision)
  PROVE  Inv'
<1> DEFINE q == req[r]
           old == Old(r)
<1>1. /\ Types /\ OneIsDecided /\ Sound(q) /\ q \in Records
      /\ q.pc = "asking" /\ queue # <<>> /\ Head(queue) = r /\ q.kind \in {"read", "delete"}
      /\ req' = [req EXCEPT ![r] =
                   [q EXCEPT !.pc = "remembering", !.decision = decision, !.old = old]]
      /\ UNCHANGED <<logins, rulesVars, itemReads, queue, outside, history>>
  BY DEF Inv, Types, Remember, AtFront, Put
<1>2. old \in SUBSET (1..Len(made)) /\ \A i \in old : made[i].source = q.source /\ made[i].method = q.kind
  BY <1>1 DEF Types, Old, Of
<1>3. q.source \in loaded /\ q.source \notin blocked
  <2>1. q.source \in loaded
    BY <1>1 DEF Sound, Busy
  <2>2. Of(rules, q.source, "block") = {}
    BY <1>1 DEF Remember, Passes, IsBlocked
  <2>3. q.source \in blocked => RulesFor(made, rules, <<q.source, "block">>) # {}
    BY <2>1 DEF Inv, Memory, BlockIsStored
  <2> QED BY <2>1, <2>2, <2>3 DEF Of, RulesFor
<1> HIDE DEF q, old
<1>4. PICK x : x = [q EXCEPT !.pc = "remembering", !.decision = decision, !.old = old]
  OBVIOUS
<1>5. x = [pc |-> "remembering", source |-> q.source, kind |-> q.kind, decision |-> decision,
           old |-> old]
  BY <1>1, <1>2, <1>4, RememberedRecord
<1>6. x \in Records
  <2>1. q.source \in Sources /\ q.kind \in Kinds \cup {"none"} /\ "remembering" \in Pcs
    BY <1>1 DEF Records, Pcs, Busy
  <2> QED BY <1>2, <1>5, <2>1 DEF Records
<1>7. Sound(x)
  BY <1>1, <1>2, <1>3, <1>5 DEF Sound
<1>8. Timely(x)
  BY <1>5 DEF Timely
<1>9. req' = [req EXCEPT ![r] = x]
  BY <1>1, <1>4
<1>10. queue' \in Seq(Requests) /\ OneIsDecided'
  BY <1>1, <1>6, <1>9, QueueStep
<1>11. approved' \subseteq Sources /\ itemReads' \subseteq Sources /\ active' = active
  BY <1>1 DEF Types, logins
<1> QED BY <1>1, <1>6, <1>7, <1>8, <1>9, <1>10, <1>11, QuietRequest

\* Steps of the logins alone.
LEMMA LoginSteps ==
  ASSUME Inv, LogIn \/ LogOut \/ \E s \in Sources : Grant(s) \/ LeftElsewhere(s)
  PROVE  Inv'
<1>1. Types /\ OneIsDecided /\ Memory /\ \A p \in Requests : Sound(req[p]) /\ Timely(req[p])
  BY DEF Inv
<1>2. UNCHANGED <<made, stored, loaded, rules, itemReads, queue, req, outside, last, blocked, left,
                  elsewhere>>
  BY DEF LogIn, LogOut, Grant, LeftElsewhere, rulesVars, history
<1>3. approved' \subseteq Sources /\ active' \in BOOLEAN
  BY <1>1, RevokedAreSources DEF Types, LogIn, LogOut, Grant, LeftElsewhere
<1>4. Types'
  BY <1>1, <1>2, <1>3 DEF Types, Records
<1>5. Memory' /\ OneIsDecided'
  BY <1>1, <1>2 DEF Memory, GrantIsStored, GrantIsKnown, BlockIsStored, OneIsDecided
<1>6. ASSUME NEW p \in Requests PROVE Sound(req[p])' /\ Timely(req[p])'
  BY <1>1, <1>2 DEF Sound, Timely
<1> QED BY <1>4, <1>5, <1>6 DEF Inv
-----------------------------------------------------------------------------
(* Steps that change rules. *)

LEMMA SameSays ==
  ASSUME NEW log, NEW more, NEW ids, NEW others, NEW g,
         RulesFor(more, others, g) = RulesFor(log, ids, g),
         \A i \in RulesFor(log, ids, g) : more[i] = log[i]
  PROVE  /\ \A decision : Says(more, others, g, decision) <=> Says(log, ids, g, decision)
         /\ \A old : Outlasts(more, others, g, old) <=> Outlasts(log, ids, g, old)
BY DEF Says, Outlasts

LEMMA DiscoveredStep ==
  ASSUME Inv, NEW s \in Sources, NEW complete \in BOOLEAN, Discovered(s, complete)
  PROVE  Inv'
<1>1. Types /\ OneIsDecided /\ Memory /\ \A p \in Requests : Sound(req[p]) /\ Timely(req[p])
  BY DEF Inv
<1>2. UNCHANGED <<approved, active, made, stored, itemReads, queue, req, outside, last, blocked,
                  left, elsewhere>>
  BY DEF Discovered, logins, history
<1>3. loaded' = IF complete THEN loaded \cup {s} ELSE loaded
  BY DEF Discovered
<1>4. rules' = IF complete
                 THEN {i \in rules : made[i].source # s} \cup {i \in stored : made[i].source = s}
                 ELSE rules
  BY DEF Discovered, Updated
<1>5. ASSUME NEW g
      PROVE  RulesFor(made, rules', g) = IF complete /\ g[1] = s THEN RulesFor(made, stored, g)
                                         ELSE RulesFor(made, rules, g)
  BY <1>4 DEF RulesFor
<1>6. Types'
  BY <1>1, <1>2, <1>3, <1>4 DEF Types, Records
<1>7. OneIsDecided'
  BY <1>1, <1>2 DEF OneIsDecided
<1>8. ASSUME NEW g
      PROVE  /\ complete /\ g[1] = s =>
                  \A decision : Says(made, stored, g, decision) => Says(made, rules', g, decision)
             /\ ~(complete /\ g[1] = s) =>
                  \A decision : Says(made, rules, g, decision) => Says(made, rules', g, decision)
             /\ complete /\ g[1] = s =>
                  \A old : Outlasts(made, stored, g, old) => Outlasts(made, rules', g, old)
             /\ ~(complete /\ g[1] = s) =>
                  \A old : Outlasts(made, rules, g, old) => Outlasts(made, rules', g, old)
  BY <1>5 DEF Says, Outlasts
<1>9. Memory'
  <2>1. ASSUME NEW g \in Grants PROVE GrantIsStored(g)'
    BY <1>1, <1>2 DEF Memory, GrantIsStored
  <2>2. ASSUME NEW g \in Grants PROVE GrantIsKnown(g)'
    BY <1>1, <1>2, <1>3, <1>8 DEF Memory, GrantIsStored, GrantIsKnown
  <2>3. ASSUME NEW t \in blocked PROVE BlockIsStored(t)'
    <3> DEFINE g == <<t, "block">>
    <3>1. RulesFor(made, stored, g) # {} /\ (t \in loaded => RulesFor(made, rules, g) # {})
      BY <1>1 DEF Memory, BlockIsStored
    <3>2. t \in loaded' => RulesFor(made, rules', g) # {}
      BY <1>3, <1>5, <3>1
    <3> QED BY <1>2, <3>1, <3>2 DEF BlockIsStored
  <2> QED BY <1>2, <2>1, <2>2, <2>3 DEF Memory
<1>10. ASSUME NEW p \in Requests PROVE Sound(req[p])' /\ Timely(req[p])'
  <2>1. Sound(req[p])'
    BY <1>1, <1>2, <1>3 DEF Sound
  <2>2. Timely(req[p])'
    BY <1>1, <1>2, <1>8 DEF Timely
  <2> QED BY <2>1, <2>2
<1> QED BY <1>6, <1>7, <1>9, <1>10 DEF Inv

\* Requests that are not being decided do not depend on what the user decided.
LEMMA OthersStay ==
  ASSUME Types, NEW q \in Records, Sound(q), q.pc \notin Busy,
         loaded \subseteq loaded', \A i \in 1..Len(made) : made'[i] = made[i]
  PROVE  Sound(q)' /\ Timely(q)'
<1>1. q.old \subseteq 1..Len(made)
  BY DEF Records
<1>2. q.pc \notin {"asking", "remembering", "deleting", "blocking"}
  BY DEF Busy
<1>3. Sound(q)'
  BY <1>1, <1>2 DEF Sound, Busy
<1>4. Timely(q)'
  BY <1>2 DEF Timely
<1> QED BY <1>3, <1>4

LEMMA LogGrows ==
  ASSUME Types, NEW rule \in Rules, Len(made) < MaxRules, made' = Append(made, rule)
  PROVE  /\ made' \in Seq(Rules) /\ Len(made') = Len(made) + 1 /\ Len(made') <= MaxRules
         /\ \A i \in 1..Len(made) : made'[i] = made[i]
         /\ 1..Len(made) \subseteq 1..Len(made') /\ Len(made') \in 1..Len(made')
         /\ Records \subseteq Records'
<1>1. made \in Seq(Rules) /\ MaxRules \in Nat
  BY DEF Types
<1>2. made' \in Seq(Rules) /\ Len(made') = Len(made) + 1 /\ \A i \in 1..Len(made) : made'[i] = made[i]
  BY <1>1
<1>3. Len(made) \in Nat
  BY <1>1
<1>4. \A n \in Nat : 1..n \subseteq 1..(n + 1) /\ n + 1 \in 1..(n + 1) /\ (n < MaxRules => n + 1 <= MaxRules)
  BY <1>1
<1>5. 1..Len(made) \subseteq 1..Len(made') /\ Len(made') \in 1..Len(made') /\ Len(made') <= MaxRules
  BY <1>2, <1>3, <1>4, Zenon
<1>6. Records \subseteq Records'
  BY <1>5 DEF Records
<1> QED BY <1>2, <1>5, <1>6

\* A new rule of one grant, or a block, is none of another one's.
LEMMA OtherGrant ==
  ASSUME Types, NEW rule \in Rules, made' = Append(made, rule), NEW g,
         ~(g[1] = rule.source /\ g[2] = rule.method), NEW ids \in SUBSET (1..Len(made))
  PROVE  LET more == ids \cup {Len(made) + 1} IN
         /\ RulesFor(made', more, g) = RulesFor(made, ids, g)
         /\ \A decision : Says(made', more, g, decision) <=> Says(made, ids, g, decision)
         /\ \A old : Outlasts(made', more, g, old) <=> Outlasts(made, ids, g, old)
<1> DEFINE more == ids \cup {Len(made) + 1}
<1>1. made \in Seq(Rules)
  BY DEF Types
<1>2. RulesFor(made', more, g) = RulesFor(made, ids, g)
  BY <1>1, LaterRules
<1>3. \A i \in RulesFor(made, ids, g) : made'[i] = made[i]
  <2>1. \A i \in 1..Len(made) : made'[i] = made[i]
    BY <1>1
  <2> QED BY <2>1 DEF RulesFor
<1> HIDE DEF more
<1>4. /\ \A decision : Says(made', more, g, decision) <=> Says(made, ids, g, decision)
      /\ \A old : Outlasts(made', more, g, old) <=> Outlasts(made, ids, g, old)
  BY <1>2, <1>3, SameSays
<1> QED BY <1>2, <1>4 DEF more

\* Some of the rules that a new one replaces are gone at once.
LEMMA DecidedStored ==
  ASSUME Types, \A g \in Grants : GrantIsStored(g),
         NEW rule \in Rules, <<rule.source, rule.method>> \in Grants, made' = Append(made, rule),
         NEW away \in SUBSET RulesFor(made, stored, <<rule.source, rule.method>>),
         stored' = (stored \ away) \cup {Len(made) + 1},
         last' = [last EXCEPT ![<<rule.source, rule.method>>] = rule.decision],
         left' = left \cup RulesFor(made, stored, <<rule.source, rule.method>>)
  PROVE  \A g \in Grants : GrantIsStored(g)'
<1> DEFINE n == Len(made) + 1
           h == <<rule.source, rule.method>>
           rest == stored \ away
<1>1. /\ made \in Seq(Rules) /\ stored \in SUBSET (1..Len(made)) /\ rest \in SUBSET (1..Len(made))
      /\ last \in [Grants -> Decisions \cup {None}]
  BY DEF Types
<1>2. rule.decision \in Decisions /\ rule.decision # None
  BY DEF Rules, Decisions
<1>3. \A g \in Grants : last'[g] = IF g = h THEN rule.decision ELSE last[g]
  BY <1>1
<1> SUFFICES ASSUME NEW g \in Grants PROVE GrantIsStored(g)'
  OBVIOUS
<1>4. RulesFor(made, rest, g) \subseteq RulesFor(made, stored, g)
  BY DEF RulesFor
<1>5. RulesFor(made', stored', g) =
        IF g = h THEN RulesFor(made, rest, g) \cup {n} ELSE RulesFor(made, rest, g)
  <2>1. g = h <=> g[1] = rule.source /\ g[2] = rule.method
    BY DEF Grants
  <2>2. RulesFor(Append(made, rule), rest \cup {Len(made) + 1}, g) =
          IF g[1] = rule.source /\ g[2] = rule.method
          THEN RulesFor(made, rest, g) \cup {Len(made) + 1} ELSE RulesFor(made, rest, g)
    <3> HIDE DEF rest
    <3> QED BY <1>1, LaterRules
  <2> HIDE DEF h, rest
  <2>3. stored' = rest \cup {Len(made) + 1}
    BY DEF rest
  <2> QED BY <2>1, <2>2, <2>3
<1>6. CASE g = h
  <2>1. Says(made', stored', g, rule.decision)
    <3>1. g[1] = rule.source /\ g[2] = rule.method /\ {} \in SUBSET (1..Len(made))
      BY <1>6
    <3> HIDE DEF rest, h
    <3>2. Says(Append(made, rule), rest \cup {Len(made) + 1}, g, rule.decision)
      BY <1>1, <3>1, NewRuleSays
    <3>3. stored' = rest \cup {Len(made) + 1}
      BY DEF rest
    <3> QED BY <3>2, <3>3
  <2>2. ASSUME NEW i \in RulesFor(made', stored', g), NEW j \in RulesFor(made', stored', g), i < j
        PROVE  i \in left'
    <3>1. i \in RulesFor(made, rest, g) \cup {n} /\ j \in RulesFor(made, rest, g) \cup {n}
      BY <1>5, <1>6, <2>2
    <3>2. RulesFor(made, rest, g) \subseteq 1..Len(made) /\ Len(made) \in Nat
      <4>1. RulesFor(made, rest, g) \subseteq rest
        BY DEF RulesFor
      <4> QED BY <1>1, <4>1, LenProperties
    <3>3. \A m \in Nat : \A k \in (1..m) \cup {m + 1} : ~(m + 1 < k)
      OBVIOUS
    <3>4. i # n
      BY <2>2, <3>1, <3>2, <3>3, Zenon
    <3>5. i \in RulesFor(made, stored, h)
      BY <1>4, <1>6, <3>1, <3>4
    <3> QED BY <3>5
  <2> QED BY <1>2, <1>3, <1>6, <2>1, <2>2 DEF GrantIsStored
<1>7. CASE g # h
  <2>1. RulesFor(made, rest, g) = RulesFor(made, stored, g)
    BY <1>7 DEF RulesFor, Grants
  <2>2. RulesFor(made', stored', g) = RulesFor(made, stored, g) /\ last'[g] = last[g]
    BY <1>3, <1>5, <1>7, <2>1
  <2>3. \A i \in RulesFor(made, stored, g) : made'[i] = made[i]
    <3>1. \A i \in 1..Len(made) : made'[i] = made[i]
      BY <1>1
    <3> QED BY <1>1, <3>1 DEF RulesFor
  <2>4. \A decision : Says(made', stored', g, decision) <=> Says(made, stored, g, decision)
    <3>1. PICK more, others : more = made' /\ others = stored'
      OBVIOUS
    <3>2. \A decision : Says(more, others, g, decision) <=> Says(made, stored, g, decision)
      <4>1. RulesFor(more, others, g) = RulesFor(made, stored, g)
        BY <2>2, <3>1
      <4>2. \A i \in RulesFor(made, stored, g) : more[i] = made[i]
        BY <2>3, <3>1
      <4> QED BY <4>1, <4>2, SameSays, Zenon
    <3> QED BY <3>1, <3>2, Zenon
  <2>5. GrantIsStored(g)
    OBVIOUS
  <2> HIDE DEF h, rest, n
  <2> QED BY <2>2, <2>4, <2>5 DEF GrantIsStored
<1> QED BY <1>6, <1>7

\* A decision that is stored, and that the page does not know of.
LEMMA DecisionIsStored ==
  ASSUME Inv, NEW g \in Grants, NEW decision \in Decisions,
         NEW rule, rule = [source |-> g[1], method |-> g[2], decision |-> decision],
         Len(made) < MaxRules, made' = Append(made, rule),
         NEW away \in SUBSET RulesFor(made, stored, g),
         stored' = (stored \ away) \cup {Len(made')},
         last' = [last EXCEPT ![g] = decision],
         left' = left \cup RulesFor(made, stored, g), elsewhere' = elsewhere \cup {g},
         UNCHANGED <<approved, active, loaded, rules, itemReads, blocked>>,
         req' \in [Requests -> Records], queue' \in Seq(Requests), outside' \in 0..MaxOutside
  PROVE  /\ Types' /\ Memory' /\ \A i \in 1..Len(made) : made'[i] = made[i]
         /\ \A q \in Records : Sound(q) /\ Timely(q) => Sound(q)' /\ Timely(q)'
<1> DEFINE n == Len(made) + 1
<1>1. Types /\ OneIsDecided /\ Memory
  BY DEF Inv
<1>2. /\ rule \in Rules /\ <<rule.source, rule.method>> = g /\ g[2] # "block"
      /\ rule.source = g[1] /\ rule.method = g[2] /\ rule.decision = decision
  BY DEF Rules, Grants
<1>3. /\ Len(made) < MaxRules /\ made' = Append(made, rule)
      /\ last' = [last EXCEPT ![g] = decision]
      /\ left' = left \cup RulesFor(made, stored, g)
      /\ elsewhere' = elsewhere \cup {g}
      /\ UNCHANGED <<approved, active, loaded, rules, itemReads, blocked>>
  OBVIOUS
<1>4. /\ made' \in Seq(Rules) /\ Len(made') = n /\ Len(made') <= MaxRules
      /\ \A i \in 1..Len(made) : made'[i] = made[i]
      /\ 1..Len(made) \subseteq 1..Len(made') /\ Len(made') \in 1..Len(made')
      /\ Records \subseteq Records'
  BY <1>1, <1>2, <1>3, LogGrows
<1>5. stored' = (stored \ away) \cup {n}
  BY <1>4
<1>6. Types'
  <2>1. stored' \subseteq 1..Len(made') /\ rules' \subseteq 1..Len(made') /\ left' \subseteq 1..Len(made')
    BY <1>1, <1>3, <1>4, <1>5 DEF Types, RulesFor
  <2>2. req' \in [Requests -> Records']
    BY <1>4
  <2>3. last' \in [Grants -> Decisions \cup {None}] /\ elsewhere' \subseteq Grants
    BY <1>1, <1>3 DEF Types
  <2> QED BY <1>1, <1>3, <1>4, <2>1, <2>2, <2>3 DEF Types
<1>8. \A h \in Grants : GrantIsStored(h)'
  <2>1. last' = [last EXCEPT ![<<rule.source, rule.method>>] = rule.decision]
    BY <1>2, <1>3
  <2>2. left' = left \cup RulesFor(made, stored, <<rule.source, rule.method>>)
    BY <1>2, <1>3
  <2>3. away \in SUBSET RulesFor(made, stored, <<rule.source, rule.method>>)
    BY <1>2, <1>5
  <2>4. <<rule.source, rule.method>> \in Grants
    BY <1>2
  <2> QED BY <1>1, <1>2, <1>3, <1>5, <2>1, <2>2, <2>3, <2>4, DecidedStored DEF Memory
<1>9. ASSUME NEW h, h # g, h[1] # g[1] \/ h[2] # g[2]
      PROVE  /\ RulesFor(made', rules', h) = RulesFor(made, rules, h)
             /\ RulesFor(made', stored', h) = RulesFor(made, stored, h)
             /\ \A dec : Says(made', rules', h, dec) <=> Says(made, rules, h, dec)
             /\ \A old : Outlasts(made', rules', h, old) <=> Outlasts(made, rules, h, old)
             /\ \A old : Outlasts(made', stored', h, old) <=> Outlasts(made, stored, h, old)
  <2>1. made \in Seq(Rules) /\ rules \in SUBSET (1..Len(made)) /\ stored \in SUBSET (1..Len(made))
    BY <1>1 DEF Types
  <2>2. RulesFor(made', rules', h) = RulesFor(made, rules, h)
    BY <1>3, <1>4, <2>1 DEF RulesFor
  <2>3. \A i \in RulesFor(made, rules, h) \cup RulesFor(made, stored, h) : made'[i] = made[i]
    BY <1>4, <2>1 DEF RulesFor
  <2>4. RulesFor(made', stored', h) = RulesFor(made, stored \ away, h)
    <3>1. stored \ away \in SUBSET (1..Len(made))
      BY <2>1
    <3>2. ~(h[1] = rule.source /\ h[2] = rule.method)
      BY <1>2, <1>9
    <3>3. PICK ids : ids = stored \ away
      OBVIOUS
    <3>4. ids \in SUBSET (1..Len(made)) /\ stored' = ids \cup {Len(made) + 1}
      BY <1>5, <3>1, <3>3
    <3>5. rule \in Rules /\ made' = Append(made, rule)
      BY <1>2, <1>3
    <3>6. RulesFor(made', ids \cup {Len(made) + 1}, h) = RulesFor(made, ids, h)
      BY <1>1, <3>2, <3>4, <3>5, OtherGrant
    <3> QED BY <3>3, <3>4, <3>6
  <2>5. RulesFor(made, stored \ away, h) = RulesFor(made, stored, h)
    BY <1>5, <1>9 DEF RulesFor
  <2>6. RulesFor(made', stored', h) = RulesFor(made, stored, h)
    BY <2>4, <2>5
  <2>7. /\ \A dec : Says(made', rules', h, dec) <=> Says(made, rules, h, dec)
        /\ \A old : Outlasts(made', rules', h, old) <=> Outlasts(made, rules, h, old)
    BY <2>2, <2>3, SameSays
  <2>8. \A old : Outlasts(made', stored', h, old) <=> Outlasts(made, stored, h, old)
    <3>1. PICK more, others : more = made' /\ others = stored'
      OBVIOUS
    <3>2. RulesFor(more, others, h) = RulesFor(made, stored, h)
      BY <2>6, <3>1
    <3>3. \A i \in RulesFor(made, stored, h) : more[i] = made[i]
      BY <2>3, <3>1
    <3>4. \A old : Outlasts(more, others, h, old) <=> Outlasts(made, stored, h, old)
      BY <3>2, <3>3, SameSays
    <3> QED BY <3>1, <3>4
  <2> QED BY <2>2, <2>6, <2>7, <2>8
<1>10. Memory'
  <2>1. ASSUME NEW h \in Grants PROVE GrantIsKnown(h)'
    <3>1. CASE h = g
      BY <1>3, <3>1 DEF GrantIsKnown
    <3>2. CASE h # g
      <4>1. h[1] # g[1] \/ h[2] # g[2]
        BY <3>2 DEF Grants
      <4>2. last'[h] = last[h]
        BY <1>1, <1>3, <3>2 DEF Types
      <4> QED BY <1>1, <1>3, <1>9, <3>2, <4>1, <4>2 DEF Memory, GrantIsKnown
    <3> QED BY <3>1, <3>2
  <2>2. ASSUME NEW s \in blocked PROVE BlockIsStored(s)'
    <3> DEFINE h == <<s, "block">>
    <3>1. RulesFor(made, stored, h) # {} /\ (s \in loaded => RulesFor(made, rules, h) # {})
      BY <1>1 DEF Memory, BlockIsStored
    <3>2. h # g /\ (h[1] # g[1] \/ h[2] # g[2])
      BY <1>2
    <3>3. RulesFor(made', rules', h) = RulesFor(made, rules, h) /\
          RulesFor(made', stored', h) = RulesFor(made, stored, h)
      <4> HIDE DEF h
      <4> QED BY <1>9, <3>2
    <3> QED BY <1>3, <3>1, <3>3 DEF BlockIsStored
  <2> QED BY <1>3, <1>8, <2>1, <2>2 DEF Memory
<1>11. ASSUME NEW q \in Records, Sound(q), Timely(q) PROVE Sound(q)' /\ Timely(q)'
  <2> DEFINE h == GrantOf(q)
  <2>1. q \in Records /\ Sound(q) /\ Timely(q)
    BY <1>11
  <2>2. Sound(q)'
    <3>1. q.old \subseteq 1..Len(made)
      BY <2>1 DEF Records
    <3> QED BY <1>3, <1>4, <2>1, <3>1 DEF Sound
  <2>3. Timely(q)'
    <3>1. CASE h = g
      <4>1. Outlasts(made', stored', h, q.old)
        <5>1. h[1] = rule.source /\ h[2] = rule.method /\ q.old \in SUBSET (1..Len(made))
          BY <1>2, <2>1, <3>1 DEF Records
        <5>2. made \in Seq(Rules) /\ stored \ away \in SUBSET (1..Len(made))
          BY <1>1 DEF Types
        <5> HIDE DEF h
        <5>3. Outlasts(Append(made, rule), (stored \ away) \cup {Len(made) + 1}, h, q.old)
          BY <1>2, <5>1, <5>2, NewRuleSays
        <5> QED BY <1>3, <1>5, <5>3
      <4>2. h \in elsewhere'
        BY <1>3, <3>1
      <4> QED BY <4>1, <4>2 DEF Timely
    <3>2. CASE h # g
      <4>1. h[1] # g[1] \/ h[2] # g[2]
        <5>1. h = <<q.source, q.kind>>
          BY DEF GrantOf
        <5> QED BY <3>2, <5>1 DEF Grants
      <4>2. h \in Grants => last'[h] = last[h]
        BY <1>1, <1>3, <3>2 DEF Types
      <4>3. q.pc = "deleting" => h \in Grants
        <5>1. q.pc = "deleting" => q.kind \in {"read", "delete"} /\ q.kind # "none"
          BY <2>1 DEF Sound
        <5>2. q.source \in Sources /\ q.kind \in Kinds \cup {"none"}
          BY <2>1 DEF Records
        <5> QED BY <5>1, <5>2 DEF Grants, GrantOf
      <4> HIDE DEF h
      <4>4. /\ q.pc = "asking" /\ h \in Grants \ elsewhere => last[h] = None
            /\ q.pc = "deleting" /\ last[h] # None => Outlasts(made, stored, h, q.old)
            /\ q.pc = "deleting" /\ last[h] # None /\ h \notin elsewhere =>
                 last[h] = q.decision /\ Outlasts(made, rules, h, q.old)
        BY <2>1 DEF Timely, h
      <4>5. /\ q.pc = "asking" /\ h \in Grants \ elsewhere' => last'[h] = None
            /\ q.pc = "deleting" /\ last'[h] # None => Outlasts(made', stored', h, q.old)
            /\ q.pc = "deleting" /\ last'[h] # None /\ h \notin elsewhere' =>
                 last'[h] = q.decision /\ Outlasts(made', rules', h, q.old)
        BY <1>3, <1>9, <3>2, <4>1, <4>2, <4>3, <4>4
      <4> QED BY <4>5 DEF Timely, h
    <3> QED BY <3>1, <3>2
  <2> QED BY <2>2, <2>3
<1> QED BY <1>4, <1>6, <1>10, <1>11

LEMMA RememberedElsewhereStep ==
  ASSUME Inv, NEW g \in Grants, NEW decision \in Decisions,
         RememberedElsewhere(g[1], g[2], decision)
  PROVE  Inv'
<1> DEFINE rule == [source |-> g[1], method |-> g[2], decision |-> decision]
<1>1. /\ Types /\ OneIsDecided /\ req \in [Requests -> Records]
      /\ \A p \in Requests : Sound(req[p]) /\ Timely(req[p])
  BY DEF Inv, Types
<1>2. g = <<g[1], g[2]>>
  BY DEF Grants
<1>3. /\ Len(made) < MaxRules /\ made' = Append(made, rule)
      /\ last' = [last EXCEPT ![g] = decision]
      /\ left' = left \cup RulesFor(made, stored, g)
      /\ elsewhere' = elsewhere \cup {g}
      /\ outside < MaxOutside /\ outside' = outside + 1
      /\ UNCHANGED <<approved, active, loaded, rules, itemReads, queue, req, blocked>>
  BY <1>2 DEF RememberedElsewhere, logins, Of, RulesFor
<1>4. PICK away \in SUBSET RulesFor(made, stored, g) : stored' = (stored \ away) \cup {Len(made')}
  <2>1. PICK away \in SUBSET Of(stored, g[1], g[2]) : stored' = (stored \ away) \cup {Len(made')}
    BY DEF RememberedElsewhere
  <2>2. Of(stored, g[1], g[2]) = RulesFor(made, stored, g)
    BY DEF Of, RulesFor
  <2> QED BY <2>1, <2>2
<1>5. req' \in [Requests -> Records] /\ queue' \in Seq(Requests) /\ outside' \in 0..MaxOutside
  BY <1>1, <1>3 DEF Types
<1> HIDE DEF rule
<1>6. /\ Types' /\ Memory'
      /\ \A q \in Records : Sound(q) /\ Timely(q) => Sound(q)' /\ Timely(q)'
  BY <1>3, <1>4, <1>5, DecisionIsStored DEF rule
<1>7. OneIsDecided'
  BY <1>1, <1>3 DEF OneIsDecided
<1>8. ASSUME NEW p \in Requests PROVE Sound(req[p])' /\ Timely(req[p])'
  <2>1. PICK q \in Records : q = req[p] /\ q = req'[p]
    BY <1>1, <1>3
  <2>2. Sound(q)' /\ Timely(q)'
    BY <1>1, <1>6, <2>1
  <2> QED BY <2>1, <2>2 DEF Sound, Timely
<1> QED BY <1>6, <1>7, <1>8 DEF Inv

LEMMA AuditStep ==
  ASSUME Inv, NEW i \in 1..Len(made), Audit(i)
  PROVE  Inv'
<1> DEFINE g == <<made[i].source, made[i].method>>
<1>1. Types /\ OneIsDecided /\ Memory /\ \A p \in Requests : Sound(req[p]) /\ Timely(req[p])
  BY DEF Inv
<1>2. /\ i \in stored /\ stored' = stored \ {i}
      /\ UNCHANGED <<approved, active, made, loaded, rules, itemReads, queue, req, outside, left,
                     elsewhere>>
  BY DEF Audit, logins
<1>3. last' = IF g \in Grants /\ \A j \in RulesFor(made, stored, g) : j <= i
                THEN [last EXCEPT ![g] = None] ELSE last
  <2>1. RulesFor(made, stored, g) = Of(stored, g[1], g[2])
    BY DEF RulesFor, Of
  <2> QED BY <2>1 DEF Audit
<1>4. blocked' = IF RulesFor(made, stored', <<g[1], "block">>) = {} THEN blocked \ {g[1]} ELSE blocked
  <2>1. RulesFor(made, stored', <<g[1], "block">>) = Of(stored', g[1], "block")
    BY DEF RulesFor, Of
  <2> QED BY <2>1 DEF Audit
<1>5. /\ stored \in SUBSET (1..Len(made)) /\ Len(made) \in Nat
      /\ last \in [Grants -> Decisions \cup {None}] /\ req \in [Requests -> Records]
  BY <1>1, LenProperties DEF Types
<1>6. i \in RulesFor(made, stored, g)
  BY <1>2 DEF RulesFor
<1> HIDE DEF g
<1>7. Types'
  <2>1. last' \in [Grants -> Decisions \cup {None}]
    BY <1>3, <1>5
  <2>2. blocked' \subseteq Sources
    BY <1>1, <1>4 DEF Types
  <2> QED BY <1>1, <1>2, <2>1, <2>2 DEF Types, Records
<1>8. OneIsDecided'
  BY <1>1, <1>2 DEF OneIsDecided
<1>9. ASSUME NEW h, h[1] # g[1] \/ h[2] # g[2]
      PROVE  /\ RulesFor(made, stored', h) = RulesFor(made, stored, h)
             /\ \A decision : Says(made, stored', h, decision) <=> Says(made, stored, h, decision)
             /\ \A old : Outlasts(made, stored', h, old) <=> Outlasts(made, stored, h, old)
  <2>1. RulesFor(made, stored', h) = RulesFor(made, stored, h)
    BY <1>2, <1>9 DEF RulesFor, g
  <2> QED BY <2>1, SameSays
<1>10. ASSUME NEW j \in RulesFor(made, stored, g), i < j
       PROVE  /\ \A decision : Says(made, stored, g, decision) => Says(made, stored', g, decision)
              /\ \A old \in SUBSET (1..Len(made)) :
                   Outlasts(made, stored, g, old) => Outlasts(made, stored', g, old)
  BY <1>2, <1>5, <1>10, OlderRuleGoes
<1>11. RulesFor(made, stored', g) = RulesFor(made, stored, g) \ {i}
  BY <1>2 DEF RulesFor
<1>12. RulesFor(made, stored, g) \subseteq Nat /\ i \in Nat
  <2>1. RulesFor(made, stored, g) \subseteq stored
    BY DEF RulesFor
  <2>2. \A n \in Nat : 1..n \subseteq Nat
    OBVIOUS
  <2>3. stored \subseteq Nat
    BY <1>5, <2>2, Zenon
  <2> QED BY <1>2, <2>1, <2>3, Zenon
<1>13. (\A j \in RulesFor(made, stored, g) : j <= i) \/ \E j \in RulesFor(made, stored, g) : i < j
  BY <1>12
<1>14. ASSUME NEW h \in Grants
       PROVE  last'[h] = last[h] \/ (last'[h] = None /\ h = g /\ \A j \in RulesFor(made, stored, g) : j <= i)
  BY <1>3, <1>5
<1>15. ASSUME NEW h \in Grants PROVE GrantIsStored(h)'
  <2>1. GrantIsStored(h)
    BY <1>1 DEF Memory
  <2>2. CASE h = g /\ \A j \in RulesFor(made, stored, g) : j <= i
    <3>1. last'[h] = None
      BY <1>3, <1>5, <2>2
    <3>2. ASSUME NEW k \in RulesFor(made, stored', h) PROVE k \in left
      <4>1. k \in RulesFor(made, stored, g) /\ k # i /\ k <= i
        BY <1>11, <2>2
      <4>2. k < i
        BY <1>12, <4>1
      <4> QED BY <1>6, <2>1, <2>2, <4>1, <4>2 DEF GrantIsStored
    <3> QED BY <1>2, <3>1, <3>2 DEF GrantIsStored
  <2>3. CASE h = g /\ \E j \in RulesFor(made, stored, g) : i < j
    <3>1. last'[h] = last[h]
      <4>1. ~ \A j \in RulesFor(made, stored, g) : j <= i
        BY <1>12, <2>3
      <4> QED BY <1>3, <4>1
    <3>2. RulesFor(made, stored', h) \subseteq RulesFor(made, stored, h)
      BY <1>11, <2>3
    <3> QED BY <1>2, <1>10, <2>1, <2>3, <3>1, <3>2 DEF GrantIsStored
  <2>4. CASE h # g
    <3>1. h[1] # g[1] \/ h[2] # g[2]
      BY <2>4 DEF Grants, g
    <3>2. last'[h] = last[h]
      BY <1>3, <1>5, <2>4
    <3> QED BY <1>2, <1>9, <2>1, <3>1, <3>2 DEF GrantIsStored
  <2> QED BY <1>13, <2>2, <2>3, <2>4
<1>16. Memory'
  <2>1. ASSUME NEW h \in Grants PROVE GrantIsKnown(h)'
    BY <1>1, <1>2, <1>14 DEF Memory, GrantIsKnown
  <2>2. ASSUME NEW s \in blocked' PROVE BlockIsStored(s)'
    <3> DEFINE h == <<s, "block">>
    <3>1. s \in blocked /\ (s = g[1] => RulesFor(made, stored', h) # {})
      BY <1>4, <2>2
    <3>2. RulesFor(made, stored, h) # {} /\ (s \in loaded => RulesFor(made, rules, h) # {})
      BY <1>1, <3>1 DEF Memory, BlockIsStored
    <3>3. s # g[1] => RulesFor(made, stored', h) = RulesFor(made, stored, h)
      <4>1. h[1] = s
        OBVIOUS
      <4> HIDE DEF h
      <4> QED BY <1>9, <4>1
    <3> QED BY <1>2, <3>1, <3>2, <3>3 DEF BlockIsStored
  <2> QED BY <1>15, <2>1, <2>2 DEF Memory
<1>17. ASSUME NEW p \in Requests PROVE Sound(req[p])' /\ Timely(req[p])'
  <2>1. PICK q : q = req[p]
    OBVIOUS
  <2> DEFINE h == GrantOf(q)
  <2>2. q \in Records /\ Sound(q) /\ Timely(q) /\ req'[p] = q
    BY <1>1, <1>2, <1>5, <2>1
  <2>3. blocked' \subseteq blocked
    BY <1>4
  <2>4. Sound(q)'
    BY <1>2, <2>2, <2>3 DEF Sound
  <2>5. (q.pc = "deleting" => h \in Grants) /\ q.old \in SUBSET (1..Len(made)) /\ h = <<q.source, q.kind>>
    <3>1. q.pc = "deleting" => q.kind \in {"read", "delete"} /\ q.kind # "none"
      BY <2>2 DEF Sound
    <3>2. q.source \in Sources /\ q.kind \in Kinds \cup {"none"}
      BY <2>2 DEF Records
    <3>3. q.old \in SUBSET (1..Len(made)) /\ h = <<q.source, q.kind>>
      BY <2>2 DEF Records, GrantOf
    <3> QED BY <3>1, <3>2, <3>3 DEF Grants
  <2> HIDE DEF h
  <2>6. /\ q.pc = "asking" /\ h \in Grants \ elsewhere => last[h] = None
        /\ q.pc = "deleting" /\ last[h] # None => Outlasts(made, stored, h, q.old)
        /\ q.pc = "deleting" /\ last[h] # None /\ h \notin elsewhere =>
             last[h] = q.decision /\ Outlasts(made, rules, h, q.old)
    BY <2>2 DEF Timely, h
  <2>7. ASSUME q.pc = "deleting", last'[h] # None PROVE last'[h] = last[h] /\ Outlasts(made, stored', h, q.old)
    <3>1. h \in Grants /\ last'[h] = last[h]
      BY <1>14, <2>5, <2>7
    <3>2. Outlasts(made, stored, h, q.old)
      BY <2>6, <2>7, <3>1
    <3>3. CASE h = g
      <4>1. ~ \A j \in RulesFor(made, stored, g) : j <= i
        BY <1>3, <1>5, <2>7, <3>1, <3>3
      <4> QED BY <1>10, <1>13, <2>5, <3>1, <3>2, <3>3, <4>1
    <3>4. CASE h # g
      <4>1. h[1] # g[1] \/ h[2] # g[2]
        BY <2>5, <3>4 DEF g
      <4> QED BY <1>9, <3>1, <3>2, <4>1
    <3> QED BY <3>3, <3>4
  <2>8. /\ q.pc = "asking" /\ h \in Grants \ elsewhere' => last'[h] = None
        /\ q.pc = "deleting" /\ last'[h] # None => Outlasts(made', stored', h, q.old)
        /\ q.pc = "deleting" /\ last'[h] # None /\ h \notin elsewhere' =>
             last'[h] = q.decision /\ Outlasts(made', rules', h, q.old)
    BY <1>2, <1>14, <2>6, <2>7
  <2>9. Timely(q)'
    BY <2>8 DEF Timely, h
  <2> QED BY <2>2, <2>4, <2>9 DEF Sound, Timely
<1> QED BY <1>7, <1>8, <1>16, <1>17 DEF Inv

LEMMA ReloadStep == ASSUME Inv, Reload PROVE Inv'
<1>1. Types /\ Memory /\ \A p \in Requests : Sound(req[p])
  BY DEF Inv
<1>2. /\ loaded' = {} /\ rules' = {} /\ itemReads' = {} /\ queue' = <<>> /\ active' = FALSE
      /\ req' = [r \in Requests |-> IF req[r].pc \in Outcomes \cup {"none"} THEN req[r]
                                    ELSE Ended("failed")]
      /\ elsewhere' = {} /\ outside < MaxOutside /\ outside' = outside + 1
      /\ UNCHANGED <<approved, made, stored, last, blocked, left>>
  BY DEF Reload
<1>3. "failed" \in Outcomes /\ "failed" \notin Busy
  BY DEF Outcomes, Busy
<1>4. ASSUME NEW p \in Requests
      PROVE  \E q \in Records : req'[p] = q /\ Sound(q) /\ q.pc \in Outcomes \cup {"none"}
  <2>1. CASE req[p].pc \in Outcomes \cup {"none"}
    BY <1>1, <1>2, <2>1 DEF Types
  <2>2. CASE req[p].pc \notin Outcomes \cup {"none"}
    <3>1. req'[p] = Ended("failed")
      BY <1>2, <2>2
    <3> QED BY <1>3, <3>1, EndedFits
  <2> QED BY <2>1, <2>2
<1>5. Records' = Records
  BY <1>2 DEF Records
<1>6. Types'
  <2>1. req' \in [Requests -> Records']
    <3>1. \A p \in Requests : req'[p] \in Records
      BY <1>4
    <3>2. req' = [p \in Requests |-> req'[p]]
      BY <1>2
    <3> QED BY <1>5, <3>1, <3>2
  <2>2. outside' \in 0..MaxOutside
    BY <1>1, <1>2 DEF Types
  <2>3. queue' \in Seq(Requests)
    BY <1>2
  <2> QED BY <1>1, <1>2, <2>1, <2>2, <2>3 DEF Types
<1>7. \A p \in Requests : req'[p].pc \notin Busy
  BY <1>4 DEF Busy, Outcomes
<1>8. OneIsDecided'
  BY <1>7 DEF OneIsDecided
<1>9. Memory'
  BY <1>1, <1>2 DEF Memory, GrantIsStored, GrantIsKnown, BlockIsStored
<1>10. ASSUME NEW p \in Requests PROVE Sound(req[p])' /\ Timely(req[p])'
  <2>1. PICK q \in Records : req'[p] = q /\ Sound(q) /\ q.pc \in Outcomes \cup {"none"}
    BY <1>4
  <2>2. q.pc \notin Busy \cup {"loading", "fetching", "queued", "remembering", "deleting", "blocking", "asking"}
    BY <2>1 DEF Busy, Outcomes
  <2>3. Sound(q)'
    BY <1>2, <2>1, <2>2 DEF Sound
  <2>4. Timely(q)'
    BY <2>2 DEF Timely
  <2> QED BY <2>1, <2>3, <2>4 DEF Sound, Timely
<1> QED BY <1>6, <1>8, <1>9, <1>10 DEF Inv

\* The request at the front goes on while rules are written.
LEMMA FrontGoesOn ==
  ASSUME Inv, NEW r \in Requests, Head(queue) = r, NEW x, Sound(x)', Timely(x)',
         req' = [req EXCEPT ![r] = x], loaded' = loaded,
         \A i \in 1..Len(made) : made'[i] = made[i]
  PROVE  \A p \in Requests : Sound(req[p])' /\ Timely(req[p])'
<1> SUFFICES ASSUME NEW p \in Requests PROVE Sound(req[p])' /\ Timely(req[p])'
  OBVIOUS
<1>1. Types /\ OneIsDecided /\ Sound(req[p]) /\ req \in [Requests -> Records]
  BY DEF Inv, Types
<1>2. CASE p = r
  <2>1. req'[p] = x
    BY <1>1, <1>2
  <2> QED BY <2>1 DEF Sound, Timely
<1>3. CASE p # r
  <2>1. PICK q \in Records : q = req[p] /\ q = req'[p]
    BY <1>1, <1>3
  <2>2. q.pc \notin Busy
    BY <1>1, <1>3, <2>1 DEF OneIsDecided
  <2>3. Sound(q)' /\ Timely(q)'
    BY <1>1, <2>1, <2>2, OthersStay
  <2> QED BY <2>1, <2>3 DEF Sound, Timely
<1> QED BY <1>2, <1>3

\* What the page is told of a new rule, it knows.
LEMMA OthersKnown ==
  ASSUME Inv, NEW rule \in Rules, made' = Append(made, rule), NEW h,
         ~(h[1] = rule.source /\ h[2] = rule.method),
         stored' = stored \cup {Len(made) + 1}, rules' = rules \cup {Len(made) + 1}
  PROVE  /\ RulesFor(made', stored', h) = RulesFor(made, stored, h)
         /\ RulesFor(made', rules', h) = RulesFor(made, rules, h)
         /\ \A decision : Says(made', stored', h, decision) <=> Says(made, stored, h, decision)
         /\ \A decision : Says(made', rules', h, decision) <=> Says(made, rules, h, decision)
<1>1. Types /\ stored \in SUBSET (1..Len(made)) /\ rules \in SUBSET (1..Len(made))
  BY DEF Inv, Types
<1>2. /\ RulesFor(made', stored', h) = RulesFor(made, stored, h)
      /\ \A decision : Says(made', stored', h, decision) <=> Says(made, stored, h, decision)
  BY <1>1, OtherGrant
<1>3. /\ RulesFor(made', rules', h) = RulesFor(made, rules, h)
      /\ \A decision : Says(made', rules', h, decision) <=> Says(made, rules, h, decision)
  BY <1>1, OtherGrant
<1> QED BY <1>2, <1>3

\* Types after a rule was added.
LEMMA PostTypes ==
  ASSUME Types, NEW rule \in Rules, Post(rule), NEW r \in Requests, NEW x \in Records,
         req' = [req EXCEPT ![r] = x], queue' \in Seq(Requests), left' \subseteq 1..Len(made),
         blocked' \subseteq Sources, last' \in [Grants -> Decisions \cup {None}],
         elsewhere' \subseteq Grants, UNCHANGED <<logins, loaded, itemReads, outside>>
  PROVE  Types'
<1>1. /\ Len(made) < MaxRules /\ made' = Append(made, rule)
      /\ stored' = stored \cup {Len(made')} /\ rules' = rules \cup {Len(made')}
  BY DEF Post
<1>2. /\ made' \in Seq(Rules) /\ Len(made') <= MaxRules
      /\ 1..Len(made) \subseteq 1..Len(made') /\ Len(made') \in 1..Len(made')
      /\ Records \subseteq Records'
  BY <1>1, LogGrows
<1>3. req \in [Requests -> Records]
  BY DEF Types
<1>4. req' \in [Requests -> Records']
  BY <1>2, <1>3
<1>5. stored' \subseteq 1..Len(made') /\ rules' \subseteq 1..Len(made') /\ left' \subseteq 1..Len(made')
  BY <1>1, <1>2 DEF Types
<1> QED BY <1>2, <1>4, <1>5 DEF Types, logins

LEMMA PostedStep == ASSUME Inv, NEW r \in Requests, Posted(r) PROVE Inv'
<1>1. PICK q : q = req[r]
  OBVIOUS
<1>2. /\ Types /\ OneIsDecided /\ Memory /\ q \in Records /\ Sound(q)
      /\ q.pc = "remembering" /\ queue # <<>> /\ Head(queue) = r
      /\ UNCHANGED <<logins, loaded, itemReads, outside, blocked>>
  BY <1>1 DEF Inv, Types, Posted, AtFront
<1>3. CASE Leave(r, "failed") /\ UNCHANGED <<made, stored, rules, last, left, elsewhere>>
  <2>1. approved' \subseteq Sources /\ itemReads' \subseteq Sources /\ active' = active
    BY <1>2 DEF Types, logins
  <2> QED BY <1>2, <1>3, <2>1, RequestEnds DEF Outcomes, rulesVars, history
<1> DEFINE rule == [source |-> q.source, method |-> q.kind, decision |-> q.decision]
           g == <<q.source, q.kind>>
<1>4. CASE /\ Post(rule)
           /\ last' = [last EXCEPT ![g] = q.decision]
           /\ left' = left \cup Of(stored, q.source, q.kind)
           /\ elsewhere' = elsewhere \ {g}
           /\ IF q.old = {} THEN Settle(r) ELSE Put(r, [q EXCEPT !.pc = "deleting"]) /\ UNCHANGED queue
  <2>1. /\ q.source \in Sources /\ q.kind \in {"read", "delete"} /\ q.kind \in Kinds
        /\ q.decision \in Decisions /\ q.source \notin blocked /\ q.source \in loaded
        /\ q.old \in SUBSET (1..Len(made))
        /\ \A i \in q.old : made[i].source = q.source /\ made[i].method = q.kind
    BY <1>2 DEF Records, Sound, Busy
  <2>2. /\ rule \in Rules /\ g \in Grants
        /\ rule.source = g[1] /\ rule.method = g[2] /\ rule.decision = q.decision
        /\ g[1] = q.source /\ g[2] = q.kind /\ g = <<rule.source, rule.method>>
    BY <2>1 DEF Rules, Grants
  <2>3. /\ Len(made) < MaxRules /\ made' = Append(made, rule)
        /\ stored' = stored \cup {Len(made')} /\ rules' = rules \cup {Len(made')}
    BY <1>4 DEF Post
  <2>4. /\ Len(made') = Len(made) + 1
        /\ \A i \in 1..Len(made) : made'[i] = made[i]
        /\ Records \subseteq Records'
    BY <1>2, <2>2, <2>3, LogGrows
  <2>5. left' = left \cup RulesFor(made, stored, g)
    BY <1>4 DEF Of, RulesFor
  <2>6. /\ last \in [Grants -> Decisions \cup {None}] /\ made \in Seq(Rules)
        /\ stored \in SUBSET (1..Len(made)) /\ rules \in SUBSET (1..Len(made))
    BY <1>2 DEF Types
  <2> HIDE DEF rule, g
  <2>7. \A h \in Grants : last'[h] = IF h = g THEN q.decision ELSE last[h]
    BY <1>4, <2>6
  <2>8. stored' = stored \cup {Len(made) + 1} /\ rules' = rules \cup {Len(made) + 1}
    BY <2>3, <2>4
  <2>9. /\ Says(made', stored', g, q.decision) /\ Says(made', rules', g, q.decision)
        /\ Outlasts(made', stored', g, q.old) /\ Outlasts(made', rules', g, q.old)
    <3>1. /\ Says(Append(made, rule), stored \cup {Len(made) + 1}, g, rule.decision)
          /\ Outlasts(Append(made, rule), stored \cup {Len(made) + 1}, g, q.old)
      BY <2>1, <2>2, <2>6, NewRuleSays
    <3>2. /\ Says(Append(made, rule), rules \cup {Len(made) + 1}, g, rule.decision)
          /\ Outlasts(Append(made, rule), rules \cup {Len(made) + 1}, g, q.old)
      BY <2>1, <2>2, <2>6, NewRuleSays
    <3> QED BY <2>2, <2>3, <2>8, <3>1, <3>2
  <2>10. \A h \in Grants : GrantIsStored(h)'
    <3>1. stored' = (stored \ {}) \cup {Len(made) + 1} /\ {} \in SUBSET RulesFor(made, stored, g)
      BY <2>8
    <3>2. last' = [last EXCEPT ![<<rule.source, rule.method>>] = rule.decision]
      BY <1>4, <2>2
    <3>3. <<rule.source, rule.method>> \in Grants
      BY <2>2
    <3>4. \A h \in Grants : GrantIsStored(h)
      BY <1>2 DEF Memory
    <3>5. left' = left \cup RulesFor(made, stored, <<rule.source, rule.method>>)
      BY <2>2, <2>5
    <3>6. {} \in SUBSET RulesFor(made, stored, <<rule.source, rule.method>>)
      OBVIOUS
    <3> QED BY <1>2, <2>2, <2>3, <3>1, <3>2, <3>3, <3>4, <3>5, <3>6, DecidedStored
  <2>11. Memory'
    <3>1. ASSUME NEW h \in Grants PROVE GrantIsKnown(h)'
      <4>1. CASE h = g
        BY <2>7, <2>9, <4>1 DEF GrantIsKnown
      <4>2. CASE h # g
        <5>1. ~(h[1] = rule.source /\ h[2] = rule.method)
          BY <2>2, <4>2 DEF Grants
        <5>2. \A decision : Says(made', rules', h, decision) <=> Says(made, rules, h, decision)
          BY <2>2, <2>3, <2>8, <5>1, OthersKnown
        <5> QED BY <1>2, <1>4, <2>7, <4>2, <5>2 DEF Memory, GrantIsKnown
      <4> QED BY <4>1, <4>2
    <3>2. ASSUME NEW s \in blocked PROVE BlockIsStored(s)'
      <4> DEFINE h == <<s, "block">>
      <4>1. RulesFor(made, stored, h) # {} /\ (s \in loaded => RulesFor(made, rules, h) # {})
        BY <1>2 DEF Memory, BlockIsStored
      <4>2. ~(h[1] = rule.source /\ h[2] = rule.method)
        BY <2>1, <2>2
      <4>3. RulesFor(made', stored', h) = RulesFor(made, stored, h) /\
            RulesFor(made', rules', h) = RulesFor(made, rules, h)
        <5> HIDE DEF h
        <5> QED BY <2>2, <2>3, <2>8, <4>2, OthersKnown
      <4> QED BY <1>2, <4>1, <4>3 DEF BlockIsStored
    <3> QED BY <1>2, <2>10, <3>1, <3>2 DEF Memory
  <2>12. \E x \in Records : /\ req' = [req EXCEPT ![r] = x]
                            /\ Sound(x)' /\ Timely(x)'
                            /\ queue' \in Seq(Requests) /\ OneIsDecided'
    <3>1. CASE \E outcome \in Outcomes : Leave(r, outcome)
      <4>1. PICK outcome \in Outcomes : Leave(r, outcome)
        BY <3>1
      <4>2. PICK x : x = Ended(outcome)
        OBVIOUS
      <4>3. x \in Records /\ x.pc \notin Busy /\ Sound(x)
        BY <4>2, EndedFits
      <4>4. req' = [req EXCEPT ![r] = x] /\ queue' = Tail(queue)
        BY <4>1, <4>2 DEF Leave, Put
      <4>5. Sound(x)' /\ Timely(x)'
        BY <1>2, <2>4, <4>3, OthersStay
      <4> QED BY <1>2, <4>3, <4>4, <4>5, QueueStep
    <3>2. CASE Put(r, [q EXCEPT !.pc = "deleting"]) /\ UNCHANGED queue
      <4>1. PICK x : x = [q EXCEPT !.pc = "deleting"]
        OBVIOUS
      <4>2. /\ x \in Records /\ x.pc = "deleting" /\ x.source = q.source /\ x.kind = q.kind
            /\ x.decision = q.decision /\ x.old = q.old
        <5>1. "deleting" \in Pcs
          BY DEF Pcs, Busy
        <5> QED BY <1>1, <1>2, <4>1, <5>1, NewState
      <4>3. req' = [req EXCEPT ![r] = x]
        BY <3>2, <4>1 DEF Put
      <4>4. Sound(x)'
        BY <1>2, <2>1, <2>4, <4>2 DEF Sound
      <4>5. Timely(x)'
        <5>1. GrantOf(x) = g
          BY <4>2 DEF GrantOf, g
        <5> QED BY <2>2, <2>7, <2>9, <4>2, <5>1 DEF Timely
      <4> QED BY <1>2, <3>2, <4>2, <4>3, <4>4, <4>5, QueueStep
    <3> QED BY <1>4, <3>1, <3>2 DEF Settle, Outcomes
  <2>13. PICK x \in Records : /\ req' = [req EXCEPT ![r] = x]
                              /\ Sound(x)' /\ Timely(x)'
                              /\ queue' \in Seq(Requests) /\ OneIsDecided'
    BY <2>12
  <2>14. Types'
    <3>1. left' \subseteq 1..Len(made) /\ blocked' \subseteq Sources /\ elsewhere' \subseteq Grants
      BY <1>2, <1>4, <2>5, <2>6 DEF Types, RulesFor
    <3>2. last' \in [Grants -> Decisions \cup {None}]
      BY <1>4, <2>1, <2>6
    <3>3. Post(rule)
      BY <1>4
    <3> QED BY <1>2, <2>2, <2>13, <3>1, <3>2, <3>3, PostTypes
  <2>15. \A p \in Requests : Sound(req[p])' /\ Timely(req[p])'
    BY <1>2, <2>4, <2>13, FrontGoesOn
  <2> QED BY <2>11, <2>13, <2>14, <2>15 DEF Inv
<1>5. CASE /\ PostUnheard(rule)
           /\ last' = [last EXCEPT ![g] = q.decision]
           /\ left' = left \cup Of(stored, q.source, q.kind)
           /\ elsewhere' = elsewhere \cup {g}
           /\ Leave(r, "failed")
  <2>1. /\ q.source \in Sources /\ q.kind \in {"read", "delete"} /\ q.kind \in Kinds
        /\ q.decision \in Decisions
    BY <1>2 DEF Records, Sound, Busy
  <2>2. g \in Grants /\ g[1] = q.source /\ g[2] = q.kind
    BY <2>1 DEF Grants
  <2>3. /\ Len(made) < MaxRules /\ made' = Append(made, rule)
        /\ stored' = (stored \ {}) \cup {Len(made')} /\ rules' = rules
        /\ left' = left \cup RulesFor(made, stored, g)
        /\ {} \in SUBSET RulesFor(made, stored, g)
        /\ last' = [last EXCEPT ![g] = q.decision] /\ elsewhere' = elsewhere \cup {g}
    BY <1>5 DEF PostUnheard, Of, RulesFor
  <2>4. rule = [source |-> g[1], method |-> g[2], decision |-> q.decision]
    BY <2>2
  <2> HIDE DEF rule, g
  <2>5. PICK x : x = Ended("failed")
    OBVIOUS
  <2>6. x \in Records /\ x.pc \notin Busy /\ Sound(x) /\ Timely(x)
    BY <2>5, EndedFits DEF Outcomes
  <2>7. req' = [req EXCEPT ![r] = x] /\ queue' = Tail(queue)
    BY <1>5, <2>5 DEF Leave, Put
  <2>8. queue' \in Seq(Requests) /\ OneIsDecided'
    BY <1>2, <2>6, <2>7, QueueStep
  <2>9. /\ req' \in [Requests -> Records] /\ outside' \in 0..MaxOutside
        /\ UNCHANGED <<approved, active, loaded, rules, itemReads, blocked>>
    BY <1>2, <2>3, <2>6, <2>7 DEF Types, logins
  <2>10. /\ Types' /\ Memory' /\ \A i \in 1..Len(made) : made'[i] = made[i]
         /\ \A y \in Records : Sound(y) /\ Timely(y) => Sound(y)' /\ Timely(y)'
    BY <2>1, <2>2, <2>3, <2>4, <2>8, <2>9, DecisionIsStored
  <2>11. \A p \in Requests : Sound(req[p])' /\ Timely(req[p])'
    BY <1>2, <2>6, <2>7, <2>10, FrontGoesOn
  <2> QED BY <2>8, <2>10, <2>11 DEF Inv
<1> QED BY <1>1, <1>3, <1>4, <1>5, Zenon DEF Posted

LEMMA DeletedStep == ASSUME Inv, NEW r \in Requests, Deleted(r) PROVE Inv'
<1>1. PICK q : q = req[r]
  OBVIOUS
<1>2. /\ Types /\ OneIsDecided /\ Memory /\ q \in Records /\ Sound(q) /\ Timely(q)
      /\ q.pc = "deleting" /\ queue # <<>> /\ Head(queue) = r
      /\ UNCHANGED <<logins, made, loaded, itemReads, outside, history>>
  BY <1>1 DEF Inv, Types, Deleted, AtFront
<1>3. CASE Leave(r, "failed") /\ UNCHANGED <<stored, rules>>
  <2>1. approved' \subseteq Sources /\ itemReads' \subseteq Sources /\ active' = active
    BY <1>2 DEF Types, logins
  <2> QED BY <1>2, <1>3, <2>1, RequestEnds DEF Outcomes, rulesVars
<1>4. ASSUME NEW i \in q.old \cap stored, stored' = stored \ {i}, rules' = rules \ {i},
             IF q.old = {i} THEN Settle(r) ELSE Put(r, [q EXCEPT !.old = @ \ {i}]) /\ UNCHANGED queue
      PROVE  Inv'
  <2> DEFINE g == <<q.source, q.kind>>
  <2>1. /\ q.source \in Sources /\ q.kind \in {"read", "delete"} /\ q.kind \in Kinds
        /\ q.decision \in Decisions /\ q.source \notin blocked /\ q.source \in loaded
        /\ q.old \in SUBSET (1..Len(made))
        /\ \A k \in q.old : made[k].source = q.source /\ made[k].method = q.kind
    BY <1>2 DEF Records, Sound, Busy
  <2>2. g \in Grants /\ g[1] = q.source /\ g[2] = q.kind /\ GrantOf(q) = g
    BY <2>1 DEF Grants, GrantOf
  <2>3. UNCHANGED <<approved, active, made, loaded, itemReads, outside, last, blocked, left, elsewhere>>
    BY <1>2 DEF logins, history
  <2>4. /\ stored \in SUBSET (1..Len(made)) /\ rules \in SUBSET (1..Len(made)) /\ Len(made) \in Nat
        /\ req \in [Requests -> Records]
    BY <1>2, LenProperties DEF Types
  <2>5. made[i].source = g[1] /\ made[i].method = g[2]
    BY <2>1
  <2> HIDE DEF g
  <2>6. ASSUME NEW ids \in SUBSET (1..Len(made)), NEW h, h[1] # g[1] \/ h[2] # g[2]
        PROVE  /\ RulesFor(made, ids \ {i}, h) = RulesFor(made, ids, h)
               /\ \A decision : Says(made, ids \ {i}, h, decision) <=> Says(made, ids, h, decision)
    <3>1. RulesFor(made, ids \ {i}, h) = RulesFor(made, ids, h)
      BY <2>5, <2>6 DEF RulesFor
    <3> QED BY <3>1, SameSays
  <2>7. ASSUME NEW ids \in SUBSET (1..Len(made)), Outlasts(made, ids, g, q.old)
        PROVE  /\ Outlasts(made, ids \ {i}, g, q.old \ {i})
               /\ \A decision : Says(made, ids, g, decision) => Says(made, ids \ {i}, g, decision)
    <3>1. PICK j \in RulesFor(made, ids, g) : \A k \in q.old : k < j
      BY <2>7 DEF Outlasts
    <3>2. i < j
      BY <3>1
    <3>3. CASE i \in ids
      <4>1. /\ Outlasts(made, ids \ {i}, g, q.old)
            /\ \A decision : Says(made, ids, g, decision) => Says(made, ids \ {i}, g, decision)
        BY <2>1, <2>4, <2>7, <3>2, <3>3, OlderRuleGoes
      <4> QED BY <4>1 DEF Outlasts
    <3>4. CASE i \notin ids
      <4>1. ids \ {i} = ids
        BY <3>4
      <4> QED BY <2>7, <4>1 DEF Outlasts
    <3> QED BY <3>3, <3>4
  <2>8. /\ last[g] # None => Outlasts(made, stored, g, q.old)
        /\ last[g] # None /\ g \notin elsewhere => last[g] = q.decision /\ Outlasts(made, rules, g, q.old)
    BY <1>2, <2>2 DEF Timely
  <2>9. ASSUME NEW h \in Grants PROVE GrantIsStored(h)'
    <3>1. GrantIsStored(h)
      BY <1>2 DEF Memory
    <3>2. RulesFor(made, stored', h) \subseteq RulesFor(made, stored, h)
      BY <1>4 DEF RulesFor
    <3>3. last[h] # None => Says(made, stored', h, last[h])
      <4>1. CASE h = g
        BY <1>4, <2>4, <2>7, <2>8, <3>1, <4>1 DEF GrantIsStored
      <4>2. CASE h # g
        <5>1. h[1] # g[1] \/ h[2] # g[2]
          BY <2>2, <4>2 DEF Grants
        <5> QED BY <1>4, <2>4, <2>6, <3>1, <5>1 DEF GrantIsStored
      <4> QED BY <4>1, <4>2
    <3> QED BY <2>3, <3>1, <3>2, <3>3 DEF GrantIsStored
  <2>10. Memory'
    <3>1. ASSUME NEW h \in Grants PROVE GrantIsKnown(h)'
      <4>1. GrantIsKnown(h)
        BY <1>2 DEF Memory
      <4>2. CASE h = g
        BY <1>4, <2>3, <2>4, <2>7, <2>8, <4>1, <4>2 DEF GrantIsKnown
      <4>3. CASE h # g
        <5>1. h[1] # g[1] \/ h[2] # g[2]
          BY <2>2, <4>3 DEF Grants
        <5> QED BY <1>4, <2>3, <2>4, <2>6, <4>1, <5>1 DEF GrantIsKnown
      <4> QED BY <4>2, <4>3
    <3>2. ASSUME NEW s \in blocked PROVE BlockIsStored(s)'
      <4> DEFINE h == <<s, "block">>
      <4>1. RulesFor(made, stored, h) # {} /\ (s \in loaded => RulesFor(made, rules, h) # {})
        BY <1>2 DEF Memory, BlockIsStored
      <4>2. h[1] # g[1] \/ h[2] # g[2]
        BY <2>1, <2>2
      <4>3. /\ RulesFor(made, stored \ {i}, h) = RulesFor(made, stored, h)
            /\ RulesFor(made, rules \ {i}, h) = RulesFor(made, rules, h)
        <5> HIDE DEF h
        <5> QED BY <2>4, <2>6, <4>2
      <4> QED BY <1>4, <2>3, <4>1, <4>3 DEF BlockIsStored
    <3> QED BY <2>3, <2>9, <3>1, <3>2 DEF Memory
  <2>11. Records' = Records
    BY <2>3 DEF Records
  <2>12. \E x \in Records : /\ req' = [req EXCEPT ![r] = x]
                            /\ Sound(x)' /\ Timely(x)'
                            /\ queue' \in Seq(Requests) /\ OneIsDecided'
    <3>1. CASE \E outcome \in Outcomes : Leave(r, outcome)
      <4>1. PICK outcome \in Outcomes : Leave(r, outcome)
        BY <3>1
      <4>2. PICK x : x = Ended(outcome)
        OBVIOUS
      <4>3. x \in Records /\ x.pc \notin Busy /\ Sound(x)
        BY <4>2, EndedFits
      <4>4. req' = [req EXCEPT ![r] = x] /\ queue' = Tail(queue)
        BY <4>1, <4>2 DEF Leave, Put
      <4>5. Sound(x)' /\ Timely(x)'
        BY <1>2, <2>3, <4>3, OthersStay
      <4> QED BY <1>2, <4>3, <4>4, <4>5, QueueStep
    <3>2. CASE Put(r, [q EXCEPT !.old = @ \ {i}]) /\ UNCHANGED queue
      <4>1. PICK x : x = [q EXCEPT !.old = q.old \ {i}]
        OBVIOUS
      <4>2. x = [pc |-> q.pc, source |-> q.source, kind |-> q.kind, decision |-> q.decision,
                 old |-> q.old \ {i}]
        <5>1. q \in [pc : Pcs, source : Sources, kind : Kinds \cup {"none"},
                     decision : Decisions \cup {None}, old : SUBSET (1..Len(made))]
          BY <1>2 DEF Records
        <5>2. q.old \ {i} \in SUBSET (1..Len(made))
          BY <2>1
        <5> QED BY <4>1, <5>1, <5>2, OldUpdate
      <4>3. req' = [req EXCEPT ![r] = x]
        BY <3>2, <4>1, Zenon DEF Put
      <4>4. x \in Records
        BY <1>2, <4>2 DEF Records
      <4>5. Sound(x)'
        BY <1>2, <2>1, <2>3, <4>2 DEF Sound
      <4>6. Timely(x)'
        <5>1. GrantOf(x) = g /\ x.old = q.old \ {i} /\ x.pc = "deleting" /\ x.decision = q.decision
          BY <1>2, <4>2 DEF GrantOf, g
        <5>2. /\ last[g] # None => Outlasts(made, stored', g, x.old)
              /\ last[g] # None /\ g \notin elsewhere =>
                   last[g] = x.decision /\ Outlasts(made, rules', g, x.old)
          BY <1>4, <2>4, <2>7, <2>8, <5>1
        <5> QED BY <2>3, <5>1, <5>2 DEF Timely
      <4>7. queue' = queue
        BY <3>2
      <4> QED BY <1>2, <4>3, <4>4, <4>5, <4>6, <4>7, QueueStep
    <3> QED BY <1>4, <3>1, <3>2 DEF Settle, Outcomes
  <2>13. PICK x \in Records : /\ req' = [req EXCEPT ![r] = x]
                              /\ Sound(x)' /\ Timely(x)'
                              /\ queue' \in Seq(Requests) /\ OneIsDecided'
    BY <2>12
  <2>14. Types'
    <3>1. req' \in [Requests -> Records']
      BY <2>4, <2>11, <2>13
    <3> QED BY <1>2, <1>4, <2>3, <2>13, <3>1 DEF Types
  <2>15. \A p \in Requests : Sound(req[p])' /\ Timely(req[p])'
    BY <1>2, <2>3, <2>13, FrontGoesOn
  <2> QED BY <2>10, <2>13, <2>14, <2>15 DEF Inv
<1> QED BY <1>1, <1>3, <1>4, Zenon DEF Deleted

LEMMA BlockPostedStep == ASSUME Inv, NEW r \in Requests, BlockPosted(r) PROVE Inv'
<1>1. PICK q : q = req[r]
  OBVIOUS
<1>2. /\ Types /\ OneIsDecided /\ Memory /\ q \in Records
      /\ q.pc = "blocking" /\ queue # <<>> /\ Head(queue) = r
      /\ UNCHANGED <<logins, loaded, itemReads, outside, last, left, elsewhere>>
  BY <1>1 DEF Inv, Types, BlockPosted, AtFront
<1>3. CASE Leave(r, "failed") /\ UNCHANGED <<made, stored, rules, blocked>>
  <2>1. approved' \subseteq Sources /\ itemReads' \subseteq Sources /\ active' = active
    BY <1>2 DEF Types, logins
  <2> QED BY <1>2, <1>3, <2>1, RequestEnds DEF Outcomes, rulesVars, history
<1> DEFINE rule == [source |-> q.source, method |-> "block", decision |-> "deny"]
<1>4. CASE Post(rule) /\ blocked' = blocked \cup {q.source} /\ Leave(r, "refused")
  <2>1. q.source \in Sources
    BY <1>2 DEF Records
  <2>2. rule \in Rules /\ rule.source = q.source /\ rule.method = "block"
    BY <2>1 DEF Rules
  <2>3. /\ Len(made) < MaxRules /\ made' = Append(made, rule)
        /\ stored' = stored \cup {Len(made')} /\ rules' = rules \cup {Len(made')}
    BY <1>4 DEF Post
  <2> HIDE DEF rule
  <2>4. /\ Len(made') = Len(made) + 1
        /\ \A i \in 1..Len(made) : made'[i] = made[i]
        /\ Records \subseteq Records'
    BY <1>2, <2>2, <2>3, LogGrows
  <2>5. /\ made \in Seq(Rules) /\ stored \in SUBSET (1..Len(made)) /\ rules \in SUBSET (1..Len(made))
    BY <1>2 DEF Types
  <2>6. stored' = stored \cup {Len(made) + 1} /\ rules' = rules \cup {Len(made) + 1}
    BY <2>3, <2>4
  <2>7. ASSUME NEW h, ~(h[1] = rule.source /\ h[2] = rule.method)
        PROVE  /\ RulesFor(made', stored', h) = RulesFor(made, stored, h)
               /\ RulesFor(made', rules', h) = RulesFor(made, rules, h)
               /\ \A decision : Says(made', stored', h, decision) <=> Says(made, stored, h, decision)
               /\ \A decision : Says(made', rules', h, decision) <=> Says(made, rules, h, decision)
    BY <2>2, <2>3, <2>6, <2>7, OthersKnown
  <2>8. Memory'
    <3>1. ASSUME NEW h \in Grants PROVE GrantIsStored(h)' /\ GrantIsKnown(h)'
      <4>1. ~(h[1] = rule.source /\ h[2] = rule.method)
        BY <2>2 DEF Grants
      <4>2. GrantIsStored(h) /\ GrantIsKnown(h)
        BY <1>2 DEF Memory
      <4> QED BY <1>2, <2>7, <4>1, <4>2 DEF GrantIsStored, GrantIsKnown
    <3>2. ASSUME NEW s \in blocked' PROVE BlockIsStored(s)'
      <4> DEFINE h == <<s, "block">>
      <4>1. CASE s = q.source
        <5>1. /\ RulesFor(made', stored', h) = RulesFor(made, stored, h) \cup {Len(made) + 1}
              /\ RulesFor(made', rules', h) = RulesFor(made, rules, h) \cup {Len(made) + 1}
          <6>1. h[1] = rule.source /\ h[2] = rule.method
            BY <2>2, <4>1
          <6> HIDE DEF h
          <6>2. RulesFor(Append(made, rule), stored \cup {Len(made) + 1}, h) =
                  RulesFor(made, stored, h) \cup {Len(made) + 1}
            BY <2>2, <2>5, <6>1, LaterRules
          <6>3. RulesFor(Append(made, rule), rules \cup {Len(made) + 1}, h) =
                  RulesFor(made, rules, h) \cup {Len(made) + 1}
            BY <2>2, <2>5, <6>1, LaterRules
          <6> QED BY <2>3, <2>6, <6>2, <6>3
        <5> QED BY <5>1 DEF BlockIsStored
      <4>2. CASE s # q.source
        <5>1. RulesFor(made, stored, h) # {} /\ (s \in loaded => RulesFor(made, rules, h) # {})
          BY <1>2, <1>4, <4>2 DEF Memory, BlockIsStored
        <5>2. ~(h[1] = rule.source /\ h[2] = rule.method)
          BY <2>2, <4>2
        <5>3. RulesFor(made', stored', h) = RulesFor(made, stored, h) /\
              RulesFor(made', rules', h) = RulesFor(made, rules, h)
          <6> HIDE DEF h
          <6> QED BY <2>7, <5>2
        <5> QED BY <1>2, <5>1, <5>3 DEF BlockIsStored
      <4> QED BY <4>1, <4>2
    <3> QED BY <3>1, <3>2 DEF Memory
  <2>9. PICK x : x = Ended("refused")
    OBVIOUS
  <2>10. x \in Records /\ x.pc \notin Busy /\ Sound(x)
    BY <2>9, EndedFits DEF Outcomes
  <2>11. req' = [req EXCEPT ![r] = x] /\ queue' = Tail(queue)
    BY <1>4, <2>9 DEF Leave, Put
  <2>12. \A p \in Requests : Sound(req[p])' /\ Timely(req[p])'
    <3>1. Sound(x)' /\ Timely(x)'
      BY <1>2, <2>4, <2>10, OthersStay
    <3> QED BY <1>2, <2>4, <2>11, <3>1, FrontGoesOn
  <2>13. queue' \in Seq(Requests) /\ OneIsDecided'
    BY <1>2, <2>10, <2>11, QueueStep
  <2>14. Types'
    <3>1. left' \subseteq 1..Len(made) /\ blocked' \subseteq Sources /\ elsewhere' \subseteq Grants
          /\ last' \in [Grants -> Decisions \cup {None}]
      BY <1>2, <1>4, <2>1 DEF Types
    <3>2. Post(rule)
      BY <1>4
    <3> QED BY <1>2, <2>2, <2>10, <2>11, <2>13, <3>1, <3>2, PostTypes
  <2> QED BY <2>8, <2>12, <2>13, <2>14 DEF Inv
<1>5. CASE PostUnheard(rule) /\ blocked' = blocked /\ Leave(r, "failed")
  <2>1. rule \in Rules /\ rule.source = q.source /\ rule.method = "block"
    BY <1>2 DEF Records, Rules
  <2>2. /\ Len(made) < MaxRules /\ made' = Append(made, rule)
        /\ stored' = stored \cup {Len(made')} /\ rules' = rules
    BY <1>5 DEF PostUnheard
  <2> HIDE DEF rule
  <2>3. /\ made' \in Seq(Rules) /\ Len(made') = Len(made) + 1 /\ Len(made') <= MaxRules
        /\ \A i \in 1..Len(made) : made'[i] = made[i]
        /\ 1..Len(made) \subseteq 1..Len(made') /\ Len(made') \in 1..Len(made')
        /\ Records \subseteq Records'
    BY <1>2, <2>1, <2>2, LogGrows
  <2>4. /\ made \in Seq(Rules) /\ stored \in SUBSET (1..Len(made)) /\ rules \in SUBSET (1..Len(made))
        /\ stored' = stored \cup {Len(made) + 1}
    BY <1>2, <2>2, <2>3 DEF Types
  <2>5. ASSUME NEW h PROVE /\ RulesFor(made', rules', h) = RulesFor(made, rules, h)
                           /\ \A dec : Says(made', rules', h, dec) <=> Says(made, rules, h, dec)
    <3>1. RulesFor(made', rules', h) = RulesFor(made, rules, h)
      BY <2>2, <2>3, <2>4 DEF RulesFor
    <3>2. \A i \in RulesFor(made, rules, h) : made'[i] = made[i]
      BY <2>3, <2>4 DEF RulesFor
    <3> QED BY <3>1, <3>2, SameSays
  <2>6. ASSUME NEW h, ~(h[1] = rule.source /\ h[2] = rule.method)
        PROVE  /\ RulesFor(made', stored', h) = RulesFor(made, stored, h)
               /\ \A dec : Says(made', stored', h, dec) <=> Says(made, stored, h, dec)
    <3>1. Types /\ rule \in Rules /\ made' = Append(made, rule) /\ stored \in SUBSET (1..Len(made))
      BY <1>2, <2>1, <2>2, <2>4
    <3>2. /\ RulesFor(made', stored \cup {Len(made) + 1}, h) = RulesFor(made, stored, h)
          /\ \A dec : Says(made', stored \cup {Len(made) + 1}, h, dec) <=> Says(made, stored, h, dec)
      BY <2>6, <3>1, OtherGrant
    <3> QED BY <2>4, <3>2
  <2>7. Memory'
    <3>1. ASSUME NEW h \in Grants PROVE GrantIsStored(h)' /\ GrantIsKnown(h)'
      <4>1. ~(h[1] = rule.source /\ h[2] = rule.method)
        BY <2>1 DEF Grants
      <4>2. GrantIsStored(h) /\ GrantIsKnown(h)
        BY <1>2 DEF Memory
      <4> QED BY <1>2, <2>5, <2>6, <4>1, <4>2 DEF GrantIsStored, GrantIsKnown
    <3>2. ASSUME NEW s \in blocked PROVE BlockIsStored(s)'
      <4> DEFINE h == <<s, "block">>
      <4>1. RulesFor(made, stored, h) # {} /\ (s \in loaded => RulesFor(made, rules, h) # {})
        BY <1>2 DEF Memory, BlockIsStored
      <4>2. RulesFor(made, stored, h) \subseteq RulesFor(made', stored', h)
        BY <2>3, <2>4 DEF RulesFor
      <4>3. RulesFor(made', rules', h) = RulesFor(made, rules, h)
        BY <2>5
      <4> QED BY <1>2, <4>1, <4>2, <4>3 DEF BlockIsStored
    <3> QED BY <1>5, <3>1, <3>2 DEF Memory
  <2>8. PICK x : x = Ended("failed")
    OBVIOUS
  <2>9. x \in Records /\ x.pc \notin Busy /\ Sound(x)
    BY <2>8, EndedFits DEF Outcomes
  <2>10. req' = [req EXCEPT ![r] = x] /\ queue' = Tail(queue)
    BY <1>5, <2>8 DEF Leave, Put
  <2>11. \A p \in Requests : Sound(req[p])' /\ Timely(req[p])'
    <3>1. Sound(x)' /\ Timely(x)'
      BY <1>2, <2>3, <2>9, OthersStay
    <3> QED BY <1>2, <2>3, <2>10, <3>1, FrontGoesOn
  <2>12. queue' \in Seq(Requests) /\ OneIsDecided'
    BY <1>2, <2>9, <2>10, QueueStep
  <2>13. Types'
    <3>1. stored' \subseteq 1..Len(made') /\ rules' \subseteq 1..Len(made') /\ left' \subseteq 1..Len(made')
      BY <1>2, <2>2, <2>3 DEF Types
    <3>2. req' \in [Requests -> Records']
      BY <1>2, <2>3, <2>9, <2>10 DEF Types
    <3> QED BY <1>2, <1>5, <2>3, <2>12, <3>1, <3>2 DEF Types, logins
  <2> QED BY <2>7, <2>11, <2>12, <2>13 DEF Inv
<1> QED BY <1>1, <1>3, <1>4, <1>5, Zenon DEF BlockPosted
-----------------------------------------------------------------------------
(* The theorems about the requests of a site. *)

LEMMA NextHolds == ASSUME Inv, [Next]_vars PROVE Inv'
<1>1. CASE UNCHANGED vars
  <2>1. UNCHANGED <<approved, active, made, stored, loaded, rules, itemReads, queue, req, outside,
                    last, blocked, left, elsewhere>>
    BY <1>1 DEF vars, logins, rulesVars, history
  <2>2. Types' /\ OneIsDecided' /\ Memory'
    BY <2>1 DEF Inv, Types, Records, OneIsDecided, Memory, GrantIsStored, GrantIsKnown, BlockIsStored
  <2>3. \A r \in Requests : Sound(req[r])' /\ Timely(req[r])'
    BY <2>1 DEF Inv, Sound, Timely
  <2> QED BY <2>2, <2>3 DEF Inv
<1>2. ASSUME NEW r \in Requests, Step(r) PROVE Inv'
  BY <1>2, CheckedStep, NoticedStep, FetchedStep, DecideStep, AnswerSteps, BlockStep, RememberStep,
     PostedStep, DeletedStep, BlockPostedStep DEF Step
<1>3. CASE \E r \in Requests : \E s \in Sources, kind \in Kinds : Request(r, s, kind)
  BY <1>3, RequestStep
<1>4. CASE \E s \in Sources, complete \in BOOLEAN : Discovered(s, complete)
  BY <1>4, DiscoveredStep
<1>5. CASE \E g \in Grants, decision \in Decisions : RememberedElsewhere(g[1], g[2], decision)
  BY <1>5, RememberedElsewhereStep
<1>6. CASE \E i \in 1..Len(made) : Audit(i)
  BY <1>6, AuditStep
<1>7. CASE LogIn \/ LogOut \/ \E s \in Sources : Grant(s) \/ LeftElsewhere(s)
  BY <1>7, LoginSteps
<1>8. CASE Reload
  BY <1>8, ReloadStep
<1> QED BY <1>1, <1>2, <1>3, <1>4, <1>5, <1>6, <1>7, <1>8 DEF Next

THEOREM Inductive == Spec => []Inv
<1>1. Init => Inv
  BY InitHolds
<1>2. Inv /\ [Next]_vars => Inv'
  BY NextHolds
<1> QED BY <1>1, <1>2, PTL DEF Spec

\* The types of DataGuard, one request at most being decided.
THEOREM GuardTypes == Spec => []TypeOK
<1>1. Inv => TypeOK
  <2> SUFFICES ASSUME Inv PROVE TypeOK
    OBVIOUS
  <2>1. Types /\ OneIsDecided
    BY DEF Inv
  <2>2. ASSUME NEW r \in Requests
        PROVE  /\ req[r].pc \in Outcomes \cup {"none", "loading", "fetching", "queued", "asking",
                                               "remembering", "deleting", "blocking"}
               /\ req[r].source \in Sources /\ req[r].kind \in Kinds \cup {"none"}
               /\ req[r].decision \in Decisions \cup {None} /\ req[r].old \subseteq 1..Len(made)
               /\ req[r].pc \in {"asking", "remembering", "deleting", "blocking"} => Head(queue) = r
    <3>1. req[r] \in Records
      BY <2>1 DEF Types
    <3> QED BY <2>1, <3>1 DEF Records, Pcs, Busy, OneIsDecided
  <2> QED BY <2>1, <2>2 DEF TypeOK, Types
<1> QED BY <1>1, Inductive, PTL

\* What the user last had remembered for a grant is what any later page finds in the
\* storage, whichever writes and deletions of latestDecision()'s rules failed.
THEOREM DecisionsStand == Spec => []AnswersStand
<1>1. Inv => AnswersStand
  <2> SUFFICES ASSUME Inv, NEW g \in Grants
               PROVE  IF last[g] = None THEN Of(stored, g[1], g[2]) \subseteq left
                      ELSE Decided(stored, g[1], g[2]) = last[g]
    BY DEF AnswersStand
  <2>1. GrantIsStored(g) /\ stored \in SUBSET (1..Len(made)) /\ made \in Seq(Rules)
    BY DEF Inv, Memory, Types
  <2>2. CASE last[g] = None
    BY <2>1, <2>2 DEF GrantIsStored, RulesFor, Of
  <2>3. CASE last[g] # None
    <3>1. Says(made, stored, g, last[g])
      BY <2>1, <2>3 DEF GrantIsStored
    <3> QED BY <2>1, <2>3, <3>1, SaysDecides
  <2> QED BY <2>2, <2>3
<1> QED BY <1>1, Inductive, PTL

\* No prompt asks for what the user had this page remember.
THEOREM PromptsAreNeeded == Spec => []NoNeedlessPrompt
<1>1. Inv => NoNeedlessPrompt
  BY DEF Inv, Timely, GrantOf, NoNeedlessPrompt
<1> QED BY <1>1, Inductive, PTL

\* What ForwardsAreAllowed says of a step in which a request is forwarded.
MayForward(q) ==
  LET g == <<q.source, IF q.kind = "notice" THEN "read" ELSE q.kind>> IN
  /\ Allows(q.source)
  /\ q.kind # "logout" => q.source \notin blocked
  /\ g \in Grants \ elsewhere => last'[g] # "deny"

LEMMA OutcomeIs ==
  ASSUME Inv, NEW r \in Requests, NEW outcome \in Outcomes,
         Put(r, Ended(outcome)) \/ Leave(r, outcome)
  PROVE  req'[r].pc = outcome
<1>1. req' = [req EXCEPT ![r] = Ended(outcome)] /\ req \in [Requests -> Records]
  BY DEF Inv, Types, Put, Leave
<1>2. Ended(outcome).pc = outcome
  BY EndedFits
<1>3. req'[r] = Ended(outcome)
  BY <1>1
<1> QED BY <1>2, <1>3

LEMMA StateIs ==
  ASSUME Inv, NEW r \in Requests, NEW pc \in Pcs, Put(r, [req[r] EXCEPT !.pc = pc])
  PROVE  req'[r].pc = pc
<1>1. PICK x : x = [req[r] EXCEPT !.pc = pc]
  OBVIOUS
<1>2. Types /\ req \in [Requests -> Records]
  BY DEF Inv, Types
<1>3. x.pc = pc
  BY <1>1, <1>2, NewState
<1>4. req'[r] = x
  BY <1>1, <1>2 DEF Put
<1> QED BY <1>3, <1>4

\* A source whose rules the page knows is not one that the user has blocked.
LEMMA UnblockedPasses ==
  ASSUME Inv, NEW s \in loaded, ~IsBlocked(s)
  PROVE  s \notin blocked
<1>1. s \in blocked => RulesFor(made, rules, <<s, "block">>) # {}
  BY DEF Inv, Memory, BlockIsStored
<1> QED BY <1>1 DEF IsBlocked, Of, RulesFor

LEMMA DenialIsKnown ==
  ASSUME Inv, NEW g \in Grants \ elsewhere, g[1] \in loaded, last[g] = "deny"
  PROVE  Decided(rules, g[1], g[2]) = "deny"
<1>1. Says(made, rules, g, "deny")
  BY DEF Inv, Memory, GrantIsKnown
<1> QED BY <1>1, SaysDecides DEF Inv, Types

LEMMA CheckedForwards ==
  ASSUME Inv, NEW r \in Requests, Checked(r), req'[r].pc = "forwarded"
  PROVE  MayForward(req[r])
<1>1. ~Put(r, Ended("refused")) /\ ~Put(r, [req[r] EXCEPT !.pc = "fetching"])
  BY OutcomeIs, StateIs DEF Outcomes, Pcs
<1>2. MayPass(req[r].source) /\ req[r].kind = "stream" /\ req[r].source \in loaded
  BY <1>1 DEF Checked, Ready
<1> QED BY <1>2, UnblockedPasses DEF MayPass, MayForward, Grants

LEMMA NoticedForwards ==
  ASSUME Inv, NEW r \in Requests, Noticed(r), req'[r].pc = "forwarded"
  PROVE  MayForward(req[r])
<1> DEFINE s == req[r].source
           g == <<s, "read">>
<1>1. ~Put(r, Ended("refused"))
  BY OutcomeIs DEF Outcomes
<1>2. /\ MayPass(s) /\ s \in loaded /\ req[r].kind = "notice"
      /\ Decided(rules, s, "read") = "allow" \/ Decided(rules, s, "read") = None
      /\ last' = last
  BY <1>1 DEF Noticed, Ready, history
<1>3. g \in Grants \ elsewhere => last[g] # "deny"
  BY <1>2, DenialIsKnown
<1> QED BY <1>2, <1>3, UnblockedPasses DEF MayPass, MayForward

LEMMA DecideForwards ==
  ASSUME Inv, NEW r \in Requests, Decide(r), req'[r].pc = "forwarded"
  PROVE  MayForward(req[r])
<1> DEFINE q == req[r]
           g == <<q.source, q.kind>>
<1>1. ~Leave(r, "refused") /\ ~Put(r, [req[r] EXCEPT !.pc = "asking"])
  BY OutcomeIs, StateIs DEF Outcomes, Pcs, Busy
<1>2. Passes(r) /\ State(r) = "allow" /\ q.pc = "queued" /\ last' = last /\ Sound(q)
  BY <1>1 DEF Decide, AtFront, history, Inv
<1>3. q.kind # "notice" /\ (q.kind # "logout" => q.source \in loaded)
  BY <1>2 DEF Sound
<1>4. q.kind # "logout" => q.source \notin blocked
  BY <1>2, <1>3, UnblockedPasses DEF Passes
<1>5. ASSUME g \in Grants \ elsewhere PROVE last[g] # "deny"
  <2>1. q.source \in loaded
    BY <1>3, <1>5 DEF Grants
  <2>2. last[g] # None => State(r) = last[g]
    BY <1>5, <2>1, StateFollows DEF GrantOf
  <2> QED BY <1>2, <2>2
<1> QED BY <1>2, <1>3, <1>4, <1>5 DEF MayForward, Passes

LEMMA PromptForwards ==
  ASSUME Inv, NEW r \in Requests,
         Refuse(r) \/ AllowOnce(r) \/ LeaveSite(r) \/ LeaveDevice(r), req'[r].pc = "forwarded"
  PROVE  MayForward(req[r])
<1> DEFINE q == req[r]
           g == <<q.source, q.kind>>
<1>1. ~Leave(r, "refused") /\ ~Leave(r, "left")
  BY OutcomeIs DEF Outcomes
<1>2. /\ Passes(r) /\ q.pc = "asking" /\ last' = last /\ Sound(q) /\ Timely(q)
  BY <1>1 DEF Refuse, AllowOnce, LeaveSite, LeaveDevice, AtFront, history, Inv
<1>3. q.kind # "notice" /\ (q.kind # "logout" => q.source \in loaded)
  BY <1>2 DEF Sound, Busy
<1>4. q.kind # "logout" => q.source \notin blocked
  BY <1>2, <1>3, UnblockedPasses DEF Passes
<1>5. g \in Grants \ elsewhere => last[g] # "deny"
  BY <1>2 DEF Timely, GrantOf
<1> QED BY <1>2, <1>3, <1>4, <1>5 DEF MayForward, Passes

\* A remembered request is forwarded if it was allowed, now or in other words.
LEMMA SettleForwards ==
  ASSUME Inv, NEW r \in Requests, Settle(r), req'[r].pc = "forwarded"
  PROVE  req[r].decision = "allow" /\ Allows(req[r].source)
<1>1. ~Leave(r, "refused")
  BY OutcomeIs DEF Outcomes
<1> QED BY <1>1 DEF Settle

LEMMA PostedForwards ==
  ASSUME Inv, NEW r \in Requests, Posted(r), req'[r].pc = "forwarded"
  PROVE  MayForward(req[r])
<1> DEFINE q == req[r]
           g == <<q.source, q.kind>>
<1>1. ~Leave(r, "failed") /\ ~Put(r, [q EXCEPT !.pc = "deleting"])
  BY OutcomeIs, StateIs DEF Outcomes, Pcs, Busy
<1>2. /\ q.pc = "remembering" /\ Settle(r) /\ Sound(q)
      /\ last' = [last EXCEPT ![g] = q.decision] /\ last \in [Grants -> Decisions \cup {None}]
  BY <1>1 DEF Posted, AtFront, Inv, Types
<1>3. q.kind \in {"read", "delete"} /\ q.source \notin blocked
  BY <1>2 DEF Sound
<1>4. q.decision = "allow" /\ Allows(q.source)
  BY <1>2, SettleForwards
<1>5. g \in Grants => last'[g] # "deny"
  BY <1>2, <1>4
<1> QED BY <1>3, <1>4, <1>5 DEF MayForward

LEMMA DeletedForwards ==
  ASSUME Inv, NEW r \in Requests, Deleted(r), req'[r].pc = "forwarded"
  PROVE  MayForward(req[r])
<1> DEFINE q == req[r]
           g == <<q.source, q.kind>>
<1>1. q.pc = "deleting" /\ Sound(q) /\ Timely(q) /\ last' = last
  BY DEF Deleted, AtFront, Inv, history
<1>2. q.kind \in {"read", "delete"} /\ q.source \notin blocked
  BY <1>1 DEF Sound
<1>3. ~Leave(r, "failed")
  BY OutcomeIs DEF Outcomes
<1>4. ASSUME NEW i, Put(r, [q EXCEPT !.old = @ \ {i}]) PROVE FALSE
  <2>1. req \in [Requests -> Records]
    BY DEF Inv, Types
  <2>2. PICK y : y = req[r]
    OBVIOUS
  <2>3. y \in [pc : Pcs, source : Sources, kind : Kinds \cup {"none"},
               decision : Decisions \cup {None}, old : SUBSET (1..Len(made))]
    BY <2>1, <2>2 DEF Records
  <2>4. [y EXCEPT !.old = y.old \ {i}] = [pc |-> y.pc, source |-> y.source, kind |-> y.kind,
                                          decision |-> y.decision, old |-> y.old \ {i}]
    <3>1. PICK old : old = y.old \ {i}
      OBVIOUS
    <3>2. old \in SUBSET (1..Len(made))
      BY <2>3, <3>1
    <3>3. [y EXCEPT !.old = old] = [pc |-> y.pc, source |-> y.source, kind |-> y.kind,
                                    decision |-> y.decision, old |-> old]
      BY <2>3, <3>2, OldUpdate
    <3> QED BY <3>1, <3>3
  <2>5. PICK x : x = [y EXCEPT !.old = y.old \ {i}]
    OBVIOUS
  <2>6. req'[r] = x
    <3>1. req' = [req EXCEPT ![r] = x]
      BY <1>4, <2>2, <2>5, Zenon DEF Put
    <3> QED BY <2>1, <3>1
  <2>7. x.pc = "deleting"
    BY <1>1, <2>2, <2>4, <2>5
  <2> QED BY <2>6, <2>7
<1>5. Settle(r)
  BY <1>3, <1>4 DEF Deleted
<1>6. q.decision = "allow" /\ Allows(q.source)
  BY <1>5, SettleForwards
<1>7. g \in Grants \ elsewhere => last[g] # "deny"
  BY <1>1, <1>6 DEF Timely, GrantOf
<1> QED BY <1>1, <1>2, <1>6, <1>7 DEF MayForward

\* Nothing else forwards a request.
LEMMA OtherStepsForwardNothing ==
  ASSUME Inv, NEW r \in Requests, req'[r].pc = "forwarded"
  PROVE  /\ ~Fetched(r) /\ ~Block(r) /\ ~BlockPosted(r)
         /\ \A decision \in Decisions : ~Remember(r, decision)
         /\ \A s \in Sources, kind \in Kinds : ~Request(r, s, kind)
<1>1. req \in [Requests -> Records] /\ req[r] \in Records
  BY DEF Inv, Types
<1>2. \A outcome \in Outcomes \ {"forwarded"} : ~Put(r, Ended(outcome)) /\ ~Leave(r, outcome)
  BY OutcomeIs
<1>3. \A pc \in Pcs \ {"forwarded"} : ~Put(r, [req[r] EXCEPT !.pc = pc])
  BY StateIs
<1>4. ~Fetched(r) /\ ~Block(r) /\ ~BlockPosted(r)
  BY <1>2, <1>3 DEF Fetched, Block, BlockPosted, Outcomes, Pcs, Busy
<1>5. ASSUME NEW decision \in Decisions, Remember(r, decision) PROVE FALSE
  <2>1. PICK old : old = Old(r)
    OBVIOUS
  <2>2. old \in SUBSET (1..Len(made))
    BY <2>1 DEF Inv, Types, Old, Of
  <2>3. PICK x : x = [req[r] EXCEPT !.pc = "remembering", !.decision = decision, !.old = old]
    OBVIOUS
  <2>4. x = [pc |-> "remembering", source |-> req[r].source, kind |-> req[r].kind,
             decision |-> decision, old |-> old]
    BY <1>1, <2>2, <2>3, RememberedRecord
  <2>5. req'[r] = x
    BY <1>1, <1>5, <2>1, <2>3 DEF Remember, Put
  <2> QED BY <2>4, <2>5
<1>6. ASSUME NEW s \in Sources, NEW kind \in Kinds, Request(r, s, kind) PROVE FALSE
  <2> DEFINE q == [NoRequest EXCEPT !.source = s, !.kind = kind]
  <2>1. ASSUME NEW pc \in {"queued", "loading"}, Put(r, [q EXCEPT !.pc = pc]) PROVE FALSE
    <3>1. PICK x : x = [q EXCEPT !.pc = pc]
      OBVIOUS
    <3>2. pc \in Pcs
      BY DEF Pcs
    <3>3. x = [pc |-> pc, source |-> s, kind |-> kind, decision |-> None, old |-> {}]
      BY <3>1, <3>2, RequestedRecord
    <3>4. req'[r] = x
      BY <1>1, <2>1, <3>1 DEF Put
    <3> QED BY <3>3, <3>4
  <2>2. ~Put(r, Ended("refused"))
    BY <1>2 DEF Outcomes
  <2> QED BY <1>6, <2>1, <2>2 DEF Request
<1> QED BY <1>4, <1>5, <1>6

\* A step is about one request.
LEMMA OnlyOneMoves ==
  ASSUME Inv, NEW p \in Requests, NEW r \in Requests, p # r,
         Step(p) \/ \E s \in Sources, kind \in Kinds : Request(p, s, kind)
  PROVE  req'[r] = req[r]
<1>1. req \in [Requests -> Records]
  BY DEF Inv, Types
<1>2. \A q : Put(p, q) => req'[r] = req[r]
  BY <1>1 DEF Put
<1>3. \A outcome : Leave(p, outcome) => req'[r] = req[r]
  BY <1>2 DEF Leave
<1>4. CASE \E s \in Sources, kind \in Kinds : Request(p, s, kind)
  BY <1>2, <1>4 DEF Request
<1>5. CASE Checked(p) \/ Noticed(p) \/ Fetched(p) \/ Decide(p)
  BY <1>2, <1>3, <1>5 DEF Checked, Noticed, Fetched, Decide
<1>6. CASE Refuse(p) \/ AllowOnce(p) \/ Block(p) \/ LeaveSite(p) \/ LeaveDevice(p)
  BY <1>2, <1>3, <1>6 DEF Refuse, AllowOnce, Block, LeaveSite, LeaveDevice
<1>7. CASE \E decision \in Decisions : Remember(p, decision)
  BY <1>2, <1>7 DEF Remember
<1>8. CASE Posted(p) \/ Deleted(p) \/ BlockPosted(p)
  BY <1>2, <1>3, <1>8 DEF Posted, Deleted, BlockPosted, Settle
<1> QED BY <1>4, <1>5, <1>6, <1>7, <1>8 DEF Step

LEMMA ForwardPasses ==
  ASSUME Inv, [Next]_vars, NEW r \in Requests, req'[r].pc = "forwarded", req[r].pc # "forwarded"
  PROVE  MayForward(req[r])
<1>1. req'[r] # req[r]
  OBVIOUS
<1>2. req' # req
  BY <1>1
<1>3. CASE \E p \in Requests : Step(p)
  <2>1. Step(r)
    BY <1>1, <1>3, OnlyOneMoves
  <2> QED BY <2>1, CheckedForwards, NoticedForwards, DecideForwards, PromptForwards, PostedForwards,
             DeletedForwards, OtherStepsForwardNothing DEF Step
<1>4. CASE \E p \in Requests : \E s \in Sources, kind \in Kinds : Request(p, s, kind)
  BY <1>1, <1>4, OnlyOneMoves, OtherStepsForwardNothing
<1>5. CASE Reload
  <2>1. req'[r] = Ended("failed")
    BY <1>1, <1>5 DEF Reload
  <2> QED BY <2>1, EndedFits DEF Outcomes
<1>6. /\ ~UNCHANGED vars /\ ~LogIn /\ ~LogOut
      /\ \A s \in Sources : ~Grant(s) /\ ~LeftElsewhere(s)
      /\ \A s \in Sources, complete \in BOOLEAN : ~Discovered(s, complete)
  BY <1>2 DEF vars, LogIn, LogOut, Grant, LeftElsewhere, Discovered
<1>7. /\ \A g \in Grants, decision \in Decisions : ~RememberedElsewhere(g[1], g[2], decision)
      /\ \A i \in 1..Len(made) : ~Audit(i)
  BY <1>2 DEF RememberedElsewhere, Audit
<1> QED BY <1>3, <1>4, <1>5, <1>6, <1>7 DEF Next

\* What is forwarded has a login, is not blocked, and no decision that this page has
\* heard of denies it, at the time it is forwarded, however long decide() waited.
THEOREM ForwardsPass == Spec => ForwardsAreAllowed
<1>1. Inv /\ [Next]_vars =>
        [\A r \in Requests :
           LET q == req[r]
               g == <<q.source, IF q.kind = "notice" THEN "read" ELSE q.kind>>
           IN req'[r].pc = "forwarded" /\ q.pc # "forwarded" =>
                /\ Allows(q.source)
                /\ q.kind # "logout" => q.source \notin blocked
                /\ g \in Grants \ elsewhere => last'[g] # "deny"]_vars
  BY ForwardPasses DEF MayForward
<1> QED BY <1>1, Inductive, PTL DEF Spec, ForwardsAreAllowed
-----------------------------------------------------------------------------
(***************************************************************************)
(* The page that lists rules and revokes them.                             *)
(***************************************************************************)

Addresses == [account : Accounts \cup {None}, first : {choice.sites : choice \in StartChoices},
              sites : SUBSET UNION {SitesOf[r] : r \in AuditRules}]

\* The rules that are shown are those of the account, and an operation goes on for the
\* account that was selected when it began.
PanelInv ==
  /\ sessions \subseteq Accounts
  /\ account \in Accounts \cup {None} /\ address \in Addresses
  /\ kept \subseteq AuditRules /\ found \subseteq AuditRules
  /\ found # {} => account \in Accounts
  /\ \A r \in found : AccountOf[r] = account
  /\ busy \in {None} \cup [kind : {"revoke", "login"}, session : Accounts \cup {None},
                           rules : SUBSET AuditRules]
  /\ busy # None /\ busy.kind = "revoke" =>
       /\ busy.session = account /\ account \in Accounts
       /\ busy.rules \subseteq agreed
       /\ \A r \in busy.rules : AccountOf[r] = account
  /\ \A x \in revoked : x[1] \in agreed /\ AccountOf[x[1]] = x[2]

LEMMA SelectedAccount ==
  ASSUME NEW link, NEW here \in SUBSET Accounts, link.account \in Accounts \cup {None}
  PROVE  /\ Panel!Selected(link, here) \in Accounts \cup {None}
         /\ link.account # None => Panel!Selected(link, here) = link.account
BY DEF Panel!Selected

LEMMA AddressUpdate ==
  ASSUME NEW x \in Addresses
  PROVE  /\ \A a \in Accounts \cup {None} : [x EXCEPT !.account = a] \in Addresses
         /\ \A s \in SUBSET UNION {SitesOf[r] : r \in AuditRules} : [x EXCEPT !.sites = s] \in Addresses
BY DEF Addresses

LEMMA PanelInit == GuardInit => PanelInv
<1> SUFFICES ASSUME GuardInit PROVE PanelInv
  OBVIOUS
<1>1. PICK choice \in StartChoices : account = Panel!Selected(choice, sessions)
  BY DEF GuardInit, Panel!AuditInit
<1>2. account \in Accounts \cup {None}
  BY <1>1, AuditTypes, SelectedAccount DEF GuardInit, Panel!AuditInit
<1>3. /\ sessions \subseteq Accounts /\ kept \in FirstRules /\ found = {} /\ busy = None /\ revoked = {}
      /\ \E link \in StartChoices :
           address = [account |-> account, first |-> link.sites, sites |-> {}]
  BY DEF GuardInit, Panel!AuditInit
<1>4. address \in Addresses
  BY <1>2, <1>3 DEF Addresses
<1> QED BY <1>2, <1>3, <1>4, AuditTypes DEF PanelInv

LEMMA ShownAreFound ==
  ASSUME PanelInv
  PROVE  /\ Panel!Shown \subseteq found /\ Panel!PagedRules \subseteq found
         /\ \A some \in SUBSET found : some # {} =>
              account \in Accounts /\ \A r \in some : AccountOf[r] = account
BY DEF PanelInv, Panel!Shown, Panel!Filtered, Panel!PagedRules

LEMMA AccountSteps ==
  ASSUME PanelInv, NEW a \in Accounts,
         Panel!SelectAccount(a) \/ Panel!SessionStarts(a) \/ Panel!SessionEnds(a)
  PROVE  PanelInv'
<1>1. CASE Panel!SelectAccount(a)
  <2>1. /\ account' = a /\ found' = {} /\ busy = None /\ UNCHANGED <<sessions, kept, busy, agreed, revoked>>
        /\ address' = [address EXCEPT !.account = a]
    BY <1>1 DEF Panel!SelectAccount, Panel!Restart, Panel!Show
  <2>2. address' \in Addresses
    BY <2>1, AddressUpdate DEF PanelInv
  <2> QED BY <2>1, <2>2 DEF PanelInv
<1>2. CASE Panel!SessionStarts(a)
  <2>1. sessions' \in SUBSET Accounts /\ [account |-> account].account \in Accounts \cup {None}
    BY <1>2 DEF PanelInv, Panel!SessionStarts
  <2>2. account' = Panel!Selected([account |-> account], sessions')
    BY <1>2 DEF Panel!SessionStarts
  <2>3. account' \in Accounts \cup {None} /\ (account # None => account' = account)
    BY <2>1, <2>2, SelectedAccount
  <2>4. found' = {} \/ found' = found
    BY <1>2 DEF Panel!SessionStarts, Panel!Restart, Panel!Show
  <2>5. UNCHANGED <<kept, busy, agreed, revoked>>
    BY <1>2 DEF Panel!SessionStarts
  <2>6. address' = [address EXCEPT !.account = account']
    BY <1>2 DEF Panel!SessionStarts
  <2>7. address' \in Addresses
    BY <2>3, <2>6, AddressUpdate DEF PanelInv
  <2> QED BY <2>1, <2>3, <2>4, <2>5, <2>7, NoneIsNoAccount DEF PanelInv
<1>3. CASE Panel!SessionEnds(a)
  BY <1>3 DEF PanelInv, Panel!SessionEnds, Panel!Restart, Panel!Show
<1> QED BY <1>1, <1>2, <1>3

LEMMA ListSteps ==
  ASSUME PanelInv,
         \/ Panel!Discovered \/ Panel!ChangeSort \/ Panel!LogIn \/ Panel!LoginEnds \/ Panel!RevokeShown
         \/ \E r \in AuditRules : Panel!Elsewhere(r) \/ Panel!Revoke(r)
         \/ \E s \in SUBSET UNION {SitesOf[r] : r \in AuditRules} : Panel!Filter(s)
         \/ \E p : Panel!Turn(p)
  PROVE  PanelInv'
<1>1. CASE Panel!Discovered
  BY <1>1 DEF PanelInv, Panel!Discovered, Panel!Show, Panel!RulesOf, Panel!Active
<1>2. CASE Panel!ChangeSort \/ \E p : Panel!Turn(p)
  BY <1>2 DEF PanelInv, Panel!ChangeSort, Panel!Turn
<1>3. CASE Panel!LogIn
  BY <1>3 DEF PanelInv, Panel!LogIn, Panel!Run
<1>4. CASE Panel!LoginEnds
  BY <1>4 DEF PanelInv, Panel!LoginEnds
<1>5. ASSUME NEW todo \in SUBSET found, todo # {}, Panel!Run("revoke", todo) PROVE PanelInv'
  BY <1>5, ShownAreFound DEF PanelInv, Panel!Run
<1>6. CASE Panel!RevokeShown
  BY <1>5, <1>6, ShownAreFound DEF Panel!RevokeShown
<1>7. CASE \E r \in AuditRules : Panel!Revoke(r)
  BY <1>5, <1>7, ShownAreFound DEF Panel!Revoke
<1>8. CASE \E r \in AuditRules : Panel!Elsewhere(r)
  BY <1>8 DEF PanelInv, Panel!Elsewhere
<1>9. ASSUME NEW s \in SUBSET UNION {SitesOf[r] : r \in AuditRules}, Panel!Filter(s) PROVE PanelInv'
  <2>1. /\ UNCHANGED <<kept, sessions, account, found, busy, agreed, revoked>>
        /\ address' = [address EXCEPT !.sites = s]
    BY <1>9 DEF Panel!Filter, Panel!Show
  <2>2. address' \in Addresses
    BY <2>1, AddressUpdate DEF PanelInv
  <2> QED BY <2>1, <2>2 DEF PanelInv
<1> QED BY <1>1, <1>2, <1>3, <1>4, <1>6, <1>7, <1>8, <1>9

LEMMA RuleDeleted == ASSUME PanelInv, Panel!Deleted PROVE PanelInv'
<1>1. /\ busy # None /\ busy.kind = "revoke"
      /\ UNCHANGED <<sessions, account, address, agreed>>
  BY DEF Panel!Deleted
<1>2. busy \in [kind : {"revoke", "login"}, session : Accounts \cup {None}, rules : SUBSET AuditRules]
  BY <1>1 DEF PanelInv
<1>3. ASSUME NEW r \in busy.rules \cap kept,
             kept' = kept \ {r}, Panel!Show(found \ {r}, filter, page),
             revoked' = revoked \cup {<<r, busy.session>>},
             busy' = IF busy.rules = {r} THEN None ELSE [busy EXCEPT !.rules = busy.rules \ {r}]
      PROVE  PanelInv'
  <2>1. found' = found \ {r}
    BY <1>3 DEF Panel!Show
  <2>2. r \in agreed /\ AccountOf[r] = busy.session
    BY <1>1 DEF PanelInv
  <2>3. \A x \in revoked' : x[1] \in agreed' /\ AccountOf[x[1]] = x[2]
    BY <1>1, <1>3, <2>2 DEF PanelInv
  <2>4. PICK b : b = [busy EXCEPT !.rules = busy.rules \ {r}]
    OBVIOUS
  <2>5. /\ b \in [kind : {"revoke", "login"}, session : Accounts \cup {None}, rules : SUBSET AuditRules]
        /\ b.kind = busy.kind /\ b.session = busy.session /\ b.rules = busy.rules \ {r}
    BY <1>2, <2>4
  <2>6. busy' = None \/ busy' = b
    BY <1>3, <2>4
  <2> QED BY <1>1, <1>3, <2>1, <2>3, <2>5, <2>6 DEF PanelInv
<1>4. CASE busy' = None /\ UNCHANGED <<kept, found, revoked>>
  BY <1>1, <1>4 DEF PanelInv
<1> QED BY <1>3, <1>4 DEF Panel!Deleted, Panel!Todo

LEMMA PanelReload == ASSUME PanelInv, Panel!Reload PROVE PanelInv'
<1>1. UNCHANGED <<kept, sessions, agreed, revoked>> /\ found' = {} /\ busy' = None
  BY DEF Panel!Reload
<1>2. account' = Panel!Selected(address, sessions)
  BY DEF Panel!Reload
<1>3. address' = [address EXCEPT !.account = account']
  BY DEF Panel!Reload
<1>4. sessions \in SUBSET Accounts /\ address.account \in Accounts \cup {None} /\ address \in Addresses
  BY DEF PanelInv, Addresses
<1>5. account' \in Accounts \cup {None}
  BY <1>2, <1>4, SelectedAccount
<1>6. address' \in Addresses
  BY <1>3, <1>4, <1>5, AddressUpdate
<1> QED BY <1>1, <1>5, <1>6 DEF PanelInv

LEMMA PanelNext == ASSUME PanelInv, [GuardNext]_guardVars PROVE PanelInv'
<1>1. CASE UNCHANGED panelVars
  BY <1>1 DEF PanelInv, panelVars
<1>2. CASE Panel!AuditNext
  BY <1>2, AccountSteps, ListSteps, RuleDeleted, PanelReload DEF Panel!AuditNext
<1> QED BY <1>1, <1>2 DEF GuardNext, Only, guardVars

\* Only what the user confirmed is revoked, by the session of its account, which stays
\* selected, for any accounts, rules, filters and sizes of a page.
THEOREM RevokesConfirmed == GuardSpec => []RevokesAreConfirmed
<1>1. PanelInv => RevokesAreConfirmed
  BY DEF PanelInv, RevokesAreConfirmed, Panel!RevokesAreConfirmed
<1> QED BY <1>1, PanelInit, PanelNext, PTL DEF GuardSpec
-----------------------------------------------------------------------------
(***************************************************************************)
(* The frames, and what they get without a prompt.                         *)
(***************************************************************************)

\* A stamp is the source that its poster had at the guard; what was last done without a
\* prompt was done by a page around the poster.
NestedInv ==
  /\ item # None => /\ item.by \in Frames /\ item.claim \in Claims
                    /\ item.stamp \in {None, item.by \o item.claim}
  /\ UnpromptedIsUpward

LEMMA PartIsPrefix ==
  ASSUME NEW p \in Seq(Segments), NEW q \in Seq(Segments), NEW s \in Seq(Segments),
         IsPrefix(p \o q, s)
  PROVE  IsPrefix(p, s)
<1>1. /\ p \o q \in Seq(Segments) /\ Len(p \o q) = Len(p) + Len(q)
      /\ \A i \in 1..Len(p) : (p \o q)[i] = p[i]
  BY ConcatProperties
<1>2. Len(p) \in Nat /\ Len(q) \in Nat /\ Len(s) \in Nat
  BY LenProperties
<1>3. Len(p \o q) <= Len(s) /\ SubSeq(p \o q, 1, Len(p \o q)) = SubSeq(s, 1, Len(p \o q))
  BY DEF IsPrefix
<1>4. Len(p) <= Len(s) /\ Len(p) <= Len(p \o q)
  BY <1>1, <1>2, <1>3
<1>5. \A i \in 1..Len(p) : p[i] = s[i]
  <2> SUFFICES ASSUME NEW i \in 1..Len(p) PROVE p[i] = s[i]
    OBVIOUS
  <2>1. i \in 1..Len(p \o q)
    BY <1>1, <1>2
  <2>2. SubSeq(p \o q, 1, Len(p \o q))[i] = (p \o q)[i]
    BY <1>1, <1>2, <2>1
  <2>3. SubSeq(s, 1, Len(p \o q))[i] = s[i]
    BY <1>1, <1>2, <1>3, <2>1
  <2> QED BY <1>1, <1>3, <2>2, <2>3
<1>6. SubSeq(p, 1, Len(p)) = SubSeq(s, 1, Len(p))
  BY <1>2, <1>4, <1>5
<1> QED BY <1>4, <1>6 DEF IsPrefix

LEMMA NestedInit == GuardInit => NestedInv
BY DEF GuardInit, Nested!SitesInit, NestedInv, UnpromptedIsUpward, Nested!UnpromptedIsUpward

LEMMA PostKeeps ==
  ASSUME NestedInv, NEW p \in Frames, NEW claim \in Claims, NEW private, NEW guarded,
         Nested!Post(p, claim, private, guarded)
  PROVE  NestedInv'
<1>1. /\ item' = [by |-> p, claim |-> claim, private |-> private,
                  stamp |-> Nested!Stamp(Nested!SourceOf(p, claim), guarded)]
      /\ UNCHANGED dealt
  BY DEF Nested!Post
<1>2. item'.by = p /\ item'.claim = claim /\ item'.stamp \in {None, p \o claim}
  BY <1>1 DEF Nested!Stamp, Nested!SourceOf
<1> QED BY <1>1, <1>2 DEF NestedInv, UnpromptedIsUpward, Nested!UnpromptedIsUpward

LEMMA DealKeeps ==
  ASSUME NestedInv, NEW p \in Frames, NEW claim \in Claims, NEW method,
         Nested!Deal(p, claim, method)
  PROVE  NestedInv'
<1>1. /\ item # None /\ ~Nested!Asks(method, p \o claim)
      /\ dealt' = [page |-> p, method |-> method, item |-> item]
      /\ item' = None \/ item' = item
  BY DEF Nested!Deal, Nested!SourceOf
<1>2. /\ item.by \in Frames /\ item.claim \in Claims /\ item.stamp \in {None, item.by \o item.claim}
  BY <1>1 DEF NestedInv
<1>3. ASSUME item.stamp # None, item.private \/ method = "delete"
      PROVE  Nested!IsPrefix(p, item.by \o item.claim)
  <2>1. IsPrefix(p \o claim, item.by \o item.claim)
    <3>1. method = "read" => item.private
      BY <1>3
    <3>2. Nested!IsWithinSource(p \o claim, item.stamp)
      BY <1>1, <1>3, <3>1, Zenon DEF Nested!Asks
    <3> QED BY <1>2, <1>3, <3>2 DEF Nested!IsWithinSource, Nested!IsPrefix, IsPrefix
  <2>2. /\ p \in Seq(Segments) /\ claim \in Seq(Segments) /\ item.by \o item.claim \in Seq(Segments)
    BY <1>2, PathsAreOfSegments
  <2>3. IsPrefix(p, item.by \o item.claim)
    BY <2>1, <2>2, PartIsPrefix
  <2> QED BY <2>3 DEF Nested!IsPrefix, IsPrefix
<1>4. dealt'.page = p /\ dealt'.method = method /\ dealt'.item = item
  BY <1>1, Zenon
<1>5. UnpromptedIsUpward'
  BY <1>3, <1>4, Zenon DEF UnpromptedIsUpward, Nested!UnpromptedIsUpward
<1>6. item' # None =>
        item'.by \in Frames /\ item'.claim \in Claims /\ item'.stamp \in {None, item'.by \o item'.claim}
  BY <1>1, <1>2
<1> QED BY <1>5, <1>6 DEF NestedInv

LEMMA NestedNext == ASSUME NestedInv, [GuardNext]_guardVars PROVE NestedInv'
<1>1. CASE UNCHANGED <<item, dealt>>
  BY <1>1 DEF NestedInv, UnpromptedIsUpward, Nested!UnpromptedIsUpward
<1>2. CASE Nested!SitesNext
  <2>1. CASE \/ Nested!SessionStarts \/ Nested!SessionEnds \/ Nested!LogoutFails
             \/ Nested!Initialized \/ Nested!Reload
    BY <1>1, <2>1 DEF Nested!SessionStarts, Nested!SessionEnds, Nested!LogoutFails,
       Nested!Initialized, Nested!Reload, Nested!Leave
  <2>2. CASE \/ \E p \in Frames \ {<<>>} : Nested!Mount(p) \/ Nested!Unmount(p)
             \/ \E p \in Frames : Nested!Elsewhere(p)
    BY <1>1, <2>2 DEF Nested!Mount, Nested!Unmount, Nested!Elsewhere
  <2>3. CASE \E p \in Frames, claim \in Claims : Nested!AskLogin(p, claim) \/ Nested!AskLogout(p, claim)
    BY <1>1, <2>3 DEF Nested!AskLogin, Nested!AskLogout, Nested!Leave
  <2>4. CASE \/ Nested!Choose \/ Nested!LoginAnother \/ Nested!LeaveSite \/ Nested!LeaveAll
             \/ Nested!Cancel
    BY <1>1, <2>4 DEF Nested!Choose, Nested!LoginAnother, Nested!LeaveSite, Nested!LeaveAll,
       Nested!Cancel, Nested!Leave, Nested!UNCHANGEDbyPrompts
  <2> QED BY <1>2, <2>1, <2>2, <2>3, <2>4, PostKeeps, DealKeeps DEF Nested!SitesNext
<1>3. CASE UNCHANGED nestedVars
  BY <1>1, <1>3 DEF nestedVars
<1> QED BY <1>2, <1>3 DEF GuardNext, Only, guardVars

\* Without a prompt, private data are read, and data deleted, only by pages around the
\* one that posted them, for any tree of frames and any sources that pages claim.
THEOREM UnpromptedUpward == GuardSpec => []UnpromptedIsUpward
<1>1. NestedInv => UnpromptedIsUpward
  BY DEF NestedInv
<1> QED BY <1>1, NestedInit, NestedNext, PTL DEF GuardSpec

\* The decisions stand in the composition of the three parts, too.
THEOREM AllDecisionsStand == GuardSpec => []AnswersStand
<1>1. GuardInit => Init
  BY DEF GuardInit
<1>2. [GuardNext]_guardVars => [Next]_vars
  BY DEF GuardNext, Only, guardVars
<1> QED BY <1>1, <1>2, DecisionsStand, PTL DEF GuardSpec, Spec
===============================================================================
