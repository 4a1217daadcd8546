------------------------------ MODULE DataGuard ------------------------------
(***************************************************************************)
(* The data guard of one embedding site, for one account.  The site and    *)
(* the frames inside it are sources; their requests for private data are   *)
(* decided one at a time, in the order in which they were prepared, by     *)
(* rules that the user has the guard remember and by prompts.  Rules are   *)
(* objects of the user's storage: the page knows those that it found when  *)
(* a source was loaded, and its own.  Logins of sources are in the         *)
(* localStorage of the guard and are read whenever they are needed.        *)
(***************************************************************************)
EXTENDS Integers, Sequences, FiniteSets, SequencesExt

CONSTANTS
  Sources,      \* paths of frames, from the embedding site <<>>
  Kinds,        \* kinds of requests, a subset of AllKinds
  MaxRequests, MaxRules, MaxOutside,  \* bounds
  None

AllKinds == {"read", "delete", "post", "notice", "stream", "logout"}

ASSUME SourcesAreATree ==
  /\ <<>> \in Sources
  /\ \A s \in Sources : s # <<>> => Front(s) \in Sources
ASSUME KindsAreKnown == Kinds \subseteq AllKinds
ASSUME NoneIsNoDecision == None \notin {"allow", "deny"}
ASSUME BoundsAreNatural == {MaxRequests, MaxRules, MaxOutside} \subseteq Nat

Requests == 1..MaxRequests
Ids == 1..MaxRules
Decisions == {"allow", "deny"}

VARIABLES
  approved,  \* LoginAccess: the sources with a login of their own
  active,    \* the account is logged in at the guard
  made,      \* rules in the order of their dates
  stored,    \* those that are in the user's storage, by number
  loaded,    \* sources whose rules were found
  rules,     \* rules that the page knows, by number
  itemReads, \* sources that were shown the private item without a rule
  queue,     \* requests that wait for their decision, the one decided first
  req,       \* the requests
  outside,   \* reloads, and decisions of other pages, so far
  last,      \* history: what the user last had remembered for a grant
  blocked,   \* history: sources that the user has blocked, as the guard has confirmed
  left,      \* history: rules that a newer one found and may have left
  elsewhere  \* history: grants decided since this page was loaded that it was not told of

rulesVars == <<made, stored, loaded, rules>>
logins == <<approved, active>>
history == <<last, blocked, left, elsewhere>>
vars == <<logins, rulesVars, itemReads, queue, req, outside, history>>

Rules == [source : Sources, method : {"read", "delete"}, decision : Decisions]
           \cup [source : Sources, method : {"block"}, decision : {"deny"}]
Grants == Sources \X (Kinds \cap {"read", "delete"})

NoRequest == [pc |-> "none", source |-> <<>>, kind |-> "none", decision |-> None, old |-> {}]
Ended(outcome) == [NoRequest EXCEPT !.pc = outcome]
Outcomes == {"forwarded", "refused", "failed", "left"}

Init ==
  /\ approved = {} /\ active = FALSE
  /\ made = <<>> /\ stored = {} /\ loaded = {} /\ rules = {}
  /\ itemReads = {}
  /\ queue = <<>>
  /\ req = [r \in Requests |-> NoRequest]
  /\ outside = 0
  /\ last = [g \in Grants |-> None]
  /\ blocked = {} /\ left = {} /\ elsewhere = {}
-----------------------------------------------------------------------------
(* Logins of sources, and rules.                                           *)

\* A login of a frame is also one of every site that contains it.
Allows(s) == \E a \in approved : IsPrefix(s, a)

MutRevoked(s) == {a \in approved : ~IsPrefix(s, a)}  \* mutant: nothing is kept for the parent
\* LoginAccess.revoke(): the parent keeps the login that it had through the source.
Revoked(s) ==
  LET rest == {a \in approved : ~IsPrefix(s, a)}
  IN IF rest = approved \/ s = <<>> THEN rest ELSE rest \cup {Front(s)}

Of(ids, s, method) == {i \in ids : made[i].source = s /\ made[i].method = method}

MutDecided(ids, s, method) ==  \* mutant: the oldest decision counts
  LET of == Of(ids, s, method)
  IN IF of = {} THEN None ELSE made[CHOOSE i \in of : \A j \in of : j >= i].decision
\* latestDecision()
Decided(ids, s, method) ==
  LET of == Of(ids, s, method)
  IN IF of = {} THEN None ELSE made[CHOOSE i \in of : \A j \in of : j <= i].decision

IsBlocked(s) == Of(rules, s, "block") # {}

\* update(): a discovery that is not complete leaves the rules as they are.
Updated(s, found, complete) ==
  IF complete THEN {i \in rules : made[i].source # s} \cup found ELSE rules

\* Guard.state()
State(r) ==
  LET q == req[r]
      decision == Decided(rules, q.source, q.kind)
  IN CASE q.kind \in {"post", "logout"} -> "ask"
       [] q.kind \in {"read", "delete"} /\ decision # None -> decision
       [] q.kind = "read" /\ decision = None /\ q.source \in itemReads -> "allow"
       [] OTHER -> "ask"
-----------------------------------------------------------------------------
(* A request until it is in the queue.                                     *)

Put(r, q) == req' = [req EXCEPT ![r] = q]

\* authorize(): a source without a login is refused at once.
Request(r, s, kind) ==
  /\ req[r] = NoRequest /\ \A p \in Requests : p < r => req[p] # NoRequest
  /\ LET q == [NoRequest EXCEPT !.source = s, !.kind = kind] IN
     \/ /\ ~Allows(s)
        /\ Put(r, Ended("refused"))
        /\ UNCHANGED queue
     \/ /\ Allows(s) /\ kind = "logout"
        /\ Put(r, [q EXCEPT !.pc = "queued"])
        /\ queue' = Append(queue, r)
     \/ /\ Allows(s) /\ kind # "logout"
        /\ Put(r, [q EXCEPT !.pc = "loading"])
        /\ UNCHANGED queue
  /\ UNCHANGED <<logins, rulesVars, itemReads, outside, history>>

Waiting(s) == \E r \in Requests : req[r].pc = "loading" /\ req[r].source = s

\* The rules of a source are discovered: for its first request, and again when
\* its session changes or the discovery has failed.
Discovered(s, complete) ==
  /\ s \in loaded \/ Waiting(s)
  /\ rules' = Updated(s, IF complete THEN {i \in stored : made[i].source = s} ELSE {}, complete)
  /\ loaded' = IF complete THEN loaded \cup {s} ELSE loaded
  /\ UNCHANGED <<logins, made, stored, itemReads, queue, req, outside, history>>

Ready(r) == req[r].pc = "loading" /\ req[r].source \in loaded

MayPass(s) == ~IsBlocked(s) /\ Allows(s)

\* The rules are there.  A discovery begins, anything else is fetched first.
Checked(r) ==
  LET q == req[r] IN
  /\ Ready(r) /\ q.kind # "notice"
  /\ \/ /\ ~MayPass(q.source)
        /\ Put(r, Ended("refused"))
     \/ /\ MayPass(q.source) /\ q.kind = "stream"
        /\ Put(r, Ended("forwarded"))
     \/ /\ MayPass(q.source) /\ q.kind # "stream"
        /\ Put(r, [q EXCEPT !.pc = "fetching"])
  /\ UNCHANGED <<logins, rulesVars, itemReads, queue, outside, history>>

\* A notice that a private object was deleted passes when the object would have.
Noticed(r) ==
  LET s == req[r].source
      shown == \/ Decided(rules, s, "read") = "allow"
               \/ Decided(rules, s, "read") = None /\ s \in itemReads
  IN /\ Ready(r) /\ req[r].kind = "notice"
     /\ Put(r, Ended(IF MayPass(s) /\ shown THEN "forwarded" ELSE "refused"))
     /\ UNCHANGED <<logins, rulesVars, itemReads, queue, outside, history>>

\* The object is there, or it cannot be read.
Fetched(r) ==
  /\ req[r].pc = "fetching"
  /\ \/ /\ Put(r, [req[r] EXCEPT !.pc = "queued"])
        /\ queue' = Append(queue, r)
     \/ /\ Put(r, Ended("failed"))
        /\ UNCHANGED queue
  /\ UNCHANGED <<logins, rulesVars, itemReads, outside, history>>
-----------------------------------------------------------------------------
(* The front of the queue.                                                 *)

MutLeave(r, outcome) ==  \* mutant: the next request waits for a success
  /\ Put(r, Ended(outcome))
  /\ queue' = IF outcome = "failed" THEN queue ELSE Tail(queue)
Leave(r, outcome) == Put(r, Ended(outcome)) /\ queue' = Tail(queue)

MutAtFront(r, pc) == queue # <<>> /\ req[r].pc = pc  \* mutant: decided at once
AtFront(r, pc) == queue # <<>> /\ Head(queue) = r /\ req[r].pc = pc

MutPasses(r) == ~IsBlocked(req[r].source)  \* mutant: the login is not looked at again
\* Whatever was found before it waited, a request needs to pass now.
Passes(r) ==
  (req[r].kind # "logout" => ~IsBlocked(req[r].source)) /\ Allows(req[r].source)

\* decide(), to the prompt if one is needed.
Decide(r) ==
  /\ AtFront(r, "queued")
  /\ \/ /\ Passes(r) /\ State(r) = "ask"
        /\ Put(r, [req[r] EXCEPT !.pc = "asking"])
        /\ UNCHANGED queue
     \/ /\ Passes(r) /\ State(r) = "allow"
        /\ Leave(r, "forwarded")
     \/ /\ ~Passes(r) \/ State(r) = "deny"
        /\ Leave(r, "refused")
  /\ UNCHANGED <<logins, rulesVars, itemReads, outside, history>>

\* The prompt is of no use any more, or it is answered with a denial.
Refuse(r) ==
  /\ AtFront(r, "asking")
  /\ Leave(r, "refused")
  /\ UNCHANGED <<logins, rulesVars, itemReads, outside, history>>

\* Just this once; the same item can be read again while the page is open.
AllowOnce(r) ==
  /\ AtFront(r, "asking") /\ req[r].kind # "logout"
  /\ Passes(r)
  /\ Leave(r, "forwarded")
  /\ itemReads' = IF req[r].kind = "read" THEN itemReads \cup {req[r].source} ELSE itemReads
  /\ UNCHANGED <<logins, rulesVars, outside, history>>

\* The decisions that a new one replaces.
Old(r) == Of(rules, req[r].source, req[r].kind)

Remember(r, decision) ==
  /\ AtFront(r, "asking") /\ req[r].kind \in {"read", "delete"}
  /\ Passes(r)
  /\ Put(r, [req[r] EXCEPT !.pc = "remembering", !.decision = decision, !.old = Old(r)])
  /\ UNCHANGED <<logins, rulesVars, itemReads, queue, outside, history>>

Block(r) ==
  /\ AtFront(r, "asking") /\ req[r].kind # "logout"
  /\ Passes(r)
  /\ Put(r, [req[r] EXCEPT !.pc = "blocking"])
  /\ UNCHANGED <<logins, rulesVars, itemReads, queue, outside, history>>

\* The user logs out of this source, or of all sites.
LeaveSite(r) ==
  /\ AtFront(r, "asking") /\ req[r].kind = "logout"
  /\ Passes(r)
  /\ approved' = Revoked(req[r].source)
  /\ Leave(r, "left")
  /\ UNCHANGED <<active, rulesVars, itemReads, outside, history>>
LeaveDevice(r) ==
  /\ AtFront(r, "asking") /\ req[r].kind = "logout"
  /\ Passes(r)
  /\ approved' = {}
  /\ Leave(r, "forwarded")
  /\ UNCHANGED <<active, rulesVars, itemReads, outside, history>>

\* What remains of a remembered request once its rules are written.
Settle(r) ==
  Leave(r, IF req[r].decision = "allow" /\ Allows(req[r].source) THEN "forwarded" ELSE "refused")

Post(rule) ==
  /\ Len(made) < MaxRules
  /\ made' = Append(made, rule)
  /\ stored' = stored \cup {Len(made')}
  /\ rules' = rules \cup {Len(made')}

\* It is stored, but the answer is lost: the page does not know of it.
PostUnheard(rule) ==
  /\ Len(made) < MaxRules
  /\ made' = Append(made, rule)
  /\ stored' = stored \cup {Len(made')}
  /\ UNCHANGED rules

\* remember(): the new rule is stored before the old ones are deleted.
Posted(r) ==
  LET q == req[r]
      g == <<q.source, q.kind>>
      rule == [source |-> q.source, method |-> q.kind, decision |-> q.decision] IN
  /\ AtFront(r, "remembering")
  /\ \/ /\ Post(rule)
        /\ last' = [last EXCEPT ![g] = q.decision]
        /\ left' = left \cup Of(stored, q.source, q.kind)
        /\ elsewhere' = elsewhere \ {g}
        /\ IF q.old = {} THEN Settle(r)
           ELSE Put(r, [q EXCEPT !.pc = "deleting"]) /\ UNCHANGED queue
     \/ /\ PostUnheard(rule)
        /\ last' = [last EXCEPT ![g] = q.decision]
        /\ left' = left \cup Of(stored, q.source, q.kind)
        /\ elsewhere' = elsewhere \cup {g}
        /\ Leave(r, "failed")
     \/ /\ Leave(r, "failed")
        /\ UNCHANGED <<made, stored, rules, last, left, elsewhere>>
  /\ UNCHANGED <<logins, loaded, itemReads, outside, blocked>>

\* revoke() of an old rule.  It may be gone already, as after Audit(): that is a failure.
Deleted(r) ==
  LET q == req[r] IN
  /\ AtFront(r, "deleting")
  /\ \/ \E i \in q.old \cap stored :
          /\ stored' = stored \ {i} /\ rules' = rules \ {i}
          /\ IF q.old = {i} THEN Settle(r)
             ELSE Put(r, [q EXCEPT !.old = @ \ {i}]) /\ UNCHANGED queue
     \/ /\ Leave(r, "failed")
        /\ UNCHANGED <<stored, rules>>
  /\ UNCHANGED <<logins, made, loaded, itemReads, outside, history>>

\* blockSource(): the request is refused in any case.
BlockPosted(r) ==
  /\ AtFront(r, "blocking")
  /\ \/ /\ Post([source |-> req[r].source, method |-> "block", decision |-> "deny"])
        /\ blocked' = blocked \cup {req[r].source}
        /\ Leave(r, "refused")
     \/ /\ PostUnheard([source |-> req[r].source, method |-> "block", decision |-> "deny"])
        /\ Leave(r, "failed")
        /\ UNCHANGED blocked
     \/ /\ Leave(r, "failed")
        /\ UNCHANGED <<made, stored, rules, blocked>>
  /\ UNCHANGED <<logins, loaded, itemReads, outside, last, left, elsewhere>>
-----------------------------------------------------------------------------
(* Around the page.                                                        *)

\* The implementation restores the account, or it ends its login.
LogIn ==
  /\ ~active /\ active' = TRUE
  /\ UNCHANGED <<approved, rulesVars, itemReads, queue, req, outside, history>>
LogOut ==
  /\ active /\ active' = FALSE
  /\ approved' = {}
  /\ UNCHANGED <<rulesVars, itemReads, queue, req, outside, history>>

\* The account is chosen for a source.
Grant(s) ==
  /\ active /\ s \notin approved
  /\ approved' = approved \cup {s}
  /\ UNCHANGED <<active, rulesVars, itemReads, queue, req, outside, history>>

\* Another tab of the site logs a source out.
LeftElsewhere(s) ==
  /\ Allows(s)
  /\ approved' = Revoked(s)
  /\ UNCHANGED <<active, rulesVars, itemReads, queue, req, outside, history>>

\* Another tab of the site remembers a decision, and deletes what it knows of older ones.
RememberedElsewhere(s, method, decision) ==
  /\ Len(made) < MaxRules
  /\ outside < MaxOutside
  /\ outside' = outside + 1
  /\ made' = Append(made, [source |-> s, method |-> method, decision |-> decision])
  /\ \E gone \in SUBSET Of(stored, s, method) :
       stored' = (stored \ gone) \cup {Len(made')}
  /\ last' = [last EXCEPT ![<<s, method>>] = decision]
  /\ left' = left \cup Of(stored, s, method)
  /\ elsewhere' = elsewhere \cup {<<s, method>>}
  /\ UNCHANGED <<logins, loaded, rules, itemReads, queue, req, blocked>>

\* The user revokes a rule on the guard's own page; this page does not learn of it.
Audit(i) ==
  LET g == <<made[i].source, made[i].method>> IN
  /\ i \in stored
  /\ stored' = stored \ {i}
  /\ last' = IF g \in Grants /\ \A j \in Of(stored, g[1], g[2]) : j <= i
               THEN [last EXCEPT ![g] = None] ELSE last
  /\ blocked' = IF Of(stored', g[1], "block") = {} THEN blocked \ {g[1]} ELSE blocked
  /\ UNCHANGED <<logins, made, loaded, rules, itemReads, queue, req, outside, left, elsewhere>>

\* The page is loaded anew: what it was doing is lost.
Reload ==
  /\ outside < MaxOutside
  /\ outside' = outside + 1
  /\ active' = FALSE
  /\ loaded' = {} /\ rules' = {} /\ itemReads' = {} /\ queue' = <<>>
  /\ req' = [r \in Requests |-> IF req[r].pc \in Outcomes \cup {"none"} THEN req[r]
                                ELSE Ended("failed")]
  /\ elsewhere' = {}
  /\ UNCHANGED <<approved, made, stored, last, blocked, left>>

\* What the page goes on with by itself, its user and its storage answering.
Step(r) ==
  \/ Checked(r) \/ Noticed(r) \/ Fetched(r) \/ Decide(r)
  \/ Refuse(r) \/ AllowOnce(r) \/ Block(r) \/ LeaveSite(r) \/ LeaveDevice(r)
  \/ \E decision \in Decisions : Remember(r, decision)
  \/ Posted(r) \/ Deleted(r) \/ BlockPosted(r)

Next ==
  \/ \E r \in Requests : Step(r) \/ \E s \in Sources, kind \in Kinds : Request(r, s, kind)
  \/ \E s \in Sources, complete \in BOOLEAN : Discovered(s, complete)
  \/ \E s \in Sources : Grant(s) \/ LeftElsewhere(s)
  \/ \E g \in Grants, decision \in Decisions : RememberedElsewhere(g[1], g[2], decision)
  \/ \E i \in 1..Len(made) : Audit(i)
  \/ LogIn \/ LogOut \/ Reload

Spec == Init /\ [][Next]_vars

\* The user answers prompts, the storage answers requests, and a discovery that
\* fails is repeated until it succeeds.
Fairness ==
  /\ WF_vars(\E r \in Requests : Step(r))
  /\ WF_vars(\E s \in Sources \ loaded : Waiting(s) /\ Discovered(s, TRUE))
FairSpec == Spec /\ Fairness
-----------------------------------------------------------------------------
(* Properties.                                                             *)

\* The types of the state.
TypeOK ==
  /\ approved \subseteq Sources /\ active \in BOOLEAN
  /\ made \in Seq(Rules) /\ Len(made) <= MaxRules
  /\ \A S \in {stored, rules, left} : S \subseteq 1..Len(made)
  /\ \A S \in {loaded, itemReads, blocked} : S \subseteq Sources
  /\ queue \in Seq(Requests)
  /\ \A r \in Requests :
       /\ req[r].pc \in Outcomes \cup {"none", "loading", "fetching", "queued", "asking",
                                       "remembering", "deleting", "blocking"}
       /\ req[r].source \in Sources /\ req[r].kind \in Kinds \cup {"none"}
       /\ req[r].decision \in Decisions \cup {None} /\ req[r].old \subseteq 1..Len(made)
       /\ req[r].pc \in {"asking", "remembering", "deleting", "blocking"} => Head(queue) = r
  /\ outside \in 0..MaxOutside
  /\ last \in [Grants -> Decisions \cup {None}]
  /\ elsewhere \subseteq Grants

\* What is forwarded passes at that time, however long it has waited: its source
\* has a login, the user has not blocked it, and no remembered denial covers it,
\* be it one that was given to an earlier prompt or in an earlier page.  Only
\* what another page decides meanwhile, or what was stored without an answer, may
\* be found too late.
ForwardsAreAllowed ==
  [][\A r \in Requests :
       LET q == req[r]
           g == <<q.source, IF q.kind = "notice" THEN "read" ELSE q.kind>>
       IN req'[r].pc = "forwarded" /\ q.pc # "forwarded" =>
            /\ Allows(q.source)
            /\ q.kind # "logout" => q.source \notin blocked
            /\ g \in Grants \ elsewhere => last'[g] # "deny"]_vars

\* What the user last had remembered is what any later page finds, whichever
\* writes failed or were cut short on the way; and what was revoked leaves no
\* older decision to come back but one that the newer one had failed to delete.
AnswersStand ==
  \A g \in Grants :
    IF last[g] = None THEN Of(stored, g[1], g[2]) \subseteq left
    ELSE Decided(stored, g[1], g[2]) = last[g]

\* No prompt asks for what the user had remembered, even while the request was
\* waiting behind the prompt that was so answered.
NoNeedlessPrompt ==
  \A r \in Requests :
    LET g == <<req[r].source, req[r].kind>>
    IN req[r].pc = "asking" /\ g \in Grants \ elsewhere => last[g] = None

\* A site that logs out takes the frames inside it along; the sites around it,
\* and other frames, keep their logins.
SiteLogoutIsLocal ==
  [][\A r \in Requests : req'[r].pc = "left" /\ req[r].pc # "left" =>
       \A s \in Sources : Allows(s)' <=> Allows(s) /\ ~IsPrefix(req[r].source, s)]_vars

\* Every request is decided, whatever becomes of those before it: when no new
\* ones are made, as after the last one of an instance, the queue runs empty.
RequestsEnd == []<>(\A r \in Requests : req[r].pc \in Outcomes \cup {"none"})
=============================================================================
