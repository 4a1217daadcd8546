--------------------------- MODULE ServerSessions ---------------------------
(***************************************************************************)
(* Sessions of the server and the OAuth codes that become sessions.  The   *)
(* workers share a table of sessions and a table of codes; each keeps a    *)
(* cache of tokens for as long as a session may be idle.  A token is its   *)
(* secret, numbered as it is issued; the number of its session is that of  *)
(* the row, which SQLite gives again when the last row was deleted.        *)
(*                                                                         *)
(* A call is at a worker.  It sends one statement at a time: the statement *)
(* runs (Runs), and the call goes on when the answer is there (Resume).    *)
(***************************************************************************)
EXTENDS Integers, FiniteSets

CONSTANTS
  Workers, Clients,
  ActivityCheck,  \* ACTIVITY_CHECK_INTERVAL_MS
  Inactivity,     \* INACTIVITY_TIMEOUT_MS
  CodeLifetime,   \* AUTHORIZATION_CODE_EXPIRATION_MS
  MaxTokens, MaxCodes, MaxTime, MaxCalls  \* bounds

ASSUME TimesAreOrdered ==
  /\ {ActivityCheck, Inactivity} \subseteq Nat \ {0}
  /\ ActivityCheck <= Inactivity
  /\ CodeLifetime \in Nat
ASSUME BoundsAreNatural ==
  {MaxTokens, MaxCodes, MaxTime, MaxCalls} \subseteq Nat

Tokens == 1..MaxTokens
Codes == 1..MaxCodes
Ids == 1..MaxTokens
Times == 0..MaxTime
Nothing == 0       \* no row, no token, no code
Never == -1        \* before every time

VARIABLES
  now,      \* Date.now()
  rows,     \* table sessions: session_id -> the token's secret and last_verified_at
  codes,    \* table oauth_codes: code -> created_at, or Never
  cache,    \* sessionCache of each worker
  call,     \* the call of each client
  id,       \* token -> its session_id, Nothing before it is issued
  given,    \* tokens that a client was given
  shared,   \* codes that a client was given
  used,     \* calls and restarts so far, for the bound MaxCalls
  accepted, \* history: when a token whose row was deleted was last accepted
  ended,    \* history: when its row was deleted
  grants    \* history: what became of a code

vars == <<now, rows, codes, cache, call, id, given, shared, used, accepted,
          ended, grants>>
history == <<accepted, ended, grants>>

NoRow == [secret |-> Nothing, verified |-> Never]
NoEntry == [verified |-> Never, since |-> Never]
Idle == [pc |-> "idle", op |-> "none", stmt |-> "none", worker |-> Nothing,
         token |-> Nothing, code |-> Nothing, at |-> Never, ok |-> FALSE]

Init ==
  /\ now = 0
  /\ rows = [i \in Ids |-> NoRow]
  /\ codes = [k \in Codes |-> Never]
  /\ cache = [w \in Workers |-> [t \in Tokens |-> NoEntry]]
  /\ call = [c \in Clients |-> Idle]
  /\ id = [t \in Tokens |-> Nothing]
  /\ given = {} /\ shared = {}
  /\ used = 0
  /\ accepted = [t \in Tokens |-> Never]
  /\ ended = [t \in Tokens |-> Never]
  /\ grants = [k \in Codes |-> [tokens |-> {}, refused |-> FALSE]]
-----------------------------------------------------------------------------
Ask(r, stmt) == [r EXCEPT !.pc = "asked", !.stmt = stmt]

Latest(a, b) == IF a < b THEN b ELSE a

\* sessionCache.get(): an entry lives as long as a session may be idle, counted
\* from the moment it was stored.
Cached(w, t) ==
  /\ cache[w][t] # NoEntry
  /\ now - cache[w][t].since <= Inactivity

Store(w, t, verified) == [cache EXCEPT ![w][t] = [verified |-> verified, since |-> now]]
Drop(w, t) == [cache EXCEPT ![w][t] = NoEntry]

\* What follows when a token is found good: a revocation deletes the row, an
\* authorization stores a code, anything else is answered.
Proceed(r) ==
  CASE r.op = "revoke" -> Ask(r, "delete")
    [] r.op = "authorize" -> Ask(r, "grant")
    [] OTHER -> Idle

\* A request is good, since time at: it matters once the row is deleted.
Accept(t, at) ==
  accepted' = [accepted EXCEPT ![t] = IF ended[t] = Never THEN @ ELSE Latest(@, at)]

\* verifySessionToken() from the moment the last activity is known.
Check(c, r, verified) ==
  LET age == now - verified IN
  \/ /\ age >= Inactivity
     /\ call' = [call EXCEPT ![c] = Ask(r, "expire")]
     /\ UNCHANGED accepted
  \/ /\ age >= ActivityCheck /\ age < Inactivity
     /\ call' = [call EXCEPT ![c] = Ask([r EXCEPT !.at = now], "touch")]
     /\ UNCHANGED accepted
  \/ /\ age < ActivityCheck
     /\ call' = [call EXCEPT ![c] = Proceed(r)]
     /\ Accept(r.token, now)

Begin(c) ==
  /\ call[c] = Idle
  /\ used < MaxCalls
  /\ used' = used + 1

\* A request with a token: it is looked up in the cache, else in the table.
Present(c, w, t, op) ==
  LET r == [Idle EXCEPT !.op = op, !.worker = w, !.token = t] IN
  /\ Begin(c)
  /\ t \in given
  /\ \/ /\ Cached(w, t)
        /\ Check(c, r, cache[w][t].verified)
     \/ /\ ~Cached(w, t)
        /\ call' = [call EXCEPT ![c] = Ask(r, "select")]
        /\ UNCHANGED accepted
  /\ UNCHANGED <<now, rows, codes, cache, id, given, shared, ended, grants>>

\* A passkey was verified: createSessionToken().
Login(c, w) ==
  /\ Begin(c)
  /\ call' = [call EXCEPT ![c] =
                Ask([Idle EXCEPT !.op = "login", !.worker = w, !.at = now], "insert")]
  /\ UNCHANGED <<now, rows, codes, cache, id, given, shared, history>>

\* POST /token with a code; whether the URI is the right one is the client's doing.
Exchange(c, w, k, uriMatches) ==
  /\ Begin(c)
  /\ k \in shared
  /\ call' = [call EXCEPT ![c] =
                Ask([Idle EXCEPT !.op = "exchange", !.worker = w, !.code = k,
                                 !.ok = uriMatches], "take")]
  /\ UNCHANGED <<now, rows, codes, cache, id, given, shared, history>>
-----------------------------------------------------------------------------
(* The statements.                                                         *)

Answer(c, r) == call' = [call EXCEPT ![c] = [r EXCEPT !.pc = "answered"]]

\* SELECT ... WHERE session_id = ? AND secret_hash = ?
SelectRuns(c) ==
  LET r == call[c]
      row == rows[id[r.token]]
  IN /\ r.pc = "asked" /\ r.stmt = "select"
     /\ Answer(c, [r EXCEPT !.ok = row.secret = r.token,
                            !.at = IF row.secret = r.token THEN row.verified ELSE Never])
     /\ UNCHANGED <<now, rows, codes, cache, id, given, shared, used, history>>

MutTouchRuns(c) ==  \* mutant: by the number of the session alone
  LET r == call[c]
      i == id[r.token]
  IN /\ r.pc = "asked" /\ r.stmt = "touch"
     /\ rows' = [rows EXCEPT ![i].verified = IF rows[i] # NoRow THEN r.at ELSE @]
     /\ Answer(c, [r EXCEPT !.ok = rows[i] # NoRow])
     /\ UNCHANGED <<now, codes, cache, id, given, shared, used, history>>

\* UPDATE sessions SET last_verified_at = ? WHERE session_id = ? AND secret_hash = ?
TouchRuns(c) ==
  LET r == call[c]
      i == id[r.token]
      hit == rows[i].secret = r.token
  IN /\ r.pc = "asked" /\ r.stmt = "touch"
     /\ rows' = [rows EXCEPT ![i].verified = IF hit THEN r.at ELSE @]
     /\ Answer(c, [r EXCEPT !.ok = hit])
     /\ UNCHANGED <<now, codes, cache, id, given, shared, used, history>>

\* DELETE FROM sessions WHERE session_id = ?
DeleteRuns(c) ==
  LET r == call[c]
      i == id[r.token]
  IN /\ r.pc = "asked" /\ r.stmt \in {"expire", "delete"}
     /\ rows' = [rows EXCEPT ![i] = NoRow]
     /\ ended' = [t \in Tokens |-> IF rows[i].secret = t THEN now ELSE ended[t]]
     /\ Answer(c, r)
     /\ UNCHANGED <<now, codes, cache, id, given, shared, used, accepted, grants>>

\* INSERT INTO sessions: an INTEGER PRIMARY KEY is one more than the largest.
InsertRuns(c) ==
  LET r == call[c]
      taken == {i \in Ids : rows[i] # NoRow}
  IN /\ r.pc = "asked" /\ r.stmt = "insert"
     /\ \E i \in Ids, t \in Tokens :
          /\ i = 1 \/ i - 1 \in taken
          /\ \A j \in taken : j < i
          /\ id[t] = Nothing
          /\ \A u \in Tokens : u < t => id[u] # Nothing
          /\ rows' = [rows EXCEPT ![i] = [secret |-> t, verified |-> r.at]]
          /\ id' = [id EXCEPT ![t] = i]
          /\ grants' = [k \in Codes |->
               IF k = r.code THEN [grants[k] EXCEPT !.tokens = @ \cup {t}]
               ELSE grants[k]]
          /\ Answer(c, [r EXCEPT !.token = t])
     /\ UNCHANGED <<now, codes, cache, given, shared, used, accepted, ended>>

\* INSERT INTO oauth_codes: the code is random.
GrantRuns(c) ==
  LET r == call[c] IN
  /\ r.pc = "asked" /\ r.stmt = "grant"
  /\ \E k \in Codes :
       /\ \A j \in Codes : j < k => j \in shared \/ codes[j] # Never
       /\ k \notin shared /\ codes[k] = Never
       /\ \A d \in Clients : call[d].code # k
       /\ codes' = [codes EXCEPT ![k] = now]
       /\ Answer(c, [r EXCEPT !.code = k])
  /\ UNCHANGED <<now, rows, cache, id, given, shared, used, history>>

MutTakeRuns(c) ==  \* mutant: the code is read and stays
  LET r == call[c] IN
  /\ r.pc = "asked" /\ r.stmt = "take"
  /\ Answer(c, [r EXCEPT !.at = codes[r.code]])
  /\ UNCHANGED <<now, rows, codes, cache, id, given, shared, used, history>>

\* DELETE FROM oauth_codes WHERE code = ? RETURNING ...
TakeRuns(c) ==
  LET r == call[c] IN
  /\ r.pc = "asked" /\ r.stmt = "take"
  /\ codes' = [codes EXCEPT ![r.code] = Never]
  /\ Answer(c, [r EXCEPT !.at = codes[r.code]])
  /\ UNCHANGED <<now, rows, cache, id, given, shared, used, history>>

Runs(c) == \/ SelectRuns(c) \/ TouchRuns(c) \/ DeleteRuns(c)
           \/ InsertRuns(c) \/ GrantRuns(c) \/ TakeRuns(c)
-----------------------------------------------------------------------------
(* What the worker does with the answer.                                   *)

Answered(c, stmts) == call[c].pc = "answered" /\ call[c].stmt \in stmts

Finish(c) == call' = [call EXCEPT ![c] = Idle]

Selected(c) ==
  LET r == call[c] IN
  /\ Answered(c, {"select"})
  /\ \/ /\ ~r.ok
        /\ Finish(c)
        /\ UNCHANGED <<cache, accepted>>
     \/ /\ r.ok
        /\ cache' = Store(r.worker, r.token, r.at)
        /\ Check(c, [r EXCEPT !.ok = FALSE, !.at = Never], r.at)
  /\ UNCHANGED <<now, rows, codes, id, given, shared, used, ended, grants>>

\* The update found no row: the session is gone, whatever the cache said.
Touched(c) ==
  LET r == call[c] IN
  /\ Answered(c, {"touch"})
  /\ \/ /\ ~r.ok
        /\ cache' = Drop(r.worker, r.token)
        /\ Finish(c)
        /\ UNCHANGED accepted
     \/ /\ r.ok
        /\ cache' = Store(r.worker, r.token, r.at)
        /\ call' = [call EXCEPT ![c] = Proceed([r EXCEPT !.ok = FALSE, !.at = Never])]
        /\ Accept(r.token, r.at)
  /\ UNCHANGED <<now, rows, codes, id, given, shared, used, ended, grants>>

Deleted(c) ==
  /\ Answered(c, {"expire", "delete"})
  /\ cache' = Drop(call[c].worker, call[c].token)
  /\ Finish(c)
  /\ UNCHANGED <<now, rows, codes, id, given, shared, used, history>>

Inserted(c) ==
  LET r == call[c] IN
  /\ Answered(c, {"insert"})
  /\ cache' = Store(r.worker, r.token, r.at)
  /\ given' = given \cup {r.token}
  /\ Finish(c)
  /\ UNCHANGED <<now, rows, codes, id, shared, used, history>>

Granted(c) ==
  /\ Answered(c, {"grant"})
  /\ shared' = shared \cup {call[c].code}
  /\ Finish(c)
  /\ UNCHANGED <<now, rows, codes, cache, id, given, used, history>>

\* The code is gone from the table; only then is it looked at.
Taken(c) ==
  LET r == call[c]
      good == r.at # Never /\ now - r.at <= CodeLifetime /\ r.ok
  IN /\ Answered(c, {"take"})
     /\ \/ /\ good
           /\ call' = [call EXCEPT ![c] = Ask([r EXCEPT !.at = now, !.ok = FALSE], "insert")]
           /\ UNCHANGED grants
        \/ /\ ~good
           /\ Finish(c)
           /\ grants' = [grants EXCEPT ![r.code].refused = @ \/ r.at # Never]
     /\ UNCHANGED <<now, rows, codes, cache, id, given, shared, used, accepted, ended>>

Resume(c) == \/ Selected(c) \/ Touched(c) \/ Deleted(c)
             \/ Inserted(c) \/ Granted(c) \/ Taken(c)
-----------------------------------------------------------------------------
Tick ==
  /\ now < MaxTime
  /\ now' = now + 1
  /\ UNCHANGED <<rows, codes, cache, call, id, given, shared, used, history>>

\* A worker is replaced: its cache is empty, its calls are lost.
Restart(w) ==
  /\ used < MaxCalls
  /\ used' = used + 1
  /\ cache' = [cache EXCEPT ![w] = [t \in Tokens |-> NoEntry]]
  /\ call' = [c \in Clients |-> IF call[c].worker = w THEN Idle ELSE call[c]]
  /\ UNCHANGED <<now, rows, codes, id, given, shared, history>>

Next ==
  \/ \E c \in Clients, w \in Workers :
       \/ Login(c, w)
       \/ \E t \in Tokens, op \in {"use", "revoke", "authorize"} : Present(c, w, t, op)
       \/ \E k \in Codes, uriMatches \in BOOLEAN : Exchange(c, w, k, uriMatches)
  \/ \E c \in Clients : Runs(c) \/ Resume(c)
  \/ Tick
  \/ \E w \in Workers : Restart(w)

Spec == Init /\ [][Next]_vars
-----------------------------------------------------------------------------
(* Properties.                                                             *)

Calls == [pc : {"idle", "asked", "answered"},
          op : {"none", "login", "use", "revoke", "authorize", "exchange"},
          stmt : {"none", "select", "touch", "expire", "delete", "insert", "grant", "take"},
          worker : Workers \cup {Nothing}, token : 0..MaxTokens, code : 0..MaxCodes,
          at : Times \cup {Never}, ok : BOOLEAN]

\* The types of the state.
TypeOK ==
  /\ now \in Times
  /\ rows \in [Ids -> [secret : 0..MaxTokens, verified : Times \cup {Never}]]
  /\ codes \in [Codes -> Times \cup {Never}]
  /\ cache \in [Workers -> [Tokens -> [verified : Times \cup {Never},
                                       since : Times \cup {Never}]]]
  /\ call \in [Clients -> Calls]
  /\ id \in [Tokens -> 0..MaxTokens]
  /\ given \subseteq Tokens
  /\ shared \subseteq Codes
  /\ used \in 0..MaxCalls
  /\ accepted \in [Tokens -> Times \cup {Never}]
  /\ ended \in [Tokens -> Times \cup {Never}]
  /\ grants \in [Codes -> [tokens : SUBSET Tokens, refused : BOOLEAN]]

\* A worker that cached a token does not learn of a logout at another worker,
\* nor that the session's number was given to somebody else; still, no request
\* is found good an activity check or more after the row was deleted.
RevokedDies ==
  \A t \in Tokens : ended[t] # Never => accepted[t] < ended[t] + ActivityCheck

\* A code becomes one session at most, whatever requests race for it, and none
\* once a request with it was refused, be it late or with a wrong URI.
CodeIsSpentOnce ==
  \A k \in Codes :
    /\ Cardinality(grants[k].tokens) <= 1
    /\ grants[k].refused => grants[k].tokens = {}
=============================================================================
