----------------------- MODULE ServerSessionsProofs -----------------------
(* Theorems about ServerSessions, for any workers, clients, times, tokens  *)
(* and codes; about HandleReservations, whose temporary sessions reserve   *)
(* handles; and about ClientSessions, where a browser keeps its logins.    *)
EXTENDS ServerSessions, MCHandleReservations, MCClientSessions, FiniteSetTheorems, TLAPS

-----------------------------------------------------------------------------
(* The types.                                                              *)

ByToken == {"select", "touch", "expire", "delete"}

\* A statement has what it works on.
Aimed(r) ==
  /\ r.stmt \in ByToken => r.token \in Tokens /\ id[r.token] \in Ids /\ r.code = Nothing
  /\ r.stmt = "take" => r.code \in Codes
  /\ r.stmt \in {"touch", "insert"} => r.at \in Times
  /\ r.stmt = "insert" /\ r.pc = "answered" => r.token \in Tokens /\ id[r.token] \in Ids
  /\ r.stmt = "grant" /\ r.pc = "answered" => r.code \in Codes
Typed ==
  /\ TypeOK
  /\ \A c \in Clients : Aimed(call[c])
  /\ \A t \in given : id[t] \in Ids

LEMMA Numbers ==
  /\ Tokens \subseteq Nat /\ Codes \subseteq Nat /\ Times \subseteq Nat
  /\ Nothing \notin Tokens /\ Nothing \notin Codes
  /\ Tokens \subseteq 0..MaxTokens /\ Ids = Tokens /\ Codes \subseteq 0..MaxCodes
  /\ Ids \subseteq 0..MaxTokens /\ Nothing \in 0..MaxTokens /\ Nothing \in 0..MaxCodes
  BY BoundsAreNatural DEF Tokens, Codes, Times, Ids, Nothing

LEMMA IdleType == Idle \in Calls /\ Aimed(Idle)
  BY Numbers DEF Idle, Calls, Aimed, ByToken

LEMMA InitTypes == Init => Typed
  <1> SUFFICES ASSUME Init PROVE Typed
    OBVIOUS
  <1>1. now \in Times /\ used \in 0..MaxCalls
    BY BoundsAreNatural DEF Init, Times
  <1>2. rows \in [Ids -> [secret : 0..MaxTokens, verified : Times \cup {Never}]]
    BY Numbers DEF Init, NoRow
  <1>3. cache \in [Workers -> [Tokens -> [verified : Times \cup {Never},
                                          since : Times \cup {Never}]]]
    BY DEF Init, NoEntry
  <1>4. id \in [Tokens -> 0..MaxTokens]
    BY Numbers DEF Init
  <1> QED
    BY <1>1, <1>2, <1>3, <1>4, IdleType DEF Init, Typed, TypeOK

\* A request that verifySessionToken() answers, or that goes on to a statement.
Verified(r) ==
  /\ r \in Calls /\ r.token \in Tokens /\ r.code = Nothing
  /\ id[r.token] \in Ids

LEMMA ProceedTypes ==
  ASSUME NEW r, Verified(r)
  PROVE  Proceed(r) \in Calls /\ Aimed(Proceed(r))
  <1>1. /\ Ask(r, "delete") \in Calls /\ Aimed(Ask(r, "delete"))
        /\ Ask(r, "grant") \in Calls /\ Aimed(Ask(r, "grant"))
    BY DEF Verified, Calls, Ask, Aimed, ByToken
  <1>2. Proceed(r) \in {Ask(r, "delete"), Ask(r, "grant"), Idle}
    BY DEF Proceed
  <1> QED
    BY <1>1, <1>2, IdleType

LEMMA CheckTypes ==
  ASSUME Typed, NEW c \in Clients, NEW r, NEW v, Verified(r), Check(c, r, v)
  PROVE  /\ call' \in [Clients -> Calls]
         /\ Aimed(call'[c])
         /\ accepted' \in [Tokens -> Times \cup {Never}]
  <1>1. now \in Times /\ call \in [Clients -> Calls]
        /\ accepted \in [Tokens -> Times \cup {Never}]
        /\ ended \in [Tokens -> Times \cup {Never}]
    BY DEF Typed, TypeOK
  <1>2. /\ Ask(r, "expire") \in Calls /\ Aimed(Ask(r, "expire"))
        /\ Ask([r EXCEPT !.at = now], "touch") \in Calls
        /\ Aimed(Ask([r EXCEPT !.at = now], "touch"))
    BY <1>1 DEF Verified, Calls, Ask, Aimed, ByToken
  <1>3. Proceed(r) \in Calls /\ Aimed(Proceed(r))
    BY ProceedTypes
  <1>4. \/ call' = [call EXCEPT ![c] = Ask(r, "expire")]
        \/ call' = [call EXCEPT ![c] = Ask([r EXCEPT !.at = now], "touch")]
        \/ call' = [call EXCEPT ![c] = Proceed(r)]
    BY DEF Check
  <1>5. accepted' = accepted \/ Accept(r.token, now)
    BY DEF Check
  <1> QED
    BY <1>1, <1>2, <1>3, <1>4, <1>5 DEF Accept, Latest, Verified

\* One client's request changes; what the others work on stays.
LEMMA OthersAimed ==
  ASSUME Typed, NEW c \in Clients, id' = id, Aimed(call'[c]),
         \A e \in Clients \ {c} : call'[e] = call[e]
  PROVE  \A e \in Clients : Aimed(call[e])'
  BY DEF Typed, Aimed

Presents(c) ==
  \E w \in Workers, t \in Tokens, op \in {"use", "revoke", "authorize"} : Present(c, w, t, op)
Exchanges(c) ==
  \E w \in Workers, k \in Codes, uriMatches \in BOOLEAN : Exchange(c, w, k, uriMatches)
Logins(c) == \E w \in Workers : Login(c, w)

\* A request begins and counts.
LEMMA BeginTypes ==
  ASSUME Typed, NEW c \in Clients, Begin(c),
         UNCHANGED <<now, rows, codes, cache, id, given, shared, ended, grants>>,
         call' \in [Clients -> Calls], Aimed(call'[c]),
         \A e \in Clients \ {c} : call'[e] = call[e],
         accepted' \in [Tokens -> Times \cup {Never}]
  PROVE  Typed'
  <1>1. used' \in 0..MaxCalls
    BY BoundsAreNatural DEF Begin, Typed, TypeOK
  <1>2. \A e \in Clients : Aimed(call[e])'
    BY OthersAimed
  <1> QED
    BY <1>1, <1>2 DEF Typed, TypeOK

LEMMA PresentTypes ==
  ASSUME Typed, NEW c \in Clients, Presents(c)
  PROVE  Typed'
  <1>1. PICK w \in Workers, t \in Tokens, op \in {"use", "revoke", "authorize"} :
          Present(c, w, t, op)
    BY DEF Presents
  <1> DEFINE r == [Idle EXCEPT !.op = op, !.worker = w, !.token = t]
  <1>2. Verified(r) /\ Ask(r, "select") \in Calls /\ Aimed(Ask(r, "select"))
    <2>1. id[t] \in Ids /\ t \in 0..MaxTokens /\ Nothing \in 0..MaxCodes
      BY <1>1, Numbers DEF Present, Typed
    <2> QED
      BY <2>1, Numbers DEF Verified, Calls, Ask, Aimed, ByToken, Idle
  <1>3. \/ Check(c, r, cache[w][t].verified)
        \/ call' = [call EXCEPT ![c] = Ask(r, "select")] /\ UNCHANGED accepted
    BY <1>1 DEF Present
  <1>4. call \in [Clients -> Calls] /\ accepted \in [Tokens -> Times \cup {Never}]
    BY DEF Typed, TypeOK
  <1> HIDE DEF r
  <1>5. /\ call' \in [Clients -> Calls] /\ Aimed(call'[c])
        /\ accepted' \in [Tokens -> Times \cup {Never}]
        /\ \A e \in Clients \ {c} : call'[e] = call[e]
    <2>1. CASE Check(c, r, cache[w][t].verified)
      <3>1. \A e \in Clients \ {c} : call'[e] = call[e]
        BY <1>4, <2>1 DEF Check
      <3> QED
        BY <1>2, <2>1, <3>1, CheckTypes
    <2>2. CASE call' = [call EXCEPT ![c] = Ask(r, "select")] /\ UNCHANGED accepted
      BY <1>2, <1>4, <2>2
    <2> QED
      BY <1>3, <2>1, <2>2
  <1>6. Begin(c) /\ UNCHANGED <<now, rows, codes, cache, id, given, shared, ended, grants>>
    BY <1>1 DEF Present
  <1> QED
    BY <1>5, <1>6, BeginTypes

LEMMA LoginTypes ==
  ASSUME Typed, NEW c \in Clients, Logins(c) \/ Exchanges(c)
  PROVE  Typed'
  <1>1. PICK r \in Calls : Aimed(r) /\ call' = [call EXCEPT ![c] = r]
    <2>1. now \in Times
      BY DEF Typed, TypeOK
    <2>2. ASSUME NEW w \in Workers, Login(c, w)
          PROVE  \E r \in Calls : Aimed(r) /\ call' = [call EXCEPT ![c] = r]
      <3> DEFINE r == Ask([Idle EXCEPT !.op = "login", !.worker = w, !.at = now], "insert")
      <3>1. r \in Calls /\ Aimed(r)
        BY <2>1, Numbers DEF Calls, Ask, Aimed, ByToken, Idle
      <3> QED
        BY <2>2, <3>1 DEF Login
    <2>3. ASSUME NEW w \in Workers, NEW k \in Codes, NEW uriMatches \in BOOLEAN,
                 Exchange(c, w, k, uriMatches)
          PROVE  \E r \in Calls : Aimed(r) /\ call' = [call EXCEPT ![c] = r]
      <3> DEFINE r == Ask([Idle EXCEPT !.op = "exchange", !.worker = w, !.code = k,
                                       !.ok = uriMatches], "take")
      <3>1. r \in Calls /\ Aimed(r)
        BY Numbers DEF Calls, Ask, Aimed, ByToken, Idle
      <3> QED
        BY <2>3, <3>1 DEF Exchange
    <2> QED
      BY <2>2, <2>3 DEF Logins, Exchanges
  <1>2. /\ Begin(c) /\ UNCHANGED <<now, rows, codes, cache, id, given, shared>>
        /\ UNCHANGED <<accepted, ended, grants>>
    BY DEF Logins, Exchanges, Login, Exchange, history
  <1>3. /\ call' \in [Clients -> Calls] /\ Aimed(call'[c])
        /\ \A e \in Clients \ {c} : call'[e] = call[e]
        /\ accepted' \in [Tokens -> Times \cup {Never}]
    BY <1>1, <1>2 DEF Typed, TypeOK
  <1> QED
    BY <1>2, <1>3, BeginTypes

\* The statements.
LEMMA SelectTypes ==
  ASSUME Typed, NEW c \in Clients, SelectRuns(c)
  PROVE  Typed'
  <1> DEFINE r == call[c]
             row == rows[id[r.token]]
             next == [r EXCEPT !.pc = "answered", !.ok = row.secret = r.token,
                               !.at = IF row.secret = r.token THEN row.verified ELSE Never]
  <1>1. r \in Calls /\ Aimed(r) /\ r.stmt = "select"
    BY DEF Typed, TypeOK, SelectRuns
  <1>2. row.verified \in Times \cup {Never}
    BY <1>1 DEF Typed, TypeOK, Aimed, ByToken
  <1>3. call' = [call EXCEPT ![c] = next]
    BY DEF SelectRuns, Answer
  <1> HIDE DEF row
  <1>4. next \in Calls /\ Aimed(next)
    BY <1>1, <1>2 DEF Calls, Aimed, ByToken
  <1>5. UNCHANGED <<now, rows, codes, cache, id, given, shared, used, accepted, ended, grants>>
    BY DEF SelectRuns, history
  <1> HIDE DEF next
  <1>6. \A e \in Clients : Aimed(call[e])'
    BY <1>3, <1>4, <1>5, OthersAimed DEF Typed, TypeOK
  <1> QED
    BY <1>3, <1>4, <1>5, <1>6 DEF Typed, TypeOK

LEMMA TouchTypes ==
  ASSUME Typed, NEW c \in Clients, TouchRuns(c)
  PROVE  Typed'
  <1> DEFINE r == call[c]
             hit == rows[id[r.token]].secret = r.token
             next == [r EXCEPT !.pc = "answered", !.ok = hit]
  <1>1. r \in Calls /\ Aimed(r) /\ r.stmt = "touch"
    BY DEF Typed, TypeOK, TouchRuns
  <1>2. call' = [call EXCEPT ![c] = next]
    BY DEF TouchRuns, Answer
  <1>a. hit \in BOOLEAN
    OBVIOUS
  <1> HIDE DEF hit, r
  <1>3. next \in Calls /\ Aimed(next)
    <2>1. next \in Calls
      BY <1>1, <1>a DEF Calls
    <2>2. /\ next.stmt = r.stmt /\ next.token = r.token /\ next.code = r.code
          /\ next.at = r.at
      BY <1>1 DEF Calls
    <2> HIDE DEF next
    <2> QED
      BY <1>1, <2>1, <2>2 DEF Aimed, ByToken
  <1> USE DEF r
  <1>4. rows' \in [Ids -> [secret : 0..MaxTokens, verified : Times \cup {Never}]]
    <2>1. /\ rows \in [Ids -> [secret : 0..MaxTokens, verified : Times \cup {Never}]]
          /\ r.at \in Times /\ id[r.token] \in Ids
      BY <1>1 DEF Typed, TypeOK, Aimed, ByToken
    <2>2. \E v : /\ v = rows[id[r.token]].verified \/ v = r.at
                 /\ rows' = [rows EXCEPT ![id[r.token]].verified = v]
      BY DEF TouchRuns
    <2> QED
      BY <2>1, <2>2
  <1>5. UNCHANGED <<now, codes, cache, id, given, shared, used, accepted, ended, grants>>
    BY DEF TouchRuns, history
  <1> HIDE DEF next
  <1>6. \A e \in Clients : Aimed(call[e])'
    BY <1>2, <1>3, <1>5, OthersAimed DEF Typed, TypeOK
  <1> QED
    BY <1>2, <1>3, <1>4, <1>5, <1>6 DEF Typed, TypeOK

LEMMA DeleteTypes ==
  ASSUME Typed, NEW c \in Clients, DeleteRuns(c)
  PROVE  Typed'
  <1> DEFINE r == call[c]
             next == [r EXCEPT !.pc = "answered"]
  <1>1. r \in Calls /\ Aimed(r) /\ r.stmt \in {"expire", "delete"}
    BY DEF Typed, TypeOK, DeleteRuns
  <1>2. call' = [call EXCEPT ![c] = next]
    BY DEF DeleteRuns, Answer
  <1>3. next \in Calls /\ Aimed(next)
    BY <1>1 DEF Calls, Aimed, ByToken
  <1>4. /\ rows' \in [Ids -> [secret : 0..MaxTokens, verified : Times \cup {Never}]]
        /\ ended' \in [Tokens -> Times \cup {Never}]
    BY Numbers DEF DeleteRuns, Typed, TypeOK, NoRow
  <1>5. UNCHANGED <<now, codes, cache, id, given, shared, used, accepted, grants>>
    BY DEF DeleteRuns
  <1> HIDE DEF next
  <1>6. \A e \in Clients : Aimed(call[e])'
    BY <1>2, <1>3, <1>5, OthersAimed DEF Typed, TypeOK
  <1> QED
    BY <1>2, <1>3, <1>4, <1>5, <1>6 DEF Typed, TypeOK

\* The row i of token t.
Inserts(c, i, t) ==
  LET r == call[c] IN
  /\ \A j \in Ids : rows[j] # NoRow => j < i
  /\ id[t] = Nothing
  /\ rows' = [rows EXCEPT ![i] = [secret |-> t, verified |-> r.at]]
  /\ id' = [id EXCEPT ![t] = i]
  /\ grants' = [k \in Codes |->
       IF k = r.code THEN [grants[k] EXCEPT !.tokens = @ \cup {t}] ELSE grants[k]]
  /\ call' = [call EXCEPT ![c] = [r EXCEPT !.token = t, !.pc = "answered"]]

LEMMA InsertChoice ==
  ASSUME NEW c \in Clients, InsertRuns(c)
  PROVE  \E i \in Ids, t \in Tokens : Inserts(c, i, t)
  BY DEF InsertRuns, Inserts, Answer

LEMMA InsertTypes ==
  ASSUME Typed, NEW c \in Clients, InsertRuns(c)
  PROVE  Typed'
  <1> DEFINE r == call[c]
  <1>1. PICK i \in Ids, t \in Tokens : Inserts(c, i, t)
    BY InsertChoice
  <1> DEFINE next == [r EXCEPT !.token = t, !.pc = "answered"]
  <1>2. r \in Calls /\ Aimed(r) /\ r.stmt = "insert" /\ r.at \in Times
    BY DEF Typed, TypeOK, InsertRuns, Aimed
  <1>3. t \in 0..MaxTokens /\ i \in 0..MaxTokens
    BY Numbers
  <1>4. /\ id' \in [Tokens -> 0..MaxTokens] /\ id'[t] = i
        /\ \A u \in Tokens \ {t} : id'[u] = id[u]
    BY <1>1, <1>3 DEF Inserts, Typed, TypeOK
  <1>5. /\ rows' \in [Ids -> [secret : 0..MaxTokens, verified : Times \cup {Never}]]
        /\ grants' \in [Codes -> [tokens : SUBSET Tokens, refused : BOOLEAN]]
    <2>1. /\ rows \in [Ids -> [secret : 0..MaxTokens, verified : Times \cup {Never}]]
          /\ rows' = [rows EXCEPT ![i] = [secret |-> t, verified |-> r.at]]
      BY <1>1 DEF Inserts, Typed, TypeOK
    <2>2. /\ grants \in [Codes -> [tokens : SUBSET Tokens, refused : BOOLEAN]]
          /\ grants' = [k \in Codes |-> IF k = r.code THEN [grants[k] EXCEPT !.tokens = @ \cup {t}]
                                      ELSE grants[k]]
      BY <1>1 DEF Inserts, Typed, TypeOK
    <2>3. rows' \in [Ids -> [secret : 0..MaxTokens, verified : Times \cup {Never}]]
      BY <1>2, <1>3, <2>1
    <2>4. grants' \in [Codes -> [tokens : SUBSET Tokens, refused : BOOLEAN]]
      BY <2>2
    <2> QED
      BY <2>3, <2>4
  <1>6. next \in Calls
    BY <1>2, <1>3 DEF Calls
  <1>7. \A e \in Clients : call'[e] = IF e = c THEN next ELSE call[e]
    BY <1>1 DEF Inserts, Typed, TypeOK
  <1>8. /\ next.stmt = "insert" /\ next.at = r.at /\ next.token = t
    BY <1>2 DEF Calls
  <1> HIDE DEF next, r
  <1>9. \A e \in Clients : Aimed(call[e])'
    <2>1. Aimed(call[c])'
      BY <1>2, <1>4, <1>7, <1>8 DEF Aimed, ByToken
    <2>2. ASSUME NEW e \in Clients, e # c PROVE Aimed(call[e])'
      <3>1. Aimed(call[e]) /\ call'[e] = call[e]
        BY <1>7, <2>2 DEF Typed
      <3> QED
        BY <3>1, <1>4 DEF Aimed
    <2> QED
      BY <2>1, <2>2
  <1>10. UNCHANGED <<now, codes, cache, given, shared, used, accepted, ended>>
    BY DEF InsertRuns
  <1>11. \A u \in given : id'[u] \in Ids
    BY <1>4 DEF Typed, TypeOK
  <1>12. call' \in [Clients -> Calls]
    BY <1>1, <1>6 DEF Inserts, Typed, TypeOK, r, next
  <1> QED
    BY <1>4, <1>5, <1>9, <1>10, <1>11, <1>12 DEF Typed, TypeOK

LEMMA GrantTypes ==
  ASSUME Typed, NEW c \in Clients, GrantRuns(c) \/ TakeRuns(c)
  PROVE  Typed'
  <1> DEFINE r == call[c]
  <1>1. r \in Calls /\ Aimed(r) /\ now \in Times /\ codes \in [Codes -> Times \cup {Never}]
    BY DEF Typed, TypeOK
  <1>2. /\ codes' \in [Codes -> Times \cup {Never}]
        /\ \E n \in Calls : Aimed(n) /\ call' = [call EXCEPT ![c] = n]
    <2>1. ASSUME NEW k \in Codes, r.stmt = "grant", codes' = [codes EXCEPT ![k] = now],
                 Answer(c, [r EXCEPT !.code = k])
          PROVE  <1>2
      <3> DEFINE n == [r EXCEPT !.code = k, !.pc = "answered"]
      <3>1. n \in Calls /\ Aimed(n)
        BY <1>1, <2>1, Numbers DEF Calls, Aimed, ByToken
      <3>2. call' = [call EXCEPT ![c] = n]
        BY <2>1 DEF Answer
      <3> HIDE DEF n
      <3> QED
        BY <1>1, <2>1, <3>1, <3>2
    <2>2. ASSUME r.stmt = "take", codes' = [codes EXCEPT ![r.code] = Never],
                 Answer(c, [r EXCEPT !.at = codes[r.code]])
          PROVE  <1>2
      <3> DEFINE n == [r EXCEPT !.at = codes[r.code], !.pc = "answered"]
      <3>1. n \in Calls /\ Aimed(n)
        BY <1>1, <2>2 DEF Calls, Aimed, ByToken
      <3>2. call' = [call EXCEPT ![c] = n]
        BY <2>2 DEF Answer
      <3> HIDE DEF n
      <3> QED
        BY <1>1, <2>2, <3>1, <3>2
    <2> QED
      BY <2>1, <2>2 DEF GrantRuns, TakeRuns
  <1>3. UNCHANGED <<now, rows, cache, id, given, shared, used, accepted, ended, grants>>
    BY DEF GrantRuns, TakeRuns, history
  <1>4. \A e \in Clients : Aimed(call[e])'
    BY <1>2, <1>3, OthersAimed DEF Typed, TypeOK
  <1> QED
    BY <1>2, <1>3, <1>4 DEF Typed, TypeOK

\* What the worker does with the answer.
LEMMA StoreTypes ==
  ASSUME Typed, NEW w, NEW t \in Tokens, NEW v \in Times \cup {Never},
         cache' = Store(w, t, v) \/ cache' = Drop(w, t) \/ cache' = cache
  PROVE  cache' \in [Workers -> [Tokens -> [verified : Times \cup {Never},
                                            since : Times \cup {Never}]]]
  <1> DEFINE Entry == [verified : Times \cup {Never}, since : Times \cup {Never}]
  <1>1. cache \in [Workers -> [Tokens -> Entry]] /\ now \in Times
    BY DEF Typed, TypeOK
  <1>2. NoEntry \in Entry /\ [verified |-> v, since |-> now] \in Entry
    BY <1>1 DEF NoEntry
  <1>3. \E e \in Entry : cache' = [cache EXCEPT ![w][t] = e] \/ cache' = cache
    BY <1>2 DEF Store, Drop
  <1> HIDE DEF Entry
  <1>4. cache' \in [Workers -> [Tokens -> Entry]]
    BY <1>1, <1>3
  <1> QED
    BY <1>4 DEF Entry

LEMMA ResumeTypes ==
  ASSUME Typed, NEW c \in Clients, Resume(c)
  PROVE  Typed'
  <1> DEFINE r == call[c]
             Entries == [Workers -> [Tokens -> [verified : Times \cup {Never},
                                               since : Times \cup {Never}]]]
  <1>1. r \in Calls /\ Aimed(r) /\ call \in [Clients -> Calls] /\ now \in Times
        /\ accepted \in [Tokens -> Times \cup {Never}] /\ cache \in Entries
        /\ ended \in [Tokens -> Times \cup {Never}]
        /\ grants \in [Codes -> [tokens : SUBSET Tokens, refused : BOOLEAN]]
    BY DEF Typed, TypeOK
  <1>2. UNCHANGED <<now, rows, codes, id, used, ended>>
    BY DEF Resume, Selected, Touched, Deleted, Inserted, Granted, Taken, history
  <1>3. ASSUME Finish(c)
        PROVE  /\ call' \in [Clients -> Calls] /\ Aimed(call'[c])
               /\ \A e \in Clients \ {c} : call'[e] = call[e]
    BY <1>1, <1>3, IdleType DEF Finish
  <1>4. ASSUME NEW n \in Calls, Aimed(n), call' = [call EXCEPT ![c] = n]
        PROVE  /\ call' \in [Clients -> Calls] /\ Aimed(call'[c])
               /\ \A e \in Clients \ {c} : call'[e] = call[e]
    BY <1>1, <1>4
  <1>5. ASSUME /\ call' \in [Clients -> Calls] /\ Aimed(call'[c])
               /\ \A e \in Clients \ {c} : call'[e] = call[e],
               cache' \in Entries,
               accepted' \in [Tokens -> Times \cup {Never}],
               given' \subseteq Tokens, \A t \in given' : id[t] \in Ids,
               shared' \subseteq Codes,
               grants' \in [Codes -> [tokens : SUBSET Tokens, refused : BOOLEAN]]
        PROVE  Typed'
    <2>1. \A e \in Clients : Aimed(call[e])'
      BY <1>2, <1>5, OthersAimed
    <2> QED
      BY <1>2, <1>5, <2>1 DEF Typed, TypeOK
  <1>6. given \subseteq Tokens /\ (\A t \in given : id[t] \in Ids) /\ shared \subseteq Codes
    BY DEF Typed, TypeOK
  <1> HIDE DEF r, Entries
  <1>7. CASE Selected(c)
    <2> DEFINE n == [r EXCEPT !.ok = FALSE, !.at = Never]
    <2>1. /\ r.token \in Tokens /\ id[r.token] \in Ids /\ r.code = Nothing
          /\ r.at \in Times \cup {Never}
      BY <1>1, <1>7 DEF Selected, Answered, Aimed, ByToken, r, Calls
    <2>2. /\ UNCHANGED <<given, shared, grants>>
          /\ \/ Finish(c) /\ UNCHANGED <<cache, accepted>>
             \/ cache' = Store(r.worker, r.token, r.at) /\ Check(c, n, r.at)
      BY <1>7 DEF Selected, r
    <2>3. Verified(n)
      BY <1>1, <2>1 DEF Verified, Calls
    <2> HIDE DEF n
    <2>4. CASE Finish(c) /\ UNCHANGED <<cache, accepted>>
      BY <1>1, <1>3, <1>5, <1>6, <2>2, <2>4
    <2>5. CASE cache' = Store(r.worker, r.token, r.at) /\ Check(c, n, r.at)
      <3>1. cache' \in Entries
        BY <2>1, <2>5, StoreTypes DEF Entries
      <3>2. \A e \in Clients \ {c} : call'[e] = call[e]
        BY <1>1, <2>5 DEF Check
      <3>3. /\ call' \in [Clients -> Calls] /\ Aimed(call'[c])
            /\ accepted' \in [Tokens -> Times \cup {Never}]
        BY <2>3, <2>5, CheckTypes
      <3> QED
        BY <1>1, <1>5, <1>6, <2>2, <3>1, <3>2, <3>3
    <2> QED
      BY <2>2, <2>4, <2>5
  <1>8. CASE Touched(c)
    <2> DEFINE n == [r EXCEPT !.ok = FALSE, !.at = Never]
    <2>1. /\ r.token \in Tokens /\ id[r.token] \in Ids /\ r.code = Nothing
          /\ r.at \in Times
      BY <1>1, <1>8 DEF Touched, Answered, Aimed, ByToken, r
    <2>2. /\ UNCHANGED <<given, shared, grants>>
          /\ \/ cache' = Drop(r.worker, r.token) /\ Finish(c) /\ UNCHANGED accepted
             \/ /\ cache' = Store(r.worker, r.token, r.at)
                /\ call' = [call EXCEPT ![c] = Proceed(n)]
                /\ Accept(r.token, r.at)
      BY <1>8 DEF Touched, r
    <2>3. Verified(n)
      BY <1>1, <2>1 DEF Verified, Calls
    <2> HIDE DEF n
    <2>4. cache' \in Entries
      BY <2>1, <2>2, StoreTypes DEF Entries
    <2>5. CASE Finish(c) /\ UNCHANGED accepted
      BY <1>1, <1>3, <1>5, <1>6, <2>2, <2>4, <2>5
    <2>6. CASE call' = [call EXCEPT ![c] = Proceed(n)] /\ Accept(r.token, r.at)
      <3>1. Proceed(n) \in Calls /\ Aimed(Proceed(n))
        BY <2>3, ProceedTypes
      <3>2. accepted' \in [Tokens -> Times \cup {Never}]
        BY <1>1, <2>1, <2>6 DEF Accept, Latest
      <3> QED
        BY <1>1, <1>4, <1>5, <1>6, <2>2, <2>4, <2>6, <3>1, <3>2
    <2> QED
      BY <2>2, <2>5, <2>6
  <1>9. CASE Deleted(c)
    <2>1. r.token \in Tokens /\ cache' = Drop(r.worker, r.token)
      BY <1>1, <1>9 DEF Deleted, Answered, Aimed, ByToken, r
    <2>2. cache' \in Entries
      BY <2>1, StoreTypes DEF Entries
    <2>3. Finish(c) /\ UNCHANGED <<given, shared, accepted, grants>>
      BY <1>9 DEF Deleted, history
    <2> QED
      BY <1>1, <1>3, <1>5, <1>6, <2>2, <2>3
  <1>10. CASE Inserted(c)
    <2>1. /\ r.token \in Tokens /\ id[r.token] \in Ids /\ r.at \in Times
          /\ cache' = Store(r.worker, r.token, r.at) /\ given' = given \cup {r.token}
      BY <1>1, <1>10 DEF Inserted, Answered, Aimed, r
    <2>2. cache' \in Entries
      BY <2>1, StoreTypes DEF Entries
    <2>3. Finish(c) /\ UNCHANGED <<shared, accepted, grants>>
      BY <1>10 DEF Inserted, history
    <2> QED
      BY <1>1, <1>3, <1>5, <1>6, <2>1, <2>2, <2>3
  <1>11. CASE Granted(c)
    <2>1. r.code \in Codes /\ shared' = shared \cup {r.code}
      BY <1>1, <1>11 DEF Granted, Answered, Aimed, r
    <2>2. Finish(c) /\ UNCHANGED <<cache, given, accepted, grants>>
      BY <1>11 DEF Granted, history
    <2> QED
      BY <1>1, <1>3, <1>5, <1>6, <2>1, <2>2
  <1>12. CASE Taken(c)
    <2> DEFINE n == Ask([r EXCEPT !.at = now, !.ok = FALSE], "insert")
    <2>1. r.code \in Codes /\ r.stmt = "take"
      BY <1>1, <1>12 DEF Taken, Answered, Aimed, r
    <2>2. /\ UNCHANGED <<cache, given, shared, accepted>>
          /\ \/ call' = [call EXCEPT ![c] = n] /\ UNCHANGED grants
             \/ Finish(c) /\ grants' = [grants EXCEPT ![r.code].refused = @ \/ r.at # Never]
      BY <1>12 DEF Taken, r
    <2>3. n \in Calls /\ Aimed(n)
      BY <1>1, <2>1 DEF Calls, Ask, Aimed, ByToken
    <2> HIDE DEF n
    <2>4. grants' \in [Codes -> [tokens : SUBSET Tokens, refused : BOOLEAN]]
      <3> DEFINE refusal == grants[r.code].refused \/ r.at # Never
      <3>1. grants[r.code] \in [tokens : SUBSET Tokens, refused : BOOLEAN] /\ refusal \in BOOLEAN
        BY <1>1, <2>1
      <3>2. CASE grants' = [grants EXCEPT ![r.code].refused = refusal]
        <4> HIDE DEF refusal
        <4> QED
          BY <1>1, <2>1, <3>1, <3>2
      <3> QED
        BY <1>1, <2>2, <3>2
    <2>5. CASE call' = [call EXCEPT ![c] = n]
      BY <1>1, <1>4, <1>5, <1>6, <2>2, <2>3, <2>4, <2>5
    <2>6. CASE Finish(c)
      BY <1>1, <1>3, <1>5, <1>6, <2>2, <2>4, <2>6
    <2> QED
      BY <2>2, <2>5, <2>6
  <1> QED
    BY <1>7, <1>8, <1>9, <1>10, <1>11, <1>12 DEF Resume

LEMMA NextTypes ==
  ASSUME Typed, [Next]_vars
  PROVE  Typed'
  <1>1. ASSUME NEW c \in Clients, Presents(c) \/ Logins(c) \/ Exchanges(c) PROVE Typed'
    BY <1>1, PresentTypes, LoginTypes
  <1>2. ASSUME NEW c \in Clients, Runs(c) \/ Resume(c) PROVE Typed'
    BY <1>2, SelectTypes, TouchTypes, DeleteTypes, InsertTypes, GrantTypes, ResumeTypes DEF Runs
  <1>3. CASE Tick
    <2>1. now' \in Times
      BY <1>3, BoundsAreNatural DEF Tick, Typed, TypeOK, Times
    <2> QED
      BY <1>3, <2>1 DEF Tick, history, Typed, TypeOK, Aimed
  <1>4. ASSUME NEW w \in Workers, Restart(w) PROVE Typed'
    <2>1. used' \in 0..MaxCalls
      BY <1>4, BoundsAreNatural DEF Restart, Typed, TypeOK
    <2>2. cache' \in [Workers -> [Tokens -> [verified : Times \cup {Never},
                                             since : Times \cup {Never}]]]
      BY <1>4 DEF Restart, Typed, TypeOK, NoEntry
    <2>3. \A c \in Clients : call'[c] \in Calls /\ Aimed(call'[c])
      BY <1>4, IdleType DEF Restart, Typed, TypeOK
    <2>4. UNCHANGED <<now, rows, codes, id, given, shared, accepted, ended, grants>>
      BY <1>4 DEF Restart, history
    <2>5. call' \in [Clients -> Calls]
      BY <1>4, <2>3 DEF Restart
    <2>6. \A c \in Clients : Aimed(call[c])'
      BY <2>3, <2>4 DEF Aimed
    <2> QED
      BY <2>1, <2>2, <2>4, <2>5, <2>6 DEF Typed, TypeOK
  <1>5. CASE UNCHANGED vars
    BY <1>5 DEF vars, Typed, TypeOK, Aimed
  <1> QED
    BY <1>1, <1>2, <1>3, <1>4, <1>5 DEF Next, Presents, Logins, Exchanges

\* The types of the two tables, of the caches and of the calls.
THEOREM SessionTypes == Spec => []TypeOK
  <1>1. Typed => TypeOK
    BY DEF Typed
  <1> QED
    BY InitTypes, NextTypes, <1>1, PTL DEF Spec

-----------------------------------------------------------------------------
(* The life of a session.                                                  *)

\* A call has learned when the session of token t was last active.
Knows(r, t) ==
  /\ r.token = t /\ r.pc = "answered" /\ r.stmt \in {"select", "touch", "insert"}
  /\ r.stmt = "touch" => r.ok

\* The row of a token is at its number, and it has none once it is deleted.
RowsAreOwn ==
  /\ \A i \in Ids, t \in Tokens : rows[i].secret = t => id[t] = i /\ ended[t] = Never
  /\ \A t \in Tokens : id[t] = Nothing => ended[t] = Never

\* No activity lies in the future.
NothingIsAhead ==
  /\ \A i \in Ids : rows[i].verified <= now
  /\ \A w \in Workers, t \in Tokens : cache[w][t].verified <= now
  /\ \A c \in Clients : call[c].stmt # "take" => call[c].at <= now
  /\ \A t \in Tokens : ended[t] <= now

\* Nobody has learned of activity after the end of a session.
EndsAreLast ==
  \A t \in Tokens : ended[t] # Never =>
    /\ \A w \in Workers : cache[w][t].verified <= ended[t]
    /\ \A c \in Clients : Knows(call[c], t) => call[c].at <= ended[t]

\* What RevokedDies says, and that nothing is counted before the end.
AcceptedIsRecent ==
  \A t \in Tokens : IF ended[t] = Never THEN accepted[t] = Never
                    ELSE accepted[t] < ended[t] + ActivityCheck

Lives == RowsAreOwn /\ NothingIsAhead /\ EndsAreLast /\ AcceptedIsRecent

LEMMA TimesAreIntegers ==
  ASSUME Typed
  PROVE  /\ now \in Int /\ now >= 0 /\ Never \in Int /\ Never = -1
         /\ ActivityCheck \in Int /\ ActivityCheck > 0
         /\ \A t \in Tokens : ended[t] \in Int /\ accepted[t] \in Int
         /\ \A i \in Ids : rows[i].verified \in Int
         /\ \A w \in Workers, t \in Tokens : cache[w][t].verified \in Int
         /\ \A c \in Clients : call[c].at \in Int
  <1>1. Times \subseteq Int /\ Never = -1 /\ \A n \in Times : n >= 0
    BY BoundsAreNatural DEF Times, Never
  <1>2. ActivityCheck \in Int /\ ActivityCheck > 0
    BY TimesAreOrdered
  <1>3. \A v \in Times \cup {Never} : v \in Int
    BY <1>1
  <1>4. now \in Int /\ now >= 0
    BY <1>1 DEF Typed, TypeOK
  <1>5. \A t \in Tokens : ended[t] \in Int /\ accepted[t] \in Int
    BY <1>3 DEF Typed, TypeOK
  <1>6. \A i \in Ids : rows[i].verified \in Int
    BY <1>3 DEF Typed, TypeOK
  <1>7. \A w \in Workers, t \in Tokens : cache[w][t].verified \in Int
    BY <1>3 DEF Typed, TypeOK
  <1>8. \A c \in Clients : call[c].at \in Int
    BY <1>3 DEF Typed, TypeOK, Calls
  <1> QED
    BY <1>1, <1>2, <1>3, <1>4, <1>5, <1>6, <1>7, <1>8

LEMMA InitLives == Init => Lives
  <1> SUFFICES ASSUME Init PROVE Lives
    OBVIOUS
  <1>1. RowsAreOwn
    BY Numbers DEF Init, RowsAreOwn, NoRow
  <1>2. NothingIsAhead
    BY DEF Init, NothingIsAhead, NoRow, NoEntry, Idle, Never
  <1> QED
    BY <1>1, <1>2 DEF Init, Lives, EndsAreLast, AcceptedIsRecent

\* A step that leaves the table of sessions alone.
LEMMA QuietLives ==
  ASSUME Typed, Lives, NEW c \in Clients,
         UNCHANGED <<now, rows, id, ended>>,
         \A e \in Clients \ {c} : call'[e] = call[e],
         call'[c].stmt # "take" => call'[c].at <= now,
         \A t \in Tokens : ended[t] # Never /\ Knows(call'[c], t) => call'[c].at <= ended[t],
         \A w \in Workers, t \in Tokens :
           /\ cache'[w][t].verified <= now
           /\ ended[t] # Never => cache'[w][t].verified <= ended[t],
         AcceptedIsRecent'
  PROVE  Lives'
  <1>1. RowsAreOwn'
    BY DEF Lives, RowsAreOwn
  <1>2. NothingIsAhead'
    BY DEF Lives, NothingIsAhead
  <1>3. EndsAreLast'
    BY DEF Lives, EndsAreLast, Knows
  <1> QED
    BY <1>1, <1>2, <1>3 DEF Lives

\* A request is accepted from an activity that is not after the end.
LEMMA CheckIsRecent ==
  ASSUME Typed, Lives, NEW c \in Clients, NEW r, NEW v \in Int,
         r.token \in Tokens, UNCHANGED ended,
         ended[r.token] # Never => v <= ended[r.token],
         Check(c, r, v)
  PROVE  AcceptedIsRecent'
  <1>1. CASE UNCHANGED accepted
    BY <1>1 DEF Lives, AcceptedIsRecent
  <1>2. CASE now - v < ActivityCheck /\ Accept(r.token, now)
    <2> SUFFICES ASSUME NEW t \in Tokens
                 PROVE  IF ended[t] = Never THEN accepted'[t] = Never
                        ELSE accepted'[t] < ended[t] + ActivityCheck
      BY DEF AcceptedIsRecent
    <2>1. /\ ended[t] \in Int /\ accepted[t] \in Int /\ now \in Int /\ ActivityCheck \in Int
          /\ ended[r.token] \in Int
      BY TimesAreIntegers
    <2>2. \/ accepted'[t] = accepted[t]
          \/ t = r.token /\ ended[t] # Never /\ accepted'[t] = now
      BY <1>2 DEF Accept, Latest, Typed, TypeOK
    <2>3. IF ended[t] = Never THEN accepted[t] = Never
          ELSE accepted[t] < ended[t] + ActivityCheck
      BY DEF Lives, AcceptedIsRecent
    <2> QED
      BY <1>2, <2>1, <2>2, <2>3
  <1> QED
    BY <1>1, <1>2 DEF Check

\* What a call of verifySessionToken() turns into knows nothing yet.
LEMMA CheckAsks ==
  ASSUME Typed, Lives, NEW c \in Clients, NEW r \in Calls, NEW v,
         r.at <= now, Check(c, r, v)
  PROVE  /\ call'[c].at <= now /\ call'[c].pc # "answered"
         /\ \A e \in Clients \ {c} : call'[e] = call[e]
  <1>1. \/ call' = [call EXCEPT ![c] = Ask(r, "expire")]
        \/ call' = [call EXCEPT ![c] = Ask([r EXCEPT !.at = now], "touch")]
        \/ call' = [call EXCEPT ![c] = Proceed(r)]
    BY DEF Check
  <1>2. Proceed(r) \in {Ask(r, "delete"), Ask(r, "grant"), Idle}
    BY DEF Proceed
  <1>3. now \in Int /\ now >= 0 /\ Never = -1 /\ call \in [Clients -> Calls]
    BY TimesAreIntegers DEF Typed, TypeOK
  <1>4. \A stmt : Ask(r, stmt).at = r.at /\ Ask(r, stmt).pc = "asked"
    BY DEF Ask, Calls
  <1>5. /\ Ask([r EXCEPT !.at = now], "touch").at = now
        /\ Ask([r EXCEPT !.at = now], "touch").pc = "asked"
    BY DEF Ask, Calls
  <1>6. Idle.at <= now /\ Idle.pc = "idle"
    BY <1>3 DEF Idle
  <1>7. \A e \in Clients \ {c} : call'[e] = call[e]
    BY <1>1, <1>3
  <1>8. call'[c] \in {Ask(r, "expire"), Ask(r, "delete"), Ask(r, "grant"), Idle,
                     Ask([r EXCEPT !.at = now], "touch")}
    BY <1>1, <1>2, <1>3
  <1>9. now <= now
    BY <1>3
  <1> QED
    BY <1>4, <1>5, <1>6, <1>7, <1>8, <1>9

LEMMA PresentLives ==
  ASSUME Typed, Lives, NEW c \in Clients, Presents(c)
  PROVE  Lives'
  <1>1. PICK w \in Workers, t \in Tokens, op \in {"use", "revoke", "authorize"} :
          Present(c, w, t, op)
    BY DEF Presents
  <1> DEFINE r == [Idle EXCEPT !.op = op, !.worker = w, !.token = t]
  <1>2. /\ r \in Calls /\ r.at = Never /\ r.pc = "idle" /\ r.token = t
        /\ Ask(r, "select").at = Never /\ Ask(r, "select").pc = "asked"
    BY Numbers DEF Calls, Idle, Ask
  <1>3. \/ Check(c, r, cache[w][t].verified)
        \/ call' = [call EXCEPT ![c] = Ask(r, "select")] /\ UNCHANGED accepted
    BY <1>1 DEF Present
  <1>4. UNCHANGED <<now, rows, id, ended, cache>>
    BY <1>1 DEF Present
  <1>5. Never <= now /\ cache[w][t].verified \in Int /\ call \in [Clients -> Calls]
    BY TimesAreIntegers DEF Typed, TypeOK
  <1> HIDE DEF r
  <1>6. /\ call'[c].at <= now /\ call'[c].pc # "answered"
        /\ \A e \in Clients \ {c} : call'[e] = call[e]
        /\ AcceptedIsRecent'
    <2>1. CASE Check(c, r, cache[w][t].verified)
      <3>1. ended[t] # Never => cache[w][t].verified <= ended[t]
        BY DEF Lives, EndsAreLast
      <3>2. AcceptedIsRecent'
        BY <1>2, <1>4, <1>5, <2>1, <3>1, CheckIsRecent
      <3>3. r.at <= now
        BY <1>2, <1>5
      <3> QED
        BY <1>2, <2>1, <3>2, <3>3, CheckAsks
    <2>2. CASE call' = [call EXCEPT ![c] = Ask(r, "select")] /\ UNCHANGED accepted
      BY <1>2, <1>4, <1>5, <2>2 DEF Lives, AcceptedIsRecent
    <2> QED
      BY <1>3, <2>1, <2>2
  <1>7. \A u \in Tokens : ~Knows(call'[c], u)
    BY <1>6 DEF Knows
  <1> QED
    BY <1>4, <1>6, <1>7, QuietLives DEF Lives, NothingIsAhead, EndsAreLast

LEMMA LoginLives ==
  ASSUME Typed, Lives, NEW c \in Clients, Logins(c) \/ Exchanges(c)
  PROVE  Lives'
  <1>1. call \in [Clients -> Calls] /\ now \in Int /\ Never <= now
    BY TimesAreIntegers DEF Typed, TypeOK
  <1>2. ASSUME NEW w \in Workers, Login(c, w)
        PROVE  /\ call'[c].at = now /\ call'[c].pc = "asked"
               /\ \A e \in Clients \ {c} : call'[e] = call[e]
    BY <1>1, <1>2 DEF Login, Ask, Idle
  <1>3. ASSUME NEW w \in Workers, NEW k \in Codes, NEW uriMatches \in BOOLEAN,
               Exchange(c, w, k, uriMatches)
        PROVE  /\ call'[c].at = Never /\ call'[c].pc = "asked"
               /\ \A e \in Clients \ {c} : call'[e] = call[e]
    BY <1>1, <1>3 DEF Exchange, Ask, Idle
  <1>4. /\ call'[c].at <= now /\ call'[c].pc = "asked"
        /\ \A e \in Clients \ {c} : call'[e] = call[e]
    BY <1>1, <1>2, <1>3 DEF Logins, Exchanges
  <1>5. UNCHANGED <<now, rows, id, ended, cache, accepted>>
    BY DEF Logins, Exchanges, Login, Exchange, history
  <1>6. \A t \in Tokens : ~Knows(call'[c], t)
    BY <1>4 DEF Knows
  <1> QED
    BY <1>4, <1>5, <1>6, QuietLives DEF Lives, NothingIsAhead, EndsAreLast, AcceptedIsRecent

LEMMA SelectLives ==
  ASSUME Typed, Lives, NEW c \in Clients, SelectRuns(c)
  PROVE  Lives'
  <1> DEFINE r == call[c]
             row == rows[id[r.token]]
  <1>1. r \in Calls /\ Aimed(r) /\ r.stmt = "select" /\ call \in [Clients -> Calls]
    BY DEF Typed, TypeOK, SelectRuns
  <1>2. /\ call'[c].pc = "answered" /\ call'[c].stmt = "select" /\ call'[c].token = r.token
        /\ call'[c].at = IF row.secret = r.token THEN row.verified ELSE Never
        /\ \A e \in Clients \ {c} : call'[e] = call[e]
    BY <1>1 DEF SelectRuns, Answer, Calls
  <1>3. UNCHANGED <<now, rows, id, ended, cache, accepted>>
    BY DEF SelectRuns, history
  <1>4. r.token \in Tokens /\ id[r.token] \in Ids
    BY <1>1 DEF Aimed, ByToken
  <1>5. row.secret = r.token => ended[r.token] = Never
    BY <1>4 DEF Lives, RowsAreOwn
  <1>6. row.verified <= now /\ Never <= now
    BY <1>4, TimesAreIntegers DEF Lives, NothingIsAhead
  <1>7. ASSUME ended[r.token] # Never PROVE call'[c].at <= ended[r.token]
    <2>1. ended[r.token] \in Times
      BY <1>4, <1>7 DEF Typed, TypeOK
    <2>2. Never <= ended[r.token]
      BY <2>1, BoundsAreNatural DEF Times, Never
    <2> QED
      BY <1>2, <1>5, <1>7, <2>2
  <1> HIDE DEF r, row
  <1>8. \A t \in Tokens : ended[t] # Never /\ Knows(call'[c], t) => call'[c].at <= ended[t]
    BY <1>2, <1>7 DEF Knows
  <1>9. call'[c].at <= now
    BY <1>2, <1>6
  <1> QED
    BY <1>2, <1>3, <1>8, <1>9, QuietLives DEF Lives, NothingIsAhead, EndsAreLast, AcceptedIsRecent

LEMMA TouchLives ==
  ASSUME Typed, Lives, NEW c \in Clients, TouchRuns(c)
  PROVE  Lives'
  <1> DEFINE r == call[c]
             i == id[r.token]
             hit == rows[i].secret = r.token
  <1>1. /\ r \in Calls /\ r.stmt = "touch" /\ call \in [Clients -> Calls]
        /\ r.token \in Tokens /\ i \in Ids
        /\ rows \in [Ids -> [secret : 0..MaxTokens, verified : Times \cup {Never}]]
    BY DEF Typed, TypeOK, TouchRuns, Aimed, ByToken
  <1>2. /\ call'[c].stmt = "touch" /\ call'[c].token = r.token /\ call'[c].at = r.at
        /\ call'[c].ok = hit
        /\ \A e \in Clients \ {c} : call'[e] = call[e]
    BY <1>1 DEF TouchRuns, Answer, Calls
  <1>3. UNCHANGED <<now, id, ended, cache, accepted>>
    BY DEF TouchRuns, history
  <1>4. \A j \in Ids : /\ rows'[j].secret = rows[j].secret
                       /\ rows'[j].verified = rows[j].verified \/ rows'[j].verified = r.at
    BY <1>1 DEF TouchRuns
  <1>5. hit => ended[r.token] = Never
    BY <1>1 DEF Lives, RowsAreOwn
  <1>6. r.at <= now
    BY <1>1 DEF Lives, NothingIsAhead
  <1> HIDE DEF r, i, hit
  <1>7. RowsAreOwn'
    BY <1>3, <1>4 DEF Lives, RowsAreOwn
  <1>8. NothingIsAhead'
    BY <1>2, <1>3, <1>4, <1>6 DEF Lives, NothingIsAhead
  <1>9. EndsAreLast'
    BY <1>2, <1>3, <1>5 DEF Lives, EndsAreLast, Knows
  <1>10. AcceptedIsRecent'
    BY <1>3 DEF Lives, AcceptedIsRecent
  <1> QED
    BY <1>7, <1>8, <1>9, <1>10 DEF Lives

LEMMA DeleteLives ==
  ASSUME Typed, Lives, NEW c \in Clients, DeleteRuns(c)
  PROVE  Lives'
  <1> DEFINE r == call[c]
             i == id[r.token]
  <1>1. /\ r \in Calls /\ r.stmt \in {"expire", "delete"} /\ call \in [Clients -> Calls]
        /\ r.token \in Tokens /\ i \in Ids
        /\ rows \in [Ids -> [secret : 0..MaxTokens, verified : Times \cup {Never}]]
    BY DEF Typed, TypeOK, DeleteRuns, Aimed, ByToken
  <1>2. /\ call'[c].stmt = r.stmt /\ call'[c].at = r.at
        /\ \A e \in Clients \ {c} : call'[e] = call[e]
    BY <1>1 DEF DeleteRuns, Answer, Calls
  <1>3. UNCHANGED <<now, id, cache, accepted>>
    BY DEF DeleteRuns
  <1>4. /\ rows'[i] = NoRow
        /\ \A j \in Ids \ {i} : rows'[j] = rows[j]
        /\ \A t \in Tokens : ended'[t] = IF rows[i].secret = t THEN now ELSE ended[t]
    BY <1>1 DEF DeleteRuns
  <1>5. \A t \in Tokens : rows[i].secret = t => id[t] = i /\ ended[t] = Never /\ id[t] # Nothing
    <2>1. i # Nothing
      BY <1>1, Numbers
    <2> HIDE DEF i
    <2> QED
      BY <1>1, <2>1 DEF Lives, RowsAreOwn
  <1>6. now \in Int /\ now >= 0 /\ Never = -1
    BY TimesAreIntegers
  <1> HIDE DEF r, i
  <1>7. RowsAreOwn'
    <2>1. ASSUME NEW j \in Ids, NEW t \in Tokens, rows'[j].secret = t
          PROVE  id[t] = j /\ ended'[t] = Never
      <3>1. j # i /\ rows[j].secret = t
        BY <1>4, <2>1, Numbers DEF NoRow
      <3>2. id[t] = j /\ ended[t] = Never
        BY <3>1 DEF Lives, RowsAreOwn
      <3> QED
        BY <1>4, <1>5, <3>1, <3>2
    <2>2. \A t \in Tokens : id[t] = Nothing => ended'[t] = Never
      BY <1>4, <1>5 DEF Lives, RowsAreOwn
    <2> QED
      BY <1>3, <2>1, <2>2 DEF RowsAreOwn
  <1>8. NothingIsAhead'
    BY <1>1, <1>2, <1>3, <1>4, <1>6 DEF Lives, NothingIsAhead, NoRow, r
  <1>9. EndsAreLast'
    <2>1. \A e \in Clients, t \in Tokens : Knows(call'[e], t) => e # c /\ Knows(call[e], t)
      BY <1>1, <1>2 DEF Knows
    <2>2. \A e \in Clients, t \in Tokens : Knows(call'[e], t) => call'[e] = call[e] /\ call[e].at <= now
      BY <1>2, <2>1 DEF Knows, Lives, NothingIsAhead
    <2> QED
      BY <1>2, <1>3, <1>4, <2>1, <2>2 DEF Lives, EndsAreLast, NothingIsAhead
  <1>10. AcceptedIsRecent'
    BY <1>3, <1>4, <1>5, <1>6, TimesAreIntegers DEF Lives, AcceptedIsRecent
  <1> QED
    BY <1>7, <1>8, <1>9, <1>10 DEF Lives

LEMMA InsertLives ==
  ASSUME Typed, Lives, NEW c \in Clients, InsertRuns(c)
  PROVE  Lives'
  <1> DEFINE r == call[c]
  <1>1. PICK i \in Ids, t \in Tokens : Inserts(c, i, t)
    BY InsertChoice
  <1>a. r.stmt = "insert"
    BY DEF InsertRuns
  <1>2. /\ r \in Calls /\ call \in [Clients -> Calls]
        /\ rows \in [Ids -> [secret : 0..MaxTokens, verified : Times \cup {Never}]]
        /\ id \in [Tokens -> 0..MaxTokens]
    BY DEF Typed, TypeOK
  <1>3. /\ id[t] = Nothing /\ id'[t] = i /\ \A u \in Tokens \ {t} : id'[u] = id[u]
        /\ rows'[i] = [secret |-> t, verified |-> r.at]
        /\ \A j \in Ids \ {i} : rows'[j] = rows[j]
    BY <1>1, <1>2 DEF Inserts
  <1>4. /\ call'[c].token = t /\ call'[c].at = r.at
        /\ \A e \in Clients \ {c} : call'[e] = call[e]
    BY <1>1, <1>2 DEF Inserts, Calls
  <1>5. UNCHANGED <<now, cache, accepted, ended>>
    BY DEF InsertRuns
  <1>6. ended[t] = Never /\ \A j \in Ids : rows[j].secret # t
    BY <1>3, Numbers DEF Lives, RowsAreOwn
  <1> HIDE DEF r
  <1>7. RowsAreOwn'
    BY <1>3, <1>5, <1>6, Numbers DEF Lives, RowsAreOwn
  <1>8. NothingIsAhead'
    BY <1>a, <1>3, <1>4, <1>5 DEF Lives, NothingIsAhead, r
  <1>9. EndsAreLast'
    BY <1>4, <1>5, <1>6 DEF Lives, EndsAreLast, Knows
  <1>10. AcceptedIsRecent'
    BY <1>5 DEF Lives, AcceptedIsRecent
  <1> QED
    BY <1>7, <1>8, <1>9, <1>10 DEF Lives

LEMMA CodeStatementsLive ==
  ASSUME Typed, Lives, NEW c \in Clients, GrantRuns(c) \/ TakeRuns(c)
  PROVE  Lives'
  <1>1. call \in [Clients -> Calls] /\ call[c] \in Calls
    BY DEF Typed, TypeOK
  <1>2. /\ call'[c].stmt = call[c].stmt /\ call[c].stmt \in {"grant", "take"}
        /\ \A e \in Clients \ {c} : call'[e] = call[e]
        /\ call'[c].stmt = "grant" => call'[c].at = call[c].at
    <2>1. CASE GrantRuns(c)
      <3>1. PICK k \in Codes : Answer(c, [call[c] EXCEPT !.code = k])
        BY <2>1 DEF GrantRuns
      <3>2. call[c].stmt = "grant"
        BY <2>1 DEF GrantRuns
      <3> QED
        BY <1>1, <3>1, <3>2 DEF Answer, Calls
    <2>2. CASE TakeRuns(c)
      BY <1>1, <2>2 DEF TakeRuns, Answer, Calls, Typed, Aimed
    <2> QED
      BY <2>1, <2>2
  <1>3. UNCHANGED <<now, rows, id, ended, cache, accepted>>
    BY DEF GrantRuns, TakeRuns, history
  <1>4. call'[c].stmt # "take" => call'[c].at <= now
    BY <1>2 DEF Lives, NothingIsAhead
  <1>5. \A t \in Tokens : ~Knows(call'[c], t)
    BY <1>2 DEF Knows
  <1> QED
    BY <1>2, <1>3, <1>4, <1>5, QuietLives DEF Lives, NothingIsAhead, EndsAreLast, AcceptedIsRecent

\* A call that is over knows nothing.
LEMMA FinishLives ==
  ASSUME Typed, NEW c \in Clients, Finish(c)
  PROVE  /\ call'[c].at <= now /\ call'[c].stmt # "take"
         /\ \A t \in Tokens : ~Knows(call'[c], t)
         /\ \A e \in Clients \ {c} : call'[e] = call[e]
  <1>1. call \in [Clients -> Calls] /\ Never <= now
    BY TimesAreIntegers DEF Typed, TypeOK
  <1>2. call'[c] = Idle /\ \A e \in Clients \ {c} : call'[e] = call[e]
    BY <1>1 DEF Finish
  <1>3. Idle.at = Never /\ Idle.stmt = "none" /\ Idle.pc = "idle"
    BY DEF Idle
  <1>4. \A t \in Tokens : ~Knows(Idle, t)
    BY <1>3 DEF Knows
  <1> QED
    BY <1>1, <1>2, <1>3, <1>4

\* What a worker writes in its cache is no later than the end of the session.
LEMMA StoreLives ==
  ASSUME Typed, Lives, NEW u, NEW t \in Tokens, NEW v \in Int,
         v <= now, ended[t] # Never => v <= ended[t],
         cache' = Store(u, t, v) \/ cache' = Drop(u, t) \/ cache' = cache
  PROVE  \A w \in Workers, s \in Tokens :
           /\ cache'[w][s].verified <= now
           /\ ended[s] # Never => cache'[w][s].verified <= ended[s]
  <1> SUFFICES ASSUME NEW w \in Workers, NEW s \in Tokens
               PROVE  /\ cache'[w][s].verified <= now
                      /\ ended[s] # Never => cache'[w][s].verified <= ended[s]
    OBVIOUS
  <1>1. /\ cache[w][s].verified <= now
        /\ ended[s] # Never => cache[w][s].verified <= ended[s]
    BY DEF Lives, NothingIsAhead, EndsAreLast
  <1>2. \/ cache'[w][s].verified = cache[w][s].verified
        \/ cache'[w][s].verified = v /\ s = t
        \/ cache'[w][s].verified = Never
    BY DEF Typed, TypeOK, Store, Drop, NoEntry
  <1>3. Never <= now /\ (ended[s] # Never => Never <= ended[s])
    BY BoundsAreNatural DEF Typed, TypeOK, Times, Never
  <1> QED
    BY <1>1, <1>2, <1>3

\* What the worker does with the answer.
LEMMA SelectedLives ==
  ASSUME Typed, Lives, NEW c \in Clients, Selected(c)
  PROVE  Lives'
  <1> DEFINE r == call[c]
             n == [r EXCEPT !.ok = FALSE, !.at = Never]
  <1>1. /\ r \in Calls /\ r.stmt = "select" /\ r.pc = "answered" /\ r.token \in Tokens
        /\ call \in [Clients -> Calls] /\ now \in Int /\ Never <= now /\ r.at \in Int
    BY TimesAreIntegers DEF Typed, TypeOK, Selected, Answered, Aimed, ByToken
  <1>2. /\ UNCHANGED <<now, rows, id, ended>>
        /\ \/ Finish(c) /\ UNCHANGED <<cache, accepted>>
           \/ cache' = Store(r.worker, r.token, r.at) /\ Check(c, n, r.at)
    BY DEF Selected
  <1>3. r.at <= now /\ (ended[r.token] # Never => r.at <= ended[r.token])
    BY <1>1 DEF Lives, NothingIsAhead, EndsAreLast, Knows
  <1>4. n \in Calls /\ n.at <= now /\ n.token = r.token
    BY <1>1 DEF Calls
  <1> HIDE DEF r, n
  <1>a. \A w \in Workers, t \in Tokens :
          /\ cache'[w][t].verified <= now
          /\ ended[t] # Never => cache'[w][t].verified <= ended[t]
    BY <1>1, <1>2, <1>3, StoreLives
  <1>5. CASE Finish(c) /\ UNCHANGED <<cache, accepted>>
    <2>1. AcceptedIsRecent'
      BY <1>2, <1>5 DEF Lives, AcceptedIsRecent
    <2> QED
      BY <1>2, <1>a, <1>5, <2>1, FinishLives, QuietLives
  <1>6. CASE cache' = Store(r.worker, r.token, r.at) /\ Check(c, n, r.at)
    <2>1. AcceptedIsRecent'
      BY <1>1, <1>2, <1>3, <1>4, <1>6, CheckIsRecent
    <2>2. /\ call'[c].at <= now /\ call'[c].pc # "answered"
          /\ \A e \in Clients \ {c} : call'[e] = call[e]
      BY <1>4, <1>6, CheckAsks
    <2>3. \A t \in Tokens : ~Knows(call'[c], t)
      BY <2>2 DEF Knows
    <2> QED
      BY <1>2, <1>a, <2>1, <2>2, <2>3, QuietLives
  <1> QED
    BY <1>2, <1>5, <1>6

LEMMA TouchedLives ==
  ASSUME Typed, Lives, NEW c \in Clients, Touched(c)
  PROVE  Lives'
  <1> DEFINE r == call[c]
             n == [r EXCEPT !.ok = FALSE, !.at = Never]
  <1>1. /\ r \in Calls /\ r.stmt = "touch" /\ r.pc = "answered" /\ r.token \in Tokens
        /\ call \in [Clients -> Calls] /\ now \in Int /\ Never <= now /\ r.at \in Int
        /\ r.at <= now
    BY TimesAreIntegers
       DEF Typed, TypeOK, Touched, Answered, Aimed, ByToken, Lives, NothingIsAhead
  <1>2. /\ UNCHANGED <<now, rows, id, ended>>
        /\ \/ /\ cache' = Drop(r.worker, r.token) /\ Finish(c) /\ UNCHANGED accepted
           \/ /\ r.ok
              /\ cache' = Store(r.worker, r.token, r.at)
              /\ call' = [call EXCEPT ![c] = Proceed(n)]
              /\ Accept(r.token, r.at)
    BY DEF Touched
  <1>3. n \in Calls /\ n.at = Never /\ n.token = r.token
    BY <1>1 DEF Calls, Never
  <1>4. r.ok /\ ended[r.token] # Never => r.at <= ended[r.token]
    BY <1>1 DEF Lives, EndsAreLast, Knows
  <1> HIDE DEF r, n
  <1>5. CASE cache' = Drop(r.worker, r.token) /\ Finish(c) /\ UNCHANGED accepted
    <2>1. AcceptedIsRecent'
      BY <1>2, <1>5 DEF Lives, AcceptedIsRecent
    <2>2. Never \in Int /\ (ended[r.token] # Never => Never <= ended[r.token])
      BY <1>1, BoundsAreNatural DEF Typed, TypeOK, Times, Never
    <2>3. \A w \in Workers, t \in Tokens :
            /\ cache'[w][t].verified <= now
            /\ ended[t] # Never => cache'[w][t].verified <= ended[t]
      BY <1>1, <1>5, <2>2, StoreLives
    <2> QED
      BY <1>2, <1>5, <2>1, <2>3, FinishLives, QuietLives
  <1>6. CASE /\ r.ok
             /\ cache' = Store(r.worker, r.token, r.at)
             /\ call' = [call EXCEPT ![c] = Proceed(n)]
             /\ Accept(r.token, r.at)
    <2>1. AcceptedIsRecent'
      <3> SUFFICES ASSUME NEW t \in Tokens
                   PROVE  IF ended[t] = Never THEN accepted'[t] = Never
                          ELSE accepted'[t] < ended[t] + ActivityCheck
        BY <1>2 DEF AcceptedIsRecent
      <3>1. /\ ended[t] \in Int /\ accepted[t] \in Int
            /\ ActivityCheck \in Int /\ ActivityCheck > 0
        BY TimesAreIntegers
      <3>2. \/ accepted'[t] = accepted[t]
            \/ t = r.token /\ ended[t] # Never /\ accepted'[t] = r.at
        BY <1>6 DEF Accept, Latest, Typed, TypeOK
      <3>3. IF ended[t] = Never THEN accepted[t] = Never
            ELSE accepted[t] < ended[t] + ActivityCheck
        BY DEF Lives, AcceptedIsRecent
      <3> QED
        BY <1>1, <1>4, <1>6, <3>1, <3>2, <3>3
    <2>2. \A w \in Workers, t \in Tokens :
            /\ cache'[w][t].verified <= now
            /\ ended[t] # Never => cache'[w][t].verified <= ended[t]
      BY <1>1, <1>4, <1>6, StoreLives
    <2>3. call'[c] = Proceed(n) /\ \A e \in Clients \ {c} : call'[e] = call[e]
      BY <1>1, <1>6
    <2>4. Proceed(n).at = Never /\ Proceed(n).pc # "answered"
      BY <1>3 DEF Proceed, Ask, Calls, Idle
    <2>5. \A t \in Tokens : ~Knows(call'[c], t)
      BY <2>3, <2>4 DEF Knows
    <2> QED
      BY <1>1, <1>2, <2>1, <2>2, <2>3, <2>4, <2>5, QuietLives
  <1> QED
    BY <1>2, <1>5, <1>6

LEMMA AnsweredLives ==
  ASSUME Typed, Lives, NEW c \in Clients,
         Deleted(c) \/ Inserted(c) \/ Granted(c) \/ Taken(c)
  PROVE  Lives'
  <1> DEFINE r == call[c]
  <1>1. UNCHANGED <<now, rows, id, ended, accepted>>
    BY DEF Deleted, Inserted, Granted, Taken, history
  <1>2. /\ r \in Calls /\ call \in [Clients -> Calls] /\ now \in Int /\ Never \in Int
        /\ Never <= now /\ r.at \in Int
        /\ \A t \in Tokens : ended[t] # Never => Never <= ended[t]
    BY TimesAreIntegers, BoundsAreNatural DEF Typed, TypeOK, Times, Never
  <1>3. AcceptedIsRecent'
    BY <1>1 DEF Lives, AcceptedIsRecent
  <1>4. \A w \in Workers, t \in Tokens :
          /\ cache'[w][t].verified <= now
          /\ ended[t] # Never => cache'[w][t].verified <= ended[t]
    <2>1. CASE Deleted(c)
      <3>1. r.token \in Tokens /\ cache' = Drop(r.worker, r.token)
        BY <2>1 DEF Deleted, Answered, Typed, Aimed, ByToken
      <3> QED
        BY <1>2, <3>1, StoreLives
    <2>2. CASE Inserted(c)
      <3>1. /\ r.token \in Tokens /\ cache' = Store(r.worker, r.token, r.at)
            /\ r.stmt = "insert" /\ r.pc = "answered"
        BY <2>2 DEF Inserted, Answered, Typed, Aimed
      <3>2. r.at <= now /\ (ended[r.token] # Never => r.at <= ended[r.token])
        BY <3>1 DEF Lives, NothingIsAhead, EndsAreLast, Knows
      <3> QED
        BY <1>2, <3>1, <3>2, StoreLives
    <2>3. CASE Granted(c) \/ Taken(c)
      <3>1. UNCHANGED cache
        BY <2>3 DEF Granted, Taken, history
      <3> QED
        BY <3>1 DEF Lives, NothingIsAhead, EndsAreLast
    <2> QED
      BY <2>1, <2>2, <2>3
  <1>5. /\ call'[c].at <= now
        /\ \A t \in Tokens : ~Knows(call'[c], t)
        /\ \A e \in Clients \ {c} : call'[e] = call[e]
    <2>1. CASE Finish(c)
      BY <2>1, FinishLives
    <2>2. CASE call' = [call EXCEPT ![c] = Ask([r EXCEPT !.at = now, !.ok = FALSE], "insert")]
      <3>1. call'[c].at = now /\ call'[c].pc = "asked"
        BY <1>2, <2>2 DEF Ask, Calls
      <3>2. now <= now
        BY <1>2
      <3> QED
        BY <1>2, <2>2, <3>1, <3>2 DEF Knows
    <2> QED
      BY <2>1, <2>2 DEF Deleted, Inserted, Granted, Taken
  <1> QED
    BY <1>1, <1>3, <1>4, <1>5, QuietLives

LEMMA RestartLives ==
  ASSUME Typed, Lives, NEW u \in Workers, Restart(u)
  PROVE  Lives'
  <1>1. UNCHANGED <<now, rows, id, ended, accepted>>
    BY DEF Restart, history
  <1>2. \A w \in Workers, t \in Tokens :
          cache'[w][t].verified = Never \/ cache'[w][t] = cache[w][t]
    BY DEF Restart, Typed, TypeOK, NoEntry
  <1>3. \A c \in Clients : call'[c] = Idle \/ call'[c] = call[c]
    BY DEF Restart
  <1>4. Never <= now /\ \A t \in Tokens : ended[t] # Never => Never <= ended[t]
    BY TimesAreIntegers, BoundsAreNatural DEF Typed, TypeOK, Times, Never
  <1>5. Idle.at = Never /\ \A t \in Tokens : ~Knows(Idle, t)
    BY DEF Idle, Knows
  <1>6. NothingIsAhead'
    BY <1>1, <1>2, <1>3, <1>4, <1>5 DEF Lives, NothingIsAhead
  <1>7. EndsAreLast'
    BY <1>1, <1>2, <1>3, <1>4, <1>5 DEF Lives, EndsAreLast
  <1> QED
    BY <1>1, <1>6, <1>7 DEF Lives, RowsAreOwn, AcceptedIsRecent

LEMMA NextLives ==
  ASSUME Typed, Lives, [Next]_vars
  PROVE  Lives'
  <1>1. ASSUME NEW c \in Clients, Presents(c) \/ Logins(c) \/ Exchanges(c) PROVE Lives'
    BY <1>1, PresentLives, LoginLives
  <1>2. ASSUME NEW c \in Clients, Runs(c) PROVE Lives'
    BY <1>2, SelectLives, TouchLives, DeleteLives, InsertLives, CodeStatementsLive DEF Runs
  <1>3. ASSUME NEW c \in Clients, Resume(c) PROVE Lives'
    BY <1>3, SelectedLives, TouchedLives, AnsweredLives DEF Resume
  <1>4. CASE Tick
    <2>1. now' = now + 1 /\ UNCHANGED <<rows, cache, call, id, accepted, ended>>
      BY <1>4 DEF Tick, history
    <2>2. NothingIsAhead'
      BY <2>1, TimesAreIntegers DEF Lives, NothingIsAhead
    <2> QED
      BY <2>1, <2>2 DEF Lives, RowsAreOwn, EndsAreLast, AcceptedIsRecent
  <1>5. ASSUME NEW w \in Workers, Restart(w) PROVE Lives'
    BY <1>5, RestartLives
  <1>6. CASE UNCHANGED vars
    BY <1>6 DEF vars, Lives, RowsAreOwn, NothingIsAhead, EndsAreLast, AcceptedIsRecent
  <1> QED
    BY <1>1, <1>2, <1>3, <1>4, <1>5, <1>6 DEF Next, Presents, Logins, Exchanges

\* Whatever a worker has cached, and whoever got the number of a deleted session:
\* a token is accepted for less than one activity check after its row is gone.
THEOREM RevokedTokensDie == Spec => []RevokedDies
  <1>1. Lives => RevokedDies
    BY DEF Lives, AcceptedIsRecent, RevokedDies
  <1>2. Init => Typed /\ Lives
    BY InitTypes, InitLives
  <1>3. Typed /\ Lives /\ [Next]_vars => (Typed /\ Lives)'
    BY NextTypes, NextLives
  <1> QED
    BY <1>1, <1>2, <1>3, PTL DEF Spec

-----------------------------------------------------------------------------
(* What becomes of a code.                                                 *)

ByCode == {"take", "insert"}

\* The call took the code from the table, and may still make a session of it.
Spends(r, k) ==
  /\ r.code = k
  /\ \/ r.stmt = "take" /\ r.pc = "answered" /\ r.at # Never
     \/ r.stmt = "insert" /\ r.pc = "asked"

Unspent(k) == grants[k].tokens = {} /\ grants[k].refused = FALSE

\* A code is in the table, or one call has it, or it may be spent.
CodesAreApart ==
  \A k \in Codes, c \in Clients :
    /\ codes[k] # Never => Unspent(k) /\ ~Spends(call[c], k)
    /\ Spends(call[c], k) =>
         Unspent(k) /\ \A d \in Clients \ {c} : ~Spends(call[d], k)
NoTableMeansFresh == \A k \in Codes : codes[k] # Never \/ k \notin shared => Unspent(k)
CallsHaveSharedCodes ==
  \A c \in Clients :
    call[c].stmt \in ByCode /\ call[c].code \in Codes => call[c].code \in shared
SpentOnce ==
  \A k \in Codes :
    /\ \A t, u \in grants[k].tokens : t = u
    /\ grants[k].refused => grants[k].tokens = {}
Spending == CodesAreApart /\ NoTableMeansFresh /\ CallsHaveSharedCodes /\ SpentOnce

LEMMA InitSpends == Init => Spending
  BY DEF Init, Spending, CodesAreApart, NoTableMeansFresh, CallsHaveSharedCodes,
         SpentOnce, Spends, Unspent, Idle, ByCode

\* A call that gets no further with a code.
LEMMA QuietSpends ==
  ASSUME Typed, Spending, NEW c \in Clients, UNCHANGED <<codes, grants>>,
         shared \subseteq shared',
         \A e \in Clients \ {c} : call'[e] = call[e],
         call'[c].stmt \in ByCode /\ call'[c].code \in Codes => call'[c].code \in shared,
         \A k \in Codes : Spends(call'[c], k) => Spends(call[c], k)
  PROVE  Spending'
  <1>1. \A k \in Codes : Unspent(k)' <=> Unspent(k)
    BY DEF Unspent
  <1>2. \A k \in Codes, e \in Clients : Spends(call'[e], k) => Spends(call[e], k)
    OBVIOUS
  <1>3. CodesAreApart'
    BY <1>1, <1>2 DEF Spending, CodesAreApart
  <1>4. NoTableMeansFresh'
    BY <1>1 DEF Spending, NoTableMeansFresh
  <1>5. CallsHaveSharedCodes'
    BY DEF Spending, CallsHaveSharedCodes
  <1>6. SpentOnce'
    BY DEF Spending, SpentOnce
  <1> QED
    BY <1>3, <1>4, <1>5, <1>6 DEF Spending

LEMMA ProceedOrCheckSpends ==
  ASSUME Typed, NEW c \in Clients, NEW r \in Calls, NEW v,
         Check(c, r, v) \/ call' = [call EXCEPT ![c] = Proceed(r)]
  PROVE  /\ call'[c].stmt \notin ByCode
         /\ \A e \in Clients \ {c} : call'[e] = call[e]
  <1>1. call \in [Clients -> Calls]
    BY DEF Typed, TypeOK
  <1>2. Proceed(r) \in {Ask(r, "delete"), Ask(r, "grant"), Idle}
    BY DEF Proceed
  <1>3. /\ \A e \in Clients \ {c} : call'[e] = call[e]
        /\ call'[c] \in {Ask(r, "expire"), Ask(r, "delete"), Ask(r, "grant"), Idle,
                         Ask([r EXCEPT !.at = now], "touch")}
    BY <1>1, <1>2 DEF Check
  <1>4. /\ \A stmt : Ask(r, stmt).stmt = stmt
        /\ Ask([r EXCEPT !.at = now], "touch").stmt = "touch"
        /\ Idle.stmt = "none"
    BY DEF Ask, Calls, Idle
  <1>5. \A stmt \in {"expire", "delete", "grant", "none", "touch"} : stmt \notin ByCode
    BY DEF ByCode
  <1> QED
    BY <1>3, <1>4, <1>5

LEMMA BeginSpends ==
  ASSUME Typed, Spending, NEW c \in Clients, Presents(c) \/ Logins(c) \/ Exchanges(c)
  PROVE  Spending'
  <1>1. call \in [Clients -> Calls]
    BY DEF Typed, TypeOK
  <1>2. UNCHANGED <<codes, grants, shared>>
    BY DEF Presents, Logins, Exchanges, Present, Login, Exchange, history
  <1>3. /\ \A e \in Clients \ {c} : call'[e] = call[e]
        /\ call'[c].stmt \in ByCode /\ call'[c].code \in Codes => call'[c].code \in shared
        /\ \A k \in Codes : ~Spends(call'[c], k)
    <2>1. ASSUME NEW w \in Workers, NEW t \in Tokens,
                 NEW op \in {"use", "revoke", "authorize"}, Present(c, w, t, op)
          PROVE  <1>3
      <3> DEFINE r == [Idle EXCEPT !.op = op, !.worker = w, !.token = t]
      <3>1. r \in Calls /\ Ask(r, "select").stmt = "select"
        BY Numbers DEF Calls, Idle, Ask
      <3>2. \/ Check(c, r, cache[w][t].verified)
            \/ call' = [call EXCEPT ![c] = Ask(r, "select")]
        BY <2>1 DEF Present
      <3> HIDE DEF r
      <3>3. /\ call'[c].stmt \notin ByCode
            /\ \A e \in Clients \ {c} : call'[e] = call[e]
        BY <1>1, <3>1, <3>2, ProceedOrCheckSpends DEF ByCode
      <3> QED
        BY <3>3 DEF Spends, ByCode
    <2>2. ASSUME NEW w \in Workers, Login(c, w) PROVE <1>3
      <3>1. /\ \A e \in Clients \ {c} : call'[e] = call[e]
            /\ call'[c].code = Nothing
        BY <1>1, <2>2 DEF Login, Ask, Idle
      <3> QED
        BY <3>1, Numbers DEF Spends
    <2>3. ASSUME NEW w \in Workers, NEW k \in Codes, NEW uriMatches \in BOOLEAN,
                 Exchange(c, w, k, uriMatches)
          PROVE  <1>3
      <3>1. /\ \A e \in Clients \ {c} : call'[e] = call[e]
            /\ call'[c].code = k /\ call'[c].stmt = "take" /\ call'[c].pc = "asked"
            /\ k \in shared
        BY <1>1, <2>3 DEF Exchange, Ask, Idle
      <3> QED
        BY <3>1 DEF Spends
    <2> QED
      BY <2>1, <2>2, <2>3 DEF Presents, Logins, Exchanges
  <1> QED
    BY <1>2, <1>3, QuietSpends

LEMMA SessionStatementsSpend ==
  ASSUME Typed, Spending, NEW c \in Clients,
         SelectRuns(c) \/ TouchRuns(c) \/ DeleteRuns(c)
  PROVE  Spending'
  <1>1. call \in [Clients -> Calls] /\ call[c] \in Calls
    BY DEF Typed, TypeOK
  <1>2. /\ \A e \in Clients \ {c} : call'[e] = call[e]
        /\ call'[c].stmt = call[c].stmt
        /\ call[c].stmt \in {"select", "touch", "expire", "delete"}
    <2>1. CASE SelectRuns(c)
      BY <1>1, <2>1 DEF SelectRuns, Answer, Calls
    <2>2. CASE TouchRuns(c)
      BY <1>1, <2>2 DEF TouchRuns, Answer, Calls
    <2>3. CASE DeleteRuns(c)
      BY <1>1, <2>3 DEF DeleteRuns, Answer, Calls
    <2> QED
      BY <2>1, <2>2, <2>3
  <1>3. UNCHANGED <<codes, grants, shared>>
    BY DEF SelectRuns, TouchRuns, DeleteRuns, history
  <1>4. call'[c].stmt \notin ByCode /\ \A k \in Codes : ~Spends(call'[c], k)
    BY <1>2 DEF ByCode, Spends
  <1> QED
    BY <1>2, <1>3, <1>4, QuietSpends

LEMMA InsertSpends ==
  ASSUME Typed, Spending, NEW c \in Clients, InsertRuns(c)
  PROVE  Spending'
  <1> DEFINE r == call[c]
  <1>1. PICK i \in Ids, t \in Tokens : Inserts(c, i, t)
    BY InsertChoice
  <1>2. /\ r \in Calls /\ call \in [Clients -> Calls]
        /\ grants \in [Codes -> [tokens : SUBSET Tokens, refused : BOOLEAN]]
        /\ r.stmt = "insert" /\ r.pc = "asked"
    BY DEF Typed, TypeOK, InsertRuns
  <1>3. /\ \A e \in Clients \ {c} : call'[e] = call[e]
        /\ call'[c].stmt = "insert" /\ call'[c].pc = "answered" /\ call'[c].code = r.code
    BY <1>1, <1>2 DEF Inserts, Calls
  <1>4. \A k \in Codes : IF k = r.code
          THEN grants'[k].tokens = grants[k].tokens \cup {t}
               /\ grants'[k].refused = grants[k].refused
          ELSE grants'[k] = grants[k]
    BY <1>1, <1>2 DEF Inserts
  <1>5. UNCHANGED <<codes, shared>>
    BY DEF InsertRuns
  <1> HIDE DEF r
  <1>6. \A k \in Codes : ~Spends(call'[c], k)
    BY <1>3 DEF Spends
  <1>7. ASSUME r.code \in Codes
        PROVE  /\ Unspent(r.code) /\ codes[r.code] = Never /\ r.code \in shared
               /\ \A d \in Clients \ {c} : ~Spends(call[d], r.code)
    <2>1. Spends(call[c], r.code)
      BY <1>2 DEF Spends, r
    <2> QED
      BY <1>2, <1>7, <2>1
         DEF Spending, CodesAreApart, CallsHaveSharedCodes, ByCode, r
  <1>8. \A k \in Codes \ {r.code} : Unspent(k)' <=> Unspent(k)
    BY <1>4 DEF Unspent
  <1>9. CodesAreApart'
    BY <1>3, <1>5, <1>6, <1>7, <1>8 DEF Spending, CodesAreApart
  <1>10. NoTableMeansFresh'
    BY <1>5, <1>7, <1>8 DEF Spending, NoTableMeansFresh
  <1>11. CallsHaveSharedCodes'
    BY <1>3, <1>5, <1>7 DEF Spending, CallsHaveSharedCodes
  <1>12. SpentOnce'
    <2>1. ASSUME NEW k \in Codes
          PROVE  /\ \A v, u \in grants'[k].tokens : v = u
                 /\ grants'[k].refused => grants'[k].tokens = {}
      <3>1. CASE k = r.code
        <4>1. grants'[k].tokens = {t} /\ grants'[k].refused = FALSE
          BY <1>4, <1>7, <3>1 DEF Unspent
        <4> QED
          BY <4>1
      <3>2. CASE k # r.code
        BY <1>4, <3>2 DEF Spending, SpentOnce
      <3> QED
        BY <3>1, <3>2
    <2> QED
      BY <2>1 DEF SpentOnce
  <1> QED
    BY <1>9, <1>10, <1>11, <1>12 DEF Spending

LEMMA GrantSpends ==
  ASSUME Typed, Spending, NEW c \in Clients, GrantRuns(c)
  PROVE  Spending'
  <1>1. PICK k \in Codes :
          /\ k \notin shared /\ \A d \in Clients : call[d].code # k
          /\ codes' = [codes EXCEPT ![k] = now]
          /\ Answer(c, [call[c] EXCEPT !.code = k])
    BY DEF GrantRuns
  <1>2. /\ call \in [Clients -> Calls] /\ call[c] \in Calls /\ call[c].stmt = "grant"
        /\ codes \in [Codes -> Times \cup {Never}]
    BY DEF Typed, TypeOK, GrantRuns
  <1>3. /\ \A e \in Clients \ {c} : call'[e] = call[e]
        /\ call'[c].stmt = "grant"
        /\ \A j \in Codes \ {k} : codes'[j] = codes[j]
    BY <1>1, <1>2 DEF Answer, Calls
  <1>4. UNCHANGED <<shared, grants>>
    BY DEF GrantRuns, history
  <1>5. \A j \in Codes : Unspent(j)' <=> Unspent(j)
    BY <1>4 DEF Unspent
  <1>6. Unspent(k) /\ \A d \in Clients : ~Spends(call'[d], k)
    BY <1>1, <1>3 DEF Spending, NoTableMeansFresh, Spends
  <1>7. CodesAreApart'
    <2>1. \A j \in Codes : ~Spends(call'[c], j)
      BY <1>3 DEF Spends
    <2> QED
      BY <1>3, <1>5, <1>6, <2>1 DEF Spending, CodesAreApart
  <1>8. NoTableMeansFresh'
    BY <1>3, <1>4, <1>5, <1>6 DEF Spending, NoTableMeansFresh
  <1>9. CallsHaveSharedCodes'
    BY <1>3, <1>4 DEF Spending, CallsHaveSharedCodes, ByCode
  <1> QED
    BY <1>4, <1>7, <1>8, <1>9 DEF Spending, SpentOnce

LEMMA TakeSpends ==
  ASSUME Typed, Spending, NEW c \in Clients, TakeRuns(c)
  PROVE  Spending'
  <1> DEFINE r == call[c]
  <1>1. /\ r \in Calls /\ call \in [Clients -> Calls] /\ r.code \in Codes
        /\ codes \in [Codes -> Times \cup {Never}] /\ r.stmt = "take"
    BY DEF Typed, TypeOK, TakeRuns, Aimed
  <1>2. /\ \A e \in Clients \ {c} : call'[e] = call[e]
        /\ call'[c].stmt = "take" /\ call'[c].pc = "answered"
        /\ call'[c].code = r.code /\ call'[c].at = codes[r.code]
        /\ codes'[r.code] = Never
        /\ \A j \in Codes \ {r.code} : codes'[j] = codes[j]
    BY <1>1 DEF TakeRuns, Answer, Calls
  <1>3. UNCHANGED <<shared, grants>>
    BY DEF TakeRuns, history
  <1>4. \A j \in Codes : Unspent(j)' <=> Unspent(j)
    BY <1>3 DEF Unspent
  <1>5. r.code \in shared
    BY <1>1 DEF Spending, CallsHaveSharedCodes, ByCode
  <1> HIDE DEF r
  <1>6. CodesAreApart'
    <2>1. \A j \in Codes : Spends(call'[c], j) => j = r.code /\ codes[r.code] # Never
      BY <1>2 DEF Spends
    <2>2. codes[r.code] # Never =>
            Unspent(r.code) /\ \A d \in Clients : ~Spends(call[d], r.code)
      BY <1>1 DEF Spending, CodesAreApart
    <2> QED
      BY <1>1, <1>2, <1>4, <2>1, <2>2 DEF Spending, CodesAreApart
  <1>7. NoTableMeansFresh'
    BY <1>1, <1>2, <1>3, <1>4 DEF Spending, NoTableMeansFresh
  <1>8. CallsHaveSharedCodes'
    BY <1>2, <1>3, <1>5 DEF Spending, CallsHaveSharedCodes
  <1> QED
    BY <1>3, <1>6, <1>7, <1>8 DEF Spending, SpentOnce

\* What the worker does with the answer.
LEMMA FinishSpends ==
  ASSUME Typed, NEW c \in Clients, Finish(c)
  PROVE  /\ call'[c].stmt \notin ByCode /\ \A k \in Codes : ~Spends(call'[c], k)
         /\ \A e \in Clients \ {c} : call'[e] = call[e]
  <1>1. call'[c] = Idle /\ \A e \in Clients \ {c} : call'[e] = call[e]
    BY DEF Finish, Typed, TypeOK
  <1>2. Idle.stmt = "none"
    BY DEF Idle
  <1> QED
    BY <1>1, <1>2 DEF ByCode, Spends

LEMMA AnsweredSpends ==
  ASSUME Typed, Spending, NEW c \in Clients,
         \/ Selected(c) \/ Touched(c) \/ Deleted(c) \/ Inserted(c) \/ Granted(c)
  PROVE  Spending'
  <1> DEFINE n == [call[c] EXCEPT !.ok = FALSE, !.at = Never]
  <1>1. n \in Calls
    <2>1. call[c] \in Calls
      BY DEF Typed, TypeOK
    <2> QED
      BY <2>1 DEF Calls
  <1>2. /\ shared \subseteq shared' /\ UNCHANGED <<codes, grants>>
        /\ \/ Finish(c)
           \/ \E v : Check(c, n, v) \/ call' = [call EXCEPT ![c] = Proceed(n)]
    BY DEF Selected, Touched, Deleted, Inserted, Granted, history
  <1> HIDE DEF n
  <1>3. /\ call'[c].stmt \notin ByCode
        /\ \A e \in Clients \ {c} : call'[e] = call[e]
    BY <1>1, <1>2, FinishSpends, ProceedOrCheckSpends
  <1>4. \A k \in Codes : ~Spends(call'[c], k)
    BY <1>3 DEF Spends, ByCode
  <1> QED
    BY <1>2, <1>3, <1>4, QuietSpends

LEMMA TakenSpends ==
  ASSUME Typed, Spending, NEW c \in Clients, Taken(c)
  PROVE  Spending'
  <1> DEFINE r == call[c]
  <1>1. /\ r \in Calls /\ call \in [Clients -> Calls] /\ r.code \in Codes
        /\ r.stmt = "take" /\ r.pc = "answered" /\ r.code \in shared
        /\ grants \in [Codes -> [tokens : SUBSET Tokens, refused : BOOLEAN]]
    BY DEF Typed, TypeOK, Taken, Answered, Aimed, Spending, CallsHaveSharedCodes, ByCode
  <1>2. UNCHANGED <<codes, shared>>
    BY DEF Taken
  <1>3. r.at # Never => Spends(call[c], r.code)
    BY <1>1 DEF Spends
  <1>4. CASE /\ r.at # Never /\ UNCHANGED grants
             /\ call' = [call EXCEPT ![c] =
                           Ask([r EXCEPT !.at = now, !.ok = FALSE], "insert")]
    <2>1. /\ call'[c].stmt = "insert" /\ call'[c].pc = "asked" /\ call'[c].code = r.code
          /\ \A e \in Clients \ {c} : call'[e] = call[e]
      BY <1>1, <1>4 DEF Ask, Calls
    <2>2. \A k \in Codes : Spends(call'[c], k) => Spends(call[c], k)
      BY <1>3, <1>4, <2>1 DEF Spends
    <2> QED
      BY <1>1, <1>2, <1>4, <2>1, <2>2, QuietSpends
  <1>5. CASE /\ Finish(c)
             /\ grants' = [grants EXCEPT ![r.code].refused = @ \/ r.at # Never]
    <2>1. CASE r.at = Never
      <3>1. UNCHANGED grants
        BY <1>1, <1>5, <2>1
      <3> QED
        BY <1>2, <1>5, <3>1, FinishSpends, QuietSpends
    <2>2. CASE r.at # Never
      <3>1. /\ codes[r.code] = Never /\ Unspent(r.code)
            /\ \A d \in Clients \ {c} : ~Spends(call[d], r.code)
        BY <1>1, <1>3, <2>2 DEF Spending, CodesAreApart
      <3>2. /\ grants'[r.code].tokens = grants[r.code].tokens
            /\ \A k \in Codes \ {r.code} : grants'[k] = grants[k]
        BY <1>1, <1>5
      <3>3. \A k \in Codes \ {r.code} : Unspent(k)' <=> Unspent(k)
        BY <3>2 DEF Unspent
      <3>4. /\ call'[c].stmt \notin ByCode /\ \A k \in Codes : ~Spends(call'[c], k)
            /\ \A e \in Clients \ {c} : call'[e] = call[e]
        BY <1>5, FinishSpends
      <3> HIDE DEF r
      <3>5. CodesAreApart'
        BY <1>2, <3>1, <3>3, <3>4 DEF Spending, CodesAreApart
      <3>6. NoTableMeansFresh'
        BY <1>1, <1>2, <3>1, <3>3 DEF Spending, NoTableMeansFresh
      <3>7. CallsHaveSharedCodes'
        BY <1>2, <3>4 DEF Spending, CallsHaveSharedCodes
      <3>8. SpentOnce'
        BY <3>1, <3>2 DEF Spending, SpentOnce, Unspent
      <3> QED
        BY <3>5, <3>6, <3>7, <3>8 DEF Spending
    <2> QED
      BY <2>1, <2>2
  <1> QED
    BY <1>4, <1>5 DEF Taken

LEMMA NextSpends ==
  ASSUME Typed, Spending, [Next]_vars
  PROVE  Spending'
  <1>1. ASSUME NEW c \in Clients, Presents(c) \/ Logins(c) \/ Exchanges(c) PROVE Spending'
    BY <1>1, BeginSpends
  <1>2. ASSUME NEW c \in Clients, Runs(c) PROVE Spending'
    BY <1>2, SessionStatementsSpend, InsertSpends, GrantSpends, TakeSpends DEF Runs
  <1>3. ASSUME NEW c \in Clients, Resume(c) PROVE Spending'
    BY <1>3, AnsweredSpends, TakenSpends DEF Resume
  <1>4. ASSUME NEW w \in Workers, Restart(w) PROVE Spending'
    <2>1. UNCHANGED <<codes, shared, grants>>
      BY <1>4 DEF Restart, history
    <2>2. \A c \in Clients : call'[c] = Idle \/ call'[c] = call[c]
      BY <1>4 DEF Restart
    <2>3. Idle.stmt \notin ByCode /\ \A k \in Codes : ~Spends(Idle, k)
      BY DEF Idle, ByCode, Spends
    <2>4. \A k \in Codes : Unspent(k)' <=> Unspent(k)
      BY <2>1 DEF Unspent
    <2>5. CodesAreApart' /\ NoTableMeansFresh' /\ CallsHaveSharedCodes'
      BY <2>1, <2>2, <2>3, <2>4
         DEF Spending, CodesAreApart, NoTableMeansFresh, CallsHaveSharedCodes
    <2> QED
      BY <2>1, <2>5 DEF Spending, SpentOnce
  <1>5. ASSUME UNCHANGED <<codes, call, shared, grants>> PROVE Spending'
    BY <1>5 DEF Spending, CodesAreApart, NoTableMeansFresh, CallsHaveSharedCodes,
                SpentOnce, Unspent, Spends
  <1>6. Tick \/ UNCHANGED vars => UNCHANGED <<codes, call, shared, grants>>
    BY DEF Tick, vars, history
  <1> QED
    BY <1>1, <1>2, <1>3, <1>4, <1>5, <1>6 DEF Next, Presents, Logins, Exchanges

\* A set whose elements are all equal has at most one.
LEMMA AtMostOne ==
  ASSUME NEW S, \A t, u \in S : t = u
  PROVE  Cardinality(S) <= 1
  <1>1. CASE S = {}
    BY <1>1, FS_EmptySet
  <1>2. CASE S # {}
    <2>1. PICK t : S = {t}
      BY <1>2
    <2>2. Cardinality({t}) = 1
      BY FS_Singleton
    <2> QED
      BY <2>1, <2>2
  <1> QED
    BY <1>1, <1>2

\* However many requests race for a code: it becomes one session at most, and
\* none when the request that got it was refused.
THEOREM CodesAreSpentOnce == Spec => []CodeIsSpentOnce
  <1>1. Spending => CodeIsSpentOnce
    BY AtMostOne DEF Spending, SpentOnce, CodeIsSpentOnce
  <1>2. Init => Typed /\ Spending
    BY InitTypes, InitSpends
  <1>3. Typed /\ Spending /\ [Next]_vars => (Typed /\ Spending)'
    BY NextTypes, NextSpends
  <1> QED
    BY <1>1, <1>2, <1>3, PTL DEF Spec

-----------------------------------------------------------------------------
(* The handles, which temporary sessions reserve.                          *)

\* A session that an account is signed in with was issued, and is of an account.
SignedInAreIssued ==
  \A b \in Browsers : \A s \in signedIn[b] : s <= sessions /\ owner[s] # Handles!Temp
\* Times that a request has noted are over.
TimesAreOver == \A t \in Handles!Tabs : tab[t].at <= clock

\* A promise that counts is the reservation itself.
PromisesStand ==
  \A n \in Names :
    promise[n].session # Handles!None /\ clock - promise[n].at < Lifetime => reserved[n] = promise[n]

HandleInv == Handles!TypeOK /\ SignedInAreIssued /\ TimesAreOver /\ PromisesStand

TabStates == [pc : {"idle", "check", "upsert", "release", "store", "prompt", "take",
                "insert", "finish", "publish", "replace", "free"},
          op : {"none", "register", "login", "change"},
          session : 0..MaxSessions, asked : 0..MaxSessions,
          name : Names \cup {Handles!NoName}, account : 0..MaxAccounts,
          at : 0..MaxClock \cup {Handles!Long}]
Challenges == [account : 0..MaxAccounts, at : 0..MaxClock \cup {Handles!Long}]

LEMMA HandleBounds == /\ MaxTabs \in Nat /\ MaxSessions \in Nat /\ MaxAccounts \in Nat
                   /\ MaxClock \in Nat /\ MaxRequests \in Nat /\ Lifetime \in Nat /\ Lifetime > 0
  BY BoundsOfHandles, LifetimePositive

LEMMA InitHandles == Handles!Init => HandleInv
  <1> SUFFICES ASSUME Handles!Init PROVE HandleInv
    OBVIOUS
  <1>1. Handles!TypeOK
    BY HandleBounds DEF Handles!Init, Handles!TypeOK, Handles!Rows, Handles!NoRow,
       Handles!NoChallenge, Handles!Idle, Handles!None, Handles!Long, Handles!Temp, Handles!Accounts
  <1>2. SignedInAreIssued /\ TimesAreOver /\ PromisesStand
    BY DEF Handles!Init, SignedInAreIssued, TimesAreOver, PromisesStand, Handles!NoRow,
       Handles!Idle, Handles!Long
  <1> QED
    BY <1>1, <1>2 DEF HandleInv

\* A request that goes on, or ends, is one, and has noted no time that is ahead.
LEMMA OneGoes ==
  ASSUME HandleInv, NEW t \in Handles!Tabs, NEW r \in TabStates, r.at <= clock,
         NEW pc \in {"idle", "check", "upsert", "release", "store", "prompt", "take",
                     "insert", "finish", "publish", "replace", "free"},
         Handles!Goes(t, r, pc), clock' = clock
  PROVE  tab' \in [Handles!Tabs -> TabStates] /\ TimesAreOver'
  <1>1. [r EXCEPT !.pc = pc] \in TabStates /\ [r EXCEPT !.pc = pc].at = r.at
    BY DEF TabStates
  <1>2. tab \in [Handles!Tabs -> TabStates]
    BY DEF HandleInv, Handles!TypeOK, TabStates
  <1> QED
    BY <1>1, <1>2 DEF Handles!Goes, HandleInv, TimesAreOver

LEMMA OneEnds ==
  ASSUME HandleInv, NEW t \in Handles!Tabs, Handles!Ends(t), clock' = clock
  PROVE  tab' \in [Handles!Tabs -> TabStates] /\ TimesAreOver'
  <1>1. Handles!Idle \in TabStates /\ Handles!Idle.at <= clock
    BY HandleBounds DEF TabStates, Handles!Idle, Handles!None, Handles!Long, HandleInv,
       Handles!TypeOK
  <1>2. tab \in [Handles!Tabs -> TabStates]
    BY DEF HandleInv, Handles!TypeOK, TabStates
  <1> QED
    BY <1>1, <1>2 DEF Handles!Ends, HandleInv, TimesAreOver

\* What is left without a session, or of its names, is left of both alike.
LEMMA BothAreDropped ==
  ASSUME HandleInv, NEW s \in 0..MaxSessions, NEW names \in SUBSET Names, clock' = clock,
         \/ Handles!Frees(s, names)
         \/ Handles!Drops(s)
  PROVE  reserved' \in [Names -> Handles!Rows] /\ promise' \in [Names -> Handles!Rows] /\ PromisesStand'
  <1>1. Handles!NoRow \in Handles!Rows
    BY HandleBounds DEF Handles!NoRow, Handles!Rows, Handles!None, Handles!Long
  <1>2. reserved \in [Names -> Handles!Rows] /\ promise \in [Names -> Handles!Rows] /\ PromisesStand
    BY DEF HandleInv, Handles!TypeOK
  <1>3. PICK gone \in [Names -> SUBSET {s}] :
          /\ reserved' = [n \in Names |-> IF reserved[n].session \in gone[n]
                                        THEN Handles!NoRow ELSE reserved[n]]
          /\ promise' = [n \in Names |-> IF promise[n].session \in gone[n]
                                       THEN Handles!NoRow ELSE promise[n]]
    <2>1. CASE Handles!Frees(s, names)
      <3> WITNESS [n \in Names |-> IF n \in names THEN {s} ELSE {}] \in [Names -> SUBSET {s}]
      <3> QED BY <2>1 DEF Handles!Frees
    <2>2. CASE Handles!Drops(s)
      <3> WITNESS [n \in Names |-> {s}] \in [Names -> SUBSET {s}]
      <3> QED BY <2>2 DEF Handles!Drops
    <2> QED BY <2>1, <2>2
  <1>4. PromisesStand'
    <2> SUFFICES ASSUME NEW n \in Names, promise'[n].session # Handles!None,
                        clock - promise'[n].at < Lifetime
                 PROVE  reserved'[n] = promise'[n]
      BY DEF PromisesStand
    <2>1. promise[n].session \notin gone[n] /\ promise'[n] = promise[n]
      BY <1>2, <1>3 DEF Handles!NoRow
    <2>2. reserved[n] = promise[n]
      BY <1>2, <2>1 DEF PromisesStand
    <2> QED BY <1>3, <2>1, <2>2
  <1> QED
    BY <1>1, <1>2, <1>3, <1>4

\* TypeOK, but for the requests of the tabs.
LEMMA HandlesFit ==
  ASSUME HandleInv,
         clock' \in 0..MaxClock, clock' >= clock,
         owner' \in [Handles!Sessions -> Handles!Accounts \cup {Handles!None, Handles!Temp}],
         sessions' \in 0..MaxSessions, accounts' \in 0..MaxAccounts,
         reserved' \in [Names -> Handles!Rows], promise' \in [Names -> Handles!Rows],
         handles' \in [Names -> 0..MaxAccounts],
         challenges' \in [Handles!Sessions -> Challenges],
         logins' \in [Handles!Sessions -> 0..MaxClock \cup {Handles!Long}],
         temp' \in [Browsers -> 0..MaxSessions],
         signedIn' \in [Browsers -> SUBSET Handles!Sessions],
         tab' \in [Handles!Tabs -> TabStates], requests' \in 0..MaxRequests,
         shown' \in [Handles!Accounts -> Names \cup {Handles!NoName}],
         registered' \in [Handles!Accounts -> Names \cup {Handles!NoName}]
  PROVE  Handles!TypeOK'
  BY DEF Handles!TypeOK, TabStates, Challenges

\* The sessions of accounts stay what they are.
LEMMA SessionsStay ==
  ASSUME HandleInv, signedIn' = signedIn, sessions' >= sessions, sessions' \in Nat,
         \A s \in Handles!Sessions : s <= sessions => owner'[s] \in {owner[s], Handles!None}
  PROVE  SignedInAreIssued'
  <1> SUFFICES ASSUME NEW b \in Browsers, NEW s \in signedIn[b]
               PROVE  s <= sessions' /\ owner'[s] # Handles!Temp
    BY DEF SignedInAreIssued
  <1>1. s \in Handles!Sessions /\ s <= sessions /\ owner[s] # Handles!Temp /\ sessions \in Nat
    BY DEF HandleInv, SignedInAreIssued, Handles!TypeOK
  <1>2. s \in Nat
    BY <1>1, HandleBounds DEF Handles!Sessions
  <1> QED BY <1>1, <1>2 DEF Handles!None, Handles!Temp

\* Promises are kept when neither they nor the reservations are touched.
LEMMA PromisesStay ==
  ASSUME HandleInv, reserved' = reserved, promise' = promise, clock' >= clock, clock' \in Nat
  PROVE  PromisesStand'
  <1> SUFFICES ASSUME NEW n \in Names, promise[n].session # Handles!None,
                      clock' - promise[n].at < Lifetime
               PROVE  reserved[n] = promise[n]
    BY DEF PromisesStand
  <1>1. promise[n].at \in Int /\ clock \in Int
    BY HandleBounds DEF HandleInv, Handles!TypeOK, Handles!Rows, Handles!Long
  <1>2. clock - promise[n].at < Lifetime
    BY <1>1, HandleBounds
  <1> QED BY <1>2 DEF HandleInv, PromisesStand

\* A session that is opened is a new one.
LEMMA OpensFits ==
  ASSUME HandleInv, NEW a \in Handles!Accounts \cup {Handles!None, Handles!Temp}, Handles!Opens(a)
  PROVE  /\ owner' \in [Handles!Sessions -> Handles!Accounts \cup {Handles!None, Handles!Temp}]
         /\ sessions' \in 0..MaxSessions /\ sessions' = sessions + 1
         /\ \A s \in Handles!Sessions : s <= sessions => owner'[s] = owner[s]
  BY HandleBounds DEF Handles!Opens, HandleInv, Handles!TypeOK, Handles!Sessions

LEMMA SetTempFits ==
  ASSUME HandleInv, NEW t \in Handles!Tabs, NEW s \in 0..MaxSessions, Handles!SetTemp(t, s)
  PROVE  temp' \in [Browsers -> 0..MaxSessions]
  BY DEF Handles!SetTemp, HandleInv, Handles!TypeOK

\* A tab is of a browser, and its request a page's.
LEMMA TabFields ==
  ASSUME HandleInv, NEW t \in Handles!Tabs
  PROVE  /\ tab[t] \in TabStates /\ tab[t].at <= clock /\ Handles!Browser(t) \in Browsers
         /\ temp[Handles!Browser(t)] \in 0..MaxSessions
         /\ Handles!Idle \in TabStates /\ Handles!Idle.at <= clock
  <1>1. Handles!Browser(t) \in Browsers
    BY DEF Handles!Tabs, Handles!Browser
  <1>2. Handles!Idle \in TabStates /\ Handles!Idle.at <= clock
    BY HandleBounds DEF TabStates, Handles!Idle, Handles!None, Handles!Long, HandleInv,
       Handles!TypeOK
  <1> QED
    BY <1>1, <1>2 DEF HandleInv, Handles!TypeOK, TabStates, TimesAreOver

LEMMA AskRegistrationFits ==
  ASSUME HandleInv, NEW t \in Handles!Tabs, NEW n \in Names, Handles!AskRegistration(t, n)
  PROVE  HandleInv'
  <1>1. clock' = clock /\ requests' \in 0..MaxRequests
    BY HandleBounds DEF Handles!AskRegistration, Handles!Asks, HandleInv, Handles!TypeOK
  <1>2. /\ owner' \in [Handles!Sessions -> Handles!Accounts \cup {Handles!None, Handles!Temp}]
        /\ sessions' \in 0..MaxSessions
        /\ sessions' >= sessions /\ \A s \in Handles!Sessions : s <= sessions => owner'[s] = owner[s]
        /\ tab' \in [Handles!Tabs -> TabStates] /\ TimesAreOver'
    <2> DEFINE r == [Handles!Idle EXCEPT !.op = "register", !.name = n]
    <2>1. CASE Handles!Live(temp[Handles!Browser(t)])
      <3>1. /\ [r EXCEPT !.session = temp[Handles!Browser(t)]] \in TabStates
            /\ [r EXCEPT !.session = temp[Handles!Browser(t)]].at <= clock
        BY TabFields DEF TabStates, Handles!Idle
      <3>2. /\ Handles!Goes(t, [r EXCEPT !.session = temp[Handles!Browser(t)]], "check")
            /\ UNCHANGED <<sessions, owner>>
        <4>1. Handles!Live(temp[Handles!Browser(t)])
          BY <2>1
        <4> QED BY <4>1 DEF Handles!AskRegistration
      <3>3. tab' \in [Handles!Tabs -> TabStates] /\ TimesAreOver'
        BY <1>1, <3>1, <3>2, OneGoes
      <3> QED BY <3>2, <3>3 DEF HandleInv, Handles!TypeOK
    <2>2. CASE ~Handles!Live(temp[Handles!Browser(t)])
      <3>1. Handles!Opens(Handles!Temp) /\ Handles!Goes(t, [r EXCEPT !.session = sessions + 1], "check")
        BY <2>2 DEF Handles!AskRegistration
      <3>2. sessions + 1 \in 0..MaxSessions
        BY <3>1, OpensFits
      <3>3. /\ [r EXCEPT !.session = sessions + 1] \in TabStates
            /\ [r EXCEPT !.session = sessions + 1].at <= clock
        BY <3>2, TabFields DEF TabStates, Handles!Idle
      <3>4. tab' \in [Handles!Tabs -> TabStates] /\ TimesAreOver'
        BY <1>1, <3>1, <3>3, OneGoes
      <3> QED BY <3>1, <3>4, OpensFits DEF HandleInv, Handles!TypeOK
    <2> QED BY <2>1, <2>2
  <1>3. UNCHANGED <<reserved, handles, challenges, logins, temp, signedIn, accounts, promise,
                    shown, registered>>
    BY DEF Handles!AskRegistration, Handles!cookies, Handles!history
  <1>4. clock \in Nat /\ sessions' \in Nat
    BY <1>2, HandleBounds DEF HandleInv, Handles!TypeOK
  <1>5. Handles!TypeOK'
    BY <1>1, <1>2, <1>3, <1>4, HandlesFit DEF HandleInv, Handles!TypeOK, Challenges
  <1>6. SignedInAreIssued' /\ PromisesStand'
    BY <1>1, <1>2, <1>3, <1>4, SessionsStay, PromisesStay
  <1> QED BY <1>2, <1>5, <1>6 DEF HandleInv

LEMMA AskChangeFits ==
  ASSUME HandleInv, NEW t \in Handles!Tabs, NEW s \in Handles!Sessions, NEW n \in Names,
         Handles!AskChange(t, s, n)
  PROVE  HandleInv'
  <1>1. clock' = clock /\ requests' \in 0..MaxRequests
    BY HandleBounds DEF Handles!AskChange, Handles!Asks, HandleInv, Handles!TypeOK
  <1> DEFINE r == [Handles!Idle EXCEPT !.op = "change", !.name = n, !.session = s, !.account = owner[s]]
  <1>2. r \in TabStates /\ r.at <= clock
    <2>1. owner[s] \in 0..MaxAccounts
      <3>1. Handles!Browser(t) \in Browsers
        BY TabFields
      <3>2. owner[s] # Handles!Temp /\ owner[s] # Handles!None
        BY <3>1 DEF Handles!AskChange, Handles!Live, HandleInv, SignedInAreIssued
      <3>3. owner[s] \in Handles!Accounts
        BY <3>2 DEF HandleInv, Handles!TypeOK
      <3> QED BY <3>3, HandleBounds DEF Handles!Accounts
    <2>2. s \in 0..MaxSessions
      BY HandleBounds DEF Handles!Sessions
    <2> QED BY <2>1, <2>2, TabFields DEF TabStates, Handles!Idle
  <1>3. tab' \in [Handles!Tabs -> TabStates] /\ TimesAreOver'
    <2>1. Handles!Goes(t, r, "check")
      BY DEF Handles!AskChange
    <2> QED BY <1>1, <1>2, <2>1, OneGoes
  <1>4. UNCHANGED <<Handles!tables, Handles!cookies, Handles!issued, Handles!history>>
    BY DEF Handles!AskChange
  <1>5. Handles!TypeOK'
    BY <1>1, <1>3, <1>4, HandlesFit DEF HandleInv, Handles!TypeOK, Challenges, Handles!tables,
       Handles!cookies, Handles!issued, Handles!history
  <1>6. SignedInAreIssued' /\ PromisesStand'
    BY <1>1, <1>4, SessionsStay, PromisesStay DEF HandleInv, Handles!TypeOK, Handles!tables,
       Handles!cookies, Handles!issued, Handles!history
  <1> QED BY <1>3, <1>5, <1>6 DEF HandleInv

\* A request that fails ends, and may leave its session in the cookie.
LEMMA FailsFits ==
  ASSUME HandleInv, NEW t \in Handles!Tabs, Handles!Fails(t, tab[t]), clock' = clock
  PROVE  /\ tab' \in [Handles!Tabs -> TabStates] /\ TimesAreOver'
         /\ temp' \in [Browsers -> 0..MaxSessions]
  <1>1. tab[t].session \in 0..MaxSessions
    BY TabFields DEF TabStates
  <1>2. temp' \in [Browsers -> 0..MaxSessions]
    <2>1. temp \in [Browsers -> 0..MaxSessions]
      BY DEF HandleInv, Handles!TypeOK
    <2>2. CASE Handles!SetTemp(t, tab[t].session)
      BY <1>1, <2>2, SetTempFits
    <2>3. CASE UNCHANGED temp
      BY <2>1, <2>3
    <2> QED BY <2>2, <2>3 DEF Handles!Fails
  <1> QED BY <1>2, OneEnds DEF Handles!Fails

\* A request that notes the time has noted none that is ahead.
LEMMA NotesTime ==
  ASSUME HandleInv, NEW t \in Handles!Tabs
  PROVE  [tab[t] EXCEPT !.at = clock] \in TabStates /\ [tab[t] EXCEPT !.at = clock].at <= clock
  <1>1. clock \in 0..MaxClock /\ clock <= clock
    BY HandleBounds DEF HandleInv, Handles!TypeOK
  <1> QED BY <1>1, TabFields DEF TabStates

LEMMA CheckNameFits ==
  ASSUME HandleInv, NEW t \in Handles!Tabs, Handles!CheckName(t)
  PROVE  HandleInv'
  <1>1. UNCHANGED <<clock, Handles!tables, signedIn, Handles!issued, requests, Handles!history>>
    BY DEF Handles!CheckName
  <1>2. clock' = clock
    BY <1>1
  <1>3. /\ tab' \in [Handles!Tabs -> TabStates] /\ TimesAreOver'
        /\ temp' \in [Browsers -> 0..MaxSessions]
    <2>1. CASE Handles!Fails(t, tab[t])
      BY <1>2, <2>1, FailsFits
    <2>2. CASE Handles!Goes(t, [tab[t] EXCEPT !.at = clock], "upsert") /\ UNCHANGED temp
      <3>1. tab' \in [Handles!Tabs -> TabStates] /\ TimesAreOver'
        BY <1>2, <2>2, NotesTime, OneGoes
      <3> QED BY <2>2, <3>1 DEF HandleInv, Handles!TypeOK
    <2> QED BY <2>1, <2>2 DEF Handles!CheckName
  <1>4. Handles!TypeOK'
    BY <1>1, <1>3, HandlesFit, HandleBounds DEF HandleInv, Handles!TypeOK, Challenges,
       Handles!tables, Handles!issued, Handles!history
  <1>5. SignedInAreIssued' /\ PromisesStand'
    BY <1>1, SessionsStay, PromisesStay, HandleBounds DEF HandleInv, Handles!TypeOK,
       Handles!tables, Handles!issued, Handles!history
  <1> QED BY <1>3, <1>4, <1>5 DEF HandleInv

\* A reservation replaces none whose promise counts, and is promised itself if
\* the name is free.
LEMMA UpsertReservationFits ==
  ASSUME HandleInv, NEW t \in Handles!Tabs, Handles!UpsertReservation(t)
  PROVE  HandleInv'
  <1> DEFINE r == tab[t]
  <1>1. r \in TabStates /\ r.at <= clock
    BY TabFields
  <1>2. UNCHANGED <<clock, owner, handles, challenges, logins, signedIn, Handles!issued, requests,
                    shown, registered>>
    BY DEF Handles!UpsertReservation
  <1>3. CASE /\ Handles!Takeable(r.name, r.session, r.at)
             /\ reserved' = [reserved EXCEPT ![r.name] = [session |-> r.session, at |-> r.at]]
             /\ promise' = Handles!Promised(r.name, r.session, r.at)
             /\ Handles!Goes(t, r, "release")
             /\ UNCHANGED temp
    <2>1. tab' \in [Handles!Tabs -> TabStates] /\ TimesAreOver'
      BY <1>1, <1>2, <1>3, OneGoes
    <2>2. [session |-> r.session, at |-> r.at] \in Handles!Rows
      BY <1>1 DEF TabStates, Handles!Rows
    <2>3. reserved' \in [Names -> Handles!Rows] /\ promise' \in [Names -> Handles!Rows]
      BY <1>3, <2>2 DEF Handles!Promised, HandleInv, Handles!TypeOK
    <2>4. Handles!TypeOK'
      BY <1>2, <1>3, <2>1, <2>3, HandlesFit, HandleBounds DEF HandleInv, Handles!TypeOK,
         Challenges, Handles!issued
    <2>5. SignedInAreIssued'
      BY <1>2, SessionsStay, HandleBounds DEF HandleInv, Handles!TypeOK, Handles!issued
    <2>6. PromisesStand'
      <3> SUFFICES ASSUME NEW n \in Names, promise'[n].session # Handles!None,
                          clock - promise'[n].at < Lifetime
                   PROVE  reserved'[n] = promise'[n]
        BY <1>2 DEF PromisesStand
      <3>1. /\ reserved \in [Names -> Handles!Rows] /\ promise \in [Names -> Handles!Rows] /\ clock \in Nat
            /\ r.at \in Int /\ r.session \in Nat /\ reserved[n].at \in Int /\ promise[n].at \in Int
        BY <1>1, HandleBounds DEF HandleInv, Handles!TypeOK, TabStates, Handles!Rows, Handles!Long
      <3>2. PromisesStand
        BY DEF HandleInv
      <3>3. CASE n # r.name
        <4>1. reserved'[n] = reserved[n] /\ promise'[n] = promise[n]
          BY <1>3, <3>1, <3>3 DEF Handles!Promised
        <4> QED BY <3>2, <4>1 DEF PromisesStand
      <3>4. CASE n = r.name /\ promise' = promise
        <4>1. reserved[n] = promise[n]
          BY <3>2, <3>4 DEF PromisesStand
        <4>2. promise[n].session # r.session => reserved[n].at <= r.at - Lifetime
          BY <1>3, <3>4, <4>1 DEF Handles!Takeable
        <4>3. promise[n].session = r.session
          BY <1>1, <3>1, <3>4, <4>1, <4>2, HandleBounds
        <4>4. promise' = [promise EXCEPT ![n] = [session |-> r.session, at |-> r.at]]
          BY <1>3, <3>4, <4>3 DEF Handles!Promised
        <4> QED BY <1>3, <3>1, <3>4, <4>4
      <3>5. CASE n = r.name /\ promise' = [promise EXCEPT ![n] = [session |-> r.session, at |-> r.at]]
        BY <1>3, <3>1, <3>5
      <3> QED BY <1>3, <3>3, <3>4, <3>5 DEF Handles!Promised
    <2> QED BY <2>1, <2>4, <2>5, <2>6 DEF HandleInv
  <1>4. CASE Handles!Fails(t, r) /\ UNCHANGED <<reserved, promise>>
    <2>1. /\ tab' \in [Handles!Tabs -> TabStates] /\ TimesAreOver'
          /\ temp' \in [Browsers -> 0..MaxSessions]
      BY <1>2, <1>4, FailsFits
    <2>2. Handles!TypeOK'
      BY <1>2, <1>4, <2>1, HandlesFit, HandleBounds DEF HandleInv, Handles!TypeOK, Challenges,
         Handles!issued
    <2>3. SignedInAreIssued' /\ PromisesStand'
      BY <1>2, <1>4, SessionsStay, PromisesStay, HandleBounds DEF HandleInv, Handles!TypeOK,
         Handles!issued
    <2> QED BY <2>1, <2>2, <2>3 DEF HandleInv
  <1> QED BY <1>3, <1>4 DEF Handles!UpsertReservation

LEMMA ReleaseOthersFits ==
  ASSUME HandleInv, NEW t \in Handles!Tabs, Handles!ReleaseOthers(t)
  PROVE  HandleInv'
  <1>1. UNCHANGED <<clock, owner, handles, challenges, logins, Handles!cookies, Handles!issued,
                    requests,
                    shown, registered>>
    BY DEF Handles!ReleaseOthers
  <1>2. tab' \in [Handles!Tabs -> TabStates] /\ TimesAreOver'
    <2>1. CASE Handles!Goes(t, tab[t], "store")
      BY <1>1, <2>1, TabFields, OneGoes
    <2>2. CASE Handles!Goes(t, [tab[t] EXCEPT !.at = clock], "publish")
      BY <1>1, <2>2, NotesTime, OneGoes
    <2> QED BY <2>1, <2>2 DEF Handles!ReleaseOthers
  <1>3. reserved' \in [Names -> Handles!Rows] /\ promise' \in [Names -> Handles!Rows] /\ PromisesStand'
    <2>1. tab[t].session \in 0..MaxSessions
      BY TabFields DEF TabStates
    <2>2. Handles!Frees(tab[t].session, Names \ {tab[t].name})
      BY DEF Handles!ReleaseOthers
    <2> QED BY <1>1, <2>1, <2>2, BothAreDropped
  <1>4. Handles!TypeOK'
    BY <1>1, <1>2, <1>3, HandlesFit, HandleBounds DEF HandleInv, Handles!TypeOK, Challenges,
       Handles!cookies, Handles!issued
  <1>5. SignedInAreIssued'
    BY <1>1, SessionsStay, HandleBounds DEF HandleInv, Handles!TypeOK, Handles!cookies,
       Handles!issued
  <1> QED BY <1>2, <1>3, <1>4, <1>5 DEF HandleInv

LEMMA StoreChallengeFits ==
  ASSUME HandleInv, NEW t \in Handles!Tabs, Handles!StoreChallenge(t)
  PROVE  HandleInv'
  <1> DEFINE r == tab[t]
             a == accounts + 1
             next == [Handles!Idle EXCEPT !.op = "register", !.account = a]
  <1>1. r \in TabStates /\ Handles!Idle \in TabStates /\ Handles!Idle.at <= clock
    BY TabFields
  <1>2. /\ UNCHANGED <<clock, owner, reserved, handles, logins, signedIn, sessions, requests,
                       promise, registered>>
        /\ Handles!SetTemp(t, r.session)
    BY DEF Handles!StoreChallenge
  <1>3. temp' \in [Browsers -> 0..MaxSessions]
    BY <1>1, <1>2, SetTempFits DEF TabStates
  <1>4. /\ tab' \in [Handles!Tabs -> TabStates] /\ TimesAreOver'
        /\ accounts' \in 0..MaxAccounts
        /\ challenges' \in [Handles!Sessions -> Challenges]
        /\ shown' \in [Handles!Accounts -> Names \cup {Handles!NoName}]
    <2>1. CASE /\ a \in Handles!Accounts /\ accounts' = a
               /\ challenges' = [challenges EXCEPT ![r.session] = [account |-> a, at |-> clock]]
               /\ shown' = [shown EXCEPT ![a] = r.name]
               /\ Handles!Goes(t, next, "prompt")
      <3>1. a \in 0..MaxAccounts
        BY <2>1, HandleBounds DEF Handles!Accounts
      <3>2. next \in TabStates /\ next.at <= clock
        BY <1>1, <3>1 DEF TabStates, Handles!Idle
      <3> HIDE DEF next
      <3>3. tab' \in [Handles!Tabs -> TabStates] /\ TimesAreOver'
        BY <1>2, <2>1, <3>2, OneGoes
      <3>4. [account |-> a, at |-> clock] \in Challenges
        BY <3>1 DEF Challenges, HandleInv, Handles!TypeOK
      <3>5. challenges' \in [Handles!Sessions -> Challenges]
        BY <2>1, <3>4 DEF HandleInv, Handles!TypeOK, Challenges
      <3>6. shown' \in [Handles!Accounts -> Names \cup {Handles!NoName}]
        BY <1>1, <2>1 DEF HandleInv, Handles!TypeOK, TabStates
      <3> QED BY <2>1, <3>1, <3>3, <3>5, <3>6
    <2>2. CASE Handles!Ends(t) /\ UNCHANGED <<accounts, challenges, shown>>
      <3>1. tab' \in [Handles!Tabs -> TabStates] /\ TimesAreOver'
        BY <1>2, <2>2, OneEnds
      <3> QED BY <2>2, <3>1 DEF HandleInv, Handles!TypeOK, Challenges
    <2> QED BY <2>1, <2>2 DEF Handles!StoreChallenge
  <1>5. Handles!TypeOK'
    BY <1>2, <1>3, <1>4, HandlesFit, HandleBounds DEF HandleInv, Handles!TypeOK
  <1>6. SignedInAreIssued' /\ PromisesStand'
    BY <1>2, SessionsStay, PromisesStay, HandleBounds DEF HandleInv, Handles!TypeOK
  <1> QED BY <1>4, <1>5, <1>6 DEF HandleInv

LEMMA CancelPromptFits ==
  ASSUME HandleInv, NEW t \in Handles!Tabs, Handles!CancelPrompt(t)
  PROVE  HandleInv'
  <1>1. UNCHANGED <<clock, Handles!tables, Handles!cookies, Handles!issued, requests,
                    Handles!history>>
    BY DEF Handles!CancelPrompt
  <1>2. tab' \in [Handles!Tabs -> TabStates] /\ TimesAreOver'
    BY <1>1, OneEnds DEF Handles!CancelPrompt
  <1>3. Handles!TypeOK'
    BY <1>1, <1>2, HandlesFit, HandleBounds
       DEF HandleInv, Handles!TypeOK, Challenges, Handles!tables, Handles!cookies, Handles!issued,
          Handles!history
  <1>4. SignedInAreIssued' /\ PromisesStand'
    BY <1>1, SessionsStay, PromisesStay, HandleBounds
       DEF HandleInv, Handles!TypeOK, Handles!tables, Handles!cookies, Handles!issued,
          Handles!history
  <1> QED BY <1>2, <1>3, <1>4 DEF HandleInv

LEMMA ConfirmFits ==
  ASSUME HandleInv, NEW t \in Handles!Tabs, Handles!Confirm(t)
  PROVE  HandleInv'
  <1> DEFINE s == temp[Handles!Browser(t)]
             next == [tab[t] EXCEPT !.session = s]
  <1>1. /\ UNCHANGED <<clock, Handles!tables, signedIn, Handles!issued, Handles!history>>
        /\ requests' \in 0..MaxRequests
    BY HandleBounds DEF Handles!Confirm, Handles!Asks, HandleInv, Handles!TypeOK
  <1>2. /\ tab' \in [Handles!Tabs -> TabStates] /\ TimesAreOver'
        /\ temp' \in [Browsers -> 0..MaxSessions]
    <2>1. CASE Handles!Goes(t, next, "take") /\ UNCHANGED temp
      <3>1. next \in TabStates /\ next.at <= clock
        BY TabFields DEF TabStates
      <3> HIDE DEF next
      <3>2. tab' \in [Handles!Tabs -> TabStates] /\ TimesAreOver'
        BY <1>1, <2>1, <3>1, OneGoes
      <3> QED BY <2>1, <3>2 DEF HandleInv, Handles!TypeOK
    <2>2. CASE Handles!SetTemp(t, Handles!None) /\ Handles!Ends(t)
      <3>1. tab' \in [Handles!Tabs -> TabStates] /\ TimesAreOver'
        BY <1>1, <2>2, OneEnds
      <3>2. Handles!None \in 0..MaxSessions
        BY HandleBounds DEF Handles!None
      <3> QED BY <2>2, <3>1, <3>2, SetTempFits
    <2> QED BY <2>1, <2>2 DEF Handles!Confirm
  <1>3. Handles!TypeOK'
    BY <1>1, <1>2, HandlesFit, HandleBounds DEF HandleInv, Handles!TypeOK, Challenges,
       Handles!tables, Handles!issued, Handles!history
  <1>4. SignedInAreIssued' /\ PromisesStand'
    BY <1>1, SessionsStay, PromisesStay, HandleBounds DEF HandleInv, Handles!TypeOK,
       Handles!tables, Handles!issued, Handles!history
  <1> QED BY <1>2, <1>3, <1>4 DEF HandleInv

LEMMA NoChallengeFits == Handles!NoChallenge \in Challenges
  BY HandleBounds DEF Handles!NoChallenge, Challenges, Handles!None, Handles!Long

LEMMA TakeChallengeFits ==
  ASSUME HandleInv, NEW t \in Handles!Tabs, Handles!TakeChallenge(t)
  PROVE  HandleInv'
  <1>1. /\ UNCHANGED <<clock, owner, reserved, handles, logins, Handles!cookies, Handles!issued,
                       requests, Handles!history>>
        /\ challenges' = [challenges EXCEPT ![tab[t].session] = Handles!NoChallenge]
    BY DEF Handles!TakeChallenge
  <1>2. tab' \in [Handles!Tabs -> TabStates] /\ TimesAreOver'
    <2>1. CASE Handles!Goes(t, [tab[t] EXCEPT !.at = clock], "insert")
      BY <1>1, <2>1, NotesTime, OneGoes
    <2>2. CASE Handles!Ends(t)
      BY <1>1, <2>2, OneEnds
    <2> QED BY <2>1, <2>2 DEF Handles!TakeChallenge
  <1>3. challenges' \in [Handles!Sessions -> Challenges]
    BY <1>1, NoChallengeFits DEF HandleInv, Handles!TypeOK, Challenges
  <1>4. Handles!TypeOK'
    BY <1>1, <1>2, <1>3, HandlesFit, HandleBounds DEF HandleInv, Handles!TypeOK, Handles!cookies,
       Handles!issued, Handles!history
  <1>5. SignedInAreIssued' /\ PromisesStand'
    BY <1>1, SessionsStay, PromisesStay, HandleBounds DEF HandleInv, Handles!TypeOK,
       Handles!cookies, Handles!issued, Handles!history
  <1> QED BY <1>2, <1>4, <1>5 DEF HandleInv

LEMMA InsertHandleFits ==
  ASSUME HandleInv, NEW t \in Handles!Tabs, Handles!InsertHandle(t)
  PROVE  HandleInv'
  <1>1. UNCHANGED <<clock, owner, reserved, challenges, logins, Handles!cookies, Handles!issued,
                    requests,
                    promise, shown>>
    BY DEF Handles!InsertHandle
  <1>2. /\ tab' \in [Handles!Tabs -> TabStates] /\ TimesAreOver'
        /\ handles' \in [Names -> 0..MaxAccounts]
        /\ registered' \in [Handles!Accounts -> Names \cup {Handles!NoName}]
    <2>1. CASE \E n \in Handles!Insertable(tab[t].session, tab[t].at) :
                 /\ handles' = [handles EXCEPT ![n] = tab[t].account]
                 /\ registered' = [registered EXCEPT ![tab[t].account] = n]
                 /\ Handles!Goes(t, tab[t], "finish")
      <3>1. PICK n \in Names : /\ handles' = [handles EXCEPT ![n] = tab[t].account]
                               /\ registered' = [registered EXCEPT ![tab[t].account] = n]
                               /\ Handles!Goes(t, tab[t], "finish")
        BY <2>1 DEF Handles!Insertable
      <3>2. tab' \in [Handles!Tabs -> TabStates] /\ TimesAreOver'
        BY <1>1, <3>1, TabFields, OneGoes
      <3>3. tab[t].account \in 0..MaxAccounts
        BY TabFields DEF TabStates
      <3>4. /\ handles' \in [Names -> 0..MaxAccounts]
            /\ registered' \in [Handles!Accounts -> Names \cup {Handles!NoName}]
        BY <3>1, <3>3 DEF HandleInv, Handles!TypeOK
      <3> QED BY <3>2, <3>4
    <2>2. CASE Handles!Ends(t) /\ UNCHANGED <<handles, registered>>
      <3>1. tab' \in [Handles!Tabs -> TabStates] /\ TimesAreOver'
        BY <1>1, <2>2, OneEnds
      <3> QED BY <2>2, <3>1 DEF HandleInv, Handles!TypeOK
    <2> QED BY <2>1, <2>2 DEF Handles!InsertHandle
  <1>3. Handles!TypeOK'
    BY <1>1, <1>2, HandlesFit, HandleBounds DEF HandleInv, Handles!TypeOK, Challenges,
       Handles!cookies, Handles!issued
  <1>4. SignedInAreIssued' /\ PromisesStand'
    BY <1>1, SessionsStay, PromisesStay, HandleBounds DEF HandleInv, Handles!TypeOK,
       Handles!cookies, Handles!issued
  <1> QED BY <1>2, <1>3, <1>4 DEF HandleInv

\* What a session that ends leaves of the challenges and logins.
LEMMA DropsFits ==
  ASSUME HandleInv, NEW s \in 0..MaxSessions, Handles!Drops(s)
  PROVE  /\ challenges' \in [Handles!Sessions -> Challenges]
         /\ logins' \in [Handles!Sessions -> 0..MaxClock \cup {Handles!Long}]
  <1>1. Handles!Long \in 0..MaxClock \cup {Handles!Long}
    OBVIOUS
  <1> QED
    BY <1>1, NoChallengeFits DEF Handles!Drops, HandleInv, Handles!TypeOK, Challenges

LEMMA FinishPasskeyFits ==
  ASSUME HandleInv, NEW t \in Handles!Tabs, Handles!FinishPasskey(t)
  PROVE  HandleInv'
  <1> DEFINE s == sessions + 1
  <1>1. /\ UNCHANGED <<clock, handles, accounts, requests, shown, registered>>
        /\ sessions < MaxSessions /\ sessions' = s
        /\ Handles!Ends(t) /\ Handles!SetTemp(t, Handles!None)
        /\ owner' = [owner EXCEPT ![tab[t].session] = Handles!None, ![s] = tab[t].account]
        /\ Handles!Drops(tab[t].session)
        /\ signedIn' = [signedIn EXCEPT ![Handles!Browser(t)] = @ \cup {s}]
    BY DEF Handles!FinishPasskey
  <1>2. /\ tab[t].session \in 0..MaxSessions /\ tab[t].account \in Handles!Accounts \cup {Handles!None}
        /\ Handles!Browser(t) \in Browsers
    BY TabFields, HandleBounds DEF TabStates, Handles!Accounts, Handles!None
  <1>3. tab' \in [Handles!Tabs -> TabStates] /\ TimesAreOver'
    BY <1>1, OneEnds
  <1>4. temp' \in [Browsers -> 0..MaxSessions]
    BY <1>1, SetTempFits, HandleBounds DEF Handles!None
  <1>5. reserved' \in [Names -> Handles!Rows] /\ promise' \in [Names -> Handles!Rows] /\ PromisesStand'
    BY <1>1, <1>2, BothAreDropped
  <1>6. /\ challenges' \in [Handles!Sessions -> Challenges]
        /\ logins' \in [Handles!Sessions -> 0..MaxClock \cup {Handles!Long}]
    BY <1>1, <1>2, DropsFits
  <1>7. /\ s \in Handles!Sessions /\ sessions \in Nat /\ sessions' \in 0..MaxSessions
        /\ Handles!Temp # Handles!None /\ Handles!Temp \notin Handles!Accounts
    BY <1>1, HandleBounds DEF HandleInv, Handles!TypeOK, Handles!Sessions, Handles!Temp,
       Handles!None, Handles!Accounts
  <1> HIDE DEF s
  <1>8. /\ owner' \in [Handles!Sessions -> Handles!Accounts \cup {Handles!None, Handles!Temp}]
        /\ signedIn' \in [Browsers -> SUBSET Handles!Sessions]
    BY <1>1, <1>2, <1>7 DEF HandleInv, Handles!TypeOK
  <1>9. Handles!TypeOK'
    <2>1. UNCHANGED <<clock, handles, accounts, requests, shown, registered>>
      BY <1>1
    <2>2. /\ clock' \in 0..MaxClock /\ clock' >= clock /\ accounts' \in 0..MaxAccounts
          /\ handles' \in [Names -> 0..MaxAccounts] /\ requests' \in 0..MaxRequests
          /\ shown' \in [Handles!Accounts -> Names \cup {Handles!NoName}]
          /\ registered' \in [Handles!Accounts -> Names \cup {Handles!NoName}]
      BY <2>1, HandleBounds DEF HandleInv, Handles!TypeOK
    <2> QED BY <1>3, <1>4, <1>5, <1>6, <1>7, <1>8, <2>2, HandlesFit
  <1>10. SignedInAreIssued'
    <2> SUFFICES ASSUME NEW b \in Browsers, NEW x \in signedIn'[b]
                 PROVE  x <= sessions' /\ owner'[x] # Handles!Temp
      BY DEF SignedInAreIssued
    <2>1. CASE x = s
      BY <1>1, <1>2, <1>7, <2>1, HandleBounds DEF HandleInv, Handles!TypeOK, Handles!Sessions
    <2>2. CASE x # s
      <3>1. x \in signedIn[b] /\ x \in Handles!Sessions
        BY <1>1, <2>2 DEF HandleInv, Handles!TypeOK
      <3>2. x <= sessions /\ owner[x] # Handles!Temp
        BY <3>1 DEF HandleInv, SignedInAreIssued
      <3>3. owner'[x] \in {owner[x], Handles!None}
        BY <1>1, <2>2, <3>1 DEF HandleInv, Handles!TypeOK
      <3>4. sessions <= sessions' /\ sessions' \in Nat /\ x \in Nat
        BY <1>1, <1>7, <3>1, HandleBounds DEF s, Handles!Sessions
      <3> QED BY <1>7, <3>2, <3>3, <3>4
    <2> QED BY <2>1, <2>2
  <1> QED BY <1>3, <1>5, <1>9, <1>10 DEF HandleInv

LEMMA AskLoginFits ==
  ASSUME HandleInv, NEW t \in Handles!Tabs, Handles!AskLogin(t)
  PROVE  HandleInv'
  <1> DEFINE s == sessions + 1
             next == [Handles!Idle EXCEPT !.op = "login", !.asked = s]
  <1>1. /\ UNCHANGED <<clock, reserved, handles, challenges, signedIn, accounts, Handles!history>>
        /\ Handles!Opens(Handles!Temp) /\ logins' = [logins EXCEPT ![s] = clock]
        /\ Handles!SetTemp(t, s) /\ Handles!Goes(t, next, "prompt")
    BY DEF Handles!AskLogin
  <1>2. requests' \in 0..MaxRequests
    BY HandleBounds DEF Handles!AskLogin, Handles!Asks, HandleInv, Handles!TypeOK
  <1>3. /\ owner' \in [Handles!Sessions -> Handles!Accounts \cup {Handles!None, Handles!Temp}]
        /\ sessions' \in 0..MaxSessions /\ sessions' = s
        /\ \A x \in Handles!Sessions : x <= sessions => owner'[x] = owner[x]
    BY <1>1, OpensFits
  <1>4. next \in TabStates /\ next.at <= clock
    BY <1>3, TabFields DEF TabStates, Handles!Idle
  <1> HIDE DEF next
  <1>5. tab' \in [Handles!Tabs -> TabStates] /\ TimesAreOver'
    BY <1>1, <1>4, OneGoes
  <1>6. temp' \in [Browsers -> 0..MaxSessions]
    BY <1>1, <1>3, SetTempFits
  <1>7. logins' \in [Handles!Sessions -> 0..MaxClock \cup {Handles!Long}]
    BY <1>1 DEF HandleInv, Handles!TypeOK
  <1>8. Handles!TypeOK'
    <2>1. UNCHANGED <<clock, reserved, handles, challenges, signedIn, accounts, promise, shown,
                      registered>>
      BY <1>1 DEF Handles!history
    <2> QED BY <1>2, <1>3, <1>5, <1>6, <1>7, <2>1, HandlesFit, HandleBounds DEF HandleInv,
               Handles!TypeOK, Challenges
  <1>9. SignedInAreIssued' /\ PromisesStand'
    <2>1. UNCHANGED <<clock, reserved, signedIn, promise>> /\ sessions \in Nat /\ clock \in Nat
      BY <1>1, HandleBounds DEF Handles!history, HandleInv, Handles!TypeOK
    <2> QED BY <1>3, <2>1, SessionsStay, PromisesStay
  <1> QED BY <1>5, <1>8, <1>9 DEF HandleInv

LEMMA TakeLoginFits ==
  ASSUME HandleInv, NEW t \in Handles!Tabs, Handles!TakeLogin(t)
  PROVE  HandleInv'
  <1>1. /\ UNCHANGED <<clock, owner, reserved, handles, challenges, Handles!cookies,
                       Handles!issued, requests, Handles!history>>
        /\ logins' = [logins EXCEPT ![tab[t].session] = Handles!Long]
    BY DEF Handles!TakeLogin
  <1>2. tab' \in [Handles!Tabs -> TabStates] /\ TimesAreOver'
    <2>1. CASE \E a \in Handles!Accounts : Handles!Goes(t, [tab[t] EXCEPT !.account = a], "finish")
      <3>1. PICK a \in Handles!Accounts : Handles!Goes(t, [tab[t] EXCEPT !.account = a], "finish")
        BY <2>1
      <3>2. [tab[t] EXCEPT !.account = a] \in TabStates /\ [tab[t] EXCEPT !.account = a].at <= clock
        BY TabFields, HandleBounds DEF TabStates, Handles!Accounts
      <3> QED BY <1>1, <3>1, <3>2, OneGoes
    <2>2. CASE Handles!Ends(t)
      BY <1>1, <2>2, OneEnds
    <2> QED BY <2>1, <2>2 DEF Handles!TakeLogin
  <1>3. logins' \in [Handles!Sessions -> 0..MaxClock \cup {Handles!Long}]
    BY <1>1 DEF HandleInv, Handles!TypeOK
  <1>4. Handles!TypeOK'
    BY <1>1, <1>2, <1>3, HandlesFit, HandleBounds DEF HandleInv, Handles!TypeOK, Challenges,
       Handles!cookies, Handles!issued, Handles!history
  <1>5. SignedInAreIssued' /\ PromisesStand'
    BY <1>1, SessionsStay, PromisesStay, HandleBounds DEF HandleInv, Handles!TypeOK,
       Handles!cookies, Handles!issued, Handles!history
  <1> QED BY <1>2, <1>4, <1>5 DEF HandleInv

LEMMA LogoutFits ==
  ASSUME HandleInv, NEW b \in Browsers, NEW s \in Handles!Sessions, Handles!Logout(b, s)
  PROVE  HandleInv'
  <1>1. /\ UNCHANGED <<clock, handles, temp, Handles!issued, tab, shown, registered>>
        /\ signedIn' = [signedIn EXCEPT ![b] = @ \ {s}]
        /\ owner' = [owner EXCEPT ![s] = Handles!None] /\ Handles!Drops(s)
    BY DEF Handles!Logout
  <1>2. requests' \in 0..MaxRequests
    BY HandleBounds DEF Handles!Logout, HandleInv, Handles!TypeOK
  <1>3. s \in 0..MaxSessions
    BY HandleBounds DEF Handles!Sessions
  <1>4. reserved' \in [Names -> Handles!Rows] /\ promise' \in [Names -> Handles!Rows] /\ PromisesStand'
    BY <1>1, <1>3, BothAreDropped
  <1>5. /\ challenges' \in [Handles!Sessions -> Challenges]
        /\ logins' \in [Handles!Sessions -> 0..MaxClock \cup {Handles!Long}]
    BY <1>1, <1>3, DropsFits
  <1>6. /\ owner' \in [Handles!Sessions -> Handles!Accounts \cup {Handles!None, Handles!Temp}]
        /\ signedIn' \in [Browsers -> SUBSET Handles!Sessions]
    BY <1>1 DEF HandleInv, Handles!TypeOK
  <1>7. TimesAreOver'
    BY <1>1 DEF HandleInv, TimesAreOver
  <1>8. Handles!TypeOK'
    <2>1. UNCHANGED <<clock, handles, temp, sessions, accounts, tab, shown, registered>>
      BY <1>1 DEF Handles!issued
    <2>2. tab' \in [Handles!Tabs -> TabStates]
      BY <2>1 DEF HandleInv, Handles!TypeOK, TabStates
    <2> QED BY <1>2, <1>4, <1>5, <1>6, <2>1, <2>2, HandlesFit, HandleBounds DEF HandleInv,
               Handles!TypeOK
  <1>9. SignedInAreIssued'
    <2> SUFFICES ASSUME NEW o \in Browsers, NEW x \in signedIn'[o]
                 PROVE  x <= sessions' /\ owner'[x] # Handles!Temp
      BY DEF SignedInAreIssued
    <2>1. x \in signedIn[o] /\ x \in Handles!Sessions /\ sessions' = sessions
      BY <1>1 DEF Handles!issued, HandleInv, Handles!TypeOK
    <2>2. x <= sessions /\ owner[x] # Handles!Temp
      BY <2>1 DEF HandleInv, SignedInAreIssued
    <2> QED BY <1>1, <2>1, <2>2 DEF Handles!None, Handles!Temp, HandleInv, Handles!TypeOK
  <1> QED BY <1>4, <1>7, <1>8, <1>9 DEF HandleInv

LEMMA PublishFits ==
  ASSUME HandleInv, NEW t \in Handles!Tabs, Handles!Publish(t)
  PROVE  HandleInv'
  <1>1. UNCHANGED <<clock, Handles!tables, Handles!cookies, Handles!issued, requests,
                    Handles!history>>
    BY DEF Handles!Publish
  <1>2. tab' \in [Handles!Tabs -> TabStates] /\ TimesAreOver'
    BY <1>1, TabFields, OneGoes DEF Handles!Publish
  <1>3. Handles!TypeOK'
    BY <1>1, <1>2, HandlesFit, HandleBounds
       DEF HandleInv, Handles!TypeOK, Challenges, Handles!tables, Handles!cookies, Handles!issued,
          Handles!history
  <1>4. SignedInAreIssued' /\ PromisesStand'
    BY <1>1, SessionsStay, PromisesStay, HandleBounds
       DEF HandleInv, Handles!TypeOK, Handles!tables, Handles!cookies, Handles!issued,
          Handles!history
  <1> QED BY <1>2, <1>3, <1>4 DEF HandleInv

LEMMA ReplaceHandleFits ==
  ASSUME HandleInv, NEW t \in Handles!Tabs, Handles!ReplaceHandle(t)
  PROVE  HandleInv'
  <1>1. UNCHANGED <<clock, owner, reserved, challenges, logins, Handles!cookies, Handles!issued,
                    requests, Handles!history>>
    BY DEF Handles!ReplaceHandle
  <1>2. tab' \in [Handles!Tabs -> TabStates] /\ TimesAreOver'
    BY <1>1, TabFields, OneGoes DEF Handles!ReplaceHandle
  <1>3. handles' \in [Names -> 0..MaxAccounts]
    <2>1. tab[t].account \in 0..MaxAccounts /\ Handles!None \in 0..MaxAccounts
      BY TabFields, HandleBounds DEF TabStates, Handles!None
    <2>2. handles \in [Names -> 0..MaxAccounts]
      BY DEF HandleInv, Handles!TypeOK
    <2> QED BY <2>1, <2>2 DEF Handles!ReplaceHandle
  <1>4. Handles!TypeOK'
    BY <1>1, <1>2, <1>3, HandlesFit, HandleBounds DEF HandleInv, Handles!TypeOK, Challenges,
       Handles!cookies, Handles!issued, Handles!history
  <1>5. SignedInAreIssued' /\ PromisesStand'
    BY <1>1, SessionsStay, PromisesStay, HandleBounds DEF HandleInv, Handles!TypeOK,
       Handles!cookies, Handles!issued, Handles!history
  <1> QED BY <1>2, <1>4, <1>5 DEF HandleInv

LEMMA FreeReservationFits ==
  ASSUME HandleInv, NEW t \in Handles!Tabs, Handles!FreeReservation(t)
  PROVE  HandleInv'
  <1>1. UNCHANGED <<clock, owner, handles, challenges, logins, Handles!cookies, Handles!issued,
                    requests,
                    shown, registered>>
    BY DEF Handles!FreeReservation
  <1>2. tab' \in [Handles!Tabs -> TabStates] /\ TimesAreOver'
    BY <1>1, OneEnds DEF Handles!FreeReservation
  <1>3. reserved' \in [Names -> Handles!Rows] /\ promise' \in [Names -> Handles!Rows] /\ PromisesStand'
    <2>1. tab[t].session \in 0..MaxSessions
      BY TabFields DEF TabStates
    <2>2. Handles!Frees(tab[t].session, {tab[t].name})
      BY DEF Handles!FreeReservation
    <2>3. Handles!Frees(tab[t].session, Names \cap {tab[t].name})
      BY <2>2 DEF Handles!Frees
    <2> QED BY <1>1, <2>1, <2>3, BothAreDropped
  <1>4. Handles!TypeOK'
    BY <1>1, <1>2, <1>3, HandlesFit, HandleBounds DEF HandleInv, Handles!TypeOK, Challenges,
       Handles!cookies, Handles!issued
  <1>5. SignedInAreIssued'
    BY <1>1, SessionsStay, HandleBounds DEF HandleInv, Handles!TypeOK, Handles!cookies,
       Handles!issued
  <1> QED BY <1>2, <1>3, <1>4, <1>5 DEF HandleInv

LEMMA TickFits ==
  ASSUME HandleInv, Handles!Tick
  PROVE  HandleInv'
  <1>1. UNCHANGED <<Handles!tables, Handles!cookies, Handles!issued, tab, requests,
                    Handles!history>>
    BY DEF Handles!Tick
  <1>2. clock' \in 0..MaxClock /\ clock' >= clock /\ clock' \in Nat
    BY HandleBounds DEF Handles!Tick, HandleInv, Handles!TypeOK
  <1>3. tab' \in [Handles!Tabs -> TabStates]
    BY <1>1 DEF HandleInv, Handles!TypeOK, TabStates
  <1>4. TimesAreOver'
    BY <1>1, <1>2, HandleBounds DEF HandleInv, TimesAreOver, Handles!TypeOK, Handles!Long
  <1>5. Handles!TypeOK'
    BY <1>1, <1>2, <1>3, HandlesFit
       DEF HandleInv, Handles!TypeOK, Challenges, Handles!tables, Handles!cookies, Handles!issued,
          Handles!history
  <1>6. SignedInAreIssued' /\ PromisesStand'
    BY <1>1, <1>2, SessionsStay, PromisesStay, HandleBounds
       DEF HandleInv, Handles!TypeOK, Handles!tables, Handles!cookies, Handles!issued,
          Handles!history
  <1> QED BY <1>4, <1>5, <1>6 DEF HandleInv

LEMMA StutterFits ==
  ASSUME HandleInv, UNCHANGED Handles!vars
  PROVE  HandleInv'
  BY DEF HandleInv, Handles!TypeOK, SignedInAreIssued, TimesAreOver, PromisesStand,
         Handles!vars, Handles!tables, Handles!cookies, Handles!issued, Handles!history,
         Handles!Rows

LEMMA NextHandles == HandleInv /\ [Handles!Next]_(Handles!vars) => HandleInv'
  <1> SUFFICES ASSUME HandleInv, [Handles!Next]_(Handles!vars) PROVE HandleInv'
    OBVIOUS
  <1>1. CASE \E t \in Handles!Tabs : Handles!Register(t)
    BY <1>1, AskRegistrationFits, StoreChallengeFits, CancelPromptFits, ConfirmFits,
       TakeChallengeFits, InsertHandleFits, FinishPasskeyFits DEF Handles!Register
  <1>2. CASE \E t \in Handles!Tabs : Handles!Reserve(t)
    BY <1>2, CheckNameFits, UpsertReservationFits, ReleaseOthersFits DEF Handles!Reserve
  <1>3. CASE \E t \in Handles!Tabs : Handles!Login(t)
    BY <1>3, AskLoginFits, TakeLoginFits DEF Handles!Login
  <1>4. CASE \E t \in Handles!Tabs : Handles!Change(t)
    BY <1>4, AskChangeFits, PublishFits, ReplaceHandleFits, FreeReservationFits DEF Handles!Change
  <1>5. CASE \E b \in Browsers, s \in Handles!Sessions : Handles!Logout(b, s)
    BY <1>5, LogoutFits
  <1>6. CASE Handles!Tick
    BY <1>6, TickFits
  <1>7. CASE UNCHANGED Handles!vars
    BY <1>7, StutterFits
  <1> QED BY <1>1, <1>2, <1>3, <1>4, <1>5, <1>6, <1>7 DEF Handles!Next

\* Tables, cookies and requests hold what the code can store.
THEOREM HandleTypes == Handles!Spec => []Handles!TypeOK
  <1>1. HandleInv => Handles!TypeOK
    BY DEF HandleInv
  <1> QED BY InitHandles, NextHandles, <1>1, PTL DEF Handles!Spec

\* Who inserts a name whose promise counts has its reservation.
LEMMA InsertersArePromised ==
  ASSUME HandleInv, NEW t \in Handles!Tabs, NEW n \in Handles!Insertable(tab[t].session, tab[t].at),
         promise[n].session # Handles!None, clock - promise[n].at < Lifetime
  PROVE  tab[t].session = promise[n].session
  BY DEF HandleInv, PromisesStand, Handles!Insertable

\* Two statements give an account a handle.
LEMMA TwoStatementsGiveHandles ==
  ASSUME Handles!Next, handles' # handles
  PROVE  \E t \in Handles!Tabs : Handles!InsertHandle(t) \/ Handles!ReplaceHandle(t)
  <1>1. CASE \E t \in Handles!Tabs : Handles!Register(t)
    <2>1. PICK t \in Handles!Tabs : Handles!Register(t)
      BY <1>1
    <2>2. CASE Handles!InsertHandle(t)
      BY <2>2
    <2>3. CASE (\E n \in Names : Handles!AskRegistration(t, n)) \/ Handles!CancelPrompt(t)
      BY <2>3 DEF Handles!AskRegistration, Handles!CancelPrompt, Handles!tables
    <2>4. CASE Handles!StoreChallenge(t) \/ Handles!FinishPasskey(t)
      BY <2>4 DEF Handles!StoreChallenge, Handles!FinishPasskey
    <2>5. CASE Handles!Confirm(t)
      BY <2>5 DEF Handles!Confirm, Handles!tables
    <2>6. CASE Handles!TakeChallenge(t)
      BY <2>6 DEF Handles!TakeChallenge
    <2> QED
      BY <2>1, <2>2, <2>3, <2>4, <2>5, <2>6 DEF Handles!Register
  <1>2. ASSUME NEW t \in Handles!Tabs PROVE ~ Handles!Reserve(t)
    <2>1. ~ Handles!CheckName(t) /\ ~ Handles!ReleaseOthers(t)
      BY DEF Handles!CheckName, Handles!ReleaseOthers, Handles!tables
    <2>2. ~ Handles!UpsertReservation(t)
      BY DEF Handles!UpsertReservation
    <2> QED
      BY <2>1, <2>2 DEF Handles!Reserve
  <1>3. ASSUME NEW t \in Handles!Tabs PROVE ~ Handles!Login(t)
    BY DEF Handles!Login, Handles!AskLogin, Handles!TakeLogin
  <1>4. CASE \E t \in Handles!Tabs : Handles!Change(t)
    <2>1. PICK t \in Handles!Tabs : Handles!Change(t)
      BY <1>4
    <2>2. CASE Handles!ReplaceHandle(t)
      BY <2>2
    <2>3. CASE (\E u \in Handles!Sessions, n \in Names : Handles!AskChange(t, u, n)) \/ Handles!Publish(t)
      BY <2>3 DEF Handles!AskChange, Handles!Publish, Handles!tables
    <2>4. CASE Handles!FreeReservation(t)
      BY <2>4 DEF Handles!FreeReservation
    <2> QED
      BY <2>1, <2>2, <2>3, <2>4 DEF Handles!Change
  <1>5. /\ ~ \E b \in Browsers, u \in Handles!Sessions : Handles!Logout(b, u)
        /\ ~ Handles!Tick
    BY DEF Handles!Logout, Handles!Tick, Handles!tables
  <1> QED
    BY <1>1, <1>2, <1>3, <1>4, <1>5 DEF Handles!Next
\* Whatever tabs and accounts ask for a name, and however late a statement runs:
\* a name that is promised goes to nobody else.
THEOREM NobodyIsScooped == Handles!Spec => NotScooped
  <1>1. HandleInv /\ [Handles!Next]_(Handles!vars) =>
          [\A n \in Names :
             /\ handles[n] = Handles!None /\ handles'[n] # Handles!None
             /\ promise[n].session # Handles!None /\ clock - promise[n].at < Lifetime
             => \E t \in Handles!Tabs : /\ tab'[t] # tab[t]
                                        /\ tab[t].pc \in {"insert", "replace"}
                                        /\ tab[t].session = promise[n].session]_(Handles!vars)
    <2> SUFFICES ASSUME HandleInv, Handles!Next, NEW n \in Names,
                        handles[n] = Handles!None, handles'[n] # Handles!None,
                        promise[n].session # Handles!None, clock - promise[n].at < Lifetime
                 PROVE  \E t \in Handles!Tabs : /\ tab'[t] # tab[t]
                                                /\ tab[t].pc \in {"insert", "replace"}
                                                /\ tab[t].session = promise[n].session
      OBVIOUS
    <2>1. PICK t \in Handles!Tabs : Handles!InsertHandle(t) \/ Handles!ReplaceHandle(t)
      BY TwoStatementsGiveHandles
    <2>2. /\ tab[t] \in TabStates /\ tab \in [Handles!Tabs -> TabStates]
          /\ handles \in [Names -> 0..MaxAccounts]
      BY DEF HandleInv, Handles!TypeOK, TabStates
    <2>3. CASE Handles!InsertHandle(t)
      <3>1. PICK m \in Handles!Insertable(tab[t].session, tab[t].at) :
              handles' = [handles EXCEPT ![m] = tab[t].account] /\ Handles!Goes(t, tab[t], "finish")
        BY <2>3 DEF Handles!InsertHandle
      <3>2. m = n
        BY <2>2, <3>1 DEF Handles!Insertable
      <3>3. tab[t].pc = "insert" /\ tab'[t].pc = "finish"
        BY <2>2, <2>3, <3>1 DEF Handles!InsertHandle, Handles!Goes, TabStates
      <3> QED BY <3>1, <3>2, <3>3, InsertersArePromised
    <2>4. CASE Handles!ReplaceHandle(t)
      <3>1. n = tab[t].name /\ n \in Handles!Insertable(tab[t].session, tab[t].at)
        BY <2>2, <2>4 DEF Handles!ReplaceHandle
      <3>2. tab[t].pc = "replace" /\ tab'[t].pc = "free"
        BY <2>2, <2>4 DEF Handles!ReplaceHandle, Handles!Goes, TabStates
      <3> QED BY <3>1, <3>2, InsertersArePromised
    <2> QED BY <2>1, <2>3, <2>4
  <1> QED BY InitHandles, NextHandles, <1>1, PTL DEF Handles!Spec, NotScooped, Handles!NotScooped

-----------------------------------------------------------------------------
(* The logins of a browser.                                                *)

Windows ==
  [page : {"closed", "starting", "open"}, access : BOOLEAN, leaving : BOOLEAN, dialog : BOOLEAN,
   mine : SUBSET Browser!Logins, current : Browser!Attempts \cup {Browser!NoAttempt},
   progress : Browser!Progress, active : Browser!Attempts \cup {Browser!NoAttempt},
   activeState : Browser!States \cup {Browser!NoState}, tasks : SUBSET Browser!Tasks,
   told : [Actors -> Browser!Logins \cup {Browser!None}]]

\* A list has one login of an actor at most.
OneEach(S) == \A l, m \in S : l.actor = m.actor => l = m
IsList(S) == S \subseteq Browser!Logins /\ OneEach(S)

\* Attempts that are under way, or away, have begun.
Working == {"login", "resolve", "configure", "grant"}
Began(w, n) ==
  /\ w.current <= n
  /\ \A k \in w.tasks : k.kind \in Working => k.attempt <= n
  /\ w.dialog => w.current # Browser!NoAttempt

WindowsFit ==
  /\ window \in [Tabs -> Windows]
  /\ \A t \in Tabs : IsList(window[t].mine) /\ Began(window[t], attempts)
CookieFits == cookie # Undefined => IsList(cookie)
CopiesFit ==
  /\ local \in [Sites -> SUBSET Browser!Logins]
  /\ \A s \in Sites : IsList(local[s])
SavedFits == saved \in [Sites -> [Browser!Attempts -> Browser!Progress \cup {Browser!NotSaved}]]
AwayFits ==
  /\ oauth \in [Sites -> SUBSET Browser!States]
  /\ \A s \in Sites : \A o \in oauth[s] : o.attempt <= attempts
  /\ visiting \subseteq Browser!Attempts /\ \A n \in visiting : n <= attempts
HistoriesFit ==
  /\ attempts \in 0..MaxAttempts /\ revoked \subseteq Browser!Tokens
  /\ due \subseteq Browser!Logins /\ late \subseteq Browser!Logins
BrowserFits ==
  WindowsFit /\ CookieFits /\ CopiesFit /\ SavedFits /\ AwayFits /\ HistoriesFit

-----------------------------------------------------------------------------
(* What logins, progress and tasks are.                                    *)

LEMMA AttemptNumbers ==
  /\ Browser!Attempts \subseteq Nat \ {0} /\ Browser!NoAttempt = 0
  /\ \A n \in 0..MaxAttempts : n # 0 => n \in Browser!Attempts
  BY BoundIsNatural DEF Browser!Attempts, Browser!NoAttempt

LEMMA StateIs ==
  ASSUME NEW n \in Browser!Attempts, NEW a \in Actors, NEW i \in 1..Providers[a]
  PROVE  [attempt |-> n, provider |-> i, actor |-> a] \in Browser!States
  BY DEF Browser!States

LEMMA StateHas ==
  ASSUME NEW s \in Browser!States
  PROVE  /\ s.attempt \in Browser!Attempts /\ s.actor \in Actors
         /\ s.provider \in 1..Providers[s.actor]
         /\ s = [attempt |-> s.attempt, provider |-> s.provider, actor |-> s.actor]
  BY DEF Browser!States

LEMMA LoginHas ==
  ASSUME NEW l \in Browser!Logins
  PROVE  /\ l.actor \in Actors /\ l.tokens \in [1..Providers[l.actor] -> Browser!Tokens]
         /\ l = [actor |-> l.actor, tokens |-> l.tokens]
  BY DEF Browser!Logins

LEMMA LoginIs ==
  ASSUME NEW a \in Actors, NEW x \in [1..Providers[a] -> Browser!Tokens]
  PROVE  [actor |-> a, tokens |-> x] \in Browser!Logins
  BY DEF Browser!Logins

LEMMA NoneIsNoLogin == Browser!None \notin Browser!Logins
  BY LoginHas, MarkersAreNoActors DEF Browser!None

\* The tokens of an actor whose login is not complete.
Partial(a) == UNION {[1..i -> Browser!Tokens] : i \in 0..Providers[a] - 1}

LEMMA ProgressCases ==
  \A p : p \in Browser!Progress <=>
        p = Browser!None \/ \E a \in Actors : p \in [actor : {a}, tokens : Partial(a)]
  <1> DEFINE S(a) == [actor : {a}, tokens : Partial(a)]
             all == {S(a) : a \in Actors}
  <1>1. Browser!Progress = {Browser!None} \cup (UNION all)
    BY DEF Browser!Progress, Partial
  <1>2. \A p : p \in Browser!Progress <=> p = Browser!None \/ \E Y \in all : p \in Y
    <2> HIDE DEF all
    <2> QED BY <1>1
  <1>3. \A p : (\E Y \in all : p \in Y) <=> \E a \in Actors : p \in S(a)
    <2> HIDE DEF S
    <2> QED OBVIOUS
  <1> QED BY <1>2, <1>3

LEMMA PartialIs ==
  \A a, x : x \in Partial(a) <=> \E i \in 0..(Providers[a] - 1) : x \in [1..i -> Browser!Tokens]
  BY Zenon DEF Partial

LEMMA ProgressIs ==
  ASSUME NEW a \in Actors, NEW i \in 0..(Providers[a] - 1), NEW x \in [1..i -> Browser!Tokens]
  PROVE  [actor |-> a, tokens |-> x] \in Browser!Progress
  <1>1. x \in Partial(a)
    BY PartialIs
  <1> QED BY <1>1, ProgressCases

LEMMA NoneIsProgress == Browser!None \in Browser!Progress
  BY ProgressCases

LEMMA ProgressHas ==
  ASSUME NEW p \in Browser!Progress, p # Browser!None
  PROVE  /\ p.actor \in Actors /\ p = [actor |-> p.actor, tokens |-> p.tokens]
         /\ \E i \in 0..(Providers[p.actor] - 1) : p.tokens \in [1..i -> Browser!Tokens]
  <1>1. PICK a \in Actors : p \in [actor : {a}, tokens : Partial(a)]
    BY ProgressCases
  <1>2. p.actor = a /\ p.tokens \in Partial(a) /\ p = [actor |-> p.actor, tokens |-> p.tokens]
    BY <1>1
  <1> QED BY <1>2, PartialIs

LEMMA TokensCount ==
  ASSUME NEW i \in Nat, NEW S, NEW x \in [1..i -> S]
  PROVE  x \in Seq(S) /\ Len(x) = i
  OBVIOUS

LEMMA TokensOf ==
  ASSUME NEW S, NEW x \in Seq(S)
  PROVE  x \in [1..Len(x) -> S]
  OBVIOUS

LEMMA Successors == \A n \in Nat : \A i \in 0..(n - 1) : i + 1 < n => i + 1 \in 0..(n - 1)
  OBVIOUS

\* A token more is a login or the progress to it.
LEMMA ProgressGrows ==
  ASSUME NEW p \in Browser!Progress, p.actor # NoActor, NEW x \in Browser!Tokens,
         NEW q, q = [p EXCEPT !.tokens = Append(@, x)]
  PROVE  /\ q.actor = p.actor /\ p.actor \in Actors /\ p.tokens \in Seq(Browser!Tokens)
         /\ Len(p.tokens) \in Nat /\ Len(p.tokens) < Providers[p.actor]
         /\ q.tokens = Append(p.tokens, x) /\ Len(q.tokens) = Len(p.tokens) + 1
         /\ Len(q.tokens) = Providers[p.actor] => q \in Browser!Logins
         /\ Len(q.tokens) < Providers[p.actor] => q \in Browser!Progress
  <1>1. /\ p.actor \in Actors /\ p = [actor |-> p.actor, tokens |-> p.tokens]
        /\ Providers[p.actor] \in Nat \ {0}
    BY ProgressHas, ProvidersExist DEF Browser!None
  <1>2. PICK i \in 0..(Providers[p.actor] - 1) : p.tokens \in [1..i -> Browser!Tokens]
    BY ProgressHas DEF Browser!None
  <1>3. p.tokens \in Seq(Browser!Tokens) /\ Len(p.tokens) = i
    BY <1>2, TokensCount
  <1>4. q = [actor |-> p.actor, tokens |-> Append(p.tokens, x)]
    BY <1>1
  <1>5. /\ Append(p.tokens, x) \in [1..(i + 1) -> Browser!Tokens]
        /\ Len(Append(p.tokens, x)) = i + 1
    <2>1. Append(p.tokens, x) \in Seq(Browser!Tokens) /\ Len(Append(p.tokens, x)) = i + 1
      BY <1>3
    <2> QED BY <2>1, TokensOf
  <1>6. i + 1 = Providers[p.actor] => q \in Browser!Logins
    <2>1. \A y \in [1..Providers[p.actor] -> Browser!Tokens] :
            [actor |-> p.actor, tokens |-> y] \in Browser!Logins
      BY <1>1, LoginIs
    <2>2. ASSUME i + 1 = Providers[p.actor]
          PROVE  Append(p.tokens, x) \in [1..Providers[p.actor] -> Browser!Tokens]
      BY <1>5, <2>2
    <2> QED BY <1>4, <2>1, <2>2
  <1>7. i + 1 < Providers[p.actor] => q \in Browser!Progress
    <2>1. Providers[p.actor] \in Nat /\ i \in 0..(Providers[p.actor] - 1)
      BY <1>1
    <2>2. i + 1 < Providers[p.actor] => i + 1 \in 0..(Providers[p.actor] - 1)
      BY <2>1, Successors
    <2>3. \A j \in 0..(Providers[p.actor] - 1) : \A y \in [1..j -> Browser!Tokens] :
            [actor |-> p.actor, tokens |-> y] \in Browser!Progress
      BY <1>1, ProgressIs
    <2> QED BY <1>4, <1>5, <2>2, <2>3
  <1> QED BY <1>1, <1>2, <1>3, <1>4, <1>5, <1>6, <1>7

LEMMA TaskCases ==
  \A k : k \in Browser!Tasks <=>
        \/ k \in [kind : {"login", "resolve"}, attempt : Browser!Attempts, actor : Actors]
        \/ \E a \in Actors : k \in [kind : {"configure", "grant"}, attempt : Browser!Attempts,
                                   provider : 1..Providers[a], actor : {a}]
        \/ k \in [kind : {"use", "revoke"}, login : Browser!Logins]
  <1> DEFINE S(a) == [kind : {"configure", "grant"}, attempt : Browser!Attempts,
                      provider : 1..Providers[a], actor : {a}]
             asks == [kind : {"login", "resolve"}, attempt : Browser!Attempts, actor : Actors]
             uses == [kind : {"use", "revoke"}, login : Browser!Logins]
             all == {S(a) : a \in Actors}
  <1>1. Browser!Tasks = asks \cup uses \cup (UNION all)
    BY DEF Browser!Tasks
  <1>2. \A k : k \in Browser!Tasks <=> k \in asks \/ (\E Y \in all : k \in Y) \/ k \in uses
    <2> HIDE DEF all, asks, uses
    <2> QED BY <1>1
  <1>3. \A k : (\E Y \in all : k \in Y) <=> \E a \in Actors : k \in S(a)
    <2> HIDE DEF S
    <2> QED OBVIOUS
  <1> QED BY <1>2, <1>3

LEMMA TaskHas ==
  ASSUME NEW k \in Browser!Tasks
  PROVE  /\ k.kind \in {"login", "resolve"} =>
              /\ k.attempt \in Browser!Attempts /\ k.actor \in Actors
              /\ k = [kind |-> k.kind, attempt |-> k.attempt, actor |-> k.actor]
         /\ k.kind \in {"configure", "grant"} =>
              /\ k.attempt \in Browser!Attempts /\ k.actor \in Actors
              /\ k.provider \in 1..Providers[k.actor]
              /\ k = [kind |-> k.kind, attempt |-> k.attempt, provider |-> k.provider,
                      actor |-> k.actor]
         /\ k.kind \in {"use", "revoke"} => k.login \in Browser!Logins
  BY TaskCases

LEMMA TaskIs ==
  /\ \A n \in Browser!Attempts, a \in Actors, d \in {"login", "resolve"} :
       [kind |-> d, attempt |-> n, actor |-> a] \in Browser!Tasks
  /\ \A n \in Browser!Attempts, a \in Actors : \A i \in 1..Providers[a] :
       \A d \in {"configure", "grant"} :
         [kind |-> d, attempt |-> n, provider |-> i, actor |-> a] \in Browser!Tasks
  /\ \A l \in Browser!Logins, d \in {"use", "revoke"} :
       [kind |-> d, login |-> l] \in Browser!Tasks
  BY TaskCases

-----------------------------------------------------------------------------
(* The types.                                                              *)

\* Tab t shows w now.
Shows(t, w) ==
  /\ w \in Windows /\ IsList(w.mine) /\ Began(w, attempts')
  /\ window' = [window EXCEPT ![t] = w]

LEMMA WindowsStay ==
  ASSUME BrowserFits, NEW t \in Tabs, NEW w, Shows(t, w), HistoriesFit', attempts <= attempts'
  PROVE  WindowsFit'
  <1>1. /\ window \in [Tabs -> Windows] /\ w \in Windows
        /\ window' = [window EXCEPT ![t] = w]
    BY DEF BrowserFits, WindowsFit, Shows
  <1>2. window' \in [Tabs -> Windows] /\ window'[t] = w /\ \A u \in Tabs \ {t} : window'[u] = window[u]
    BY <1>1
  <1>3. ASSUME NEW u \in Tabs \ {t} PROVE Began(window[u], attempts')
    <2>1. /\ attempts \in Nat /\ attempts' \in Nat /\ window[u] \in Windows
          /\ Began(window[u], attempts)
      BY BoundIsNatural DEF BrowserFits, WindowsFit, HistoriesFit
    <2>2. \A n \in Browser!Attempts \cup {Browser!NoAttempt} : n <= attempts => n <= attempts'
      BY <2>1, AttemptNumbers
    <2>3. \A k \in window[u].tasks : k.kind \in Working => k.attempt \in Browser!Attempts
      BY <2>1, TaskHas DEF Windows, Working
    <2> QED BY <2>1, <2>2, <2>3 DEF Began, Windows
  <1> QED BY <1>2, <1>3 DEF WindowsFit, Shows, BrowserFits

LEMMA WindowHas ==
  ASSUME BrowserFits, NEW t \in Tabs
  PROVE  /\ window[t] \in Windows /\ window[t].mine \in SUBSET Browser!Logins
         /\ IsList(window[t].mine)
         /\ Began(window[t], attempts) /\ SiteOf[t] \in Sites
         /\ window[t].tasks \subseteq Browser!Tasks
         /\ window[t].current \in Browser!Attempts \cup {Browser!NoAttempt}
         /\ window[t].progress \in Browser!Progress
         /\ local[SiteOf[t]] \in SUBSET Browser!Logins /\ IsList(local[SiteOf[t]])
         /\ attempts \in Nat
  BY SitesOfTabs, BoundIsNatural DEF BrowserFits, WindowsFit, CopiesFit, HistoriesFit, Windows, IsList

LEMMA ClosedFits ==
  /\ Browser!Closed \in Windows /\ IsList(Browser!Closed.mine)
  /\ \A n \in Nat : Began(Browser!Closed, n)
  BY NoneIsProgress, AttemptNumbers DEF Browser!Closed, Windows, IsList, OneEach, Began

\* What a page reads of the lists is a list.
LEMMA ReadsFit ==
  ASSUME BrowserFits, NEW t \in Tabs
  PROVE  /\ IsList(Browser!Held(t)) /\ Browser!Held(t) \subseteq window[t].mine
         /\ IsList(Browser!LocalAfterRead(t))
         /\ Browser!ToldAfterRead(t) \in [Actors -> Browser!Logins \cup {Browser!None}]
  <1>1. IsList(window[t].mine) /\ IsList(local[SiteOf[t]])
    BY WindowHas
  <1>2. IsList(Browser!Held(t)) /\ Browser!Held(t) \subseteq window[t].mine
    BY <1>1 DEF Browser!Held, IsList, OneEach
  <1>3. Browser!Held(t) = window[t].mine \/ cookie # Undefined
    BY DEF Browser!Held, Browser!Shared
  <1>4. IsList(Browser!LocalAfterRead(t))
    BY <1>1, <1>2, <1>3 DEF Browser!LocalAfterRead, BrowserFits, CookieFits
  <1>5. window[t].told \in [Actors -> Browser!Logins \cup {Browser!None}]
    BY WindowHas DEF Windows
  <1> QED BY <1>2, <1>4, <1>5 DEF Browser!ToldAfterRead

LEMMA UpdatesFit ==
  ASSUME NEW S, IsList(S), NEW l \in Browser!Logins, NEW remove \in BOOLEAN
  PROVE  IsList(Browser!Updated(S, l, remove))
  BY DEF IsList, OneEach, Browser!Updated

LEMMA StoresFit ==
  ASSUME BrowserFits, NEW t \in Tabs, NEW l \in Browser!Logins, NEW remove \in BOOLEAN,
         NEW S, IsList(S), Browser!StoresUpdated(t, l, remove, S)
  PROVE  CookieFits' /\ CopiesFit'
  <1>1. SiteOf[t] \in Sites
    BY WindowHas
  <1>2. IsList(Browser!Updated(S, l, remove))
    BY UpdatesFit
  <1>3. CopiesFit'
    BY <1>1, <1>2 DEF Browser!StoresUpdated, BrowserFits, CopiesFit, IsList
  <1>4. cookie # Undefined => IsList(Browser!Updated(cookie, l, remove))
    BY UpdatesFit DEF BrowserFits, CookieFits
  <1>5. IsList(Browser!Updated({}, l, remove))
    BY UpdatesFit DEF IsList, OneEach
  <1>6. cookie' \in {cookie, Browser!Updated(cookie, l, remove), Browser!Updated({}, l, remove)}
    BY DEF Browser!StoresUpdated, Browser!Shared
  <1>7. CookieFits'
    BY <1>4, <1>5 DEF Browser!StoresUpdated, Browser!Shared, BrowserFits, CookieFits
  <1> QED BY <1>3, <1>7

\* A page as it loads.
LEMMA LoadsFit ==
  ASSUME BrowserFits, NEW t \in Tabs, NEW access \in Browser!Access(t),
         NEW w, w = Browser!Loaded(t, access)
  PROVE  /\ w \in Windows /\ IsList(w.mine) /\ w.page = "open"
         /\ w.current = 0 /\ w.active = 0 /\ w.progress = Browser!None /\ w.tasks = {}
         /\ w.leaving = FALSE /\ w.dialog = FALSE /\ w.activeState = Browser!NoState
         /\ w.mine = local[SiteOf[t]] \/ (cookie # Undefined /\ w.mine = cookie)
  <1> DEFINE list == IF Browser!Shared(access) # Undefined THEN cookie ELSE local[SiteOf[t]]
             told == [a \in Actors |-> IF Browser!OfActor(list, a) = {} THEN Browser!None
                                       ELSE CHOOSE l \in Browser!OfActor(list, a) : TRUE]
  <1>1. access \in BOOLEAN
    BY DEF Browser!Access
  <1>2. /\ IsList(list) /\ list \in SUBSET Browser!Logins
        /\ list = local[SiteOf[t]] \/ (cookie # Undefined /\ list = cookie)
    BY WindowHas DEF Browser!Shared, BrowserFits, CookieFits, IsList
  <1>3. told \in [Actors -> Browser!Logins \cup {Browser!None}]
    <2>1. \A a \in Actors : Browser!OfActor(list, a) \subseteq Browser!Logins
      BY <1>2 DEF Browser!OfActor
    <2> HIDE DEF list
    <2> QED BY <2>1
  <1>4. w = [Browser!Closed EXCEPT !.page = "open", !.access = access, !.mine = list, !.told = told]
    BY DEF Browser!Loaded
  <1> HIDE DEF list, told
  <1>5. w = [page |-> "open", access |-> access, leaving |-> FALSE, dialog |-> FALSE,
             mine |-> list, current |-> Browser!NoAttempt, progress |-> Browser!None,
             active |-> Browser!NoAttempt, activeState |-> Browser!NoState, tasks |-> {}, told |-> told]
    BY <1>4 DEF Browser!Closed
  <1>6. w \in Windows
    BY <1>1, <1>2, <1>3, <1>5, NoneIsProgress DEF Windows
  <1> QED BY <1>2, <1>5, <1>6, AttemptNumbers

\* A page with the attempt of a redirect, or without.
LEMMA RestoresFit ==
  ASSUME BrowserFits, NEW t \in Tabs, NEW n \in Browser!Attempts, NEW p \in Windows,
         NEW w, w = Browser!Restored(t, n, p)
  PROVE  /\ w \in Windows /\ w.mine = p.mine /\ w.tasks = p.tasks /\ w.page = p.page
         /\ w.dialog = p.dialog /\ w.leaving = p.leaving /\ w.activeState = p.activeState
         /\ \/ w.current = n /\ w.progress = saved[SiteOf[t]][n] /\ w.active = p.active
               /\ w.progress # Browser!NotSaved
            \/ w.current = 0 /\ w.progress = Browser!None /\ w.active = 0
  <1>1. saved[SiteOf[t]][n] \in Browser!Progress \cup {Browser!NotSaved}
    BY WindowHas DEF BrowserFits, SavedFits
  <1> QED BY <1>1, NoneIsProgress, AttemptNumbers DEF Browser!Restored, Windows

\* LoginAttempts.finish()
LEMMA FinishesFit ==
  ASSUME NEW p \in Windows, NEW w, w = Browser!Finished(p)
  PROVE  /\ w \in Windows /\ w.mine = p.mine /\ w.tasks = p.tasks /\ w.told = p.told
         /\ w.current = 0 /\ w.progress = Browser!None /\ w.dialog = FALSE
         /\ w.leaving = p.leaving /\ w.page = p.page
         /\ w.active = (IF p.active = p.current THEN 0 ELSE p.active)
  <1> DEFINE mine == p.active = p.current
             active == IF mine THEN Browser!NoAttempt ELSE p.active
             state == IF mine THEN Browser!NoState ELSE p.activeState
  <1>1. /\ active \in Browser!Attempts \cup {Browser!NoAttempt}
        /\ state \in Browser!States \cup {Browser!NoState}
    BY DEF Windows
  <1>2. w = [p EXCEPT !.current = Browser!NoAttempt, !.progress = Browser!None, !.dialog = FALSE,
                      !.active = active, !.activeState = state]
    BY DEF Browser!Finished
  <1>3. active = (IF p.active = p.current THEN 0 ELSE p.active)
    BY AttemptNumbers
  <1> HIDE DEF active, state
  <1>4. /\ w.mine = p.mine /\ w.tasks = p.tasks /\ w.told = p.told /\ w.dialog = FALSE
        /\ w.current = Browser!NoAttempt /\ w.progress = Browser!None
        /\ w.leaving = p.leaving /\ w.page = p.page /\ w.active = active
    BY <1>2 DEF Windows
  <1>5. w \in Windows
    BY <1>1, <1>2, NoneIsProgress DEF Windows
  <1> QED BY <1>3, <1>4, <1>5, AttemptNumbers

LEMMA FinishedStoresFit ==
  ASSUME BrowserFits, NEW t \in Tabs, Browser!FinishedStores(t), attempts' = attempts
  PROVE  /\ SavedFits' /\ oauth' \in [Sites -> SUBSET Browser!States]
         /\ \A s \in Sites : oauth'[s] \subseteq oauth[s]
         /\ \A s \in Sites : \A n \in Browser!Attempts : saved'[s][n] \in {saved[s][n], Browser!NotSaved}
  <1> DEFINE p == window[t]
             site == SiteOf[t]
  <1>1. site \in Sites
    BY WindowHas
  <1>2. /\ oauth \in [Sites -> SUBSET Browser!States]
        /\ saved \in [Sites -> [Browser!Attempts -> Browser!Progress \cup {Browser!NotSaved}]]
    BY DEF BrowserFits, SavedFits, AwayFits
  <1>3. /\ saved' = [saved EXCEPT ![site] = [@ EXCEPT ![p.current] = Browser!NotSaved]]
        /\ oauth' = [oauth EXCEPT ![site] = IF p.active = p.current THEN @ \ {p.activeState} ELSE @]
    BY DEF Browser!FinishedStores
  <1> HIDE DEF p, site
  <1>4. \A s \in Sites : oauth'[s] \subseteq oauth[s] /\ oauth'[s] \in SUBSET Browser!States
    BY <1>1, <1>2, <1>3
  <1>5. oauth' \in [Sites -> SUBSET Browser!States]
    BY <1>2, <1>3, <1>4
  <1>6. saved' \in [Sites -> [Browser!Attempts -> Browser!Progress \cup {Browser!NotSaved}]]
    BY <1>1, <1>2, <1>3
  <1>7. \A s \in Sites : \A n \in Browser!Attempts : saved'[s][n] \in {saved[s][n], Browser!NotSaved}
    BY <1>1, <1>2, <1>3
  <1> QED BY <1>4, <1>5, <1>6, <1>7 DEF SavedFits

LEMMA SavesFit ==
  ASSUME BrowserFits, NEW t \in Tabs, NEW n \in Browser!Attempts, NEW p \in Browser!Progress,
         Browser!Save(t, n, p)
  PROVE  /\ SavedFits' /\ saved'[SiteOf[t]][n] = p
         /\ \A s \in Sites : \A m \in Browser!Attempts :
              s # SiteOf[t] \/ m # n => saved'[s][m] = saved[s][m]
  <1>1. SiteOf[t] \in Sites
    BY WindowHas
  <1>2. saved' = [saved EXCEPT ![SiteOf[t]] = [@ EXCEPT ![n] = p]]
    BY DEF Browser!Save
  <1> QED BY <1>1, <1>2 DEF BrowserFits, SavedFits

\* handleLoginError()
LEMMA FailsFit ==
  ASSUME BrowserFits, NEW t \in Tabs, NEW n \in Browser!Attempts,
         NEW tasks \in SUBSET window[t].tasks, Browser!Fail(t, n, tasks), attempts' = attempts
  PROVE  /\ SavedFits'
         /\ \E w : /\ Shows(t, w) /\ w.tasks = tasks /\ w.current = window[t].current
                  /\ w.active = window[t].active /\ w.activeState = window[t].activeState
                  /\ w.leaving = window[t].leaving /\ w.mine = window[t].mine
                  /\ \/ /\ w.current = n /\ w.progress = Browser!None
                        /\ Browser!Save(t, n, Browser!None)
                     \/ /\ w.current # n /\ w.progress = window[t].progress /\ UNCHANGED saved
  <1>1. /\ window[t] \in Windows /\ IsList(window[t].mine) /\ Began(window[t], attempts)
        /\ window \in [Tabs -> Windows]
    BY WindowHas DEF BrowserFits, WindowsFit
  <1>2. tasks \in SUBSET Browser!Tasks
    BY WindowHas
  <1>3. CASE window[t].current = n
    <2> DEFINE w == [window[t] EXCEPT !.tasks = tasks, !.progress = Browser!None, !.dialog = TRUE]
    <2>1. window' = [window EXCEPT ![t] = w] /\ Browser!Save(t, n, Browser!None)
      BY <1>1, <1>3 DEF Browser!Fail
    <2>2. w \in Windows
      BY <1>1, <1>2, NoneIsProgress DEF Windows
    <2>3. Began(w, attempts')
      BY <1>1, <1>3, AttemptNumbers DEF Began, Windows
    <2>4. Shows(t, w)
      BY <1>1, <2>1, <2>2, <2>3 DEF Shows, Windows
    <2>5. SavedFits'
      BY <2>1, SavesFit, NoneIsProgress
    <2>6. /\ w.tasks = tasks /\ w.current = n /\ w.progress = Browser!None /\ w.mine = window[t].mine
          /\ w.active = window[t].active /\ w.activeState = window[t].activeState
          /\ w.leaving = window[t].leaving
      BY <1>1, <1>3 DEF Windows
    <2> HIDE DEF w
    <2> QED BY <1>3, <2>1, <2>4, <2>5, <2>6
  <1>4. CASE window[t].current # n
    <2> DEFINE w == [window[t] EXCEPT !.tasks = tasks]
    <2>1. window' = [window EXCEPT ![t] = w] /\ UNCHANGED saved
      BY <1>1, <1>4 DEF Browser!Fail
    <2>2. w \in Windows
      BY <1>1, <1>2 DEF Windows
    <2>3. Began(w, attempts')
      BY <1>1 DEF Began, Windows
    <2>4. Shows(t, w)
      BY <1>1, <2>1, <2>2, <2>3 DEF Shows, Windows
    <2>5. SavedFits'
      BY <2>1 DEF BrowserFits, SavedFits
    <2>6. /\ w.tasks = tasks /\ w.current = window[t].current /\ w.progress = window[t].progress
          /\ w.active = window[t].active /\ w.activeState = window[t].activeState
          /\ w.leaving = window[t].leaving /\ w.mine = window[t].mine
      BY <1>1 DEF Windows
    <2> HIDE DEF w
    <2> QED BY <1>4, <2>1, <2>4, <2>5, <2>6
  <1> QED BY <1>3, <1>4

-----------------------------------------------------------------------------
(* Steps that do nothing new for an attempt.                               *)

Listed(l) ==
  \/ cookie # Undefined /\ l \in cookie
  \/ \E s \in Sites : l \in local[s]
  \/ \E t \in Tabs : l \in window[t].mine
NoNewLogins == \A l \in Browser!Logins : Listed(l)' => Listed(l)

\* What a page does for its attempt.
Work(w) == {k \in w.tasks : k.kind \in Working /\ k.attempt = w.current}

\* w does no more for the attempt of page p than p did, or is without it.
Idles(w, p) ==
  \/ /\ w.current = 0 /\ w.progress = Browser!None
     /\ w.active = 0 \/ (p.active # p.current /\ w.active = p.active)
  \/ /\ w.current = p.current /\ w.progress = p.progress /\ w.active = p.active
     /\ w.activeState = p.activeState /\ w.leaving = p.leaving
     /\ Work(w) \subseteq Work(p)

Pauses ==
  /\ \A u \in Tabs : Idles(window'[u], window[u])
  /\ \A s \in Sites : oauth'[s] \subseteq oauth[s]
  /\ \A s \in Sites : \A n \in Browser!Attempts : saved'[s][n] \in {saved[s][n], Browser!NotSaved}
  /\ UNCHANGED <<visiting, attempts>>
Rests == Pauses /\ NoNewLogins

LEMMA IdlesItself == \A p : Idles(p, p)
  BY DEF Idles

\* The lists of a step that changes tab t.
LEMMA ListsStay ==
  ASSUME BrowserFits, NEW t \in Tabs, NEW w, Shows(t, w), \A l \in w.mine : Listed(l),
         cookie' # Undefined => \A l \in cookie' : Listed(l),
         \A s \in Sites : \A l \in local'[s] : Listed(l)
  PROVE  NoNewLogins
  <1>1. window \in [Tabs -> Windows] /\ window' = [window EXCEPT ![t] = w]
    BY DEF BrowserFits, WindowsFit, Shows
  <1>2. window'[t] = w /\ \A u \in Tabs \ {t} : window'[u] = window[u]
    BY <1>1
  <1>3. \A u \in Tabs : \A l \in window'[u].mine : Listed(l)
    BY <1>2 DEF Listed
  <1> QED BY <1>3 DEF NoNewLogins, Listed

LEMMA AreListed ==
  ASSUME BrowserFits, NEW t \in Tabs
  PROVE  /\ \A l \in window[t].mine : Listed(l)
         /\ cookie # Undefined => \A l \in cookie : Listed(l)
         /\ \A s \in Sites : \A l \in local[s] : Listed(l)
         /\ \A l \in Browser!Held(t) : Listed(l)
         /\ \A l \in Browser!LocalAfterRead(t) : Listed(l)
  <1>1. /\ \A l \in window[t].mine : Listed(l)
        /\ cookie # Undefined => \A l \in cookie : Listed(l)
        /\ \A s \in Sites : \A l \in local[s] : Listed(l)
    BY DEF Listed
  <1>2. \A l \in Browser!Held(t) : Listed(l)
    BY <1>1, ReadsFit
  <1>3. Browser!Held(t) = window[t].mine \/ cookie # Undefined
    BY DEF Browser!Held, Browser!Shared
  <1>4. \A l \in Browser!LocalAfterRead(t) : Listed(l)
    BY <1>1, <1>3, WindowHas DEF Browser!LocalAfterRead
  <1> QED BY <1>1, <1>2, <1>4

\* A list of site t and what is left of the cookie.
LEMMA StoresAreListed ==
  ASSUME BrowserFits, NEW t \in Tabs, NEW S, \A l \in S : Listed(l), NEW k,
         \/ Browser!StoresUpdated(t, k, TRUE, S)
         \/ UNCHANGED cookie /\ local' = [local EXCEPT ![SiteOf[t]] = S]
  PROVE  /\ cookie' # Undefined => \A l \in cookie' : Listed(l)
         /\ \A s \in Sites : \A l \in local'[s] : Listed(l)
  <1>1. /\ cookie # Undefined => \A l \in cookie : Listed(l)
        /\ \A s \in Sites : \A l \in local[s] : Listed(l)
    BY AreListed
  <1>2. \A x \in Browser!Updated(S, k, TRUE) : Listed(x)
    BY DEF Browser!Updated
  <1>3. local \in [Sites -> SUBSET Browser!Logins] /\ SiteOf[t] \in Sites
    BY WindowHas DEF BrowserFits, CopiesFit
  <1>4. \A s \in Sites : \A l \in local'[s] : Listed(l)
    BY <1>1, <1>2, <1>3 DEF Browser!StoresUpdated
  <1>5. cookie' # Undefined => \A l \in cookie' : Listed(l)
    <2>1. CASE Browser!StoresUpdated(t, k, TRUE, S)
      <3>1. cookie' = cookie \/ (cookie # Undefined /\ cookie' = cookie \ {k})
        BY <2>1 DEF Browser!StoresUpdated, Browser!Shared, Browser!Updated
      <3> QED BY <1>1, <3>1
    <2> QED BY <1>1, <2>1
  <1> QED BY <1>4, <1>5

LEMMA FitsAgain ==
  ASSUME BrowserFits, NEW t \in Tabs, NEW w, Shows(t, w), UNCHANGED <<attempts, visiting>>,
         HistoriesFit', UNCHANGED cookie \/ CookieFits', UNCHANGED local \/ CopiesFit',
         UNCHANGED saved \/ SavedFits',
         \/ UNCHANGED oauth
         \/ /\ oauth' \in [Sites -> SUBSET Browser!States]
            /\ \A s \in Sites : oauth'[s] \subseteq oauth[s]
  PROVE  BrowserFits'
  <1>1. WindowsFit'
    BY WindowsStay, BoundIsNatural DEF BrowserFits, HistoriesFit
  <1>2. CookieFits' /\ CopiesFit' /\ SavedFits'
    BY DEF BrowserFits, CookieFits, CopiesFit, SavedFits
  <1>3. AwayFits'
    BY DEF BrowserFits, AwayFits
  <1> QED BY <1>1, <1>2, <1>3 DEF BrowserFits

LEMMA ShowsRests ==
  ASSUME BrowserFits, NEW t \in Tabs, NEW w, Shows(t, w), Idles(w, window[t]),
         UNCHANGED <<attempts, visiting>>, \A l \in w.mine : Listed(l),
         cookie' # Undefined => \A l \in cookie' : Listed(l),
         \A s \in Sites : \A l \in local'[s] : Listed(l),
         \A s \in Sites : oauth'[s] \subseteq oauth[s],
         \A s \in Sites : \A n \in Browser!Attempts :
           saved'[s][n] \in {saved[s][n], Browser!NotSaved}
  PROVE  Rests
  <1>1. window \in [Tabs -> Windows] /\ window' = [window EXCEPT ![t] = w]
    BY DEF BrowserFits, WindowsFit, Shows
  <1>2. window'[t] = w /\ \A u \in Tabs \ {t} : window'[u] = window[u]
    BY <1>1
  <1>3. \A u \in Tabs : Idles(window'[u], window[u])
    BY <1>2, IdlesItself
  <1>4. NoNewLogins
    BY ListsStay
  <1> QED BY <1>3, <1>4 DEF Rests, Pauses

LEMMA HistoriesStay ==
  ASSUME BrowserFits, UNCHANGED <<attempts, revoked, due, late>>
  PROVE  HistoriesFit'
  BY DEF BrowserFits, HistoriesFit

\* A step of tab t that removes login k from the lists.
LEMMA StoredRests ==
  ASSUME BrowserFits, NEW t \in Tabs, NEW w, Shows(t, w), Idles(w, window[t]),
         \A l \in w.mine : Listed(l), NEW S, IsList(S), \A l \in S : Listed(l),
         NEW k \in Browser!Logins, Browser!StoresUpdated(t, k, TRUE, S),
         UNCHANGED <<saved, oauth, visiting, attempts>>, HistoriesFit'
  PROVE  BrowserFits' /\ Rests
  <1>1. /\ cookie' # Undefined => \A l \in cookie' : Listed(l)
        /\ \A s \in Sites : \A l \in local'[s] : Listed(l)
    BY StoresAreListed
  <1>2. BrowserFits'
    BY StoresFit, FitsAgain
  <1> QED BY <1>1, <1>2, ShowsRests

\* A step of tab t that writes the copy of its site.
LEMMA CopiedRests ==
  ASSUME BrowserFits, NEW t \in Tabs, NEW w, Shows(t, w), Idles(w, window[t]),
         \A l \in w.mine : Listed(l), NEW S, IsList(S), \A l \in S : Listed(l),
         UNCHANGED cookie, local' = [local EXCEPT ![SiteOf[t]] = S],
         UNCHANGED <<saved, oauth, visiting, attempts>>, HistoriesFit'
  PROVE  BrowserFits' /\ Rests
  <1>1. /\ cookie' # Undefined => \A l \in cookie' : Listed(l)
        /\ \A s \in Sites : \A l \in local'[s] : Listed(l)
    BY StoresAreListed
  <1>2. CopiesFit'
    BY WindowHas DEF BrowserFits, CopiesFit, IsList
  <1>3. BrowserFits'
    BY <1>2, FitsAgain
  <1> QED BY <1>1, <1>3, ShowsRests

LEMMA QuietRests ==
  ASSUME BrowserFits, NEW t \in Tabs, NEW w, Shows(t, w), Idles(w, window[t]),
         \A l \in w.mine : Listed(l),
         UNCHANGED <<cookie, local, saved, oauth, visiting, attempts>>, HistoriesFit'
  PROVE  BrowserFits' /\ Rests
  <1>1. /\ cookie' # Undefined => \A l \in cookie' : Listed(l)
        /\ \A s \in Sites : \A l \in local'[s] : Listed(l)
    BY AreListed
  <1>2. BrowserFits'
    BY FitsAgain
  <1> QED BY <1>1, <1>2, ShowsRests

LEMMA OpenRests ==
  ASSUME BrowserFits, NEW t \in Tabs, Browser!Open(t)
  PROVE  BrowserFits' /\ Rests
  <1>1. PICK access \in Browser!Access(t) :
          /\ window' = [window EXCEPT ![t] = Browser!Loaded(t, access)]
          /\ local' = [local EXCEPT ![SiteOf[t]] = window'[t].mine]
    BY DEF Browser!Open
  <1> DEFINE w == Browser!Loaded(t, access)
  <1>2. UNCHANGED <<cookie, saved, oauth, visiting, attempts, revoked, due, late>>
    BY DEF Browser!Open
  <1>3. /\ w \in Windows /\ IsList(w.mine) /\ w.current = 0 /\ w.active = 0 /\ w.tasks = {}
        /\ w.progress = Browser!None /\ w.dialog = FALSE
        /\ w.mine = local[SiteOf[t]] \/ (cookie # Undefined /\ w.mine = cookie)
    BY LoadsFit
  <1>4. window' = [window EXCEPT ![t] = w] /\ window'[t] = w
    BY <1>1 DEF BrowserFits, WindowsFit
  <1> HIDE DEF w
  <1>5. Shows(t, w)
    BY <1>2, <1>3, <1>4, WindowHas DEF Shows, Began
  <1>6. \A l \in w.mine : Listed(l)
    BY <1>3, AreListed, WindowHas
  <1>7. Idles(w, window[t])
    BY <1>3 DEF Idles
  <1>8. local' = [local EXCEPT ![SiteOf[t]] = w.mine]
    BY <1>1, <1>4
  <1> QED BY <1>2, <1>3, <1>5, <1>6, <1>7, <1>8, CopiedRests, HistoriesStay

LEMMA CloseRests ==
  ASSUME BrowserFits, NEW t \in Tabs, Browser!Close(t)
  PROVE  BrowserFits' /\ Rests
  <1> DEFINE w == Browser!Closed
  <1>1. /\ window' = [window EXCEPT ![t] = w]
        /\ UNCHANGED <<cookie, local, saved, oauth, visiting, attempts, revoked, due, late>>
    BY DEF Browser!Close
  <1>2. /\ w.current = 0 /\ w.active = 0 /\ w.progress = Browser!None /\ w.mine = {}
    BY AttemptNumbers DEF Browser!Closed
  <1>3. Shows(t, w)
    BY <1>1, ClosedFits, WindowHas DEF Shows
  <1>4. Idles(w, window[t])
    BY <1>2 DEF Idles
  <1> HIDE DEF w
  <1> QED BY <1>1, <1>2, <1>3, <1>4, QuietRests, HistoriesStay

LEMMA ToldFits ==
  ASSUME NEW list, IsList(list)
  PROVE  [a \in Actors |-> IF Browser!OfActor(list, a) = {} THEN Browser!None
                           ELSE CHOOSE l \in Browser!OfActor(list, a) : TRUE]
           \in [Actors -> Browser!Logins \cup {Browser!None}]
  <1>1. \A a \in Actors : Browser!OfActor(list, a) \subseteq Browser!Logins
    BY DEF Browser!OfActor, IsList
  <1> QED BY <1>1

LEMMA RestoreRests ==
  ASSUME BrowserFits, NEW t \in Tabs, Browser!Restore(t)
  PROVE  BrowserFits' /\ Rests
  <1> DEFINE list == Browser!Held(t)
             told == [a \in Actors |-> IF Browser!OfActor(list, a) = {} THEN Browser!None
                                       ELSE CHOOSE l \in Browser!OfActor(list, a) : TRUE]
             w == [window[t] EXCEPT !.page = "open", !.mine = list, !.told = told]
  <1>1. window[t] \in Windows /\ window \in [Tabs -> Windows] /\ Began(window[t], attempts)
    BY WindowHas DEF BrowserFits, WindowsFit
  <1>2. /\ IsList(list) /\ list \in SUBSET Browser!Logins
        /\ told \in [Actors -> Browser!Logins \cup {Browser!None}] /\ \A l \in list : Listed(l)
    BY ReadsFit, ToldFits, AreListed DEF IsList
  <1>3. /\ window' = [window EXCEPT ![t] = w] /\ local' = [local EXCEPT ![SiteOf[t]] = list]
        /\ UNCHANGED <<cookie, saved, oauth, visiting, attempts, revoked, due, late>>
    BY <1>1 DEF Browser!Restore
  <1> HIDE DEF list, told
  <1>4. w \in Windows /\ w.mine = list
    BY <1>1, <1>2 DEF Windows
  <1>5. Began(w, attempts') /\ Idles(w, window[t])
    BY <1>1, <1>3 DEF Began, Idles, Work, Windows
  <1> HIDE DEF w
  <1>6. Shows(t, w)
    BY <1>2, <1>3, <1>4, <1>5 DEF Shows
  <1> QED BY <1>2, <1>3, <1>4, <1>5, <1>6, CopiedRests, HistoriesStay

LEMMA CancelRests ==
  ASSUME BrowserFits, NEW t \in Tabs, Browser!Cancel(t)
  PROVE  BrowserFits' /\ Rests
  <1> DEFINE w == Browser!Finished(window[t])
  <1>1. window \in [Tabs -> Windows] /\ window[t] \in Windows /\ Began(window[t], attempts)
    BY WindowHas DEF BrowserFits, WindowsFit
  <1>2. /\ window' = [window EXCEPT ![t] = w] /\ Browser!FinishedStores(t)
        /\ UNCHANGED <<cookie, local, visiting, attempts, revoked, due, late>>
    BY <1>1 DEF Browser!Cancel
  <1>3. /\ w \in Windows /\ w.mine = window[t].mine /\ w.tasks = window[t].tasks /\ w.current = 0
        /\ w.progress = Browser!None /\ w.dialog = FALSE
        /\ w.active = (IF window[t].active = window[t].current THEN 0 ELSE window[t].active)
    BY <1>1, FinishesFit
  <1> HIDE DEF w
  <1>4. Shows(t, w)
    BY <1>1, <1>2, <1>3, WindowHas DEF Shows, Began
  <1>5. Idles(w, window[t])
    BY <1>3 DEF Idles
  <1>6. /\ SavedFits' /\ oauth' \in [Sites -> SUBSET Browser!States]
        /\ \A s \in Sites : oauth'[s] \subseteq oauth[s]
        /\ \A s \in Sites : \A n \in Browser!Attempts : saved'[s][n] \in {saved[s][n], Browser!NotSaved}
    BY <1>2, FinishedStoresFit
  <1>7. BrowserFits'
    BY <1>2, <1>4, <1>6, FitsAgain, HistoriesStay
  <1>8. /\ \A l \in w.mine : Listed(l)
        /\ cookie' # Undefined => \A l \in cookie' : Listed(l)
        /\ \A s \in Sites : \A l \in local'[s] : Listed(l)
    BY <1>2, <1>3, AreListed
  <1> QED BY <1>2, <1>4, <1>5, <1>6, <1>7, <1>8, ShowsRests

LEMMA UseRests ==
  ASSUME BrowserFits, NEW t \in Tabs, NEW a \in Actors, Browser!Use(t, a)
  PROVE  BrowserFits' /\ Rests
  <1> DEFINE held == Browser!Held(t)
             ls == Browser!OfActor(held, a)
             read == Browser!ToldAfterRead(t)
             told == IF ls = {} THEN [read EXCEPT ![a] = Browser!None] ELSE read
             new == {[kind |-> "use", login |-> l] : l \in ls}
             w == [window[t] EXCEPT !.mine = held, !.told = told, !.tasks = @ \cup new]
  <1>1. window[t] \in Windows /\ window \in [Tabs -> Windows] /\ Began(window[t], attempts)
    BY WindowHas DEF BrowserFits, WindowsFit
  <1>2. /\ IsList(held) /\ held \in SUBSET Browser!Logins /\ \A l \in held : Listed(l)
        /\ IsList(Browser!LocalAfterRead(t)) /\ \A l \in Browser!LocalAfterRead(t) : Listed(l)
        /\ read \in [Actors -> Browser!Logins \cup {Browser!None}]
    BY ReadsFit, AreListed DEF IsList
  <1>3. /\ window' = [window EXCEPT ![t] = w]
        /\ local' = [local EXCEPT ![SiteOf[t]] = Browser!LocalAfterRead(t)]
        /\ UNCHANGED <<cookie, saved, oauth, visiting, attempts, revoked, due, late>>
    BY <1>1 DEF Browser!Use
  <1>4. told \in [Actors -> Browser!Logins \cup {Browser!None}]
    <2> HIDE DEF read, ls
    <2> QED BY <1>2
  <1>5. new \subseteq Browser!Tasks /\ \A k \in new : k.kind \notin Working
    <2>1. \A l \in ls : l \in Browser!Logins
      BY <1>2 DEF Browser!OfActor
    <2> HIDE DEF ls
    <2>2. \A l \in ls : [kind |-> "use", login |-> l] \in Browser!Tasks
      BY <2>1, TaskIs
    <2> QED BY <2>2 DEF Working
  <1> HIDE DEF held, told, new
  <1>6. w \in Windows /\ w.mine = held
    BY <1>1, <1>2, <1>4, <1>5 DEF Windows
  <1>7. Began(w, attempts') /\ Idles(w, window[t])
    BY <1>1, <1>3, <1>5 DEF Began, Idles, Work, Windows
  <1> HIDE DEF w
  <1>8. Shows(t, w)
    BY <1>2, <1>3, <1>6, <1>7 DEF Shows
  <1> QED BY <1>2, <1>3, <1>6, <1>7, <1>8, CopiedRests, HistoriesStay

LEMMA AnsweredRests ==
  ASSUME BrowserFits, NEW t \in Tabs, NEW k \in window[t].tasks, Browser!Answered(t, k)
  PROVE  BrowserFits' /\ Rests
  <1> DEFINE rest == window[t].tasks \ {k}
             a == k.login.actor
             gone == Browser!OfActor(window[t].mine, a)
  <1>1. /\ window[t] \in Windows /\ window \in [Tabs -> Windows] /\ Began(window[t], attempts)
        /\ IsList(window[t].mine)
    BY WindowHas DEF BrowserFits, WindowsFit
  <1>2. /\ rest \in SUBSET Browser!Tasks /\ rest \subseteq window[t].tasks
        /\ k.login \in Browser!Logins /\ a \in Actors
    BY WindowHas, TaskHas, LoginHas DEF Browser!Answered
  <1>3. UNCHANGED <<saved, oauth, visiting, attempts, revoked>>
    BY DEF Browser!Answered
  <1>4. CASE window' = [window EXCEPT ![t].tasks = rest] /\ UNCHANGED <<cookie, local, due, late>>
    <2> DEFINE w == [window[t] EXCEPT !.tasks = rest]
    <2>1. window' = [window EXCEPT ![t] = w]
      BY <1>1, <1>4
    <2> HIDE DEF rest
    <2>2. w \in Windows /\ w.mine = window[t].mine
      BY <1>1, <1>2 DEF Windows
    <2>3. Began(w, attempts') /\ Idles(w, window[t])
      BY <1>1, <1>2, <1>3 DEF Began, Idles, Work, Windows
    <2> HIDE DEF w
    <2>4. Shows(t, w) /\ \A l \in w.mine : Listed(l)
      BY <1>1, <2>1, <2>2, <2>3, AreListed DEF Shows
    <2> QED BY <1>3, <1>4, <2>3, <2>4, QuietRests, HistoriesStay
  <1>5. CASE /\ Browser!Forget(t, a, due \ {k.login})
             /\ window' = [window EXCEPT ![t].tasks = rest, ![t].told[a] = Browser!None,
                                         ![t].mine = @ \ gone]
    <2> DEFINE w == [window[t] EXCEPT !.tasks = rest, !.told[a] = Browser!None, !.mine = @ \ gone]
    <2>1. window' = [window EXCEPT ![t] = w]
      BY <1>1, <1>5
    <2> HIDE DEF rest
    <2>2. w \in Windows /\ w.mine = window[t].mine \ gone
      BY <1>1, <1>2 DEF Windows
    <2>3. Began(w, attempts') /\ Idles(w, window[t])
      BY <1>1, <1>2, <1>3 DEF Began, Idles, Work, Windows
    <2> HIDE DEF w
    <2>4. Shows(t, w) /\ \A l \in w.mine : Listed(l)
      <3>1. IsList(window[t].mine \ gone)
        BY <1>1 DEF IsList, OneEach
      <3> QED BY <2>1, <2>2, <2>3, <3>1, AreListed DEF Shows
    <2>5. HistoriesFit'
      BY <1>2, <1>3, <1>5 DEF Browser!Forget, BrowserFits, HistoriesFit
    <2>6. CASE UNCHANGED <<cookie, local>>
      BY <1>3, <2>3, <2>4, <2>5, <2>6, QuietRests
    <2>7. ASSUME NEW l \in gone, Browser!StoresUpdated(t, l, TRUE, local[SiteOf[t]])
          PROVE  BrowserFits' /\ Rests
      <3>1. l \in Browser!Logins
        BY <1>1 DEF IsList, Browser!OfActor
      <3>2. IsList(local[SiteOf[t]]) /\ \A x \in local[SiteOf[t]] : Listed(x)
        BY WindowHas, AreListed
      <3> QED BY <1>3, <2>3, <2>4, <2>5, <2>7, <3>1, <3>2, StoredRests
    <2> QED BY <1>5, <2>6, <2>7 DEF Browser!Forget
  <1> QED BY <1>4, <1>5 DEF Browser!Answered

LEMMA LogoutRests ==
  ASSUME BrowserFits, NEW t \in Tabs, NEW a \in Actors, Browser!Logout(t, a)
  PROVE  BrowserFits' /\ Rests
  <1> DEFINE held == Browser!Held(t)
             read == Browser!ToldAfterRead(t)
  <1>1. window[t] \in Windows /\ window \in [Tabs -> Windows] /\ Began(window[t], attempts)
    BY WindowHas DEF BrowserFits, WindowsFit
  <1>2. /\ IsList(held) /\ held \in SUBSET Browser!Logins /\ \A l \in held : Listed(l)
        /\ IsList(Browser!LocalAfterRead(t)) /\ \A l \in Browser!LocalAfterRead(t) : Listed(l)
        /\ read \in [Actors -> Browser!Logins \cup {Browser!None}]
    BY ReadsFit, AreListed DEF IsList
  <1>3. UNCHANGED <<saved, oauth, visiting, attempts, revoked, late>>
    BY DEF Browser!Logout
  <1>4. ASSUME NEW l \in Browser!OfActor(held, a),
               Browser!StoresUpdated(t, l, TRUE, Browser!LocalAfterRead(t)), due' = due \ {l},
               window' = [window EXCEPT ![t].mine = held \ {l}, ![t].told = read,
                            ![t].tasks = @ \cup {[kind |-> "revoke", login |-> l]}]
        PROVE  BrowserFits' /\ Rests
    <2> DEFINE new == [kind |-> "revoke", login |-> l]
               w == [window[t] EXCEPT !.mine = held \ {l}, !.told = read, !.tasks = @ \cup {new}]
    <2>1. window' = [window EXCEPT ![t] = w]
      BY <1>1, <1>4
    <2>2. l \in Browser!Logins /\ new \in Browser!Tasks /\ new.kind \notin Working
      BY <1>2, TaskIs DEF Browser!OfActor, Working
    <2> HIDE DEF held, read, new
    <2>3. w \in Windows /\ w.mine = held \ {l}
      BY <1>1, <1>2, <2>2 DEF Windows
    <2>4. Began(w, attempts') /\ Idles(w, window[t])
      BY <1>1, <1>3, <2>2 DEF Began, Idles, Work, Windows
    <2> HIDE DEF w
    <2>5. Shows(t, w) /\ \A x \in w.mine : Listed(x)
      <3>1. IsList(held \ {l})
        BY <1>2 DEF IsList, OneEach
      <3> QED BY <1>2, <2>1, <2>3, <2>4, <3>1 DEF Shows
    <2>6. HistoriesFit'
      BY <1>3, <1>4 DEF BrowserFits, HistoriesFit
    <2> QED BY <1>2, <1>3, <1>4, <2>2, <2>4, <2>5, <2>6, StoredRests
  <1>5. CASE /\ window' = [window EXCEPT ![t].mine = held, ![t].told = read]
             /\ local' = [local EXCEPT ![SiteOf[t]] = Browser!LocalAfterRead(t)]
             /\ UNCHANGED <<cookie, due>>
    <2> DEFINE w == [window[t] EXCEPT !.mine = held, !.told = read]
    <2>1. window' = [window EXCEPT ![t] = w]
      BY <1>1, <1>5
    <2> HIDE DEF held, read
    <2>2. w \in Windows /\ w.mine = held
      BY <1>1, <1>2 DEF Windows
    <2>3. Began(w, attempts') /\ Idles(w, window[t])
      BY <1>1, <1>3 DEF Began, Idles, Work, Windows
    <2> HIDE DEF w
    <2>4. Shows(t, w)
      BY <1>2, <2>1, <2>2, <2>3 DEF Shows
    <2> QED BY <1>2, <1>3, <1>5, <2>2, <2>3, <2>4, CopiedRests, HistoriesStay
  <1> QED BY <1>4, <1>5 DEF Browser!Logout

LEMMA RevokedRests ==
  ASSUME BrowserFits, NEW t \in Tabs, NEW k \in window[t].tasks, Browser!Revoked(t, k)
  PROVE  BrowserFits' /\ Rests
  <1> DEFINE a == k.login.actor
  <1>1. /\ window[t] \in Windows /\ window \in [Tabs -> Windows] /\ Began(window[t], attempts)
        /\ IsList(window[t].mine)
    BY WindowHas DEF BrowserFits, WindowsFit
  <1>2. k.login \in Browser!Logins /\ a \in Actors
    BY WindowHas, TaskHas, LoginHas DEF Browser!Revoked
  <1>3. PICK reached \in SUBSET Browser!TokensOf(k.login) :
          /\ revoked' = revoked \cup reached
          /\ window' = [window EXCEPT ![t].tasks = @ \ {k},
                          ![t].told[a] = IF reached = Browser!TokensOf(k.login) THEN Browser!None ELSE @]
    BY DEF Browser!Revoked
  <1>4. UNCHANGED <<cookie, local, saved, oauth, visiting, attempts, due, late>>
    BY DEF Browser!Revoked
  <1> DEFINE said == IF reached = Browser!TokensOf(k.login) THEN Browser!None ELSE window[t].told[a]
             told == [window[t].told EXCEPT ![a] = said]
             w == [window[t] EXCEPT !.tasks = @ \ {k}, !.told = told]
  <1>5. window' = [window EXCEPT ![t] = w]
    BY <1>1, <1>2, <1>3 DEF Windows
  <1>6. told \in [Actors -> Browser!Logins \cup {Browser!None}]
    BY <1>1, <1>2 DEF Windows
  <1> HIDE DEF told, said
  <1>7. w \in Windows /\ w.mine = window[t].mine
    BY <1>1, <1>6 DEF Windows
  <1>8. Began(w, attempts') /\ Idles(w, window[t])
    BY <1>1, <1>4 DEF Began, Idles, Work, Windows
  <1> HIDE DEF w
  <1>9. Shows(t, w) /\ \A l \in w.mine : Listed(l)
    BY <1>1, <1>5, <1>7, <1>8, AreListed DEF Shows
  <1>10. Browser!TokensOf(k.login) \subseteq Browser!Tokens
    <2>1. k.login.tokens \in [1..Providers[a] -> Browser!Tokens]
      BY <1>2, LoginHas
    <2>2. \A i \in DOMAIN k.login.tokens : k.login.tokens[i] \in Browser!Tokens
      BY <2>1
    <2> QED BY <2>2 DEF Browser!TokensOf
  <1>11. HistoriesFit'
    BY <1>3, <1>4, <1>10 DEF BrowserFits, HistoriesFit
  <1> QED BY <1>4, <1>8, <1>9, <1>11, QuietRests

LEMMA ExpireRests ==
  ASSUME BrowserFits,
         NEW token \in UNION {Browser!TokensOf(l) : l \in UNION {window[t].mine : t \in Tabs}},
         Browser!Expire(token)
  PROVE  BrowserFits' /\ Rests
  <1>1. PICK t \in Tabs, l \in Browser!Logins : token \in Browser!TokensOf(l)
    BY DEF Browser!Expire
  <1>2. token \in Browser!Tokens
    <2>1. l.tokens \in [1..Providers[l.actor] -> Browser!Tokens]
      BY LoginHas
    <2> QED BY <1>1, <2>1 DEF Browser!TokensOf
  <1>3. /\ UNCHANGED <<window, cookie, local, saved, oauth, visiting, attempts, due, late>>
        /\ revoked' = revoked \cup {token}
    BY DEF Browser!Expire
  <1>4. BrowserFits'
    BY <1>2, <1>3 DEF BrowserFits, WindowsFit, CookieFits, CopiesFit, SavedFits, AwayFits, HistoriesFit
  <1>5. Rests
    BY <1>3, IdlesItself DEF Rests, Pauses, NoNewLogins, Listed
  <1> QED BY <1>4, <1>5

LEMMA DiscardRests ==
  ASSUME BrowserFits, NEW s \in Sites, NEW n \in Browser!Attempts, Browser!Discard(s, n)
  PROVE  BrowserFits' /\ Rests
  <1>1. /\ UNCHANGED <<window, cookie, local, visiting, attempts, revoked, due, late>>
        /\ saved' = [saved EXCEPT ![s] = [@ EXCEPT ![n] = Browser!NotSaved]]
        /\ oauth' = [oauth EXCEPT ![s] = {o \in @ : o.attempt # n}]
    BY DEF Browser!Discard
  <1>2. SavedFits' /\ AwayFits'
    BY <1>1 DEF BrowserFits, SavedFits, AwayFits
  <1>3. BrowserFits'
    BY <1>1, <1>2 DEF BrowserFits, WindowsFit, CookieFits, CopiesFit, HistoriesFit
  <1>4. \A u \in Tabs : Idles(window'[u], window[u])
    BY <1>1, IdlesItself
  <1>5. NoNewLogins
    BY <1>1 DEF NoNewLogins, Listed
  <1>6. /\ \A z \in Sites : oauth'[z] \subseteq oauth[z]
        /\ \A z \in Sites : \A m \in Browser!Attempts : saved'[z][m] \in {saved[z][m], Browser!NotSaved}
    BY <1>1 DEF BrowserFits, SavedFits, AwayFits
  <1> QED BY <1>1, <1>3, <1>4, <1>5, <1>6 DEF Rests, Pauses

\* A task that is not wanted any more ends.
LEMMA DroppedRests ==
  ASSUME BrowserFits, NEW t \in Tabs, NEW k \in window[t].tasks,
         window' = [window EXCEPT ![t].tasks = window[t].tasks \ {k}],
         UNCHANGED <<cookie, local, saved, oauth, visiting, attempts, revoked, due, late>>
  PROVE  BrowserFits' /\ Rests
  <1> DEFINE w == [window[t] EXCEPT !.tasks = @ \ {k}]
  <1>1. /\ window[t] \in Windows /\ window \in [Tabs -> Windows] /\ Began(window[t], attempts)
        /\ IsList(window[t].mine)
    BY WindowHas DEF BrowserFits, WindowsFit
  <1>2. window' = [window EXCEPT ![t] = w]
    BY <1>1
  <1>3. w \in Windows /\ w.mine = window[t].mine
    BY <1>1 DEF Windows
  <1>4. Began(w, attempts') /\ Idles(w, window[t])
    BY <1>1 DEF Began, Idles, Work, Windows
  <1> HIDE DEF w
  <1>5. Shows(t, w) /\ \A l \in w.mine : Listed(l)
    BY <1>1, <1>2, <1>3, <1>4, AreListed DEF Shows
  <1> QED BY <1>4, <1>5, QuietRests, HistoriesStay

-----------------------------------------------------------------------------
(* Steps that begin an attempt, or go on with one.                         *)

\* Window w is at the same attempt as p.
Same(w, p) ==
  /\ w.current = p.current /\ w.progress = p.progress /\ w.active = p.active
  /\ w.activeState = p.activeState /\ w.leaving = p.leaving

LEMMA BeginFits ==
  ASSUME BrowserFits, NEW t \in Tabs, Browser!Begin(t)
  PROVE  /\ BrowserFits' /\ NoNewLogins
         /\ UNCHANGED <<saved, oauth, visiting>> /\ attempts' = attempts + 1
         /\ ~window[t].leaving /\ window[t].current = 0
         /\ \E w : /\ Shows(t, w) /\ w.current = attempts + 1 /\ w.progress = window[t].progress
                  /\ w.active = window[t].active /\ ~w.leaving /\ w.tasks = window[t].tasks
  <1> DEFINE w == [window[t] EXCEPT !.current = attempts', !.dialog = TRUE]
  <1>1. /\ window[t] \in Windows /\ window \in [Tabs -> Windows] /\ Began(window[t], attempts)
        /\ IsList(window[t].mine) /\ attempts \in 0..MaxAttempts
    BY WindowHas DEF BrowserFits, WindowsFit, HistoriesFit
  <1>2. /\ window' = [window EXCEPT ![t] = w] /\ attempts' = attempts + 1 /\ attempts < MaxAttempts
        /\ ~window[t].leaving /\ window[t].current = Browser!NoAttempt
        /\ UNCHANGED <<cookie, local, saved, oauth, visiting, revoked, due, late>>
    BY <1>1 DEF Browser!Begin
  <1>3. attempts' \in Browser!Attempts /\ attempts' \in 0..MaxAttempts /\ attempts' # 0
    BY <1>1, <1>2, BoundIsNatural DEF Browser!Attempts
  <1> HIDE DEF w
  <1>4. /\ w \in Windows /\ w.mine = window[t].mine /\ w.tasks = window[t].tasks
        /\ w.current = attempts' /\ w.progress = window[t].progress /\ w.active = window[t].active
        /\ w.leaving = window[t].leaving
    BY <1>1, <1>3 DEF w, Windows
  <1>5. \A k \in window[t].tasks : k.kind \in Working => k.attempt <= attempts'
    <2>1. \A k \in window[t].tasks : k.kind \in Working => k.attempt \in Nat
      BY <1>1, TaskHas, AttemptNumbers DEF Windows, Working
    <2> QED BY <1>1, <1>2, <2>1, BoundIsNatural DEF Began
  <1>6. Began(w, attempts')
    BY <1>1, <1>2, <1>3, <1>4, <1>5, AttemptNumbers DEF Began
  <1>7. Shows(t, w)
    BY <1>1, <1>2, <1>4, <1>6 DEF Shows
  <1>8. HistoriesFit'
    BY <1>2, <1>3 DEF BrowserFits, HistoriesFit
  <1>9. WindowsFit'
    BY <1>1, <1>2, <1>7, <1>8, BoundIsNatural, WindowsStay
  <1>10. AwayFits'
    <2>1. \A s \in Sites : \A o \in oauth[s] : o.attempt <= attempts /\ o.attempt \in Nat
      BY StateHas, AttemptNumbers DEF BrowserFits, AwayFits
    <2>2. \A n \in visiting : n <= attempts /\ n \in Nat
      BY AttemptNumbers DEF BrowserFits, AwayFits
    <2>3. \A n \in Nat : n <= attempts => n <= attempts'
      BY <1>1, <1>2, BoundIsNatural
    <2> QED BY <1>2, <2>1, <2>2, <2>3 DEF BrowserFits, AwayFits
  <1>11. BrowserFits'
    BY <1>2, <1>8, <1>9, <1>10 DEF BrowserFits, CookieFits, CopiesFit, SavedFits
  <1>12. NoNewLogins
    BY <1>2, <1>4, <1>7, ListsStay, AreListed
  <1> QED BY <1>2, <1>4, <1>7, <1>11, <1>12, AttemptNumbers

\* Tab t does task new for its attempt, and k no more.
LEMMA TaskFits ==
  ASSUME BrowserFits, NEW t \in Tabs, NEW k, NEW new \in Browser!Tasks, NEW w \in Windows,
         IsList(w.mine), w.tasks = (window[t].tasks \ {k}) \cup {new},
         w.current = window[t].current, w.dialog => window[t].dialog,
         new.kind \in Working => new.attempt <= attempts,
         window' = [window EXCEPT ![t] = w], UNCHANGED attempts
  PROVE  Shows(t, w)
  BY WindowHas DEF Shows, Began

LEMMA SubmitFits ==
  ASSUME BrowserFits, NEW t \in Tabs, NEW a \in Actors, Browser!Submit(t, a)
  PROVE  /\ BrowserFits' /\ NoNewLogins /\ Work(window[t]) = {} /\ ~window[t].leaving
         /\ UNCHANGED <<saved, oauth, visiting, attempts>> /\ window[t].current # 0
         /\ \E w, k : /\ Shows(t, w) /\ Same(w, window[t]) /\ w.tasks = window[t].tasks \cup {k}
                     /\ k.kind = "login" /\ k.attempt = w.current
  <1> DEFINE k == [kind |-> "login", attempt |-> window[t].current, actor |-> a]
             w == [window[t] EXCEPT !.tasks = @ \cup {k}]
  <1>1. /\ window[t] \in Windows /\ window \in [Tabs -> Windows] /\ Began(window[t], attempts)
        /\ IsList(window[t].mine)
    BY WindowHas DEF BrowserFits, WindowsFit
  <1>2. /\ window' = [window EXCEPT ![t] = w] /\ Browser!InDialog(t)
        /\ UNCHANGED <<cookie, local, saved, oauth, visiting, attempts, revoked, due, late>>
    BY <1>1 DEF Browser!Submit
  <1>3. window[t].current \in Browser!Attempts /\ window[t].current # 0 /\ ~window[t].leaving
    BY <1>1, <1>2, AttemptNumbers DEF Browser!InDialog, Began, Windows
  <1>4. k \in Browser!Tasks /\ k.kind = "login" /\ k.attempt = window[t].current
    BY <1>3, TaskIs
  <1> HIDE DEF k
  <1>5. /\ w \in Windows /\ w.mine = window[t].mine /\ Same(w, window[t])
        /\ w.tasks = window[t].tasks \cup {k} /\ w.dialog = window[t].dialog
    BY <1>1, <1>4 DEF Windows, Same
  <1> HIDE DEF w
  <1>6. Shows(t, w)
    BY <1>1, <1>2, <1>4, <1>5 DEF Shows, Began, Same
  <1>7. BrowserFits'
    BY <1>2, <1>6, FitsAgain, HistoriesStay
  <1>8. NoNewLogins
    BY <1>2, <1>5, <1>6, ListsStay, AreListed
  <1>9. Work(window[t]) = {}
    BY <1>2 DEF Browser!InDialog, Work, Working
  <1> QED BY <1>2, <1>3, <1>4, <1>5, <1>6, <1>7, <1>8, <1>9 DEF Same

LEMMA LoginStartsFits ==
  ASSUME BrowserFits, NEW t \in Tabs, NEW k \in window[t].tasks, Browser!LoginStarts(t, k)
  PROVE  /\ BrowserFits'
         /\ \/ Rests
            \/ /\ NoNewLogins /\ k \in Work(window[t])
               /\ UNCHANGED <<saved, oauth, visiting, attempts>> /\ window[t].current # 0
               /\ \E w, n : /\ Shows(t, w) /\ Same(w, window[t])
                           /\ w.tasks = (window[t].tasks \ {k}) \cup {n}
                           /\ n.kind = "resolve" /\ n.attempt = w.current
  <1> DEFINE held == Browser!Held(t)
             told == Browser!ToldAfterRead(t)
             read == [window[t] EXCEPT !.tasks = @ \ {k}, !.mine = held, !.told = told]
  <1>1. /\ window[t] \in Windows /\ window \in [Tabs -> Windows] /\ Began(window[t], attempts)
        /\ IsList(window[t].mine)
    BY WindowHas DEF BrowserFits, WindowsFit
  <1>2. /\ IsList(held) /\ held \in SUBSET Browser!Logins /\ \A l \in held : Listed(l)
        /\ IsList(Browser!LocalAfterRead(t)) /\ \A l \in Browser!LocalAfterRead(t) : Listed(l)
        /\ told \in [Actors -> Browser!Logins \cup {Browser!None}]
    BY ReadsFit, AreListed DEF IsList
  <1>3. /\ UNCHANGED <<cookie, visiting, attempts, revoked, due, late>> /\ k.kind = "login"
        /\ k.attempt \in Browser!Attempts /\ k.actor \in Actors
        /\ k = [kind |-> k.kind, attempt |-> k.attempt, actor |-> k.actor]
        /\ k.attempt <= attempts /\ k.attempt # 0
    BY <1>1, WindowHas, TaskHas, AttemptNumbers DEF Browser!LoginStarts, Began, Working
  <1>4. CASE window' = [window EXCEPT ![t] = [window[t] EXCEPT !.tasks = @ \ {k}]]
             /\ UNCHANGED <<local, saved, oauth>>
    BY <1>1, <1>3, <1>4, DroppedRests
  <1>5. /\ read \in Windows /\ read.mine = held /\ read.tasks = window[t].tasks \ {k}
        /\ Same(read, window[t]) /\ read.dialog = window[t].dialog
        /\ read.told = told
    <2> HIDE DEF held, told
    <2> QED BY <1>1, <1>2 DEF Windows, Same
  <1>6. ASSUME NEW l \in Browser!OfActor(held, k.actor), Browser!FinishedStores(t),
               window' = [window EXCEPT ![t] = [Browser!Finished(read) EXCEPT !.told[k.actor] = l]],
               local' = [local EXCEPT ![SiteOf[t]] = Browser!LocalAfterRead(t)]
        PROVE  BrowserFits' /\ Rests
    <2> DEFINE f == Browser!Finished(read)
               w == [f EXCEPT !.told[k.actor] = l]
    <2>1. /\ f \in Windows /\ f.mine = held /\ f.tasks = read.tasks /\ f.current = 0
          /\ f.progress = Browser!None /\ f.dialog = FALSE
          /\ f.active = (IF window[t].active = window[t].current THEN 0 ELSE window[t].active)
      <3> HIDE DEF held, read
      <3> QED BY <1>5, FinishesFit DEF Same
    <2>2. l \in Browser!Logins
      BY <1>2 DEF Browser!OfActor
    <2> HIDE DEF f, held, read, told
    <2>3. /\ w \in Windows /\ w.mine = held /\ w.tasks = window[t].tasks \ {k} /\ w.current = 0
          /\ w.progress = Browser!None /\ w.dialog = FALSE /\ w.active = f.active
      BY <1>3, <1>5, <2>1, <2>2 DEF Windows
    <2>4. window' = [window EXCEPT ![t] = w]
      BY <1>6 DEF f
    <2> HIDE DEF w
    <2>5. Shows(t, w)
      BY <1>1, <1>2, <1>3, <2>3, <2>4, WindowHas DEF Shows, Began
    <2>6. Idles(w, window[t])
      BY <2>1, <2>3 DEF Idles
    <2>7. /\ SavedFits' /\ oauth' \in [Sites -> SUBSET Browser!States]
          /\ \A s \in Sites : oauth'[s] \subseteq oauth[s]
          /\ \A s \in Sites : \A n \in Browser!Attempts : saved'[s][n] \in {saved[s][n], Browser!NotSaved}
      BY <1>3, <1>6, FinishedStoresFit
    <2>8. CopiesFit'
      BY <1>2, <1>6, WindowHas DEF BrowserFits, CopiesFit, IsList
    <2>9. BrowserFits'
      BY <1>3, <2>5, <2>7, <2>8, FitsAgain, HistoriesStay
    <2>10. /\ cookie' # Undefined => \A x \in cookie' : Listed(x)
           /\ \A s \in Sites : \A x \in local'[s] : Listed(x)
      BY <1>2, <1>3, <1>6, StoresAreListed
    <2>11. \A x \in w.mine : Listed(x)
      BY <1>2, <2>3
    <2> QED BY <1>3, <2>5, <2>6, <2>7, <2>9, <2>10, <2>11, ShowsRests
  <1>7. ASSUME window[t].current = k.attempt, UNCHANGED <<saved, oauth>>,
               window' = [window EXCEPT ![t] = [read EXCEPT !.tasks = @ \cup {[k EXCEPT !.kind = "resolve"]}]],
               local' = [local EXCEPT ![SiteOf[t]] = Browser!LocalAfterRead(t)]
        PROVE  /\ BrowserFits' /\ NoNewLogins /\ k \in Work(window[t]) /\ window[t].current # 0
               /\ \E w, n : /\ Shows(t, w) /\ Same(w, window[t])
                           /\ w.tasks = (window[t].tasks \ {k}) \cup {n}
                           /\ n.kind = "resolve" /\ n.attempt = w.current
    <2> DEFINE n == [k EXCEPT !.kind = "resolve"]
               w == [read EXCEPT !.tasks = @ \cup {n}]
    <2>1. n = [kind |-> "resolve", attempt |-> k.attempt, actor |-> k.actor]
      BY <1>3
    <2>2. n \in Browser!Tasks /\ n.kind = "resolve" /\ n.attempt = window[t].current
      BY <1>3, <1>7, <2>1, TaskIs
    <2> HIDE DEF n, read, held, told
    <2>3. /\ w \in Windows /\ w.mine = held /\ w.dialog = read.dialog
          /\ w.tasks = (window[t].tasks \ {k}) \cup {n} /\ Same(w, window[t])
      BY <1>5, <2>2 DEF Windows, Same
    <2>4. window' = [window EXCEPT ![t] = w]
      BY <1>7 DEF n
    <2> HIDE DEF w
    <2>5. Shows(t, w)
      <3>1. /\ IsList(w.mine) /\ w.current = window[t].current /\ (w.dialog => window[t].dialog)
            /\ n.attempt <= attempts
        BY <1>2, <1>3, <1>5, <1>7, <2>2, <2>3 DEF Same
      <3> QED BY <1>3, <2>2, <2>3, <2>4, <3>1, TaskFits
    <2>6. CopiesFit'
      BY <1>2, <1>7, WindowHas DEF BrowserFits, CopiesFit, IsList
    <2>7. BrowserFits'
      BY <1>3, <1>7, <2>5, <2>6, FitsAgain, HistoriesStay
    <2>8. /\ cookie' # Undefined => \A x \in cookie' : Listed(x)
          /\ \A s \in Sites : \A x \in local'[s] : Listed(x)
      BY <1>2, <1>3, <1>7, StoresAreListed
    <2>9. NoNewLogins
      BY <1>2, <2>3, <2>5, <2>8, ListsStay
    <2>10. k \in Work(window[t])
      BY <1>3, <1>7 DEF Work, Working
    <2> QED BY <1>3, <1>7, <2>2, <2>3, <2>5, <2>7, <2>9, <2>10 DEF Same
  <1> QED BY <1>3, <1>4, <1>6, <1>7 DEF Browser!LoginStarts

LEMMA CreateFits ==
  ASSUME BrowserFits, NEW t \in Tabs, Browser!Create(t)
  PROVE  /\ BrowserFits' /\ window[t].current # 0 /\ ~window[t].leaving /\ Work(window[t]) = {}
         /\ Browser!Save(t, window[t].current, window[t].progress)
         /\ visiting' = visiting \cup {window[t].current} /\ UNCHANGED <<oauth, attempts>>
         /\ ~NewTabs => /\ NoNewLogins /\ Shows(t, Browser!Closed)
  <1> DEFINE n == window[t].current
  <1>1. /\ window[t] \in Windows /\ window \in [Tabs -> Windows] /\ Began(window[t], attempts)
        /\ window[t].progress \in Browser!Progress
    BY WindowHas DEF BrowserFits, WindowsFit
  <1>2. /\ Browser!Save(t, n, window[t].progress) /\ visiting' = visiting \cup {n}
        /\ UNCHANGED <<cookie, local, oauth, attempts, revoked, due, late>> /\ Browser!InDialog(t)
        /\ window' = [window EXCEPT ![t] = Browser!Closed] \/ (NewTabs /\ UNCHANGED window)
    BY DEF Browser!Create
  <1>3. n \in Browser!Attempts /\ n # 0 /\ ~window[t].leaving /\ n <= attempts
    BY <1>1, <1>2, AttemptNumbers DEF Browser!InDialog, Began, Windows
  <1> HIDE DEF n
  <1>4. SavedFits'
    BY <1>1, <1>2, <1>3, SavesFit
  <1>5. AwayFits'
    BY <1>2, <1>3 DEF BrowserFits, AwayFits
  <1>6. HistoriesFit'
    BY <1>2, HistoriesStay
  <1>7. ASSUME window' = [window EXCEPT ![t] = Browser!Closed]
        PROVE  WindowsFit' /\ NoNewLogins /\ Shows(t, Browser!Closed)
    <2>1. Shows(t, Browser!Closed)
      BY <1>2, <1>7, ClosedFits, WindowHas DEF Shows
    <2>2. WindowsFit'
      BY <1>2, <1>6, <2>1, WindowsStay, WindowHas
    <2>3. Browser!Closed.mine = {}
      BY DEF Browser!Closed
    <2> QED BY <1>2, <2>1, <2>2, <2>3, ListsStay, AreListed
  <1>8. WindowsFit'
    BY <1>2, <1>7 DEF BrowserFits, WindowsFit
  <1>9. BrowserFits'
    BY <1>2, <1>4, <1>5, <1>6, <1>8 DEF BrowserFits, CookieFits, CopiesFit
  <1>10. Work(window[t]) = {}
    BY <1>2 DEF Browser!InDialog, Work, Working
  <1> QED BY <1>2, <1>3, <1>7, <1>9, <1>10 DEF n

\* What a failure leaves to an attempt.
Failed(t, k) ==
  /\ NoNewLogins /\ UNCHANGED <<oauth, visiting, attempts>>
  /\ \E w : /\ Shows(t, w) /\ w.current = window[t].current /\ w.active = window[t].active
           /\ w.activeState = window[t].activeState /\ w.leaving = window[t].leaving
           /\ w.tasks = window[t].tasks \ {k}
           /\ \/ /\ w.current = k.attempt /\ w.progress = Browser!None
                 /\ Browser!Save(t, k.attempt, Browser!None)
              \/ /\ w.current # k.attempt /\ w.progress = window[t].progress /\ UNCHANGED saved

LEMMA FailureFits ==
  ASSUME BrowserFits, NEW t \in Tabs, NEW k \in window[t].tasks, k.attempt \in Browser!Attempts,
         Browser!Fail(t, k.attempt, window[t].tasks \ {k}),
         UNCHANGED <<cookie, local, oauth, visiting, attempts, revoked, due, late>>
  PROVE  BrowserFits' /\ Failed(t, k)
  <1> DEFINE n == k.attempt
             tasks == window[t].tasks \ {k}
  <1>1. SavedFits'
    BY FailsFit
  <1>2. PICK w : /\ Shows(t, w) /\ w.tasks = tasks /\ w.current = window[t].current
                 /\ w.active = window[t].active /\ w.activeState = window[t].activeState
                 /\ w.leaving = window[t].leaving /\ w.mine = window[t].mine
                 /\ \/ /\ w.current = n /\ w.progress = Browser!None
                       /\ Browser!Save(t, n, Browser!None)
                    \/ /\ w.current # n /\ w.progress = window[t].progress /\ UNCHANGED saved
    BY FailsFit
  <1>3. BrowserFits'
    BY <1>1, <1>2, FitsAgain, HistoriesStay
  <1>4. NoNewLogins
    BY <1>2, ListsStay, AreListed
  <1> QED BY <1>2, <1>3, <1>4 DEF Failed

\* The attempt of k goes on with progress p, and task new.
Continued(t, k, new, p) ==
  /\ NoNewLogins /\ UNCHANGED <<oauth, visiting, attempts>> /\ Browser!Save(t, k.attempt, p)
  /\ window[t].current = k.attempt
  /\ \E w : /\ Shows(t, w) /\ w.current = window[t].current /\ w.progress = p
           /\ w.active = w.current /\ w.leaving = window[t].leaving
           /\ w.activeState = window[t].activeState
           /\ w.tasks = (window[t].tasks \ {k}) \cup {new}

LEMMA ContinueFits ==
  ASSUME BrowserFits, NEW t \in Tabs, NEW k \in window[t].tasks, k.attempt \in Browser!Attempts,
         k.attempt <= attempts, NEW new \in Browser!Tasks, new.attempt = k.attempt,
         NEW p \in Browser!Progress, window[t].current = k.attempt,
         window' = [window EXCEPT ![t].progress = p, ![t].active = k.attempt,
                                  ![t].tasks = (window[t].tasks \ {k}) \cup {new}],
         Browser!Save(t, k.attempt, p),
         UNCHANGED <<cookie, local, oauth, visiting, attempts, revoked, due, late>>
  PROVE  BrowserFits' /\ Continued(t, k, new, p)
  <1> DEFINE w == [window[t] EXCEPT !.progress = p, !.active = k.attempt,
                                    !.tasks = (window[t].tasks \ {k}) \cup {new}]
  <1>1. /\ window[t] \in Windows /\ window \in [Tabs -> Windows] /\ Began(window[t], attempts)
        /\ IsList(window[t].mine)
    BY WindowHas DEF BrowserFits, WindowsFit
  <1>2. window' = [window EXCEPT ![t] = w]
    BY <1>1
  <1>3. /\ w \in Windows /\ w.mine = window[t].mine /\ w.current = window[t].current
        /\ w.progress = p /\ w.active = w.current /\ w.leaving = window[t].leaving
        /\ w.activeState = window[t].activeState /\ w.dialog = window[t].dialog
        /\ w.tasks = (window[t].tasks \ {k}) \cup {new}
    BY <1>1 DEF Windows
  <1> HIDE DEF w
  <1>4. Shows(t, w)
    <2>1. /\ IsList(w.mine) /\ (w.dialog => window[t].dialog)
          /\ (new.kind \in Working => new.attempt <= attempts)
      BY <1>1, <1>3
    <2>2. UNCHANGED attempts /\ w \in Windows /\ w.current = window[t].current
      BY <1>3
    <2>3. w.tasks = (window[t].tasks \ {k}) \cup {new}
      BY <1>3
    <2> QED BY <1>2, <2>1, <2>2, <2>3, TaskFits
  <1>5. SavedFits'
    BY SavesFit
  <1>6. BrowserFits'
    BY <1>4, <1>5, FitsAgain, HistoriesStay
  <1>7. NoNewLogins
    BY <1>3, <1>4, ListsStay, AreListed
  <1> QED BY <1>3, <1>4, <1>6, <1>7 DEF Continued

LEMMA ResolvedFits ==
  ASSUME BrowserFits, NEW t \in Tabs, NEW k \in window[t].tasks, Browser!Resolved(t, k)
  PROVE  /\ BrowserFits' /\ k.kind = "resolve"
         /\ \/ Failed(t, k)
            \/ \E new : /\ Continued(t, k, new, [actor |-> k.actor, tokens |-> <<>>])
                       /\ new.kind = "configure" /\ new.attempt = k.attempt
                       /\ new.provider = 1 /\ new.actor = k.actor
  <1> DEFINE p == [actor |-> k.actor, tokens |-> <<>>]
             new == [kind |-> "configure", attempt |-> k.attempt, provider |-> 1, actor |-> k.actor]
  <1>1. /\ k.kind = "resolve" /\ k.attempt \in Browser!Attempts /\ k.actor \in Actors
        /\ k.attempt <= attempts
        /\ UNCHANGED <<cookie, local, oauth, visiting, attempts, revoked, due, late>>
    BY WindowHas, TaskHas DEF Browser!Resolved, Began, Working
  <1>2. Providers[k.actor] \in Nat \ {0}
    BY <1>1, ProvidersExist
  <1>3. new \in Browser!Tasks
    <2>1. 1 \in 1..Providers[k.actor]
      BY <1>2
    <2> QED BY <1>1, <2>1, TaskIs
  <1>4. p \in Browser!Progress
    <2>1. <<>> \in [1..0 -> Browser!Tokens] /\ 0 \in 0..(Providers[k.actor] - 1)
      BY <1>2
    <2> QED BY <1>1, <2>1, ProgressIs
  <1>5. CASE Browser!Fail(t, k.attempt, window[t].tasks \ {k})
    BY <1>1, <1>5, FailureFits
  <1>6. CASE /\ window[t].current = k.attempt /\ Browser!Save(t, k.attempt, p)
             /\ window' = [window EXCEPT ![t].progress = p, ![t].active = k.attempt,
                                         ![t].tasks = (window[t].tasks \ {k}) \cup {new}]
    <2>1. new.kind = "configure" /\ new.attempt = k.attempt /\ new.provider = 1 /\ new.actor = k.actor
      OBVIOUS
    <2> HIDE DEF new, p
    <2>2. BrowserFits' /\ Continued(t, k, new, p)
      BY <1>1, <1>3, <1>4, <1>6, <2>1, ContinueFits
    <2> QED BY <1>1, <2>1, <2>2 DEF p
  <1> QED BY <1>5, <1>6 DEF Browser!Resolved

LEMMA ConfiguredFits ==
  ASSUME BrowserFits, NEW t \in Tabs, NEW k \in window[t].tasks, Browser!Configured(t, k)
  PROVE  /\ BrowserFits' /\ k.kind = "configure" /\ k.attempt # 0
         /\ \/ Rests
            \/ window[t].active = k.attempt /\ Failed(t, k)
            \/ /\ NoNewLogins /\ UNCHANGED <<saved, visiting, attempts>>
               /\ window[t].active = k.attempt
               /\ \E w, s : /\ Shows(t, w) /\ w.current = window[t].current
                           /\ w.progress = window[t].progress /\ w.active = window[t].active
                           /\ w.leaving /\ w.activeState = s /\ w.tasks = window[t].tasks \ {k}
                           /\ s.attempt = k.attempt /\ s.provider = k.provider /\ s.actor = k.actor
                           /\ oauth' = [oauth EXCEPT ![SiteOf[t]] = @ \cup {s}]
  <1> DEFINE s == [attempt |-> k.attempt, provider |-> k.provider, actor |-> k.actor]
  <1>1. /\ k.kind = "configure" /\ k.attempt \in Browser!Attempts /\ k.actor \in Actors
        /\ k.provider \in 1..Providers[k.actor] /\ k.attempt <= attempts /\ k.attempt # 0
        /\ UNCHANGED <<cookie, local, visiting, attempts, revoked, due, late>>
    BY WindowHas, TaskHas, AttemptNumbers DEF Browser!Configured, Began, Working
  <1>2. CASE UNCHANGED <<saved, oauth>> /\ window' = [window EXCEPT ![t].tasks = window[t].tasks \ {k}]
    BY <1>1, <1>2, DroppedRests
  <1>3. CASE /\ window[t].active = k.attempt
             /\ Browser!Fail(t, k.attempt, window[t].tasks \ {k}) /\ UNCHANGED oauth
    BY <1>1, <1>3, FailureFits
  <1>4. ASSUME window[t].active = k.attempt, UNCHANGED saved,
               oauth' = [oauth EXCEPT ![SiteOf[t]] = @ \cup {s}],
               window' = [window EXCEPT ![t].tasks = window[t].tasks \ {k}, ![t].activeState = s,
                                        ![t].leaving = TRUE]
        PROVE  /\ BrowserFits' /\ NoNewLogins
               /\ \E w : /\ Shows(t, w) /\ w.current = window[t].current
                        /\ w.progress = window[t].progress /\ w.active = window[t].active
                        /\ w.leaving /\ w.activeState = s /\ w.tasks = window[t].tasks \ {k}
    <2> DEFINE w == [window[t] EXCEPT !.tasks = @ \ {k}, !.activeState = s, !.leaving = TRUE]
    <2>1. /\ window[t] \in Windows /\ window \in [Tabs -> Windows] /\ Began(window[t], attempts)
          /\ IsList(window[t].mine)
      BY WindowHas DEF BrowserFits, WindowsFit
    <2>2. window' = [window EXCEPT ![t] = w]
      BY <1>4, <2>1
    <2>3. s \in Browser!States /\ s.attempt <= attempts
      BY <1>1, StateIs
    <2> HIDE DEF s
    <2>4. /\ w \in Windows /\ w.mine = window[t].mine /\ w.current = window[t].current
          /\ w.progress = window[t].progress /\ w.active = window[t].active
          /\ w.leaving /\ w.activeState = s /\ w.tasks = window[t].tasks \ {k}
          /\ w.dialog = window[t].dialog
      BY <2>1, <2>3 DEF Windows
    <2> HIDE DEF w
    <2>5. Shows(t, w)
      BY <1>1, <2>1, <2>2, <2>4 DEF Shows, Began
    <2>6. AwayFits'
      BY <1>1, <1>4, <2>3, WindowHas DEF BrowserFits, AwayFits
    <2>7. WindowsFit'
      BY <1>1, <2>5, WindowsStay, WindowHas, HistoriesStay
    <2>8. BrowserFits'
      BY <1>1, <1>4, <2>6, <2>7, HistoriesStay DEF BrowserFits, CookieFits, CopiesFit, SavedFits
    <2>9. NoNewLogins
      BY <1>1, <2>4, <2>5, ListsStay, AreListed
    <2> QED BY <2>4, <2>5, <2>8, <2>9
  <1>5. /\ s.attempt = k.attempt /\ s.provider = k.provider /\ s.actor = k.actor
    OBVIOUS
  <1>6. \/ UNCHANGED <<saved, oauth>> /\ window' = [window EXCEPT ![t].tasks = window[t].tasks \ {k}]
        \/ /\ window[t].active = k.attempt
           /\ Browser!Fail(t, k.attempt, window[t].tasks \ {k}) /\ UNCHANGED oauth
        \/ /\ window[t].active = k.attempt /\ UNCHANGED saved
           /\ oauth' = [oauth EXCEPT ![SiteOf[t]] = @ \cup {s}]
           /\ window' = [window EXCEPT ![t].tasks = window[t].tasks \ {k}, ![t].activeState = s,
                                       ![t].leaving = TRUE]
    BY DEF Browser!Configured
  <1> HIDE DEF s
  <1> QED BY <1>1, <1>2, <1>3, <1>4, <1>5, <1>6

\* The last token of an attempt makes its progress a login.
Completed(t, k, l) ==
  /\ \A x \in Browser!Logins : Listed(x)' => Listed(x) \/ x = l
  /\ \E w : Shows(t, w) /\ Idles(w, window[t])
  /\ \A s \in Sites : oauth'[s] \subseteq oauth[s]
  /\ \A s \in Sites : \A n \in Browser!Attempts : saved'[s][n] \in {saved[s][n], Browser!NotSaved}
  /\ UNCHANGED <<visiting, attempts>>

LEMMA CompleteFits ==
  ASSUME BrowserFits, NEW t \in Tabs, NEW k \in window[t].tasks, NEW l \in Browser!Logins,
         Browser!Complete(t, l, window[t].tasks \ {k}),
         UNCHANGED <<visiting, attempts, revoked, late>>
  PROVE  BrowserFits' /\ Completed(t, k, l)
  <1> DEFINE f == Browser!Finished(window[t])
             mine == Browser!Updated(window[t].mine, l, FALSE)
             w == [f EXCEPT !.tasks = window[t].tasks \ {k}, !.told[l.actor] = l, !.mine = mine]
  <1>1. /\ window[t] \in Windows /\ window \in [Tabs -> Windows] /\ Began(window[t], attempts)
        /\ IsList(window[t].mine) /\ l.actor \in Actors
    BY WindowHas, LoginHas DEF BrowserFits, WindowsFit
  <1>2. /\ f \in Windows /\ f.mine = window[t].mine /\ f.current = 0 /\ f.progress = Browser!None
        /\ f.dialog = FALSE
        /\ f.active = (IF window[t].active = window[t].current THEN 0 ELSE window[t].active)
    BY <1>1, FinishesFit
  <1>3. window' = [window EXCEPT ![t] = w]
    BY DEF Browser!Complete
  <1>4. IsList(mine) /\ mine \in SUBSET Browser!Logins
    BY <1>1, UpdatesFit DEF IsList
  <1> HIDE DEF f, mine
  <1>5. /\ w \in Windows /\ w.mine = mine /\ w.current = 0 /\ w.progress = Browser!None
        /\ w.dialog = FALSE /\ w.active = f.active /\ w.tasks = window[t].tasks \ {k}
    BY <1>1, <1>2, <1>4 DEF Windows
  <1> HIDE DEF w
  <1>6. Shows(t, w)
    BY <1>1, <1>3, <1>4, <1>5, WindowHas DEF Shows, Began
  <1>7. Idles(w, window[t])
    BY <1>2, <1>5 DEF Idles
  <1>8. /\ SavedFits' /\ oauth' \in [Sites -> SUBSET Browser!States]
        /\ \A s \in Sites : oauth'[s] \subseteq oauth[s]
        /\ \A s \in Sites : \A n \in Browser!Attempts : saved'[s][n] \in {saved[s][n], Browser!NotSaved}
    BY FinishedStoresFit DEF Browser!Complete
  <1>9. CookieFits' /\ CopiesFit'
    BY StoresFit, WindowHas DEF Browser!Complete
  <1>10. HistoriesFit'
    BY DEF Browser!Complete, BrowserFits, HistoriesFit
  <1>11. BrowserFits'
    BY <1>6, <1>8, <1>9, <1>10, FitsAgain
  <1>12. \A x \in Browser!Logins : Listed(x)' => Listed(x) \/ x = l
    <2>1. \A u \in Tabs : \A x \in window'[u].mine : Listed(x) \/ x = l
      <3>1. \A x \in w.mine : Listed(x) \/ x = l
        BY <1>5, AreListed DEF mine, Browser!Updated
      <3>2. window'[t] = w /\ \A u \in Tabs \ {t} : window'[u] = window[u]
        BY <1>1, <1>3
      <3> QED BY <3>1, <3>2 DEF Listed
    <2>2. cookie' # Undefined => \A x \in cookie' : Listed(x) \/ x = l
      <3>1. cookie' = cookie \/ (cookie # Undefined /\ cookie' = Browser!Updated(cookie, l, FALSE))
            \/ cookie' = Browser!Updated({}, l, FALSE)
        BY DEF Browser!Complete, Browser!StoresUpdated, Browser!Shared
      <3> QED BY <3>1 DEF Listed, Browser!Updated
    <2>3. \A s \in Sites : \A x \in local'[s] : Listed(x) \/ x = l
      <3>1. local' = [local EXCEPT ![SiteOf[t]] = Browser!Updated(local[SiteOf[t]], l, FALSE)]
        BY DEF Browser!Complete, Browser!StoresUpdated
      <3>2. \A s \in Sites : \A x \in local[s] : Listed(x)
        BY DEF Listed
      <3> QED BY <3>1, <3>2, WindowHas DEF Browser!Updated, BrowserFits, CopiesFit
    <2> QED BY <2>1, <2>2, <2>3 DEF Listed
  <1> QED BY <1>6, <1>7, <1>8, <1>11, <1>12 DEF Completed

LEMMA GrantedFits ==
  ASSUME BrowserFits, NEW t \in Tabs, NEW k \in window[t].tasks, Browser!Granted(t, k)
  PROVE  /\ BrowserFits' /\ k.kind = "grant" /\ k.attempt # 0
         /\ \/ Rests
            \/ Browser!Wanted(t, k) /\ Failed(t, k)
            \/ \E p : /\ Browser!Wanted(t, k) /\ window[t].progress.actor # NoActor
                     /\ window[t].progress \in Browser!Progress
                     /\ window[t].progress.tokens \in Seq(Browser!Tokens)
                     /\ p.actor = window[t].progress.actor
                     /\ p.tokens = Append(window[t].progress.tokens,
                          [attempt |-> k.attempt, provider |-> k.provider, actor |-> k.actor])
                     /\ \/ Completed(t, k, p) /\ p \in Browser!Logins
                        \/ \E new : /\ Continued(t, k, new, p)
                                   /\ new.kind = "configure" /\ new.attempt = k.attempt
                                   /\ new.provider = Len(p.tokens) + 1 /\ new.actor = p.actor
  <1> DEFINE x == [attempt |-> k.attempt, provider |-> k.provider, actor |-> k.actor]
             q == window[t].progress
             p == [q EXCEPT !.tokens = Append(@, x)]
             new == [kind |-> "configure", attempt |-> window[t].current,
                     provider |-> Len(p.tokens) + 1, actor |-> p.actor]
             rest == window[t].tasks \ {k}
  <1>1. /\ k.kind = "grant" /\ k.attempt \in Browser!Attempts /\ k.actor \in Actors
        /\ k.provider \in 1..Providers[k.actor] /\ k.attempt <= attempts /\ k.attempt # 0
        /\ UNCHANGED <<visiting, attempts, revoked, late>>
    BY WindowHas, TaskHas, AttemptNumbers DEF Browser!Granted, Began, Working
  <1>2. x \in Browser!Tokens /\ q \in Browser!Progress
    BY <1>1, StateIs, WindowHas DEF Browser!Tokens
  <1>3. CASE UNCHANGED <<cookie, local, saved, oauth, due>> /\ window' = [window EXCEPT ![t].tasks = rest]
    BY <1>1, <1>3, DroppedRests
  <1>4. CASE /\ Browser!Wanted(t, k) /\ Browser!Fail(t, k.attempt, rest)
             /\ UNCHANGED <<cookie, local, oauth, due>>
    BY <1>1, <1>4, FailureFits
  <1>5. ASSUME q.actor # NoActor
        PROVE  /\ p.actor = q.actor /\ q.actor \in Actors /\ q.tokens \in Seq(Browser!Tokens)
               /\ p.tokens = Append(q.tokens, x) /\ Len(p.tokens) \in Nat /\ Len(p.tokens) >= 1
               /\ Providers[p.actor] \in Nat
               /\ Len(p.tokens) = Providers[p.actor] => p \in Browser!Logins
               /\ Len(p.tokens) < Providers[p.actor] => p \in Browser!Progress
    <2> HIDE DEF x, q
    <2>1. /\ p.actor = q.actor /\ q.actor \in Actors /\ q.tokens \in Seq(Browser!Tokens)
          /\ Len(q.tokens) \in Nat /\ p.tokens = Append(q.tokens, x)
          /\ Len(p.tokens) = Len(q.tokens) + 1
          /\ Len(p.tokens) = Providers[q.actor] => p \in Browser!Logins
          /\ Len(p.tokens) < Providers[q.actor] => p \in Browser!Progress
      BY <1>2, <1>5, ProgressGrows
    <2> QED BY <2>1, ProvidersExist
  <1>6. CASE /\ Browser!Wanted(t, k) /\ q.actor # NoActor /\ Len(p.tokens) = Providers[p.actor]
             /\ Browser!Complete(t, p, rest)
    <2>1. p \in Browser!Logins /\ p.actor = q.actor /\ p.tokens = Append(q.tokens, x)
          /\ q.tokens \in Seq(Browser!Tokens)
      BY <1>5, <1>6
    <2> HIDE DEF p
    <2>2. BrowserFits' /\ Completed(t, k, p)
      BY <1>1, <1>6, <2>1, CompleteFits
    <2> QED BY <1>1, <1>2, <1>6, <2>1, <2>2
  <1>7. CASE /\ Browser!Wanted(t, k) /\ q.actor # NoActor /\ Len(p.tokens) < Providers[p.actor]
             /\ window' = [window EXCEPT ![t].progress = p, ![t].active = window[t].current,
                                         ![t].tasks = rest \cup {new}]
             /\ Browser!Save(t, window[t].current, p) /\ UNCHANGED <<cookie, local, oauth, due>>
    <2>1. /\ p \in Browser!Progress /\ p.actor = q.actor /\ p.tokens = Append(q.tokens, x)
          /\ q.actor \in Actors /\ q.tokens \in Seq(Browser!Tokens)
          /\ Len(p.tokens) + 1 \in 1..Providers[p.actor]
      <3>1. /\ p.actor = q.actor /\ q.actor \in Actors /\ q.tokens \in Seq(Browser!Tokens)
            /\ p.tokens = Append(q.tokens, x) /\ p \in Browser!Progress
            /\ Len(p.tokens) \in Nat /\ Providers[p.actor] \in Nat
        BY <1>5, <1>7
      <3>2. \A n, m \in Nat : n < m => n + 1 \in 1..m
        OBVIOUS
      <3> HIDE DEF p
      <3> QED BY <1>7, <3>1, <3>2
    <2>2. window[t].current = k.attempt
      BY <1>7 DEF Browser!Wanted
    <2>3. /\ new \in Browser!Tasks /\ new.kind = "configure" /\ new.attempt = k.attempt
          /\ new.provider = Len(p.tokens) + 1 /\ new.actor = p.actor
      <3> HIDE DEF p
      <3> QED BY <1>1, <2>1, <2>2, TaskIs
    <2> HIDE DEF p, new
    <2>4. BrowserFits' /\ Continued(t, k, new, p)
      BY <1>1, <1>7, <2>1, <2>2, <2>3, ContinueFits
    <2> QED BY <1>1, <1>2, <1>7, <2>1, <2>3, <2>4
  <1>8. \/ UNCHANGED <<cookie, local, saved, oauth, due>> /\ window' = [window EXCEPT ![t].tasks = rest]
        \/ /\ Browser!Wanted(t, k) /\ Browser!Fail(t, k.attempt, rest)
           /\ UNCHANGED <<cookie, local, oauth, due>>
        \/ /\ Browser!Wanted(t, k) /\ q.actor # NoActor /\ Len(p.tokens) = Providers[p.actor]
           /\ Browser!Complete(t, p, rest)
        \/ /\ Browser!Wanted(t, k) /\ q.actor # NoActor /\ Len(p.tokens) < Providers[p.actor]
           /\ window' = [window EXCEPT ![t].progress = p, ![t].active = window[t].current,
                                       ![t].tasks = rest \cup {new}]
           /\ Browser!Save(t, window[t].current, p) /\ UNCHANGED <<cookie, local, oauth, due>>
    BY DEF Browser!Granted
  <1> HIDE DEF p, new, rest
  <1> QED BY <1>3, <1>4, <1>6, <1>7, <1>8

-----------------------------------------------------------------------------
(* A page that a redirect leads to.                                        *)

\* Tab t has come back for attempt n, to do task k if localStorage has it.
Returned(t, n, k) ==
  /\ NoNewLogins /\ UNCHANGED <<saved, attempts>>
  /\ n \in Browser!Attempts /\ k.attempt = n /\ k.kind \in {"login", "grant"}
  /\ \E w : /\ Shows(t, w) /\ ~w.leaving /\ w.tasks \subseteq {k}
           /\ \/ /\ w.current = n /\ w.progress = saved[SiteOf[t]][n] /\ w.active \in {0, n}
                 /\ w.progress # Browser!NotSaved
              \/ w.current = 0 /\ w.progress = Browser!None /\ w.active = 0

\* What is away after some of it has come back.
LEMMA AwayShrinks ==
  ASSUME BrowserFits, UNCHANGED attempts, visiting' \subseteq visiting,
         \/ UNCHANGED oauth
         \/ \E t \in Tabs : \E s : oauth' = [oauth EXCEPT ![SiteOf[t]] = @ \ {s}]
  PROVE  AwayFits' /\ \A s \in Sites : oauth'[s] \subseteq oauth[s]
  BY DEF BrowserFits, AwayFits

LEMMA ReturnFits ==
  ASSUME BrowserFits, NEW t \in Tabs, NEW s \in oauth[SiteOf[t]], Browser!Return(t, s)
  PROVE  /\ BrowserFits' /\ UNCHANGED visiting
         /\ oauth' = [oauth EXCEPT ![SiteOf[t]] = @ \ {s}]
         /\ \A u \in Tabs : window[u].activeState # s
         /\ Returned(t, s.attempt, [kind |-> "grant", attempt |-> s.attempt,
                                   provider |-> s.provider, actor |-> s.actor])
  <1> DEFINE k == [kind |-> "grant", attempt |-> s.attempt, provider |-> s.provider, actor |-> s.actor]
             n == s.attempt
  <1>1. PICK access \in Browser!Access(t) :
          /\ window' = [window EXCEPT ![t] =
                Browser!Restored(t, n, [Browser!Loaded(t, access) EXCEPT !.active = n, !.tasks = {k}])]
          /\ local' = [local EXCEPT ![SiteOf[t]] = window'[t].mine]
    BY DEF Browser!Return
  <1>2. /\ UNCHANGED <<cookie, saved, visiting, attempts, revoked, due, late>>
        /\ oauth' = [oauth EXCEPT ![SiteOf[t]] = @ \ {s}]
        /\ \A u \in Tabs : window[u].activeState # s
    BY DEF Browser!Return
  <1>3. s \in Browser!States /\ n \in Browser!Attempts /\ n <= attempts /\ k \in Browser!Tasks
    <2>1. s \in Browser!States /\ s.attempt <= attempts
      BY WindowHas DEF BrowserFits, AwayFits
    <2> QED BY <2>1, StateHas, TaskIs
  <1>4. k.attempt = n /\ k.kind = "grant"
    OBVIOUS
  <1> HIDE DEF k
  <1> DEFINE loaded == Browser!Loaded(t, access)
             p == [loaded EXCEPT !.active = n, !.tasks = {k}]
             w == Browser!Restored(t, n, p)
  <1>5. /\ loaded \in Windows /\ IsList(loaded.mine) /\ ~loaded.leaving /\ loaded.dialog = FALSE
        /\ loaded.mine = local[SiteOf[t]] \/ (cookie # Undefined /\ loaded.mine = cookie)
    BY LoadsFit
  <1>6. window' = [window EXCEPT ![t] = w] /\ window'[t] = w
    BY <1>1 DEF BrowserFits, WindowsFit
  <1> HIDE DEF loaded
  <1>7. /\ p \in Windows /\ p.mine = loaded.mine /\ p.tasks = {k} /\ p.active = n
        /\ p.leaving = loaded.leaving /\ p.dialog = loaded.dialog
    BY <1>3, <1>5 DEF Windows
  <1> HIDE DEF p
  <1>8. /\ w \in Windows /\ w.mine = loaded.mine /\ w.tasks = {k} /\ ~w.leaving /\ w.dialog = FALSE
        /\ \/ /\ w.current = n /\ w.progress = saved[SiteOf[t]][n] /\ w.active = n
              /\ w.progress # Browser!NotSaved
           \/ w.current = 0 /\ w.progress = Browser!None /\ w.active = 0
    BY <1>3, <1>5, <1>7, RestoresFit
  <1> HIDE DEF w
  <1>9. Shows(t, w)
    BY <1>2, <1>3, <1>4, <1>5, <1>6, <1>8, WindowHas DEF Shows, Began
  <1>10. \A l \in w.mine : Listed(l)
    BY <1>5, <1>8, AreListed, WindowHas
  <1>11. IsList(w.mine) /\ local' = [local EXCEPT ![SiteOf[t]] = w.mine]
    BY <1>1, <1>5, <1>6, <1>8
  <1>12. CopiesFit'
    BY <1>11, WindowHas DEF BrowserFits, CopiesFit, IsList
  <1>13. NoNewLogins
    BY <1>2, <1>9, <1>10, <1>11, ListsStay, StoresAreListed
  <1>14. AwayFits' /\ WindowsFit'
    <2>1. AwayFits'
      BY <1>2, AwayShrinks
    <2> QED BY <1>2, <1>9, <2>1, WindowsStay, WindowHas, HistoriesStay
  <1>15. BrowserFits'
    BY <1>2, <1>12, <1>14, HistoriesStay DEF BrowserFits, CookieFits, SavedFits
  <1>16. Returned(t, n, k)
    BY <1>2, <1>3, <1>4, <1>8, <1>9, <1>13 DEF Returned
  <1> QED BY <1>2, <1>15, <1>16 DEF k

LEMMA AccountFits ==
  ASSUME BrowserFits, NEW t \in Tabs, NEW n \in Browser!Attempts, n <= attempts, NEW a \in Actors,
         NEW access \in Browser!Access(t), NEW active \in {0, n},
         Browser!WithAccount(t, n, a, access, active), AwayFits',
         UNCHANGED <<cookie, saved, attempts, revoked, due, late>>
  PROVE  BrowserFits' /\ Returned(t, n, [kind |-> "login", attempt |-> n, actor |-> a])
  <1> DEFINE loaded == Browser!Loaded(t, access)
  <1>1. /\ loaded \in Windows /\ IsList(loaded.mine) /\ ~loaded.leaving /\ loaded.dialog = FALSE
        /\ loaded.mine = local[SiteOf[t]] \/ (cookie # Undefined /\ loaded.mine = cookie)
        /\ loaded.tasks = {}
    BY LoadsFit
  <1> DEFINE k == [kind |-> "login", attempt |-> n, actor |-> a]
             p == [loaded EXCEPT !.active = active]
             r == Browser!Restored(t, n, p)
             w == [r EXCEPT !.page = "starting", !.told = Browser!Closed.told, !.tasks = {k}]
  <1>2. active \in Browser!Attempts \cup {Browser!NoAttempt} /\ window \in [Tabs -> Windows]
    BY AttemptNumbers DEF BrowserFits, WindowsFit
  <1>3. /\ k \in Browser!Tasks /\ k.attempt = n /\ k.kind = "login"
        /\ Browser!Closed.told \in [Actors -> Browser!Logins \cup {Browser!None}]
    BY TaskIs, ClosedFits DEF Windows
  <1>4. \/ /\ r.current = Browser!NoAttempt /\ window' = [window EXCEPT ![t] = r]
           /\ local' = [local EXCEPT ![SiteOf[t]] = r.mine]
        \/ /\ r.current # Browser!NoAttempt /\ window' = [window EXCEPT ![t] = w] /\ UNCHANGED local
    BY DEF Browser!WithAccount
  <1> HIDE DEF loaded, k
  <1>5. /\ p \in Windows /\ p.mine = loaded.mine /\ p.tasks = {} /\ p.active = active
        /\ p.leaving = loaded.leaving /\ p.dialog = loaded.dialog
    BY <1>1, <1>2 DEF Windows
  <1> HIDE DEF p
  <1>6. /\ r \in Windows /\ r.mine = loaded.mine /\ r.tasks = {} /\ ~r.leaving /\ r.dialog = FALSE
        /\ \/ /\ r.current = n /\ r.progress = saved[SiteOf[t]][n] /\ r.active = active
              /\ r.progress # Browser!NotSaved
           \/ r.current = 0 /\ r.progress = Browser!None /\ r.active = 0
    BY <1>1, <1>5, RestoresFit
  <1> HIDE DEF r
  <1>7. /\ w \in Windows /\ w.mine = r.mine /\ w.tasks = {k} /\ w.leaving = r.leaving
        /\ w.dialog = r.dialog /\ w.current = r.current /\ w.progress = r.progress
        /\ w.active = r.active
    BY <1>3, <1>6 DEF Windows
  <1> HIDE DEF w
  <1>8. \A l \in r.mine : Listed(l)
    BY <1>1, <1>6, AreListed, WindowHas
  <1>9. ASSUME NEW z \in {r, w}, window' = [window EXCEPT ![t] = z],
               UNCHANGED local \/ local' = [local EXCEPT ![SiteOf[t]] = r.mine]
        PROVE  BrowserFits' /\ Returned(t, n, k)
    <2>1. /\ z \in Windows /\ z.mine = r.mine /\ z.tasks \subseteq {k} /\ ~z.leaving
          /\ z.dialog = FALSE /\ z.current = r.current /\ z.progress = r.progress
          /\ z.active = r.active
      BY <1>6, <1>7, <1>9
    <2>2. Shows(t, z)
      BY <1>1, <1>3, <1>6, <1>9, <2>1, WindowHas DEF Shows, Began
    <2>3. CopiesFit'
      BY <1>1, <1>6, <1>9, WindowHas DEF BrowserFits, CopiesFit, IsList
    <2>4. NoNewLogins
      BY <1>8, <1>9, <2>1, <2>2, ListsStay, StoresAreListed, AreListed
    <2>5. BrowserFits'
      BY <2>2, <2>3, WindowsStay, WindowHas, HistoriesStay DEF BrowserFits, CookieFits, SavedFits
    <2>6. Returned(t, n, k)
      BY <1>3, <1>6, <2>1, <2>2, <2>4 DEF Returned
    <2> QED BY <2>5, <2>6
  <1>10. BrowserFits' /\ Returned(t, n, k)
    BY <1>4, <1>9
  <1> QED BY <1>10 DEF k

LEMMA ReturnAccountFits ==
  ASSUME BrowserFits, NEW t \in Tabs, NEW s \in oauth[SiteOf[t]], NEW a \in Actors,
         Browser!ReturnAccount(t, s, a)
  PROVE  /\ BrowserFits' /\ UNCHANGED visiting
         /\ oauth' = [oauth EXCEPT ![SiteOf[t]] = @ \ {s}]
         /\ \A u \in Tabs : window[u].activeState # s
         /\ Returned(t, s.attempt, [kind |-> "login", attempt |-> s.attempt, actor |-> a])
  <1>1. PICK access \in Browser!Access(t) : Browser!WithAccount(t, s.attempt, a, access, s.attempt)
    BY DEF Browser!ReturnAccount
  <1>2. /\ UNCHANGED <<cookie, saved, visiting, attempts, revoked, due, late>>
        /\ oauth' = [oauth EXCEPT ![SiteOf[t]] = @ \ {s}]
        /\ \A u \in Tabs : window[u].activeState # s
    BY DEF Browser!ReturnAccount
  <1>3. s.attempt \in Browser!Attempts /\ s.attempt <= attempts
    BY WindowHas, StateHas DEF BrowserFits, AwayFits
  <1>4. AwayFits'
    BY <1>2, AwayShrinks
  <1> QED BY <1>1, <1>2, <1>3, <1>4, AccountFits

LEMMA ReturnCreatedFits ==
  ASSUME BrowserFits, NEW t \in Tabs, NEW n \in visiting, NEW a \in Actors,
         Browser!ReturnCreated(t, n, a)
  PROVE  /\ BrowserFits' /\ UNCHANGED oauth /\ visiting' = visiting \ {n}
         /\ Returned(t, n, [kind |-> "login", attempt |-> n, actor |-> a])
  <1>1. PICK access \in Browser!Access(t) :
          Browser!WithAccount(t, n, a, access, Browser!NoAttempt)
    BY DEF Browser!ReturnCreated
  <1>2. /\ UNCHANGED <<cookie, saved, oauth, attempts, revoked, due, late>>
        /\ visiting' = visiting \ {n}
    BY DEF Browser!ReturnCreated
  <1>3. n \in Browser!Attempts /\ n <= attempts /\ Browser!NoAttempt = 0
    BY AttemptNumbers DEF BrowserFits, AwayFits
  <1>4. AwayFits'
    BY <1>2, AwayShrinks
  <1> QED BY <1>1, <1>2, <1>3, <1>4, AccountFits

-----------------------------------------------------------------------------
(* Every step.                                                             *)

LEMMA InitBrowser == Browser!Init => BrowserFits
  <1> SUFFICES ASSUME Browser!Init PROVE BrowserFits
    OBVIOUS
  <1>1. /\ window = [t \in Tabs |-> Browser!Closed] /\ cookie = Undefined
        /\ local = [s \in Sites |-> {}] /\ oauth = [s \in Sites |-> {}]
        /\ saved = [s \in Sites |-> [n \in Browser!Attempts |-> Browser!NotSaved]]
        /\ visiting = {} /\ attempts = 0 /\ revoked = {} /\ due = {} /\ late = {}
    BY DEF Browser!Init
  <1>2. WindowsFit
    BY <1>1, ClosedFits DEF WindowsFit
  <1>3. CookieFits /\ CopiesFit /\ SavedFits /\ AwayFits
    BY <1>1 DEF CookieFits, CopiesFit, SavedFits, AwayFits, IsList, OneEach
  <1>4. HistoriesFit
    BY <1>1, BoundIsNatural DEF HistoriesFit
  <1> QED BY <1>2, <1>3, <1>4 DEF BrowserFits

\* Steps that begin an attempt, or go on with one.
AttemptSteps(t) ==
  \/ Browser!Begin(t) \/ Browser!Create(t)
  \/ \E a \in Actors : Browser!Submit(t, a)
  \/ \E s \in oauth[SiteOf[t]] :
       Browser!Return(t, s) \/ \E a \in Actors : Browser!ReturnAccount(t, s, a)
  \/ \E n \in visiting, a \in Actors : Browser!ReturnCreated(t, n, a)
  \/ \E k \in window[t].tasks :
       \/ Browser!LoginStarts(t, k) \/ Browser!Resolved(t, k)
       \/ Browser!Configured(t, k) \/ Browser!Granted(t, k)

LEMMA StutterRests ==
  ASSUME BrowserFits, UNCHANGED Browser!vars
  PROVE  BrowserFits' /\ Rests
  <1>1. UNCHANGED <<window, cookie, local, saved, oauth, visiting, attempts, revoked, due, late>>
    BY DEF Browser!vars
  <1>2. BrowserFits'
    BY <1>1 DEF BrowserFits, WindowsFit, CookieFits, CopiesFit, SavedFits, AwayFits, HistoriesFit
  <1>3. Rests
    BY <1>1, IdlesItself DEF Rests, Pauses, NoNewLogins, Listed
  <1> QED BY <1>2, <1>3

LEMMA StepKinds ==
  ASSUME BrowserFits, [Browser!Next]_(Browser!vars)
  PROVE  (BrowserFits' /\ Rests) \/ \E t \in Tabs : AttemptSteps(t)
  <1>1. ASSUME NEW t \in Tabs,
               Browser!Open(t) \/ Browser!Close(t) \/ Browser!Restore(t) \/ Browser!Cancel(t)
        PROVE  BrowserFits' /\ Rests
    BY <1>1, OpenRests, CloseRests, RestoreRests, CancelRests
  <1>2. ASSUME NEW t \in Tabs, NEW a \in Actors, Browser!Use(t, a) \/ Browser!Logout(t, a)
        PROVE  BrowserFits' /\ Rests
    BY <1>2, UseRests, LogoutRests
  <1>3. ASSUME NEW t \in Tabs, NEW k \in window[t].tasks, Browser!Answered(t, k) \/ Browser!Revoked(t, k)
        PROVE  BrowserFits' /\ Rests
    BY <1>3, AnsweredRests, RevokedRests
  <1>4. \/ UNCHANGED Browser!vars
        \/ \E t \in Tabs :
             \/ Browser!Open(t) \/ Browser!Close(t) \/ Browser!Restore(t) \/ Browser!Cancel(t)
             \/ \E a \in Actors : Browser!Use(t, a) \/ Browser!Logout(t, a)
             \/ \E k \in window[t].tasks : Browser!Answered(t, k) \/ Browser!Revoked(t, k)
             \/ AttemptSteps(t)
        \/ \E token \in UNION {Browser!TokensOf(l) : l \in UNION {window[t].mine : t \in Tabs}} :
             Browser!Expire(token)
        \/ \E s \in Sites, n \in Browser!Attempts : Browser!Discard(s, n)
    BY Zenon DEF Browser!Next, AttemptSteps
  <1> QED BY <1>1, <1>2, <1>3, <1>4, StutterRests, ExpireRests, DiscardRests

LEMMA AttemptStepsFit ==
  ASSUME BrowserFits, NEW t \in Tabs, AttemptSteps(t)
  PROVE  BrowserFits'
  <1>1. CASE \E s \in oauth[SiteOf[t]] :
               Browser!Return(t, s) \/ \E a \in Actors : Browser!ReturnAccount(t, s, a)
    BY <1>1, ReturnFits, ReturnAccountFits
  <1>2. CASE \E n \in visiting, a \in Actors : Browser!ReturnCreated(t, n, a)
    BY <1>2, ReturnCreatedFits
  <1>3. CASE \E k \in window[t].tasks :
               \/ Browser!LoginStarts(t, k) \/ Browser!Resolved(t, k)
               \/ Browser!Configured(t, k) \/ Browser!Granted(t, k)
    BY <1>3, LoginStartsFits, ResolvedFits, ConfiguredFits, GrantedFits
  <1>4. CASE Browser!Begin(t) \/ Browser!Create(t) \/ \E a \in Actors : Browser!Submit(t, a)
    BY <1>4, BeginFits, CreateFits, SubmitFits
  <1> QED BY <1>1, <1>2, <1>3, <1>4 DEF AttemptSteps

LEMMA NextFits ==
  ASSUME BrowserFits, [Browser!Next]_(Browser!vars)
  PROVE  BrowserFits'
  BY StepKinds, AttemptStepsFit

LEMMA FitIsTyped == BrowserFits => Browser!TypeOK
  <1> SUFFICES ASSUME BrowserFits PROVE Browser!TypeOK
    OBVIOUS
  <1>1. ASSUME NEW t \in Tabs PROVE Browser!IsPage(window[t])
    <2> DEFINE p == window[t]
    <2>1. p \in Windows /\ Began(p, attempts)
      BY WindowHas
    <2> HIDE DEF p
    <2>2. /\ p.page \in {"closed", "starting", "open"}
          /\ p.access \in BOOLEAN /\ p.leaving \in BOOLEAN /\ p.dialog \in BOOLEAN
          /\ p.mine \subseteq Browser!Logins /\ p.tasks \subseteq Browser!Tasks
          /\ p.progress \in Browser!Progress /\ p.activeState \in Browser!States \cup {Browser!NoState}
          /\ p.current \in Browser!Attempts \cup {Browser!NoAttempt}
          /\ p.active \in Browser!Attempts \cup {Browser!NoAttempt}
          /\ p.told \in [Actors -> Browser!Logins \cup {Browser!None}]
      BY <2>1 DEF Windows
    <2>3. p.dialog => p.current # Browser!NoAttempt
      BY <2>1 DEF Began
    <2>4. {p.access, p.leaving, p.dialog} \subseteq BOOLEAN
      BY <2>2, Zenon
    <2>5. /\ {p.current, p.active} \subseteq Browser!Attempts \cup {Browser!NoAttempt}
          /\ \A a \in Actors : p.told[a] = Browser!None \/ p.told[a] \in Browser!Logins
          /\ \A l \in p.mine : l \in Browser!Logins
          /\ \A k \in p.tasks : k \in Browser!Tasks
      BY <2>2
    <2> QED BY <2>2, <2>3, <2>4, <2>5, Zenon DEF p, Browser!IsPage
  <1>2. ASSUME NEW S, IsList(S)
        PROVE  /\ \A l \in S : l \in Browser!Logins
               /\ \A a \in Actors : Browser!Cardinality(Browser!OfActor(S, a)) <= 1
    <2>1. ASSUME NEW a \in Actors PROVE Browser!Cardinality(Browser!OfActor(S, a)) <= 1
      <3>1. \A l, m \in Browser!OfActor(S, a) : l = m
        BY <1>2 DEF IsList, OneEach, Browser!OfActor
      <3>2. Cardinality(Browser!OfActor(S, a)) <= 1
        BY <3>1, AtMostOne
      <3> QED BY <3>2 DEF Browser!Cardinality, Cardinality
    <2> QED BY <1>2, <2>1 DEF IsList
  <1>3. \A S \in {local[s] : s \in Sites} \cup {window[t].mine : t \in Tabs}
                 \cup ({cookie} \ {Undefined}) : IsList(S)
    BY WindowHas DEF BrowserFits, CopiesFit, CookieFits
  <1>4. \A s \in Sites : \A n \in Browser!Attempts : saved[s][n] \in Browser!Progress \cup {Browser!NotSaved}
    BY DEF BrowserFits, SavedFits
  <1>5. /\ \A s \in Sites : oauth[s] \subseteq Browser!States
        /\ visiting \subseteq 1..attempts
    BY BoundIsNatural DEF BrowserFits, AwayFits, HistoriesFit, Browser!Attempts
  <1>6. /\ attempts \in 0..MaxAttempts /\ \A x \in revoked : x \in Browser!Tokens
        /\ \A l \in due \cup late : l \in Browser!Logins
    BY DEF BrowserFits, HistoriesFit
  <1> QED BY <1>1, <1>2, <1>3, <1>4, <1>5, <1>6 DEF Browser!TypeOK

\* The state of a browser has its types, and a list one login of an actor at most.
THEOREM BrowserTypes == Browser!Spec => []Browser!TypeOK
  <1>1. Browser!Init => BrowserFits
    BY InitBrowser
  <1>2. BrowserFits /\ [Browser!Next]_(Browser!vars) => BrowserFits'
    BY NextFits
  <1> QED BY <1>1, <1>2, FitIsTyped, PTL DEF Browser!Spec

-----------------------------------------------------------------------------
(* Logins survive.                                                         *)

\* JavaScript's undefined is no array.
UndefinedIsNoList == Undefined \notin SUBSET Browser!Logins

Kept(l) == l \in late \/ (cookie # Undefined /\ l \in cookie)

LEMMA KeptSurvives == Browser!LoginsSurvive <=> \A l \in due : Kept(l)
  BY DEF Browser!LoginsSurvive, Kept

\* The stores lose login l and no other.
LEMMA OthersAreKept ==
  ASSUME UndefinedIsNoList, BrowserFits, NEW t \in Tabs, NEW l, NEW S,
         Browser!StoresUpdated(t, l, TRUE, S), late \subseteq late', NEW d, Kept(d), d # l
  PROVE  Kept(d)'
  <1>1. cookie' = cookie \/ (cookie # Undefined /\ cookie' = cookie \ {l})
    BY DEF Browser!StoresUpdated, Browser!Shared, Browser!Updated
  <1>2. cookie # Undefined => cookie \ {l} # Undefined
    BY DEF BrowserFits, CookieFits, IsList, UndefinedIsNoList
  <1> QED BY <1>1, <1>2 DEF Kept

LEMMA CompleteKeeps ==
  ASSUME UndefinedIsNoList, BrowserFits, NEW t \in Tabs, NEW l \in Browser!Logins, NEW rest,
         Browser!Complete(t, l, rest), UNCHANGED late, \A d \in due : Kept(d)
  PROVE  (\A d \in due : Kept(d))'
  <1>1. window[t].access \in BOOLEAN
    BY WindowHas DEF Windows
  <1>2. CASE window[t].access = TRUE
    <2> DEFINE list == IF cookie = Undefined THEN {} ELSE cookie
               new == {k \in list : k.actor # l.actor} \cup {l}
    <2>1. cookie' = new /\ due' = (due \ Browser!OfActor(due, l.actor)) \cup {l}
      BY <1>2 DEF Browser!Complete, Browser!StoresUpdated, Browser!Shared, Browser!Updated
    <2>2. list \subseteq Browser!Logins
      BY DEF BrowserFits, CookieFits, IsList
    <2>3. new # Undefined
      BY <2>2 DEF UndefinedIsNoList
    <2>4. ASSUME NEW d \in due' PROVE d \in late \/ d \in new
      <3>1. CASE d = l
        BY <3>1
      <3>2. CASE d # l
        <4>1. d \in due /\ d.actor # l.actor
          BY <2>1, <3>2 DEF Browser!OfActor
        <4> QED BY <4>1 DEF Kept
      <3> QED BY <3>1, <3>2
    <2> HIDE DEF new
    <2> QED BY <2>1, <2>3, <2>4 DEF Kept
  <1>3. CASE window[t].access = FALSE
    <2>1. UNCHANGED <<cookie, due>>
      BY <1>3 DEF Browser!Complete, Browser!StoresUpdated
    <2> QED BY <2>1 DEF Kept
  <1> QED BY <1>1, <1>2, <1>3

LEMMA GrantedKeeps ==
  ASSUME UndefinedIsNoList, BrowserFits, NEW t \in Tabs, NEW k \in window[t].tasks,
         Browser!Granted(t, k), \A d \in due : Kept(d)
  PROVE  (\A d \in due : Kept(d))'
  <1> DEFINE x == [attempt |-> k.attempt, provider |-> k.provider, actor |-> k.actor]
             q == window[t].progress
             p == [q EXCEPT !.tokens = Append(@, x)]
  <1>1. /\ UNCHANGED late
        /\ \/ UNCHANGED <<cookie, due>>
           \/ /\ q.actor # NoActor /\ Len(p.tokens) = Providers[p.actor]
              /\ Browser!Complete(t, p, window[t].tasks \ {k})
    BY DEF Browser!Granted
  <1>2. CASE UNCHANGED <<cookie, due>>
    BY <1>1, <1>2 DEF Kept
  <1>3. CASE /\ q.actor # NoActor /\ Len(p.tokens) = Providers[p.actor]
             /\ Browser!Complete(t, p, window[t].tasks \ {k})
    <2>1. x \in Browser!Tokens /\ q \in Browser!Progress
      <3>1. k.kind = "grant" /\ k \in Browser!Tasks
        BY WindowHas DEF Browser!Granted
      <3> QED BY <3>1, TaskHas, StateIs, WindowHas DEF Browser!Tokens
    <2> HIDE DEF x, q
    <2>2. p \in Browser!Logins
      BY <1>3, <2>1, ProgressGrows
    <2> HIDE DEF p
    <2> QED BY <1>1, <1>3, <2>2, CompleteKeeps
  <1> QED BY <1>1, <1>2, <1>3

LEMMA AnsweredKeeps ==
  ASSUME UndefinedIsNoList, BrowserFits, NEW t \in Tabs, NEW k \in window[t].tasks,
         Browser!Answered(t, k), \A d \in due : Kept(d)
  PROVE  (\A d \in due : Kept(d))'
  <1>1. CASE UNCHANGED <<cookie, due, late>>
    BY <1>1 DEF Kept
  <1>2. CASE Browser!Forget(t, k.login.actor, due \ {k.login})
    <2> DEFINE due1 == due \ {k.login}
    <2>1. CASE due' = due1 /\ UNCHANGED <<cookie, late>>
      BY <2>1 DEF Kept
    <2>2. ASSUME NEW l, Browser!StoresUpdated(t, l, TRUE, local[SiteOf[t]]), due' = due1,
                 late' = late \cup ({l} \cap due1)
          PROVE  (\A d \in due : Kept(d))'
      <3>1. ASSUME NEW d \in due', d = l PROVE Kept(d)'
        BY <2>2, <3>1 DEF Kept
      <3>2. ASSUME NEW d \in due', d # l PROVE Kept(d)'
        BY <2>2, <3>2, OthersAreKept
      <3> QED BY <3>1, <3>2
    <2> QED BY <1>2, <2>1, <2>2 DEF Browser!Forget
  <1> QED BY <1>1, <1>2 DEF Browser!Answered

LEMMA LogoutKeeps ==
  ASSUME UndefinedIsNoList, BrowserFits, NEW t \in Tabs, NEW a \in Actors,
         Browser!Logout(t, a), \A d \in due : Kept(d)
  PROVE  (\A d \in due : Kept(d))'
  <1>1. CASE UNCHANGED <<cookie, due, late>>
    BY <1>1 DEF Kept
  <1>2. ASSUME NEW l, Browser!StoresUpdated(t, l, TRUE, Browser!LocalAfterRead(t)),
               due' = due \ {l}, UNCHANGED late
        PROVE  (\A d \in due : Kept(d))'
    BY <1>2, OthersAreKept
  <1> QED BY <1>1, <1>2 DEF Browser!Logout

LEMMA OthersLeaveTheCookie ==
  ASSUME [Browser!Next]_(Browser!vars)
  PROVE  \/ UNCHANGED <<cookie, due, late>>
         \/ \E t \in Tabs :
              \/ \E k \in window[t].tasks : Browser!Granted(t, k) \/ Browser!Answered(t, k)
              \/ \E a \in Actors : Browser!Logout(t, a)
  <1>1. ASSUME NEW t \in Tabs,
               \/ Browser!Open(t) \/ Browser!Close(t) \/ Browser!Restore(t) \/ Browser!Begin(t)
               \/ Browser!Create(t) \/ Browser!Cancel(t)
        PROVE  UNCHANGED <<cookie, due, late>>
    BY <1>1 DEF Browser!Open, Browser!Close, Browser!Restore, Browser!Begin, Browser!Create,
                Browser!Cancel
  <1>2. ASSUME NEW t \in Tabs, NEW a \in Actors, Browser!Submit(t, a) \/ Browser!Use(t, a)
        PROVE  UNCHANGED <<cookie, due, late>>
    BY <1>2 DEF Browser!Submit, Browser!Use
  <1>3. ASSUME NEW t \in Tabs, NEW s, NEW a,
               \/ Browser!Return(t, s) \/ Browser!ReturnAccount(t, s, a)
               \/ Browser!ReturnCreated(t, s, a)
        PROVE  UNCHANGED <<cookie, due, late>>
    BY <1>3 DEF Browser!Return, Browser!ReturnAccount, Browser!ReturnCreated
  <1>4. ASSUME NEW t \in Tabs, NEW k,
               \/ Browser!LoginStarts(t, k) \/ Browser!Resolved(t, k)
               \/ Browser!Configured(t, k) \/ Browser!Revoked(t, k)
        PROVE  UNCHANGED <<cookie, due, late>>
    BY <1>4 DEF Browser!LoginStarts, Browser!Resolved, Browser!Configured, Browser!Revoked
  <1>5. ASSUME NEW x, NEW y, Browser!Expire(x) \/ Browser!Discard(x, y)
        PROVE  UNCHANGED <<cookie, due, late>>
    BY <1>5 DEF Browser!Expire, Browser!Discard
  <1>6. UNCHANGED Browser!vars => UNCHANGED <<cookie, due, late>>
    BY DEF Browser!vars
  <1> QED BY <1>1, <1>2, <1>3, <1>4, <1>5, <1>6, Zenon DEF Browser!Next

\* Whatever pages read, and whenever they answer: a login that the cookie was
\* given is there until its user or a provider ends it, a login of its actor
\* takes its place, or an answer to such a request comes late.
THEOREM LoginsAreKept ==
  ASSUME UndefinedIsNoList
  PROVE  Browser!Spec => []LoginsSurvive
  <1>1. Browser!Init => \A d \in due : Kept(d)
    BY DEF Browser!Init
  <1>2. /\ BrowserFits /\ (\A d \in due : Kept(d)) /\ [Browser!Next]_(Browser!vars)
        => (\A d \in due : Kept(d))'
    <2> SUFFICES ASSUME BrowserFits, \A d \in due : Kept(d), [Browser!Next]_(Browser!vars)
                 PROVE  (\A d \in due : Kept(d))'
      OBVIOUS
    <2>1. UNCHANGED <<cookie, due, late>> => (\A d \in due : Kept(d))'
      BY DEF Kept
    <2> QED BY <2>1, OthersLeaveTheCookie, GrantedKeeps, AnsweredKeeps, LogoutKeeps
  <1>3. (\A d \in due : Kept(d)) => LoginsSurvive
    BY KeptSurvives DEF LoginsSurvive
  <1> QED BY <1>1, <1>2, <1>3, InitBrowser, NextFits, PTL DEF Browser!Spec

-----------------------------------------------------------------------------
(* Tokens of one attempt.                                                  *)

\* Tokens are of attempt n, of the actor, and of its providers in their order.
OfAttempt(n, p) ==
  \A i \in DOMAIN p.tokens : p.tokens[i] = [attempt |-> n, provider |-> i, actor |-> p.actor]
\* A token that is asked for is the next one.
Continues(p, o) == p.actor = o.actor /\ Len(p.tokens) + 1 = o.provider

\* A page does one thing at a time for its attempt.
AttemptFits(w, kept) ==
  /\ w.active \in {0, w.current}
  /\ w.current = 0 => w.progress = Browser!None
  /\ w.leaving => Work(w) = {}
  /\ \A k, m \in Work(w) : k = m
  /\ \A k \in Work(w) : k.kind \in {"configure", "grant"} => Continues(w.progress, k)
  /\ \A k \in Work(w) :
       k.kind = "configure" => kept[w.current] \in {Browser!NotSaved, w.progress}
  /\ OfAttempt(w.current, w.progress)
AttemptsFit == \A t \in Tabs : AttemptFits(window[t], saved[SiteOf[t]])

SavedAreOfAttempts == \A s \in Sites : \A n \in Browser!Attempts : OfAttempt(n, saved[s][n])

\* An attempt is in one place: a page, the provider of a token, or that of a
\* new account.
InOnePage ==
  /\ \A t, u \in Tabs : window[t].current = window[u].current /\ window[t].current # 0 => t = u
  /\ \A n \in visiting, t \in Tabs : window[t].current # n
AwayFor(s, o) ==
  /\ o.attempt \notin visiting
  /\ \A t \in Tabs :
       window[t].current = o.attempt => window[t].leaving /\ window[t].activeState = o
  /\ saved[s][o.attempt] = Browser!NotSaved \/ Continues(saved[s][o.attempt], o)
AtOneProvider ==
  /\ \A s \in Sites : \A o \in oauth[s] : AwayFor(s, o)
  /\ \A s, z \in Sites : \A o \in oauth[s], q \in oauth[z] :
       o.attempt = q.attempt => s = z /\ o = q

AttemptInv == AttemptsFit /\ SavedAreOfAttempts /\ InOnePage /\ AtOneProvider

\* Every list is of logins whose tokens are of one attempt.
Whole(l) == \E n \in Browser!Attempts : OfAttempt(n, l)
ListsAreWhole == \A l \in Browser!Logins : Listed(l) => Whole(l)

LEMMA EmptyIsOfAttempt ==
  /\ \A n : OfAttempt(n, Browser!None) /\ OfAttempt(n, Browser!NotSaved)
  /\ \A n, a : OfAttempt(n, [actor |-> a, tokens |-> <<>>])
  BY DEF OfAttempt, Browser!None, Browser!NotSaved

LEMMA NoWorkForNone ==
  ASSUME BrowserFits, NEW w \in Windows
  PROVE  w.current = 0 => Work(w) = {}
  <1>1. \A k \in w.tasks : k.kind \in Working => k.attempt \in Browser!Attempts
    BY TaskHas DEF Windows, Working
  <1> QED BY <1>1, AttemptNumbers DEF Work

\* A page that does no more than before.
LEMMA IdlesAttempt ==
  ASSUME BrowserFits, NEW p \in Windows, NEW kept, AttemptFits(p, kept), NEW w \in Windows, Idles(w, p),
         NEW new, \A n \in Browser!Attempts : new[n] \in {kept[n], Browser!NotSaved}
  PROVE  AttemptFits(w, new)
  <1>1. CASE w.current = 0 /\ w.progress = Browser!None /\ w.active = 0
    <2>1. Work(w) = {}
      BY <1>1, NoWorkForNone
    <2> QED BY <1>1, <2>1, EmptyIsOfAttempt DEF AttemptFits
  <1>2. CASE /\ w.current = p.current /\ w.progress = p.progress /\ w.active = p.active
             /\ w.leaving = p.leaving /\ Work(w) \subseteq Work(p)
    <2>1. \A k \in Work(w) : w.current \in Browser!Attempts
      BY NoWorkForNone, AttemptNumbers DEF Windows
    <2> QED BY <1>2, <2>1 DEF AttemptFits
  <1> QED BY <1>1, <1>2 DEF Idles, AttemptFits

LEMMA PausesKeep ==
  ASSUME BrowserFits, AttemptInv, Pauses, BrowserFits'
  PROVE  AttemptInv'
  <1>1. ASSUME NEW t \in Tabs PROVE /\ window[t] \in Windows /\ window'[t] \in Windows
                                    /\ Idles(window'[t], window[t]) /\ SiteOf[t] \in Sites
    BY WindowHas DEF BrowserFits, WindowsFit, Pauses
  <1>2. AttemptsFit'
    BY <1>1, IdlesAttempt DEF AttemptInv, AttemptsFit, Pauses
  <1>3. SavedAreOfAttempts'
    BY EmptyIsOfAttempt DEF AttemptInv, SavedAreOfAttempts, Pauses
  <1>4. \A t \in Tabs : window'[t].current # 0 =>
          /\ window'[t].current = window[t].current /\ window'[t].leaving = window[t].leaving
          /\ window'[t].activeState = window[t].activeState
    BY <1>1 DEF Idles
  <1>5. \A n \in visiting : n # 0
    BY AttemptNumbers DEF BrowserFits, AwayFits
  <1>6. InOnePage'
    BY <1>4, <1>5 DEF AttemptInv, InOnePage, Pauses
  <1>7. \A s \in Sites : \A o \in oauth[s] : o.attempt \in Browser!Attempts /\ o.attempt # 0
    BY StateHas, AttemptNumbers DEF BrowserFits, AwayFits
  <1>8. AtOneProvider'
    BY <1>4, <1>7 DEF AttemptInv, AtOneProvider, AwayFor, Pauses
  <1> QED BY <1>2, <1>3, <1>6, <1>8 DEF AttemptInv

LEMMA ListsStayWhole ==
  ASSUME ListsAreWhole, NoNewLogins
  PROVE  ListsAreWhole'
  BY DEF ListsAreWhole, NoNewLogins, Whole

\* A page that works for its attempt is where the attempt is.
LEMMA WorkIsHere ==
  ASSUME BrowserFits, AttemptInv, NEW t \in Tabs, ~window[t].leaving, window[t].current # 0
  PROVE  /\ \A s \in Sites : \A o \in oauth[s] : o.attempt # window[t].current
         /\ window[t].current \notin visiting /\ window[t].current \in Browser!Attempts
         /\ \A u \in Tabs \ {t} : window[u].current # window[t].current
  BY WindowHas, AttemptNumbers DEF AttemptInv, AtOneProvider, AwayFor, InOnePage

\* The page of an attempt does a step for it.
LEMMA StepKeeps ==
  ASSUME BrowserFits, AttemptInv, NEW t \in Tabs, NEW w, Shows(t, w), NEW n,
         n = window[t].current, n # 0, ~window[t].leaving, w.current = n,
         AttemptFits(w, saved'[SiteOf[t]]), OfAttempt(n, saved'[SiteOf[t]][n]),
         \A s \in Sites : \A m \in Browser!Attempts :
           s # SiteOf[t] \/ m # n => saved'[s][m] = saved[s][m],
         UNCHANGED <<oauth, visiting>>
  PROVE  AttemptInv'
  <1>1. /\ window \in [Tabs -> Windows] /\ window'[t] = w /\ \A u \in Tabs \ {t} : window'[u] = window[u]
        /\ \A u \in Tabs : SiteOf[u] \in Sites
    BY WindowHas DEF BrowserFits, WindowsFit, Shows
  <1>2. /\ \A s \in Sites : \A o \in oauth[s] : o.attempt # n
        /\ n \notin visiting /\ n \in Browser!Attempts
        /\ \A u \in Tabs \ {t} : window[u].current # n
    BY WorkIsHere
  <1>3. ASSUME NEW u \in Tabs PROVE AttemptFits(window'[u], saved'[SiteOf[u]])
    <2>1. CASE u = t
      BY <1>1, <2>1
    <2>2. CASE u # t
      <3>1. /\ window'[u] = window[u] /\ AttemptFits(window[u], saved[SiteOf[u]]) /\ window[u] \in Windows
            /\ window[u].current # n
        BY <1>1, <1>2, <2>2 DEF AttemptInv, AttemptsFit
      <3>2. \A k \in Work(window[u]) : window[u].current \in Browser!Attempts
        BY <3>1, NoWorkForNone, AttemptNumbers DEF Windows
      <3>3. \A k \in Work(window[u]) :
              saved'[SiteOf[u]][window[u].current] = saved[SiteOf[u]][window[u].current]
        BY <1>1, <3>1, <3>2
      <3> QED BY <3>1, <3>3 DEF AttemptFits
    <2> QED BY <2>1, <2>2
  <1>4. SavedAreOfAttempts'
    BY <1>1 DEF AttemptInv, SavedAreOfAttempts
  <1>5. InOnePage'
    BY <1>1, <1>2 DEF AttemptInv, InOnePage
  <1>6. \A s \in Sites : \A o \in oauth[s] : o.attempt \in Browser!Attempts
    BY StateHas DEF BrowserFits, AwayFits
  <1>7. \A s \in Sites : \A o \in oauth[s] : AwayFor(s, o)'
    BY <1>1, <1>2, <1>6 DEF AttemptInv, AtOneProvider, AwayFor
  <1>8. AtOneProvider'
    BY <1>7 DEF AttemptInv, AtOneProvider
  <1> QED BY <1>3, <1>4, <1>5, <1>8 DEF AttemptInv, AttemptsFit

LEMMA BeginKeeps ==
  ASSUME BrowserFits, AttemptInv, NEW t \in Tabs, Browser!Begin(t)
  PROVE  AttemptInv'
  <1> DEFINE n == attempts + 1
  <1>1. /\ UNCHANGED <<saved, oauth, visiting>> /\ ~window[t].leaving /\ window[t].current = 0
    BY BeginFits
  <1>2. PICK w : /\ Shows(t, w) /\ w.current = n /\ w.progress = window[t].progress
                 /\ w.active = window[t].active /\ ~w.leaving /\ w.tasks = window[t].tasks
    BY BeginFits
  <1>3. /\ window \in [Tabs -> Windows] /\ window'[t] = w /\ \A u \in Tabs \ {t} : window'[u] = window[u]
        /\ attempts \in Nat
    BY <1>2, WindowHas DEF BrowserFits, WindowsFit, Shows
  <1>4. /\ \A u \in Tabs : window[u].current <= attempts /\ window[u].current \in Nat
        /\ \A k \in window[t].tasks : k.kind \in Working => k.attempt <= attempts /\ k.attempt \in Nat
        /\ \A m \in visiting : m <= attempts /\ m \in Nat
        /\ \A s \in Sites : \A o \in oauth[s] : o.attempt <= attempts /\ o.attempt \in Nat
    <2>1. ASSUME NEW u \in Tabs PROVE window[u].current <= attempts /\ window[u].current \in Nat
      <3>1. Began(window[u], attempts) /\ window[u].current \in Browser!Attempts \cup {Browser!NoAttempt}
        BY WindowHas
      <3>2. window[u].current <= attempts
        BY <3>1 DEF Began
      <3>3. window[u].current \in Nat
        <4>1. \A m \in Browser!Attempts \cup {Browser!NoAttempt} : m \in Nat
          BY AttemptNumbers
        <4> QED BY <3>1, <4>1
      <3> QED BY <3>2, <3>3
    <2>2. \A k \in window[t].tasks : k.kind \in Working => k.attempt <= attempts /\ k.attempt \in Nat
      BY WindowHas, TaskHas, AttemptNumbers DEF Began, Working
    <2>3. \A m \in visiting : m <= attempts /\ m \in Nat
      BY AttemptNumbers DEF BrowserFits, AwayFits
    <2>4. \A s \in Sites : \A o \in oauth[s] : o.attempt <= attempts /\ o.attempt \in Nat
      BY StateHas, AttemptNumbers DEF BrowserFits, AwayFits
    <2> QED BY <2>1, <2>2, <2>3, <2>4
  <1>5. \A m \in Nat : m <= attempts => m # n
    BY <1>3
  <1>6. n # 0
    BY <1>3
  <1> HIDE DEF n
  <1>7. AttemptFits(window[t], saved[SiteOf[t]])
    BY DEF AttemptInv, AttemptsFit
  <1>8. Work(w) = {}
    BY <1>2, <1>4, <1>5 DEF Work
  <1>9. AttemptFits(w, saved[SiteOf[t]])
    BY <1>1, <1>2, <1>7, <1>8, EmptyIsOfAttempt DEF AttemptFits
  <1>10. AttemptsFit'
    BY <1>1, <1>3, <1>9 DEF AttemptInv, AttemptsFit
  <1>11. InOnePage'
    BY <1>1, <1>2, <1>3, <1>4, <1>5 DEF AttemptInv, InOnePage
  <1>12. AtOneProvider'
    <2>1. ASSUME NEW s \in Sites, NEW o \in oauth[s] PROVE AwayFor(s, o)'
      <3>1. AwayFor(s, o) /\ o.attempt # n
        BY <1>4, <1>5 DEF AttemptInv, AtOneProvider
      <3> QED BY <1>1, <1>2, <1>3, <3>1 DEF AwayFor
    <2> QED BY <1>1, <2>1 DEF AttemptInv, AtOneProvider
  <1> QED BY <1>1, <1>10, <1>11, <1>12 DEF AttemptInv, SavedAreOfAttempts

LEMMA SubmitKeeps ==
  ASSUME BrowserFits, AttemptInv, NEW t \in Tabs, NEW a \in Actors, Browser!Submit(t, a)
  PROVE  AttemptInv'
  <1>1. /\ Work(window[t]) = {} /\ ~window[t].leaving /\ window[t].current # 0
        /\ UNCHANGED <<saved, oauth, visiting>>
    BY SubmitFits
  <1>2. PICK w, k : /\ Shows(t, w) /\ Same(w, window[t]) /\ w.tasks = window[t].tasks \cup {k}
                    /\ k.kind = "login" /\ k.attempt = w.current
    BY SubmitFits
  <1>3. AttemptFits(window[t], saved[SiteOf[t]]) /\ window[t].current \in Browser!Attempts
    BY <1>1, WindowHas, AttemptNumbers DEF AttemptInv, AttemptsFit
  <1>4. Work(w) \subseteq {k}
    BY <1>1, <1>2 DEF Work, Same
  <1>5. AttemptFits(w, saved[SiteOf[t]])
    BY <1>1, <1>2, <1>3, <1>4 DEF AttemptFits, Same
  <1>6. OfAttempt(window[t].current, saved[SiteOf[t]][window[t].current])
    BY <1>3, WindowHas DEF AttemptInv, SavedAreOfAttempts
  <1> QED BY <1>1, <1>2, <1>5, <1>6, StepKeeps DEF Same

LEMMA LoginStartsKeeps ==
  ASSUME BrowserFits, AttemptInv, NEW t \in Tabs, NEW k \in window[t].tasks,
         Browser!LoginStarts(t, k)
  PROVE  AttemptInv'
  <1>1. CASE Rests
    BY <1>1, LoginStartsFits, PausesKeep DEF Rests
  <1>2. ASSUME k \in Work(window[t]), UNCHANGED <<saved, oauth, visiting, attempts>>,
               window[t].current # 0, NEW w, NEW n, Shows(t, w), Same(w, window[t]),
               w.tasks = (window[t].tasks \ {k}) \cup {n}, n.kind = "resolve", n.attempt = w.current
        PROVE  AttemptInv'
    <2>1. AttemptFits(window[t], saved[SiteOf[t]]) /\ window[t].current \in Browser!Attempts
      BY <1>2, WindowHas, AttemptNumbers DEF AttemptInv, AttemptsFit
    <2>2. ~window[t].leaving /\ Work(window[t]) = {k}
      BY <1>2, <2>1 DEF AttemptFits
    <2>3. Work(w) \subseteq {n}
      BY <1>2, <2>2 DEF Work, Same
    <2>4. AttemptFits(w, saved[SiteOf[t]])
      BY <1>2, <2>1, <2>2, <2>3 DEF AttemptFits, Same
    <2>5. OfAttempt(window[t].current, saved[SiteOf[t]][window[t].current])
      BY <2>1, WindowHas DEF AttemptInv, SavedAreOfAttempts
    <2> QED BY <1>2, <2>2, <2>4, <2>5, StepKeeps DEF Same
  <1> QED BY <1>1, <1>2, LoginStartsFits

LEMMA FailedKeeps ==
  ASSUME BrowserFits, AttemptInv, BrowserFits', NEW t \in Tabs, NEW k \in window[t].tasks,
         k.kind \in Working, k.attempt # 0, Failed(t, k)
  PROVE  AttemptInv'
  <1>1. PICK w : /\ Shows(t, w) /\ w.current = window[t].current /\ w.active = window[t].active
                 /\ w.activeState = window[t].activeState /\ w.leaving = window[t].leaving
                 /\ w.tasks = window[t].tasks \ {k}
                 /\ \/ /\ w.current = k.attempt /\ w.progress = Browser!None
                       /\ Browser!Save(t, k.attempt, Browser!None)
                    \/ /\ w.current # k.attempt /\ w.progress = window[t].progress /\ UNCHANGED saved
    BY DEF Failed
  <1>2. UNCHANGED <<oauth, visiting, attempts>>
    BY DEF Failed
  <1>3. CASE w.current = k.attempt /\ w.progress = Browser!None /\ Browser!Save(t, k.attempt, Browser!None)
    <2>1. AttemptFits(window[t], saved[SiteOf[t]]) /\ k.attempt \in Browser!Attempts /\ k.attempt # 0
      BY <1>1, <1>3, WindowHas, AttemptNumbers DEF AttemptInv, AttemptsFit
    <2>2. k \in Work(window[t])
      BY <1>1, <1>3 DEF Work
    <2>3. ~window[t].leaving /\ Work(w) = {}
      BY <1>1, <2>1, <2>2 DEF AttemptFits, Work
    <2>4. AttemptFits(w, saved'[SiteOf[t]])
      BY <1>1, <1>3, <2>1, <2>3, EmptyIsOfAttempt DEF AttemptFits
    <2>5. /\ saved'[SiteOf[t]][k.attempt] = Browser!None
          /\ \A s \in Sites : \A m \in Browser!Attempts :
               s # SiteOf[t] \/ m # k.attempt => saved'[s][m] = saved[s][m]
      BY <1>3, <2>1, NoneIsProgress, SavesFit
    <2>6. OfAttempt(k.attempt, saved'[SiteOf[t]][k.attempt])
      BY <2>5, EmptyIsOfAttempt
    <2>7. k.attempt = window[t].current /\ w.current = k.attempt
      BY <1>1, <1>3
    <2> QED BY <1>1, <1>2, <2>1, <2>3, <2>4, <2>5, <2>6, <2>7, StepKeeps
  <1>4. CASE w.current # k.attempt /\ w.progress = window[t].progress /\ UNCHANGED saved
    <2>1. Idles(w, window[t])
      BY <1>1, <1>4 DEF Idles, Work
    <2>2. window \in [Tabs -> Windows] /\ window'[t] = w /\ \A u \in Tabs \ {t} : window'[u] = window[u]
      BY <1>1 DEF BrowserFits, WindowsFit, Shows
    <2>3. Pauses
      BY <1>2, <1>4, <2>1, <2>2, IdlesItself DEF Pauses
    <2> QED BY <2>3, PausesKeep
  <1> QED BY <1>1, <1>3, <1>4

LEMMA ContinuedKeeps ==
  ASSUME BrowserFits, AttemptInv, NEW t \in Tabs, NEW k \in window[t].tasks,
         k.kind \in Working, k.attempt # 0, NEW p \in Browser!Progress, OfAttempt(k.attempt, p),
         NEW new, Continues(p, new), Continued(t, k, new, p)
  PROVE  AttemptInv'
  <1>1. PICK w : /\ Shows(t, w) /\ w.current = window[t].current /\ w.progress = p
                 /\ w.active = w.current /\ w.leaving = window[t].leaving
                 /\ w.activeState = window[t].activeState
                 /\ w.tasks = (window[t].tasks \ {k}) \cup {new}
    BY DEF Continued
  <1>2. /\ UNCHANGED <<oauth, visiting, attempts>> /\ Browser!Save(t, k.attempt, p)
        /\ window[t].current = k.attempt
    BY DEF Continued
  <1>3. AttemptFits(window[t], saved[SiteOf[t]]) /\ k.attempt \in Browser!Attempts
    BY <1>2, WindowHas, AttemptNumbers DEF AttemptInv, AttemptsFit
  <1>4. k \in Work(window[t])
    BY <1>2 DEF Work
  <1>5. ~window[t].leaving /\ Work(w) \subseteq {new}
    BY <1>1, <1>3, <1>4 DEF AttemptFits, Work
  <1>6. /\ saved'[SiteOf[t]][k.attempt] = p
        /\ \A s \in Sites : \A m \in Browser!Attempts :
             s # SiteOf[t] \/ m # k.attempt => saved'[s][m] = saved[s][m]
    BY <1>2, <1>3, SavesFit
  <1>7. AttemptFits(w, saved'[SiteOf[t]])
    BY <1>1, <1>2, <1>5, <1>6 DEF AttemptFits
  <1> QED BY <1>1, <1>2, <1>5, <1>6, <1>7, StepKeeps

LEMMA CreateKeeps ==
  ASSUME BrowserFits, AttemptInv, NEW t \in Tabs, Browser!Create(t), ~NewTabs
  PROVE  AttemptInv'
  <1> DEFINE n == window[t].current
             w == Browser!Closed
  <1>1. /\ n # 0 /\ ~window[t].leaving /\ Browser!Save(t, n, window[t].progress)
        /\ visiting' = visiting \cup {n} /\ UNCHANGED <<oauth, attempts>> /\ Shows(t, w)
    BY CreateFits
  <1>2. /\ \A s \in Sites : \A o \in oauth[s] : o.attempt # n
        /\ n \notin visiting /\ n \in Browser!Attempts
        /\ \A u \in Tabs \ {t} : window[u].current # n
    BY <1>1, WorkIsHere
  <1>3. /\ window \in [Tabs -> Windows] /\ window'[t] = w /\ \A u \in Tabs \ {t} : window'[u] = window[u]
        /\ \A u \in Tabs : SiteOf[u] \in Sites
    BY <1>1, WindowHas DEF BrowserFits, WindowsFit, Shows
  <1>4. /\ saved'[SiteOf[t]][n] = window[t].progress
        /\ \A s \in Sites : \A m \in Browser!Attempts :
             s # SiteOf[t] \/ m # n => saved'[s][m] = saved[s][m]
    BY <1>1, <1>2, WindowHas, SavesFit
  <1>5. w.current = 0 /\ w.active = 0 /\ w.progress = Browser!None /\ ~w.leaving /\ Work(w) = {}
    BY AttemptNumbers DEF Browser!Closed, Work
  <1> HIDE DEF w
  <1>6. AttemptFits(w, saved'[SiteOf[t]])
    BY <1>5, EmptyIsOfAttempt DEF AttemptFits
  <1>7. AttemptsFit'
    <2> SUFFICES ASSUME NEW u \in Tabs, u # t PROVE AttemptFits(window'[u], saved'[SiteOf[u]])
      BY <1>3, <1>6 DEF AttemptsFit
    <2>1. /\ window'[u] = window[u] /\ AttemptFits(window[u], saved[SiteOf[u]]) /\ window[u] \in Windows
          /\ window[u].current # n
      BY <1>2, <1>3 DEF AttemptInv, AttemptsFit
    <2>2. \A k \in Work(window[u]) : window[u].current \in Browser!Attempts
      BY <2>1, NoWorkForNone, AttemptNumbers DEF Windows
    <2>3. \A k \in Work(window[u]) :
            saved'[SiteOf[u]][window[u].current] = saved[SiteOf[u]][window[u].current]
      BY <1>3, <1>4, <2>1, <2>2
    <2> QED BY <2>1, <2>3 DEF AttemptFits
  <1>8. SavedAreOfAttempts'
    <2>1. OfAttempt(n, window[t].progress)
      BY DEF AttemptInv, AttemptsFit, AttemptFits
    <2> QED BY <1>4, <2>1 DEF AttemptInv, SavedAreOfAttempts
  <1>9. InOnePage'
    BY <1>1, <1>2, <1>3, <1>5, AttemptNumbers DEF AttemptInv, InOnePage, BrowserFits, AwayFits
  <1>10. \A s \in Sites : \A o \in oauth[s] : o.attempt \in Browser!Attempts /\ o.attempt # 0
    BY StateHas, AttemptNumbers DEF BrowserFits, AwayFits
  <1>11. ASSUME NEW s \in Sites, NEW o \in oauth[s] PROVE AwayFor(s, o)'
    <2>1. AwayFor(s, o) /\ o.attempt # n /\ saved'[s][o.attempt] = saved[s][o.attempt]
      BY <1>2, <1>4, <1>10 DEF AttemptInv, AtOneProvider
    <2> QED BY <1>1, <1>3, <1>5, <1>10, <2>1 DEF AwayFor
  <1>12. AtOneProvider'
    BY <1>1, <1>11 DEF AttemptInv, AtOneProvider
  <1> QED BY <1>7, <1>8, <1>9, <1>12 DEF AttemptInv

\* An attempt that has come back was nowhere else, and is away no more.
LEMMA ReturnedKeeps ==
  ASSUME BrowserFits, AttemptInv, NEW t \in Tabs, NEW n, NEW k, Returned(t, n, k),
         \A u \in Tabs : window[u].current # n,
         k.kind = "grant" => saved[SiteOf[t]][n] = Browser!NotSaved
                             \/ Continues(saved[SiteOf[t]][n], k),
         visiting' \subseteq visiting \ {n},
         \A s \in Sites : oauth'[s] \subseteq oauth[s] /\ \A o \in oauth'[s] : o.attempt # n
  PROVE  AttemptInv'
  <1>1. /\ UNCHANGED <<saved, attempts>> /\ n \in Browser!Attempts /\ n # 0
        /\ k.attempt = n /\ k.kind \in {"login", "grant"}
    BY AttemptNumbers DEF Returned
  <1>2. PICK w : /\ Shows(t, w) /\ ~w.leaving /\ w.tasks \subseteq {k}
                 /\ \/ /\ w.current = n /\ w.progress = saved[SiteOf[t]][n] /\ w.active \in {0, n}
                       /\ w.progress # Browser!NotSaved
                    \/ w.current = 0 /\ w.progress = Browser!None /\ w.active = 0
    BY DEF Returned
  <1>3. /\ window \in [Tabs -> Windows] /\ window'[t] = w /\ \A u \in Tabs \ {t} : window'[u] = window[u]
        /\ \A u \in Tabs : SiteOf[u] \in Sites
    BY <1>2, WindowHas DEF BrowserFits, WindowsFit, Shows
  <1>4. Work(w) \subseteq {k} /\ (w.current = 0 => Work(w) = {})
    BY <1>1, <1>2 DEF Work
  <1>5. OfAttempt(n, saved[SiteOf[t]][n])
    BY <1>1, <1>3 DEF AttemptInv, SavedAreOfAttempts
  <1>6. AttemptFits(w, saved[SiteOf[t]])
    BY <1>1, <1>2, <1>4, <1>5, EmptyIsOfAttempt DEF AttemptFits
  <1>7. AttemptsFit'
    BY <1>1, <1>3, <1>6 DEF AttemptInv, AttemptsFit
  <1>8. InOnePage'
    BY <1>1, <1>2, <1>3, AttemptNumbers DEF AttemptInv, InOnePage, BrowserFits, AwayFits
  <1>9. \A s \in Sites : \A o \in oauth[s] : o.attempt # 0
    BY StateHas, AttemptNumbers DEF BrowserFits, AwayFits
  <1>10. ASSUME NEW s \in Sites, NEW o \in oauth'[s] PROVE AwayFor(s, o)'
    <2>1. AwayFor(s, o) /\ o.attempt # n
      BY DEF AttemptInv, AtOneProvider
    <2> QED BY <1>1, <1>2, <1>3, <1>9, <2>1 DEF AwayFor
  <1>11. AtOneProvider'
    BY <1>10 DEF AttemptInv, AtOneProvider
  <1> QED BY <1>1, <1>7, <1>8, <1>11 DEF AttemptInv, SavedAreOfAttempts

\* What comes back from the provider of a token was asked for there alone.
LEMMA StatesComeBack ==
  ASSUME BrowserFits, AttemptInv, NEW t \in Tabs, NEW s \in oauth[SiteOf[t]],
         oauth' = [oauth EXCEPT ![SiteOf[t]] = @ \ {s}],
         \A u \in Tabs : window[u].activeState # s
  PROVE  /\ \A u \in Tabs : window[u].current # s.attempt
         /\ s.attempt \notin visiting
         /\ \/ saved[SiteOf[t]][s.attempt] = Browser!NotSaved
            \/ Continues(saved[SiteOf[t]][s.attempt], s)
         /\ \A z \in Sites : oauth'[z] \subseteq oauth[z] /\ \A o \in oauth'[z] : o.attempt # s.attempt
  <1>1. SiteOf[t] \in Sites /\ AwayFor(SiteOf[t], s)
    BY WindowHas DEF AttemptInv, AtOneProvider
  <1>2. \A z \in Sites : oauth'[z] = IF z = SiteOf[t] THEN oauth[z] \ {s} ELSE oauth[z]
    BY DEF BrowserFits, AwayFits
  <1>3. \A z \in Sites : \A o \in oauth'[z] : o.attempt # s.attempt
    BY <1>1, <1>2 DEF AttemptInv, AtOneProvider
  <1> QED BY <1>1, <1>2, <1>3 DEF AwayFor

LEMMA ReturnKeeps ==
  ASSUME BrowserFits, AttemptInv, NEW t \in Tabs, NEW s \in oauth[SiteOf[t]],
         Browser!Return(t, s) \/ \E a \in Actors : Browser!ReturnAccount(t, s, a)
  PROVE  AttemptInv' /\ NoNewLogins
  <1>1. CASE Browser!Return(t, s)
    <2> DEFINE k == [kind |-> "grant", attempt |-> s.attempt, provider |-> s.provider, actor |-> s.actor]
    <2>1. /\ UNCHANGED visiting /\ oauth' = [oauth EXCEPT ![SiteOf[t]] = @ \ {s}]
          /\ \A u \in Tabs : window[u].activeState # s
          /\ Returned(t, s.attempt, k)
      BY <1>1, ReturnFits
    <2>2. /\ \A u \in Tabs : window[u].current # s.attempt /\ s.attempt \notin visiting
          /\ \/ saved[SiteOf[t]][s.attempt] = Browser!NotSaved
             \/ Continues(saved[SiteOf[t]][s.attempt], s)
          /\ \A z \in Sites : oauth'[z] \subseteq oauth[z] /\ \A o \in oauth'[z] : o.attempt # s.attempt
      BY <2>1, StatesComeBack
    <2>3. \A p : Continues(p, s) => Continues(p, k)
      BY DEF Continues
    <2> HIDE DEF k
    <2>4. AttemptInv'
      BY <2>1, <2>2, <2>3, ReturnedKeeps
    <2> QED BY <2>1, <2>4 DEF Returned
  <1>2. ASSUME NEW a \in Actors, Browser!ReturnAccount(t, s, a) PROVE AttemptInv' /\ NoNewLogins
    <2> DEFINE k == [kind |-> "login", attempt |-> s.attempt, actor |-> a]
    <2>1. /\ UNCHANGED visiting /\ oauth' = [oauth EXCEPT ![SiteOf[t]] = @ \ {s}]
          /\ \A u \in Tabs : window[u].activeState # s
          /\ Returned(t, s.attempt, k)
      BY <1>2, ReturnAccountFits
    <2>2. /\ \A u \in Tabs : window[u].current # s.attempt /\ s.attempt \notin visiting
          /\ \A z \in Sites : oauth'[z] \subseteq oauth[z] /\ \A o \in oauth'[z] : o.attempt # s.attempt
      BY <2>1, StatesComeBack
    <2>3. k.kind = "login"
      OBVIOUS
    <2> HIDE DEF k
    <2>4. AttemptInv'
      BY <2>1, <2>2, <2>3, ReturnedKeeps
    <2> QED BY <2>1, <2>4 DEF Returned
  <1> QED BY <1>1, <1>2

LEMMA ReturnCreatedKeeps ==
  ASSUME BrowserFits, AttemptInv, NEW t \in Tabs, NEW n \in visiting, NEW a \in Actors,
         Browser!ReturnCreated(t, n, a)
  PROVE  AttemptInv' /\ NoNewLogins
  <1> DEFINE k == [kind |-> "login", attempt |-> n, actor |-> a]
  <1>1. UNCHANGED oauth /\ visiting' = visiting \ {n} /\ Returned(t, n, k)
    BY ReturnCreatedFits
  <1>2. /\ \A u \in Tabs : window[u].current # n
        /\ \A z \in Sites : \A o \in oauth[z] : o.attempt # n
    BY DEF AttemptInv, InOnePage, AtOneProvider, AwayFor
  <1>3. k.kind = "login"
    OBVIOUS
  <1> HIDE DEF k
  <1>4. AttemptInv'
    BY <1>1, <1>2, <1>3, ReturnedKeeps
  <1> QED BY <1>1, <1>4 DEF Returned

LEMMA ResolvedKeeps ==
  ASSUME BrowserFits, AttemptInv, NEW t \in Tabs, NEW k \in window[t].tasks, Browser!Resolved(t, k)
  PROVE  AttemptInv' /\ NoNewLogins
  <1> DEFINE p == [actor |-> k.actor, tokens |-> <<>>]
  <1>1. BrowserFits' /\ k.kind = "resolve" /\ k.kind \in Working
    BY ResolvedFits DEF Working
  <1>2. k.attempt # 0 /\ p \in Browser!Progress /\ OfAttempt(k.attempt, p)
    <2>1. k.attempt \in Browser!Attempts /\ k.actor \in Actors
      BY <1>1, TaskHas, WindowHas
    <2>2. <<>> \in [1..0 -> Browser!Tokens] /\ 0 \in 0..(Providers[k.actor] - 1)
      BY <2>1, ProvidersExist
    <2> QED BY <2>1, <2>2, ProgressIs, AttemptNumbers, EmptyIsOfAttempt
  <1>3. CASE Failed(t, k)
    BY <1>1, <1>2, <1>3, FailedKeeps DEF Failed
  <1>4. ASSUME NEW new, Continued(t, k, new, p), new.provider = 1, new.actor = k.actor
        PROVE  AttemptInv' /\ NoNewLogins
    <2>1. Continues(p, new)
      BY <1>4 DEF Continues
    <2> HIDE DEF p
    <2> QED BY <1>1, <1>2, <1>4, <2>1, ContinuedKeeps DEF Continued
  <1> HIDE DEF p
  <1> QED BY <1>3, <1>4, ResolvedFits DEF p

LEMMA ConfiguredKeeps ==
  ASSUME BrowserFits, AttemptInv, NEW t \in Tabs, NEW k \in window[t].tasks, Browser!Configured(t, k)
  PROVE  AttemptInv' /\ NoNewLogins
  <1>1. BrowserFits' /\ k.kind = "configure" /\ k.kind \in Working /\ k.attempt # 0
    BY ConfiguredFits DEF Working
  <1>2. CASE Rests
    BY <1>1, <1>2, PausesKeep DEF Rests
  <1>3. CASE Failed(t, k)
    BY <1>1, <1>3, FailedKeeps DEF Failed
  <1>4. ASSUME NoNewLogins, UNCHANGED <<saved, visiting, attempts>>, window[t].active = k.attempt,
               NEW w, NEW s, Shows(t, w), w.current = window[t].current,
               w.progress = window[t].progress, w.active = window[t].active,
               w.leaving, w.activeState = s, w.tasks = window[t].tasks \ {k},
               s.attempt = k.attempt, s.provider = k.provider, s.actor = k.actor,
               oauth' = [oauth EXCEPT ![SiteOf[t]] = @ \cup {s}]
        PROVE  AttemptInv'
    <2> DEFINE n == k.attempt
               kept == saved[SiteOf[t]]
    <2>1. AttemptFits(window[t], kept)
      BY DEF AttemptInv, AttemptsFit
    <2>2. window[t].current = n /\ n # 0
      BY <1>1, <1>4, <2>1 DEF AttemptFits
    <2>3. k \in Work(window[t]) /\ ~window[t].leaving /\ Work(w) = {}
      BY <1>1, <1>4, <2>1, <2>2 DEF AttemptFits, Work
    <2>4. /\ \A z \in Sites : \A o \in oauth[z] : o.attempt # n
          /\ n \notin visiting /\ n \in Browser!Attempts
          /\ \A u \in Tabs \ {t} : window[u].current # n
      BY <2>2, <2>3, WorkIsHere
    <2>5. /\ window \in [Tabs -> Windows] /\ window'[t] = w /\ \A u \in Tabs \ {t} : window'[u] = window[u]
          /\ SiteOf[t] \in Sites /\ oauth \in [Sites -> SUBSET Browser!States]
      BY <1>4, WindowHas DEF BrowserFits, WindowsFit, AwayFits, Shows
    <2>6. kept[n] = Browser!NotSaved \/ Continues(kept[n], s)
      <3>1. Continues(window[t].progress, k) /\ kept[n] \in {Browser!NotSaved, window[t].progress}
        BY <1>1, <2>1, <2>2, <2>3 DEF AttemptFits
      <3> QED BY <1>4, <3>1 DEF Continues
    <2> HIDE DEF n, kept
    <2>7. AttemptFits(w, kept)
      BY <1>4, <2>1, <2>3 DEF AttemptFits
    <2>8. AttemptsFit'
      BY <1>4, <2>5, <2>7 DEF AttemptInv, AttemptsFit, kept
    <2>9. InOnePage'
      BY <1>4, <2>5 DEF AttemptInv, InOnePage
    <2>10. s.attempt = n
      BY <1>4 DEF n
    <2>11. AwayFor(SiteOf[t], s)'
      BY <1>4, <2>4, <2>5, <2>6, <2>10 DEF AwayFor, kept
    <2>12. \A z \in Sites : \A o \in oauth[z] : AwayFor(z, o)'
      BY <1>4, <2>2, <2>4, <2>5 DEF AttemptInv, AtOneProvider, AwayFor
    <2>13. \A z \in Sites : oauth'[z] = IF z = SiteOf[t] THEN oauth[z] \cup {s} ELSE oauth[z]
      BY <1>4, <2>5
    <2>14. \A z \in Sites : \A o \in oauth'[z] : AwayFor(z, o)'
      BY <2>11, <2>12, <2>13
    <2>15. \A z, y \in Sites : \A o \in oauth'[z], q \in oauth'[y] :
             o.attempt = q.attempt => z = y /\ o = q
      <3>1. \A z, y \in Sites : \A o \in oauth[z], q \in oauth[y] :
              o.attempt = q.attempt => z = y /\ o = q
        BY DEF AttemptInv, AtOneProvider
      <3>2. \A z \in Sites : \A o \in oauth'[z] : o \in oauth[z] \/ (z = SiteOf[t] /\ o = s)
        BY <2>13
      <3>3. \A z \in Sites : \A o \in oauth[z] : o.attempt # s.attempt
        BY <2>4, <2>10
      <3> QED BY <3>1, <3>2, <3>3
    <2>16. AtOneProvider'
      BY <2>14, <2>15 DEF AtOneProvider
    <2> QED BY <1>4, <2>8, <2>9, <2>16 DEF AttemptInv, SavedAreOfAttempts
  <1> QED BY <1>1, <1>2, <1>3, <1>4, ConfiguredFits DEF Rests, Failed

LEMMA TokenKeeps ==
  ASSUME BrowserFits, AttemptInv, ListsAreWhole, NEW t \in Tabs, NEW k \in window[t].tasks,
         Browser!Granted(t, k)
  PROVE  AttemptInv' /\ ListsAreWhole'
  <1>1. BrowserFits' /\ k.kind = "grant" /\ k.kind \in Working /\ k.attempt # 0
    BY GrantedFits DEF Working
  <1>2. CASE Rests
    BY <1>1, <1>2, PausesKeep, ListsStayWhole DEF Rests
  <1>3. CASE Failed(t, k)
    BY <1>1, <1>3, FailedKeeps, ListsStayWhole DEF Failed
  <1> DEFINE q == window[t].progress
             x == [attempt |-> k.attempt, provider |-> k.provider, actor |-> k.actor]
  <1>4. ASSUME NEW p, Browser!Wanted(t, k), q.tokens \in Seq(Browser!Tokens), p.actor = q.actor,
               p.tokens = Append(q.tokens, x)
        PROVE  OfAttempt(k.attempt, p)
    <2>1. k \in Work(window[t])
      BY <1>1, <1>4 DEF Browser!Wanted, Work
    <2>2. Continues(q, k) /\ OfAttempt(k.attempt, q)
      BY <1>1, <1>4, <2>1 DEF AttemptInv, AttemptsFit, AttemptFits, Browser!Wanted
    <2>3. x = [attempt |-> k.attempt, provider |-> Len(q.tokens) + 1, actor |-> q.actor]
      BY <2>2 DEF Continues
    <2> HIDE DEF q, x
    <2>4. /\ DOMAIN p.tokens = 1..(Len(q.tokens) + 1) /\ Len(q.tokens) \in Nat
          /\ \A i \in 1..Len(q.tokens) : p.tokens[i] = q.tokens[i]
          /\ p.tokens[Len(q.tokens) + 1] = x /\ DOMAIN q.tokens = 1..Len(q.tokens)
      BY <1>4
    <2>5. \A i \in 1..(Len(q.tokens) + 1) : i \in 1..Len(q.tokens) \/ i = Len(q.tokens) + 1
      BY <2>4
    <2> QED BY <1>4, <2>2, <2>3, <2>4, <2>5 DEF OfAttempt
  <1>5. ASSUME NEW p \in Browser!Logins, OfAttempt(k.attempt, p), Completed(t, k, p)
        PROVE  AttemptInv' /\ ListsAreWhole'
    <2>1. PICK w : Shows(t, w) /\ Idles(w, window[t])
      BY <1>5 DEF Completed
    <2>2. window'[t] = w /\ \A u \in Tabs \ {t} : window'[u] = window[u]
      BY <2>1 DEF BrowserFits, WindowsFit, Shows
    <2>3. \A u \in Tabs : Idles(window'[u], window[u])
      BY <2>1, <2>2, IdlesItself
    <2>4. Pauses
      BY <1>5, <2>3 DEF Completed, Pauses
    <2>5. Whole(p)
      <3>1. k.attempt \in Browser!Attempts
        BY <1>1, TaskHas, WindowHas
      <3> QED BY <1>5, <3>1 DEF Whole
    <2>6. ListsAreWhole'
      BY <1>5, <2>5 DEF Completed, ListsAreWhole, Whole
    <2> QED BY <1>1, <2>4, <2>6, PausesKeep
  <1>6. ASSUME NEW p, NEW new, OfAttempt(k.attempt, p), Continued(t, k, new, p),
               new.provider = Len(p.tokens) + 1, new.actor = p.actor
        PROVE  AttemptInv' /\ ListsAreWhole'
    <2>1. Continues(p, new)
      BY <1>6 DEF Continues
    <2>2. p \in Browser!Progress
      <3>1. PICK w : Shows(t, w) /\ w.progress = p
        BY <1>6 DEF Continued
      <3> QED BY <3>1 DEF Shows, Windows
    <2>3. AttemptInv'
      BY <1>1, <1>6, <2>1, <2>2, ContinuedKeeps
    <2> QED BY <1>6, <2>3, ListsStayWhole DEF Continued
  <1> QED BY <1>2, <1>3, <1>4, <1>5, <1>6, GrantedFits

LEMMA NextKeeps ==
  ASSUME BrowserFits, AttemptInv, ListsAreWhole, ~NewTabs, [Browser!Next]_(Browser!vars)
  PROVE  AttemptInv' /\ ListsAreWhole'
  <1>1. BrowserFits'
    BY NextFits
  <1>2. CASE Rests
    BY <1>1, <1>2, PausesKeep, ListsStayWhole DEF Rests
  <1>3. ASSUME NEW t \in Tabs, AttemptSteps(t) PROVE AttemptInv' /\ ListsAreWhole'
    <2>1. ASSUME NEW k \in window[t].tasks, Browser!Granted(t, k) PROVE AttemptInv' /\ ListsAreWhole'
      BY <2>1, TokenKeeps
    <2>2. ASSUME Browser!Begin(t) \/ Browser!Create(t) \/ \E a \in Actors : Browser!Submit(t, a)
          PROVE  AttemptInv' /\ NoNewLogins
      BY <2>2, BeginKeeps, BeginFits, CreateKeeps, CreateFits, SubmitKeeps, SubmitFits
    <2>3. ASSUME \/ \E s \in oauth[SiteOf[t]] :
                      Browser!Return(t, s) \/ \E a \in Actors : Browser!ReturnAccount(t, s, a)
                 \/ \E n \in visiting, a \in Actors : Browser!ReturnCreated(t, n, a)
          PROVE  AttemptInv' /\ NoNewLogins
      BY <2>3, ReturnKeeps, ReturnCreatedKeeps
    <2>4. ASSUME NEW k \in window[t].tasks,
                 Browser!LoginStarts(t, k) \/ Browser!Resolved(t, k) \/ Browser!Configured(t, k)
          PROVE  AttemptInv' /\ NoNewLogins
      <3>1. Browser!LoginStarts(t, k) => NoNewLogins
        BY LoginStartsFits DEF Rests
      <3> QED BY <2>4, <3>1, LoginStartsKeeps, ResolvedKeeps, ConfiguredKeeps
    <2> QED BY <1>3, <2>1, <2>2, <2>3, <2>4, ListsStayWhole DEF AttemptSteps
  <1> QED BY <1>2, <1>3, StepKinds

LEMMA InitAttempts == Browser!Init => AttemptInv /\ ListsAreWhole
  <1> SUFFICES ASSUME Browser!Init PROVE AttemptInv /\ ListsAreWhole
    OBVIOUS
  <1>1. /\ window = [t \in Tabs |-> Browser!Closed] /\ cookie = Undefined
        /\ local = [s \in Sites |-> {}] /\ oauth = [s \in Sites |-> {}]
        /\ saved = [s \in Sites |-> [n \in Browser!Attempts |-> Browser!NotSaved]]
        /\ visiting = {}
    BY DEF Browser!Init
  <1> DEFINE w == Browser!Closed
  <1>2. /\ w.current = 0 /\ w.active = 0 /\ w.progress = Browser!None /\ ~w.leaving /\ Work(w) = {}
        /\ w.mine = {}
    BY AttemptNumbers DEF Browser!Closed, Work
  <1> HIDE DEF w
  <1>3. \A kept : AttemptFits(w, kept)
    BY <1>2, EmptyIsOfAttempt DEF AttemptFits
  <1>4. \A t \in Tabs : window[t] = w
    BY <1>1 DEF w
  <1>5. AttemptsFit /\ InOnePage /\ AtOneProvider
    BY <1>1, <1>2, <1>3, <1>4 DEF AttemptsFit, InOnePage, AtOneProvider
  <1>6. SavedAreOfAttempts
    BY <1>1, EmptyIsOfAttempt DEF SavedAreOfAttempts
  <1>7. ListsAreWhole
    BY <1>1, <1>2, <1>4 DEF ListsAreWhole, Listed
  <1> QED BY <1>5, <1>6, <1>7 DEF AttemptInv

LEMMA WholeMatches ==
  ASSUME BrowserFits, ListsAreWhole
  PROVE  TokensMatch
  <1> DEFINE all == {local[s] : s \in Sites} \cup {window[t].mine : t \in Tabs}
  <1>1. \A S \in all : \A l \in S : l \in Browser!Logins /\ Listed(l)
    BY WindowHas DEF BrowserFits, CopiesFit, IsList, Listed
  <1>2. ASSUME NEW l \in UNION all, NEW i \in DOMAIN l.tokens
        PROVE  /\ l.tokens[i].actor = l.actor /\ l.tokens[i].provider = i
               /\ l.tokens[i].attempt = l.tokens[1].attempt
    <2>1. l \in Browser!Logins /\ Whole(l)
      <3> HIDE DEF all
      <3> QED BY <1>1, <1>2 DEF ListsAreWhole
    <2>2. PICK n \in Browser!Attempts : OfAttempt(n, l)
      BY <2>1 DEF Whole
    <2>3. DOMAIN l.tokens = 1..Providers[l.actor] /\ Providers[l.actor] \in Nat
      BY <2>1, LoginHas, ProvidersExist
    <2>4. 1 \in DOMAIN l.tokens
      BY <1>2, <2>3
    <2>5. \A j \in DOMAIN l.tokens : l.tokens[j] = [attempt |-> n, provider |-> j, actor |-> l.actor]
      BY <2>2 DEF OfAttempt
    <2>6. /\ l.tokens[i] = [attempt |-> n, provider |-> i, actor |-> l.actor]
          /\ l.tokens[1] = [attempt |-> n, provider |-> 1, actor |-> l.actor]
      BY <1>2, <2>4, <2>5
    <2> QED BY <2>6
  <1> QED BY <1>2 DEF TokensMatch, Browser!TokensMatch

\* Where new accounts are created in the same tab: however often a login is
\* begun, left, resumed or given up, its tokens are of one attempt.
THEOREM TokensAreOfOneAttempt ==
  ASSUME ~NewTabs
  PROVE  Browser!Spec => []TokensMatch
  <1>1. Browser!Init => BrowserFits /\ AttemptInv /\ ListsAreWhole
    BY InitBrowser, InitAttempts
  <1>2. BrowserFits /\ AttemptInv /\ ListsAreWhole /\ [Browser!Next]_(Browser!vars)
        => (BrowserFits /\ AttemptInv /\ ListsAreWhole)'
    BY NextFits, NextKeeps
  <1> QED BY <1>1, <1>2, WholeMatches, PTL DEF Browser!Spec
=============================================================================
