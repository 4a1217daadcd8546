------------------------ MODULE HandleReservations ------------------------
(***************************************************************************)
(* Handles, and the accounts and logins that passkeys make.  A new account *)
(* reserves a name for as long as its passkey prompt may be open; an       *)
(* account that changes its handle reserves the new name while the actor's *)
(* PLC document is published.  Every request is a row of statements, and   *)
(* those of other tabs run in between.                                     *)
(*                                                                         *)
(* A tab is a browser and a number; the tabs of a browser share cookies.   *)
(* Names are local; sessions and accounts are numbered as they are issued. *)
(***************************************************************************)
EXTENDS Integers, FiniteSets

CONSTANTS
  Names, Browsers,
  Lifetime,     \* CHALLENGE_MAX_AGE
  MaxTabs, MaxSessions, MaxAccounts, MaxTime, MaxRequests  \* bounds

Tabs == Browsers \X (1..MaxTabs)
Sessions == 1..MaxSessions
Accounts == 1..MaxAccounts
None == 0      \* no session, no account, no row
Temp == -1     \* TEMP_ACCOUNT_ID
Long == -1     \* a time before every other
NoName == "none"

VARIABLES
  now,         \* Date.now()
  owner,       \* table sessions: session -> Temp, an account, or None
  sessions,    \* sessions issued
  accounts,    \* accounts issued
  reserved,    \* table handle_reservations: name -> session, created_at
  handles,     \* table handles: name -> account
  challenges,  \* passkey_registration_challenges: session -> account, created_at
  logins,      \* passkey_authentication_challenges: session -> created_at
  temp,        \* the cookie "session" of each browser
  signedIn,    \* the cookies "account_..." of each browser
  tab,         \* the page, and its request
  requests,    \* requests so far, for the bound
  promise,     \* history: the reservation of a name that was free, while it counts
  shown,       \* history: the handle in the passkey prompt of a new account
  registered   \* history: the handle the account then got

tables == <<owner, reserved, handles, challenges, logins>>
cookies == <<temp, signedIn>>
issued == <<sessions, accounts>>
history == <<promise, shown, registered>>
vars == <<now, tables, cookies, issued, tab, requests, history>>

NoRow == [session |-> None, at |-> Long]
NoChallenge == [account |-> None, at |-> Long]
Idle == [pc |-> "idle", op |-> "none", session |-> None, asked |-> None, name |-> NoName,
         account |-> None, at |-> Long]

Init ==
  /\ now = 0
  /\ owner = [s \in Sessions |-> None]
  /\ reserved = [n \in Names |-> NoRow]
  /\ handles = [n \in Names |-> None]
  /\ challenges = [s \in Sessions |-> NoChallenge]
  /\ logins = [s \in Sessions |-> Long]
  /\ temp = [b \in Browsers |-> None]
  /\ signedIn = [b \in Browsers |-> {}]
  /\ sessions = 0 /\ accounts = 0
  /\ tab = [t \in Tabs |-> Idle]
  /\ requests = 0
  /\ promise = [n \in Names |-> NoRow]
  /\ shown = [a \in Accounts |-> NoName]
  /\ registered = [a \in Accounts |-> NoName]
-----------------------------------------------------------------------------
Browser(t) == t[1]
Live(s) == s # None /\ owner[s] # None

Goes(t, r, pc) == tab' = [tab EXCEPT ![t] = [r EXCEPT !.pc = pc]]
Ends(t) == tab' = [tab EXCEPT ![t] = Idle]

Asks(t, pcs) ==
  /\ tab[t].pc \in pcs
  /\ requests < MaxRequests
  /\ requests' = requests + 1

\* createSessionToken(): a session of account a, the cookie comes with the answer.
Opens(a) ==
  /\ sessions < MaxSessions
  /\ sessions' = sessions + 1
  /\ owner' = [owner EXCEPT ![sessions + 1] = a]

SetTemp(t, s) == temp' = [temp EXCEPT ![Browser(t)] = s]

\* A reservation counts for less than its lifetime ...
Counts(row, time) == row.at > time - Lifetime
\* ... and can then be taken by another session.
MutTakeable(n, s, time) == TRUE
Takeable(n, s, time) ==
  \/ reserved[n].session \in {None, s}
  \/ reserved[n].at <= time - Lifetime

\* isHandleAvailable()
Available(n, s, time) ==
  /\ handles[n] = None
  /\ ~(reserved[n].session \notin {None, s} /\ Counts(reserved[n], time))

\* The names that a session may insert at a time.
MutInsertable(s, time) ==
  {n \in Names : reserved[n].session = s /\ reserved[n].at >= time - Lifetime}
Insertable(s, time) == {n \in Names : reserved[n].session = s /\ Counts(reserved[n], time)}

\* ON DELETE CASCADE: what is left of the tables without session s.
Drops(s) ==
  /\ reserved' = [n \in Names |-> IF reserved[n].session = s THEN NoRow ELSE reserved[n]]
  /\ promise' = [n \in Names |-> IF promise[n].session = s THEN NoRow ELSE promise[n]]
  /\ challenges' = [challenges EXCEPT ![s] = NoChallenge]
  /\ logins' = [logins EXCEPT ![s] = Long]
-----------------------------------------------------------------------------
(* reserveHandle(), for a new account and for a change of handle.          *)

\* POST /register/challenge of a new account.  The temporary session of an
\* earlier prompt is used again, or a new one is opened.
AskRegistration(t, n) ==
  LET s == temp[Browser(t)]
      r == [Idle EXCEPT !.op = "register", !.name = n]
  IN /\ Asks(t, {"idle"})
     /\ \/ /\ Live(s)
           /\ Goes(t, [r EXCEPT !.session = s], "check")
           /\ UNCHANGED <<sessions, owner>>
        \/ /\ ~Live(s)
           /\ Opens(Temp)
           /\ Goes(t, [r EXCEPT !.session = sessions + 1], "check")
     /\ UNCHANGED <<now, reserved, handles, challenges, logins, cookies, accounts, history>>

\* POST /change: the handle must be another one than the account has.
AskChange(t, s, n) ==
  /\ s \in signedIn[Browser(t)]
  /\ Live(s)
  /\ handles[n] # owner[s]
  /\ Asks(t, {"idle"})
  /\ Goes(t, [Idle EXCEPT !.op = "change", !.name = n, !.session = s,
                          !.account = owner[s]], "check")
  /\ UNCHANGED <<now, tables, cookies, issued, history>>

\* A failed request ends; the cookie it had set comes with the error.
Fails(t, r) ==
  /\ Ends(t)
  /\ IF r.op = "register" THEN SetTemp(t, r.session) ELSE UNCHANGED temp

CheckName(t) ==
  LET r == tab[t] IN
  /\ r.pc = "check"
  /\ \/ /\ handles[r.name] # None
        /\ Fails(t, r)
     \/ /\ handles[r.name] = None
        /\ Goes(t, [r EXCEPT !.at = now], "upsert")
        /\ UNCHANGED temp
  /\ UNCHANGED <<now, tables, signedIn, issued, requests, history>>

\* A promise is kept against every other session while it counts, and follows
\* the reservation that it stands for.
Promised(n, s, at) ==
  IF \/ handles[n] # None /\ promise[n].session # s
     \/ promise[n].session \notin {None, s} /\ now - promise[n].at < Lifetime
  THEN promise ELSE [promise EXCEPT ![n] = [session |-> s, at |-> at]]

\* INSERT ... ON CONFLICT(name) DO UPDATE ... WHERE; the session must exist.
UpsertReservation(t) ==
  LET r == tab[t]
      good == Live(r.session) /\ Takeable(r.name, r.session, r.at)
  IN /\ r.pc = "upsert"
     /\ \/ /\ good
           /\ reserved' = [reserved EXCEPT ![r.name] = [session |-> r.session, at |-> r.at]]
           /\ promise' = Promised(r.name, r.session, r.at)
           /\ Goes(t, r, "release")
           /\ UNCHANGED temp
        \/ /\ ~good
           /\ Fails(t, r)
           /\ UNCHANGED <<reserved, promise>>
     /\ UNCHANGED <<now, owner, handles, challenges, logins, signedIn, issued, requests,
                    shown, registered>>

\* The names that session s had reserved, those of set names, are free again.
Frees(s, names) ==
  /\ reserved' = [n \in Names |->
       IF n \in names /\ reserved[n].session = s THEN NoRow ELSE reserved[n]]
  /\ promise' = [n \in Names |->
       IF n \in names /\ promise[n].session = s THEN NoRow ELSE promise[n]]

ReleaseOthers(t) ==
  LET r == tab[t] IN
  /\ r.pc = "release"
  /\ Frees(r.session, Names \ {r.name})
  /\ IF r.op = "register" THEN Goes(t, r, "store")
     ELSE Goes(t, [r EXCEPT !.at = now], "publish")
  /\ UNCHANGED <<now, owner, handles, challenges, logins, cookies, issued, requests,
                 shown, registered>>
-----------------------------------------------------------------------------
(* A new account.                                                          *)

\* INSERT INTO accounts, which nobody else sees, and INSERT OR REPLACE INTO
\* passkey_registration_challenges; the answer opens the prompt.
StoreChallenge(t) ==
  LET r == tab[t]
      a == accounts + 1
  IN /\ r.pc = "store"
     /\ SetTemp(t, r.session)
     /\ \/ /\ Live(r.session)
           /\ a \in Accounts
           /\ accounts' = a
           /\ challenges' = [challenges EXCEPT ![r.session] = [account |-> a, at |-> now]]
           /\ shown' = [shown EXCEPT ![a] = r.name]
           /\ Goes(t, [Idle EXCEPT !.op = "register", !.account = a], "prompt")
        \/ /\ ~Live(r.session)
           /\ Ends(t)
           /\ UNCHANGED <<accounts, challenges, shown>>
     /\ UNCHANGED <<now, owner, reserved, handles, logins, signedIn, sessions, requests,
                    promise, registered>>

CancelPrompt(t) ==
  /\ tab[t].pc = "prompt"
  /\ Ends(t)
  /\ UNCHANGED <<now, tables, cookies, issued, requests, history>>

\* POST /register/verify and /authenticate/verify, with the cookie of the moment.
Confirm(t) ==
  LET s == temp[Browser(t)] IN
  /\ Asks(t, {"prompt"})
  /\ \/ /\ Live(s)
        /\ Goes(t, [tab[t] EXCEPT !.session = s], "take")
        /\ UNCHANGED temp
     \/ /\ ~Live(s)
        /\ SetTemp(t, None)
        /\ Ends(t)
  /\ UNCHANGED <<now, tables, signedIn, issued, history>>

\* DELETE ... RETURNING: a challenge is used once, whether it is good or not.
TakeChallenge(t) ==
  LET r == tab[t]
      row == challenges[r.session]
      good == row.account = r.account /\ now - row.at <= Lifetime
  IN /\ r.pc = "take" /\ r.op = "register"
     /\ challenges' = [challenges EXCEPT ![r.session] = NoChallenge]
     /\ IF good THEN Goes(t, [r EXCEPT !.at = now], "insert") ELSE Ends(t)
     /\ UNCHANGED <<now, owner, reserved, handles, logins, cookies, issued, requests, history>>

\* The batch: the passkey, and the handle from the reservation of the session.
\* No reservation is NULL, a name that has an account is a conflict, and both
\* undo the passkey.
InsertHandle(t) ==
  LET r == tab[t]
      free == Insertable(r.session, r.at)
  IN /\ r.pc = "insert"
     /\ \/ \E n \in free :
             /\ handles[n] = None
             /\ handles' = [handles EXCEPT ![n] = r.account]
             /\ registered' = [registered EXCEPT ![r.account] = n]
             /\ Goes(t, r, "finish")
        \/ /\ free = {} \/ \E n \in free : handles[n] # None
           /\ Ends(t)
           /\ UNCHANGED <<handles, registered>>
     /\ UNCHANGED <<now, owner, reserved, challenges, logins, cookies, issued, requests,
                    promise, shown>>

\* The temporary session goes, with all it holds, and the account has its own.
FinishPasskey(t) ==
  LET r == tab[t] IN
  /\ r.pc = "finish"
  /\ sessions < MaxSessions
  /\ sessions' = sessions + 1
  /\ owner' = [owner EXCEPT ![r.session] = None, ![sessions + 1] = r.account]
  /\ Drops(r.session)
  /\ SetTemp(t, None)
  /\ signedIn' = [signedIn EXCEPT ![Browser(t)] = @ \cup {sessions + 1}]
  /\ Ends(t)
  /\ UNCHANGED <<now, handles, accounts, requests, shown, registered>>
-----------------------------------------------------------------------------
(* A login.                                                                *)

\* GET /authenticate/challenge: always a new temporary session.
AskLogin(t) ==
  LET s == sessions + 1 IN
  /\ Asks(t, {"idle"})
  /\ Opens(Temp)
  /\ logins' = [logins EXCEPT ![s] = now]
  /\ SetTemp(t, s)
  /\ Goes(t, [Idle EXCEPT !.op = "login", !.asked = s], "prompt")
  /\ UNCHANGED <<now, reserved, handles, challenges, signedIn, accounts, history>>

\* The passkey of an account signed the challenge that the tab was given.
TakeLogin(t) ==
  LET r == tab[t]
      s == r.session
      good == logins[s] # Long /\ s = r.asked /\ now - logins[s] <= Lifetime
  IN /\ r.pc = "take" /\ r.op = "login"
     /\ logins' = [logins EXCEPT ![s] = Long]
     /\ \/ /\ good
           /\ \E a \in Accounts : /\ registered[a] # NoName
                                  /\ Goes(t, [r EXCEPT !.account = a], "finish")
        \/ /\ ~good \/ \A a \in Accounts : registered[a] = NoName
           /\ Ends(t)
     /\ UNCHANGED <<now, owner, reserved, handles, challenges, cookies, issued, requests, history>>

\* POST /logout
Logout(b, s) ==
  /\ s \in signedIn[b]
  /\ requests < MaxRequests
  /\ requests' = requests + 1
  /\ signedIn' = [signedIn EXCEPT ![b] = @ \ {s}]
  /\ owner' = [owner EXCEPT ![s] = None]
  /\ Drops(s)
  /\ UNCHANGED <<now, handles, temp, issued, tab, shown, registered>>
-----------------------------------------------------------------------------
(* A change of handle.                                                     *)

\* publishActorHandle() at the PLC directory, which may refuse.
Publish(t) ==
  LET r == tab[t] IN
  /\ r.pc = "publish"
  /\ Goes(t, r, "replace") \/ Goes(t, r, "free")
  /\ UNCHANGED <<now, tables, cookies, issued, requests, history>>

\* The row of the account is replaced if the session still has the name, by the
\* clock of before the publication.
ReplaceHandle(t) ==
  LET r == tab[t] IN
  /\ r.pc = "replace"
  /\ handles' = IF r.name \in Insertable(r.session, r.at) /\ handles[r.name] \in {None, r.account}
                THEN [n \in Names |-> IF n = r.name THEN r.account
                                      ELSE IF handles[n] = r.account THEN None ELSE handles[n]]
                ELSE handles
  /\ Goes(t, r, "free")
  /\ UNCHANGED <<now, owner, reserved, challenges, logins, cookies, issued, requests, history>>

FreeReservation(t) ==
  LET r == tab[t] IN
  /\ r.pc = "free"
  /\ Frees(r.session, {r.name})
  /\ Ends(t)
  /\ UNCHANGED <<now, owner, handles, challenges, logins, cookies, issued, requests,
                 shown, registered>>
-----------------------------------------------------------------------------
Tick ==
  /\ now < MaxTime
  /\ now' = now + 1
  /\ UNCHANGED <<tables, cookies, issued, tab, requests, history>>

Register(t) == \/ \E n \in Names : AskRegistration(t, n)
               \/ StoreChallenge(t) \/ CancelPrompt(t) \/ Confirm(t)
               \/ TakeChallenge(t) \/ InsertHandle(t) \/ FinishPasskey(t)
Reserve(t) == CheckName(t) \/ UpsertReservation(t) \/ ReleaseOthers(t)
Login(t) == AskLogin(t) \/ TakeLogin(t)
Change(t) == \/ \E s \in Sessions, n \in Names : AskChange(t, s, n)
             \/ Publish(t) \/ ReplaceHandle(t) \/ FreeReservation(t)

Next == \/ \E t \in Tabs : Register(t) \/ Reserve(t) \/ Login(t) \/ Change(t)
        \/ \E b \in Browsers, s \in Sessions : Logout(b, s)
        \/ Tick

Spec == Init /\ [][Next]_vars
-----------------------------------------------------------------------------
(* Properties.                                                             *)

Rows == [session : 0..MaxSessions, at : 0..MaxTime \cup {Long}]

\* The types of the state.
TypeOK ==
  /\ now \in 0..MaxTime
  /\ owner \in [Sessions -> Accounts \cup {None, Temp}]
  /\ sessions \in 0..MaxSessions /\ accounts \in 0..MaxAccounts
  /\ reserved \in [Names -> Rows] /\ promise \in [Names -> Rows]
  /\ handles \in [Names -> 0..MaxAccounts]
  /\ challenges \in [Sessions -> [account : 0..MaxAccounts, at : 0..MaxTime \cup {Long}]]
  /\ logins \in [Sessions -> 0..MaxTime \cup {Long}]
  /\ temp \in [Browsers -> 0..MaxSessions]
  /\ signedIn \in [Browsers -> SUBSET Sessions]
  /\ tab \in [Tabs -> [pc : {"idle", "check", "upsert", "release", "store", "prompt", "take",
                             "insert", "finish", "publish", "replace", "free"},
                       op : {"none", "register", "login", "change"},
                       session : 0..MaxSessions, asked : 0..MaxSessions,
                       name : Names \cup {NoName}, account : 0..MaxAccounts,
                       at : 0..MaxTime \cup {Long}]]
  /\ requests \in 0..MaxRequests
  /\ shown \in [Accounts -> Names \cup {NoName}]
  /\ registered \in [Accounts -> Names \cup {NoName}]

\* A name that was free when a session reserved it goes to no other session
\* before the reservation is over or given up: not while the passkey prompt is
\* open, and not while the actor's document is published.
NotScooped ==
  [][\A n \in Names :
       /\ handles[n] = None /\ handles'[n] # None
       /\ promise[n].session # None /\ now - promise[n].at < Lifetime
       => \E t \in Tabs : /\ tab'[t] # tab[t]
                          /\ tab[t].pc \in {"insert", "replace"}
                          /\ tab[t].session = promise[n].session]_vars

\* The three conditions on the age of a reservation agree at the boundary: a
\* name is shown as available to a session exactly when it can reserve it, and
\* nobody can take a name that its holder could still insert.
BoundariesAgree ==
  \A n \in Names, s \in Sessions :
    /\ Available(n, s, now) <=> handles[n] = None /\ Takeable(n, s, now)
    /\ Takeable(n, s, now) =>
         \A other \in Sessions \ {s} : n \notin Insertable(other, now)

\* The handle of a new account is the one that its passkey prompt showed.
PromptTellsHandle ==
  \A a \in Accounts : registered[a] \in {NoName, shown[a]}
=============================================================================
