------------------------------ MODULE GuardLogin ------------------------------
(***************************************************************************)
(* A login through the data guard.  The tab of an app goes to the guard's  *)
(* own page, perhaps on to an identity provider, and comes back: with a    *)
(* receipt in a cookie that the embedded guard redeems, or with a marker   *)
(* in the URL that the login was canceled.  The app's client remembers the *)
(* request in the sessionStorage of the tab.                               *)
(***************************************************************************)
EXTENDS Integers, Sequences, FiniteSets

CONSTANTS
  Tabs,
  Site,    \* the origin of the app in a tab
  Actors,
  None,
  Stated,  \* requests to which the app gives a state, which comes back with the answer
  MaxAsks, MaxDetours, MaxLogouts  \* bounds

ASSUME SitesOfTabs == DOMAIN Site = Tabs
ASSUME BoundsAreNatural == {MaxAsks, MaxDetours, MaxLogouts} \subseteq Nat

Nonces == 1..MaxAsks
ASSUME StatedAreRequests == Stated \subseteq Nonces
Sites == {Site[t] : t \in Tabs}

VARIABLES
  tab,       \* the page in a tab
  saved,     \* sessionStorage of a tab: the request, and what came of it
  receipts,  \* cookies of the guard, one for a nonce
  sessions,  \* accounts that are logged in at the guard
  approved,  \* LoginAccess of the embedded guards, by site
  asks,      \* tabs that asked for a login; the number of a request is its nonce
  used,      \* how much of each bound is spent
  chosen,    \* history: what the user did about a request
  answers,   \* history: the answers to a request
  missed     \* history: requests whose answer was given up

vars == <<tab, saved, receipts, sessions, approved, asks, used, chosen, answers, missed>>

\* A page of the app: its client, and the embedded guard.
AppPage == [at |-> "app", pc |-> "loading", nonce |-> None, canceled |-> FALSE,
            result |-> None, marker |-> None, before |-> {}]
\* A page of the guard, or of a provider, for request n.
GuardPage(n) == [AppPage EXCEPT !.at = "guard", !.nonce = n]
Forgotten == [nonce |-> None, canceled |-> FALSE, back |-> None]

Success(a) == [ok |-> TRUE, actor |-> a]
Failure == [ok |-> FALSE, actor |-> None]

Init ==
  /\ tab = [t \in Tabs |-> AppPage]
  /\ saved = [t \in Tabs |-> Forgotten]
  /\ receipts = {} /\ sessions = {} /\ approved = {}
  /\ asks = <<>>
  /\ used = [detours |-> 0, logouts |-> 0]
  /\ chosen = [n \in Nonces |-> <<>>]
  /\ answers = [n \in Nonces |-> <<>>]
  /\ missed = {}
-----------------------------------------------------------------------------
(* The page of the app.                                                    *)

MutCancels(t, marker) == marker # None  \* mutant: the marker of any request counts
\* readCancelledLogin(): a marker counts for the request that the tab remembers.
Cancels(t, marker) == saved[t].nonce # None /\ marker = saved[t].nonce

\* The app is loaded at an URL with this marker.
LoadApp(t, marker) ==
  LET hit == Cancels(t, marker)
      canceled == saved[t].nonce # None /\ (saved[t].canceled \/ hit)
  IN /\ tab' = [tab EXCEPT ![t] = [AppPage EXCEPT
                  !.nonce = saved[t].nonce, !.canceled = canceled,
                  !.marker = IF hit THEN saved[t].back ELSE marker]]
     /\ saved' = [saved EXCEPT ![t].canceled = canceled]

\* A result that the page has, but has not handed to the app, goes with it.
Unread(t) == IF tab[t].at = "app" /\ tab[t].pc = "restoring" /\ tab[t].result # None
             THEN {tab[t].nonce} ELSE {}

Redeemed(t) ==
  {r \in receipts : r.nonce = tab[t].nonce /\ r.site = Site[t]}

MutSpent(taken) == {}  \* mutant: a receipt stays
Spent(taken) == taken

\* The embedded guard is connected: it may use cookies, or the user lets it,
\* or not; then it redeems the receipt.
Connect(t, access) ==
  LET taken == IF access /\ ~tab[t].canceled THEN Redeemed(t) ELSE {}
      result == CASE tab[t].canceled -> Failure
                  [] taken # {} -> (CHOOSE r \in taken : TRUE).result
                  [] OTHER -> None
  IN /\ tab[t].at = "app" /\ tab[t].pc = "loading"
     /\ tab' = [tab EXCEPT ![t].pc = "restoring", ![t].result = result]
     /\ receipts' = receipts \ Spent(taken)
     /\ missed' = IF tab[t].nonce # None /\ ~tab[t].canceled /\ ~access
                  THEN missed \cup {tab[t].nonce} ELSE missed
     /\ UNCHANGED <<saved, sessions, approved, asks, used, chosen, answers>>

Answered(n, result) == answers' = [answers EXCEPT ![n] = Append(@, result)]
Outcome(n, result) == chosen' = [chosen EXCEPT ![n] = Append(@, result)]

\* The sessions are restored; approveReturnedLogin() and the event with the result.  The
\* app is not initialized yet: a success is replayed to it with the other sessions, but a
\* failure is handed on for its state only.
Restored(t) ==
  LET r == tab[t].result
      a == r.actor IN
  /\ tab[t].at = "app" /\ tab[t].pc = "restoring"
  /\ tab' = [tab EXCEPT ![t].pc = "answered", ![t].result = None]
  /\ \/ r = None /\ UNCHANGED <<approved, answers>>
     \/ r # None /\ r.ok /\ a \in sessions
        /\ approved' = approved \cup {<<Site[t], a>>}
        /\ Answered(tab[t].nonce, r)
     \/ r # None /\ ~(r.ok /\ a \in sessions)
        /\ UNCHANGED approved
        /\ IF tab[t].nonce \in Stated
           THEN Answered(tab[t].nonce, Failure) ELSE UNCHANGED answers
  /\ UNCHANGED <<saved, receipts, sessions, asks, used, chosen, missed>>

\* The client of the app is initialized, and forgets the request that it knew.
Initialized(t) ==
  /\ tab[t].at = "app" /\ tab[t].pc = "answered"
  /\ tab' = [tab EXCEPT ![t].pc = "ready", ![t].nonce = None, ![t].canceled = FALSE]
  /\ saved' = IF saved[t].nonce = tab[t].nonce
              THEN [saved EXCEPT ![t] = Forgotten] ELSE saved
  /\ UNCHANGED <<receipts, sessions, approved, asks, used, chosen, answers, missed>>

\* login() of an app that the guard can answer with the accounts it has.
LoginHere(t, a) ==
  LET n == Len(asks) + 1 IN
  /\ tab[t].at = "app" /\ tab[t].pc = "ready" /\ Len(asks) < MaxAsks
  /\ sessions # {} /\ a \in sessions \cup {None}
  /\ asks' = Append(asks, t)
  /\ Outcome(n, IF a = None THEN Failure ELSE Success(a))
  /\ IF a = None
     THEN Answered(n, Failure) /\ UNCHANGED approved
     ELSE Answered(n, Success(a)) /\ approved' = approved \cup {<<Site[t], a>>}
  /\ UNCHANGED <<tab, saved, receipts, sessions, used, missed>>

\* login() that goes to the guard: redirectLogin().
LoginThere(t) ==
  LET n == Len(asks) + 1 IN
  /\ tab[t].at = "app" /\ tab[t].pc # "loading" /\ Len(asks) < MaxAsks
  /\ asks' = Append(asks, t)
  /\ saved' = [saved EXCEPT ![t] = [nonce |-> n, canceled |-> FALSE, back |-> tab[t].marker]]
  /\ tab' = [tab EXCEPT ![t] = [GuardPage(n) EXCEPT !.pc = "starting",
                                                   !.marker = tab[t].marker]]
  /\ missed' = missed \cup Unread(t)
  /\ UNCHANGED <<receipts, sessions, approved, used, chosen, answers>>
-----------------------------------------------------------------------------
(* The page of the guard.                                                  *)

AtGuard(t, pc) == tab[t].at = "guard" /\ tab[t].pc = pc

MutReturn(n) == None  \* mutant: without the nonce
\* The marker in the URL to which a login that failed returns.
Return(n) == n

\* finish(): back to the app, with a marker or a receipt.
FinishFailed(t) ==
  /\ Outcome(tab[t].nonce, Failure)
  /\ LoadApp(t, Return(tab[t].nonce))
  /\ UNCHANGED <<receipts, approved>>

FinishOk(t, a, cleared) ==
  /\ Outcome(tab[t].nonce, Success(a))
  /\ receipts' = receipts \cup
       {[nonce |-> tab[t].nonce, site |-> Site[t], result |-> Success(a)]}
  /\ approved' = approved \ cleared
  /\ LoadApp(t, tab[t].marker)

\* A saved account is chosen, or the choice is canceled.
Choose(t, a) ==
  /\ AtGuard(t, "starting") /\ a \in sessions
  /\ FinishOk(t, a, {})
  /\ UNCHANGED <<sessions, asks, used, answers, missed>>
CancelChoice(t) ==
  /\ AtGuard(t, "starting") /\ sessions # {}
  /\ FinishFailed(t)
  /\ UNCHANGED <<sessions, asks, used, answers, missed>>

\* graffiti.login() with the request as its state: it comes back with it.
SignIn(t) ==
  /\ AtGuard(t, "starting")
  /\ tab' = [tab EXCEPT ![t].pc = "away", ![t].before = sessions]
  /\ UNCHANGED <<saved, receipts, sessions, approved, asks, used, chosen, answers, missed>>

SignedIn(t, a) ==
  /\ AtGuard(t, "away")
  /\ sessions' = sessions \cup {a}
  /\ tab' = [tab EXCEPT ![t].pc = "back", ![t].result = Success(a)]
  /\ UNCHANGED <<saved, receipts, approved, asks, used, chosen, answers, missed>>
SignInFailed(t) ==
  /\ AtGuard(t, "away")
  /\ FinishFailed(t)
  /\ UNCHANGED <<sessions, asks, used, answers, missed>>

\* The new session of an account that was not logged in starts without the
\* approvals of an earlier one, where the embedded guards share this storage.
Cleared(a) == Sites \X {a}

Finish(t, shared) ==
  LET a == tab[t].result.actor IN
  /\ AtGuard(t, "back")
  /\ FinishOk(t, a, IF shared /\ a \notin tab[t].before THEN Cleared(a) ELSE {})
  /\ UNCHANGED <<sessions, asks, used, answers, missed>>
-----------------------------------------------------------------------------
(* What the user, another tab and time do.                                 *)

Detour == used.detours < MaxDetours /\ used' = [used EXCEPT !.detours = @ + 1]

\* The app is loaded again at the same URL.
Reload(t) ==
  /\ Detour /\ tab[t].at = "app"
  /\ LoadApp(t, tab[t].marker)
  /\ missed' = missed \cup (IF tab[t].canceled THEN {} ELSE Unread(t))
  /\ UNCHANGED <<receipts, sessions, approved, asks, chosen, answers>>

\* Back to the app, or a page of the guard that is loaded again: it has
\* consumed the request in its URL.
Leave(t) ==
  /\ Detour /\ tab[t].at = "guard"
  /\ LoadApp(t, tab[t].marker)
  /\ missed' = missed \cup {tab[t].nonce}
  /\ UNCHANGED <<receipts, sessions, approved, asks, chosen, answers>>

\* Back in the history of the tab, to the provider's page for an earlier request.
Revisit(t, n) ==
  /\ Detour /\ n \in DOMAIN asks /\ asks[n] = t
  /\ tab' = [tab EXCEPT ![t] = [GuardPage(n) EXCEPT !.pc = "away", !.before = sessions]]
  /\ missed' = missed \cup ({tab[t].nonce, n} \ {None})
  /\ UNCHANGED <<saved, receipts, sessions, approved, asks, chosen, answers>>

\* After ten minutes the guard page does not return.
Expired(t) ==
  /\ Detour /\ AtGuard(t, "back")
  /\ tab' = [tab EXCEPT ![t].pc = "expired"]
  /\ missed' = missed \cup {tab[t].nonce}
  /\ UNCHANGED <<saved, receipts, sessions, approved, asks, chosen, answers>>

ReceiptExpires(r) ==
  /\ Detour
  /\ receipts' = receipts \ {r}
  /\ missed' = missed \cup {r.nonce}
  /\ UNCHANGED <<tab, saved, sessions, approved, asks, chosen, answers>>

\* Only the embedded guards that are open, or share its storage, take their
\* approvals back.
LogOut(a, sites) ==
  /\ used.logouts < MaxLogouts /\ a \in sessions
  /\ used' = [used EXCEPT !.logouts = @ + 1]
  /\ sessions' = sessions \ {a}
  /\ approved' = approved \ (sites \X {a})
  /\ UNCHANGED <<tab, saved, receipts, asks, chosen, answers, missed>>

Next ==
  \/ \E t \in Tabs :
       \/ \E access \in BOOLEAN : Connect(t, access)
       \/ Restored(t) \/ Initialized(t)
       \/ \E a \in Actors \cup {None} : LoginHere(t, a)
       \/ LoginThere(t) \/ CancelChoice(t) \/ SignIn(t) \/ SignInFailed(t)
       \/ \E a \in Actors : Choose(t, a) \/ SignedIn(t, a)
       \/ \E shared \in BOOLEAN : Finish(t, shared)
       \/ Reload(t) \/ Leave(t) \/ Expired(t)
       \/ \E n \in Nonces : Revisit(t, n)
  \/ \E r \in receipts : ReceiptExpires(r)
  \/ \E a \in Actors, sites \in SUBSET Sites : LogOut(a, sites)

Spec == Init /\ [][Next]_vars

\* Pages load and are initialized; the user answers the guard's dialogs or goes.
Progress(t) ==
  \/ \E access \in BOOLEAN : Connect(t, access)
  \/ Restored(t) \/ Initialized(t)
  \/ \E shared \in BOOLEAN : Finish(t, shared)
FairSpec == Spec /\ \A t \in Tabs : WF_vars(Progress(t))
-----------------------------------------------------------------------------
Occurrences(s, x) == Cardinality({k \in DOMAIN s : s[k] = x})

\* A login is answered with what the user did about this very request, and each
\* success once; a failure is also the answer if the account has been logged out
\* again.  A cancellation may be repeated to an app that is loaded again.  No
\* older request of the tab, or one of another tab, interferes.
AnswersFit ==
  \A n \in Nonces :
    /\ \A a \in Actors :
         Occurrences(answers[n], Success(a)) <= Occurrences(chosen[n], Success(a))
    /\ Occurrences(answers[n], Failure) > 0 =>
         \/ Occurrences(chosen[n], Failure) > 0
         \/ chosen[n] # <<>> /\ used.logouts > 0

\* A site has an account only by the answer to a login that it asked for: the
\* nonce, the return URL and a login that is completed elsewhere give nothing.
ApprovalsWereAnswered ==
  \A g \in approved : \E n \in DOMAIN asks :
    /\ Site[asks[n]] = g[1]
    /\ \E k \in DOMAIN answers[n] : answers[n][k] = Success(g[2])

\* Of a login without a state, only a success whose account stays logged in is told.
IsTold(n) == n \in Stated \/ (Occurrences(chosen[n], Failure) = 0 /\ used.logouts = 0)
IsDue(n) == chosen[n] # <<>> /\ answers[n] = <<>> /\ n \notin missed
OutcomesAreDue == \E n \in Nonces : IsDue(n) /\ IsTold(n)

\* What the user did about a request reaches the app, unless the way back was
\* left: another page, the page loaded again with the result in hand, cookies
\* refused, or ten minutes over; or it is a failure, and the app gave no state.
OutcomesReturn == OutcomesAreDue ~> ~OutcomesAreDue

\* It reaches the app whether this gave a state or not.
EveryOutcomeReturns == \A n \in Nonces : IsDue(n) ~> ~IsDue(n)
=============================================================================
