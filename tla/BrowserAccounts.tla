---------------------------- MODULE BrowserAccounts ----------------------------
(***************************************************************************)
(* The accounts that a browser is logged in to, as its cookies say, and    *)
(* what a page of the provider knows of them: a list that it refreshes,    *)
(* and the account that it has selected.                                   *)
(***************************************************************************)
EXTENDS Integers, Sequences, FiniteSets, SequencesExt

CONSTANTS
  Accounts,
  NoAccount,      \* nothing is selected
  StartCookies,   \* the accounts that a browser may be logged in to at first
  Undefined,      \* of Vue: the accounts are not loaded
  MaxPageEvents   \* bound: what users, other tabs and failures do

VARIABLES
  cookies,     \* accounts with a cookie and a session, in the order of their logins
  accounts,    \* of the page: Undefined, or a list
  selected,    \* of the page, and its sessionStorage
  refreshes,   \* calls of refreshAccounts() under way
  pageEvents   \* how much of the bound is spent

accountVars == <<cookies, accounts, selected, refreshes, pageEvents>>

ElementsOf(s) == {s[i] : i \in DOMAIN s}

\* A call of refreshAccounts() for a reason, which may prefer an account.
Refresh(why, prefer) ==
  [id     |-> CHOOSE n \in 1..Cardinality(refreshes) + 1 : \A r \in refreshes : r.id # n,
   why    |-> why,
   prefer |-> prefer,
   list   |-> Undefined]

\* A page loads: it remembers the account that was selected, and asks for the list.
AccountsInit ==
  /\ cookies \in StartCookies
  /\ accounts = Undefined
  /\ selected \in ElementsOf(cookies) \cup {NoAccount}
  /\ refreshes = {[id |-> 1, why |-> "page", prefer |-> NoAccount, list |-> Undefined]}
  /\ pageEvents = 0

\* isLoggedIn
IsLoggedIn == IF accounts = Undefined THEN Undefined ELSE selected \in ElementsOf(accounts)

HasCookie(a) == a \in ElementsOf(cookies)
WithCookie(a) == IF HasCookie(a) THEN cookies ELSE Append(cookies, a)

Spend == pageEvents < MaxPageEvents /\ pageEvents' = pageEvents + 1

\* fetchFromSelf() answers 401 to an account: the page asks for the list.
Answered401(a) ==
  refreshes' = IF HasCookie(a) THEN refreshes ELSE refreshes \cup {Refresh("401", NoAccount)}
-----------------------------------------------------------------------------
\* What refreshAccounts() selects when a list arrives.
Selects(list, prefer) ==
  CASE prefer \in ElementsOf(list)   -> prefer
    [] /\ prefer \notin ElementsOf(list)
       /\ selected \in ElementsOf(list) -> selected
    [] OTHER -> IF list = <<>> THEN NoAccount ELSE list[1]

\* GET /accounts: the server reads the cookies of the request.
RefreshServed(r) ==
  /\ r.list = Undefined
  /\ refreshes' = (refreshes \ {r}) \cup {[r EXCEPT !.list = cookies]}
  /\ UNCHANGED <<cookies, accounts, selected, pageEvents>>

RefreshArrives(r) ==
  /\ r.list # Undefined
  /\ refreshes' = refreshes \ {r}
  /\ accounts' = r.list
  /\ selected' = Selects(r.list, r.prefer)
  /\ UNCHANGED <<cookies, pageEvents>>

\* The list that a page loads with is asked for again after a second.
RefreshFails(r) ==
  /\ Spend
  /\ refreshes' = (refreshes \ {r}) \cup
       (IF r.why = "page" THEN {[r EXCEPT !.list = Undefined]} ELSE {})
  /\ UNCHANGED <<cookies, accounts, selected>>

\* Other tabs of the browser, and the revocation of sessions.
LoginElsewhere(a) ==
  /\ Spend /\ ~HasCookie(a)
  /\ cookies' = Append(cookies, a)
  /\ UNCHANGED <<accounts, selected, refreshes>>

LogoutElsewhere(a) ==
  /\ Spend
  /\ \E i \in DOMAIN cookies : cookies[i] = a /\ cookies' = RemoveAt(cookies, i)
  /\ UNCHANGED <<accounts, selected, refreshes>>

\* Login.vue: the passkey of an account was verified.
LoginHere(a) ==
  /\ Spend
  /\ cookies' = WithCookie(a)
  /\ refreshes' = refreshes \cup {Refresh("login", a)}
  /\ UNCHANGED <<accounts, selected>>

RefreshStep == \E r \in refreshes : RefreshServed(r) \/ RefreshArrives(r) \/ RefreshFails(r)
ElsewhereStep == \E a \in Accounts : LoginElsewhere(a) \/ LogoutElsewhere(a)
=============================================================================
