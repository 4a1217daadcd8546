------------------------------ MODULE ConsentPage ------------------------------
(***************************************************************************)
(* The page that asks whether a site may use the services of an account.   *)
(* It looks for an account, among those of the browser, that owns all that *)
(* is asked for; the approval of a trusted site is sent without a click.   *)
(***************************************************************************)
EXTENDS BrowserAccounts

CONSTANTS
  Holders,  \* the accounts that own every requested service
  Failed    \* the services of an account could not be listed

VARIABLES
  trusted,     \* the site is a trusted Data Guard
  searches,        \* calls of loadUserServiceEndpoints() under way
  shown,       \* userServiceEndpoints: Undefined, Failed, or an account, for its services
  lookups,     \* accounts whose actors are being listed
  autoTried,   \* autoApprovalAttempted
  approval,    \* the account that an approval was sent for, and is not answered
  failedOnce,  \* approvalError
  gone         \* the page has left for the site

consentVars == <<trusted, searches, shown, lookups, autoTried, approval, failedOnce, gone>>
formVars == <<trusted, lookups, autoTried, approval, failedOnce, gone>>

ConsentInit ==
  /\ AccountsInit
  /\ trusted \in BOOLEAN
  /\ searches = {} /\ shown = Undefined /\ lookups = {}
  /\ autoTried = FALSE /\ approval = NoAccount /\ failedOnce = FALSE
  /\ gone = FALSE

\* A call that asks for the services of its account first.
Load(a, others) ==
  [id      |-> CHOOSE n \in 1..Cardinality(others) + 1 : \A r \in others : r.id # n,
   account |-> a, asking |-> a, rest |-> <<>>]

\* The watch of the login and the selection, after a step that leaves these searches
\* and shows these services.
WatchAccounts(left, showing) ==
  IF <<IsLoggedIn, selected>>' = <<IsLoggedIn, selected>>
  THEN searches' = left /\ shown' = showing
  ELSE /\ shown' = Undefined
       /\ searches' = IF IsLoggedIn' = TRUE THEN left \cup {Load(selected', left)} ELSE left
-----------------------------------------------------------------------------
MutIsCurrent(r) == TRUE  \* mutant: a stale call goes on
\* A call goes on only for the account that is selected.
IsCurrent(r) == selected = r.account

\* Nobody else is to be asked: the services are shown, and a trusted site approved.
Verdict(r) ==
  LET holds == r.account \in Holders
      auto == holds /\ trusted /\ ~autoTried
  IN /\ lookups' = lookups \cup (IF holds THEN {r.account} ELSE ElementsOf(accounts))
     /\ autoTried' = (autoTried \/ auto)
     /\ approval' = IF auto THEN selected ELSE approval
     /\ failedOnce' = (failedOnce /\ ~auto)
     /\ searches' = searches \ {r} /\ shown' = r.account
     /\ UNCHANGED <<accountVars, trusted, gone>>

\* The services of one account arrive at a call.
RunAnswered(r) ==
  LET others == IF r.asking = r.account
                THEN SelectSeq(accounts, LAMBDA a : a # r.account)
                ELSE r.rest
  IN /\ HasCookie(r.asking)
     /\ \/ /\ ~IsCurrent(r)
           /\ searches' = searches \ {r}
           /\ UNCHANGED <<accountVars, formVars, shown>>
        \/ /\ IsCurrent(r) /\ r.asking \notin Holders /\ others # <<>>
           /\ searches' = (searches \ {r}) \cup {[r EXCEPT !.asking = Head(others), !.rest = Tail(others)]}
           /\ UNCHANGED <<accountVars, formVars, shown>>
        \/ /\ IsCurrent(r)
           /\ IF r.asking = r.account THEN r.account \in Holders \/ others = <<>>
              ELSE r.asking \notin Holders /\ others = <<>>
           /\ Verdict(r)
        \/ /\ IsCurrent(r) /\ r.asking # r.account /\ r.asking \in Holders
           /\ selected' = r.asking
           /\ UNCHANGED <<cookies, accounts, refreshes, pageEvents, formVars>>
           /\ WatchAccounts(searches \ {r}, shown)

\* An account is logged out, or the request fails.
RunThrows(r) ==
  /\ \/ ~HasCookie(r.asking) /\ UNCHANGED pageEvents
     \/ HasCookie(r.asking) /\ Spend
  /\ Answered401(r.asking)
  /\ searches' = searches \ {r}
  /\ shown' = IF IsCurrent(r) THEN Failed ELSE shown
  /\ UNCHANGED <<cookies, accounts, selected, formVars>>

\* The actors of an account are listed, for the names of its services or as a choice.
LookupAnswered(a) ==
  /\ a \in lookups
  /\ lookups' = lookups \ {a}
  /\ Answered401(a)
  /\ UNCHANGED <<cookies, accounts, selected, pageEvents, trusted, searches, shown,
                 autoTried, approval, failedOnce, gone>>
-----------------------------------------------------------------------------
Lacks == shown \in Accounts \ Holders

\* showTrustedProgress
ShowsProgress ==
  trusted /\ IsLoggedIn # FALSE /\ shown # Failed /\ ~Lacks /\ ~failedOnce

ShowsApprove ==  \* "Approve", or "Try again"
  IsLoggedIn = TRUE /\ shown \in Holders /\ (~trusted \/ failedOnce)

\* A click on Retry.
Retry ==
  /\ Spend /\ IsLoggedIn = TRUE /\ shown = Failed /\ ~ShowsProgress
  /\ searches' = searches \cup {Load(selected, searches)}
  /\ shown' = Undefined
  /\ UNCHANGED <<cookies, accounts, selected, refreshes, formVars>>

\* A click that approves: handleApprove().
Approve ==
  /\ Spend /\ ShowsApprove /\ approval = NoAccount
  /\ approval' = selected /\ failedOnce' = FALSE
  /\ UNCHANGED <<cookies, accounts, selected, refreshes, trusted, searches, shown, lookups,
                 autoTried, gone>>

MutSaysWhy == FALSE  \* mutant: an alert, for a trusted site too
\* What went wrong stays on the page of a trusted site; others get an alert.
SaysWhy == trusted

\* POST /authorize is answered: with a code, or an error.
ApprovalAnswered ==
  LET a == approval
      granted == HasCookie(a) /\ a \in Holders
  IN /\ a # NoAccount
     /\ approval' = NoAccount
     /\ \/ granted /\ gone' = TRUE /\ UNCHANGED <<failedOnce, pageEvents>>
        \/ /\ IF granted THEN Spend ELSE UNCHANGED pageEvents
           /\ failedOnce' = SaysWhy
           /\ UNCHANGED gone
     /\ Answered401(a)
     /\ UNCHANGED <<cookies, accounts, selected, trusted, searches, shown, lookups, autoTried>>

\* A click on Cancel or Deny, or the choice of another actor: back to the site.
Leave ==
  /\ Spend /\ IsLoggedIn = TRUE /\ shown # Undefined /\ ~ShowsProgress
  /\ gone' = TRUE
  /\ UNCHANGED <<cookies, accounts, selected, refreshes, trusted, searches, shown, lookups,
                 autoTried, approval, failedOnce>>

\* The button to log in, when nobody is, or to log in with another account.
LogIn ==
  \E a \in Accounts :
    /\ ~ShowsProgress /\ (IsLoggedIn = FALSE \/ (IsLoggedIn = TRUE /\ Lacks))
    /\ LoginHere(a)
    /\ UNCHANGED consentVars

ListArrives ==
  /\ RefreshStep
  /\ UNCHANGED formVars
  /\ WatchAccounts(searches, shown)

ConsentProgress ==
  /\ ~gone
  /\ \/ ListArrives
     \/ \E r \in searches : RunAnswered(r) \/ RunThrows(r)
     \/ \E a \in lookups : LookupAnswered(a)
     \/ ApprovalAnswered

ConsentNext ==
  \/ ConsentProgress
  \/ ~gone /\ (Retry \/ Approve \/ Leave \/ LogIn)
  \/ ~gone /\ ElsewhereStep /\ UNCHANGED consentVars
-----------------------------------------------------------------------------
\* "Auto-approve only their exact OAuth callback URLs, and only after checking that
\* the selected account owns every requested service": whichever account a refresh,
\* a login or the search for services has selected meanwhile, an approval is only
\* asked of an account that can give it.
ApprovalsAreForOwners == approval # NoAccount => approval \in Holders

\* The user can only wait.
IsBusy ==
  ~gone /\ (ShowsProgress \/ IsLoggedIn = Undefined
            \/ (IsLoggedIn = TRUE /\ shown = Undefined))

\* The page leads somewhere: to the site, to a login, or to a choice, whatever
\* fails or changes while it looks for an account.
PagesMoveOn == IsBusy ~> ~IsBusy

\* "None of your logged-in accounts has access to the requested services."
NoneHasAccess == IsLoggedIn = TRUE /\ Lacks => ElementsOf(accounts) \cap Holders = {}
=============================================================================
