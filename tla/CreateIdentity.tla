----------------------------- MODULE CreateIdentity -----------------------------
(***************************************************************************)
(* The page that creates an identity: a passkey and an account, then its   *)
(* storage bucket, its inbox and its actor, each by a request for the      *)
(* account that is selected when it is sent.                               *)
(***************************************************************************)
EXTENDS BrowserAccounts

CONSTANTS
  NewAccounts,  \* accounts that the page may register
  Complete      \* accounts that have all pieces; those of others were given up

Pieces == <<"bucket", "inbox", "actor">>

VARIABLES
  step,        \* what the page waits for: AtForm, AtPasskey, AtAccounts, or a piece
  registered,  \* the account of the passkey
  request,     \* the account that the request for a piece was sent for
  pieceError,  \* errorString is set: a Retry is offered
  piece,       \* the account that a piece of the page belongs to
  rows,        \* of the server: accounts with such a piece
  disturbed    \* history: the new account was logged out, or an older list was on its way

createVars == <<step, registered, request, pieceError, piece, rows, disturbed>>
formVars == <<step, registered, request, pieceError, piece, rows>>

AtForm == -2
AtPasskey == -1
AtAccounts == 0
Done == Len(Pieces) + 1

CreateInit ==
  /\ AccountsInit
  /\ step = AtForm /\ registered = NoAccount /\ request = NoAccount
  /\ pieceError = FALSE
  /\ piece = [k \in DOMAIN Pieces |-> NoAccount]
  /\ rows = [k \in DOMAIN Pieces |-> Complete]
  /\ disturbed = FALSE
-----------------------------------------------------------------------------
\* A handle is submitted, and the passkey prompt opens.
Submit ==
  /\ step = AtForm /\ step' = AtPasskey
  /\ UNCHANGED <<accountVars, registered, request, pieceError, piece, rows, disturbed>>

\* A challenge that fails, a prompt that is cancelled, or a refused passkey.
Cancelled ==
  /\ Spend /\ step = AtPasskey /\ step' = AtForm
  /\ UNCHANGED <<cookies, accounts, selected, refreshes,
                 registered, request, pieceError, piece, rows, disturbed>>

MutNowSelected(a) == selected  \* mutant: the list is left to select the account
NowSelected(a) == a

\* The account exists: it is selected before the list of accounts is asked for.
Register(a) ==
  /\ step = AtPasskey /\ a \in NewAccounts /\ ~HasCookie(a)
  /\ cookies' = WithCookie(a)
  /\ selected' = NowSelected(a)
  /\ refreshes' = refreshes \cup {Refresh("create", a)}
  /\ registered' = a /\ step' = AtAccounts
  /\ disturbed' = (disturbed \/ refreshes # {})
  /\ UNCHANGED <<accounts, pageEvents, request, pieceError, piece, rows>>

\* The request for piece k, for the account that is selected then.
Send(k) ==
  /\ step' = k
  /\ request' = IF k = Done THEN NoAccount ELSE selected'
  /\ pieceError' = FALSE

\* The page goes on once its own refresh is over, also when it failed.
ListStep ==
  /\ RefreshStep
  /\ LET waited == \E r \in refreshes : r.why = "create"
         over == ~\E r \in refreshes' : r.why = "create"
     IN IF waited /\ over THEN Send(1) ELSE UNCHANGED <<step, request, pieceError>>
  /\ UNCHANGED <<registered, piece, rows, disturbed>>

\* The server makes a piece, if the account is logged in and has none.
Created(k) ==
  LET a == request
      made == HasCookie(a) /\ a \notin rows[k]
  IN /\ step = k /\ a # NoAccount
     /\ rows' = IF made THEN [rows EXCEPT ![k] = @ \cup {a}] ELSE rows
     /\ \/ /\ made
           /\ piece' = [piece EXCEPT ![k] = a]
           /\ UNCHANGED <<accountVars, disturbed>>
           /\ Send(k + 1)
        \/ /\ ~made
           /\ request' = NoAccount /\ pieceError' = TRUE
           /\ Answered401(a)
           /\ UNCHANGED <<cookies, accounts, selected, pageEvents, step, piece, disturbed>>
     /\ UNCHANGED registered

\* A request is lost, or its answer.
CreateFails(k) ==
  /\ Spend /\ step = k /\ request # NoAccount
  /\ \/ UNCHANGED rows
     \/ HasCookie(request) /\ rows' = [rows EXCEPT ![k] = @ \cup {request}]
  /\ request' = NoAccount /\ pieceError' = TRUE
  /\ UNCHANGED <<cookies, accounts, selected, refreshes, step, registered, piece, disturbed>>

Retry(k) ==
  /\ Spend /\ step = k /\ pieceError
  /\ selected' = selected /\ Send(k)
  /\ UNCHANGED <<cookies, accounts, refreshes, registered, piece, rows, disturbed>>

\* Another tab logs in or out, also of the new account.
Elsewhere ==
  /\ ElsewhereStep
  /\ disturbed' = (disturbed \/ (registered # NoAccount /\ registered \notin ElementsOf(cookies')))
  /\ UNCHANGED formVars

CreateProgress ==
  \/ ListStep
  \/ \E k \in DOMAIN Pieces : Created(k) \/ CreateFails(k)

CreateNext ==
  \/ Submit \/ Cancelled \/ Elsewhere
  \/ \E a \in Accounts : Register(a)
  \/ \E k \in DOMAIN Pieces : Retry(k)
  \/ CreateProgress
-----------------------------------------------------------------------------
\* The pieces of an identity belong to the account of its passkey.
PiecesOfOneAccount == \A k \in DOMAIN Pieces : piece[k] \in {NoAccount, registered}

\* "The account exists now, even if reloading the account list fails": although the
\* requests name the selected account and not the new one, the bucket, the inbox and
\* the actor become those of the new account, whichever account was selected before,
\* whatever request fails, and when the list comes late or not at all; unless it
\* is logged out elsewhere, or a list asked for earlier is still on its way.
PiecesAreOfTheNewAccount == ~disturbed => PiecesOfOneAccount

\* A piece that failed can be made by trying again.
RetriesCanSucceed ==
  \A k \in DOMAIN Pieces : step = k /\ pieceError => registered \notin rows[k]
=============================================================================
