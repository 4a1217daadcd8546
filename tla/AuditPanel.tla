------------------------------- MODULE AuditPanel -------------------------------
(***************************************************************************)
(* The page on which a user reviews and revokes the rules of the data      *)
(* guard: an account is selected, its rules are discovered, filtered by    *)
(* sites, shown page by page, and revoked one at a time.  Accounts log in  *)
(* and out meanwhile, and other pages add and revoke rules.                *)
(*                                                                         *)
(* A discovery is one step here: LiveDiscover is about its parts.          *)
(***************************************************************************)
EXTENDS Integers, FiniteSets

CONSTANTS
  Accounts, Rules,  \* rules are numbered by their dates
  AccountOf,        \* by rule
  SitesOf,          \* by rule: the site that asks and the one of the data
  StartChoices,     \* what a link to the page asks for: an account, and sites to filter by
  FirstRules,       \* rules that are stored at first
  PageSize,
  None,
  MaxAuditEvents    \* bound

VARIABLES
  kept,      \* rules in the storage of their accounts
  gone,      \* rules that were there, and were deleted
  sessions,  \* accounts that are logged in
  account,   \* the selected one
  found,     \* rules of the account that were discovered
  loading,   \* the first discovery is under way
  filter,    \* selected sites; all of them, if none is
  newest,    \* the newest rules come first
  page,
  busy,      \* the operation under way: [kind, session, rules] or None
  failure,   \* an error is shown
  address,   \* the URL of the page: its account, the first sites and the selected ones
  agreed,    \* history: rules that the user wants to be revoked
  revoked,   \* history: rules that the page has revoked, with the session used
  auditEvents

auditVars == <<kept, gone, sessions, account, found, loading, filter, newest, page, busy, failure,
               address, agreed, revoked, auditEvents>>

\* An account that is not logged in can be selected.
Selected(choice, ready) ==
  IF choice.account # None \/ ready = {} THEN choice.account ELSE CHOOSE a \in ready : TRUE

AuditInit ==
  /\ kept \in FirstRules /\ gone = {} /\ sessions \in SUBSET Accounts
  /\ \E choice \in StartChoices :
       /\ account = Selected(choice, sessions)
       /\ filter = choice.sites
       /\ address = [account |-> account, first |-> choice.sites, sites |-> {}]
  /\ found = {} /\ loading = TRUE
  /\ newest = TRUE /\ page = 1
  /\ busy = None /\ failure = FALSE
  /\ agreed = {} /\ revoked = {}
  /\ auditEvents = 0

Noted == auditEvents < MaxAuditEvents /\ auditEvents' = auditEvents + 1
-----------------------------------------------------------------------------
(* What is shown *)

Active == account \in sessions
RulesOf(a, rules) == {r \in rules : AccountOf[r] = a}
Filtered(rules, sites) == {r \in rules : sites = {} \/ SitesOf[r] \cap sites # {}}
Shown == Filtered(found, filter)

\* Those that precede a rule in the list.
Before(r) == {x \in Shown : IF newest THEN x > r ELSE x < r}

PageCount(n) == IF n = 0 THEN 1 ELSE (n + PageSize - 1) \div PageSize
PagedRules == {r \in Shown : Cardinality(Before(r)) \div PageSize = page - 1}

MutFitting(p, count) == p  \* mutant: the page stays when there are fewer
Fitting(p, count) == IF p < count THEN p ELSE count

\* The rules and the filter change; the page is moved into what is left.
Show(rules, sites, p) ==
  /\ found' = rules /\ filter' = sites
  /\ page' = Fitting(p, PageCount(Cardinality(Filtered(rules, sites))))

\* The discovery of another account, or session, starts anew.
Restart(p) == Show({}, filter, p) /\ loading' = TRUE

CanRevoke == Active /\ ~loading /\ busy = None
-----------------------------------------------------------------------------
(* Accounts and discoveries *)

SelectAccount(a) ==
  /\ Noted /\ busy = None /\ a \in sessions \ {account}
  /\ account' = a /\ address' = [address EXCEPT !.account = a]
  /\ Restart(1) /\ failure' = FALSE
  /\ UNCHANGED <<kept, gone, sessions, newest, busy, agreed, revoked>>

SessionStarts(a) ==
  /\ Noted /\ a \notin sessions /\ sessions' = sessions \cup {a}
  /\ account' = Selected([account |-> account], sessions')
  /\ address' = [address EXCEPT !.account = account']
  /\ IF account' = a THEN Restart(page) ELSE UNCHANGED <<found, loading, filter, page>>
  /\ UNCHANGED <<kept, gone, newest, busy, failure, agreed, revoked>>

\* The account stays selected: another one's rules are not shown in its place.
SessionEnds(a) ==
  /\ Noted /\ a \in sessions /\ sessions' = sessions \ {a}
  /\ IF account = a THEN Restart(page) ELSE UNCHANGED <<found, loading, filter, page>>
  /\ UNCHANGED <<kept, gone, account, newest, busy, failure, address, agreed, revoked>>

\* The first discovery ends, or the user refreshes the list.
Discovered ==
  /\ Active /\ (loading \/ busy = None)
  /\ Show(RulesOf(account, kept), filter, page) /\ loading' = FALSE
  /\ UNCHANGED <<kept, gone, sessions, account, newest, busy, failure, address, agreed, revoked, auditEvents>>

\* A page of the guard adds a rule, or another page of this kind revokes one.
Elsewhere(r) ==
  /\ Noted
  /\ \/ r \in kept /\ kept' = kept \ {r} /\ gone' = gone \cup {r}
     \/ r \notin kept \cup gone /\ kept' = kept \cup {r} /\ UNCHANGED gone
  /\ UNCHANGED <<sessions, account, found, loading, filter, newest, page, busy, failure, address,
                 agreed, revoked>>
-----------------------------------------------------------------------------
(* The list *)

\* Also while rules are being revoked.
Filter(sites) ==
  /\ Noted /\ Active /\ ~loading /\ sites # filter
  /\ sites \subseteq filter \cup UNION {SitesOf[r] : r \in found}
  /\ Show(found, sites, 1)
  /\ address' = [address EXCEPT !.sites = sites]
  /\ UNCHANGED <<kept, gone, sessions, account, loading, newest, busy, failure, agreed, revoked>>

\* A heading of the table leads to the first page, the button of small screens does not.
ChangeSort ==
  /\ Noted /\ Active /\ ~loading
  /\ newest' = ~newest /\ page' \in {1, page}
  /\ UNCHANGED <<kept, gone, sessions, account, found, loading, filter, busy, failure, address, agreed, revoked>>

Turn(p) ==
  /\ Active /\ ~loading /\ p \in 1..PageCount(Cardinality(Shown))
  /\ page' = p
  /\ UNCHANGED <<kept, gone, sessions, account, found, loading, filter, newest, busy, failure, address,
                 agreed, revoked, auditEvents>>

\* run(): the session is the one of the click.
Run(kind, rules) ==
  /\ Noted
  /\ busy' = [kind |-> kind, session |-> account, rules |-> rules]
  /\ failure' = FALSE
  /\ agreed' = agreed \cup rules
  /\ UNCHANGED <<kept, gone, sessions, account, found, loading, filter, newest, page, address, revoked>>

Revoke(r) == CanRevoke /\ r \in PagedRules /\ Run("revoke", {r})

\* The user confirms the number of the rules that the filter leaves, on all pages.
RevokeShown == CanRevoke /\ Shown # {} /\ Run("revoke", Shown)

MutTodo == Shown  \* mutant: what is shown by now
\* The list is the one that was confirmed, whatever the filter is by now.
Todo == busy.rules

\* The storage deletes a rule, and the page forgets it, or an error ends the operation.
Deleted ==
  /\ busy # None /\ busy.kind = "revoke" /\ Todo # {}
  /\ \/ \E r \in Todo \cap kept :
          /\ busy.session \in sessions
          /\ kept' = kept \ {r} /\ gone' = gone \cup {r}
          /\ Show(found \ {r}, filter, page)
          /\ revoked' = revoked \cup {<<r, busy.session>>}
          /\ busy' = IF Todo = {r} THEN None ELSE [busy EXCEPT !.rules = Todo \ {r}]
          /\ UNCHANGED failure
     \/ /\ busy' = None /\ failure' = TRUE
        /\ UNCHANGED <<kept, gone, found, filter, page, revoked>>
  /\ UNCHANGED <<sessions, account, loading, newest, address, agreed, auditEvents>>

LogIn == ~Active /\ busy = None /\ Run("login", {})

\* The login goes elsewhere, and the page is loaded anew, or it fails.
LoginEnds ==
  /\ busy # None /\ busy.kind = "login"
  /\ busy' = None /\ failure' \in BOOLEAN
  /\ UNCHANGED <<kept, gone, sessions, account, found, loading, filter, newest, page, address, agreed,
                 revoked, auditEvents>>

\* An operation is not gone on with.
Reload ==
  /\ Noted
  /\ account' = Selected(address, sessions)
  /\ filter' = (IF address.sites = {} THEN address.first ELSE address.sites)
  /\ address' = [address EXCEPT !.account = account']
  /\ found' = {} /\ loading' = TRUE /\ newest' = TRUE /\ page' = 1
  /\ busy' = None /\ failure' = FALSE
  /\ UNCHANGED <<kept, gone, sessions, agreed, revoked>>

AuditNext ==
  \/ \E a \in Accounts : SelectAccount(a) \/ SessionStarts(a) \/ SessionEnds(a)
  \/ Discovered \/ ChangeSort \/ RevokeShown \/ Deleted \/ LogIn \/ LoginEnds \/ Reload
  \/ \E r \in Rules : Elsewhere(r) \/ Revoke(r)
  \/ \E sites \in SUBSET UNION {SitesOf[r] : r \in Rules} : Filter(sites)
  \/ \E p \in {page - 1, page + 1} : Turn(p)
-----------------------------------------------------------------------------
\* What is revoked is what the user pointed at or confirmed, with the session of its
\* own account, the one that is selected all the while, although sessions end, the
\* filter changes and the list goes on moving during the operation.
RevokesAreConfirmed ==
  /\ \A x \in revoked : x[1] \in agreed /\ AccountOf[x[1]] = x[2]
  /\ busy # None /\ busy.kind = "revoke" => busy.session = account

\* While there are rules to show, the page that is shown has some of them.
PageHasRules == found # {} /\ Filtered(found, filter) # {} => PagedRules # {}
=============================================================================
