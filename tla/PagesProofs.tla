------------------------------ MODULE PagesProofs ------------------------------
(***************************************************************************)
(* Theorems about the parts of pages, for any accounts, names, actors,     *)
(* objects, tabs and bounds.  The parts share no state, or only that of    *)
(* the accounts: each has an inductive invariant of its own.               *)
(***************************************************************************)
EXTENDS MCPages, FiniteSetTheorems, WellFoundedInduction, TLAPS

\* A step of the whole is a step of the subject, and leaves the others as they are.
LEMMA StepsAreOfOne ==
  ASSUME PagesNext \/ UNCHANGED pagesVars
  PROVE  /\ subject' = subject
         /\ UNCHANGED vars \/ (subject = "login" /\ Next)
         /\ UNCHANGED handleVars \/ (subject = "handle" /\ Handle!HandleFormNext)
         /\ UNCHANGED identityVars \/ (subject = "identity" /\ Identity!IdentityNext)
         /\ UNCHANGED objectVars \/ (subject = "object" /\ Object!GetNext)
         /\ UNCHANGED actorVars \/ (subject = "actor" /\ Actor!ActorPagesNext)
         /\ UNCHANGED labelVars \/ (subject = "labels" /\ Label!LabelsNext)
         /\ UNCHANGED batchVars \/ (subject = "batch" /\ Batch!BatchNext)
         /\ \/ UNCHANGED consentVars /\ (subject = "creation" \/ UNCHANGED accountVars)
            \/ subject = "consent" /\ Consent!ConsentNext
         /\ \/ UNCHANGED createVars /\ (subject = "consent" \/ UNCHANGED accountVars)
            \/ subject = "creation" /\ Creation!CreateNext
<1>1. CASE UNCHANGED pagesVars
  BY <1>1 DEF pagesVars
<1>2. CASE PagesNext
  BY <1>2 DEF PagesNext, Only
<1>3. QED
  BY <1>1, <1>2
-----------------------------------------------------------------------------
(***************************************************************************)
(* Handles.                                                                *)
(***************************************************************************)

\* An available status, a running timer and the newest check are of the name as it is
\* now, and no check is newer than the form.
FormIsChecked ==
  /\ seq \in Nat
  /\ status = "available" => statusOf = seq /\ name \in Names \ BadNames
  /\ timer # 0 => timer = seq /\ name \in Names \ BadNames
  /\ \A c \in checks :
       /\ c.seq \in Nat /\ c.seq <= seq
       /\ c.seq = seq => name \in Names \ BadNames

HandleInv ==
  /\ FormIsChecked
  /\ verified # NoText => verified = domain /\ verified \in published
  /\ pending # NoText /\ choice = "local" => pending = name

LEMMA HandleStarts ==
  ASSUME Handle!HandleFormInit
  PROVE  HandleInv
BY DEF Handle!HandleFormInit, HandleInv, FormIsChecked

LEMMA HandleStep ==
  ASSUME HandleInv, UNCHANGED handleVars \/ Handle!HandleFormNext
  PROVE  HandleInv'
<1> USE DEF HandleInv, FormIsChecked, Handle!nameForm, Handle!domainForm, Handle!others,
            Handle!Uses, Handle!Within
<1>1. CASE UNCHANGED handleVars
  BY <1>1 DEF handleVars
<1>2. ASSUME NEW kind, Handle!LoadActor(kind) PROVE HandleInv'
  BY <1>2 DEF Handle!LoadActor
<1>3. CASE Handle!ChooseLocal
  BY <1>3 DEF Handle!ChooseLocal
<1>4. CASE Handle!ChooseCustom
  BY <1>4 DEF Handle!ChooseCustom
<1>5. ASSUME NEW n \in Names \cup {NoText}, Handle!Type(n) PROVE HandleInv'
  BY <1>5 DEF Handle!Type
<1>6. CASE Handle!TimerFires
  BY <1>6 DEF Handle!TimerFires
<1>7. ASSUME NEW c \in checks, Handle!CheckAnswered(c) PROVE HandleInv'
  BY <1>7 DEF Handle!CheckAnswered, Handle!IsNewest
<1>8. ASSUME NEW c \in checks, Handle!CheckFails(c) PROVE HandleInv'
  BY <1>8 DEF Handle!CheckFails
<1>9. CASE Handle!SubmitName
  BY <1>9 DEF Handle!SubmitName
<1>10. ASSUME NEW d, Handle!TypeDomain(d) PROVE HandleInv'
  BY <1>10 DEF Handle!TypeDomain
<1>11. CASE Handle!Verify
  BY <1>11 DEF Handle!Verify
<1>12. CASE Handle!VerifyAnswered
  BY <1>12 DEF Handle!VerifyAnswered, Handle!SameDomain
<1>13. CASE Handle!Replace
  BY <1>13 DEF Handle!Replace
<1>14. ASSUME NEW c, Handle!ChangeAnswered(c) PROVE HandleInv'
  BY <1>14 DEF Handle!ChangeAnswered
<1>15. CASE Handle!Others
  BY <1>15 DEF Handle!Others
<1>16. QED
  BY <1>1, <1>2, <1>3, <1>4, <1>5, <1>6, <1>7, <1>8, <1>9, <1>10, <1>11, <1>12, <1>13,
     <1>14, <1>15 DEF Handle!HandleFormNext

\* What the page offers to make the handle was checked as it is now.
THEOREM HandlesAreChecked == PagesSpec => []OffersAreChecked
<1>1. PagesInit => HandleInv
  BY HandleStarts DEF PagesInit
<1>2. HandleInv /\ [PagesNext]_pagesVars => HandleInv'
  BY StepsAreOfOne, HandleStep
<1>3. HandleInv => OffersAreChecked
  BY DEF HandleInv, FormIsChecked, OffersAreChecked, Handle!OffersAreChecked, Handle!OffersName
<1>4. QED
  BY <1>1, <1>2, <1>3, PTL DEF PagesSpec
-----------------------------------------------------------------------------
(***************************************************************************)
(* Consent.                                                                *)
(***************************************************************************)

\* Services are shown of the account that is selected only.
ConsentInv ==
  /\ shown \notin {Undefined, Failed} => shown = selected
  /\ approval # NoAccount => approval \in Holders
  /\ subject # "consent" => shown = Undefined

LEMMA ConsentStarts ==
  ASSUME Consent!ConsentInit
  PROVE  ConsentInv
BY DEF Consent!ConsentInit, ConsentInv

\* Whatever the accounts do, the watch forgets what was shown of another.
LEMMA WatchForgets ==
  ASSUME NEW kept, Consent!WatchAccounts(kept, shown),
         shown \notin {Undefined, Failed} => shown = selected
  PROVE  shown' \notin {Undefined, Failed} => shown' = selected'
<1>1. CASE <<Consent!IsLoggedIn, selected>>' = <<Consent!IsLoggedIn, selected>>
  BY <1>1 DEF Consent!WatchAccounts
<1>2. CASE <<Consent!IsLoggedIn, selected>>' # <<Consent!IsLoggedIn, selected>>
  BY <1>2 DEF Consent!WatchAccounts
<1>3. QED
  BY <1>1, <1>2

LEMMA ConsentStep ==
  ASSUME ConsentInv, subject = "consent", subject' = subject, Consent!ConsentNext
  PROVE  ConsentInv'
<1> USE DEF ConsentInv, Consent!formVars
<1>1. ASSUME NEW r \in searches, Consent!RunAnswered(r) PROVE ConsentInv'
  <2>1. CASE UNCHANGED <<selected, shown, approval>>
    BY <2>1
  <2>2. CASE Consent!IsCurrent(r) /\ Consent!Verdict(r)
    BY <2>2, HoldersAreAccounts DEF Consent!IsCurrent, Consent!Verdict, Consent!accountVars
  <2>3. CASE UNCHANGED approval /\ Consent!WatchAccounts(searches \ {r}, shown)
    BY <2>3, WatchForgets
  <2>4. QED
    BY <1>1, <2>1, <2>2, <2>3 DEF Consent!RunAnswered, Consent!accountVars
<1>2. ASSUME NEW r, Consent!RunThrows(r) PROVE ConsentInv'
  BY <1>2 DEF Consent!RunThrows
<1>3. ASSUME NEW a, Consent!LookupAnswered(a) PROVE ConsentInv'
  BY <1>3 DEF Consent!LookupAnswered
<1>4. CASE Consent!ApprovalAnswered
  BY <1>4 DEF Consent!ApprovalAnswered
<1>5. CASE Consent!ListArrives
  BY <1>5, WatchForgets DEF Consent!ListArrives
<1>6. CASE Consent!Retry
  BY <1>6 DEF Consent!Retry
<1>7. CASE Consent!Approve
  BY <1>7, HoldersAreAccounts DEF Consent!Approve, Consent!ShowsApprove
<1>8. CASE Consent!Leave
  BY <1>8 DEF Consent!Leave
<1>9. CASE Consent!LogIn
  BY <1>9 DEF Consent!LogIn, Consent!LoginHere, Consent!consentVars
<1>10. CASE Consent!ElsewhereStep /\ UNCHANGED Consent!consentVars
  BY <1>10 DEF Consent!ElsewhereStep, Consent!LoginElsewhere, Consent!LogoutElsewhere,
               Consent!consentVars
<1>11. QED
  BY <1>1, <1>2, <1>3, <1>4, <1>5, <1>6, <1>7, <1>8, <1>9, <1>10
     DEF Consent!ConsentNext, Consent!ConsentProgress

\* An approval, with a click or without, is only asked of an account that owns every
\* requested service, whatever selects accounts while the page looks for one.
THEOREM OwnersApprove == PagesSpec => []ApprovalsAreForOwners
<1>1. PagesInit => ConsentInv
  BY ConsentStarts DEF PagesInit
<1>2. ConsentInv /\ [PagesNext]_pagesVars => ConsentInv'
  <2> SUFFICES ASSUME ConsentInv, [PagesNext]_pagesVars PROVE ConsentInv'
    OBVIOUS
  <2>1. CASE UNCHANGED consentVars /\ (subject = "creation" \/ UNCHANGED accountVars)
    BY <2>1, StepsAreOfOne DEF ConsentInv, consentVars, accountVars
  <2>2. CASE subject = "consent" /\ Consent!ConsentNext
    BY <2>2, StepsAreOfOne, ConsentStep
  <2>3. QED
    BY <2>1, <2>2, StepsAreOfOne
<1>3. ConsentInv => ApprovalsAreForOwners
  BY DEF ConsentInv, ApprovalsAreForOwners, Consent!ApprovalsAreForOwners
<1>4. QED
  BY <1>1, <1>2, <1>3, PTL DEF PagesSpec
-----------------------------------------------------------------------------
(***************************************************************************)
(* The creation of an identity.                                            *)
(***************************************************************************)

\* The list of a refresh, once it is served, names accounts.
ListsNameAccounts ==
  /\ cookies \in Seq(Accounts)
  /\ \A r \in refreshes :
       /\ r = [id |-> r.id, why |-> r.why, prefer |-> r.prefer, list |-> r.list]
       /\ r.list # Undefined => r.list \in Seq(Accounts)

\* Before the account is registered, nothing is made or asked for.
NothingIsMade ==
  /\ request = NoAccount /\ step \in {Creation!AtForm, Creation!AtPasskey}
  /\ piece = [k \in DOMAIN Creation!Pieces |-> NoAccount]
  /\ \A r \in refreshes : r.why # "create" /\ r.prefer = NoAccount

\* Afterwards it is selected, and whatever list arrives leaves it selected.
StaysSelected ==
  /\ selected = registered
  /\ registered \in Creation!ElementsOf(cookies)
  /\ \A r \in refreshes :
       /\ r.prefer \in {NoAccount, registered}
       /\ r.list # Undefined => registered \in Creation!ElementsOf(r.list)

PiecesFit ==
  /\ request \in {NoAccount, registered}
  /\ piece \in [DOMAIN Creation!Pieces -> {NoAccount, registered}]

CreateInv ==
  /\ subject = "creation" =>
       /\ ListsNameAccounts /\ disturbed \in BOOLEAN
       /\ step \in {Creation!AtForm, Creation!AtPasskey} => registered = NoAccount
       /\ registered = NoAccount => NothingIsMade
       /\ registered # NoAccount => registered \in Accounts
       /\ ~disturbed /\ registered # NoAccount => StaysSelected
  /\ ~disturbed => PiecesFit

LEMMA CreateStarts ==
  ASSUME Creation!CreateInit
  PROVE  CreateInv
<1>1. ListsNameAccounts
  BY CookiesNameAccounts
     DEF Creation!CreateInit, Creation!AccountsInit, ListsNameAccounts
<1>2. registered = NoAccount /\ disturbed = FALSE /\ NothingIsMade
  BY DEF Creation!CreateInit, Creation!AccountsInit, NothingIsMade
<1>3. PiecesFit
  BY <1>2 DEF NothingIsMade, PiecesFit
<1>4. QED
  BY <1>1, <1>2, <1>3 DEF CreateInv

\* The number of a refresh does not matter.
LEMMA RefreshIsRecord ==
  ASSUME NEW why, NEW prefer
  PROVE  LET r == Creation!Refresh(why, prefer) IN
         /\ r = [id |-> r.id, why |-> r.why, prefer |-> r.prefer, list |-> r.list]
         /\ r.why = why /\ r.prefer = prefer /\ r.list = Undefined
<1> DEFINE r == Creation!Refresh(why, prefer)
<1>1. PICK n : r = [id |-> n, why |-> why, prefer |-> prefer, list |-> Undefined]
  BY Zenon DEF Creation!Refresh
<1> HIDE DEF r
<1>2. /\ r = [id |-> r.id, why |-> r.why, prefer |-> r.prefer, list |-> r.list]
      /\ r.why = why /\ r.prefer = prefer /\ r.list = Undefined
  BY <1>1
<1>3. QED
  BY <1>2 DEF r

LEMMA ElementsAreIn ==
  ASSUME NEW s \in Seq(Accounts)
  PROVE  Creation!ElementsOf(s) \subseteq Accounts
BY DEF Creation!ElementsOf

\* Refreshes are served, arrive and fail.
LEMMA RefreshStepKeeps ==
  ASSUME ListsNameAccounts, Creation!RefreshStep
  PROVE  /\ ListsNameAccounts' /\ cookies' = cookies
         /\ \A r \in refreshes' : \E q \in refreshes :
              /\ r.why = q.why /\ r.prefer = q.prefer
              /\ r.list \in {q.list, Undefined, cookies}
         /\ selected' = selected \/ \E r \in refreshes :
              r.list # Undefined /\ selected' = Creation!Selects(r.list, r.prefer)
<1> USE DEF ListsNameAccounts
<1>1. PICK r \in refreshes : Creation!RefreshServed(r) \/ Creation!RefreshArrives(r) \/ Creation!RefreshFails(r)
  BY DEF Creation!RefreshStep
<1>2. CASE Creation!RefreshServed(r)
  <2> DEFINE q == [r EXCEPT !.list = cookies]
  <2>1. q = [id |-> r.id, why |-> r.why, prefer |-> r.prefer, list |-> cookies]
    OBVIOUS
  <2>2. refreshes' = (refreshes \ {r}) \cup {q} /\ UNCHANGED <<cookies, selected>>
    BY <1>2 DEF Creation!RefreshServed
  <2> HIDE DEF q
  <2>3. QED
    BY <2>1, <2>2
<1>3. CASE Creation!RefreshArrives(r)
  BY <1>3 DEF Creation!RefreshArrives
<1>4. CASE Creation!RefreshFails(r)
  <2> DEFINE q == [r EXCEPT !.list = Undefined]
  <2>1. q = [id |-> r.id, why |-> r.why, prefer |-> r.prefer, list |-> Undefined]
    OBVIOUS
  <2>2. refreshes' \subseteq (refreshes \ {r}) \cup {q} /\ UNCHANGED <<cookies, selected>>
    BY <1>4 DEF Creation!RefreshFails
  <2> HIDE DEF q
  <2>3. QED
    BY <2>1, <2>2
<1>5. QED
  BY <1>1, <1>2, <1>3, <1>4

\* A list that names the account, and is not about another one, leaves it selected.
LEMMA StaysSelectedByLists ==
  ASSUME ListsNameAccounts, StaysSelected, registered \in Accounts, Creation!RefreshStep,
         registered' = registered
  PROVE  StaysSelected'
<1>1. ASSUME NEW r \in refreshes, r.list # Undefined
      PROVE  Creation!Selects(r.list, r.prefer) = registered
  <2>1. NoAccount \notin Creation!ElementsOf(r.list)
    BY <1>1, ElementsAreIn, NewAccountsAreAccounts DEF ListsNameAccounts
  <2>2. registered \in Creation!ElementsOf(r.list) /\ r.prefer \in {NoAccount, registered}
    BY <1>1 DEF StaysSelected
  <2>3. CASE r.prefer = registered
    BY <2>2, <2>3 DEF Creation!Selects
  <2>4. CASE r.prefer = NoAccount
    BY <2>1, <2>2, <2>4 DEF Creation!Selects, StaysSelected
  <2>5. QED
    BY <2>2, <2>3, <2>4
<1>2. selected' = registered
  BY <1>1, RefreshStepKeeps DEF StaysSelected
<1>3. registered \in Creation!ElementsOf(cookies)
  BY DEF StaysSelected
<1>4. ASSUME NEW r \in refreshes'
      PROVE  /\ r.prefer \in {NoAccount, registered}
             /\ r.list # Undefined => registered \in Creation!ElementsOf(r.list)
  <2>1. PICK q \in refreshes : /\ r.why = q.why /\ r.prefer = q.prefer
                               /\ r.list \in {q.list, Undefined, cookies}
    BY RefreshStepKeeps
  <2>2. QED
    BY <1>3, <2>1 DEF StaysSelected
<1>5. cookies' = cookies
  BY RefreshStepKeeps
<1>6. QED
  BY <1>2, <1>3, <1>4, <1>5 DEF StaysSelected, Creation!ElementsOf

\* A request for a piece goes out for the account that is selected then.
LEMMA SendFits ==
  ASSUME NEW k \in Int, Creation!Send(k), k >= 1
  PROVE  /\ step' \notin {Creation!AtForm, Creation!AtPasskey}
         /\ request' \in {NoAccount, selected'}
BY DEF Creation!Send, Creation!AtForm, Creation!AtPasskey

\* The accounts of CreateInv, while the page creates an identity.
CreateNow ==
  /\ ListsNameAccounts /\ disturbed \in BOOLEAN
  /\ step \in {Creation!AtForm, Creation!AtPasskey} => registered = NoAccount
  /\ registered = NoAccount => NothingIsMade
  /\ registered # NoAccount => registered \in Accounts
  /\ ~disturbed /\ registered # NoAccount => StaysSelected
  /\ ~disturbed => PiecesFit

LEMMA RegisterStep ==
  ASSUME CreateNow, NEW a \in Accounts, Creation!Register(a)
  PROVE  CreateNow'
<1> DEFINE r == Creation!Refresh("create", a)
<1>1. /\ r = [id |-> r.id, why |-> r.why, prefer |-> r.prefer, list |-> r.list]
      /\ r.why = "create" /\ r.prefer = a /\ r.list = Undefined
  BY RefreshIsRecord
<1>2. /\ refreshes' = refreshes \cup {r} /\ cookies' = Creation!WithCookie(a)
      /\ selected' = a /\ registered' = a /\ step' = Creation!AtAccounts
      /\ disturbed' = (disturbed \/ refreshes # {})
      /\ UNCHANGED <<request, piece>>
  BY DEF Creation!Register, Creation!NowSelected
<1> HIDE DEF r
<1>3. registered = NoAccount /\ NothingIsMade
  BY DEF CreateNow, Creation!Register
<1>4. cookies' = Append(cookies, a) /\ cookies' \in Seq(Accounts)
  BY <1>2 DEF Creation!WithCookie, Creation!Register, CreateNow, ListsNameAccounts
<1>5. ListsNameAccounts'
  BY <1>1, <1>2, <1>4 DEF CreateNow, ListsNameAccounts
<1>6. a \in Creation!ElementsOf(cookies')
  <2>1. cookies'[Len(cookies')] = a /\ Len(cookies') \in DOMAIN cookies'
    BY <1>4 DEF CreateNow, ListsNameAccounts
  <2>2. QED
    BY <2>1 DEF Creation!ElementsOf
<1>7. ~disturbed' => StaysSelected'
  BY <1>1, <1>2, <1>6 DEF StaysSelected, Creation!ElementsOf
<1>8. ~disturbed' => PiecesFit'
  BY <1>2, <1>3 DEF NothingIsMade, PiecesFit
<1>9. registered' \in Accounts /\ registered' # NoAccount /\ disturbed' \in BOOLEAN
  BY <1>2, NewAccountsAreAccounts DEF CreateNow
<1>10. step' \notin {Creation!AtForm, Creation!AtPasskey}
  BY <1>2 DEF Creation!AtForm, Creation!AtPasskey, Creation!AtAccounts
<1>11. QED
  BY <1>5, <1>7, <1>8, <1>9, <1>10 DEF CreateNow

LEMMA ListStepKeeps ==
  ASSUME CreateNow, Creation!ListStep
  PROVE  CreateNow'
<1>1. Creation!RefreshStep /\ UNCHANGED <<registered, piece, disturbed>>
  BY DEF Creation!ListStep
<1>2. ListsNameAccounts'
  BY <1>1, RefreshStepKeeps DEF CreateNow
<1>3. CASE registered = NoAccount
  <2>1. NothingIsMade
    BY <1>3 DEF CreateNow
  <2>2. UNCHANGED <<step, request>>
    BY <2>1 DEF NothingIsMade, Creation!ListStep
  <2>3. \A r \in refreshes' : r.why # "create" /\ r.prefer = NoAccount
    BY <2>1, <1>1, RefreshStepKeeps DEF CreateNow, NothingIsMade
  <2>4. NothingIsMade'
    BY <1>1, <2>1, <2>2, <2>3 DEF NothingIsMade
  <2>5. PiecesFit <=> PiecesFit'
    BY <1>1, <2>2 DEF PiecesFit
  <2>6. QED
    BY <1>1, <1>2, <1>3, <2>2, <2>4, <2>5 DEF CreateNow
<1>4. CASE registered # NoAccount
  <2>1. registered \in Accounts
    BY <1>4 DEF CreateNow
  <2>2. ~disturbed => StaysSelected'
    BY <1>1, <1>4, <2>1, StaysSelectedByLists DEF CreateNow
  <2>3. UNCHANGED <<step, request>> \/ Creation!Send(1)
    BY DEF Creation!ListStep
  <2>4. step' \notin {Creation!AtForm, Creation!AtPasskey}
    BY <1>4, <2>3, SendFits DEF CreateNow
  <2>5. ~disturbed => PiecesFit'
    <3>1. CASE UNCHANGED request
      BY <1>1, <3>1 DEF CreateNow, PiecesFit
    <3>2. CASE Creation!Send(1)
      BY <1>1, <2>2, <3>2, SendFits DEF CreateNow, PiecesFit, StaysSelected
    <3>3. QED
      BY <2>3, <3>1, <3>2
  <2>6. QED
    BY <1>1, <1>2, <1>4, <2>1, <2>2, <2>4, <2>5 DEF CreateNow
<1>5. QED
  BY <1>3, <1>4

LEMMA CreatedStep ==
  ASSUME CreateNow, NEW k \in DOMAIN Creation!Pieces, Creation!Created(k)
  PROVE  CreateNow'
<1>1. k \in 1..3
  BY DEF Creation!Pieces
<1>2. registered # NoAccount /\ registered \in Accounts
  BY DEF CreateNow, NothingIsMade, Creation!Created
<1>3. UNCHANGED <<registered, disturbed>> /\ request # NoAccount /\ step = k
  BY DEF Creation!Created
<1>4. CASE UNCHANGED accountVars /\ piece' = [piece EXCEPT ![k] = request] /\ Creation!Send(k + 1)
  <2>1. step' \notin {Creation!AtForm, Creation!AtPasskey} /\ request' \in {NoAccount, selected'}
    BY <1>1, <1>4, SendFits
  <2>2. ListsNameAccounts' /\ (~disturbed => StaysSelected')
    BY <1>2, <1>3, <1>4
       DEF CreateNow, ListsNameAccounts, StaysSelected, accountVars, Creation!ElementsOf
  <2>3. ~disturbed => PiecesFit'
    BY <1>2, <1>3, <1>4, <2>1, <2>2 DEF CreateNow, PiecesFit, StaysSelected
  <2>4. QED
    BY <1>2, <1>3, <2>1, <2>2, <2>3 DEF CreateNow
<1>5. CASE /\ request' = NoAccount /\ Creation!Answered401(request)
           /\ UNCHANGED <<cookies, selected, step, piece>>
  <2> DEFINE r == Creation!Refresh("401", NoAccount)
  <2>1. /\ r = [id |-> r.id, why |-> r.why, prefer |-> r.prefer, list |-> r.list]
        /\ r.why = "401" /\ r.prefer = NoAccount /\ r.list = Undefined
    BY RefreshIsRecord
  <2>2. refreshes' \subseteq refreshes \cup {r}
    BY <1>5 DEF Creation!Answered401
  <2> HIDE DEF r
  <2>3. ListsNameAccounts' /\ (~disturbed => StaysSelected')
    BY <1>2, <1>3, <1>5, <2>1, <2>2
       DEF CreateNow, ListsNameAccounts, StaysSelected, Creation!ElementsOf
  <2>4. QED
    BY <1>2, <1>3, <1>5, <2>3 DEF CreateNow, PiecesFit
<1>6. QED
  BY <1>4, <1>5 DEF Creation!Created, Creation!accountVars, accountVars

\* The other steps do not send requests, or do so for the account that is selected.
LEMMA OtherCreateSteps ==
  ASSUME CreateNow,
         \/ Creation!Submit \/ Creation!Cancelled \/ Creation!Elsewhere
         \/ \E k \in DOMAIN Creation!Pieces : Creation!CreateFails(k) \/ Creation!Retry(k)
  PROVE  CreateNow'
<1>1. CASE Creation!Submit
  BY <1>1
     DEF Creation!Submit, CreateNow, ListsNameAccounts, NothingIsMade, StaysSelected, PiecesFit,
         Creation!accountVars, Creation!ElementsOf, Creation!AtForm, Creation!AtPasskey
<1>2. CASE Creation!Cancelled
  BY <1>2
     DEF Creation!Cancelled, CreateNow, ListsNameAccounts, NothingIsMade, StaysSelected, PiecesFit,
         Creation!ElementsOf, Creation!AtForm, Creation!AtPasskey
<1>3. CASE Creation!Elsewhere
  <2>1. cookies' \in Seq(Accounts)
    <3>1. ASSUME NEW a \in Accounts, Creation!LoginElsewhere(a) PROVE cookies' \in Seq(Accounts)
      BY <3>1 DEF Creation!LoginElsewhere, CreateNow, ListsNameAccounts
    <3>2. ASSUME NEW a \in Accounts, Creation!LogoutElsewhere(a) PROVE cookies' \in Seq(Accounts)
      <4>1. cookies \in Seq(Accounts)
        BY DEF CreateNow, ListsNameAccounts
      <4>2. PICK i \in DOMAIN cookies : cookies' = Creation!RemoveAt(cookies, i)
        BY <3>2 DEF Creation!LogoutElsewhere
      <4>3. QED
        BY <4>1, <4>2 DEF Creation!RemoveAt
    <3>3. QED
      BY <1>3, <3>1, <3>2 DEF Creation!Elsewhere, Creation!ElsewhereStep
  <2>2. UNCHANGED <<selected, refreshes, step, registered, request, piece>>
    BY <1>3 DEF Creation!Elsewhere, Creation!ElsewhereStep, Creation!formVars,
                Creation!LoginElsewhere, Creation!LogoutElsewhere
  <2>3. disturbed' = (disturbed \/ (registered # NoAccount /\ registered \notin Creation!ElementsOf(cookies')))
    BY <1>3 DEF Creation!Elsewhere
  <2>4. ListsNameAccounts' /\ disturbed' \in BOOLEAN
    BY <2>1, <2>2, <2>3 DEF CreateNow, ListsNameAccounts
  <2>5. ~disturbed' /\ registered # NoAccount => StaysSelected'
    BY <2>2, <2>3 DEF CreateNow, StaysSelected, Creation!ElementsOf
  <2>6. ~disturbed' => PiecesFit'
    BY <2>2, <2>3 DEF CreateNow, PiecesFit
  <2>7. registered = NoAccount => NothingIsMade'
    BY <2>2 DEF CreateNow, NothingIsMade
  <2>8. QED
    BY <2>2, <2>4, <2>5, <2>6, <2>7 DEF CreateNow
<1>4. ASSUME NEW k \in DOMAIN Creation!Pieces, Creation!CreateFails(k) PROVE CreateNow'
  <2>1. registered # NoAccount
    BY <1>4 DEF Creation!CreateFails, CreateNow, NothingIsMade
  <2>2. request' = NoAccount
        /\ UNCHANGED <<cookies, selected, refreshes, step, registered, piece, disturbed>>
    BY <1>4 DEF Creation!CreateFails
  <2>3. QED
    BY <2>1, <2>2 DEF CreateNow, ListsNameAccounts, StaysSelected, PiecesFit, Creation!ElementsOf
<1>5. ASSUME NEW k \in DOMAIN Creation!Pieces, Creation!Retry(k) PROVE CreateNow'
  <2>1. step = k /\ Creation!Send(k)
        /\ UNCHANGED <<selected, cookies, refreshes, registered, piece, disturbed>>
    BY <1>5 DEF Creation!Retry
  <2>2. k \in 1..3
    BY DEF Creation!Pieces
  <2>3. registered # NoAccount
    BY <2>1, <2>2 DEF CreateNow, NothingIsMade, Creation!AtForm, Creation!AtPasskey
  <2>4. step' \notin {Creation!AtForm, Creation!AtPasskey} /\ request' \in {NoAccount, selected}
    BY <2>1, <2>2, SendFits
  <2>5. QED
    BY <2>1, <2>3, <2>4
       DEF CreateNow, ListsNameAccounts, StaysSelected, PiecesFit, Creation!ElementsOf
<1>6. QED
  BY <1>1, <1>2, <1>3, <1>4, <1>5

LEMMA CreateStep ==
  ASSUME CreateInv, subject = "creation", subject' = subject, Creation!CreateNext
  PROVE  CreateInv'
<1>1. CreateNow
  BY DEF CreateInv, CreateNow
<1>2. CreateNow'
  BY <1>1, RegisterStep, ListStepKeeps, CreatedStep, OtherCreateSteps
     DEF Creation!CreateNext, Creation!CreateProgress
<1>3. QED
  BY <1>2 DEF CreateInv, CreateNow

\* The bucket, the inbox and the actor of a new identity are made for its account.
THEOREM PiecesFollowTheAccount == PagesSpec => []PiecesAreOfTheNewAccount
<1>1. PagesInit => CreateInv
  BY CreateStarts DEF PagesInit
<1>2. CreateInv /\ [PagesNext]_pagesVars => CreateInv'
  <2> SUFFICES ASSUME CreateInv, [PagesNext]_pagesVars PROVE CreateInv'
    OBVIOUS
  <2>1. CASE UNCHANGED createVars /\ (subject = "consent" \/ UNCHANGED accountVars)
    <3>1. subject' = subject
      BY StepsAreOfOne
    <3>2. ~disturbed' => PiecesFit'
      BY <2>1 DEF CreateInv, PiecesFit, createVars
    <3>3. CASE subject = "creation"
      BY <2>1, <3>1, <3>2, <3>3
         DEF CreateInv, createVars, accountVars, ListsNameAccounts, NothingIsMade,
             StaysSelected, Creation!ElementsOf
    <3>4. QED
      BY <3>1, <3>2, <3>3 DEF CreateInv
  <2>2. CASE subject = "creation" /\ Creation!CreateNext
    BY <2>2, StepsAreOfOne, CreateStep
  <2>3. QED
    BY <2>1, <2>2, StepsAreOfOne
<1>3. CreateInv => PiecesAreOfTheNewAccount
  BY DEF CreateInv, PiecesFit, PiecesAreOfTheNewAccount, Creation!PiecesAreOfTheNewAccount,
         Creation!PiecesOfOneAccount
<1>4. QED
  BY <1>1, <1>2, <1>3, PTL DEF PagesSpec
-----------------------------------------------------------------------------
(***************************************************************************)
(* Logins of the local implementation.                                     *)
(***************************************************************************)
LoginRecords == [entered : Handles \cup {None}, answers : Seq(Handles \cup {Failed})]
IdentityTickets == [handle : Handles, login : DOMAIN logins]

IdentityTypes ==
  /\ handles \subseteq Handles
  /\ logins \in Seq(LoginRecords)
  /\ asking \in [Views -> {0, None, Leaving} \cup DOMAIN logins]
  /\ ticket \in [Views -> {None} \cup IdentityTickets]
  /\ inHand \in [Views -> {None} \cup IdentityTickets]
  /\ todo \in [Views -> SUBSET Handles]

\* The login that a tab is about to answer, in its dialog, its storage or its hand.
Concerned(v, place) ==
  CASE place = "dialog" -> asking[v]
    [] place = "storage" -> IF ticket[v] = None THEN 0 ELSE ticket[v].login
    [] place = "hand" -> IF inHand[v] = None THEN 0 ELSE inHand[v].login
Places == {"dialog", "storage", "hand"}

\* It is not answered yet, and no other tab or place has it.
EachHasOnePlace ==
  \A v \in Views, p \in Places : Concerned(v, p) \in DOMAIN logins =>
    /\ logins[Concerned(v, p)].answers = <<>>
    /\ \A w \in Views, q \in Places : Concerned(w, q) = Concerned(v, p) => w = v /\ q = p

\* What was entered for it is in the ticket; the handle is there, or it was logged out.
TicketsAreTrue ==
  \A v \in Views :
    /\ asking[v] \in DOMAIN logins => logins[asking[v]].entered = None
    /\ ticket[v] # None => /\ logins[ticket[v].login].entered = ticket[v].handle
                           /\ ticket[v].handle \in handles \cup ended
    /\ inHand[v] # None => /\ logins[inHand[v].login].entered = inHand[v].handle
                           /\ inHand[v].handle \in todo[v] \cup ended

IdentityInv ==
  /\ IdentityTypes /\ EachHasOnePlace /\ TicketsAreTrue
  /\ Identity!IdentitiesAreAnswered

LEMMA IdentityStarts ==
  ASSUME Identity!IdentityInit
  PROVE  IdentityInv
<1>1. IdentityTypes
  BY DEF Identity!IdentityInit, IdentityTypes
<1>2. EachHasOnePlace /\ Identity!IdentitiesAreAnswered
  BY DEF Identity!IdentityInit, EachHasOnePlace, Identity!IdentitiesAreAnswered
<1>3. TicketsAreTrue
  BY DEF Identity!IdentityInit, TicketsAreTrue
<1>4. QED
  BY <1>1, <1>2, <1>3 DEF IdentityInv

LEMMA LoginNumbers ==
  ASSUME IdentityTypes
  PROVE  DOMAIN logins \subseteq Nat \ {0, None, Leaving}
<1>1. DOMAIN logins \subseteq Nat \ {0}
  BY DEF IdentityTypes
<1>2. QED
  BY <1>1, NumbersAreOnlyLogins

\* A login without an answer is answered.
LEMMA AnswerFits ==
  ASSUME IdentityInv, NEW n \in DOMAIN logins, logins[n].answers = <<>>,
         NEW answer \in {Failed, logins[n].entered}, answer # None,
         answer = Failed => logins[n].entered \in ended \cup {None},
         logins' = Identity!Answered(n, answer), ended' = ended
  PROVE  /\ logins' \in Seq(LoginRecords) /\ DOMAIN logins' = DOMAIN logins
         /\ Identity!IdentitiesAreAnswered'
         /\ \A m \in DOMAIN logins : /\ logins'[m].entered = logins[m].entered
                                     /\ m # n => logins'[m] = logins[m]
<1>1. logins \in Seq(LoginRecords) /\ n \in 1..Len(logins)
  BY DEF IdentityInv, IdentityTypes
<1>2. logins[n] \in LoginRecords /\ answer \in Handles \cup {Failed}
  <2>1. logins[n] \in LoginRecords
    BY <1>1
  <2>2. logins[n].entered \in Handles \cup {None}
    BY <2>1 DEF LoginRecords
  <2>3. QED
    BY <2>1, <2>2
<1>3. logins' = [logins EXCEPT ![n].answers = <<answer>>]
  <2>1. n # 0
    BY <1>1
  <2>2. Append(logins[n].answers, answer) = <<answer>>
    OBVIOUS
  <2>3. QED
    BY <1>1, <2>1, <2>2 DEF Identity!Answered, Identity!Unasked
<1>4. [logins[n] EXCEPT !.answers = <<answer>>] = [entered |-> logins[n].entered, answers |-> <<answer>>]
  BY <1>2 DEF LoginRecords
<1>5. logins' \in Seq(LoginRecords) /\ DOMAIN logins' = DOMAIN logins
  <2>1. logins[n].entered \in Handles \cup {None} /\ <<answer>> \in Seq(Handles \cup {Failed})
    BY <1>2 DEF LoginRecords
  <2>2. [logins[n] EXCEPT !.answers = <<answer>>] \in LoginRecords
    BY <1>4, <2>1 DEF LoginRecords
  <2>3. QED
    BY <1>1, <1>3, <2>2
<1>6. /\ logins'[n] = [entered |-> logins[n].entered, answers |-> <<answer>>]
      /\ \A m \in DOMAIN logins : m # n => logins'[m] = logins[m]
  BY <1>1, <1>3, <1>4
<1>7. Identity!IdentitiesAreAnswered'
  <2> SUFFICES ASSUME NEW m \in DOMAIN logins
               PROVE  /\ logins'[m].answers \in {<<>>, <<Failed>>, <<logins'[m].entered>>}
                      /\ logins'[m].answers = <<Failed>> => logins'[m].entered \in ended \cup {None}
    BY <1>5 DEF Identity!IdentitiesAreAnswered
  <2>1. CASE m = n
    BY <1>6, <2>1
  <2>2. CASE m # n
    BY <1>6, <2>2 DEF IdentityInv, Identity!IdentitiesAreAnswered
  <2>3. QED
    BY <2>1, <2>2
<1>8. QED
  BY <1>5, <1>6, <1>7

\* A tab moves its logins between places, and drops some.
LEMMA PlacesMove ==
  ASSUME EachHasOnePlace, NEW v \in Views,
         DOMAIN logins' = DOMAIN logins,
         \A w \in Views \ {v}, p \in Places : Concerned(w, p)' = Concerned(w, p),
         NEW from \in [Places -> Places \cup {"none"}],
         \A p, q \in Places : from[p] = from[q] /\ from[p] # "none" => p = q,
         \A p \in Places : IF from[p] = "none" THEN Concerned(v, p)' \notin DOMAIN logins
                                               ELSE Concerned(v, p)' = Concerned(v, from[p]),
         \A n \in DOMAIN logins :
           logins'[n].answers = logins[n].answers
           \/ \A w \in Views, p \in Places : Concerned(w, p)' # n
  PROVE  EachHasOnePlace'
<1>1. ASSUME NEW w \in Views, NEW p \in Places, Concerned(w, p)' \in DOMAIN logins
      PROVE  \E q \in Places : /\ Concerned(w, q) = Concerned(w, p)'
                               /\ w = v => from[p] = q
                               /\ w # v => q = p
  <2>1. CASE w = v
    BY <1>1, <2>1
  <2>2. CASE w # v
    BY <1>1, <2>2
  <2>3. QED
    BY <2>1, <2>2
<1>2. ASSUME NEW w \in Views, NEW p \in Places, Concerned(w, p)' \in DOMAIN logins
      PROVE  logins'[Concerned(w, p)'].answers = <<>>
  BY <1>1, <1>2 DEF EachHasOnePlace
<1>3. ASSUME NEW w \in Views, NEW p \in Places, NEW x \in Views, NEW q \in Places,
             Concerned(w, p)' \in DOMAIN logins, Concerned(x, q)' = Concerned(w, p)'
      PROVE  x = w /\ q = p
  <2>1. PICK y \in Places : /\ Concerned(w, y) = Concerned(w, p)'
                            /\ w = v => from[p] = y
                            /\ w # v => y = p
    BY <1>1, <1>3
  <2>2. PICK z \in Places : /\ Concerned(x, z) = Concerned(x, q)'
                            /\ x = v => from[q] = z
                            /\ x # v => z = q
    BY <1>1, <1>3
  <2>3. x = w /\ z = y
    BY <1>3, <2>1, <2>2 DEF EachHasOnePlace
  <2>4. "none" \notin Places
    BY DEF Places
  <2>5. QED
    BY <2>1, <2>2, <2>3, <2>4
<1>4. QED
  BY <1>2, <1>3 DEF EachHasOnePlace

LEMMA OpenStep ==
  ASSUME IdentityInv, NEW v \in Views, Identity!Open(v)
  PROVE  IdentityInv'
<1>1. /\ inHand' = [inHand EXCEPT ![v] = ticket[v]] /\ ticket' = [ticket EXCEPT ![v] = None]
      /\ todo' = [todo EXCEPT ![v] = handles] /\ asking' = [asking EXCEPT ![v] = None]
      /\ UNCHANGED <<handles, logins, ended>>
  BY DEF Identity!Open, Identity!Spent
<1>2. IdentityTypes'
  BY <1>1 DEF IdentityInv, IdentityTypes, IdentityTickets
<1>3. EachHasOnePlace'
  <2> DEFINE from == [p \in Places |-> IF p = "hand" THEN "storage" ELSE "none"]
  <2>1. \A w \in Views \ {v}, p \in Places : Concerned(w, p)' = Concerned(w, p)
    BY <1>1 DEF IdentityInv, IdentityTypes, Concerned
  <2>2. /\ Concerned(v, "dialog")' = None /\ Concerned(v, "storage")' = 0
        /\ Concerned(v, "hand")' = Concerned(v, "storage")
    BY <1>1 DEF IdentityInv, IdentityTypes, Concerned
  <2>3. None \notin DOMAIN logins /\ 0 \notin DOMAIN logins
    BY LoginNumbers DEF IdentityInv
  <2>4. from \in [Places -> Places \cup {"none"}]
    BY DEF Places
  <2>5. \A p, q \in Places : from[p] = from[q] /\ from[p] # "none" => p = q
    OBVIOUS
  <2>6. \A p \in Places : IF from[p] = "none" THEN Concerned(v, p)' \notin DOMAIN logins
                                               ELSE Concerned(v, p)' = Concerned(v, from[p])
    BY <2>2, <2>3 DEF Places
  <2> HIDE DEF from
  <2>7. EachHasOnePlace
    BY DEF IdentityInv
  <2>8. QED
    BY <1>1, <2>1, <2>4, <2>5, <2>6, <2>7, PlacesMove
<1>4. TicketsAreTrue'
  <2>1. None \notin DOMAIN logins
    BY LoginNumbers DEF IdentityInv
  <2>2. \A w \in Views :
          /\ asking'[w] = IF w = v THEN None ELSE asking[w]
          /\ ticket'[w] = IF w = v THEN None ELSE ticket[w]
          /\ inHand'[w] = IF w = v THEN ticket[v] ELSE inHand[w]
          /\ todo'[w] = IF w = v THEN handles ELSE todo[w]
    BY <1>1 DEF IdentityInv, IdentityTypes
  <2>3. QED
    BY <1>1, <2>1, <2>2 DEF IdentityInv, TicketsAreTrue
<1>5. QED
  BY <1>1, <1>2, <1>3, <1>4 DEF IdentityInv, Identity!IdentitiesAreAnswered

\* What a tab has in hand is answered and put away.
LEMMA HandIsEmptied ==
  ASSUME IdentityInv, NEW v \in Views, inHand[v] # None,
         NEW answer \in {Failed, inHand[v].handle}, answer = Failed => inHand[v].handle \in ended,
         logins' = Identity!Answered(inHand[v].login, answer),
         inHand' = [inHand EXCEPT ![v] = None],
         todo' = todo \/ \E h \in Handles : todo' = [todo EXCEPT ![v] = @ \ {h}],
         UNCHANGED <<handles, ticket, asking, ended>>
  PROVE  IdentityInv'
<1> DEFINE n == inHand[v].login
<1>1. n \in DOMAIN logins /\ inHand[v].handle \in Handles
  BY DEF IdentityInv, IdentityTypes, IdentityTickets
<1>2. Concerned(v, "hand") = n
  BY DEF Concerned
<1>3. logins[n].answers = <<>> /\ logins[n].entered = inHand[v].handle
  BY <1>1, <1>2 DEF IdentityInv, EachHasOnePlace, TicketsAreTrue, Places
<1>4. None # answer
  BY <1>1, FailedIsNoHandle, FailedIsNotNone
<1>5. /\ logins' \in Seq(LoginRecords) /\ DOMAIN logins' = DOMAIN logins
      /\ Identity!IdentitiesAreAnswered'
      /\ \A m \in DOMAIN logins : /\ logins'[m].entered = logins[m].entered
                                  /\ m # n => logins'[m] = logins[m]
  BY <1>1, <1>3, <1>4, AnswerFits
<1> HIDE DEF n
<1>6. IdentityTypes'
  BY <1>5 DEF IdentityInv, IdentityTypes, IdentityTickets
<1>7. EachHasOnePlace'
  <2> DEFINE from == [p \in Places |-> IF p = "hand" THEN "none" ELSE p]
  <2>1. \A w \in Views \ {v}, p \in Places : Concerned(w, p)' = Concerned(w, p)
    BY DEF IdentityInv, IdentityTypes, Concerned
  <2>2. /\ Concerned(v, "dialog")' = Concerned(v, "dialog")
        /\ Concerned(v, "storage")' = Concerned(v, "storage")
        /\ Concerned(v, "hand")' = 0
    BY DEF IdentityInv, IdentityTypes, Concerned
  <2>3. 0 \notin DOMAIN logins
    BY DEF IdentityInv, IdentityTypes
  <2>4. from \in [Places -> Places \cup {"none"}]
    OBVIOUS
  <2>5. \A p, q \in Places : from[p] = from[q] /\ from[p] # "none" => p = q
    OBVIOUS
  <2>6. \A p \in Places : IF from[p] = "none" THEN Concerned(v, p)' \notin DOMAIN logins
                                               ELSE Concerned(v, p)' = Concerned(v, from[p])
    BY <2>2, <2>3 DEF Places
  <2> HIDE DEF from
  <2>7. EachHasOnePlace
    BY DEF IdentityInv
  <2>8. \A w \in Views, p \in Places : Concerned(w, p)' # n
    <3> SUFFICES ASSUME NEW w \in Views, NEW p \in Places, Concerned(w, p)' = n PROVE FALSE
      OBVIOUS
    <3>1. Concerned(w, p) = n /\ ~(w = v /\ p = "hand")
      BY <1>1, <2>1, <2>2, <2>3 DEF Places
    <3>2. QED
      BY <1>1, <1>2, <2>7, <3>1 DEF EachHasOnePlace, Places
  <2>9. \A m \in DOMAIN logins :
          logins'[m].answers = logins[m].answers
          \/ \A w \in Views, p \in Places : Concerned(w, p)' # m
    BY <1>5, <2>8
  <2>10. QED
    BY <1>5, <2>1, <2>4, <2>5, <2>6, <2>7, <2>9, PlacesMove
<1>8. TicketsAreTrue'
  <2> SUFFICES ASSUME NEW w \in Views
               PROVE  /\ asking[w] \in DOMAIN logins => logins'[asking[w]].entered = None
                      /\ ticket[w] # None => /\ logins'[ticket[w].login].entered = ticket[w].handle
                                             /\ ticket[w].handle \in handles \cup ended
                      /\ inHand'[w] # None => /\ logins'[inHand'[w].login].entered = inHand'[w].handle
                                              /\ inHand'[w].handle \in todo'[w] \cup ended
    BY <1>5 DEF TicketsAreTrue
  <2>1. inHand'[w] # None => w # v /\ inHand'[w] = inHand[w] /\ todo'[w] = todo[w]
    BY DEF IdentityInv, IdentityTypes
  <2>2. \A m \in DOMAIN logins : logins'[m].entered = logins[m].entered
    BY <1>5
  <2>3. /\ ticket[w] # None => ticket[w].login \in DOMAIN logins
        /\ inHand[w] # None => inHand[w].login \in DOMAIN logins
    BY DEF IdentityInv, IdentityTypes, IdentityTickets
  <2>4. QED
    BY <2>1, <2>2, <2>3 DEF IdentityInv, TicketsAreTrue
<1>9. QED
  BY <1>5, <1>6, <1>7, <1>8 DEF IdentityInv

LEMMA RestoreStep ==
  ASSUME IdentityInv, NEW v \in Views, NEW h \in Handles, Identity!Restore(v, h)
  PROVE  IdentityInv'
<1>1. CASE Identity!Awaited(v, h)
  <2>1. inHand[v] # None /\ inHand[v].handle = h
    BY <1>1 DEF Identity!Awaited
  <2>2. /\ logins' = Identity!Answered(inHand[v].login, h)
        /\ inHand' = [inHand EXCEPT ![v] = None] /\ todo' = [todo EXCEPT ![v] = @ \ {h}]
        /\ UNCHANGED <<handles, ticket, asking, ended>>
    BY <1>1 DEF Identity!Restore
  <2>3. h # Failed
    BY FailedIsNoHandle
  <2>4. QED
    BY <2>1, <2>2, <2>3, HandIsEmptied
<1>2. CASE ~Identity!Awaited(v, h)
  <2>1. /\ todo' = [todo EXCEPT ![v] = @ \ {h}]
        /\ UNCHANGED <<handles, ticket, inHand, asking, logins, ended>>
    BY <1>2 DEF Identity!Restore
  <2>2. IdentityTypes'
    BY <2>1 DEF IdentityInv, IdentityTypes, IdentityTickets
  <2>3. EachHasOnePlace'
    <3>1. \A w \in Views, p \in Places : Concerned(w, p)' = Concerned(w, p)
      BY <2>1 DEF Concerned
    <3>2. QED
      BY <2>1, <3>1 DEF IdentityInv, EachHasOnePlace
  <2>4. inHand[v] # None => inHand[v].handle # h
    BY <1>2 DEF Identity!Awaited
  <2>5. \A w \in Views : todo'[w] = IF w = v THEN todo[v] \ {h} ELSE todo[w]
    BY <2>1 DEF IdentityInv, IdentityTypes
  <2>6. TicketsAreTrue'
    BY <2>1, <2>4, <2>5 DEF IdentityInv, TicketsAreTrue
  <2>7. QED
    BY <2>1, <2>2, <2>3, <2>6 DEF IdentityInv, Identity!IdentitiesAreAnswered
<1>3. QED
  BY <1>1, <1>2

LEMMA InitializedStep ==
  ASSUME IdentityInv, NEW v \in Views, Identity!Initialized(v)
  PROVE  IdentityInv'
<1>1. inHand[v] # None /\ todo[v] = {}
  BY DEF Identity!Initialized
<1>2. inHand[v].handle \in ended
  BY <1>1 DEF IdentityInv, TicketsAreTrue
<1>3. /\ logins' = Identity!Answered(inHand[v].login, Failed)
      /\ inHand' = [inHand EXCEPT ![v] = None]
      /\ UNCHANGED <<handles, ticket, asking, ended, todo>>
  BY DEF Identity!Initialized
<1>4. QED
  BY <1>1, <1>2, <1>3, HandIsEmptied

\* A new login is added, in a dialog of its own or without one.
LEMMA LoginIsAdded ==
  ASSUME IdentityInv, NEW v \in Views, NEW given \in {<<>>, <<Failed>>},
         logins' = Append(logins, [entered |-> None, answers |-> given]),
         \/ asking' = asking
         \/ /\ asking' = [asking EXCEPT ![v] = Len(logins) + 1] /\ given = <<>>
            /\ asking[v] = None,
         UNCHANGED <<handles, ticket, todo, inHand, ended>>
  PROVE  IdentityInv'
<1> DEFINE n == Len(logins) + 1
           l == [entered |-> None, answers |-> given]
<1>1. l \in LoginRecords
  <2>1. given \in Seq(Handles \cup {Failed})
    <3>1. <<>> \in Seq(Handles \cup {Failed}) /\ <<Failed>> \in Seq(Handles \cup {Failed})
      OBVIOUS
    <3>2. QED
      BY <3>1
  <2>2. QED
    BY <2>1 DEF LoginRecords
<1>2. logins \in Seq(LoginRecords) /\ n \in Nat
  BY DEF IdentityInv, IdentityTypes
<1>3. /\ logins' \in Seq(LoginRecords) /\ DOMAIN logins' = DOMAIN logins \cup {n}
      /\ n \notin DOMAIN logins /\ logins'[n] = l
      /\ \A m \in DOMAIN logins : logins'[m] = logins[m]
  BY <1>1, <1>2
<1>4. n \notin {0, None, Leaving}
  BY <1>2, NumbersAreOnlyLogins
<1>5. l.answers = given /\ l.entered = None
  OBVIOUS
<1> HIDE DEF n, l
<1>6. IdentityTypes'
  <2>1. \A t : t \in IdentityTickets => t \in IdentityTickets'
    BY <1>3 DEF IdentityTickets
  <2>2. asking' \in [Views -> {0, None, Leaving} \cup DOMAIN logins']
    BY <1>3 DEF n, IdentityInv, IdentityTypes
  <2>3. QED
    BY <1>3, <2>1, <2>2 DEF IdentityInv, IdentityTypes
<1>7. \A w \in Views, p \in Places : Concerned(w, p) # n
  BY <1>3, <1>4 DEF IdentityInv, IdentityTypes, IdentityTickets, Concerned, Places
<1>8. \/ \A w \in Views, p \in Places : Concerned(w, p)' = Concerned(w, p)
      \/ /\ given = <<>> /\ Concerned(v, "dialog")' = n
         /\ \A w \in Views, p \in Places :
              w # v \/ p # "dialog" => Concerned(w, p)' = Concerned(w, p)
  BY DEF IdentityInv, IdentityTypes, Concerned, Places, n
<1>9. EachHasOnePlace'
  <2> SUFFICES ASSUME NEW w \in Views, NEW p \in Places, Concerned(w, p)' \in DOMAIN logins'
               PROVE  /\ logins'[Concerned(w, p)'].answers = <<>>
                      /\ \A x \in Views, q \in Places :
                           Concerned(x, q)' = Concerned(w, p)' => x = w /\ q = p
    BY DEF EachHasOnePlace
  <2>1. CASE Concerned(w, p)' = n
    BY <1>3, <1>5, <1>7, <1>8, <2>1
  <2>2. CASE Concerned(w, p)' # n
    <3>1. Concerned(w, p)' = Concerned(w, p) /\ Concerned(w, p) \in DOMAIN logins
      BY <1>3, <1>7, <1>8, <2>2
    <3>2. \A x \in Views, q \in Places : Concerned(x, q)' = Concerned(w, p)' =>
            Concerned(x, q)' = Concerned(x, q)
      BY <1>8, <2>2
    <3>3. QED
      BY <1>3, <3>1, <3>2 DEF IdentityInv, EachHasOnePlace
  <2>3. QED
    BY <2>1, <2>2
<1>10. TicketsAreTrue'
  <2> SUFFICES ASSUME NEW w \in Views
               PROVE  /\ asking'[w] \in DOMAIN logins' => logins'[asking'[w]].entered = None
                      /\ ticket[w] # None => /\ logins'[ticket[w].login].entered = ticket[w].handle
                                             /\ ticket[w].handle \in handles \cup ended
                      /\ inHand[w] # None => /\ logins'[inHand[w].login].entered = inHand[w].handle
                                             /\ inHand[w].handle \in todo[w] \cup ended
    BY DEF TicketsAreTrue
  <2>1. asking'[w] = n \/ asking'[w] = asking[w]
    BY DEF IdentityInv, IdentityTypes, n
  <2>2. asking'[w] \in DOMAIN logins' => logins'[asking'[w]].entered = None
    BY <1>3, <1>5, <2>1 DEF IdentityInv, TicketsAreTrue
  <2>3. /\ ticket[w] # None => ticket[w].login \in DOMAIN logins
        /\ inHand[w] # None => inHand[w].login \in DOMAIN logins
    BY DEF IdentityInv, IdentityTypes, IdentityTickets
  <2>4. QED
    BY <1>3, <2>2, <2>3 DEF IdentityInv, TicketsAreTrue
<1>11. Identity!IdentitiesAreAnswered'
  <2> SUFFICES ASSUME NEW m \in DOMAIN logins'
               PROVE  /\ logins'[m].answers \in {<<>>, <<Failed>>, <<logins'[m].entered>>}
                      /\ logins'[m].answers = <<Failed>> => logins'[m].entered \in ended \cup {None}
    BY DEF Identity!IdentitiesAreAnswered
  <2>1. CASE m = n
    BY <1>3, <1>5, <2>1
  <2>2. CASE m # n
    BY <1>3, <2>2 DEF IdentityInv, Identity!IdentitiesAreAnswered
  <2>3. QED
    BY <2>1, <2>2
<1>12. QED
  BY <1>6, <1>9, <1>10, <1>11 DEF IdentityInv

\* The dialog of a tab is closed, by its user or with a handle.
LEMMA DialogEnds ==
  ASSUME IdentityInv, NEW v \in Views,
         Identity!Cancel(v) \/ \E h \in Handles : Identity!Submit(v, h)
  PROVE  IdentityInv'
<1> DEFINE n == asking[v]
<1>1. n = 0 \/ n \in DOMAIN logins
  BY DEF Identity!Cancel, Identity!Submit, IdentityInv, IdentityTypes
<1>2. 0 \notin DOMAIN logins /\ None \notin DOMAIN logins /\ Leaving \notin DOMAIN logins
  BY LoginNumbers DEF IdentityInv
<1>3. Concerned(v, "dialog") = n /\ "dialog" \in Places
  BY DEF Concerned, Places
<1>4. n \in DOMAIN logins => /\ logins[n].answers = <<>> /\ logins[n].entered = None
                             /\ \A w \in Views, p \in Places :
                                  Concerned(w, p) = n => w = v /\ p = "dialog"
  BY <1>3 DEF IdentityInv, EachHasOnePlace, TicketsAreTrue
<1>5. EachHasOnePlace
  BY DEF IdentityInv
<1> HIDE DEF n
<1>6. CASE Identity!Cancel(v)
  <2>1. /\ asking' = [asking EXCEPT ![v] = None] /\ logins' = Identity!Answered(n, Failed)
        /\ UNCHANGED <<handles, ticket, todo, inHand, ended>>
    BY <1>6 DEF Identity!Cancel, n
  <2>4. /\ logins' \in Seq(LoginRecords) /\ DOMAIN logins' = DOMAIN logins
        /\ Identity!IdentitiesAreAnswered'
        /\ \A m \in DOMAIN logins : /\ logins'[m].entered = logins[m].entered
                                    /\ m # n => logins'[m] = logins[m]
    <3>1. CASE n \in DOMAIN logins
      BY <1>4, <2>1, <3>1, FailedIsNotNone, AnswerFits
    <3>2. CASE n = 0
      BY <2>1, <3>2 DEF Identity!Answered, Identity!Unasked, IdentityInv, IdentityTypes,
                        Identity!IdentitiesAreAnswered
    <3>3. QED
      BY <1>1, <3>1, <3>2
  <2>5. IdentityTypes'
    BY <2>1, <2>4 DEF IdentityInv, IdentityTypes, IdentityTickets
  <2>6. EachHasOnePlace'
    <3> DEFINE from == [p \in Places |-> IF p = "dialog" THEN "none" ELSE p]
    <3>1. \A w \in Views \ {v}, p \in Places : Concerned(w, p)' = Concerned(w, p)
      BY <2>1 DEF IdentityInv, IdentityTypes, Concerned
    <3>2. /\ Concerned(v, "dialog")' = None
          /\ Concerned(v, "storage")' = Concerned(v, "storage")
          /\ Concerned(v, "hand")' = Concerned(v, "hand")
      BY <2>1 DEF IdentityInv, IdentityTypes, Concerned
    <3>3. from \in [Places -> Places \cup {"none"}]
      OBVIOUS
    <3>4. \A p, q \in Places : from[p] = from[q] /\ from[p] # "none" => p = q
      OBVIOUS
    <3>5. \A p \in Places : IF from[p] = "none" THEN Concerned(v, p)' \notin DOMAIN logins
                                                 ELSE Concerned(v, p)' = Concerned(v, from[p])
      BY <1>2, <3>2 DEF Places
    <3> HIDE DEF from
    <3>6. n \in DOMAIN logins => \A w \in Views, p \in Places : Concerned(w, p)' # n
      BY <1>2, <1>4, <3>1, <3>2 DEF Places
    <3>7. \A m \in DOMAIN logins :
            logins'[m].answers = logins[m].answers
            \/ \A w \in Views, p \in Places : Concerned(w, p)' # m
      BY <2>4, <3>6
    <3>8. QED
      BY <1>5, <2>4, <3>1, <3>3, <3>4, <3>5, <3>7, PlacesMove
  <2>7. TicketsAreTrue'
    <3>1. \A w \in Views : asking'[w] = IF w = v THEN None ELSE asking[w]
      BY <2>1 DEF IdentityInv, IdentityTypes
    <3>2. \A w \in Views : /\ ticket[w] # None => ticket[w].login \in DOMAIN logins
                           /\ inHand[w] # None => inHand[w].login \in DOMAIN logins
      BY DEF IdentityInv, IdentityTypes, IdentityTickets
    <3>3. QED
      BY <1>2, <2>1, <2>4, <3>1, <3>2 DEF IdentityInv, TicketsAreTrue
  <2>8. QED
    BY <2>4, <2>5, <2>6, <2>7 DEF IdentityInv
<1>7. ASSUME NEW h \in Handles, Identity!Submit(v, h) PROVE IdentityInv'
  <2>1. /\ handles' = handles \cup {h} /\ asking' = [asking EXCEPT ![v] = Leaving]
        /\ ticket' = [ticket EXCEPT ![v] = IF n = 0 THEN None ELSE [handle |-> h, login |-> n]]
        /\ logins' = IF n = 0 THEN logins ELSE [logins EXCEPT ![n].entered = h]
        /\ UNCHANGED <<todo, inHand, ended>>
    BY <1>7 DEF Identity!Submit, Identity!Unasked, n
  <2>2. h # None
    BY FailedIsNoHandle
  <2>3. logins \in Seq(LoginRecords)
    BY DEF IdentityInv, IdentityTypes
  <2>4. /\ logins' \in Seq(LoginRecords) /\ DOMAIN logins' = DOMAIN logins
        /\ \A m \in DOMAIN logins : /\ logins'[m].answers = logins[m].answers
                                    /\ logins'[m].entered = IF m = n THEN h ELSE logins[m].entered
    <3>1. CASE n = 0
      BY <1>2, <2>1, <2>3, <3>1
    <3>2. CASE n \in DOMAIN logins
      <4>1. /\ logins[n] \in LoginRecords
            /\ logins' = [logins EXCEPT ![n] = [logins[n] EXCEPT !.entered = h]]
        BY <1>2, <2>1, <2>3, <3>2
      <4>2. [logins[n] EXCEPT !.entered = h] = [entered |-> h, answers |-> logins[n].answers]
        BY <4>1 DEF LoginRecords
      <4>3. [logins[n] EXCEPT !.entered = h] \in LoginRecords
        BY <4>1, <4>2 DEF LoginRecords
      <4>4. /\ logins' \in Seq(LoginRecords) /\ DOMAIN logins' = DOMAIN logins
            /\ logins'[n] = [entered |-> h, answers |-> logins[n].answers]
            /\ \A m \in DOMAIN logins : m # n => logins'[m] = logins[m]
        BY <2>3, <3>2, <4>1, <4>2, <4>3
      <4>5. logins'[n].answers = logins[n].answers /\ logins'[n].entered = h
        BY <4>4
      <4>6. QED
        BY <4>4, <4>5
    <3>3. QED
      BY <1>1, <3>1, <3>2
  <2>5. IdentityTypes'
    <3>1. handles' \subseteq Handles /\ asking' \in [Views -> {0, None, Leaving} \cup DOMAIN logins']
      BY <2>1, <2>4 DEF IdentityInv, IdentityTypes
    <3>2. n # 0 => [handle |-> h, login |-> n] \in IdentityTickets
      BY <1>1 DEF IdentityTickets
    <3>3. ticket' \in [Views -> {None} \cup IdentityTickets]
      BY <2>1, <3>2 DEF IdentityInv, IdentityTypes
    <3>4. QED
      BY <2>1, <2>4, <3>1, <3>3 DEF IdentityInv, IdentityTypes, IdentityTickets
  <2>6. /\ \A w \in Views \ {v} : asking'[w] = asking[w] /\ ticket'[w] = ticket[w]
        /\ asking'[v] = Leaving
        /\ ticket'[v] = IF n = 0 THEN None ELSE [handle |-> h, login |-> n]
    BY <2>1 DEF IdentityInv, IdentityTypes
  <2>7. EachHasOnePlace'
    <3> DEFINE from == [p \in Places |-> CASE p = "dialog" -> "none"
                                          [] p = "storage" -> IF ticket'[v] = None THEN "none" ELSE "dialog"
                                          [] OTHER -> p]
    <3>1. \A w \in Views \ {v}, p \in Places : Concerned(w, p)' = Concerned(w, p)
      <4> SUFFICES ASSUME NEW w \in Views \ {v} PROVE \A p \in Places : Concerned(w, p)' = Concerned(w, p)
        OBVIOUS
      <4>1. asking'[w] = asking[w] /\ ticket'[w] = ticket[w] /\ inHand'[w] = inHand[w]
        BY <2>1, <2>6
      <4>2. QED
        BY <4>1 DEF Concerned, Places
    <3>2. Concerned(v, "dialog")' = Leaving /\ Concerned(v, "hand")' = Concerned(v, "hand")
      BY <2>1, <2>6 DEF Concerned
    <3>3. Concerned(v, "storage")' = IF ticket'[v] = None THEN 0 ELSE n
      <4>1. ticket'[v] # None => ticket'[v].login = n
        BY <2>6
      <4>2. QED
        BY <4>1 DEF Concerned
    <3>4. from \in [Places -> Places \cup {"none"}]
      BY DEF Places
    <3>5. \A p, q \in Places : from[p] = from[q] /\ from[p] # "none" => p = q
      BY DEF Places
    <3>6. \A p \in Places : IF from[p] = "none" THEN Concerned(v, p)' \notin DOMAIN logins
                                                 ELSE Concerned(v, p)' = Concerned(v, from[p])
      BY <1>2, <1>3, <3>2, <3>3 DEF Places
    <3> HIDE DEF from
    <3>7. QED
      BY <1>5, <2>4, <3>1, <3>4, <3>5, <3>6, PlacesMove
  <2>8. TicketsAreTrue'
    <3> SUFFICES ASSUME NEW w \in Views
                 PROVE  /\ asking'[w] \in DOMAIN logins => logins'[asking'[w]].entered = None
                        /\ ticket'[w] # None => /\ logins'[ticket'[w].login].entered = ticket'[w].handle
                                                /\ ticket'[w].handle \in handles' \cup ended
                        /\ inHand[w] # None => /\ logins'[inHand[w].login].entered = inHand[w].handle
                                               /\ inHand[w].handle \in todo[w] \cup ended
      BY <2>1, <2>4 DEF TicketsAreTrue
    <3>1. /\ ticket[w] # None => ticket[w].login \in DOMAIN logins
          /\ inHand[w] # None => inHand[w].login \in DOMAIN logins
      BY DEF IdentityInv, IdentityTypes, IdentityTickets
    <3>2. /\ Concerned(w, "dialog") = asking[w]
          /\ ticket[w] # None => Concerned(w, "storage") = ticket[w].login
          /\ inHand[w] # None => Concerned(w, "hand") = inHand[w].login
      BY DEF Concerned
    <3>3. asking'[w] \in DOMAIN logins => logins'[asking'[w]].entered = None
      BY <1>2, <1>4, <2>4, <2>6, <3>2 DEF IdentityInv, TicketsAreTrue, Places
    <3>4. inHand[w] # None => inHand[w].login # n
      BY <1>4, <3>1, <3>2 DEF Places
    <3>5. ticket[w] # None => ticket[w].login # n
      BY <1>4, <3>1, <3>2 DEF Places
    <3>6. ticket'[w] # None => /\ logins'[ticket'[w].login].entered = ticket'[w].handle
                               /\ ticket'[w].handle \in handles' \cup ended
      <4>1. CASE w = v
        BY <1>1, <2>1, <2>4, <2>6, <4>1
      <4>2. CASE w # v
        BY <2>1, <2>4, <2>6, <3>1, <3>5, <4>2 DEF IdentityInv, TicketsAreTrue
      <4>3. QED
        BY <4>1, <4>2
    <3>7. inHand[w] # None => /\ logins'[inHand[w].login].entered = inHand[w].handle
                              /\ inHand[w].handle \in todo[w] \cup ended
      BY <2>4, <3>1, <3>4 DEF IdentityInv, TicketsAreTrue
    <3>8. QED
      BY <3>3, <3>6, <3>7
  <2>9. Identity!IdentitiesAreAnswered'
    <3> SUFFICES ASSUME NEW m \in DOMAIN logins
                 PROVE  /\ logins'[m].answers \in {<<>>, <<Failed>>, <<logins'[m].entered>>}
                        /\ logins'[m].answers = <<Failed>> => logins'[m].entered \in ended \cup {None}
      BY <2>1, <2>4 DEF Identity!IdentitiesAreAnswered
    <3>1. CASE m = n
      <4>1. logins'[m].answers = <<>>
        BY <1>4, <2>4, <3>1
      <4>2. <<>> # <<Failed>>
        OBVIOUS
      <4>3. QED
        BY <4>1, <4>2
    <3>2. CASE m # n
      BY <2>4, <3>2 DEF IdentityInv, Identity!IdentitiesAreAnswered
    <3>3. QED
      BY <3>1, <3>2
  <2>10. QED
    BY <2>5, <2>7, <2>8, <2>9 DEF IdentityInv
<1>8. QED
  BY <1>6, <1>7

\* A handle that is logged out is one that was.
LEMMA LogoutStep ==
  ASSUME IdentityInv, NEW v \in Views, NEW a, Identity!Logout(v, a)
  PROVE  IdentityInv'
<1>1. /\ UNCHANGED <<ticket, todo, inHand, asking, logins>>
      /\ handles' \subseteq handles /\ ended \subseteq ended'
      /\ handles \cup ended \subseteq handles' \cup ended'
  BY DEF Identity!Logout
<1>2. IdentityTypes'
  BY <1>1 DEF IdentityInv, IdentityTypes, IdentityTickets
<1>3. EachHasOnePlace'
  <2>1. \A w \in Views, p \in Places : Concerned(w, p)' = Concerned(w, p)
    BY <1>1 DEF Concerned
  <2>2. QED
    BY <1>1, <2>1 DEF IdentityInv, EachHasOnePlace
<1>4. TicketsAreTrue' /\ Identity!IdentitiesAreAnswered'
  BY <1>1 DEF IdentityInv, TicketsAreTrue, Identity!IdentitiesAreAnswered
<1>5. QED
  BY <1>2, <1>3, <1>4 DEF IdentityInv

LEMMA LoginStep ==
  ASSUME IdentityInv, NEW v \in Views,
         Identity!LoginTwice(v) \/ \E correlated \in BOOLEAN : Identity!Login(v, correlated)
  PROVE  IdentityInv'
<1>1. CASE Identity!LoginTwice(v)
  <2>1. /\ logins' = Append(logins, [entered |-> None, answers |-> <<Failed>>])
        /\ UNCHANGED <<handles, ticket, todo, inHand, asking, ended>>
    BY <1>1 DEF Identity!LoginTwice
  <2>2. QED
    BY <2>1, LoginIsAdded
<1>2. CASE Identity!Login(v, TRUE)
  <2>1. /\ logins' = Append(logins, [entered |-> None, answers |-> <<>>])
        /\ asking' = [asking EXCEPT ![v] = Len(logins) + 1] /\ asking[v] = None
        /\ UNCHANGED <<handles, ticket, todo, inHand, ended>>
    BY <1>2 DEF Identity!Login
  <2>2. QED
    BY <2>1, LoginIsAdded
<1>3. CASE Identity!Login(v, FALSE)
  <2>1. /\ asking' = [asking EXCEPT ![v] = 0] /\ asking[v] = None
        /\ UNCHANGED <<handles, ticket, todo, inHand, logins, ended>>
    BY <1>3 DEF Identity!Login, Identity!Unasked
  <2>2. IdentityTypes'
    BY <2>1 DEF IdentityInv, IdentityTypes, IdentityTickets
  <2>3. 0 \notin DOMAIN logins
    BY LoginNumbers DEF IdentityInv
  <2>4. asking' \in [Views -> {0, None, Leaving} \cup DOMAIN logins] /\ asking'[v] = 0
        /\ \A w \in Views \ {v} : asking'[w] = asking[w]
    BY <2>1 DEF IdentityInv, IdentityTypes
  <2>5. EachHasOnePlace'
    <3>1. \A w \in Views, p \in Places :
            Concerned(w, p)' \in DOMAIN logins => Concerned(w, p)' = Concerned(w, p)
      <4>1. Concerned(v, "dialog")' = 0
        BY <2>4 DEF Concerned
      <4>2. \A w \in Views, p \in Places : w # v \/ p # "dialog" => Concerned(w, p)' = Concerned(w, p)
        BY <2>1, <2>4 DEF Concerned, Places
      <4>3. QED
        BY <2>3, <4>1, <4>2
    <3>2. QED
      BY <2>1, <3>1 DEF IdentityInv, EachHasOnePlace
  <2>6. TicketsAreTrue'
    BY <2>1, <2>3, <2>4 DEF IdentityInv, TicketsAreTrue
  <2>7. QED
    BY <2>1, <2>2, <2>5, <2>6 DEF IdentityInv, Identity!IdentitiesAreAnswered
<1>4. QED
  BY <1>1, <1>2, <1>3

LEMMA IdentityStep ==
  ASSUME IdentityInv, UNCHANGED identityVars \/ Identity!IdentityNext
  PROVE  IdentityInv'
<1>1. CASE UNCHANGED identityVars
  <2>1. UNCHANGED <<handles, ticket, todo, inHand, asking, logins, ended>>
    BY <1>1 DEF identityVars
  <2>2. IdentityTypes' /\ TicketsAreTrue' /\ Identity!IdentitiesAreAnswered'
    BY <2>1 DEF IdentityInv, IdentityTypes, IdentityTickets, TicketsAreTrue,
                Identity!IdentitiesAreAnswered
  <2>3. EachHasOnePlace'
    <3>1. \A w \in Views, p \in Places : Concerned(w, p)' = Concerned(w, p)
      BY <2>1 DEF Concerned
    <3>2. QED
      BY <2>1, <3>1 DEF IdentityInv, EachHasOnePlace
  <2>4. QED
    BY <2>2, <2>3 DEF IdentityInv
<1>2. CASE Identity!IdentityNext
  <2>1. PICK v \in Views :
          \/ Identity!Open(v) \/ Identity!Initialized(v) \/ Identity!Cancel(v)
          \/ Identity!LoginTwice(v)
          \/ \E h \in Handles : Identity!Restore(v, h) \/ Identity!Submit(v, h)
          \/ \E correlated \in BOOLEAN : Identity!Login(v, correlated)
          \/ \E a \in told[v] : Identity!Logout(v, a)
    BY <1>2 DEF Identity!IdentityNext
  <2>2. CASE Identity!Open(v)
    BY <2>2, OpenStep
  <2>3. CASE Identity!Initialized(v)
    BY <2>3, InitializedStep
  <2>4. ASSUME NEW h \in Handles, Identity!Restore(v, h) PROVE IdentityInv'
    BY <2>4, RestoreStep
  <2>5. CASE Identity!Cancel(v) \/ \E h \in Handles : Identity!Submit(v, h)
    BY <2>5, DialogEnds
  <2>6. CASE Identity!LoginTwice(v) \/ \E correlated \in BOOLEAN : Identity!Login(v, correlated)
    BY <2>6, LoginStep
  <2>7. ASSUME NEW a, Identity!Logout(v, a) PROVE IdentityInv'
    BY <2>7, LogoutStep
  <2>8. QED
    BY <2>1, <2>2, <2>3, <2>4, <2>5, <2>6, <2>7
<1>3. QED
  BY <1>1, <1>2

\* A login of the local implementation is answered once, with what was entered.
THEOREM LoginsAreAnsweredOnce == PagesSpec => []IdentitiesAreAnswered
<1>1. PagesInit => IdentityInv
  BY IdentityStarts DEF PagesInit
<1>2. IdentityInv /\ [PagesNext]_pagesVars => IdentityInv'
  BY StepsAreOfOne, IdentityStep
<1>3. IdentityInv => IdentitiesAreAnswered
  BY DEF IdentityInv, IdentitiesAreAnswered
<1>4. QED
  BY <1>1, <1>2, <1>3, PTL DEF PagesSpec
-----------------------------------------------------------------------------
(***************************************************************************)
(* Logins through the guard.                                               *)
(***************************************************************************)

Successes == {Success(a) : a \in Actors}
Outcomes == Successes \cup {Failure}
NonceOrNone == Nonces \cup {None}

TabPages ==
  [at : {"app", "guard"},
   pc : {"loading", "restoring", "answered", "ready", "starting", "away", "back", "expired"},
   nonce : NonceOrNone, canceled : BOOLEAN, result : Outcomes \cup {None},
   marker : NonceOrNone, before : SUBSET Actors]
TabStates == [Tabs -> TabPages]
SavedStates == [Tabs -> [nonce : NonceOrNone, canceled : BOOLEAN, back : NonceOrNone]]

LoginTypes ==
  /\ asks \in Seq(Tabs) /\ Len(asks) <= MaxAsks
  /\ tab \in TabStates /\ saved \in SavedStates
  /\ receipts \subseteq [nonce : Nonces, site : Sites, result : Successes]
  /\ sessions \subseteq Actors
  /\ used \in [detours : Nat, logouts : Nat]
  /\ chosen \in [Nonces -> Seq(Outcomes)] /\ answers \in [Nonces -> Seq(Outcomes)]

\* Requests that a tab made.
AskedBy(t) == {n \in DOMAIN asks : asks[n] = t}

\* A tab knows requests of its own only.
NonceIsOwn(t) ==
  /\ tab[t].nonce \in AskedBy(t) \cup {None} /\ saved[t].nonce \in AskedBy(t) \cup {None}
  /\ tab[t].at = "guard" => tab[t].nonce # None
  /\ tab[t].at = "app" /\ tab[t].result # None =>
       tab[t].nonce # None /\ tab[t].pc = "restoring"

\* Requests that failed, or were canceled.
GivenUp == {n \in Nonces : \E k \in DOMAIN chosen[n] : chosen[n][k] = Failure}

\* The marker of a request is made when its login fails.
MarkerIsTrue(t) ==
  /\ tab[t].marker \in GivenUp \cup {None} /\ saved[t].back \in GivenUp \cup {None}
  /\ tab[t].canceled => tab[t].nonce \in GivenUp
  /\ saved[t].canceled => saved[t].nonce \in GivenUp

HasReceipt(n, a) == \E r \in receipts : r.nonce = n /\ r.result = Success(a)
InPage(n, a) ==
  \E t \in Tabs : /\ tab[t].at = "app" /\ tab[t].result # None
                  /\ tab[t].nonce = n /\ tab[t].result = Success(a)
One(b) == IF b THEN 1 ELSE 0

\* A success that the user chose is on its way, or told, or forgotten: never two of these.
SuccessesAreSpent ==
  \A n \in Nonces, a \in Actors :
    Occurrences(answers[n], Success(a)) + One(HasReceipt(n, a)) + One(InPage(n, a))
      <= Occurrences(chosen[n], Success(a))

\* Accounts that are logged in; any, once one was logged out.
Known == {a \in Actors : a \in sessions \/ used.logouts > 0}

\* A receipt is for the site of its request, and has an account.
ReceiptsAreOwn ==
  \A r \in receipts :
    /\ r.nonce \in DOMAIN asks /\ r.site = Site[asks[r.nonce]]
    /\ \A a \in Actors : r.result = Success(a) => a \in Known

ResultIsTrue(t) ==
  /\ tab[t].result # None =>
       /\ tab[t].result = Failure /\ tab[t].at = "app" => tab[t].nonce \in GivenUp
       /\ \A a \in Actors : tab[t].result = Success(a) => a \in Known
  /\ tab[t].at = "guard" /\ tab[t].pc = "back" => \E a \in Known : tab[t].result = Success(a)

TabsAreRight == \A t \in Tabs : NonceIsOwn(t) /\ MarkerIsTrue(t) /\ ResultIsTrue(t)

FailuresFit ==
  \A n \in Nonces : \A k \in DOMAIN answers[n] : answers[n][k] = Failure =>
    n \in GivenUp \/ (chosen[n] # <<>> /\ used.logouts > 0)

LoginInv ==
  /\ LoginTypes /\ TabsAreRight /\ ReceiptsAreOwn
  /\ SuccessesAreSpent /\ FailuresFit /\ ApprovalsWereAnswered

LEMMA Appended ==
  ASSUME NEW S, NEW s \in Seq(S), NEW x \in S, NEW y
  PROVE  /\ Occurrences(s, y) \in Nat
         /\ Occurrences(Append(s, x), y) = Occurrences(s, y) + One(x = y)
         /\ Occurrences(s, y) > 0 <=> \E k \in DOMAIN s : s[k] = y
<1> DEFINE K == {k \in DOMAIN s : s[k] = y}
           L == {k \in DOMAIN Append(s, x) : Append(s, x)[k] = y}
           n == Len(s) + 1
<1>1. IsFiniteSet(K) /\ Cardinality(K) \in Nat
  <2>1. IsFiniteSet(1..Len(s))
    BY FS_Interval
  <2>2. K \subseteq 1..Len(s)
    OBVIOUS
  <2>3. QED
    BY <2>1, <2>2, FS_Subset, FS_CardinalityType
<1>2. L = K \cup (IF x = y THEN {n} ELSE {}) /\ n \notin K
  OBVIOUS
<1>3. Cardinality(L) = Cardinality(K) + One(x = y)
  <2>1. CASE x = y
    <3>1. L = K \cup {n}
      BY <1>2, <2>1
    <3>2. Cardinality(K \cup {n}) = Cardinality(K) + 1
      BY <1>1, <1>2, FS_AddElement
    <3>3. QED
      BY <2>1, <3>1, <3>2 DEF One
  <2>2. CASE x # y
    <3>1. L = K
      BY <1>2, <2>2
    <3>2. Cardinality(L) = Cardinality(K)
      BY <3>1
    <3>3. One(x = y) = 0
      BY <2>2 DEF One
    <3> HIDE DEF K, L
    <3>4. QED
      BY <1>1, <3>2, <3>3
  <2>3. QED
    BY <2>1, <2>2
<1>4. Cardinality(K) > 0 <=> K # {}
  BY <1>1, FS_EmptySet
<1>5. Occurrences(s, y) = Cardinality(K) /\ Occurrences(Append(s, x), y) = Cardinality(L)
  BY DEF Occurrences
<1>6. K # {} <=> \E k \in DOMAIN s : s[k] = y
  OBVIOUS
<1> HIDE DEF K, L, n
<1>7. QED
  BY <1>1, <1>3, <1>4, <1>5, <1>6

LEMMA NonceFacts == None \notin Nonces /\ MaxAsks \in Nat
BY NumbersAreOnlyLogins, BoundsAreNatural DEF Nonces

\* What a load of the app does to its tab.
LEMMA AppLoads ==
  ASSUME LoginTypes, NEW t \in Tabs, NEW marker \in NonceOrNone, LoadApp(t, marker)
  PROVE  /\ tab' \in TabStates /\ saved' \in SavedStates
         /\ \A u \in Tabs \ {t} : tab'[u] = tab[u] /\ saved'[u] = saved[u]
         /\ tab'[t].at = "app" /\ tab'[t].pc = "loading" /\ tab'[t].result = None
         /\ tab'[t].nonce = saved[t].nonce /\ saved'[t].nonce = saved[t].nonce
         /\ tab'[t].marker \in {saved[t].back, marker} /\ saved'[t].back = saved[t].back
         /\ tab'[t].canceled = saved'[t].canceled
         /\ saved'[t].canceled =>
              saved[t].nonce # None /\ (saved[t].canceled \/ marker = saved[t].nonce)
<1> DEFINE counts == Cancels(t, marker)
           canceled == saved[t].nonce # None /\ (saved[t].canceled \/ counts)
           page == [AppPage EXCEPT !.nonce = saved[t].nonce, !.canceled = canceled,
                                   !.marker = IF counts THEN saved[t].back ELSE marker]
<1>1. /\ tab' = [tab EXCEPT ![t] = page]
      /\ saved' = [saved EXCEPT ![t].canceled = canceled]
  BY DEF LoadApp
<1>2. canceled \in BOOLEAN /\ (counts => marker = saved[t].nonce)
  BY DEF Cancels
<1>3. /\ tab \in TabStates /\ saved \in SavedStates
      /\ saved[t].nonce \in NonceOrNone /\ saved[t].back \in NonceOrNone
  BY DEF LoginTypes, SavedStates
<1> HIDE DEF counts, canceled
<1>4. /\ page.at = "app" /\ page.pc = "loading" /\ page.result = None
      /\ page.nonce = saved[t].nonce /\ page.canceled = canceled
      /\ page.marker = IF counts THEN saved[t].back ELSE marker
      /\ page \in TabPages
  BY <1>2, <1>3 DEF AppPage, TabPages
<1> HIDE DEF page
<1>5. tab' \in TabStates
  BY <1>1, <1>3, <1>4 DEF TabStates
<1>6. saved' \in SavedStates
  BY <1>1, <1>2, <1>3 DEF SavedStates
<1>7. /\ tab'[t] = page /\ \A u \in Tabs \ {t} : tab'[u] = tab[u] /\ saved'[u] = saved[u]
      /\ saved'[t].nonce = saved[t].nonce /\ saved'[t].back = saved[t].back
      /\ saved'[t].canceled = canceled
  BY <1>1, <1>3 DEF TabStates, SavedStates
<1>8. canceled => saved[t].nonce # None /\ (saved[t].canceled \/ marker = saved[t].nonce)
  BY <1>2 DEF canceled
<1>9. QED
  BY <1>4, <1>5, <1>6, <1>7, <1>8

\* Where nothing is chosen or answered, no success is doubled either.
LEMMA QuietStep ==
  ASSUME LoginInv, UNCHANGED <<chosen, answers>>, approved' \subseteq approved,
         asks' = asks \/ \E t \in Tabs : asks' = Append(asks, t),
         used'.logouts \in Nat, used'.logouts >= used.logouts,
         \A n \in Nonces, a \in Actors :
           One(HasReceipt(n, a)') + One(InPage(n, a)') <= One(HasReceipt(n, a)) + One(InPage(n, a))
  PROVE  /\ SuccessesAreSpent' /\ FailuresFit' /\ ApprovalsWereAnswered'
         /\ GivenUp' = GivenUp
<1>1. DOMAIN asks \subseteq DOMAIN asks' /\ \A n \in DOMAIN asks : asks'[n] = asks[n]
  <2>1. asks \in Seq(Tabs)
    BY DEF LoginInv, LoginTypes
  <2>2. QED
    BY <2>1
<1>2. ApprovalsWereAnswered'
  BY <1>1 DEF LoginInv, ApprovalsWereAnswered
<1>3. GivenUp' = GivenUp
  BY DEF GivenUp
<1>4. FailuresFit'
  <2>1. used.logouts \in Nat
    BY DEF LoginInv, LoginTypes
  <2>2. QED
    BY <1>3, <2>1 DEF LoginInv, FailuresFit
<1>5. SuccessesAreSpent'
  <2> SUFFICES ASSUME NEW n \in Nonces, NEW a \in Actors
               PROVE  Occurrences(answers[n], Success(a)) + One(HasReceipt(n, a)') + One(InPage(n, a)')
                        <= Occurrences(chosen[n], Success(a))
    BY DEF SuccessesAreSpent
  <2>1. /\ Occurrences(answers[n], Success(a)) \in Nat /\ Occurrences(chosen[n], Success(a)) \in Nat
    <3>1. Failure \in Outcomes /\ answers[n] \in Seq(Outcomes) /\ chosen[n] \in Seq(Outcomes)
      BY DEF LoginInv, LoginTypes, Outcomes
    <3>2. QED
      BY <3>1, Appended
  <2>2. /\ One(HasReceipt(n, a)) \in Nat /\ One(InPage(n, a)) \in Nat
        /\ One(HasReceipt(n, a)') \in Nat /\ One(InPage(n, a)') \in Nat
    BY DEF One
  <2>3. Occurrences(answers[n], Success(a)) + One(HasReceipt(n, a)) + One(InPage(n, a))
          <= Occurrences(chosen[n], Success(a))
    BY DEF LoginInv, SuccessesAreSpent
  <2>4. One(HasReceipt(n, a)') + One(InPage(n, a)') <= One(HasReceipt(n, a)) + One(InPage(n, a))
    OBVIOUS
  <2>5. QED
    BY <2>1, <2>2, <2>3, <2>4
<1>6. QED
  BY <1>2, <1>3, <1>4, <1>5

LEMMA OneTabSteps ==
  ASSUME LoginInv, NEW t \in Tabs, NonceIsOwn(t)', MarkerIsTrue(t)', ResultIsTrue(t)',
         \A u \in Tabs \ {t} : tab'[u] = tab[u] /\ saved'[u] = saved[u],
         \A u \in Tabs : AskedBy(u) \subseteq AskedBy(u)',
         GivenUp \subseteq GivenUp', Known \subseteq Known'
  PROVE  TabsAreRight'
<1> SUFFICES ASSUME NEW u \in Tabs \ {t}
             PROVE  NonceIsOwn(u)' /\ MarkerIsTrue(u)' /\ ResultIsTrue(u)'
  BY DEF TabsAreRight
<1>1. NonceIsOwn(u) /\ MarkerIsTrue(u) /\ ResultIsTrue(u)
  BY DEF LoginInv, TabsAreRight
<1>2. NonceIsOwn(u)'
  BY <1>1 DEF NonceIsOwn
<1>3. MarkerIsTrue(u)'
  BY <1>1 DEF MarkerIsTrue
<1>4. ResultIsTrue(u)'
  BY <1>1 DEF ResultIsTrue
<1>5. QED
  BY <1>2, <1>3, <1>4

LEMMA ReceiptsKeep ==
  ASSUME LoginInv, receipts' \subseteq receipts, Known \subseteq Known',
         asks' = asks \/ \E t \in Tabs : asks' = Append(asks, t)
  PROVE  /\ ReceiptsAreOwn' /\ \A u \in Tabs : AskedBy(u) \subseteq AskedBy(u)'
         /\ \A n \in Nonces, a \in Actors : HasReceipt(n, a)' => HasReceipt(n, a)
<1>1. DOMAIN asks \subseteq DOMAIN asks' /\ \A n \in DOMAIN asks : asks'[n] = asks[n]
  <2>1. asks \in Seq(Tabs)
    BY DEF LoginInv, LoginTypes
  <2>2. QED
    BY <2>1
<1>2. ReceiptsAreOwn'
  BY <1>1 DEF LoginInv, ReceiptsAreOwn
<1>3. QED
  BY <1>1, <1>2 DEF AskedBy, HasReceipt

\* The app is loaded again, in its tab, with a marker that is true.
LEMMA LoadKeeps ==
  ASSUME LoginInv, NEW t \in Tabs, NEW marker \in NonceOrNone, LoadApp(t, marker),
         marker \in GivenUp' \cup {None}, GivenUp \subseteq GivenUp',
         UNCHANGED <<asks, sessions>>, used'.logouts = used.logouts
  PROVE  /\ TabsAreRight' /\ tab' \in TabStates /\ saved' \in SavedStates
         /\ \A n \in Nonces, a \in Actors : InPage(n, a)' => InPage(n, a)
<1>1. /\ tab' \in TabStates /\ saved' \in SavedStates
      /\ \A u \in Tabs \ {t} : tab'[u] = tab[u] /\ saved'[u] = saved[u]
      /\ tab'[t].at = "app" /\ tab'[t].pc = "loading" /\ tab'[t].result = None
      /\ tab'[t].nonce = saved[t].nonce /\ saved'[t].nonce = saved[t].nonce
      /\ tab'[t].marker \in {saved[t].back, marker} /\ saved'[t].back = saved[t].back
      /\ tab'[t].canceled = saved'[t].canceled
      /\ saved'[t].canceled =>
           saved[t].nonce # None /\ (saved[t].canceled \/ marker = saved[t].nonce)
  BY AppLoads DEF LoginInv
<1>2. \A u \in Tabs : AskedBy(u)' = AskedBy(u)
  BY DEF AskedBy
<1>3. NonceIsOwn(t) /\ MarkerIsTrue(t)
  BY DEF LoginInv, TabsAreRight
<1>4. NonceIsOwn(t)'
  BY <1>1, <1>2, <1>3 DEF NonceIsOwn
<1>5. MarkerIsTrue(t)'
  BY <1>1, <1>3 DEF MarkerIsTrue
<1>6. ResultIsTrue(t)' /\ Known' = Known
  BY <1>1 DEF ResultIsTrue, Known
<1>7. TabsAreRight'
  BY <1>1, <1>2, <1>4, <1>5, <1>6, OneTabSteps
<1>8. \A n \in Nonces, a \in Actors : InPage(n, a)' => InPage(n, a)
  BY <1>1 DEF InPage
<1>9. QED
  BY <1>1, <1>7, <1>8

\* The app is loaded again, or the page of the guard is left.
LEMMA ReloadStep ==
  ASSUME LoginInv, NEW t \in Tabs, Reload(t) \/ Leave(t)
  PROVE  LoginInv'
<1>1. /\ LoadApp(t, tab[t].marker)
      /\ UNCHANGED <<receipts, sessions, approved, asks, chosen, answers>>
      /\ used' = [used EXCEPT !.detours = @ + 1]
  BY DEF Reload, Leave, Detour
<1>2. used' \in [detours : Nat, logouts : Nat] /\ used'.logouts = used.logouts /\ used.logouts \in Nat
  <2>1. used \in [detours : Nat, logouts : Nat]
    BY DEF LoginInv, LoginTypes
  <2>2. used' = [used EXCEPT !.detours = used.detours + 1] /\ used.detours + 1 \in Nat
    BY <1>1, <2>1
  <2>3. QED
    BY <2>1, <2>2
<1>3. tab[t].marker \in NonceOrNone /\ tab[t].marker \in GivenUp \cup {None}
  BY DEF LoginInv, LoginTypes, TabsAreRight, MarkerIsTrue, TabStates, TabPages
<1>4. GivenUp' = GivenUp /\ Known' = Known
  BY <1>1, <1>2 DEF GivenUp, Known
<1>5. /\ TabsAreRight' /\ tab' \in TabStates /\ saved' \in SavedStates
      /\ \A n \in Nonces, a \in Actors : InPage(n, a)' => InPage(n, a)
  BY <1>1, <1>2, <1>3, <1>4, LoadKeeps
<1>6. ReceiptsAreOwn' /\ \A n \in Nonces, a \in Actors : HasReceipt(n, a)' => HasReceipt(n, a)
  BY <1>1, <1>4, ReceiptsKeep
<1>7. SuccessesAreSpent' /\ FailuresFit' /\ ApprovalsWereAnswered'
  BY <1>1, <1>2, <1>5, <1>6, QuietStep DEF One
<1>8. LoginTypes'
  BY <1>1, <1>2, <1>5 DEF LoginInv, LoginTypes
<1>9. QED
  BY <1>5, <1>6, <1>7, <1>8 DEF LoginInv

\* One tab changes, and nothing is chosen or answered.
LEMMA QuietTabStep ==
  ASSUME LoginInv, NEW t \in Tabs, NonceIsOwn(t)', MarkerIsTrue(t)', ResultIsTrue(t)',
         tab' \in TabStates, saved' \in SavedStates,
         \A u \in Tabs \ {t} : tab'[u] = tab[u] /\ saved'[u] = saved[u],
         tab'[t].at = "guard" \/ tab'[t].result = None,
         UNCHANGED <<receipts, approved, chosen, answers>>,
         asks' = asks \/ (Len(asks) < MaxAsks /\ asks' = Append(asks, t)),
         sessions' \subseteq Actors, Known \subseteq Known',
         used' \in [detours : Nat, logouts : Nat], used'.logouts = used.logouts
  PROVE  LoginInv'
<1>1. asks \in Seq(Tabs) /\ Len(asks) <= MaxAsks /\ used'.logouts \in Nat /\ MaxAsks \in Nat
  BY NonceFacts DEF LoginInv, LoginTypes
<1>2. asks' \in Seq(Tabs) /\ Len(asks') <= MaxAsks
  BY <1>1
<1>3. LoginTypes'
  BY <1>2 DEF LoginInv, LoginTypes
<1>4. /\ ReceiptsAreOwn' /\ \A u \in Tabs : AskedBy(u) \subseteq AskedBy(u)'
      /\ \A n \in Nonces, a \in Actors : HasReceipt(n, a)' => HasReceipt(n, a)
  BY ReceiptsKeep
<1>5. GivenUp' = GivenUp
  BY DEF GivenUp
<1>6. TabsAreRight'
  BY <1>4, <1>5, OneTabSteps
<1>7. \A n \in Nonces, a \in Actors : InPage(n, a)' => InPage(n, a)
  BY DEF InPage
<1>8. SuccessesAreSpent' /\ FailuresFit' /\ ApprovalsWereAnswered'
  BY <1>1, <1>4, <1>7, QuietStep DEF One
<1>9. QED
  BY <1>3, <1>4, <1>6, <1>8 DEF LoginInv

\* A page of the guard, or of the provider, changes, or is reached again.
LEMMA GuardPageStep ==
  ASSUME LoginInv, NEW t \in Tabs,
         \/ SignIn(t) \/ Expired(t)
         \/ \E a \in Actors : SignedIn(t, a)
         \/ \E n \in Nonces : Revisit(t, n)
  PROVE  LoginInv'
<1>1. tab \in TabStates /\ tab[t] \in TabPages /\ sessions \subseteq Actors
  BY DEF LoginInv, LoginTypes, TabStates
<1>2. NonceIsOwn(t) /\ MarkerIsTrue(t) /\ ResultIsTrue(t)
  BY DEF LoginInv, TabsAreRight
<1>3. /\ UNCHANGED <<saved, receipts, approved, asks, chosen, answers>>
      /\ sessions \subseteq sessions' /\ sessions' \subseteq Actors
      /\ used' \in [detours : Nat, logouts : Nat]
      /\ used'.logouts = used.logouts /\ used.logouts \in Nat
  <2>1. /\ UNCHANGED <<saved, receipts, approved, asks, chosen, answers>>
        /\ used' = used \/ used' = [used EXCEPT !.detours = @ + 1]
        /\ sessions' = sessions \/ \E a \in Actors : sessions' = sessions \cup {a}
    BY DEF SignIn, Expired, SignedIn, Revisit, Detour
  <2>2. used \in [detours : Nat, logouts : Nat]
    BY DEF LoginInv, LoginTypes
  <2>3. QED
    BY <1>1, <2>1, <2>2
<1>4. GivenUp' = GivenUp /\ Known \subseteq Known' /\ \A u \in Tabs : AskedBy(u)' = AskedBy(u)
  BY <1>3 DEF GivenUp, Known, AskedBy
<1> DEFINE Facts ==
      /\ tab' \in TabStates /\ \A u \in Tabs \ {t} : tab'[u] = tab[u]
      /\ tab'[t].at = "guard" /\ tab'[t].nonce \in AskedBy(t)
      /\ tab'[t].marker \in {tab[t].marker, None}
      /\ tab'[t].canceled => tab[t].canceled /\ tab'[t].nonce = tab[t].nonce
      /\ tab'[t].pc = "back" => \E a \in Known' : tab'[t].result = Success(a)
      /\ tab'[t].result # None => \A a \in Actors : tab'[t].result = Success(a) => a \in Known'
<1>5. ASSUME SignIn(t) \/ Expired(t) PROVE Facts
  <2>1. /\ tab[t].at = "guard"
        /\ \/ tab' = [tab EXCEPT ![t].pc = "away", ![t].before = sessions]
           \/ tab' = [tab EXCEPT ![t].pc = "expired"]
    BY <1>5 DEF SignIn, Expired, AtGuard
  <2>2. /\ tab' \in TabStates /\ \A u \in Tabs \ {t} : tab'[u] = tab[u]
        /\ tab'[t].at = "guard" /\ tab'[t].nonce = tab[t].nonce
        /\ tab'[t].marker = tab[t].marker /\ tab'[t].canceled = tab[t].canceled
        /\ tab'[t].pc # "back" /\ tab'[t].result = tab[t].result
    BY <1>1, <2>1 DEF TabStates, TabPages
  <2>3. QED
    <3>1. tab[t].nonce \in AskedBy(t)
      BY <1>2, <2>1 DEF NonceIsOwn
    <3>2. tab[t].result # None => \A a \in Actors : tab[t].result = Success(a) => a \in Known'
      BY <1>2, <1>4 DEF ResultIsTrue
    <3>3. tab'[t].result # None => \A a \in Actors : tab'[t].result = Success(a) => a \in Known'
      BY <2>2, <3>2
    <3>4. QED
      BY <2>2, <3>1, <3>3
<1>6. ASSUME NEW a \in Actors, SignedIn(t, a) PROVE Facts
  <2>1. /\ tab[t].at = "guard" /\ sessions' = sessions \cup {a}
        /\ tab' = [tab EXCEPT ![t].pc = "back", ![t].result = Success(a)]
    BY <1>6 DEF SignedIn, AtGuard
  <2>2. /\ tab' \in TabStates /\ \A u \in Tabs \ {t} : tab'[u] = tab[u]
        /\ tab'[t].at = "guard" /\ tab'[t].nonce = tab[t].nonce
        /\ tab'[t].marker = tab[t].marker /\ tab'[t].canceled = tab[t].canceled
        /\ tab'[t].result = Success(a)
    <3>1. Success(a) \in Outcomes
      BY DEF Outcomes, Successes
    <3>2. QED
      BY <1>1, <2>1, <3>1 DEF TabStates, TabPages
  <2>3. \A b \in Actors : Success(a) = Success(b) => b \in Known'
    BY <2>1 DEF Success, Known
  <2>4. QED
    BY <1>2, <2>1, <2>2, <2>3 DEF NonceIsOwn
<1>7. ASSUME NEW n \in Nonces, Revisit(t, n) PROVE Facts
  <2> DEFINE page == [GuardPage(n) EXCEPT !.pc = "away", !.before = sessions]
  <2>1. n \in AskedBy(t) /\ tab' = [tab EXCEPT ![t] = page]
    BY <1>7 DEF Revisit, AskedBy
  <2>2. /\ page \in TabPages /\ page.at = "guard" /\ page.nonce = n /\ page.canceled = FALSE
        /\ page.marker = None /\ page.pc = "away" /\ page.result = None
    BY <1>1 DEF GuardPage, AppPage, TabPages, NonceOrNone
  <2> HIDE DEF page
  <2>3. /\ tab' \in TabStates /\ \A u \in Tabs \ {t} : tab'[u] = tab[u] /\ tab'[t] = page
    BY <1>1, <2>1, <2>2 DEF TabStates
  <2>4. tab'[t] = page
    BY <1>1, <2>1 DEF TabStates
  <2>5. QED
    BY <2>1, <2>2, <2>3, <2>4
<1>8. Facts
  BY <1>5, <1>6, <1>7
<1>9. NonceIsOwn(t)' /\ MarkerIsTrue(t)' /\ ResultIsTrue(t)'
  <2>1. NonceIsOwn(t)'
    <3>1. None \notin AskedBy(t)
      BY NonceFacts DEF AskedBy, LoginInv, LoginTypes, Nonces
    <3>2. QED
      BY <1>2, <1>3, <1>4, <1>8, <3>1 DEF NonceIsOwn
  <2>2. MarkerIsTrue(t)'
    BY <1>2, <1>3, <1>4, <1>8 DEF MarkerIsTrue
  <2>3. ResultIsTrue(t)'
    BY <1>8 DEF ResultIsTrue
  <2>4. QED
    BY <2>1, <2>2, <2>3
<1>10. QED
  BY <1>3, <1>4, <1>8, <1>9, QuietTabStep DEF LoginInv, LoginTypes

\* The client of the app forgets the request, or the app asks the guard for a login.
LEMMA AppPageStep ==
  ASSUME LoginInv, NEW t \in Tabs, Initialized(t) \/ LoginThere(t)
  PROVE  LoginInv'
<1>1. /\ tab \in TabStates /\ tab[t] \in TabPages /\ saved \in SavedStates
      /\ asks \in Seq(Tabs) /\ Len(asks) <= MaxAsks
  BY DEF LoginInv, LoginTypes, TabStates
<1>2. NonceIsOwn(t) /\ MarkerIsTrue(t) /\ ResultIsTrue(t)
  BY DEF LoginInv, TabsAreRight
<1>3. /\ UNCHANGED <<receipts, sessions, approved, used, chosen, answers>>
      /\ used' \in [detours : Nat, logouts : Nat] /\ sessions' \subseteq Actors
  BY DEF Initialized, LoginThere, LoginInv, LoginTypes
<1>4. GivenUp' = GivenUp /\ Known' = Known
  BY <1>3 DEF GivenUp, Known
<1>5. CASE Initialized(t)
  <2>1. /\ tab[t].at = "app" /\ tab[t].pc = "answered" /\ asks' = asks
        /\ tab' = [tab EXCEPT ![t].pc = "ready", ![t].nonce = None, ![t].canceled = FALSE]
        /\ saved' = saved \/ saved' = [saved EXCEPT ![t] = Forgotten]
    BY <1>5 DEF Initialized
  <2>2. /\ tab' \in TabStates /\ \A u \in Tabs \ {t} : tab'[u] = tab[u]
        /\ tab'[t].at = "app" /\ tab'[t].nonce = None /\ tab'[t].canceled = FALSE
        /\ tab'[t].marker = tab[t].marker /\ tab'[t].result = tab[t].result
    BY <1>1, <2>1 DEF TabStates, TabPages, NonceOrNone
  <2>3. /\ saved' \in SavedStates /\ \A u \in Tabs \ {t} : saved'[u] = saved[u]
        /\ saved'[t] = saved[t] \/ saved'[t] = Forgotten
    <3>1. Forgotten \in [nonce : NonceOrNone, canceled : BOOLEAN, back : NonceOrNone]
      BY DEF Forgotten, NonceOrNone
    <3>2. QED
      BY <1>1, <2>1, <3>1 DEF SavedStates
  <2>4. tab'[t].result = None
    BY <1>2, <2>1, <2>2 DEF NonceIsOwn
  <2>5. NonceIsOwn(t)'
    <3>1. AskedBy(t)' = AskedBy(t)
      BY <2>1 DEF AskedBy
    <3>2. QED
      BY <1>2, <2>2, <2>3, <2>4, <3>1 DEF NonceIsOwn, Forgotten
  <2>6. MarkerIsTrue(t)'
    BY <1>2, <1>4, <2>2, <2>3 DEF MarkerIsTrue, Forgotten
  <2>7. ResultIsTrue(t)'
    BY <2>2, <2>4 DEF ResultIsTrue
  <2>8. QED
    BY <1>3, <1>4, <2>1, <2>2, <2>3, <2>4, <2>5, <2>6, <2>7, QuietTabStep
<1>6. CASE LoginThere(t)
  <2> DEFINE n == Len(asks) + 1
             page == [GuardPage(n) EXCEPT !.pc = "starting", !.marker = tab[t].marker]
  <2>1. /\ tab[t].at = "app" /\ Len(asks) < MaxAsks /\ asks' = Append(asks, t)
        /\ tab' = [tab EXCEPT ![t] = page]
        /\ saved' = [saved EXCEPT ![t] = [nonce |-> n, canceled |-> FALSE, back |-> tab[t].marker]]
    BY <1>6 DEF LoginThere
  <2>2. n \in Nonces /\ n \in AskedBy(t)' /\ n # None
    BY <1>1, <2>1, NonceFacts DEF Nonces, AskedBy
  <2>3. tab[t].marker \in NonceOrNone
    BY <1>1 DEF TabPages
  <2>4. /\ page \in TabPages /\ page.at = "guard" /\ page.nonce = n /\ page.canceled = FALSE
        /\ page.marker = tab[t].marker /\ page.pc = "starting" /\ page.result = None
    BY <2>2, <2>3 DEF GuardPage, AppPage, TabPages, NonceOrNone
  <2> HIDE DEF n, page
  <2>5. /\ tab' \in TabStates /\ \A u \in Tabs \ {t} : tab'[u] = tab[u]
        /\ tab'[t] = page
    BY <1>1, <2>1, <2>4 DEF TabStates
  <2>6. /\ saved' \in SavedStates /\ \A u \in Tabs \ {t} : saved'[u] = saved[u]
        /\ saved'[t].nonce = n /\ saved'[t].canceled = FALSE /\ saved'[t].back = tab[t].marker
    BY <1>1, <2>1, <2>2, <2>3 DEF SavedStates, NonceOrNone
  <2>7. NonceIsOwn(t)'
    BY <2>2, <2>4, <2>5, <2>6 DEF NonceIsOwn
  <2>8. MarkerIsTrue(t)' /\ ResultIsTrue(t)'
    BY <1>2, <1>4, <2>4, <2>5, <2>6 DEF MarkerIsTrue, ResultIsTrue
  <2>9. QED
    BY <1>3, <1>4, <2>1, <2>4, <2>5, <2>6, <2>7, <2>8, QuietTabStep
<1>7. QED
  BY <1>5, <1>6

\* A receipt expires, or an account is logged out.
LEMMA LossStep ==
  ASSUME LoginInv,
         \/ \E r \in receipts : ReceiptExpires(r)
         \/ \E a \in Actors, sites \in SUBSET Sites : LogOut(a, sites)
  PROVE  LoginInv'
<1>1. /\ UNCHANGED <<tab, saved, asks, chosen, answers>>
      /\ receipts' \subseteq receipts /\ approved' \subseteq approved
      /\ \/ sessions' = sessions /\ used' = [used EXCEPT !.detours = @ + 1]
         \/ sessions' \subseteq sessions /\ used' = [used EXCEPT !.logouts = @ + 1]
  BY DEF ReceiptExpires, Detour, LogOut
<1>2. used \in [detours : Nat, logouts : Nat] /\ sessions \subseteq Actors
  BY DEF LoginInv, LoginTypes
<1>3. /\ used' \in [detours : Nat, logouts : Nat] /\ used'.logouts \in Nat
      /\ used'.logouts >= used.logouts /\ sessions' \subseteq Actors
  BY <1>1, <1>2
<1>4. Known \subseteq Known'
  BY <1>1, <1>2 DEF Known
<1>5. LoginTypes'
  BY <1>1, <1>3 DEF LoginInv, LoginTypes
<1>6. ReceiptsAreOwn' /\ \A n \in Nonces, a \in Actors : HasReceipt(n, a)' => HasReceipt(n, a)
  BY <1>1, <1>4, ReceiptsKeep
<1>7. TabsAreRight'
  <2> SUFFICES ASSUME NEW t \in Tabs PROVE NonceIsOwn(t)' /\ MarkerIsTrue(t)' /\ ResultIsTrue(t)'
    BY DEF TabsAreRight
  <2>1. NonceIsOwn(t) /\ MarkerIsTrue(t) /\ ResultIsTrue(t)
    BY DEF LoginInv, TabsAreRight
  <2>2. AskedBy(t)' = AskedBy(t) /\ GivenUp' = GivenUp
    BY <1>1 DEF AskedBy, GivenUp
  <2>3. QED
    BY <1>1, <1>4, <2>1, <2>2 DEF NonceIsOwn, MarkerIsTrue, ResultIsTrue
<1>8. \A n \in Nonces, a \in Actors : InPage(n, a)' => InPage(n, a)
  BY <1>1 DEF InPage
<1>9. SuccessesAreSpent' /\ FailuresFit' /\ ApprovalsWereAnswered'
  BY <1>1, <1>3, <1>6, <1>8, QuietStep DEF One
<1>10. QED
  BY <1>5, <1>6, <1>7, <1>9 DEF LoginInv

\* The embedded guard redeems the receipt of the request.
LEMMA ConnectStep ==
  ASSUME LoginInv, NEW t \in Tabs, NEW access \in BOOLEAN, Connect(t, access)
  PROVE  LoginInv'
<1> DEFINE redeemed == IF access /\ ~tab[t].canceled THEN Redeemed(t) ELSE {}
           result == CASE tab[t].canceled -> Failure
                       [] redeemed # {} -> (CHOOSE r \in redeemed : TRUE).result
                       [] OTHER -> None
<1>1. /\ tab \in TabStates /\ tab[t] \in TabPages /\ saved \in SavedStates
      /\ receipts \subseteq [nonce : Nonces, site : Sites, result : Successes]
  BY DEF LoginInv, LoginTypes, TabStates
<1>2. NonceIsOwn(t) /\ MarkerIsTrue(t) /\ ResultIsTrue(t)
  BY DEF LoginInv, TabsAreRight
<1>3. /\ tab[t].at = "app" /\ tab[t].pc = "loading" /\ receipts' = receipts \ redeemed
      /\ tab' = [tab EXCEPT ![t].pc = "restoring", ![t].result = result]
      /\ UNCHANGED <<saved, sessions, approved, asks, used, chosen, answers>>
  BY DEF Connect, Spent
<1>4. redeemed = {} \/ redeemed = {r \in receipts : r.nonce = tab[t].nonce}
  <2>1. ASSUME NEW r \in receipts, r.nonce = tab[t].nonce PROVE r.site = Site[t]
    <3>1. r.nonce \in Nonces /\ r.site = Site[asks[r.nonce]]
      BY <1>1 DEF LoginInv, ReceiptsAreOwn
    <3>2. r.nonce \in AskedBy(t)
      BY <1>2, <2>1, <3>1, NonceFacts DEF NonceIsOwn
    <3>3. QED
      BY <3>1, <3>2 DEF AskedBy
  <2>2. QED
    BY <2>1 DEF Redeemed
<1>5. \/ tab[t].canceled /\ result = Failure
      \/ ~tab[t].canceled /\ \E r \in redeemed : result = r.result
      \/ redeemed = {} /\ result = None
  OBVIOUS
<1> HIDE DEF redeemed, result
<1>6. result \in Outcomes \cup {None}
  BY <1>1, <1>4, <1>5 DEF Outcomes
<1>7. /\ tab' \in TabStates /\ \A u \in Tabs \ {t} : tab'[u] = tab[u]
      /\ tab'[t].at = "app" /\ tab'[t].pc = "restoring" /\ tab'[t].nonce = tab[t].nonce
      /\ tab'[t].marker = tab[t].marker /\ tab'[t].canceled = tab[t].canceled
      /\ tab'[t].result = result
  BY <1>1, <1>3, <1>6 DEF TabStates, TabPages
<1>8. GivenUp' = GivenUp /\ Known' = Known /\ \A u \in Tabs : AskedBy(u)' = AskedBy(u)
  BY <1>3 DEF GivenUp, Known, AskedBy
<1>9. result # None => tab[t].nonce \in Nonces
  BY <1>1, <1>2, <1>4, <1>5 DEF MarkerIsTrue, GivenUp
<1>10. NonceIsOwn(t)'
  BY <1>2, <1>3, <1>7, <1>8, <1>9, NonceFacts DEF NonceIsOwn
<1>11. MarkerIsTrue(t)'
  BY <1>2, <1>3, <1>7, <1>8 DEF MarkerIsTrue
<1>12. ResultIsTrue(t)'
  <2>1. ASSUME result = Failure, result # None PROVE tab[t].nonce \in GivenUp
    <3>1. Failure \notin Successes
      BY DEF Failure, Successes, Success
    <3>2. tab[t].canceled
      BY <1>1, <1>4, <1>5, <2>1, <3>1
    <3>3. QED
      BY <1>2, <3>2 DEF MarkerIsTrue
  <2>2. ASSUME NEW a \in Actors, result = Success(a), result # None PROVE a \in Known
    <3>1. Failure # Success(a)
      BY DEF Failure, Success
    <3>2. QED
      BY <1>4, <1>5, <2>2, <3>1 DEF LoginInv, ReceiptsAreOwn
  <2>3. QED
    BY <1>7, <1>8, <2>1, <2>2 DEF ResultIsTrue
<1>13. TabsAreRight'
  BY <1>3, <1>7, <1>8, <1>10, <1>11, <1>12, OneTabSteps
<1>14. ReceiptsAreOwn' /\ \A n \in Nonces, a \in Actors : HasReceipt(n, a)' => HasReceipt(n, a)
  BY <1>3, <1>8, ReceiptsKeep
<1>15. \A n \in Nonces, a \in Actors :
         One(HasReceipt(n, a)') + One(InPage(n, a)') <= One(HasReceipt(n, a)) + One(InPage(n, a))
  <2> SUFFICES ASSUME NEW n \in Nonces, NEW a \in Actors
               PROVE  One(HasReceipt(n, a)') + One(InPage(n, a)')
                        <= One(HasReceipt(n, a)) + One(InPage(n, a))
    OBVIOUS
  <2>1. CASE InPage(n, a)' => InPage(n, a)
    BY <1>14, <2>1 DEF One
  <2>2. CASE InPage(n, a)' /\ ~InPage(n, a)
    <3>1. result # None /\ tab[t].nonce = n /\ result = Success(a)
      BY <1>7, <2>2 DEF InPage
    <3>2. PICK r \in redeemed : r.result = Success(a)
      <4>1. Failure # Success(a)
        BY DEF Failure, Success
      <4>2. QED
        BY <1>5, <3>1, <4>1
    <3>3. HasReceipt(n, a)
      BY <1>4, <3>1, <3>2 DEF HasReceipt
    <3>4. ~HasReceipt(n, a)'
      BY <1>3, <1>4, <3>1, <3>2 DEF HasReceipt
    <3>5. QED
      BY <2>2, <3>3, <3>4 DEF One
  <2>3. QED
    BY <2>1, <2>2
<1>16. SuccessesAreSpent' /\ FailuresFit' /\ ApprovalsWereAnswered'
  <2>1. used.logouts \in Nat
    BY DEF LoginInv, LoginTypes
  <2>2. QED
    BY <1>3, <1>15, <2>1, QuietStep
<1>17. LoginTypes'
  BY <1>3, <1>7 DEF LoginInv, LoginTypes
<1>18. QED
  BY <1>13, <1>14, <1>16, <1>17 DEF LoginInv

\* One outcome, or answer, is added.
HasOneMore(f, g, m, x) ==
  /\ g \in [Nonces -> Seq(Outcomes)]
  /\ \A n \in Nonces, y \in Outcomes :
       /\ Occurrences(f[n], y) \in Nat /\ Occurrences(g[n], y) \in Nat
       /\ Occurrences(g[n], y) = Occurrences(f[n], y) + One(n = m /\ x = y)
  /\ \A n \in Nonces : \A k \in DOMAIN f[n] : k \in DOMAIN g[n] /\ g[n][k] = f[n][k]
  /\ \A n \in Nonces : \A k \in DOMAIN g[n] :
       (k \in DOMAIN f[n] /\ g[n][k] = f[n][k]) \/ (n = m /\ g[n][k] = x)
  /\ \E k \in DOMAIN g[m] : g[m][k] = x

LEMMA OneMore ==
  ASSUME NEW f \in [Nonces -> Seq(Outcomes)], NEW m \in Nonces, NEW x \in Outcomes, NEW g,
         g = [f EXCEPT ![m] = Append(@, x)]
  PROVE  HasOneMore(f, g, m, x)
<1>1. g[m] = Append(f[m], x) /\ \A n \in Nonces \ {m} : g[n] = f[n]
  OBVIOUS
<1>2. \A n \in Nonces : f[n] \in Seq(Outcomes)
  OBVIOUS
<1>3. g \in [Nonces -> Seq(Outcomes)]
  BY <1>2
<1>4. ASSUME NEW n \in Nonces, NEW y \in Outcomes
      PROVE  /\ Occurrences(f[n], y) \in Nat /\ Occurrences(g[n], y) \in Nat
             /\ Occurrences(g[n], y) = Occurrences(f[n], y) + One(n = m /\ x = y)
  <2>1. /\ Occurrences(f[n], y) \in Nat
        /\ Occurrences(Append(f[n], x), y) = Occurrences(f[n], y) + One(x = y)
    BY <1>2, Appended
  <2>2. CASE n = m
    BY <1>1, <2>1, <2>2 DEF One
  <2>3. CASE n # m
    BY <1>1, <2>1, <2>3 DEF One
  <2>4. QED
    BY <2>2, <2>3
<1>5. \A n \in Nonces : \A k \in DOMAIN f[n] : k \in DOMAIN g[n] /\ g[n][k] = f[n][k]
  BY <1>1, <1>2
<1>6. \A n \in Nonces : \A k \in DOMAIN g[n] :
        (k \in DOMAIN f[n] /\ g[n][k] = f[n][k]) \/ (n = m /\ g[n][k] = x)
  BY <1>1, <1>2
<1>7. \E k \in DOMAIN g[m] : g[m][k] = x
  BY <1>1, <1>2
<1>8. QED
  BY <1>3, <1>4, <1>5, <1>6, <1>7 DEF HasOneMore

LEMMA OutcomeIsOwn ==
  ASSUME NEW a \in Actors
  PROVE  /\ Success(a) \in Outcomes /\ Failure \in Outcomes /\ Success(a) # Failure
         /\ \A b : Success(b) = Success(a) => b = a
BY DEF Outcomes, Successes, Success, Failure

\* The site of a tab is given an account by the answer to a login of this tab.
IsGiven(t, n, a) ==
  /\ approved' \subseteq approved \cup {<<Site[t], a>>}
  /\ n \in DOMAIN asks' /\ asks'[n] = t
  /\ \E k \in DOMAIN answers'[n] : answers'[n][k] = Success(a)

LEMMA ApprovalsKeep ==
  ASSUME LoginInv,
         asks' = asks \/ \E u \in Tabs : asks' = Append(asks, u),
         \A m \in Nonces : \A k \in DOMAIN answers[m] :
           k \in DOMAIN answers'[m] /\ answers'[m][k] = answers[m][k],
         approved' \subseteq approved \/ \E t \in Tabs, n \in Nonces, a \in Actors : IsGiven(t, n, a)
  PROVE  ApprovalsWereAnswered'
<1>1. /\ DOMAIN asks \subseteq DOMAIN asks' /\ \A m \in DOMAIN asks : asks'[m] = asks[m]
      /\ DOMAIN asks \subseteq Nonces
  <2>1. asks \in Seq(Tabs) /\ Len(asks) <= MaxAsks
    BY DEF LoginInv, LoginTypes
  <2>2. QED
    BY <2>1, NonceFacts DEF Nonces
<1>2. ASSUME NEW g \in approved
      PROVE  \E m \in DOMAIN asks' : /\ Site[asks'[m]] = g[1]
                                     /\ \E k \in DOMAIN answers'[m] : answers'[m][k] = Success(g[2])
  <2>1. PICK m \in DOMAIN asks : /\ Site[asks[m]] = g[1]
                                 /\ \E k \in DOMAIN answers[m] : answers[m][k] = Success(g[2])
    BY DEF LoginInv, ApprovalsWereAnswered
  <2>2. QED
    BY <1>1, <2>1
<1>3. CASE approved' \subseteq approved
  BY <1>2, <1>3 DEF ApprovalsWereAnswered
<1>4. CASE ~(approved' \subseteq approved)
  BY <1>2, <1>4 DEF ApprovalsWereAnswered, IsGiven
<1>5. QED
  BY <1>3, <1>4

\* The page of the app tells it what came of its request.
LEMMA RestoredStep ==
  ASSUME LoginInv, NEW t \in Tabs, Restored(t)
  PROVE  LoginInv'
<1> DEFINE r == tab[t].result
           n == tab[t].nonce
<1>1. /\ tab \in TabStates /\ tab[t] \in TabPages /\ saved \in SavedStates
      /\ answers \in [Nonces -> Seq(Outcomes)] /\ chosen \in [Nonces -> Seq(Outcomes)]
      /\ sessions \subseteq Actors /\ used \in [detours : Nat, logouts : Nat]
  BY DEF LoginInv, LoginTypes, TabStates
<1>2. NonceIsOwn(t) /\ MarkerIsTrue(t) /\ ResultIsTrue(t)
  BY DEF LoginInv, TabsAreRight
<1>3. /\ tab[t].at = "app"
      /\ tab' = [tab EXCEPT ![t].pc = "answered", ![t].result = None]
      /\ UNCHANGED <<saved, receipts, sessions, asks, used, chosen>>
  BY DEF Restored
<1>4. /\ tab' \in TabStates /\ \A u \in Tabs \ {t} : tab'[u] = tab[u]
      /\ tab'[t].at = "app" /\ tab'[t].nonce = n /\ tab'[t].result = None
      /\ tab'[t].marker = tab[t].marker /\ tab'[t].canceled = tab[t].canceled
  BY <1>1, <1>3 DEF TabStates, TabPages
<1>5. GivenUp' = GivenUp /\ Known' = Known /\ \A u \in Tabs : AskedBy(u)' = AskedBy(u)
  BY <1>3 DEF GivenUp, Known, AskedBy
<1>6. NonceIsOwn(t)' /\ MarkerIsTrue(t)' /\ ResultIsTrue(t)'
  <2>1. NonceIsOwn(t)'
    BY <1>2, <1>3, <1>4, <1>5 DEF NonceIsOwn
  <2>2. MarkerIsTrue(t)' /\ ResultIsTrue(t)'
    BY <1>2, <1>3, <1>4, <1>5 DEF MarkerIsTrue, ResultIsTrue
  <2>3. QED
    BY <2>1, <2>2
<1>7. CASE r = None
  <2>1. UNCHANGED <<approved, answers>>
    BY <1>7 DEF Restored
  <2>2. QED
    BY <1>1, <1>3, <1>4, <1>5, <1>6, <2>1, QuietTabStep DEF LoginInv, LoginTypes
<1>8. CASE r # None
  <2>1. n \in AskedBy(t) /\ n \in Nonces
    BY <1>1, <1>2, <1>3, <1>8 DEF NonceIsOwn, TabPages, NonceOrNone
  <2>0. CASE UNCHANGED <<approved, answers>>
    BY <1>1, <1>3, <1>4, <1>5, <1>6, <2>0, QuietTabStep DEF LoginInv, LoginTypes
  <2> SUFFICES ASSUME ~UNCHANGED <<approved, answers>> PROVE LoginInv'
    BY <2>0
  <2>2. PICK x \in Outcomes :
          /\ answers' = [answers EXCEPT ![n] = Append(@, x)]
          /\ \/ x = r /\ \E a \in Actors : x = Success(a) /\ approved' = approved \cup {<<Site[t], a>>}
             \/ /\ x = Failure /\ approved' = approved
                /\ r = Failure \/ \E a \in Actors : r = Success(a) /\ a \notin sessions
    <3>1. r \in Outcomes
      BY <1>1, <1>8 DEF TabPages
    <3>2. CASE r = Failure
      <4>1. answers' = [answers EXCEPT ![n] = Append(@, Failure)] /\ approved' = approved
        BY <1>8, <3>2 DEF Restored, Answered, Failure
      <4>2. QED
        BY <3>1, <3>2, <4>1
    <3>3. ASSUME NEW a \in Actors, r = Success(a)
          PROVE  \/ /\ a \in sessions /\ answers' = [answers EXCEPT ![n] = Append(@, r)]
                    /\ approved' = approved \cup {<<Site[t], a>>}
                 \/ /\ a \notin sessions /\ answers' = [answers EXCEPT ![n] = Append(@, Failure)]
                    /\ approved' = approved
      <4>1. r.ok = TRUE /\ r.actor = a
        BY <3>3 DEF Success
      <4>2. QED
        BY <1>8, <4>1 DEF Restored, Answered
    <3>4. QED
      BY <3>1, <3>2, <3>3, OutcomeIsOwn DEF Outcomes, Successes
  <2>3. /\ answers' \in [Nonces -> Seq(Outcomes)]
        /\ \A m \in Nonces, y \in Outcomes :
             /\ Occurrences(answers[m], y) \in Nat /\ Occurrences(answers'[m], y) \in Nat
             /\ Occurrences(answers'[m], y) = Occurrences(answers[m], y) + One(m = n /\ x = y)
        /\ \A m \in Nonces : \A k \in DOMAIN answers[m] :
             k \in DOMAIN answers'[m] /\ answers'[m][k] = answers[m][k]
        /\ \A m \in Nonces : \A k \in DOMAIN answers'[m] :
             (k \in DOMAIN answers[m] /\ answers'[m][k] = answers[m][k])
             \/ (m = n /\ answers'[m][k] = x)
        /\ \E k \in DOMAIN answers'[n] : answers'[n][k] = x
    <3>1. HasOneMore(answers, answers', n, x)
      BY <1>1, <2>1, <2>2, OneMore
    <3>2. QED
      BY <3>1 DEF HasOneMore
  <2>4. \A m \in Nonces, a \in Actors : InPage(m, a)' => InPage(m, a) /\ ~(m = n /\ r = Success(a))
    <3> SUFFICES ASSUME NEW m \in Nonces, NEW a \in Actors, InPage(m, a)'
                 PROVE  InPage(m, a) /\ ~(m = n /\ r = Success(a))
      OBVIOUS
    <3>1. PICK u \in Tabs : /\ tab'[u].at = "app" /\ tab'[u].result # None
                            /\ tab'[u].nonce = m /\ tab'[u].result = Success(a)
      BY DEF InPage
    <3>2. u # t /\ tab'[u] = tab[u]
      BY <1>4, <3>1
    <3>3. InPage(m, a)
      BY <3>1, <3>2 DEF InPage
    <3>4. m # n
      <4>1. m \in AskedBy(u)
        BY <3>1, <3>2, NonceFacts DEF LoginInv, TabsAreRight, NonceIsOwn
      <4>2. QED
        BY <2>1, <3>2, <4>1 DEF AskedBy
    <3>5. QED
      BY <3>3, <3>4
  <2>5. \A a \in Actors : r = Success(a) => InPage(n, a)
    BY <1>3, <1>8 DEF InPage
  <2>6. SuccessesAreSpent'
    <3> SUFFICES ASSUME NEW m \in Nonces, NEW a \in Actors
                 PROVE  Occurrences(answers'[m], Success(a)) + One(HasReceipt(m, a)') + One(InPage(m, a)')
                          <= Occurrences(chosen[m], Success(a))
      BY <1>3 DEF SuccessesAreSpent
    <3>1. HasReceipt(m, a)' = HasReceipt(m, a)
      BY <1>3 DEF HasReceipt
    <3>2. Occurrences(answers[m], Success(a)) + One(HasReceipt(m, a)) + One(InPage(m, a))
            <= Occurrences(chosen[m], Success(a))
      BY DEF LoginInv, SuccessesAreSpent
    <3>3. /\ Occurrences(answers[m], Success(a)) \in Nat
          /\ Occurrences(answers'[m], Success(a))
               = Occurrences(answers[m], Success(a)) + One(m = n /\ x = Success(a))
          /\ Occurrences(chosen[m], Success(a)) \in Nat
      <4>1. chosen[m] \in Seq(Outcomes) /\ Success(a) \in Outcomes
        BY <1>1, OutcomeIsOwn
      <4>2. Occurrences(chosen[m], Success(a)) \in Nat
        BY <4>1, Appended
      <4>3. QED
        BY <2>3, <4>1, <4>2
    <3>4. One(m = n /\ x = Success(a)) + One(InPage(m, a)') <= One(InPage(m, a))
      BY <2>2, <2>4, <2>5, OutcomeIsOwn DEF One
    <3>5. One(HasReceipt(m, a)) \in Nat /\ One(InPage(m, a)) \in Nat /\ One(InPage(m, a)') \in Nat
          /\ One(m = n /\ x = Success(a)) \in Nat
      BY DEF One
    <3>6. QED
      BY <3>1, <3>2, <3>3, <3>4, <3>5
  <2>7. FailuresFit'
    <3> SUFFICES ASSUME NEW m \in Nonces, NEW k \in DOMAIN answers'[m], answers'[m][k] = Failure
                 PROVE  m \in GivenUp \/ (chosen[m] # <<>> /\ used.logouts > 0)
      BY <1>3, <1>5 DEF FailuresFit
    <3>1. CASE k \in DOMAIN answers[m] /\ answers'[m][k] = answers[m][k]
      BY <3>1 DEF LoginInv, FailuresFit
    <3>2. CASE m = n /\ x = Failure
      <4>1. CASE r = Failure
        BY <1>2, <1>3, <1>8, <3>2, <4>1 DEF ResultIsTrue
      <4>2. CASE \E a \in Actors : r = Success(a) /\ a \notin sessions
        <5>1. PICK a \in Actors : r = Success(a) /\ a \notin sessions
          BY <4>2
        <5>2. used.logouts > 0
          BY <1>2, <1>8, <5>1 DEF ResultIsTrue, Known
        <5>3. /\ Occurrences(answers[n], Success(a)) \in Nat
              /\ One(HasReceipt(n, a)) \in Nat /\ One(InPage(n, a)) = 1
          BY <2>1, <2>3, <2>5, <5>1, OutcomeIsOwn DEF One
        <5>4. Occurrences(chosen[n], Success(a)) > 0
          <6>1. Occurrences(answers[n], Success(a)) + One(HasReceipt(n, a)) + One(InPage(n, a))
                  <= Occurrences(chosen[n], Success(a))
            BY <2>1 DEF LoginInv, SuccessesAreSpent
          <6>2. Occurrences(chosen[n], Success(a)) \in Nat
            <7>1. chosen[n] \in Seq(Outcomes)
              BY <1>1, <2>1
            <7>2. QED
              BY <7>1, Appended, OutcomeIsOwn
          <6>3. QED
            BY <5>3, <6>1, <6>2
        <5>5. \E j \in DOMAIN chosen[n] : chosen[n][j] = Success(a)
          <6>1. chosen[n] \in Seq(Outcomes)
            BY <1>1, <2>1
          <6>2. QED
            BY <5>4, <6>1, Appended, OutcomeIsOwn
        <5>6. QED
          BY <3>2, <5>2, <5>5
      <4>3. QED
        BY <2>2, <3>2, <4>1, <4>2, OutcomeIsOwn
    <3>3. QED
      BY <2>3, <3>1, <3>2
  <2>8. ApprovalsWereAnswered'
    <3>1. n \in DOMAIN asks' /\ asks'[n] = t
      BY <1>3, <2>1 DEF AskedBy
    <3>2. CASE approved' = approved
      BY <1>3, <2>1, <2>3, <3>2, ApprovalsKeep
    <3>3. ASSUME NEW a \in Actors, x = Success(a), approved' = approved \cup {<<Site[t], a>>}
          PROVE  ApprovalsWereAnswered'
      <4>1. \E k \in DOMAIN answers'[n] : answers'[n][k] = Success(a)
        BY <2>3, <3>3
      <4>2. QED
        <5>1. IsGiven(t, n, a) /\ asks' = asks
          BY <1>3, <3>1, <3>3, <4>1 DEF IsGiven
        <5>2. QED
          BY <2>1, <2>3, <5>1, ApprovalsKeep
    <3>4. QED
      BY <2>2, <3>2, <3>3
  <2>9. TabsAreRight' /\ ReceiptsAreOwn'
    BY <1>3, <1>4, <1>5, <1>6, OneTabSteps, ReceiptsKeep
  <2>10. LoginTypes'
    BY <1>3, <1>4, <2>3 DEF LoginInv, LoginTypes
  <2>11. QED
    BY <2>6, <2>7, <2>8, <2>9, <2>10 DEF LoginInv
<1>9. QED
  BY <1>7, <1>8

LEMMA MoreIsChosen ==
  ASSUME LoginInv, NEW n, NEW x, HasOneMore(chosen, chosen', n, x)
  PROVE  GivenUp \subseteq GivenUp' /\ \A m \in Nonces : chosen[m] # <<>> => chosen'[m] # <<>>
<1>1. chosen \in [Nonces -> Seq(Outcomes)]
  BY DEF LoginInv, LoginTypes
<1>2. \A m \in Nonces : \A k \in DOMAIN chosen[m] :
        k \in DOMAIN chosen'[m] /\ chosen'[m][k] = chosen[m][k]
  BY DEF HasOneMore
<1>3. ASSUME NEW m \in Nonces, chosen[m] # <<>> PROVE chosen'[m] # <<>>
  <2>1. chosen[m] \in Seq(Outcomes)
    BY <1>1
  <2>2. 1 \in DOMAIN chosen[m]
    BY <1>3, <2>1
  <2>3. 1 \in DOMAIN chosen'[m]
    BY <1>2, <2>2
  <2>4. DOMAIN <<>> = {}
    OBVIOUS
  <2>5. QED
    BY <2>3, <2>4
<1>4. QED
  BY <1>2, <1>3 DEF GivenUp

\* A login that the guard answers with the accounts it has.
LEMMA LoginHereStep ==
  ASSUME LoginInv, NEW t \in Tabs, NEW a \in Actors \cup {None}, LoginHere(t, a)
  PROVE  LoginInv'
<1> DEFINE n == Len(asks) + 1
<1>1. /\ answers \in [Nonces -> Seq(Outcomes)] /\ chosen \in [Nonces -> Seq(Outcomes)]
      /\ asks \in Seq(Tabs) /\ Len(asks) <= MaxAsks /\ sessions \subseteq Actors
  BY DEF LoginInv, LoginTypes
<1>2. /\ Len(asks) < MaxAsks /\ asks' = Append(asks, t)
      /\ UNCHANGED <<tab, saved, receipts, sessions, used>>
  BY DEF LoginHere
<1>3. n \in Nonces /\ n \in DOMAIN asks' /\ asks'[n] = t
  BY <1>1, <1>2, NonceFacts DEF Nonces
<1>4. PICK x \in Outcomes :
        /\ chosen' = [chosen EXCEPT ![n] = Append(@, x)]
        /\ answers' = [answers EXCEPT ![n] = Append(@, x)]
        /\ \/ x = Failure /\ approved' = approved
           \/ a \in Actors /\ x = Success(a) /\ approved' = approved \cup {<<Site[t], a>>}
  <2>1. CASE a = None
    BY <2>1 DEF LoginHere, Outcome, Answered, Outcomes
  <2>2. CASE a # None
    BY <2>2, OutcomeIsOwn DEF LoginHere, Outcome, Answered
  <2>3. QED
    BY <2>1, <2>2
<1>5. HasOneMore(chosen, chosen', n, x) /\ HasOneMore(answers, answers', n, x)
  BY <1>1, <1>3, <1>4, OneMore
<1> HIDE DEF n
<1>6. GivenUp \subseteq GivenUp' /\ Known' = Known
  BY <1>2, <1>5, MoreIsChosen DEF Known
<1>7. /\ ReceiptsAreOwn' /\ \A u \in Tabs : AskedBy(u) \subseteq AskedBy(u)'
  BY <1>2, <1>6, ReceiptsKeep
<1>8. TabsAreRight'
  <2> SUFFICES ASSUME NEW u \in Tabs PROVE NonceIsOwn(u)' /\ MarkerIsTrue(u)' /\ ResultIsTrue(u)'
    BY DEF TabsAreRight
  <2>1. NonceIsOwn(u) /\ MarkerIsTrue(u) /\ ResultIsTrue(u)
    BY DEF LoginInv, TabsAreRight
  <2>2. NonceIsOwn(u)'
    BY <1>2, <1>7, <2>1 DEF NonceIsOwn
  <2>3. MarkerIsTrue(u)'
    BY <1>2, <1>6, <2>1 DEF MarkerIsTrue
  <2>4. ResultIsTrue(u)'
    BY <1>2, <1>6, <2>1 DEF ResultIsTrue
  <2>5. QED
    BY <2>2, <2>3, <2>4
<1>9. SuccessesAreSpent'
  <2> SUFFICES ASSUME NEW m \in Nonces, NEW b \in Actors
               PROVE  Occurrences(answers'[m], Success(b)) + One(HasReceipt(m, b)') + One(InPage(m, b)')
                        <= Occurrences(chosen'[m], Success(b))
    BY DEF SuccessesAreSpent
  <2>1. HasReceipt(m, b)' = HasReceipt(m, b) /\ InPage(m, b)' = InPage(m, b)
    BY <1>2 DEF HasReceipt, InPage
  <2>2. Occurrences(answers[m], Success(b)) + One(HasReceipt(m, b)) + One(InPage(m, b))
          <= Occurrences(chosen[m], Success(b))
    BY DEF LoginInv, SuccessesAreSpent
  <2>3. Success(b) \in Outcomes
    BY OutcomeIsOwn
  <2>4. /\ Occurrences(answers[m], Success(b)) \in Nat /\ Occurrences(chosen[m], Success(b)) \in Nat
        /\ Occurrences(answers'[m], Success(b))
             = Occurrences(answers[m], Success(b)) + One(m = n /\ x = Success(b))
        /\ Occurrences(chosen'[m], Success(b))
             = Occurrences(chosen[m], Success(b)) + One(m = n /\ x = Success(b))
    BY <1>5, <2>3 DEF HasOneMore
  <2>5. /\ One(HasReceipt(m, b)) \in Nat /\ One(InPage(m, b)) \in Nat
        /\ One(m = n /\ x = Success(b)) \in Nat
    BY DEF One
  <2>6. QED
    BY <2>1, <2>2, <2>4, <2>5
<1>10. FailuresFit'
  <2> SUFFICES ASSUME NEW m \in Nonces, NEW k \in DOMAIN answers'[m], answers'[m][k] = Failure
               PROVE  m \in GivenUp' \/ (chosen'[m] # <<>> /\ used.logouts > 0)
    BY <1>2 DEF FailuresFit
  <2>1. CASE k \in DOMAIN answers[m] /\ answers'[m][k] = answers[m][k]
    <3>1. chosen[m] # <<>> => chosen'[m] # <<>>
      BY <1>5, MoreIsChosen
    <3>2. QED
      BY <1>6, <2>1, <3>1 DEF LoginInv, FailuresFit
  <2>2. CASE m = n /\ x = Failure
    BY <1>3, <1>5, <2>2 DEF HasOneMore, GivenUp
  <2>3. QED
    BY <1>5, <2>1, <2>2 DEF HasOneMore
<1>11. ApprovalsWereAnswered'
  <2>1. \A m \in Nonces : \A k \in DOMAIN answers[m] :
          k \in DOMAIN answers'[m] /\ answers'[m][k] = answers[m][k]
    BY <1>5 DEF HasOneMore
  <2>2. CASE approved' = approved
    BY <1>2, <2>1, <2>2, ApprovalsKeep
  <2>3. CASE a \in Actors /\ x = Success(a) /\ approved' = approved \cup {<<Site[t], a>>}
    <3>1. \E k \in DOMAIN answers'[n] : answers'[n][k] = Success(a)
      BY <1>5, <2>3 DEF HasOneMore
    <3>2. IsGiven(t, n, a)
      BY <1>3, <2>3, <3>1 DEF IsGiven
    <3>3. QED
      BY <1>2, <1>3, <2>1, <2>3, <3>2, ApprovalsKeep
  <2>4. QED
    BY <1>4, <2>2, <2>3
<1>12. LoginTypes'
  <2>1. asks' \in Seq(Tabs) /\ Len(asks') <= MaxAsks
    BY <1>1, <1>2, NonceFacts
  <2>2. QED
    BY <1>2, <1>5, <2>1 DEF LoginInv, LoginTypes, HasOneMore
<1>13. QED
  BY <1>7, <1>8, <1>9, <1>10, <1>11, <1>12 DEF LoginInv

\* The login fails, or is canceled: back to the app, with a marker.
LEMMA FailStep ==
  ASSUME LoginInv, NEW t \in Tabs, CancelChoice(t) \/ SignInFailed(t)
  PROVE  LoginInv'
<1> DEFINE n == tab[t].nonce
<1>1. /\ tab[t].at = "guard" /\ LoadApp(t, n)
      /\ chosen' = [chosen EXCEPT ![n] = Append(@, Failure)]
      /\ UNCHANGED <<receipts, approved, sessions, asks, used, answers>>
  BY DEF CancelChoice, SignInFailed, AtGuard, FinishFailed, Outcome, Return
<1>2. n \in Nonces
  BY <1>1 DEF LoginInv, LoginTypes, TabStates, TabPages, NonceOrNone, TabsAreRight, NonceIsOwn
<1>3. HasOneMore(chosen, chosen', n, Failure)
  BY <1>1, <1>2, OneMore DEF LoginInv, LoginTypes, Outcomes
<1> HIDE DEF n
<1>4. GivenUp \subseteq GivenUp' /\ n \in GivenUp' /\ Known' = Known
  BY <1>1, <1>2, <1>3, MoreIsChosen DEF HasOneMore, GivenUp, Known
<1>5. /\ TabsAreRight' /\ tab' \in TabStates /\ saved' \in SavedStates
      /\ \A m \in Nonces, a \in Actors : InPage(m, a)' => InPage(m, a)
  BY <1>1, <1>2, <1>4, LoadKeeps DEF NonceOrNone
<1>6. ReceiptsAreOwn'
  BY <1>1, <1>4, ReceiptsKeep
<1>7. SuccessesAreSpent'
  <2> SUFFICES ASSUME NEW m \in Nonces, NEW a \in Actors
               PROVE  Occurrences(answers[m], Success(a)) + One(HasReceipt(m, a)') + One(InPage(m, a)')
                        <= Occurrences(chosen'[m], Success(a))
    BY <1>1 DEF SuccessesAreSpent
  <2>1. HasReceipt(m, a)' = HasReceipt(m, a) /\ (InPage(m, a)' => InPage(m, a))
    BY <1>1, <1>5 DEF HasReceipt
  <2>2. Occurrences(answers[m], Success(a)) + One(HasReceipt(m, a)) + One(InPage(m, a))
          <= Occurrences(chosen[m], Success(a))
    BY DEF LoginInv, SuccessesAreSpent
  <2>3. Success(a) \in Outcomes /\ Success(a) # Failure
    BY OutcomeIsOwn
  <2>4. /\ Occurrences(chosen[m], Success(a)) \in Nat
        /\ Occurrences(chosen'[m], Success(a)) = Occurrences(chosen[m], Success(a))
    BY <1>3, <2>3 DEF HasOneMore, One
  <2>5. Occurrences(answers[m], Success(a)) \in Nat
    <3>1. answers[m] \in Seq(Outcomes)
      BY DEF LoginInv, LoginTypes
    <3>2. QED
      BY <2>3, <3>1, Appended
  <2>6. QED
    BY <2>1, <2>2, <2>4, <2>5 DEF One
<1>8. FailuresFit' /\ ApprovalsWereAnswered'
  BY <1>1, <1>3, <1>4, MoreIsChosen DEF LoginInv, FailuresFit, ApprovalsWereAnswered
<1>9. LoginTypes'
  BY <1>1, <1>3, <1>5 DEF LoginInv, LoginTypes, HasOneMore
<1>10. QED
  BY <1>5, <1>6, <1>7, <1>8, <1>9 DEF LoginInv

\* The login succeeds: back to the app, with a receipt.
LEMMA SucceedStep ==
  ASSUME LoginInv, NEW t \in Tabs,
         \/ \E a \in Actors : Choose(t, a)
         \/ \E shared \in BOOLEAN : Finish(t, shared)
  PROVE  LoginInv'
<1> DEFINE n == tab[t].nonce
<1>1. NonceIsOwn(t) /\ MarkerIsTrue(t) /\ ResultIsTrue(t)
  BY DEF LoginInv, TabsAreRight
<1>2. PICK a \in Known :
        /\ tab[t].at = "guard" /\ LoadApp(t, tab[t].marker)
        /\ chosen' = [chosen EXCEPT ![n] = Append(@, Success(a))]
        /\ receipts' = receipts \cup {[nonce |-> n, site |-> Site[t], result |-> Success(a)]}
        /\ approved' \subseteq approved /\ UNCHANGED <<sessions, asks, used, answers>>
  <2>1. ASSUME NEW a \in Actors, Choose(t, a) PROVE a \in Known /\ FinishOk(t, a, {})
    BY <2>1 DEF Choose, Known
  <2>2. ASSUME NEW shared \in BOOLEAN, Finish(t, shared)
        PROVE  \E a \in Known, cleared \in {{}, Cleared(tab[t].result.actor)} : FinishOk(t, a, cleared)
    <3>1. tab[t].at = "guard" /\ tab[t].pc = "back"
      BY <2>2 DEF Finish, AtGuard
    <3>2. PICK a \in Known : tab[t].result = Success(a)
      BY <1>1, <3>1 DEF ResultIsTrue
    <3>3. tab[t].result.actor = a
      BY <3>2 DEF Success
    <3>4. QED
      BY <2>2, <3>3 DEF Finish
  <2>3. PICK a \in Known : \E cleared \in {{}, Cleared(tab[t].result.actor)} : FinishOk(t, a, cleared)
    BY <2>1, <2>2
  <2>4. tab[t].at = "guard" /\ UNCHANGED <<sessions, asks, used, answers>>
    BY DEF Choose, Finish, AtGuard
  <2>5. QED
    BY <2>3, <2>4 DEF FinishOk, Outcome
<1>3. a \in Actors /\ Success(a) \in Outcomes /\ Success(a) \in Successes
  BY DEF Known, Outcomes, Successes
<1>4. n \in Nonces /\ n \in AskedBy(t)
  BY <1>1, <1>2 DEF LoginInv, LoginTypes, TabStates, TabPages, NonceOrNone, NonceIsOwn
<1>5. HasOneMore(chosen, chosen', n, Success(a))
  BY <1>2, <1>3, <1>4, OneMore DEF LoginInv, LoginTypes
<1> HIDE DEF n
<1>6. GivenUp \subseteq GivenUp' /\ Known' = Known
  BY <1>2, <1>5, MoreIsChosen DEF Known
<1>7. tab[t].marker \in NonceOrNone /\ tab[t].marker \in GivenUp \cup {None}
  BY <1>1 DEF MarkerIsTrue, LoginInv, LoginTypes, TabStates, TabPages
<1>8. /\ TabsAreRight' /\ tab' \in TabStates /\ saved' \in SavedStates
      /\ \A m \in Nonces, b \in Actors : InPage(m, b)' => InPage(m, b)
  BY <1>2, <1>6, <1>7, LoadKeeps
<1>9. ReceiptsAreOwn'
  <2>1. n \in DOMAIN asks /\ asks[n] = t
    BY <1>4 DEF AskedBy
  <2>2. \A b \in Actors : Success(a) = Success(b) => b \in Known
    BY OutcomeIsOwn
  <2>3. QED
    BY <1>2, <1>6, <2>1, <2>2 DEF LoginInv, ReceiptsAreOwn
<1>10. SuccessesAreSpent'
  <2> SUFFICES ASSUME NEW m \in Nonces, NEW b \in Actors
               PROVE  Occurrences(answers[m], Success(b)) + One(HasReceipt(m, b)') + One(InPage(m, b)')
                        <= Occurrences(chosen'[m], Success(b))
    BY <1>2 DEF SuccessesAreSpent
  <2>1. HasReceipt(m, b)' => HasReceipt(m, b) \/ (m = n /\ Success(a) = Success(b))
    BY <1>2 DEF HasReceipt
  <2>2. Occurrences(answers[m], Success(b)) + One(HasReceipt(m, b)) + One(InPage(m, b))
          <= Occurrences(chosen[m], Success(b))
    BY DEF LoginInv, SuccessesAreSpent
  <2>3. Success(b) \in Outcomes
    BY OutcomeIsOwn
  <2>4. /\ Occurrences(chosen[m], Success(b)) \in Nat
        /\ Occurrences(chosen'[m], Success(b))
             = Occurrences(chosen[m], Success(b)) + One(m = n /\ Success(a) = Success(b))
    BY <1>5, <2>3 DEF HasOneMore
  <2>5. Occurrences(answers[m], Success(b)) \in Nat
    <3>1. answers[m] \in Seq(Outcomes)
      BY DEF LoginInv, LoginTypes
    <3>2. QED
      BY <2>3, <3>1, Appended
  <2>6. InPage(m, b)' => InPage(m, b)
    BY <1>8
  <2>7. QED
    BY <2>1, <2>2, <2>4, <2>5, <2>6 DEF One
<1>11. FailuresFit' /\ ApprovalsWereAnswered'
  BY <1>2, <1>5, <1>6, MoreIsChosen DEF LoginInv, FailuresFit, ApprovalsWereAnswered
<1>12. LoginTypes'
  <2>1. receipts' \subseteq [nonce : Nonces, site : Sites, result : Successes]
    BY <1>2, <1>3, <1>4 DEF LoginInv, LoginTypes, Sites
  <2>2. QED
    BY <1>2, <1>5, <1>8, <2>1 DEF LoginInv, LoginTypes, HasOneMore
<1>13. QED
  BY <1>8, <1>9, <1>10, <1>11, <1>12 DEF LoginInv

LEMMA LoginStarts ==
  ASSUME Init
  PROVE  LoginInv
<1>1. LoginTypes
  <2>1. AppPage \in TabPages /\ Forgotten \in [nonce : NonceOrNone, canceled : BOOLEAN, back : NonceOrNone]
    BY DEF AppPage, TabPages, Forgotten, NonceOrNone
  <2>2. QED
    BY <2>1, NonceFacts DEF Init, LoginTypes, TabStates, SavedStates
<1>2. TabsAreRight
  BY DEF Init, TabsAreRight, NonceIsOwn, MarkerIsTrue, ResultIsTrue, AppPage, Forgotten
<1>3. SuccessesAreSpent
  <2> SUFFICES ASSUME NEW n \in Nonces, NEW a \in Actors
               PROVE  Occurrences(answers[n], Success(a)) + One(HasReceipt(n, a)) + One(InPage(n, a))
                        <= Occurrences(chosen[n], Success(a))
    BY DEF SuccessesAreSpent
  <2>1. ~HasReceipt(n, a) /\ ~InPage(n, a)
    BY DEF Init, HasReceipt, InPage, AppPage
  <2>2. answers[n] = chosen[n] /\ chosen[n] \in Seq(Outcomes)
    BY DEF Init
  <2>3. Occurrences(chosen[n], Success(a)) \in Nat
    BY <2>2, Appended, OutcomeIsOwn
  <2>4. QED
    BY <2>1, <2>2, <2>3 DEF One
<1>4. ReceiptsAreOwn /\ FailuresFit /\ ApprovalsWereAnswered
  BY DEF Init, ReceiptsAreOwn, FailuresFit, ApprovalsWereAnswered
<1>5. QED
  BY <1>1, <1>2, <1>3, <1>4 DEF LoginInv

LEMMA LoginSteps ==
  ASSUME LoginInv, UNCHANGED vars \/ Next
  PROVE  LoginInv'
<1>1. CASE UNCHANGED vars
  <2>1. LoginTypes' /\ ReceiptsAreOwn' /\ FailuresFit' /\ ApprovalsWereAnswered'
    BY <1>1 DEF vars, LoginInv, LoginTypes, ReceiptsAreOwn, Known, FailuresFit, GivenUp,
                ApprovalsWereAnswered
  <2>2. SuccessesAreSpent'
    BY <1>1 DEF vars, LoginInv, SuccessesAreSpent, HasReceipt, InPage
  <2>3. TabsAreRight'
    BY <1>1 DEF vars, LoginInv, TabsAreRight, NonceIsOwn, MarkerIsTrue, ResultIsTrue, AskedBy,
                GivenUp, Known
  <2>4. QED
    BY <2>1, <2>2, <2>3 DEF LoginInv
<1>2. CASE Next
  <2>1. ASSUME NEW t \in Tabs,
               \/ \E access \in BOOLEAN : Connect(t, access)
               \/ Restored(t)
               \/ \E a \in Actors \cup {None} : LoginHere(t, a)
        PROVE  LoginInv'
    BY <2>1, ConnectStep, RestoredStep, LoginHereStep
  <2>2. ASSUME NEW t \in Tabs, Initialized(t) \/ LoginThere(t) PROVE LoginInv'
    BY <2>2, AppPageStep
  <2>3. ASSUME NEW t \in Tabs, CancelChoice(t) \/ SignInFailed(t) PROVE LoginInv'
    BY <2>3, FailStep
  <2>4. ASSUME NEW t \in Tabs,
               \/ SignIn(t) \/ Expired(t)
               \/ \E a \in Actors : SignedIn(t, a)
               \/ \E n \in Nonces : Revisit(t, n)
        PROVE  LoginInv'
    BY <2>4, GuardPageStep
  <2>5. ASSUME NEW t \in Tabs,
               \/ \E a \in Actors : Choose(t, a)
               \/ \E shared \in BOOLEAN : Finish(t, shared)
        PROVE  LoginInv'
    BY <2>5, SucceedStep
  <2>6. ASSUME NEW t \in Tabs, Reload(t) \/ Leave(t) PROVE LoginInv'
    BY <2>6, ReloadStep
  <2>7. ASSUME \/ \E r \in receipts : ReceiptExpires(r)
               \/ \E a \in Actors, sites \in SUBSET Sites : LogOut(a, sites)
        PROVE  LoginInv'
    BY <2>7, LossStep
  <2>8. QED
    BY <1>2, <2>1, <2>2, <2>3, <2>4, <2>5, <2>6, <2>7 DEF Next
<1>3. QED
  BY <1>1, <1>2

LEMMA CountsFit ==
  ASSUME LoginInv
  PROVE  AnswersFit
<1> SUFFICES ASSUME NEW n \in Nonces
             PROVE  /\ \A a \in Actors :
                         Occurrences(answers[n], Success(a)) <= Occurrences(chosen[n], Success(a))
                    /\ Occurrences(answers[n], Failure) > 0 =>
                         \/ Occurrences(chosen[n], Failure) > 0
                         \/ chosen[n] # <<>> /\ used.logouts > 0
  BY DEF AnswersFit
<1>1. answers[n] \in Seq(Outcomes) /\ chosen[n] \in Seq(Outcomes)
  BY DEF LoginInv, LoginTypes
<1>2. ASSUME NEW a \in Actors
      PROVE  Occurrences(answers[n], Success(a)) <= Occurrences(chosen[n], Success(a))
  <2>1. Occurrences(answers[n], Success(a)) + One(HasReceipt(n, a)) + One(InPage(n, a))
          <= Occurrences(chosen[n], Success(a))
    BY DEF LoginInv, SuccessesAreSpent
  <2>2. Occurrences(answers[n], Success(a)) \in Nat /\ Occurrences(chosen[n], Success(a)) \in Nat
    BY <1>1, Appended, OutcomeIsOwn
  <2>3. QED
    BY <2>1, <2>2 DEF One
<1>3. ASSUME Occurrences(answers[n], Failure) > 0
      PROVE  Occurrences(chosen[n], Failure) > 0 \/ (chosen[n] # <<>> /\ used.logouts > 0)
  <2>1. Failure \in Outcomes
    BY DEF Outcomes
  <2>2. \E k \in DOMAIN answers[n] : answers[n][k] = Failure
    BY <1>1, <1>3, <2>1, Appended
  <2>3. n \in GivenUp \/ (chosen[n] # <<>> /\ used.logouts > 0)
    BY <2>2 DEF LoginInv, FailuresFit
  <2>4. n \in GivenUp => Occurrences(chosen[n], Failure) > 0
    BY <1>1, <2>1, Appended DEF GivenUp
  <2>5. QED
    BY <2>3, <2>4
<1>4. QED
  BY <1>2, <1>3

\* A login through the guard is answered with what the user did about this request.
THEOREM LoginsAreAnswered == PagesSpec => []AnswersFit
<1>1. PagesInit => LoginInv
  BY LoginStarts DEF PagesInit
<1>2. LoginInv /\ [PagesNext]_pagesVars => LoginInv'
  BY StepsAreOfOne, LoginSteps
<1>3. LoginInv => AnswersFit
  BY CountsFit
<1>4. QED
  BY <1>1, <1>2, <1>3, PTL DEF PagesSpec

\* A site has an account only by the answer to a login that it asked for.
THEOREM ApprovalsAreAnswers == PagesSpec => []ApprovalsWereAnswered
<1>1. PagesInit => LoginInv
  BY LoginStarts DEF PagesInit
<1>2. LoginInv /\ [PagesNext]_pagesVars => LoginInv'
  BY StepsAreOfOne, LoginSteps
<1>3. LoginInv => ApprovalsWereAnswered
  BY DEF LoginInv
<1>4. QED
  BY <1>1, <1>2, <1>3, PTL DEF PagesSpec
-----------------------------------------------------------------------------
(***************************************************************************)
(* Keys of actors, in one tab.                                             *)
(***************************************************************************)

\* The key that the server holds for an actor whose key was exported may go.  So may
\* those that it holds later: it holds one again only when the actor is imported.
MayGo(a) ==
  /\ a \in Actor!ActorIds /\ controls[a] # {}
  /\ \/ a \in returned
     \/ row.actor = a /\ (row.key = 0 \/ row \in files)
     \/ row.actor # a /\ a \in had

ActorPageStates ==
  [page : {"home", "replace"}, actor : Actor!ActorIds \cup {NoActor, Unknown}, key : Nat,
   exported : BOOLEAN, entry : Actor!ActorIds \cup {NoActor}]

KeyTypes ==
  /\ keys \in Nat /\ controls \in [Actor!ActorIds -> SUBSET Nat]
  /\ row \in [actor : Actor!ActorIds \cup {NoActor}, key : Nat]
  /\ files \subseteq [actor : Actor!ActorIds, key : Nat]
  /\ window \in [Windows -> ActorPageStates]
  /\ visited \in [Windows -> SUBSET (Actor!ActorIds \cup {NoActor})]

\* A page has loaded the row, and knows of exports that were made.
PageIsRight(t) ==
  /\ window[t].actor # Unknown => window[t].actor = row.actor /\ window[t].key = row.key
  /\ window[t].exported => MayGo(window[t].actor)
  /\ \A a \in {window[t].entry} \cup visited[t] : a # NoActor => MayGo(a)

KeyInv ==
  /\ KeyTypes
  /\ row.key # 0 => controls[row.actor] # {}
  /\ \A t \in Windows : PageIsRight(t)
  /\ Actor!NewKeysAreSaved

\* Every nonempty set of numbers has a least element.
LEMMA LeastOf ==
  ASSUME NEW T \in SUBSET Nat, T # {}
  PROVE  \E x \in T : \A y \in T : x <= y
<1> DEFINE R == OpToRel(<, Nat)
<1>1. IsWellFoundedOn(R, Nat)
  BY NatLessThanWellFounded
<1>2. \A x, y \in Nat : x < y => <<x, y>> \in R
  BY DEF OpToRel
<1> HIDE DEF R
<1>3. PICK x \in T : \A y \in T : ~(<<y, x>> \in R)
  BY <1>1, WFMin
<1>4. ASSUME NEW y \in T PROVE x <= y
  <2>1. ~(y < x)
    BY <1>2, <1>3
  <2>2. QED
    BY <2>1
<1>5. QED
  BY <1>4

LEMMA KeysStart ==
  ASSUME Actor!ActorsInit
  PROVE  KeyInv
<1>1. 1 \in Actor!ActorIds
  BY OwnAreNumbered DEF Actor!ActorIds
<1>2. row \in [actor : Actor!ActorIds \cup {NoActor}, key : Nat] /\ (row.actor = 1 \/ row.actor = NoActor)
  BY <1>1 DEF Actor!ActorsInit, Actor!NoKey
<1>3. KeyTypes
  BY <1>2 DEF Actor!ActorsInit, KeyTypes, ActorPageStates, Actor!OnHome, Actor!NoKey, Actor!ActorIds
<1>4. \A t \in Windows : PageIsRight(t)
  BY DEF Actor!ActorsInit, PageIsRight, Actor!OnHome
<1>5. row.key # 0 => controls[row.actor] # {}
  BY OwnAreNumbered DEF Actor!ActorsInit, Actor!NoKey, Actor!ActorIds
<1>6. Actor!NewKeysAreSaved
  BY DEF Actor!ActorsInit, Actor!NewKeysAreSaved
<1>7. QED
  BY <1>3, <1>4, <1>5, <1>6 DEF KeyInv

\* A page of the only tab changes, or is replaced.
LEMMA OneWindowSteps ==
  ASSUME KeyInv, NEW t \in Windows, \A u \in Windows : u = t,
         KeyTypes', row'.key # 0 => controls'[row'.actor] # {},
         PageIsRight(t)', returned \subseteq returned',
         \A l \in lost' \ lost : l.actor \in returned
  PROVE  KeyInv'
BY DEF KeyInv, Actor!NewKeysAreSaved

LEMMA PageStep ==
  ASSUME KeyInv, NEW t \in Windows, \A u \in Windows : u = t,
         \/ Actor!Load(t) \/ Actor!Edit(t) \/ Actor!ToReplace(t) \/ Actor!ToHome(t)
         \/ \E entry \in visited[t] : Actor!Revisit(t, entry)
  PROVE  KeyInv'
<1>1. KeyTypes /\ PageIsRight(t) /\ UNCHANGED <<row, controls, keys, files, lost, had, returned>>
  BY DEF KeyInv, Actor!Load, Actor!Edit, Actor!ToReplace, Actor!ToHome, Actor!Revisit
<1>2. \A c : MayGo(c)' = MayGo(c)
  BY <1>1 DEF MayGo
<1>3. KeyTypes' /\ PageIsRight(t)'
  <2>1. CASE Actor!Load(t)
    <3> DEFINE counts == window[t].page = "replace" /\ Actor!ExportedHere(t)
    <3>1. /\ window' = [window EXCEPT ![t].actor = row.actor, ![t].key = row.key,
                                      ![t].exported = counts]
          /\ visited' = visited /\ counts \in BOOLEAN
          /\ counts => row.actor # NoActor /\ row.actor = window[t].entry
      BY <2>1 DEF Actor!Load, Actor!ExportedHere
    <3> HIDE DEF counts
    <3>2. KeyTypes'
      <4>1. window' \in [Windows -> ActorPageStates]
        <5>1. row.actor \in Actor!ActorIds \cup {NoActor, Unknown} /\ row.key \in Nat
          BY <1>1 DEF KeyTypes
        <5>2. window \in [Windows -> ActorPageStates]
          BY <1>1 DEF KeyTypes
        <5>3. window' = [window EXCEPT ![t] = [window[t] EXCEPT !.actor = row.actor, !.key = row.key,
                                                                !.exported = counts]]
          BY <3>1, <5>2
        <5>4. [window[t] EXCEPT !.actor = row.actor, !.key = row.key, !.exported = counts]
                \in ActorPageStates
          BY <3>1, <5>1, <5>2 DEF ActorPageStates
        <5>5. QED
          BY <5>2, <5>3, <5>4
      <4>2. QED
        BY <1>1, <3>1, <4>1 DEF KeyTypes
    <3>3. /\ window'[t].actor = row.actor /\ window'[t].key = row.key
          /\ window'[t].entry = window[t].entry
          /\ window'[t].exported => row.actor # NoActor /\ row.actor = window[t].entry
      BY <1>1, <3>1 DEF KeyTypes, ActorPageStates
    <3>4. QED
      BY <1>1, <1>2, <3>1, <3>2, <3>3 DEF PageIsRight
  <2>2. CASE Actor!Edit(t)
    <3>1. window' = [window EXCEPT ![t].exported = FALSE] /\ visited' = visited
      BY <2>2 DEF Actor!Edit
    <3>2. window[t] \in ActorPageStates /\ window'[t] = [window[t] EXCEPT !.exported = FALSE]
      BY <1>1, <3>1 DEF KeyTypes
    <3>3. /\ window'[t] \in ActorPageStates
          /\ window'[t].actor = window[t].actor /\ window'[t].key = window[t].key
          /\ window'[t].entry = window[t].entry /\ window'[t].exported = FALSE
      BY <3>2 DEF ActorPageStates
    <3>4. KeyTypes'
      BY <1>1, <3>1, <3>2, <3>3 DEF KeyTypes
    <3>5. QED
      BY <1>1, <1>2, <3>1, <3>3, <3>4 DEF PageIsRight
  <2>3. ASSUME NEW page \in {"home", "replace"}, NEW entry \in Actor!ActorIds \cup {NoActor},
               entry # NoActor => MayGo(entry),
               window' = [window EXCEPT ![t] = [Actor!OnHome EXCEPT !.page = page, !.entry = entry]],
               visited' = visited \/ visited' = [visited EXCEPT ![t] = @ \cup {entry}]
        PROVE  KeyTypes' /\ PageIsRight(t)'
    <3> DEFINE new == [Actor!OnHome EXCEPT !.page = page, !.entry = entry]
    <3>1. /\ new.page = page /\ new.actor = Unknown /\ new.key = 0 /\ new.exported = FALSE
          /\ new.entry = entry
          /\ new \in ActorPageStates
      BY DEF Actor!OnHome, Actor!NoKey, ActorPageStates
    <3> HIDE DEF new
    <3>2. window' = [window EXCEPT ![t] = new]
      BY <2>3 DEF new
    <3>3. KeyTypes'
      <4>1. window' \in [Windows -> ActorPageStates]
        BY <1>1, <3>1, <3>2 DEF KeyTypes
      <4>2. visited' \in [Windows -> SUBSET (Actor!ActorIds \cup {NoActor})]
        BY <1>1, <2>3 DEF KeyTypes
      <4>3. QED
        BY <1>1, <4>1, <4>2 DEF KeyTypes
    <3>4. window'[t] = new /\ visited'[t] \subseteq visited[t] \cup {entry}
      BY <1>1, <2>3, <3>2 DEF KeyTypes
    <3>5. PageIsRight(t)'
      BY <1>1, <1>2, <2>3, <3>1, <3>4 DEF PageIsRight
    <3>6. QED
      BY <3>3, <3>5
  <2>4. CASE Actor!ToReplace(t)
    <3> DEFINE entry == IF window[t].exported THEN window[t].actor ELSE NoActor
    <3>1. /\ window' = [window EXCEPT ![t] = [Actor!OnHome EXCEPT !.page = "replace", !.entry = entry]]
          /\ visited' = [visited EXCEPT ![t] = @ \cup {entry}]
      BY <2>4 DEF Actor!ToReplace
    <3>2. entry \in Actor!ActorIds \cup {NoActor} /\ (entry # NoActor => MayGo(entry))
      BY <1>1 DEF PageIsRight, MayGo
    <3> HIDE DEF entry
    <3>3. QED
      BY <2>3, <3>1, <3>2
  <2>5. CASE Actor!ToHome(t)
    <3>1. window' = [window EXCEPT ![t] = [Actor!OnHome EXCEPT !.page = "home", !.entry = NoActor]]
      BY <2>5 DEF Actor!ToHome, Actor!OnHome
    <3>2. visited' = visited
      BY <2>5 DEF Actor!ToHome
    <3>3. QED
      BY <2>3, <3>1, <3>2
  <2>6. CASE \E entry \in visited[t] : Actor!Revisit(t, entry)
    <3>1. PICK entry \in visited[t] : Actor!Revisit(t, entry)
      BY <2>6
    <3>2. /\ window' = [window EXCEPT ![t] = [Actor!OnHome EXCEPT !.page = "replace", !.entry = entry]]
          /\ visited' = visited
      BY <3>1 DEF Actor!Revisit
    <3>3. entry \in Actor!ActorIds \cup {NoActor} /\ (entry # NoActor => MayGo(entry))
      BY <1>1 DEF PageIsRight, KeyTypes
    <3>4. QED
      BY <2>3, <3>2, <3>3
  <2>7. QED
    BY <2>1, <2>2, <2>4, <2>5, <2>6
<1>4. QED
  BY <1>1, <1>3, OneWindowSteps DEF KeyInv

\* A key is exported, or let go of after it was.
LEMMA KeyStep ==
  ASSUME KeyInv, NEW t \in Windows, \A u \in Windows : u = t,
         Actor!RemoveKey(t) \/ \E confirmed \in BOOLEAN : Actor!Export(t, confirmed)
  PROVE  KeyInv'
<1>1. KeyTypes /\ PageIsRight(t) /\ UNCHANGED <<controls, keys, visited, had, returned>>
  BY DEF KeyInv, Actor!RemoveKey, Actor!Export
<1>2. CASE Actor!RemoveKey(t)
  <2>1. /\ window[t].actor \in Actor!ActorIds /\ window[t].exported /\ row.actor = window[t].actor
        /\ row' = [row EXCEPT !.key = 0] /\ lost' = lost \cup Actor!Dropped /\ files' = files
        /\ window' = [window EXCEPT ![t].key = 0, ![t].exported = FALSE]
    BY <1>2 DEF Actor!RemoveKey, Actor!HasActor, Actor!NoKey
  <2>2. row' = [actor |-> row.actor, key |-> 0]
    BY <1>1, <2>1 DEF KeyTypes
  <2>3. \A c : MayGo(c) => MayGo(c)'
    BY <1>1, <2>1, <2>2 DEF MayGo
  <2>4. /\ window' \in [Windows -> ActorPageStates] /\ window'[t].actor = window[t].actor
        /\ window'[t].key = 0 /\ window'[t].exported = FALSE /\ window'[t].entry = window[t].entry
    BY <1>1, <2>1 DEF KeyTypes, ActorPageStates
  <2>5. KeyTypes'
    BY <1>1, <2>1, <2>2, <2>4 DEF KeyTypes
  <2>6. PageIsRight(t)'
    BY <1>1, <2>1, <2>2, <2>3, <2>4 DEF PageIsRight
  <2>7. \A l \in lost' \ lost : l.actor \in returned
    BY <1>1, <2>1 DEF PageIsRight, MayGo, Actor!Dropped, Actor!NoKey
  <2>8. QED
    BY <1>1, <2>2, <2>5, <2>6, <2>7, OneWindowSteps
<1>3. ASSUME NEW confirmed \in BOOLEAN, Actor!Export(t, confirmed) PROVE KeyInv'
  <2>1. /\ window[t].actor \in Actor!ActorIds /\ row' = row /\ lost' = lost
        /\ confirmed => row.actor = window[t].actor /\ row.key # 0
        /\ files' = IF confirmed THEN files \cup {row} ELSE files
        /\ window' = [window EXCEPT ![t].exported = window[t].exported \/ confirmed]
    BY <1>3 DEF Actor!Export, Actor!HasActor, Actor!NoKey, Actor!Saved
  <2>2. \A c : MayGo(c) => MayGo(c)'
    BY <1>1, <2>1 DEF MayGo
  <2>3. /\ window' \in [Windows -> ActorPageStates] /\ window'[t].actor = window[t].actor
        /\ window'[t].key = window[t].key /\ window'[t].entry = window[t].entry
        /\ window'[t].exported = (window[t].exported \/ confirmed)
    BY <1>1, <2>1 DEF KeyTypes, ActorPageStates
  <2>4. confirmed => row \in [actor : Actor!ActorIds, key : Nat]
    BY <1>1, <2>1 DEF KeyTypes
  <2>5. KeyTypes'
    BY <1>1, <2>1, <2>3, <2>4 DEF KeyTypes
  <2>6. confirmed => MayGo(window[t].actor)'
    BY <1>1, <2>1 DEF KeyInv, MayGo
  <2>7. PageIsRight(t)'
    <3>1. window'[t].exported => MayGo(window[t].actor)'
      BY <1>1, <2>2, <2>3, <2>6 DEF PageIsRight
    <3>2. QED
      BY <1>1, <2>1, <2>2, <2>3, <3>1 DEF PageIsRight
  <2>8. QED
    BY <1>1, <2>1, <2>5, <2>7, OneWindowSteps DEF KeyInv
<1>4. QED
  BY <1>2, <1>3

\* The actor is replaced.
LEMMA ReplaceStep ==
  ASSUME KeyInv, NEW t \in Windows, \A u \in Windows : u = t,
         \/ Actor!CreateActor(t)
         \/ \E f \in files : Actor!ImportActor(t, f)
         \/ \E a \in Actor!ActorIds : Actor!AttachActor(t, a)
  PROVE  KeyInv'
<1>1. KeyTypes /\ PageIsRight(t) /\ UNCHANGED <<files, visited>>
  BY DEF KeyInv, Actor!CreateActor, Actor!ImportActor, Actor!AttachActor
<1>2. Actor!MayReplace(t)
  BY DEF Actor!CreateActor, Actor!ImportActor, Actor!AttachActor
<1>3. PICK a \in Actor!ActorIds, key \in Nat :
        /\ Actor!Replaced(t, a, key)
        /\ controls' \in [Actor!ActorIds -> SUBSET Nat] /\ keys' \in Nat
        /\ returned \subseteq returned'
        /\ key # 0 => controls'[a] # {}
        /\ \A c \in Actor!ActorIds : controls[c] # {} => controls'[c] # {}
        /\ \/ key = 0
           \/ controls[a] = {}
           \/ {a} \cap (had \cup {row.actor}) \subseteq returned'
  <2>1. CASE Actor!CreateActor(t)
    <3> DEFINE free == {a \in Own : controls[a] = {}}
               new == CHOOSE a \in Own : controls[a] = {} /\ \A b \in 1..a - 1 : controls[b] # {}
    <3>1. free # {}
      BY <2>1 DEF Actor!CreateActor
    <3>2. free \subseteq Nat
      BY OwnAreNumbered
    <3>3. PICK a \in free : \A b \in free : a <= b
      BY <3>1, <3>2, LeastOf
    <3>4. \A b \in 1..a - 1 : controls[b] # {}
      <4> SUFFICES ASSUME NEW b \in 1..a - 1, controls[b] = {} PROVE FALSE
        OBVIOUS
      <4>1. a \in Nat /\ 1..a \subseteq Own
        BY <3>2, OwnAreNumbered
      <4>2. b \in Own /\ b < a /\ b \in Nat
        BY <4>1
      <4>3. b \in free
        BY <4>2
      <4>4. QED
        BY <3>3, <4>1, <4>2, <4>3
    <3>5. new \in Own /\ controls[new] = {}
      BY <3>4
    <3>6. /\ controls' = [controls EXCEPT ![new] = {keys + 1}] /\ keys' = keys + 1
          /\ Actor!Replaced(t, new, keys + 1) /\ returned' = returned
      BY <2>1 DEF Actor!CreateActor
    <3> HIDE DEF new
    <3>7. QED
      BY <1>1, <3>5, <3>6 DEF KeyTypes, Actor!ActorIds
  <2>2. ASSUME NEW f \in files, Actor!ImportActor(t, f)
        PROVE  /\ f.actor \in Actor!ActorIds /\ keys + 1 \in Nat /\ Actor!Replaced(t, f.actor, keys + 1)
               /\ controls' \in [Actor!ActorIds -> SUBSET Nat] /\ keys' \in Nat
               /\ returned \subseteq returned' /\ controls'[f.actor] # {}
               /\ \A c \in Actor!ActorIds : controls[c] # {} => controls'[c] # {}
               /\ {f.actor} \cap (had \cup {row.actor}) \subseteq returned'
    BY <1>1, <2>2 DEF Actor!ImportActor, KeyTypes
  <2>3. ASSUME NEW a \in Actor!ActorIds, Actor!AttachActor(t, a)
        PROVE  /\ Actor!Replaced(t, a, 0) /\ UNCHANGED <<controls, keys, returned>>
    BY <2>3 DEF Actor!AttachActor, Actor!NoKey
  <2>4. CASE \E f \in files : Actor!ImportActor(t, f)
    BY <2>2, <2>4
  <2>5. CASE \E a \in Actor!ActorIds : Actor!AttachActor(t, a)
    BY <1>1, <2>3, <2>5 DEF KeyTypes
  <2>6. QED
    BY <2>1, <2>4, <2>5
<1>4. /\ lost' = lost \cup Actor!Dropped /\ row' = [actor |-> a, key |-> key]
      /\ had' = had \cup ({row.actor} \cap Actor!ActorIds)
      /\ window' = [window EXCEPT ![t] = Actor!OnHome]
  BY <1>3 DEF Actor!Replaced
<1>5. ASSUME NEW c, MayGo(c) PROVE MayGo(c)'
  <2>1. c \in Actor!ActorIds /\ controls[c] # {} /\ controls'[c] # {}
    BY <1>3, <1>5 DEF MayGo
  <2>2. CASE c \in returned
    BY <1>3, <2>1, <2>2 DEF MayGo
  <2>3. CASE row.actor = c
    BY <1>3, <1>4, <2>1, <2>3 DEF MayGo
  <2>4. CASE row.actor # c /\ c \in had
    BY <1>3, <1>4, <2>1, <2>4 DEF MayGo
  <2>5. QED
    BY <1>5, <2>2, <2>3, <2>4 DEF MayGo
<1>6. Actor!OnHome \in ActorPageStates
  BY DEF Actor!OnHome, Actor!NoKey, ActorPageStates
<1>7. window' \in [Windows -> ActorPageStates] /\ window'[t] = Actor!OnHome
  BY <1>1, <1>4, <1>6 DEF KeyTypes
<1>8. KeyTypes'
  BY <1>1, <1>3, <1>4, <1>7 DEF KeyTypes
<1>9. PageIsRight(t)'
  BY <1>1, <1>5, <1>7 DEF PageIsRight, Actor!OnHome
<1>10. \A l \in lost' \ lost : l.actor \in returned
  <2>1. window[t].actor = row.actor /\ window[t].key = row.key
    BY <1>1, <1>2 DEF PageIsRight, Actor!MayReplace, Actor!Loaded
  <2>2. row.key = 0 \/ MayGo(row.actor)
    BY <1>1, <1>2, <2>1 DEF PageIsRight, Actor!MayReplace, Actor!NoKey
  <2>3. QED
    BY <1>4, <2>2 DEF MayGo, Actor!Dropped, Actor!NoKey
<1>11. row'.key # 0 => controls'[row'.actor] # {}
  BY <1>3, <1>4
<1>12. QED
  BY <1>3, <1>8, <1>9, <1>10, <1>11, OneWindowSteps

LEMMA ActorStep ==
  ASSUME KeyInv, \A t, u \in Windows : t = u, UNCHANGED actorVars \/ Actor!ActorPagesNext
  PROVE  KeyInv'
<1>1. CASE UNCHANGED actorVars
  BY <1>1 DEF actorVars, KeyInv, KeyTypes, PageIsRight, MayGo, Actor!NewKeysAreSaved
<1>2. CASE Actor!ActorPagesNext
  <2>1. PICK t \in Windows :
          \/ Actor!Load(t) \/ Actor!Edit(t) \/ Actor!RemoveKey(t)
          \/ \E confirmed \in BOOLEAN : Actor!Export(t, confirmed)
          \/ Actor!ToReplace(t) \/ Actor!ToHome(t)
          \/ \E entry \in visited[t] : Actor!Revisit(t, entry)
          \/ Actor!CreateActor(t)
          \/ \E f \in files : Actor!ImportActor(t, f)
          \/ \E a \in Actor!ActorIds : Actor!AttachActor(t, a)
    BY <1>2 DEF Actor!ActorPagesNext
  <2>2. CASE \/ Actor!Load(t) \/ Actor!Edit(t) \/ Actor!ToReplace(t) \/ Actor!ToHome(t)
             \/ \E entry \in visited[t] : Actor!Revisit(t, entry)
    BY <2>2, PageStep
  <2>3. CASE Actor!RemoveKey(t) \/ \E confirmed \in BOOLEAN : Actor!Export(t, confirmed)
    BY <2>3, KeyStep
  <2>4. CASE \/ Actor!CreateActor(t)
             \/ \E f \in files : Actor!ImportActor(t, f)
             \/ \E a \in Actor!ActorIds : Actor!AttachActor(t, a)
    BY <2>4, ReplaceStep
  <2>5. QED
    BY <2>1, <2>2, <2>3, <2>4
<1>3. QED
  BY <1>1, <1>2

\* Where one tab is open, only the key of an actor that was given up and imported again
\* is dropped unsaved.  With two tabs, the page of one may be out of date.
THEOREM KeysAreSaved ==
  ASSUME \A t, u \in Windows : t = u
  PROVE  PagesSpec => []NewKeysAreSaved
<1>1. PagesInit => KeyInv
  BY KeysStart DEF PagesInit
<1>2. KeyInv /\ [PagesNext]_pagesVars => KeyInv'
  <2>1. SUFFICES ASSUME KeyInv, [PagesNext]_pagesVars PROVE KeyInv'
    OBVIOUS
  <2>2. UNCHANGED actorVars \/ Actor!ActorPagesNext
    BY <2>1, StepsAreOfOne
  <2>3. QED
    BY <2>1, <2>2, ActorStep
<1>3. KeyInv => NewKeysAreSaved
  BY DEF KeyInv, NewKeysAreSaved
<1>4. QED
  BY <1>1, <1>2, <1>3, PTL DEF PagesSpec
-----------------------------------------------------------------------------
(***************************************************************************)
(* Gets of the storage buckets.                                            *)
(***************************************************************************)

AskedKeys == {a.key : a \in Asks}
AskedEndpoints == {a.endpoint : a \in Asks}
BatchCalls ==
  [pc : {"none", "queued", "one", "sent", "settled"}, endpoint : AskedEndpoints \cup {"none"},
   key : AskedKeys \cup {"none"}, limit : Int,
   answer : {"none", "error", "not found", "too large"} \cup AskedKeys]
BatchQueues ==
  [endpoint : AskedEndpoints, limit : Nat \ {0}, calls : Seq(Batch!Gets),
   timer : {"unset", "on", "off"}]

\* Calls f are numbered in their order, and ask for keys.
CallsAreNumbered(f) ==
  /\ \E n \in 0..MaxGets : {g \in Batch!Gets : f[g].pc # "none"} = 1..n
  /\ \A g \in Batch!Gets : f[g].pc # "none" => f[g].key \in AskedKeys

\* A list of calls of one limit, of which a server takes as many at once.
ListFits(f, limit, list) ==
  /\ \A i \in DOMAIN list : f[list[i]].pc # "none" /\ f[list[i]].limit = limit
  /\ Len(list) <= Batch!BatchWidth(limit)

\* So are queues, and those that are open are not full.
QueuesFit(f, qs, o) ==
  \A q \in DOMAIN qs :
    /\ ListFits(f, qs[q].limit, qs[q].calls)
    /\ q \in o => Len(qs[q].calls) < Batch!BatchWidth(qs[q].limit)

\* What a call may answer, and did.
AnswersFor(key, limit, broken) ==
  (IF Batch!BatchResult(key, limit) = "too large" THEN {"too large", "error"}
   ELSE {Batch!BatchResult(key, limit)})
  \cup (IF broken THEN {"error"} ELSE {})
AnswersRight(f, h) ==
  \A g \in Batch!Gets : f[g].pc = "settled" => f[g].answer \in AnswersFor(f[g].key, f[g].limit, g \in h)

BatchInv ==
  /\ gets \in [Batch!Gets -> BatchCalls] /\ queues \in Seq(BatchQueues)
  /\ open \subseteq DOMAIN queues /\ batches \subseteq DOMAIN queues
  /\ hit \subseteq Batch!Gets
  /\ CallsAreNumbered(gets) /\ QueuesFit(gets, queues, open) /\ AnswersRight(gets, hit)

\* Servers and clients have the same limits: no batch is too large.
LEMMA BatchesFit ==
  ASSUME NEW limit \in Nat \ {0}, NEW n \in Nat, n <= Batch!BatchWidth(limit)
  PROVE  n <= BatchKeys /\ n * limit <= BatchBytes
<1> DEFINE d == BatchBytes \div limit
<1>1. d \in Nat /\ d * limit <= BatchBytes
  BY AsksAreSizes, SMT
<1>2. n <= BatchKeys /\ n <= d
  BY <1>1, AsksAreSizes DEF Batch!BatchWidth, Batch!Smaller
<1> HIDE DEF d
<1>3. n * limit <= d * limit
  BY <1>1, <1>2, SMT
<1>4. QED
  BY <1>1, <1>2, <1>3, AsksAreSizes, SMT

LEMMA BatchStarts ==
  ASSUME Batch!BatchInit
  PROVE  BatchInv
<1>1. gets \in [Batch!Gets -> BatchCalls] /\ \A g \in Batch!Gets : gets[g].pc = "none"
  BY DEF Batch!BatchInit, Batch!NotCalled, BatchCalls
<1>2. CallsAreNumbered(gets)
  <2>1. {g \in Batch!Gets : gets[g].pc # "none"} = 1..0
    BY <1>1
  <2>2. QED
    BY <1>1, <2>1, AsksAreSizes DEF CallsAreNumbered
<1>3. QED
  BY <1>1, <1>2 DEF Batch!BatchInit, BatchInv, QueuesFit, AnswersRight

LEMMA QueuesHoldCalls ==
  ASSUME NEW qs \in Seq(BatchQueues), NEW q \in DOMAIN qs
  PROVE  /\ qs[q] \in BatchQueues /\ qs[q].calls \in Seq(Batch!Gets)
         /\ \A i \in DOMAIN qs[q].calls : qs[q].calls[i] \in Batch!Gets
<1>1. qs[q] \in BatchQueues
  OBVIOUS
<1>2. qs[q].calls \in Seq(Batch!Gets)
  BY <1>1 DEF BatchQueues
<1>3. QED
  BY <1>1, <1>2

\* Calls that are settled keep what they asked for.
LEMMA SettledKeeps ==
  ASSUME BatchInv, NEW answer, DOMAIN answer \subseteq Batch!Gets,
         \A g \in DOMAIN answer :
           /\ gets[g].pc # "none"
           /\ answer[g] \in AnswersFor(gets[g].key, gets[g].limit, g \in hit'),
         hit \subseteq hit', hit' \subseteq Batch!Gets,
         gets' = Batch!Settled(gets, answer), UNCHANGED <<queues, open>>, batches' \subseteq batches
  PROVE  BatchInv'
<1>1. \A g \in Batch!Gets :
        \/ gets'[g] = gets[g]
        \/ /\ g \in DOMAIN answer
           /\ gets'[g] = [gets[g] EXCEPT !.pc = "settled", !.answer = answer[g]]
  BY DEF Batch!Settled, BatchInv
<1>2. \A g \in DOMAIN answer :
        answer[g] \in {"none", "error", "not found", "too large"} \cup AskedKeys
  BY DEF BatchInv, CallsAreNumbered, AnswersFor, Batch!BatchResult
<1>3. \A g \in Batch!Gets :
        /\ gets'[g] \in BatchCalls
        /\ gets'[g].key = gets[g].key /\ gets'[g].limit = gets[g].limit
        /\ gets'[g].pc = "none" <=> gets[g].pc = "none"
        /\ gets'[g].pc = "settled" => gets'[g].answer \in AnswersFor(gets[g].key, gets[g].limit, g \in hit')
  <2> SUFFICES ASSUME NEW g \in Batch!Gets
               PROVE  /\ gets'[g] \in BatchCalls
                      /\ gets'[g].key = gets[g].key /\ gets'[g].limit = gets[g].limit
                      /\ gets'[g].pc = "none" <=> gets[g].pc = "none"
                      /\ gets'[g].pc = "settled" =>
                           gets'[g].answer \in AnswersFor(gets[g].key, gets[g].limit, g \in hit')
    OBVIOUS
  <2>1. gets[g] \in BatchCalls
    BY DEF BatchInv
  <2>2. CASE gets'[g] = gets[g]
    BY <2>1, <2>2 DEF BatchInv, AnswersRight, AnswersFor
  <2>3. CASE /\ g \in DOMAIN answer
             /\ gets'[g] = [gets[g] EXCEPT !.pc = "settled", !.answer = answer[g]]
    <3>1. answer[g] \in {"none", "error", "not found", "too large"} \cup AskedKeys
      BY <1>2, <2>3
    <3>2. /\ gets'[g] \in BatchCalls /\ gets'[g].pc = "settled" /\ gets'[g].answer = answer[g]
          /\ gets'[g].key = gets[g].key /\ gets'[g].limit = gets[g].limit
      BY <2>1, <2>3, <3>1 DEF BatchCalls
    <3>3. QED
      BY <2>3, <3>2
  <2>4. QED
    BY <1>1, <2>2, <2>3
<1>4. gets' \in [Batch!Gets -> BatchCalls]
  BY <1>3 DEF Batch!Settled
<1>5. CallsAreNumbered(gets')
  <2>1. {g \in Batch!Gets : gets'[g].pc # "none"} = {g \in Batch!Gets : gets[g].pc # "none"}
    BY <1>3
  <2>2. QED
    BY <1>3, <2>1 DEF BatchInv, CallsAreNumbered
<1>6. QueuesFit(gets', queues, open)
  <2>1. \A q \in DOMAIN queues : \A i \in DOMAIN queues[q].calls : queues[q].calls[i] \in Batch!Gets
    BY QueuesHoldCalls DEF BatchInv
  <2>2. QED
    BY <1>3, <2>1 DEF BatchInv, QueuesFit, ListFits
<1>7. AnswersRight(gets', hit')
  BY <1>3 DEF AnswersRight
<1>8. QED
  BY <1>4, <1>5, <1>6, <1>7 DEF BatchInv

SentAs(f, called, S, pc) ==
  f = [g \in Batch!Gets |-> IF g \in S THEN [called[g] EXCEPT !.pc = pc] ELSE called[g]]
SameCalls(f, called) ==
  \A g \in Batch!Gets : f[g].limit = called[g].limit /\ (f[g].pc = "none" <=> called[g].pc = "none")

\* Calls that are sent keep what they asked for.
LEMMA SentKeep ==
  ASSUME NEW called \in [Batch!Gets -> BatchCalls], NEW S, \A g \in S : called[g].pc # "none",
         NEW pc \in {"one", "sent"}, NEW h, AnswersRight(called, h), CallsAreNumbered(called),
         NEW f, SentAs(f, called, S, pc)
  PROVE  /\ f \in [Batch!Gets -> BatchCalls] /\ CallsAreNumbered(f) /\ AnswersRight(f, h)
         /\ SameCalls(f, called)
<1>1. \A g \in Batch!Gets :
        /\ f[g] \in BatchCalls /\ f[g].limit = called[g].limit /\ f[g].key = called[g].key
        /\ f[g].answer = called[g].answer
        /\ f[g].pc = "none" <=> called[g].pc = "none"
        /\ f[g].pc = "settled" => called[g].pc = "settled"
  BY DEF BatchCalls, SentAs
<1>2. f \in [Batch!Gets -> BatchCalls]
  BY <1>1 DEF SentAs
<1>3. CallsAreNumbered(f)
  <2>1. {g \in Batch!Gets : f[g].pc # "none"} = {g \in Batch!Gets : called[g].pc # "none"}
    BY <1>1
  <2>2. QED
    BY <1>1, <2>1 DEF CallsAreNumbered
<1>4. AnswersRight(f, h)
  BY <1>1 DEF AnswersRight
<1>5. QED
  BY <1>1, <1>2, <1>3, <1>4 DEF SameCalls

LEMMA QueuesKeep ==
  ASSUME NEW called, NEW qs \in Seq(BatchQueues), NEW o, QueuesFit(called, qs, o), NEW f,
         SameCalls(f, called)
  PROVE  QueuesFit(f, qs, o)
BY QueuesHoldCalls DEF QueuesFit, ListFits, SameCalls

\* A queue is closed before it is full.
LEMMA FlushStep ==
  ASSUME BatchInv, NEW called \in [Batch!Gets -> BatchCalls], CallsAreNumbered(called),
         AnswersRight(called, hit), NEW qs \in Seq(BatchQueues), DOMAIN queues \subseteq DOMAIN qs,
         NEW q \in DOMAIN qs, NEW more \in SUBSET DOMAIN qs, QueuesFit(called, qs, open \cup more),
         NEW list \in Seq(Batch!Gets), ListFits(called, qs[q].limit, list),
         q \in open => queues[q].endpoint = qs[q].endpoint /\ queues[q].limit = qs[q].limit,
         Batch!Flush(q, list, called, qs, more)
  PROVE  BatchInv'
<1> DEFINE o == (open \cup more) \ (Batch!Closed(qs[q].endpoint, qs[q].limit) \cup more)
           y == [qs[q] EXCEPT !.calls = list, !.timer = "off"]
           new == [qs EXCEPT ![q] = y]
           S == {list[i] : i \in DOMAIN list}
<1>0. y \in BatchQueues /\ y.limit = qs[q].limit /\ y.calls = list
  <2>1. qs[q] \in BatchQueues
    BY QueuesHoldCalls
  <2>2. QED
    BY <2>1 DEF BatchQueues
<1>1. queues' = new /\ open' = o /\ hit' = hit
  BY QueuesHoldCalls DEF Batch!Flush
<1> HIDE DEF y
<1>2. new \in Seq(BatchQueues) /\ DOMAIN new = DOMAIN qs
  BY <1>0
<1>3. o \subseteq DOMAIN qs /\ q \notin o /\ o \subseteq open
  BY DEF BatchInv, Batch!Closed, Batch!Joined
<1>4. QueuesFit(called, new, o)
  <2> SUFFICES ASSUME NEW r \in DOMAIN qs
               PROVE  /\ ListFits(called, new[r].limit, new[r].calls)
                      /\ r \in o => Len(new[r].calls) < Batch!BatchWidth(new[r].limit)
    BY <1>2 DEF QueuesFit
  <2>1. CASE r = q
    <3>1. new[q].limit = qs[q].limit /\ new[q].calls = list
      BY <1>0
    <3>2. QED
      BY <1>3, <2>1, <3>1
  <2>2. CASE r # q
    BY <1>3, <2>2 DEF QueuesFit
  <2>3. QED
    BY <2>1, <2>2
<1>5. \A g \in S : called[g].pc # "none"
  BY DEF ListFits
<1>6. PICK pc \in {"one", "sent"} : SentAs(gets', called, S, pc)
  BY DEF Batch!Flush, Batch!SentAlone, SentAs
<1>7. batches' \subseteq DOMAIN qs
  BY DEF Batch!Flush, BatchInv
<1> HIDE DEF o, new, S
<1>8. /\ gets' \in [Batch!Gets -> BatchCalls] /\ CallsAreNumbered(gets') /\ AnswersRight(gets', hit)
      /\ SameCalls(gets', called)
  BY <1>5, <1>6, SentKeep
<1>9. QueuesFit(gets', new, o)
  BY <1>2, <1>4, <1>8, QueuesKeep
<1>10. QED
  BY <1>1, <1>2, <1>3, <1>7, <1>8, <1>9 DEF BatchInv

LEMMA TimerStep ==
  ASSUME BatchInv, NEW q \in DOMAIN queues, Batch!TimerFires(q)
  PROVE  BatchInv'
<1>1. queues[q].calls \in Seq(Batch!Gets) /\ queues \in Seq(BatchQueues)
  BY QueuesHoldCalls DEF BatchInv
<1>2. QueuesFit(gets, queues, open \cup {}) /\ ListFits(gets, queues[q].limit, queues[q].calls)
  BY DEF BatchInv, QueuesFit
<1>3. Batch!Flush(q, queues[q].calls, gets, queues, {})
  BY DEF Batch!TimerFires
<1>4. gets \in [Batch!Gets -> BatchCalls] /\ CallsAreNumbered(gets) /\ AnswersRight(gets, hit)
  BY DEF BatchInv
<1>5. QED
  BY <1>1, <1>2, <1>3, <1>4, FlushStep

LEMMA CountTo ==
  ASSUME NEW n \in Nat
  PROVE  Cardinality(1..n) = n /\ (1..n) \cup {n + 1} = 1..(n + 1)
<1>1. (1..n) \cup {n + 1} = 1..(n + 1)
  OBVIOUS
<1>2. QED
  BY <1>1, FS_Interval

IsCalled(called, g, ask) ==
  called = [gets EXCEPT ![g] = [Batch!NotCalled EXCEPT !.pc = "queued", !.endpoint = ask.endpoint,
                                                       !.key = ask.key, !.limit = ask.limit]]

\* The next call is one that was not made.
LEMMA NextCall ==
  ASSUME BatchInv, NEW g \in Batch!Gets, NEW ask \in Asks,
         g = Cardinality({h \in Batch!Gets : gets[h].pc # "none"}) + 1,
         NEW called, IsCalled(called, g, ask)
  PROVE  /\ called \in [Batch!Gets -> BatchCalls] /\ CallsAreNumbered(called)
         /\ AnswersRight(called, hit)
         /\ called[g].pc = "queued" /\ called[g].limit = ask.limit
         /\ QueuesFit(called, queues, open)
<1>1. PICK n \in 0..MaxGets : {h \in Batch!Gets : gets[h].pc # "none"} = 1..n
  BY DEF BatchInv, CallsAreNumbered
<1>0. n \in Nat /\ n <= MaxGets /\ MaxGets \in Nat
  BY AsksAreSizes
<1>2. g = n + 1
  <2>1. Cardinality(1..n) = n
    BY <1>0, CountTo
  <2>2. QED
    BY <1>1, <2>1
<1>3. gets[g].pc = "none" /\ n + 1 \in 0..MaxGets
  BY <1>1, <1>2, AsksAreSizes DEF Batch!Gets
<1> DEFINE x == [Batch!NotCalled EXCEPT !.pc = "queued", !.endpoint = ask.endpoint,
                                        !.key = ask.key, !.limit = ask.limit]
<1>4. /\ x \in BatchCalls /\ x.pc = "queued" /\ x.limit = ask.limit /\ x.key \in AskedKeys
  BY AsksAreSizes DEF Batch!NotCalled, BatchCalls, AskedKeys, AskedEndpoints
<1>5. called = [gets EXCEPT ![g] = x]
  BY DEF IsCalled
<1> HIDE DEF x
<1>6. called \in [Batch!Gets -> BatchCalls] /\ called[g] = x
      /\ \A h \in Batch!Gets : h # g => called[h] = gets[h]
  BY <1>4, <1>5 DEF BatchInv
<1>7. CallsAreNumbered(called)
  <2>1. {h \in Batch!Gets : called[h].pc # "none"} = {h \in Batch!Gets : gets[h].pc # "none"} \cup {g}
    BY <1>4, <1>6
  <2>2. (1..n) \cup {g} = 1..(n + 1)
    BY <1>0, <1>2, CountTo
  <2>3. QED
    BY <1>1, <1>3, <1>4, <1>6, <2>1, <2>2 DEF CallsAreNumbered, BatchInv
<1>8. AnswersRight(called, hit)
  BY <1>4, <1>6 DEF AnswersRight, BatchInv
<1>9. QueuesFit(called, queues, open)
  <2>1. \A q \in DOMAIN queues : \A i \in DOMAIN queues[q].calls :
          /\ queues[q].calls[i] \in Batch!Gets
          /\ gets[queues[q].calls[i]].pc # "none"
    BY QueuesHoldCalls DEF BatchInv, QueuesFit, ListFits
  <2>2. \A q \in DOMAIN queues : \A i \in DOMAIN queues[q].calls :
          called[queues[q].calls[i]] = gets[queues[q].calls[i]]
    BY <1>3, <1>6, <2>1
  <2>3. QueuesFit(gets, queues, open)
    BY DEF BatchInv
  <2>4. QED
    BY <2>2, <2>3 DEF QueuesFit, ListFits
<1>10. QED
  BY <1>4, <1>6, <1>7, <1>8, <1>9

LEMMA GetStep ==
  ASSUME BatchInv, NEW g \in Batch!Gets, NEW ask \in Asks, Batch!Get(g, ask)
  PROVE  BatchInv'
<1> DEFINE e == ask.endpoint
           limit == ask.limit
           found == Batch!Joined(e, limit)
           q == IF found = {} THEN Len(queues) + 1 ELSE CHOOSE x \in found : TRUE
           fresh == [endpoint |-> e, limit |-> limit, calls |-> <<>>, timer |-> "unset"]
           qs == IF found = {} THEN Append(queues, fresh) ELSE queues
           more == IF found = {} THEN {Len(queues) + 1} ELSE {}
           list == Append(qs[q].calls, g)
           called == [gets EXCEPT ![g] = [Batch!NotCalled EXCEPT !.pc = "queued", !.endpoint = e,
                                                                 !.key = ask.key, !.limit = limit]]
<1>1. g = Cardinality({h \in Batch!Gets : gets[h].pc # "none"}) + 1
  BY Zenon DEF Batch!Get, Batch!Cardinality, Cardinality
<1>2. \/ ~Batch!IsBatched(e, limit) /\ gets' = [called EXCEPT ![g].pc = "one"]
         /\ UNCHANGED <<queues, open, batches, unsupported, faults, hit>>
      \/ /\ Batch!IsBatched(e, limit) /\ Len(list) = Batch!BatchWidth(limit)
         /\ Batch!Flush(q, list, called, qs, more)
      \/ /\ Batch!IsBatched(e, limit) /\ Len(list) # Batch!BatchWidth(limit)
         /\ gets' = called /\ open' = open \cup more
         /\ queues' = [qs EXCEPT ![q].calls = list, ![q].timer = IF @ = "unset" THEN "on" ELSE @]
         /\ UNCHANGED <<batches, unsupported, faults, hit>>
  BY DEF Batch!Get
<1>0. IsCalled(called, g, ask)
  BY DEF IsCalled
<1> HIDE DEF called
<1>3. /\ called \in [Batch!Gets -> BatchCalls] /\ CallsAreNumbered(called)
      /\ AnswersRight(called, hit)
      /\ called[g].pc = "queued" /\ called[g].limit = limit
      /\ QueuesFit(called, queues, open)
  BY <1>1, <1>0, NextCall
<1>4. CASE ~Batch!IsBatched(e, limit) /\ gets' = [called EXCEPT ![g].pc = "one"]
           /\ UNCHANGED <<queues, open, batches, unsupported, faults, hit>>
  <2>1. SentAs(gets', called, {g}, "one")
    BY <1>3, <1>4 DEF SentAs
  <2>2. \A h \in {g} : called[h].pc # "none"
    BY <1>3
  <2>3. /\ gets' \in [Batch!Gets -> BatchCalls] /\ CallsAreNumbered(gets') /\ AnswersRight(gets', hit)
        /\ SameCalls(gets', called)
    BY <1>3, <2>1, <2>2, SentKeep
  <2>4. QueuesFit(gets', queues, open)
    BY <1>3, <2>3, QueuesKeep DEF BatchInv
  <2>5. QED
    BY <1>4, <2>3, <2>4 DEF BatchInv
<1>5. ASSUME Batch!IsBatched(e, limit)
      PROVE  /\ qs \in Seq(BatchQueues) /\ q \in DOMAIN qs /\ DOMAIN queues \subseteq DOMAIN qs
             /\ more \subseteq DOMAIN qs
             /\ qs[q].endpoint = e /\ qs[q].limit = limit /\ qs[q].calls \in Seq(Batch!Gets)
             /\ QueuesFit(called, qs, open \cup more)
             /\ Len(qs[q].calls) < Batch!BatchWidth(limit)
             /\ ListFits(called, limit, qs[q].calls)
             /\ q \in open \cup more
             /\ q \in open => queues[q] = qs[q]
  <2>1. limit \in Nat \ {0} /\ Batch!BatchWidth(limit) >= 2 /\ Batch!BatchWidth(limit) \in Int
    BY <1>5, AsksAreSizes DEF Batch!IsBatched, Batch!BatchWidth, Batch!Smaller
  <2>2. CASE found = {}
    <3>1. fresh \in BatchQueues
      BY <2>1 DEF BatchQueues, AskedEndpoints
    <3>2. /\ qs = Append(queues, fresh) /\ q = Len(queues) + 1 /\ more = {q}
          /\ fresh.endpoint = e /\ fresh.limit = limit /\ fresh.calls = <<>>
      BY <2>2
    <3> HIDE DEF fresh, qs, q, more
    <3>3. /\ qs \in Seq(BatchQueues) /\ DOMAIN qs = DOMAIN queues \cup {q} /\ qs[q] = fresh
          /\ q \notin DOMAIN queues
          /\ \A r \in DOMAIN queues : qs[r] = queues[r]
      BY <3>1, <3>2 DEF BatchInv
    <3>4. QueuesFit(called, qs, open \cup more)
      BY <1>3, <2>1, <3>2, <3>3 DEF QueuesFit, ListFits
    <3>5. qs[q].endpoint = e /\ qs[q].limit = limit /\ qs[q].calls = <<>> /\ Len(qs[q].calls) = 0
      BY <3>2, <3>3
    <3>6. ListFits(called, limit, qs[q].calls)
      BY <2>1, <3>5 DEF ListFits
    <3>7. q \notin open /\ more \subseteq DOMAIN qs /\ q \in more /\ <<>> \in Seq(Batch!Gets)
      BY <3>2, <3>3 DEF BatchInv
    <3>8. QED
      BY <2>1, <3>3, <3>4, <3>5, <3>6, <3>7
  <2>3. CASE found # {}
    <3>1. qs = queues /\ q \in found /\ more = {}
      BY <2>3
    <3>2. q \in open /\ queues[q].endpoint = e /\ queues[q].limit = limit /\ q \in DOMAIN queues
      BY <3>1 DEF Batch!Joined, BatchInv
    <3> HIDE DEF qs, q, more
    <3>3. queues[q].calls \in Seq(Batch!Gets) /\ queues \in Seq(BatchQueues)
      BY <3>2, QueuesHoldCalls DEF BatchInv
    <3>4. QueuesFit(called, queues, open \cup more)
      BY <1>3, <3>1
    <3>5. QED
      BY <3>1, <3>2, <3>3, <3>4 DEF QueuesFit
  <2>4. QED
    BY <2>2, <2>3
<1>6. ASSUME Batch!IsBatched(e, limit)
      PROVE  list \in Seq(Batch!Gets) /\ ListFits(called, limit, list)
  <2> HIDE DEF qs, q
  <2>1. Batch!BatchWidth(limit) \in Int
    BY AsksAreSizes, <1>6 DEF Batch!BatchWidth, Batch!Smaller, Batch!IsBatched
  <2>2. list \in Seq(Batch!Gets) /\ Len(list) = Len(qs[q].calls) + 1 /\ Len(qs[q].calls) \in Nat
    BY <1>5, <1>6
  <2>3. \A i \in DOMAIN list : list[i] = g \/ (i \in DOMAIN qs[q].calls /\ list[i] = qs[q].calls[i])
    BY <1>5, <1>6
  <2>4. QED
    BY <1>3, <1>5, <1>6, <2>1, <2>2, <2>3 DEF ListFits
<1> HIDE DEF e, limit, found, q, fresh, qs, more, list
<1>7. CASE Batch!IsBatched(e, limit) /\ Batch!Flush(q, list, called, qs, more)
  BY <1>3, <1>5, <1>6, <1>7, FlushStep
<1>8. CASE /\ Batch!IsBatched(e, limit) /\ Len(list) # Batch!BatchWidth(limit)
           /\ gets' = called /\ open' = open \cup more
           /\ queues' = [qs EXCEPT ![q].calls = list, ![q].timer = IF @ = "unset" THEN "on" ELSE @]
           /\ UNCHANGED <<batches, unsupported, faults, hit>>
  <2>1. qs[q] \in BatchQueues
    BY <1>5, <1>8, QueuesHoldCalls
  <2> DEFINE y == [qs[q] EXCEPT !.calls = list, !.timer = IF @ = "unset" THEN "on" ELSE @]
  <2>2. y \in BatchQueues /\ y.limit = limit /\ y.calls = list
    BY <1>5, <1>6, <1>8, <2>1 DEF BatchQueues
  <2>3. queues' = [qs EXCEPT ![q] = y]
    BY <1>8, <1>5, <2>1 DEF BatchQueues
  <2> HIDE DEF y
  <2>0. qs \in Seq(BatchQueues) /\ q \in DOMAIN qs
    BY <1>5, <1>8
  <2>4. queues' \in Seq(BatchQueues) /\ DOMAIN queues' = DOMAIN qs /\ queues'[q] = y
        /\ \A r \in DOMAIN qs : r # q => queues'[r] = qs[r]
    BY <2>0, <2>2, <2>3
  <2>5. Len(list) < Batch!BatchWidth(limit)
    <3>1. Len(list) \in Nat /\ Len(list) <= Batch!BatchWidth(limit) /\ Batch!BatchWidth(limit) \in Int
      BY <1>6, <1>8, AsksAreSizes DEF ListFits, Batch!BatchWidth, Batch!Smaller, Batch!IsBatched, limit
    <3>2. QED
      BY <1>8, <3>1
  <2>6. QueuesFit(called, queues', open')
    BY <1>5, <1>6, <1>8, <2>2, <2>4, <2>5 DEF QueuesFit
  <2>7. QED
    BY <1>3, <1>5, <1>8, <2>4, <2>6 DEF BatchInv
<1>9. QED
  BY <1>2, <1>4, <1>7, <1>8 DEF e, limit, found, q, fresh, qs, more, list, called
-----------------------------------------------------------------------------
\* Every result is of its own call, and a batch is not refused.
LEMMA BatchAnswerStep ==
  ASSUME BatchInv, NEW q \in batches, Batch!BatchAnswered(q)
  PROVE  BatchInv'
<1> DEFINE list == queues[q].calls
           limit == queues[q].limit
           wanted == [i \in DOMAIN list |-> gets[list[i]].key]
           response == Batch!ServerAnswer(queues[q].endpoint, wanted, limit)
           S == {list[i] : i \in DOMAIN list}
           Position(g) == CHOOSE i \in DOMAIN list : list[i] = g
<1>1. /\ q \in DOMAIN queues /\ list \in Seq(Batch!Gets) /\ limit \in Nat \ {0}
      /\ \A i \in DOMAIN list : gets[list[i]].pc # "none" /\ gets[list[i]].limit = limit
                                 /\ list[i] \in Batch!Gets
      /\ Len(list) <= Batch!BatchWidth(limit)
  <2>1. q \in DOMAIN queues /\ queues[q] \in BatchQueues
    BY QueuesHoldCalls DEF BatchInv
  <2>2. QED
    BY <2>1, QueuesHoldCalls DEF BatchInv, BatchQueues, QueuesFit, ListFits
<1>2. /\ batches' = batches \ {q} /\ UNCHANGED <<queues, open, hit>>
      /\ \/ gets' = Batch!SentAlone(gets, S)
         \/ response.status = 400
         \/ /\ response.status = 200
            /\ gets' = Batch!Settled(gets, [g \in S |-> response.results[Position(g)]])
  BY DEF Batch!BatchAnswered, Batch!AnswerTo
<1>3. response.status # 400
      /\ (response.status = 200 =>
            response.results = [i \in DOMAIN list |-> Batch!BatchResult(wanted[i], limit)])
  <2>1. Len(wanted) = Len(list) /\ DOMAIN wanted = DOMAIN list /\ Len(list) \in Nat
    BY <1>1
  <2>2. Len(wanted) <= BatchKeys /\ Len(wanted) * limit <= BatchBytes
    BY <1>1, <2>1, BatchesFit
  <2> HIDE DEF wanted, limit, list
  <2>3. ~(Len(wanted) > BatchKeys \/ Len(wanted) * limit > BatchBytes)
    <3>1. Len(wanted) \in Int /\ Len(wanted) * limit \in Int /\ BatchKeys \in Int /\ BatchBytes \in Int
      BY <1>1, <2>1, AsksAreSizes
    <3>2. QED
      BY <2>2, <3>1
  <2>4. QED
    BY <2>1, <2>3 DEF Batch!ServerAnswer
<1> HIDE DEF response
<1>4. \A g \in S : Position(g) \in DOMAIN list /\ list[Position(g)] = g
  OBVIOUS
<1>5. CASE gets' = Batch!SentAlone(gets, S)
  <2>1. SentAs(gets', gets, S, "one")
    BY <1>5 DEF SentAs, Batch!SentAlone
  <2>2. \A g \in S : gets[g].pc # "none"
    BY <1>1
  <2> HIDE DEF S
  <2>3. gets \in [Batch!Gets -> BatchCalls] /\ AnswersRight(gets, hit) /\ CallsAreNumbered(gets)
    BY DEF BatchInv
  <2>4. /\ gets' \in [Batch!Gets -> BatchCalls] /\ CallsAreNumbered(gets') /\ AnswersRight(gets', hit)
        /\ SameCalls(gets', gets)
    BY <2>1, <2>2, <2>3, SentKeep
  <2>5. QueuesFit(gets', queues, open)
    BY <2>4, QueuesKeep DEF BatchInv
  <2>6. QED
    BY <1>2, <2>4, <2>5 DEF BatchInv
<1>6. CASE response.status = 200
           /\ gets' = Batch!Settled(gets, [g \in S |-> response.results[Position(g)]])
  <2> DEFINE answer == [g \in S |-> response.results[Position(g)]]
  <2>1. \A g \in S : /\ g \in Batch!Gets /\ gets[g].pc # "none"
                     /\ answer[g] = Batch!BatchResult(gets[g].key, gets[g].limit)
    <3> SUFFICES ASSUME NEW g \in S
                 PROVE  /\ g \in Batch!Gets /\ gets[g].pc # "none"
                        /\ answer[g] = Batch!BatchResult(gets[g].key, gets[g].limit)
      OBVIOUS
    <3>1. Position(g) \in DOMAIN list /\ list[Position(g)] = g
      BY <1>4
    <3> HIDE DEF Position
    <3>2. wanted[Position(g)] = gets[g].key
      BY <3>1
    <3>3. answer[g] = response.results[Position(g)]
          /\ response.results = [i \in DOMAIN list |-> Batch!BatchResult(wanted[i], limit)]
      BY <1>3, <1>6
    <3>4. answer[g] = Batch!BatchResult(wanted[Position(g)], limit)
      BY <3>1, <3>3
    <3>5. QED
      BY <1>1, <3>1, <3>2, <3>4
  <2>2. DOMAIN answer = S
    OBVIOUS
  <2>3. gets' = Batch!Settled(gets, answer)
    BY <1>6
  <2> HIDE DEF answer, S, Position, list
  <2>4. S \subseteq Batch!Gets
    BY <2>1
  <2>5. \A g \in DOMAIN answer :
          gets[g].pc # "none" /\ answer[g] \in AnswersFor(gets[g].key, gets[g].limit, g \in hit')
    BY <2>1, <2>2 DEF AnswersFor
  <2>6. hit \subseteq hit' /\ hit' \subseteq Batch!Gets /\ batches' \subseteq batches
    BY <1>2 DEF BatchInv
  <2>7. QED
    BY <1>2, <2>2, <2>3, <2>4, <2>5, <2>6, SettledKeeps
<1>7. QED
  BY <1>2, <1>3, <1>5, <1>6

\* A failure is the answer to those whose request failed.
LEMMA FailureStep ==
  ASSUME BatchInv, \/ \E q \in batches : Batch!BatchFails(q)
                   \/ \E g \in Batch!Gets : Batch!OneFails(g)
  PROVE  BatchInv'
<1>1. PICK S \in SUBSET Batch!Gets :
        /\ \A g \in S : gets[g].pc # "none"
        /\ hit' = hit \cup S /\ gets' = Batch!Settled(gets, [g \in S |-> "error"])
        /\ UNCHANGED <<queues, open>> /\ batches' \subseteq batches
  <2>1. CASE \E q \in batches : Batch!BatchFails(q)
    <3>1. PICK q \in batches : Batch!BatchFails(q)
      BY <2>1
    <3> DEFINE S == {queues[q].calls[i] : i \in DOMAIN queues[q].calls}
    <3>2. S \subseteq Batch!Gets /\ \A g \in S : gets[g].pc # "none"
      BY QueuesHoldCalls DEF BatchInv, QueuesFit, ListFits
    <3>3. hit' = hit \cup S /\ gets' = Batch!Settled(gets, [g \in S |-> "error"])
          /\ UNCHANGED <<queues, open>> /\ batches' \subseteq batches
      BY <3>1 DEF Batch!BatchFails, Batch!Rejected
    <3> HIDE DEF S
    <3>4. QED
      BY <3>2, <3>3
  <2>2. CASE \E g \in Batch!Gets : Batch!OneFails(g)
    <3>1. PICK g \in Batch!Gets : Batch!OneFails(g)
      BY <2>2
    <3>2. {g} \in SUBSET Batch!Gets /\ \A h \in {g} : gets[h].pc # "none"
      BY <3>1 DEF Batch!OneFails
    <3>3. hit' = hit \cup {g} /\ gets' = Batch!Settled(gets, [h \in {g} |-> "error"])
          /\ UNCHANGED <<queues, open>> /\ batches' \subseteq batches
      BY <3>1 DEF Batch!OneFails
    <3>4. QED
      BY <3>2, <3>3
  <2>3. QED
    BY <2>1, <2>2
<1> DEFINE answer == [g \in S |-> "error"]
<1>2. DOMAIN answer = S /\ \A g \in S : answer[g] = "error"
  OBVIOUS
<1>3. gets' = Batch!Settled(gets, answer)
  BY <1>1
<1> HIDE DEF answer
<1>4. \A g \in DOMAIN answer :
        gets[g].pc # "none" /\ answer[g] \in AnswersFor(gets[g].key, gets[g].limit, g \in hit')
  BY <1>1, <1>2 DEF AnswersFor
<1>5. hit \subseteq hit' /\ hit' \subseteq Batch!Gets
  BY <1>1 DEF BatchInv
<1>6. QED
  BY <1>1, <1>2, <1>3, <1>4, <1>5, SettledKeeps

LEMMA OneAnswerStep ==
  ASSUME BatchInv, NEW g \in Batch!Gets, Batch!OneAnswered(g)
  PROVE  BatchInv'
<1> DEFINE r == Batch!BatchResult(gets[g].key, gets[g].limit)
           v == IF r = "too large" THEN "error" ELSE r
           answer == [h \in {g} |-> v]
<1>1. /\ gets[g].pc = "one" /\ gets' = Batch!Settled(gets, answer)
      /\ UNCHANGED <<queues, open, batches, hit>>
  BY DEF Batch!OneAnswered
<1>2. DOMAIN answer = {g} /\ answer[g] = v
  OBVIOUS
<1> HIDE DEF answer
<1>3. v \in AnswersFor(gets[g].key, gets[g].limit, g \in hit')
  BY DEF AnswersFor
<1>4. QED
  BY <1>1, <1>2, <1>3, SettledKeeps DEF BatchInv

LEMMA BatchStep ==
  ASSUME BatchInv, UNCHANGED batchVars \/ Batch!BatchNext
  PROVE  BatchInv'
<1>1. CASE UNCHANGED batchVars
  BY <1>1 DEF batchVars, BatchInv
<1>2. CASE Batch!BatchNext
  BY <1>2, GetStep, TimerStep, BatchAnswerStep, FailureStep, OneAnswerStep
     DEF Batch!BatchNext, Batch!BatchProgress
<1>3. QED
  BY <1>1, <1>2
-----------------------------------------------------------------------------
(***************************************************************************)
(* Labels of messages.                                                     *)
(***************************************************************************)

Said(id, l) == \E x \in said : x.id = id /\ x.label = l
RowOf(id) == {m \in messages : m.id = id}

LabelTypes ==
  /\ sent \in Seq(Inboxes) /\ Len(sent) <= MaxMessages
  /\ messages \subseteq [id : 1..Len(sent), seq : 1..Len(sent), inbox : Inboxes]
  /\ labels \subseteq [seq : Nat, account : {AccountOf[t] : t \in Tabs}, label : Labels]
  /\ said \subseteq [id : Nat, account : {AccountOf[t] : t \in Tabs}, label : Labels]
  /\ cached \in [Label!Ids -> Nat \cup {Absent, Null}]
  /\ labelCalls \in [Tabs -> [pc : {"idle", "label", "selected", "labelled", "store", "get", "query"},
                              id : 0..Len(sent), label : Nat \cup {Null}, seq : Nat]]

\* Rows have numbers and ids of their own, and labels have a row.
RowsAreApart ==
  /\ \A m, n \in messages : m.id = n.id \/ m.seq = n.seq => m = n
  /\ \A l \in labels : \E m \in messages : m.seq = l.seq

\* A call labels with what was said, stores what was said, and has the number of its message.
LabelCallIsTrue(t) ==
  LET x == labelCalls[t] IN
  /\ x.pc # "idle" => x.id \in DOMAIN sent
  /\ x.pc \in {"label", "selected", "labelled"} =>
       [id |-> x.id, account |-> AccountOf[t], label |-> x.label] \in said
  /\ x.pc = "selected" => \A m \in messages : m.seq = x.seq => m.id = x.id
  /\ x.pc = "selected" => \E m \in messages : m.seq = x.seq
  /\ x.pc = "store" /\ x.label \in Labels => Said(x.id, x.label)
  /\ x.pc = "store" /\ x.label = Null => RowOf(x.id) = {}

LabelInv ==
  /\ LabelTypes /\ RowsAreApart
  /\ \A t \in Tabs : LabelCallIsTrue(t)
  /\ Label!LabelsAreTheirs
  /\ \A id \in Label!Ids : cached[id] \notin {Absent} => id \in DOMAIN sent

LEMMA LabelsStart ==
  ASSUME Label!LabelsInit
  PROVE  LabelInv
<1>1. LabelTypes
  BY LabelsAreNumbers DEF Label!LabelsInit, LabelTypes, Label!Idle, Label!Unlabeled
<1>2. \A t \in Tabs : LabelCallIsTrue(t)
  BY DEF Label!LabelsInit, LabelCallIsTrue, Label!Idle
<1>3. Label!LabelsAreTheirs
  BY LabelsAreNumbers DEF Label!LabelsInit, Label!LabelsAreTheirs
<1>4. QED
  BY <1>1, <1>2, <1>3 DEF LabelInv, RowsAreApart, Label!LabelsInit

\* The next number is above those of all rows.
LEMMA NextSeqIsNew ==
  ASSUME LabelInv
  PROVE  /\ Label!NextSeq \in 1..(Len(sent) + 1)
         /\ \A m \in messages : m.seq < Label!NextSeq
<1> DEFINE S == {m.seq : m \in messages} \cup {0}
           n == Len(sent)
           T == {n - s : s \in S}
           max == CHOOSE x \in S : \A y \in S : x >= y
<1>1. n \in Nat /\ S \subseteq 0..n
  BY DEF LabelInv, LabelTypes
<1>2. T \subseteq Nat /\ T # {}
  <2>1. \A s \in S : n - s \in Nat
    <3> HIDE DEF S, n
    <3>1. QED
      BY <1>1
  <2>2. n - 0 \in T
    OBVIOUS
  <2>3. QED
    BY <2>1, <2>2
<1>3. PICK d \in T : \A y \in T : d <= y
  BY <1>2, LeastOf
<1>4. PICK s \in S : d = n - s
  BY <1>3
<1>5. \A y \in S : s >= y
  <2> SUFFICES ASSUME NEW y \in S PROVE s >= y
    OBVIOUS
  <2>1. n - s <= n - y
    BY <1>3, <1>4
  <2> HIDE DEF S, n
  <2>2. QED
    BY <1>1, <1>4, <2>1
<1>6. max \in S /\ \A y \in S : max >= y
  BY <1>5
<1>7. Label!NextSeq = max + 1
  BY DEF Label!NextSeq, Label!Max
<1> HIDE DEF max
<1>8. \A m \in messages : m.seq \in S
  OBVIOUS
<1> HIDE DEF S, n
<1>9. QED
  BY <1>1, <1>6, <1>7, <1>8 DEF n

\* Calls that go on, and those that begin, are true in a state where nobody took back a
\* word, or gave a number to another message.
Onward(t) ==
  LET x == labelCalls[t] IN
  /\ DOMAIN sent \subseteq DOMAIN sent' /\ said \subseteq said'
  /\ RowOf(x.id)' \subseteq RowOf(x.id) \/ x.id \notin DOMAIN sent
  /\ x.pc = "selected" => {m \in messages' : m.seq = x.seq} = {m \in messages : m.seq = x.seq}

LEMMA CallStaysTrue ==
  ASSUME NEW t \in Tabs, LabelCallIsTrue(t), Onward(t), labelCalls'[t] = labelCalls[t]
  PROVE  LabelCallIsTrue(t)'
BY DEF LabelCallIsTrue, Onward, Said, RowOf

LEMMA SendStep ==
  ASSUME LabelInv, NEW i \in Inboxes, Label!SendMessage(i)
  PROVE  LabelInv'
<1> DEFINE n == Len(sent) + 1
           new == [id |-> n, seq |-> Label!NextSeq, inbox |-> i]
<1>1. /\ sent' = Append(sent, i) /\ messages' = messages \cup {new}
      /\ UNCHANGED <<labels, cached, labelCalls, said>>
      /\ Len(sent) < MaxMessages
  BY DEF Label!SendMessage
<1>2. /\ sent \in Seq(Inboxes) /\ Len(sent) \in Nat /\ Len(sent') = n /\ n \in Label!Ids
      /\ DOMAIN sent = 1..Len(sent) /\ DOMAIN sent' = 1..n
      /\ sent' \in Seq(Inboxes) /\ n <= MaxMessages
  BY <1>1, LabelsAreNumbers DEF LabelInv, LabelTypes, Label!Ids
<1>3. Label!NextSeq \in 1..n /\ \A m \in messages : m.seq < Label!NextSeq
  BY NextSeqIsNew
<1>4. \A m \in messages : m.id \in 1..Len(sent) /\ m.seq \in 1..Len(sent) /\ m.inbox \in Inboxes
  BY DEF LabelInv, LabelTypes
<1>5. new \in [id : 1..n, seq : 1..n, inbox : Inboxes] /\ new.id = n /\ new.seq = Label!NextSeq
  BY <1>2, <1>3
<1> HIDE DEF new
<1>6. LabelTypes'
  <2>1. messages \subseteq [id : 1..Len(sent), seq : 1..Len(sent), inbox : Inboxes]
    BY DEF LabelInv, LabelTypes
  <2>2. messages' \subseteq [id : 1..n, seq : 1..n, inbox : Inboxes]
    <3>1. [id : 1..Len(sent), seq : 1..Len(sent), inbox : Inboxes]
            \subseteq [id : 1..n, seq : 1..n, inbox : Inboxes]
      BY <1>2
    <3>2. QED
      BY <1>1, <1>5, <2>1, <3>1
  <2>3. labelCalls' \in [Tabs -> [pc : {"idle", "label", "selected", "labelled", "store", "get", "query"},
                                  id : 0..n, label : Nat \cup {Null}, seq : Nat]]
    BY <1>1, <1>2 DEF LabelInv, LabelTypes
  <2>4. QED
    BY <1>1, <1>2, <2>2, <2>3 DEF LabelInv, LabelTypes
<1>7. RowsAreApart'
  <2>1. \A m \in messages : m.id # n /\ m.seq # Label!NextSeq
    BY <1>2, <1>3, <1>4
  <2>2. QED
    BY <1>1, <1>5, <2>1 DEF LabelInv, RowsAreApart
<1>8. \A l \in labels : l.seq # Label!NextSeq
  BY <1>2, <1>3, <1>4 DEF LabelInv, RowsAreApart
<1>9. \A t \in Tabs : LabelCallIsTrue(t)'
  <2> SUFFICES ASSUME NEW t \in Tabs PROVE LabelCallIsTrue(t)'
    OBVIOUS
  <2>1. LabelCallIsTrue(t)
    BY DEF LabelInv
  <2>2. labelCalls[t].pc = "selected" => labelCalls[t].seq # Label!NextSeq
    BY <1>2, <1>3, <1>4, <2>1 DEF LabelCallIsTrue
  <2>3. Onward(t)
    BY <1>1, <1>2, <1>5, <2>2 DEF Onward, RowOf
  <2>4. QED
    BY <1>1, <2>1, <2>3, CallStaysTrue
<1>10. Label!LabelsAreTheirs'
  <2>1. n \in Label!Ids /\ cached[n] = Absent /\ Absent # Null
    BY <1>2, LabelsAreNumbers DEF LabelInv
  <2>2. QED
    BY <1>1, <1>5, <1>8, <2>1 DEF LabelInv, Label!LabelsAreTheirs
<1>11. QED
  BY <1>1, <1>2, <1>6, <1>7, <1>9, <1>10 DEF LabelInv

LEMMA DeleteInboxStep ==
  ASSUME LabelInv, ~MayRace, NEW i \in Inboxes, Label!DeleteInbox(i)
  PROVE  LabelInv'
<1> DEFINE kept == {m \in messages : m.inbox # i}
<1>1. /\ messages' = kept
      /\ labels' = {l \in labels : \E m \in kept : m.seq = l.seq}
      /\ \A t \in Tabs, m \in messages \ kept : labelCalls[t].pc = "selected" => labelCalls[t].seq # m.seq
      /\ UNCHANGED <<sent, cached, labelCalls, said>>
  BY DEF Label!DeleteInbox, Label!WithRows
<1>2. kept \subseteq messages
  OBVIOUS
<1> HIDE DEF kept
<1>3. LabelTypes'
  BY <1>1, <1>2 DEF LabelInv, LabelTypes
<1>4. RowsAreApart'
  BY <1>1, <1>2 DEF LabelInv, RowsAreApart
<1>5. \A t \in Tabs : LabelCallIsTrue(t)'
  <2> SUFFICES ASSUME NEW t \in Tabs PROVE LabelCallIsTrue(t)'
    OBVIOUS
  <2>1. LabelCallIsTrue(t)
    BY DEF LabelInv
  <2>2. Onward(t)
    BY <1>1, <1>2 DEF Onward, RowOf
  <2>3. QED
    BY <1>1, <2>1, <2>2, CallStaysTrue
<1>6. Label!LabelsAreTheirs'
  BY <1>1, <1>2 DEF LabelInv, Label!LabelsAreTheirs
<1>7. QED
  BY <1>1, <1>3, <1>4, <1>5, <1>6 DEF LabelInv

\* A tab goes on, and the rows stay as they are.
LEMMA LabelCallSteps ==
  ASSUME LabelInv, NEW t \in Tabs, NEW x,
         x \in [pc : {"idle", "label", "selected", "labelled", "store", "get", "query"},
                id : 0..Len(sent), label : Nat \cup {Null}, seq : Nat],
         labelCalls' = [labelCalls EXCEPT ![t] = x], UNCHANGED <<messages, sent>>,
         said \subseteq said',
         said' \subseteq [id : Nat, account : {AccountOf[u] : u \in Tabs}, label : Labels],
         LabelCallIsTrue(t)',
         labels' \subseteq [seq : Nat, account : {AccountOf[u] : u \in Tabs}, label : Labels],
         cached' \in [Label!Ids -> Nat \cup {Absent, Null}],
         \A id \in Label!Ids : cached'[id] # Absent => id \in DOMAIN sent,
         \A l \in labels' \ labels : \E m \in messages : m.seq = l.seq,
         Label!LabelsAreTheirs'
  PROVE  LabelInv'
<1>1. \A u \in Tabs : u # t => labelCalls'[u] = labelCalls[u]
  BY DEF LabelInv, LabelTypes
<1>2. LabelTypes'
  BY DEF LabelInv, LabelTypes
<1>3. \A u \in Tabs : LabelCallIsTrue(u)'
  <2> SUFFICES ASSUME NEW u \in Tabs, u # t PROVE LabelCallIsTrue(u)'
    OBVIOUS
  <2>1. LabelCallIsTrue(u) /\ Onward(u)
    BY DEF LabelInv, Onward, RowOf
  <2>2. QED
    BY <1>1, <2>1, CallStaysTrue
<1>4. RowsAreApart'
  BY DEF LabelInv, RowsAreApart
<1>5. QED
  BY <1>2, <1>3, <1>4 DEF LabelInv

LabelCalls ==
  [pc : {"idle", "label", "selected", "labelled", "store", "get", "query"},
   id : 0..Len(sent), label : Nat \cup {Null}, seq : Nat]

LEMMA LabelCallBegins ==
  ASSUME LabelInv, NEW t \in Tabs, NEW id \in DOMAIN sent,
         \/ Label!Get(t, id) \/ Label!QueryPage(t, id) \/ \E l \in Labels : Label!Label(t, id, l)
  PROVE  LabelInv'
<1>1. UNCHANGED <<messages, labels, cached, sent>> /\ id \in 0..Len(sent)
  <2>1. UNCHANGED <<messages, labels, cached, sent>>
    BY DEF Label!Get, Label!QueryPage, Label!Label, Label!Begin
  <2>2. QED
    BY <2>1 DEF LabelInv, LabelTypes
<1>2. PICK x \in LabelCalls :
        /\ labelCalls' = [labelCalls EXCEPT ![t] = x] /\ x.id = id
        /\ x.pc \in {"get", "query", "label", "labelled"}
        /\ \/ said' = said /\ x.pc \in {"get", "query"}
           \/ /\ x.label \in Labels
              /\ said' = said \cup {[id |-> id, account |-> AccountOf[t], label |-> x.label]}
  <2>1. ASSUME NEW pc \in {"get", "query"}, labelCalls' = [labelCalls EXCEPT ![t] = [Label!Idle EXCEPT !.id = id, !.pc = pc]],
               said' = said
        PROVE  \E x \in LabelCalls :
                 /\ labelCalls' = [labelCalls EXCEPT ![t] = x] /\ x.id = id
                 /\ x.pc \in {"get", "query"} /\ said' = said
    <3> DEFINE x == [Label!Idle EXCEPT !.id = id, !.pc = pc]
    <3>1. x \in LabelCalls /\ x.id = id /\ x.pc = pc
      BY <1>1 DEF LabelCalls, Label!Idle, Label!Unlabeled
    <3>2. labelCalls' = [labelCalls EXCEPT ![t] = x]
      BY <2>1
    <3> HIDE DEF x
    <3>3. QED
      BY <2>1, <3>1, <3>2
  <2>2. ASSUME NEW l \in Labels, Label!Label(t, id, l)
        PROVE  \E x \in LabelCalls :
                 /\ labelCalls' = [labelCalls EXCEPT ![t] = x] /\ x.id = id
                 /\ x.pc \in {"label", "labelled"} /\ x.label \in Labels
                 /\ said' = said \cup {[id |-> id, account |-> AccountOf[t], label |-> x.label]}
    <3> DEFINE pc == IF AccountOf[t] = Nobody THEN "labelled" ELSE "label"
               x == [Label!Idle EXCEPT !.id = id, !.label = l, !.pc = pc]
    <3>1. x \in LabelCalls /\ x.id = id /\ x.pc \in {"label", "labelled"} /\ x.label = l
      BY <1>1, LabelsAreNumbers DEF LabelCalls, Label!Idle, Label!Unlabeled
    <3>2. /\ labelCalls' = [labelCalls EXCEPT ![t] = x]
          /\ said' = said \cup {[id |-> id, account |-> AccountOf[t], label |-> l]}
      BY <2>2 DEF Label!Label, Label!Begin
    <3> HIDE DEF x
    <3>3. QED
      BY <3>1, <3>2
  <2>3. CASE Label!Get(t, id)
    BY <2>1, <2>3 DEF Label!Get, Label!Begin
  <2>4. CASE Label!QueryPage(t, id)
    BY <2>1, <2>4 DEF Label!QueryPage, Label!Begin
  <2>5. QED
    BY <2>2, <2>3, <2>4
<1>3. said \subseteq said'
      /\ said' \subseteq [id : Nat, account : {AccountOf[u] : u \in Tabs}, label : Labels]
  BY <1>1, <1>2 DEF LabelInv, LabelTypes
<1>4. labelCalls'[t] = x
  BY <1>2 DEF LabelInv, LabelTypes
<1>5. LabelCallIsTrue(t)'
  BY <1>1, <1>2, <1>4 DEF LabelCallIsTrue
<1>6. Label!LabelsAreTheirs'
  <2>1. Label!LabelsAreTheirs
    BY DEF LabelInv
  <2>2. QED
    BY <1>1, <1>3, <2>1 DEF Label!LabelsAreTheirs
<1>7. QED
  BY <1>1, <1>2, <1>3, <1>5, <1>6, LabelCallSteps DEF LabelInv, LabelTypes, LabelCalls

\* A call that goes on without writing.
LEMMA LabelCallGoesOn ==
  ASSUME LabelInv, NEW t \in Tabs, NEW x \in LabelCalls, Label!Continue(t, x),
         UNCHANGED <<labels, cached>>, x.pc # "idle" => x.id \in DOMAIN sent,
         x.pc \in {"label", "selected", "labelled"} =>
           [id |-> x.id, account |-> AccountOf[t], label |-> x.label] \in said,
         x.pc = "selected" => /\ \E m \in messages : m.seq = x.seq
                              /\ \A m \in messages : m.seq = x.seq => m.id = x.id,
         x.pc = "store" /\ x.label \in Labels => Said(x.id, x.label),
         x.pc = "store" /\ x.label = Null => RowOf(x.id) = {}
  PROVE  LabelInv'
<1>1. /\ labelCalls' = [labelCalls EXCEPT ![t] = x] /\ labelCalls'[t] = x
      /\ UNCHANGED <<messages, sent, said>>
  BY DEF Label!Continue, LabelInv, LabelTypes
<1>2. LabelCallIsTrue(t)'
  BY <1>1 DEF LabelCallIsTrue, Said, RowOf
<1>3. Label!LabelsAreTheirs'
  BY <1>1 DEF LabelInv, Label!LabelsAreTheirs
<1>4. QED
  BY <1>1, <1>2, <1>3, LabelCallSteps DEF LabelInv, LabelTypes, LabelCalls

LEMMA IdleGoes ==
  ASSUME LabelInv, NEW t \in Tabs, Label!Continue(t, Label!Idle), UNCHANGED <<labels, cached>>
  PROVE  LabelInv'
<1>1. Label!Idle \in LabelCalls /\ Label!Idle.pc = "idle"
  BY DEF LabelCalls, Label!Idle, Label!Unlabeled, LabelInv, LabelTypes
<1>2. QED
  BY <1>1, LabelCallGoesOn

\* What is selected, and what is answered, is of the message of the call.
LEMMA AnsweredStep ==
  ASSUME LabelInv, NEW t \in Tabs,
         \/ Label!SelectMessage(t) \/ Label!ReadCache(t) \/ Label!Answered(t)
  PROVE  LabelInv'
<1> DEFINE c == labelCalls[t]
<1>1. c \in LabelCalls /\ LabelCallIsTrue(t) /\ UNCHANGED <<labels, cached>>
  BY DEF LabelInv, LabelTypes, LabelCalls, Label!SelectMessage, Label!ReadCache, Label!Answered
<1>2. \A m \in Label!Found(t) : m \in messages /\ m.id = c.id /\ m.seq \in Nat
  BY DEF Label!Found, LabelInv, LabelTypes
<1>3. CASE Label!SelectMessage(t)
  <2>1. CASE Label!Continue(t, Label!Idle)
    BY <1>1, <2>1, IdleGoes
  <2>2. ASSUME NEW m \in Label!Found(t), c.pc = "label",
               Label!Continue(t, [c EXCEPT !.pc = "selected", !.seq = m.seq])
        PROVE  LabelInv'
    <3> DEFINE x == [c EXCEPT !.pc = "selected", !.seq = m.seq]
    <3>1. x \in LabelCalls /\ x.pc = "selected" /\ x.seq = m.seq /\ x.id = c.id /\ x.label = c.label
      BY <1>1, <1>2 DEF LabelCalls
    <3>2. Label!Continue(t, x)
      BY <2>2
    <3> HIDE DEF x
    <3>3. [id |-> x.id, account |-> AccountOf[t], label |-> x.label] \in said /\ x.id \in DOMAIN sent
      BY <1>1, <2>2, <3>1 DEF LabelCallIsTrue
    <3>4. \A r \in messages : r.seq = x.seq => r.id = x.id
      BY <1>2, <3>1 DEF LabelInv, RowsAreApart
    <3>5. \E r \in messages : r.seq = x.seq
      BY <1>2, <3>1
    <3>6. QED
      BY <1>1, <3>1, <3>2, <3>3, <3>4, <3>5, LabelCallGoesOn
  <2>3. QED
    BY <1>3, <2>1, <2>2 DEF Label!SelectMessage
<1>4. CASE Label!ReadCache(t)
  <2>1. CASE Label!Continue(t, Label!Idle)
    BY <1>1, <2>1, IdleGoes
  <2>2. CASE Label!Continue(t, [c EXCEPT !.pc = "store"])
    <3> DEFINE x == [c EXCEPT !.pc = "store"]
    <3>1. x \in LabelCalls /\ x.pc = "store" /\ x.id = c.id /\ x.label = c.label
      BY <1>1 DEF LabelCalls
    <3>2. [id |-> c.id, account |-> AccountOf[t], label |-> c.label] \in said /\ c.id \in DOMAIN sent
      BY <1>1, <1>4 DEF LabelCallIsTrue, Label!ReadCache
    <3>3. Said(c.id, c.label) /\ c.label # Null
      BY <3>2, LabelsAreNumbers DEF Said, LabelInv, LabelTypes
    <3> HIDE DEF x
    <3>4. QED
      BY <1>1, <2>2, <3>1, <3>2, <3>3, LabelCallGoesOn DEF x
  <2>3. QED
    BY <1>4, <2>1, <2>2 DEF Label!ReadCache
<1>5. CASE Label!Answered(t)
  <2>1. CASE Label!Continue(t, Label!Idle)
    BY <1>1, <2>1, IdleGoes
  <2>2. ASSUME NEW l \in Nat \cup {Null}, Label!Continue(t, [c EXCEPT !.pc = "store", !.label = l]),
               l \in Labels => Said(c.id, l), l = Null => RowOf(c.id) = {}
        PROVE  LabelInv'
    <3> DEFINE x == [c EXCEPT !.pc = "store", !.label = l]
    <3>1. x \in LabelCalls /\ x.pc = "store" /\ x.id = c.id /\ x.label = l
      BY <1>1 DEF LabelCalls
    <3>2. Label!Continue(t, x)
      BY <2>2
    <3>3. c.id \in DOMAIN sent
      BY <1>1, <1>5 DEF LabelCallIsTrue, Label!Answered
    <3> HIDE DEF x
    <3>4. QED
      BY <1>1, <2>2, <3>1, <3>2, <3>3, LabelCallGoesOn
  <2>3. ASSUME NEW m \in Label!Found(t)
        PROVE  LET l == Label!LabelOf(m, AccountOf[t]) IN
                 l \in Nat /\ (l \in Labels => Said(c.id, l))
    <3>1. CASE \E l \in labels : l.seq = m.seq /\ l.account = AccountOf[t]
      <4> DEFINE own == CHOOSE l \in labels : l.seq = m.seq /\ l.account = AccountOf[t]
      <4>1. own \in labels /\ own.seq = m.seq /\ own.account = AccountOf[t]
        BY <3>1
      <4>2. Label!LabelOf(m, AccountOf[t]) = own.label
        BY <3>1 DEF Label!LabelOf
      <4> HIDE DEF own
      <4>3. [id |-> m.id, account |-> own.account, label |-> own.label] \in said
        BY <1>2, <4>1 DEF LabelInv, Label!LabelsAreTheirs
      <4>4. own.label \in Labels
        BY <4>1 DEF LabelInv, LabelTypes
      <4>5. QED
        BY <1>2, <4>2, <4>3, <4>4, LabelsAreNumbers DEF Said
    <3>2. CASE ~\E l \in labels : l.seq = m.seq /\ l.account = AccountOf[t]
      BY <3>2, LabelsAreNumbers DEF Label!LabelOf, Label!Unlabeled
    <3>3. QED
      BY <3>1, <3>2
  <2>4. ASSUME NEW m \in Label!Found(t),
               Label!Continue(t, [c EXCEPT !.pc = "store", !.label = Label!LabelOf(m, AccountOf[t])])
        PROVE  LabelInv'
    <3> DEFINE l == Label!LabelOf(m, AccountOf[t])
    <3>1. l \in Nat /\ (l \in Labels => Said(c.id, l)) /\ l # Null
      BY <2>3, LabelsAreNumbers
    <3> HIDE DEF l
    <3>2. QED
      BY <2>2, <2>4, <3>1 DEF l
  <2>5. ASSUME Label!Found(t) = {}, Label!MayRead(t, c.id),
               Label!Continue(t, [c EXCEPT !.pc = "store", !.label = Null])
        PROVE  LabelInv'
    <3>1. RowOf(c.id) = {} /\ Null \notin Labels
      BY <2>5, LabelsAreNumbers DEF RowOf, Label!Found
    <3>2. QED
      BY <2>2, <2>5, <3>1
  <2>6. QED
    BY <1>5, <2>1, <2>4, <2>5 DEF Label!Answered
<1>6. QED
  BY <1>3, <1>4, <1>5

\* A label is inserted for the message whose number was selected.
LEMMA InsertStep ==
  ASSUME LabelInv, NEW t \in Tabs, Label!InsertLabel(t)
  PROVE  LabelInv'
<1> DEFINE c == labelCalls[t]
           new == [seq |-> c.seq, account |-> AccountOf[t], label |-> c.label]
           x == [c EXCEPT !.pc = "labelled"]
<1>1. c \in LabelCalls /\ LabelCallIsTrue(t) /\ c.pc = "selected" /\ cached' = cached
  BY DEF LabelInv, LabelTypes, LabelCalls, Label!InsertLabel
<1>2. /\ [id |-> c.id, account |-> AccountOf[t], label |-> c.label] \in said
      /\ \A m \in messages : m.seq = c.seq => m.id = c.id
      /\ \E m \in messages : m.seq = c.seq
      /\ c.id \in DOMAIN sent
  BY <1>1 DEF LabelCallIsTrue
<1>3. /\ labels' \subseteq labels \cup {new} /\ Label!Continue(t, x)
  BY <1>2 DEF Label!InsertLabel
<1>4. /\ labelCalls' = [labelCalls EXCEPT ![t] = x] /\ UNCHANGED <<messages, sent, said>>
      /\ labelCalls'[t] = x
  BY <1>3 DEF Label!Continue, LabelInv, LabelTypes
<1>5. x \in LabelCalls /\ x.pc = "labelled" /\ x.id = c.id /\ x.label = c.label
  BY <1>1 DEF LabelCalls
<1>6. c.label \in Labels
  BY <1>2 DEF LabelInv, LabelTypes
<1>7. new.seq = c.seq /\ new.account = AccountOf[t] /\ new.label = c.label
      /\ new \in [seq : Nat, account : {AccountOf[u] : u \in Tabs}, label : Labels]
  BY <1>1, <1>6 DEF LabelCalls
<1> HIDE DEF x, new
<1>8. LabelCallIsTrue(t)'
  BY <1>2, <1>4, <1>5 DEF LabelCallIsTrue
<1>9. Label!LabelsAreTheirs'
  BY <1>1, <1>2, <1>3, <1>4, <1>7 DEF LabelInv, Label!LabelsAreTheirs
<1>10. labels' \subseteq [seq : Nat, account : {AccountOf[u] : u \in Tabs}, label : Labels]
       /\ \A l \in labels' \ labels : \E m \in messages : m.seq = l.seq
  BY <1>2, <1>3, <1>7 DEF LabelInv, LabelTypes
<1>11. QED
  BY <1>1, <1>4, <1>5, <1>8, <1>9, <1>10, LabelCallSteps DEF LabelInv, LabelTypes, LabelCalls

LEMMA StoreStep ==
  ASSUME LabelInv, NEW t \in Tabs, Label!StoreInCache(t)
  PROVE  LabelInv'
<1> DEFINE c == labelCalls[t]
<1>1. c \in LabelCalls /\ LabelCallIsTrue(t) /\ c.pc = "store" /\ labels' = labels
      /\ cached' = [cached EXCEPT ![c.id] = c.label]
      /\ labelCalls' = [labelCalls EXCEPT ![t] = Label!Idle] /\ UNCHANGED <<messages, sent, said>>
      /\ labelCalls'[t] = Label!Idle
  BY DEF LabelInv, LabelTypes, LabelCalls, Label!StoreInCache, Label!Continue
<1>2. /\ c.label \in Labels => Said(c.id, c.label)
      /\ c.label = Null => RowOf(c.id) = {}
  BY <1>1 DEF LabelCallIsTrue
<1>3. c.id \in DOMAIN sent /\ c.id \in Label!Ids /\ c.label \in Nat \cup {Absent, Null}
  BY <1>1, LabelsAreNumbers DEF LabelCallIsTrue, LabelInv, LabelTypes, Label!Ids, LabelCalls
<1>4. /\ cached' \in [Label!Ids -> Nat \cup {Absent, Null}] /\ cached'[c.id] = c.label
      /\ \A id \in Label!Ids : id # c.id => cached'[id] = cached[id]
  BY <1>1, <1>3 DEF LabelInv, LabelTypes
<1>5. Label!Idle \in LabelCalls /\ Label!Idle.pc = "idle"
  BY DEF LabelCalls, Label!Idle, Label!Unlabeled, LabelInv, LabelTypes
<1>6. LabelCallIsTrue(t)'
  BY <1>1, <1>5 DEF LabelCallIsTrue
<1>7. Label!LabelsAreTheirs'
  <2>1. \A id \in Label!Ids : cached'[id] \in Labels => \E y \in said : y.id = id /\ y.label = cached'[id]
    BY <1>2, <1>3, <1>4 DEF LabelInv, Label!LabelsAreTheirs, Said
  <2>2. \A m \in messages : cached'[m.id] # Null
    <3>1. \A m \in messages : m.id \in Label!Ids
      BY LabelsAreNumbers DEF LabelInv, LabelTypes, Label!Ids
    <3>2. QED
      BY <1>2, <1>3, <1>4, <3>1 DEF LabelInv, Label!LabelsAreTheirs, RowOf
  <2>3. QED
    BY <1>1, <2>1, <2>2 DEF LabelInv, Label!LabelsAreTheirs
<1>8. QED
  BY <1>1, <1>3, <1>4, <1>5, <1>6, <1>7, LabelCallSteps DEF LabelInv, LabelTypes, LabelCalls

LEMMA LabelStep ==
  ASSUME LabelInv, ~MayRace, UNCHANGED labelVars \/ Label!LabelsNext
  PROVE  LabelInv'
<1>1. CASE UNCHANGED labelVars
  BY <1>1 DEF labelVars, LabelInv, LabelTypes, RowsAreApart, LabelCallIsTrue, Said, RowOf,
              Label!LabelsAreTheirs
<1>2. CASE Label!LabelsNext
  BY <1>2, SendStep, DeleteInboxStep, LabelCallBegins, AnsweredStep, InsertStep, StoreStep
     DEF Label!LabelsNext
<1>3. QED
  BY <1>1, <1>2

\* Gets answer with the value of their own key, and labels are of the message that they
\* were given to, while inboxes are not deleted between the statements of a label: for
\* any limits, faults, old servers, inboxes and tabs.
THEOREM AnswersFitTheirAsks ==
  ASSUME ~MayRace
  PROVE  PagesSpec => []AnswersAreOwn
<1> DEFINE OwnInv == BatchInv /\ LabelInv
<1>1. PagesInit => OwnInv
  BY BatchStarts, LabelsStart DEF PagesInit
<1>2. OwnInv /\ [PagesNext]_pagesVars => OwnInv'
  <2>1. SUFFICES ASSUME OwnInv, [PagesNext]_pagesVars PROVE OwnInv'
    OBVIOUS
  <2>2. /\ UNCHANGED batchVars \/ Batch!BatchNext
        /\ UNCHANGED labelVars \/ Label!LabelsNext
    BY <2>1, StepsAreOfOne
  <2>3. QED
    BY <2>1, <2>2, BatchStep, LabelStep
<1>3. OwnInv => AnswersAreOwn
  <2>1. BatchInv => Batch!AnswersAreOwn
    BY DEF BatchInv, AnswersRight, AnswersFor, Batch!AnswersAreOwn, Batch!RightAnswers
  <2>2. QED
    BY <2>1 DEF LabelInv, AnswersAreOwn
<1>4. QED
  BY <1>1, <1>2, <1>3, PTL DEF PagesSpec
-----------------------------------------------------------------------------
(***************************************************************************)
(* Views of objects.                                                       *)
(***************************************************************************)

InScope(u, who) == u \in stored /\ who \in Audience[u]

GetTypes ==
  /\ args \in [url : Urls, user : Users] /\ run \in Nat \ {0}
  /\ calls \subseteq [run : Nat, url : Urls, user : Users,
                      answer : {"asked", "found", "missing", "failed"}]
  /\ stored \subseteq Urls /\ erased \subseteq Urls \ stored

\* Gets of the last run are for its arguments; what was found may be read, and what was
\* missing stays so.
CallIsOwn(c) ==
  /\ c.run <= run
  /\ c.run = run => c.url = args.url /\ c.user = args.user
  /\ c.answer = "found" => c.user \in Audience[c.url]
  /\ c.answer = "missing" => ~InScope(c.url, c.user)

\* An object that is shown is stored, or its deletion will be told to the listener.
ShownIsStored ==
  /\ object \in {Null, Undefined, args.url}
  /\ object = args.url => args.user \in Audience[args.url]
  /\ mounted /\ object = args.url =>
       listening /\ (outdated \/ args.url \in stored \cup erased)
  /\ object = Null /\ ~failed => ~InScope(args.url, args.user)

\* A view that shows nothing yet waits for its poll.
LoadingIsPolled ==
  /\ InProcess /\ mounted /\ object = Undefined => polling = "getting"
  /\ polling = "getting" => \E c \in calls : c.run = run

GetInv == GetTypes /\ (\A c \in calls : CallIsOwn(c)) /\ ShownIsStored /\ LoadingIsPolled

GetCalls ==
  [run : Nat, url : Urls, user : Users, answer : {"asked", "found", "missing", "failed"}]

LEMMA CallsOf ==
  ASSUME NEW r \in Nat, NEW a \in [url : Urls, user : Users]
  PROVE  /\ Object!Call(r, a) \in GetCalls /\ Object!Call(r, a).run = r
         /\ Object!Call(r, a).url = a.url /\ Object!Call(r, a).user = a.user
         /\ Object!Call(r, a).answer = "asked"
BY DEF Object!Call, GetCalls

LEMMA GetStarts ==
  ASSUME Object!GetInit
  PROVE  GetInv
<1>1. PICK a \in [url : Urls, user : Users] : args = a /\ calls = {Object!Call(1, a)}
  BY DEF Object!GetInit, Object!Args
<1>2. QED
  BY <1>1, CallsOf, UrlsAreApart
     DEF Object!GetInit, GetInv, GetTypes, GetCalls, CallIsOwn, ShownIsStored, LoadingIsPolled, InScope

LEMMA WatchStep ==
  ASSUME GetInv, NEW a \in Object!Args, Object!Watch(a)
  PROVE  GetInv'
<1> DEFINE c == Object!Call(run + 1, a)
<1>1. run + 1 \in Nat \ {0} /\ a \in [url : Urls, user : Users]
  BY DEF GetInv, GetTypes, Object!Args
<1>2. /\ c \in GetCalls /\ c.run = run + 1 /\ c.url = a.url /\ c.user = a.user /\ c.answer = "asked"
  BY <1>1, CallsOf
<1>3. /\ args' = a /\ run' = run + 1 /\ calls' = calls \cup {c} /\ object' = Undefined
      /\ polling' = "getting" /\ UNCHANGED <<stored, erased>>
  BY DEF Object!Watch
<1> HIDE DEF c
<1>4. GetTypes'
  BY <1>1, <1>2, <1>3 DEF GetInv, GetTypes, GetCalls
<1>5. \A d \in calls' : CallIsOwn(d)'
  <2> SUFFICES ASSUME NEW d \in calls' PROVE CallIsOwn(d)'
    OBVIOUS
  <2>1. CASE d = c
    BY <1>1, <1>2, <1>3, <2>1 DEF CallIsOwn
  <2>2. CASE d \in calls
    <3>1. d.run <= run /\ d.run \in Nat /\ run \in Nat /\ CallIsOwn(d)
      BY <2>2 DEF GetInv, GetTypes, CallIsOwn
    <3>2. QED
      BY <1>3, <3>1 DEF CallIsOwn, InScope
  <2>3. QED
    BY <1>3, <2>1, <2>2
<1>6. ShownIsStored' /\ LoadingIsPolled'
  BY <1>1, <1>2, <1>3, UrlsAreApart DEF ShownIsStored, LoadingIsPolled
<1>7. QED
  BY <1>4, <1>5, <1>6 DEF GetInv

\* A poll, and a get by another part of the page.
LEMMA PollStep ==
  ASSUME GetInv, Object!Poll \/ \E a \in Object!Args : Object!GetBesides(a)
  PROVE  GetInv'
<1>1. PICK r \in {0, run}, a \in [url : Urls, user : Users] :
        /\ calls' = calls \cup {Object!Call(r, a)} /\ (r = run => a = args)
        /\ polling' = (IF r = run THEN "getting" ELSE polling)
        /\ \/ object' = object /\ failed' = failed
           \/ object' = object /\ ~failed
           \/ object' = Undefined /\ r = run
        /\ UNCHANGED <<stored, args, run, mounted, listening, erased, outdated>>
  <2>1. CASE Object!Poll
    <3>1. args \in [url : Urls, user : Users]
      BY DEF GetInv, GetTypes
    <3>2. /\ calls' = calls \cup {Object!Call(run, args)} /\ polling' = "getting"
          /\ \/ object' = object /\ ~failed
             \/ object' = Undefined
          /\ UNCHANGED <<stored, args, run, mounted, listening, erased, outdated>>
      BY <2>1 DEF Object!Poll
    <3>3. QED
      BY <3>1, <3>2
  <2>2. ASSUME NEW a \in Object!Args, Object!GetBesides(a)
        PROVE  /\ calls' = calls \cup {Object!Call(0, a)} /\ a \in [url : Urls, user : Users]
               /\ UNCHANGED <<object, failed, polling>>
               /\ UNCHANGED <<stored, args, run, mounted, listening, erased, outdated>>
    BY <2>2 DEF Object!GetBesides, Object!Args
  <2>3. 0 # run
    BY DEF GetInv, GetTypes
  <2>4. QED
    BY <2>1, <2>2, <2>3
<1> DEFINE c == Object!Call(r, a)
<1>2. /\ c \in GetCalls /\ c.run = r /\ c.url = a.url /\ c.user = a.user /\ c.answer = "asked"
      /\ r \in Nat /\ r <= run
  <2>1. r \in Nat /\ r <= run
    BY DEF GetInv, GetTypes
  <2>2. QED
    BY <2>1, CallsOf
<1> HIDE DEF c
<1>3. calls' = calls \cup {c}
  BY <1>1 DEF c
<1>4. GetTypes'
  BY <1>1, <1>2, <1>3 DEF GetInv, GetTypes, GetCalls
<1>5. \A d \in calls' : CallIsOwn(d)'
  BY <1>1, <1>2, <1>3 DEF GetInv, CallIsOwn, InScope
<1>6. ShownIsStored'
  BY <1>1, UrlsAreApart DEF GetInv, GetTypes, ShownIsStored, InScope
<1>7. LoadingIsPolled'
  BY <1>1, <1>2, <1>3 DEF GetInv, LoadingIsPolled
<1>8. QED
  BY <1>4, <1>5, <1>6, <1>7 DEF GetInv

\* What an object comes to is decided when it is read.
LEMMA ReadStep ==
  ASSUME GetInv, NEW c \in calls, Object!Read(c) \/ Object!GetFails(c)
  PROVE  GetInv'
<1>1. PICK answer \in {"found", "missing", "failed"} :
        /\ calls' = (calls \ {c}) \cup {[c EXCEPT !.answer = answer]}
        /\ answer = "found" => InScope(c.url, c.user)
        /\ answer = "missing" => ~InScope(c.url, c.user)
        /\ UNCHANGED <<stored, args, run, mounted, listening, object, failed, polling, erased, outdated>>
  BY DEF Object!Read, Object!GetFails, Object!Answered, InScope
<1> DEFINE d == [c EXCEPT !.answer = answer]
<1>2. c \in GetCalls
  BY DEF GetInv, GetTypes, GetCalls
<1>3. d \in GetCalls /\ d.run = c.run /\ d.url = c.url /\ d.user = c.user /\ d.answer = answer
  BY <1>2 DEF GetCalls
<1>4. calls' = (calls \ {c}) \cup {d}
  BY <1>1
<1> HIDE DEF d
<1>5. GetTypes'
  BY <1>1, <1>3, <1>4 DEF GetInv, GetTypes, GetCalls
<1>6. \A e \in calls' : CallIsOwn(e)'
  BY <1>1, <1>3, <1>4 DEF GetInv, CallIsOwn, InScope
<1>7. ShownIsStored' /\ LoadingIsPolled'
  BY <1>1, <1>3, <1>4 DEF GetInv, ShownIsStored, LoadingIsPolled, InScope
<1>8. QED
  BY <1>5, <1>6, <1>7 DEF GetInv

\* What the listener is told keeps what is shown right.
LEMMA DispatchKeeps ==
  ASSUME GetInv, NEW u \in Urls, NEW value \in {u, Null}, Object!Dispatched(u, value),
         value = Null => u \notin stored, UNCHANGED <<stored, args, mounted, listening>>,
         value = u \/ u \in erased, erased' = erased \/ (value = Null /\ erased' = erased \ {u})
  PROVE  ShownIsStored' /\ (object # Undefined => object' # Undefined)
<1>1. CASE listening /\ u = args.url /\ args.user \in Audience[u]
  <2>1. object' = value /\ outdated' = (value = u /\ u \notin stored)
    BY <1>1 DEF Object!Dispatched
  <2>2. QED
    BY <1>1, <2>1, UrlsAreApart DEF ShownIsStored, InScope
<1>2. CASE ~(listening /\ u = args.url /\ args.user \in Audience[u])
  <2>1. UNCHANGED <<object, failed, outdated>>
    BY <1>2 DEF Object!Dispatched
  <2>2. args.url \in Urls
    BY DEF GetInv, GetTypes
  <2>3. QED
    BY <1>2, <2>1, <2>2, UrlsAreApart DEF GetInv, ShownIsStored, InScope
<1>3. QED
  BY <1>1, <1>2

LEMMA ReturnStep ==
  ASSUME GetInv, NEW c \in calls, Object!Returns(c)
  PROVE  GetInv'
<1>1. /\ c.answer # "asked" /\ calls' = calls \ {c}
      /\ c.answer = "found" /\ InProcess /\ Object!IsActive(c) => listening
      /\ polling' = IF c.run = run THEN "settling" ELSE polling
      /\ UNCHANGED <<stored, args, run, mounted, listening, erased>>
      /\ IF c.answer = "found" THEN Object!Dispatched(c.url, c.url)
         ELSE IF Object!IsActive(c)
         THEN object' = Null /\ failed' = (c.answer = "failed") /\ outdated' = FALSE
         ELSE UNCHANGED <<object, failed, outdated>>
  BY DEF Object!Returns
<1>2. c \in GetCalls /\ CallIsOwn(c)
  BY DEF GetInv, GetTypes, GetCalls
<1>3. c.url \in Urls /\ args.url \in Urls /\ c.answer \in {"found", "missing", "failed"}
  BY <1>1, <1>2 DEF GetCalls, GetInv, GetTypes
<1>4. ShownIsStored' /\ (object # Undefined => object' # Undefined)
  <2>1. CASE c.answer = "found"
    <3>1. Object!Dispatched(c.url, c.url) /\ c.url # Null /\ c.url \in {c.url, Null}
      BY <1>1, <1>3, <2>1, UrlsAreApart
    <3>2. UNCHANGED <<stored, args, mounted, listening>> /\ erased' = erased
      BY <1>1
    <3>3. QED
      BY <1>3, <3>1, <3>2, DispatchKeeps
  <2>2. CASE c.answer # "found" /\ Object!IsActive(c)
    BY <1>1, <1>2, <1>3, <2>2, UrlsAreApart DEF ShownIsStored, Object!IsActive, CallIsOwn, InScope
  <2>3. CASE c.answer # "found" /\ ~Object!IsActive(c)
    BY <1>1, <2>3 DEF GetInv, ShownIsStored, InScope
  <2>4. QED
    BY <2>1, <2>2, <2>3
<1>5. LoadingIsPolled'
  <2>1. InProcess /\ mounted /\ c.run = run => object' # Undefined
    <3>1. CASE c.answer = "found"
      <4>1. c.run = run => c.url = args.url /\ args.user \in Audience[c.url]
        BY <1>2, <3>1 DEF CallIsOwn
      <4>2. QED
        BY <1>1, <1>3, <3>1, <4>1, UrlsAreApart DEF Object!Dispatched, Object!IsActive
    <3>2. CASE c.answer # "found"
      BY <1>1, <3>2, UrlsAreApart DEF Object!IsActive
    <3>3. QED
      BY <3>1, <3>2
  <2>2. QED
    BY <1>1, <1>4, <2>1 DEF GetInv, LoadingIsPolled
<1>6. GetTypes' /\ \A d \in calls' : CallIsOwn(d)'
  BY <1>1 DEF GetInv, GetTypes, CallIsOwn, InScope
<1>7. QED
  BY <1>4, <1>5, <1>6 DEF GetInv

LEMMA GetDeleteStep ==
  ASSUME GetInv, NEW u \in Urls, \/ \E here \in BOOLEAN : Object!Delete(u, here)
                                 \/ Object!DeleteReturns(u)
  PROVE  GetInv'
<1>1. CASE \E here \in BOOLEAN : Object!Delete(u, here)
  <2>1. PICK here \in BOOLEAN : Object!Delete(u, here)
    BY <1>1
  <2>2. /\ u \in stored /\ stored' = stored \ {u}
        /\ erased' = (IF here THEN erased \cup {u} ELSE erased)
        /\ outdated' = (outdated \/ (~here /\ u = args.url))
        /\ UNCHANGED <<args, run, mounted, listening, object, failed, polling, calls>>
    BY <2>1 DEF Object!Delete
  <2>3. GetTypes' /\ LoadingIsPolled'
    BY <2>2 DEF GetInv, GetTypes, LoadingIsPolled
  <2>4. \A c \in calls' : CallIsOwn(c)'
    BY <2>2 DEF GetInv, CallIsOwn, InScope
  <2>5. ShownIsStored'
    BY <2>2 DEF GetInv, ShownIsStored, InScope
  <2>6. QED
    BY <2>3, <2>4, <2>5 DEF GetInv
<1>2. CASE Object!DeleteReturns(u)
  <2>1. /\ u \in erased /\ erased' = erased \ {u} /\ Object!Dispatched(u, Null)
        /\ UNCHANGED <<stored, args, run, mounted, listening, polling, calls>>
    BY <1>2 DEF Object!DeleteReturns
  <2>2. u \notin stored
    BY <2>1 DEF GetInv, GetTypes
  <2>3. ShownIsStored' /\ (object # Undefined => object' # Undefined)
    BY <2>1, <2>2, DispatchKeeps
  <2>4. GetTypes' /\ LoadingIsPolled' /\ \A c \in calls' : CallIsOwn(c)'
    BY <2>1, <2>3 DEF GetInv, GetTypes, LoadingIsPolled, CallIsOwn, InScope
  <2>5. QED
    BY <2>3, <2>4 DEF GetInv
<1>3. QED
  BY <1>1, <1>2

\* The listener comes and goes, and a poll settles.
LEMMA ListenStep ==
  ASSUME GetInv, Object!Listen \/ Object!Unmount \/ Object!Settled
  PROVE  GetInv'
BY DEF GetInv, GetTypes, CallIsOwn, ShownIsStored, LoadingIsPolled, InScope,
       Object!Listen, Object!Unmount, Object!Settled

LEMMA ObjectStep ==
  ASSUME GetInv, UNCHANGED objectVars \/ Object!GetNext
  PROVE  GetInv'
<1>1. CASE UNCHANGED objectVars
  BY <1>1 DEF objectVars, GetInv, GetTypes, CallIsOwn, ShownIsStored, LoadingIsPolled, InScope
<1>2. CASE Object!GetNext
  BY <1>2, WatchStep, PollStep, ReadStep, ReturnStep, GetDeleteStep, ListenStep
     DEF Object!GetNext, Object!GetProgress
<1>3. QED
  BY <1>1, <1>2

LEMMA QuietIsRight ==
  ASSUME GetInv
  PROVE  Object!ObjectsAreOwn
<1>1. object \notin {Null, Undefined} => object = args.url /\ args.user \in Audience[object]
  BY DEF GetInv, ShownIsStored
<1>2. ASSUME Object!Quiet, ~failed, ~outdated, InProcess \/ object # Undefined
      PROVE  object = IF args.url \in stored /\ args.user \in Audience[args.url]
                      THEN args.url ELSE Null
  <2>1. mounted /\ polling = "none" /\ calls = {} /\ erased = {}
    BY <1>2 DEF Object!Quiet
  <2>2. object # Undefined
    BY <1>2, <2>1 DEF GetInv, LoadingIsPolled
  <2>3. CASE object = Null
    BY <1>2, <2>3 DEF GetInv, ShownIsStored, InScope
  <2>4. CASE object = args.url
    BY <1>2, <2>1, <2>4 DEF GetInv, ShownIsStored
  <2>5. QED
    BY <2>2, <2>3, <2>4 DEF GetInv, ShownIsStored
<1>3. QED
  BY <1>1, <1>2 DEF Object!ObjectsAreOwn

\* A view shows the object that it is for, to a session that is allowed it; and once
\* nothing is on its way, what is stored, or nothing: for any urls, sessions, audiences
\* and gets.
THEOREM ObjectsFit == PagesSpec => []Object!ObjectsAreOwn
<1>1. PagesInit => GetInv
  BY GetStarts DEF PagesInit
<1>2. GetInv /\ [PagesNext]_pagesVars => GetInv'
  BY StepsAreOfOne, ObjectStep
<1>3. GetInv => Object!ObjectsAreOwn
  BY QuietIsRight
<1>4. QED
  BY <1>1, <1>2, <1>3, PTL DEF PagesSpec
=============================================================================
