-------------------------------- MODULE MCPages --------------------------------
(***************************************************************************)
(* Small instances, for TLC, of the parts of pages that wait for requests  *)
(* and for users.  They share nothing: the subject, chosen at first, says  *)
(* which of them takes steps, and the others stay as they are.             *)
(***************************************************************************)
EXTENDS GuardLogin, TLC

CONSTANTS
  Subjects,  \* the parts that are checked
  MaxGets, Asks, OldEndpoints, Stored, BatchKeys, BatchBytes, MaxFaults,      \* StorageBatch
  v1, v2, anonymous, user, m1, m2, MaxImages, MaxEvents,                      \* MediaViews
  Accounts, NoAccount, StartCookies, MaxPageEvents, Failed,                   \* BrowserAccounts
  Visitors, VisitorCookies, Holders,                                          \* ConsentPage
  NewAccounts, Complete,                                                      \* CreateIdentity
  Names, BadNames, Domains, BadDomains, NoText, MaxFormEvents,                \* HandleForms
  Windows, Own, External, NoActor, Unknown, Revisits, MaxActorEvents,         \* ActorPages
  MaxPosts, MaxMixed, MaxSent,                                                        \* ObjectCopies
  Views, Handles, Leaving, MaxIdentityEvents,                                 \* LocalIdentity
  Urls, Users, Audience, InProcess, Null, MaxGetEvents,                       \* LiveGet
  Inboxes, Shared, OwnerOf, AccountOf, Nobody, Labels, Absent, MayRace,
  MaxMessages, MaxCalls,                                                      \* MessageLabels
  Undefined,
  t1, t2, app, other, a1, a2, a3, a4, u1, u2, i1, i2                          \* model values

ASSUME CookiesNameAccounts == StartCookies \subseteq Seq(Accounts)
ASSUME NewAccountsAreAccounts == NewAccounts \subseteq Accounts /\ NoAccount \notin Accounts
ASSUME NumbersAreOnlyLogins == {None, Leaving} \cap Nat = {}
ASSUME FailedIsNoHandle == {None, Failed} \cap Handles = {}
ASSUME FailedIsNotNone == Failed # None
ASSUME OwnAreNumbered == 1 \in Own /\ Own \subseteq Nat \ {0} /\ \A a \in Own : 1..a \subseteq Own
ASSUME AsksAreSizes ==
  /\ \A a \in Asks : a.key \in DOMAIN Stored /\ a.limit \in Int
  /\ MaxGets \in Nat /\ BatchKeys \in Nat /\ BatchBytes \in Nat
ASSUME LabelsAreNumbers ==
  /\ Labels \subseteq Nat \ {0} /\ {Absent, Null} \cap Nat = {} /\ Absent # Null
  /\ MaxMessages \in Nat
ASSUME UrlsAreApart == {Null, Undefined} \cap Urls = {} /\ Null # Undefined
ASSUME HoldersAreAccounts == {Undefined, Failed} \cap Holders = {}

VARIABLES
  subject,
  gets, queues, open, batches, unsupported, faults, hit,
  record, bytes, author, fetches, caches, view, runs, events, asked, late,
  cookies, accounts, selected, refreshes, pageEvents,
  trusted, searches, shown, lookups, autoTried, approval, failedOnce, gone,
  step, registered, request, pieceError, piece, rows, disturbed,
  choice, actor, name, seq, timer, checks, status, statusOf, pending, domain,
  verifying, verified, errorOf, changes, taken, published, alias, left, formEvents,
  row, controls, keys, files, window, visited, lost, had, returned, actorEvents,
  posts, bucket, inbox, label, mixed, deletions,
  handles, ticket, todo, inHand, told, asking, logins, ended, identityEvents,
  stored, args, run, mounted, listening, object, failed, polling, calls, erased, outdated,
  getEvents,
  inboxes, messages, labels, cached, labelCalls, sent, begun, said
-----------------------------------------------------------------------------
\* Two tabs of two apps.
TwoApps == (t1 :> app) @@ (t2 :> other)

\* Servers with and without batches; limits of batches and of single gets.
Ask(e, k, n) == [endpoint |-> e, key |-> k, limit |-> n]
SomeAsks ==
  {Ask("new", "x", 2), Ask("new", "y", 2), Ask("old", "x", 2), Ask("new", "z", 1),
   Ask("new", "x", 1), Ask("new", "y", 6), Ask("old", "z", 1)}
SomeBytes == [x |-> 1, y |-> 3, z |-> -1]
Batch == INSTANCE StorageBatch

\* A public image, and another medium for one user only.
Found == (m1 :> {anonymous, user}) @@ (m2 :> {user})
Media == INSTANCE MediaViews WITH
  Views <- {v1, v2}, Media <- {m1, m2}, Users <- {anonymous, user}, Readers <- Found,
  Images <- {m1}, Acceptable <- {m1, m2}, Starts <- {[media |-> m1, user |-> user]}

\* Nobody is logged in, or two accounts, of which the second owns it all.
NoneOrTwo == {<<>>, <<a1, a2>>}
Consent == INSTANCE ConsentPage WITH Accounts <- Visitors, StartCookies <- VisitorCookies

\* The creation of the second account was given up; the fourth is new.
GivenUpOrComplete == {<<>>, <<a2, a1>>, <<a1, a3>>}
Creation == INSTANCE CreateIdentity

Handle == INSTANCE HandleForms
Actor == INSTANCE ActorPages

\* A public object and a public medium; objects for the author and another, and twice for
\* one.
Draft(kind, value, channels, allowed) ==
  [kind |-> kind, value |-> value, channels |-> channels, allowed |-> allowed]
SomeDrafts ==
  {Draft("object", "v", <<"x", "y", "x">>, Undefined), Draft("media", "w", <<>>, Undefined),
   Draft("object", "w", <<"x">>, <<"ann", "bob">>), Draft("object", "v", <<"y">>, <<"bob", "bob">>)}
Copies == INSTANCE ObjectCopies WITH
  Author <- "ann", Everyone <- "all", Recipients <- {"bob"}, Drafts <- SomeDrafts

Identity == INSTANCE LocalIdentity WITH Names <- Handles

\* A public object, and one for one user; gets run in the page.
PublicAndPrivate == (u1 :> {anonymous, user}) @@ (u2 :> {user})
Object == INSTANCE LiveGet

\* Two inboxes of an account, and two tabs, one of which has no account.
OneOwner == (i1 :> a1) @@ (i2 :> a1)
OneToken == (t1 :> a1) @@ (t2 :> Nobody)
Label == INSTANCE MessageLabels WITH calls <- labelCalls
-----------------------------------------------------------------------------
batchVars == <<gets, queues, open, batches, unsupported, faults, hit>>
mediaVars == <<record, bytes, author, fetches, caches, view, runs, events, asked, late>>
accountVars == <<cookies, accounts, selected, refreshes, pageEvents>>
consentVars == <<trusted, searches, shown, lookups, autoTried, approval, failedOnce, gone>>
createVars == <<step, registered, request, pieceError, piece, rows, disturbed>>
handleVars == <<choice, actor, name, seq, timer, checks, status, statusOf, pending, domain,
                verifying, verified, errorOf, changes, taken, published, alias, left, formEvents>>
actorVars == <<row, controls, keys, files, window, visited, lost, had, returned, actorEvents>>
copiesVars == <<posts, bucket, inbox, label, mixed, deletions>>
identityVars == <<handles, ticket, todo, inHand, told, asking, logins, ended, identityEvents>>
objectVars == <<stored, args, run, mounted, listening, object, failed, polling, calls, erased,
                outdated, getEvents>>
labelVars == <<inboxes, messages, labels, cached, labelCalls, sent, begun, said>>
pagesVars == <<subject, vars, batchVars, mediaVars, accountVars, consentVars, createVars,
               handleVars, actorVars, copiesVars, identityVars, objectVars, labelVars>>

\* Consent and creation are two pages with the accounts of one browser.
PagesInit ==
  /\ subject \in Subjects
  /\ Init /\ Batch!BatchInit /\ Media!MediaInit /\ Handle!HandleFormInit
  /\ Consent!ConsentInit /\ Creation!CreateInit /\ Actor!ActorsInit /\ Copies!CopiesInit
  /\ Identity!IdentityInit /\ Object!GetInit /\ Label!LabelsInit
  /\ subject # "actor" => row.actor = 1
  /\ subject # "consent" => ~trusted
  /\ subject # "object" => stored = {} /\ args = [url |-> u1, user |-> user]
  /\ subject \notin {"consent", "creation"} => cookies = <<>>

\* Nothing changes but for the subject s, which takes a step.
Only(s) ==
  /\ subject = s /\ UNCHANGED subject
  /\ s # "login" => UNCHANGED vars
  /\ s # "batch" => UNCHANGED batchVars
  /\ s # "media" => UNCHANGED mediaVars
  /\ s \notin {"consent", "creation"} => UNCHANGED accountVars
  /\ s # "consent" => UNCHANGED consentVars
  /\ s # "creation" => UNCHANGED createVars
  /\ s # "handle" => UNCHANGED handleVars
  /\ s # "actor" => UNCHANGED actorVars
  /\ s # "copies" => UNCHANGED copiesVars
  /\ s # "identity" => UNCHANGED identityVars
  /\ s # "object" => UNCHANGED objectVars
  /\ s # "labels" => UNCHANGED labelVars

PagesNext ==
  \/ Only("login") /\ Next
  \/ Only("batch") /\ Batch!BatchNext
  \/ Only("media") /\ Media!MediaNext
  \/ Only("consent") /\ Consent!ConsentNext
  \/ Only("creation") /\ Creation!CreateNext
  \/ Only("handle") /\ Handle!HandleFormNext
  \/ Only("actor") /\ Actor!ActorPagesNext
  \/ Only("copies") /\ Copies!CopiesNext
  \/ Only("identity") /\ Identity!IdentityNext
  \/ Only("object") /\ Object!GetNext
  \/ Only("labels") /\ Label!LabelsNext

\* Requests are answered, timers fire and callbacks run; pages load.
PagesProgress ==
  \/ Only("batch") /\ Batch!BatchProgress
  \/ Only("media") /\ Media!MediaProgress
  \/ Only("object") /\ Object!GetProgress
  \/ Only("consent") /\ Consent!ConsentProgress
  \/ Only("login") /\ \E t \in Tabs : Progress(t)

PagesSpec ==
  /\ PagesInit /\ [][PagesNext]_pagesVars
  /\ WF_pagesVars(PagesProgress)
-----------------------------------------------------------------------------
(* The properties of the parts, each stated with its comment in its module. *)

\* A get of a storage bucket is answered with the value of its own key, and a message
\* of an inbox with labels that were given to it.
AnswersAreOwn == Batch!AnswersAreOwn /\ Label!LabelsAreTheirs

\* A view shows the medium, or the object, and the session that it is for; that of a
\* medium frees its data URLs, and that of an object is up to date.
ViewsAreOwn == Media!ViewsAreOwn /\ Object!ObjectsAreOwn
\* A poll of a view ends with a fetch that was made after it.
PollsAreFresh == Media!PollsAreFresh
\* A medium whose record is found has its bytes.
FoundHasBytes == Media!FoundHasBytes

\* An approval is asked of an account that owns every requested service.
ApprovalsAreForOwners == Consent!ApprovalsAreForOwners

\* The pieces of a new identity belong to its new account.
PiecesAreOfTheNewAccount == Creation!PiecesAreOfTheNewAccount
\* A handle is offered as it was checked.
OffersAreChecked == Handle!OffersAreChecked
\* The key of an actor is dropped only once the user has it.
NewKeysAreSaved == Actor!NewKeysAreSaved

\* What a valid copy of an object says is what its author posted.
ValidCopiesAreTrue == Copies!ValidCopiesAreTrue
\* No inbox yields an object that its author has deleted.
DeletionsReachReaders == Copies!DeletionsReachReaders

\* A login of the local implementation is answered once, with what was entered.
IdentitiesAreAnswered == Identity!IdentitiesAreAnswered

\* What someone waits for: a get, a poll, the page of consent, or the outcome of a login.
SomethingIsDue ==
  \/ Batch!GetsWait
  \/ Media!PollsRun
  \/ subject = "object" /\ Object!GetsWait
  \/ subject = "consent" /\ Consent!IsBusy
  \/ OutcomesAreDue

\* GetsSettle, PollsEnd, PagesMoveOn and OutcomesReturn: every get of a storage bucket
\* is answered, every poll of a view ends, the page of consent leads somewhere, and what
\* the user did about a login reaches the app, if it is a success or the app gave a state.
PagesSettle == SomethingIsDue ~> ~SomethingIsDue

(* Properties that the code does not have: see the README. *)

\* A poll that has ended leaves nothing loading, also where gets run in another window.
PollsLoad == Object!PollsLoad

\* A poll never ends with an older fetch, whatever changes.
PollsBypassTheCache == Media!PollsBypassTheCache
\* No account of the list owns it all, when the page says so.
NoneHasAccess == Consent!NoneHasAccess
\* The pieces of a new identity belong to one account, whatever happens elsewhere.
PiecesOfOneAccount == Creation!PiecesOfOneAccount
\* A failed piece of an identity can be made by trying again.
RetriesCanSucceed == Creation!RetriesCanSucceed
\* The status of a handle is about the name in the form.
StatusIsForName == Handle!StatusIsForName
\* The error below a domain is about this domain.
ErrorIsForDomain == Handle!ErrorIsForDomain
\* No key is dropped that the user does not have.
NoKeyIsLost == Actor!NoKeyIsLost
\* A deletion withdraws every copy.
DeletionsNameTheirCopies == Copies!DeletionsNameTheirCopies
\* A deletion reaches every inbox, by whatever copy it goes.
MisledDeletionsReach == Copies!MisledDeletionsReach
\* Every copy that is sent is found correct.
SentCopiesAreValid == Copies!SentCopiesAreValid
\* What became of a login reaches the app, whether it gave a state or not.
LoginsReturn == EveryOutcomeReturns
\* The tabs of a site learn of each other's logouts.
AppsFollowLogouts == Identity!AppsFollowLogouts
=============================================================================
