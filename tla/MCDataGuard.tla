----------------------------- MODULE MCDataGuard -----------------------------
(***************************************************************************)
(* Small instances, for TLC, of the parts of the data guard.  They share   *)
(* nothing: the subject, chosen at first, says which of them takes steps.  *)
(***************************************************************************)
EXTENDS DataGuard, TLC

CONSTANTS
  Subjects,  \* the parts that are checked
  Segments, Frames, Claims, FirstGrants, MaxSiteEvents,  \* of NestedSites
  Accounts, AuditRules, AccountOf, SitesOf, StartChoices, FirstRules, PageSize,
  MaxAuditEvents,  \* of AuditPanel
  c, d, e, user, other  \* model values

ASSUME PathsAreOfSegments == Frames \cup Claims \subseteq Seq(Segments)
ASSUME NoneIsNoAccount == None \notin Accounts
ASSUME AuditTypes ==
  /\ \A choice \in StartChoices : choice.account \in Accounts \cup {None}
  /\ \A first \in FirstRules : first \subseteq AuditRules

VARIABLES
  subject,
  live, ready, returning, grants, shared, mounted, sites, prompts, ending, item, dealt,
  untold, siteEvents,
  kept, gone, sessions, account, found, loading, filter, newest, page, busy, failure, address,
  agreed, revoked, auditEvents

\* A site with a frame, and one with a frame in its frame.
SiteAndFrame == {<<>>, <<1>>}
NestedFrames == {<<>>, <<1>>, <<1, 2>>}

Nested == INSTANCE NestedSites
Panel == INSTANCE AuditPanel WITH Rules <- AuditRules

\* A frame with a frame in it, and another one.
FrameInFrame == {<<>>, <<c>>, <<c, d>>, <<e>>}
OwnOrDeeper == {<<>>, <<d>>}
EarlierLogins == {{}, {<<c, d>>, <<e>>}}

\* Two of the rules of a user are of the first site, two of the second; the rules of
\* another user are of the first.
UserOfRule == <<user, user, user, other>>
SitesOfRule == <<{c}, {c, d}, {d}, {c}>>
WithOrWithoutLink == {[account |-> None, sites |-> {}], [account |-> user, sites |-> {c}]}
ManyOrFew == {{1, 2, 3}, {2, 4}}
-----------------------------------------------------------------------------
nestedVars == <<live, ready, returning, grants, shared, mounted, sites, prompts, ending, item,
                dealt, untold, siteEvents>>
panelVars == <<kept, gone, sessions, account, found, loading, filter, newest, page, busy, failure,
               address, agreed, revoked, auditEvents>>
guardVars == <<subject, vars, nestedVars, panelVars>>

\* Nothing changes but for the subject s, which takes a step.
Only(s) ==
  /\ subject = s /\ UNCHANGED subject
  /\ s # "requests" => UNCHANGED vars
  /\ s # "frames" => UNCHANGED nestedVars
  /\ s # "audit" => UNCHANGED panelVars

GuardInit ==
  /\ subject \in Subjects
  /\ Init /\ Nested!SitesInit /\ Panel!AuditInit
  /\ subject # "frames" => grants = {}
  /\ subject # "audit" => kept = (CHOOSE first \in FirstRules : TRUE) /\ sessions = {} /\ filter = {}

GuardNext ==
  \/ Only("requests") /\ Next
  \/ Only("frames") /\ Nested!SitesNext
  \/ Only("audit") /\ Panel!AuditNext

\* The fairness of DataGuard.
GuardSpec ==
  /\ GuardInit /\ [][GuardNext]_guardVars
  /\ WF_guardVars(Only("requests") /\ \E r \in Requests : Step(r))
  /\ WF_guardVars(Only("requests") /\ \E s \in Sources \ loaded : Waiting(s) /\ Discovered(s, TRUE))

(* The properties of the parts, each stated with its comment in its module. *)

\* Each page is told of the account what is approved inside it.
SitesFollowApprovals == Nested!SitesFollowApprovals
\* Without a prompt, data go to the pages around the one that posted them.
UnpromptedIsUpward == Nested!UnpromptedIsUpward

\* Only what the user confirmed is revoked, by the session of its account.
RevokesAreConfirmed == Panel!RevokesAreConfirmed

(* A property that is left out of the run. *)

PageHasRules == Panel!PageHasRules

(* Properties that the code does not have: see the README. *)

\* No page goes on with an account that is not approved any more.
SitesAlwaysFollow == Nested!SitesAlwaysFollow
=============================================================================
