------------------------------ MODULE NestedSites ------------------------------
(***************************************************************************)
(* The frames of an embedding site and one account at its guard: which     *)
(* frames are told of the account, and what they may do with the data of   *)
(* others without asking.  Each page wraps the Graffiti that it gives to a *)
(* frame (withGuardSource), so that a call of the frame gets the path of   *)
(* the frame on its way up, and a session event loses what is not for the  *)
(* frame on its way down.                                                  *)
(*                                                                         *)
(* An event passes all frames in one step; relays, their replay and the    *)
(* states of requests are in IframeRpc, remembered rules in DataGuard.     *)
(***************************************************************************)
EXTENDS Integers, Sequences, FiniteSets, SequencesExt

CONSTANTS
  Frames,        \* paths of the frames, from the embedding page <<>>
  Claims,        \* sources that a page puts into its own calls itself
  FirstGrants,   \* approvals of earlier visits
  None,
  MaxSiteEvents  \* bound

VARIABLES
  live,      \* the account is logged in at the guard
  ready,     \* the accounts of the guard are restored
  returning, \* the source for which the page was left to log in, if any
  grants,    \* LoginAccess: approved sources of this embedding site
  shared,    \* the guard has told the embedding page of the account
  mounted,   \* frames that are in their pages
  sites,     \* by page: approved paths inside it; none while it has no account
  prompts,   \* logins and logouts that wait for the user, the one shown first
  ending,    \* the implementation is logging the account out
  item,      \* an object or a medium of the account, with its stamp
  dealt,     \* history: what last was done without a prompt
  untold,    \* history: a logout failed, or another tab changed the approvals
  siteEvents

loginVars == <<live, ready, returning, grants, shared, ending>>
siteVars == <<loginVars, mounted, sites, prompts, item, dealt, untold, siteEvents>>

SitesInit ==
  /\ live = FALSE /\ ready = FALSE /\ returning = None
  /\ grants \in FirstGrants
  /\ shared = FALSE
  /\ mounted = {<<>>} /\ sites = [p \in Frames |-> {}]
  /\ prompts = <<>> /\ ending = FALSE
  /\ item = None /\ dealt = None /\ untold = FALSE
  /\ siteEvents = 0

Counts == siteEvents < MaxSiteEvents /\ siteEvents' = siteEvents + 1
-----------------------------------------------------------------------------
(* Paths *)

\* siteId() of what is inside.  The origin, in front of all, is the embedding page's.

\* The source that a call of page p with a claim has when it is at the guard: each
\* page on the way up has put the segment of its frame in front (addSource()).
SourceOf(p, claim) == p \o claim

MutIsWithinSource(source, via) == IsPrefix(source, via) \/ IsPrefix(via, source)  \* mutant: both ways
IsWithinSource(source, via) == IsPrefix(source, via)

Allows(source) == \E g \in grants : IsWithinSource(source, g)

\* revoke(): the page around keeps the login that it had through the source.
Revoked(source) ==
  LET rest == {g \in grants : ~IsWithinSource(source, g)}
  IN IF rest = grants \/ source = <<>> THEN rest ELSE rest \cup {Front(source)}
-----------------------------------------------------------------------------
(* Session events on their way down *)

LoggedIn(paths) == [type |-> "login", paths |-> paths, left |-> FALSE]
SiteLeft(paths) == [type |-> "login", paths |-> paths, left |-> TRUE]
LoggedOut == [type |-> "logout"]
Nothing == [type |-> "none"]

\* The approved paths inside frame p, of those inside the page around it.
Inner(p, paths) ==
  IF p = <<>> THEN paths ELSE {Tail(q) : q \in {r \in paths : r # <<>> /\ Head(r) = Last(p)}}

MutForward(p, e) ==  \* mutant: a site that was left is only left out
  IF e.type = "login" /\ Inner(p, e.paths) # {} THEN [e EXCEPT !.paths = Inner(p, @)]
  ELSE IF e.type = "logout" /\ sites[p] # {} THEN e ELSE Nothing
\* forward(), for frame p, of an event of the page around it.
Forward(p, e) ==
  CASE e.type = "login" /\ Inner(p, e.paths) # {} -> [e EXCEPT !.paths = Inner(p, @)]
    [] e.type = "login" /\ Inner(p, e.paths) = {} /\ e.left /\ sites[p] # {} -> LoggedOut
    [] e.type = "logout" /\ sites[p] # {} -> e
    [] OTHER -> Nothing

\* All pages are told, from the embedding page on.
Tell(event) ==
  LET seen[p \in Frames] == Forward(p, IF p = <<>> THEN event ELSE seen[Front(p)])
  IN sites' = [p \in Frames |->
                 CASE p \notin mounted          -> {}
                   [] seen[p].type = "login"    -> seen[p].paths
                   [] seen[p].type = "logout"   -> {}
                   [] OTHER                     -> sites[p]]

\* visibleSession(): no account is shown before something is approved.
TellApproved ==
  /\ shared' = (shared \/ grants' # {})
  /\ Tell(IF grants' # {} THEN LoggedIn(grants') ELSE Nothing)
-----------------------------------------------------------------------------
(* The sessions of the implementation, and the page *)

SessionStarts ==
  /\ Counts /\ ~live /\ live' = TRUE
  /\ grants' = grants /\ TellApproved
  /\ UNCHANGED <<ready, returning, mounted, prompts, ending, item, dealt, untold>>

\* The session ends, by a logout of this page or for another reason.
SessionEnds ==
  /\ Counts /\ live /\ live' = FALSE
  /\ grants' = {} /\ shared' = FALSE
  /\ Tell(IF shared THEN LoggedOut ELSE Nothing)
  /\ ending' = FALSE
  /\ UNCHANGED <<ready, returning, mounted, prompts, item, dealt, untold>>

LogoutFails ==
  /\ Counts /\ ending /\ ending' = FALSE
  /\ untold' = TRUE
  /\ UNCHANGED <<live, ready, returning, grants, shared, mounted, sites, prompts, item, dealt>>

\* The guard has its accounts; a login that comes back is approved.
Initialized ==
  /\ Counts /\ ~ready /\ ready' = TRUE
  /\ returning' = None
  /\ \/ /\ returning # None /\ live
        /\ grants' = grants \cup {returning} /\ TellApproved
     \/ /\ returning = None \/ ~live
        /\ UNCHANGED <<grants, shared, sites>>
  /\ UNCHANGED <<live, mounted, prompts, ending, item, dealt, untold>>

\* The embedding page is loaded anew, perhaps with the login of a source.
Leave(source) ==
  /\ live' = FALSE /\ ready' = FALSE /\ returning' = source /\ shared' = FALSE
  /\ mounted' = {<<>>} /\ sites' = [p \in Frames |-> {}]
  /\ prompts' = <<>> /\ ending' = FALSE /\ untold' = FALSE
  /\ UNCHANGED <<grants, item, dealt>>
Reload == Counts /\ Leave(None)

\* A frame gets what the page around it was told last.
Mount(p) ==
  /\ Counts /\ p \notin mounted /\ Front(p) \in mounted
  /\ mounted' = mounted \cup {p}
  /\ sites' = [sites EXCEPT ![p] = Inner(p, sites[Front(p)])]
  /\ UNCHANGED <<loginVars, prompts, item, dealt, untold>>
Unmount(p) ==
  /\ Counts /\ p \in mounted
  /\ mounted' = {q \in mounted : ~IsPrefix(p, q)}
  /\ sites' = [q \in Frames |-> IF IsPrefix(p, q) THEN {} ELSE sites[q]]
  /\ UNCHANGED <<loginVars, prompts, item, dealt, untold>>

\* Another tab of the embedding site: this one is not told.
Elsewhere(source) ==
  /\ Counts /\ live /\ untold' = TRUE
  /\ \/ grants' = grants \cup {source}
     \/ Allows(source) /\ grants' = Revoked(source)
  /\ UNCHANGED <<live, ready, returning, shared, ending, mounted, sites, prompts, item, dealt>>
-----------------------------------------------------------------------------
(* Logins and logouts of sources *)

\* requestLogin(): without an account to choose, the page is left.
AskLogin(p, claim) ==
  /\ Counts /\ p \in mounted /\ ready
  /\ \/ ~live /\ Leave(SourceOf(p, claim))
     \/ /\ live
        /\ prompts' = Append(prompts, [kind |-> "login", source |-> SourceOf(p, claim)])
        /\ UNCHANGED <<loginVars, mounted, sites, item, dealt, untold>>

\* Apps log out accounts that they were told of.
AskLogout(p, claim) ==
  /\ Counts /\ sites[p] # {} /\ Allows(SourceOf(p, claim))
  /\ prompts' = Append(prompts, [kind |-> "logout", source |-> SourceOf(p, claim)])
  /\ UNCHANGED <<loginVars, mounted, sites, item, dealt, untold>>

Shown(kind) == prompts # <<>> /\ Head(prompts).kind = kind
Close == prompts' = Tail(prompts)
UNCHANGEDbyPrompts == UNCHANGED <<ready, returning, live, mounted, item, dealt, untold, siteEvents>>

\* The account is chosen, while it is still there.
Choose ==
  /\ Shown("login") /\ live /\ Close
  /\ grants' = grants \cup {Head(prompts).source} /\ TellApproved
  /\ UNCHANGED ending /\ UNCHANGEDbyPrompts

\* Another account: the page is left for a login.
LoginAnother == Counts /\ Shown("login") /\ Leave(Head(prompts).source)

\* "This site": the pages are told what remains.
LeaveSite ==
  /\ Shown("logout") /\ Allows(Head(prompts).source) /\ Close
  /\ grants' = Revoked(Head(prompts).source)
  /\ Tell(SiteLeft(grants'))
  /\ UNCHANGED <<shared, ending>> /\ UNCHANGEDbyPrompts

\* "All sites": the approvals go at once, the pages are told when it is done.
LeaveAll ==
  /\ Shown("logout") /\ Allows(Head(prompts).source) /\ Close
  /\ grants' = {} /\ ending' = live
  /\ UNCHANGED <<shared, sites>> /\ UNCHANGEDbyPrompts

\* The prompt is cancelled, or nothing can come of it any more.
Cancel ==
  /\ prompts # <<>> /\ Close
  /\ UNCHANGED <<grants, shared, ending, sites>> /\ UNCHANGEDbyPrompts
-----------------------------------------------------------------------------
(* Data *)

\* The guard puts the source into the value of an object, or into the type of a
\* medium, and finds it there again.  An app without the guard leaves no stamp.
Stamp(source, guarded) == IF guarded THEN source ELSE None

\* preparePost() and its like for media.
Post(p, claim, private, guarded) ==
  /\ Counts /\ item = None /\ p \in mounted /\ Allows(SourceOf(p, claim))
  /\ item' = [by |-> p, claim |-> claim, private |-> private,
              stamp |-> Stamp(SourceOf(p, claim), guarded)]
  /\ UNCHANGED <<loginVars, mounted, sites, prompts, dealt, untold>>

\* prepareObjectRead(), prepareDelete() and their like for media.
Asks(method, source) ==
  /\ item.stamp # None
  /\ method = "read" => item.private
  /\ ~IsWithinSource(source, item.stamp)

\* An object is read, alone or in a stream, or deleted, and no one is asked.
Deal(p, claim, method) ==
  LET source == SourceOf(p, claim) IN
  /\ item # None /\ p \in mounted /\ Allows(source)
  /\ ~Asks(method, source)
  /\ dealt' = [page |-> p, method |-> method, item |-> item]
  /\ item' = IF method = "delete" THEN None ELSE item
  /\ UNCHANGED <<loginVars, mounted, sites, prompts, untold, siteEvents>>

SitesNext ==
  \/ SessionStarts \/ SessionEnds \/ LogoutFails \/ Initialized \/ Reload
  \/ \E p \in Frames \ {<<>>} : Mount(p) \/ Unmount(p)
  \/ \E p \in Frames : Elsewhere(p)
  \/ \E p \in Frames, claim \in Claims :
       \/ AskLogin(p, claim) \/ AskLogout(p, claim)
       \/ \E private, guarded \in BOOLEAN : Post(p, claim, private, guarded)
       \/ \E method \in {"read", "delete"} : Deal(p, claim, method)
  \/ Choose \/ LoginAnother \/ LeaveSite \/ LeaveAll \/ Cancel
-----------------------------------------------------------------------------
\* What each page is told of the account is what is approved inside it, through
\* logins and logouts of any frame, frames that come late and sessions that end,
\* but while the account is logging out, and after changes that no one is told of.
SitesFollowApprovals ==
  ~ending /\ ~untold =>
    \A p \in mounted :
      sites[p] = IF live THEN {SubSeq(g, Len(p) + 1, Len(g)) : g \in {h \in grants : IsPrefix(p, h)}}
                 ELSE {}

\* Without a prompt, private data are read, and data deleted, only by the page that
\* posted them and those around it, or by one that the poster said it is.
UnpromptedIsUpward ==
  dealt # None /\ dealt.item.stamp # None /\ (dealt.item.private \/ dealt.method = "delete") =>
    IsPrefix(dealt.page, dealt.item.by \o dealt.item.claim)

\* As SitesFollowApprovals, also after changes that no one is told of.
SitesAlwaysFollow ==
  ~ending => \A p \in mounted : sites[p] # {} => live /\ Allows(p)
=============================================================================
