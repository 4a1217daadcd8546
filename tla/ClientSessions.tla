--------------------------- MODULE ClientSessions ---------------------------
(***************************************************************************)
(* The logins of one browser.  A login is the tokens of its providers; the *)
(* open pages share a list of logins in a cookie, and those of one site a  *)
(* copy in localStorage.  A page reads the list as it loads and never      *)
(* switches to other credentials afterwards; a login attempt leaves the    *)
(* page, and comes back in a page that restores it from localStorage.      *)
(*                                                                         *)
(* JavaScript runs to the next await without a pause: that is a step here, *)
(* and what a page still waits for is in its tasks.  Pages of one browser  *)
(* take their steps one at a time.                                         *)
(***************************************************************************)
EXTENDS Integers, Sequences, FiniteSets

CONSTANTS
  Tabs, Sites, Actors,
  SiteOf,       \* the site of a tab
  Embedded,     \* tabs whose pages may be refused the cookie
  Providers,    \* number of authorization endpoints of each actor
  NewTabs,      \* whether the link to create an account is opened in a new tab
  MaxAttempts,  \* bound
  Undefined, NoActor

Attempts == 1..MaxAttempts
NoAttempt == 0

VARIABLES
  tab,       \* the page of each tab
  cookie,    \* the logins in the cookie
  local,     \* the logins in the localStorage of each site
  saved,     \* pending attempts in localStorage: attempt -> its progress
  oauth,     \* pending OAuth states in localStorage
  visiting,  \* attempts at the provider to create or recover an account
  attempts,  \* attempts so far
  revoked,   \* tokens that the providers refuse
  due,       \* history: logins that the cookie must still hold
  late       \* history: logins forgotten for an answer to their predecessor

vars == <<tab, cookie, local, saved, oauth, visiting, attempts, revoked, due, late>>

States == UNION {[attempt : Attempts, provider : 1..Providers[a], actor : {a}] : a \in Actors}
Tokens == States  \* a token answers an OAuth state
Logins == UNION {[actor : {a}, tokens : [1..Providers[a] -> Tokens]] : a \in Actors}
None == [actor |-> NoActor, tokens |-> <<>>]  \* no login; an attempt without progress

NoState == [attempt |-> NoAttempt, provider |-> 1, actor |-> NoActor]
NotSaved == [actor |-> Undefined, tokens |-> <<>>]
Closed == [page |-> "closed", access |-> FALSE, leaving |-> FALSE, dialog |-> FALSE,
           mine |-> {}, current |-> NoAttempt, progress |-> None,
           active |-> NoAttempt, activeState |-> NoState, tasks |-> {}, told |-> [a \in Actors |-> None]]

Init ==
  /\ tab = [t \in Tabs |-> Closed]
  /\ cookie = Undefined
  /\ local = [s \in Sites |-> {}]
  /\ saved = [s \in Sites |-> [n \in Attempts |-> NotSaved]]
  /\ oauth = [s \in Sites |-> {}]
  /\ visiting = {}
  /\ attempts = 0
  /\ revoked = {} /\ due = {} /\ late = {}
-----------------------------------------------------------------------------
(* The list of logins.                                                     *)

OfActor(S, a) == {l \in S : l.actor = a}
TokensOf(l) == {l.tokens[i] : i \in DOMAIN l.tokens}

\* readCookie(): a page without storage access reads nothing.
Shared(access) == IF access THEN cookie ELSE Undefined

\* loggedInSessions of a page that has read its list: a login that left the
\* cookie has ended here too, but no new one is taken up.
MutHeld(t) ==  \* mutant: the cookie is taken as it is
  IF Shared(tab[t].access) = Undefined THEN tab[t].mine ELSE cookie
Held(t) ==
  IF Shared(tab[t].access) = Undefined THEN tab[t].mine ELSE tab[t].mine \cap cookie

\* What reading the list leaves in localStorage, and tells the application.
LocalAfterRead(t) ==
  IF tab[t].mine \subseteq Held(t) THEN local[SiteOf[t]] ELSE cookie
ToldAfterRead(t) ==
  [a \in Actors |-> IF OfActor(tab[t].mine \ Held(t), a) # {} THEN None ELSE tab[t].told[a]]

MutUpdated(S, l, remove) ==  \* mutant: whatever login the actor has is removed
  {k \in S : k.actor # l.actor} \cup IF remove THEN {} ELSE {l}
MutAppended(S, l, remove) ==  \* mutant: the actor's old login stays
  IF remove THEN S \ {l} ELSE S \cup {l}
Updated(S, l, remove) ==
  IF remove THEN S \ {l} ELSE {k \in S : k.actor # l.actor} \cup {l}

\* updateSession() on the two stores, which it reads afresh.
StoresUpdated(t, l, remove, localNow) ==
  LET shared == Shared(tab[t].access) IN
  /\ cookie' = IF tab[t].access /\ (shared # Undefined \/ ~remove)
                 THEN Updated(IF shared = Undefined THEN {} ELSE shared, l, remove)
                 ELSE cookie
  /\ local' = [local EXCEPT ![SiteOf[t]] = Updated(localNow, l, remove)]
-----------------------------------------------------------------------------
(* Pages.                                                                  *)

\* A page loads: the list is read, the copy is written, logins are announced.
Loaded(t, access) ==
  LET list == IF Shared(access) # Undefined THEN cookie ELSE local[SiteOf[t]] IN
  [Closed EXCEPT !.page = "open", !.access = access, !.mine = list,
                 !.told = [a \in Actors |-> IF OfActor(list, a) = {} THEN None
                                            ELSE CHOOSE l \in OfActor(list, a) : TRUE]]

Access(t) == IF t \in Embedded THEN BOOLEAN ELSE {TRUE}

Open(t) ==
  /\ tab[t].page = "closed"
  /\ \E access \in Access(t) :
       /\ tab' = [tab EXCEPT ![t] = Loaded(t, access)]
       /\ local' = [local EXCEPT ![SiteOf[t]] = tab'[t].mine]
  /\ UNCHANGED <<cookie, saved, oauth, visiting, attempts, revoked, due, late>>

\* The page is closed, reloaded, or left by the navigation that it began.
Close(t) ==
  /\ tab[t].page # "closed"
  /\ tab' = [tab EXCEPT ![t] = Closed]
  /\ UNCHANGED <<cookie, local, saved, oauth, visiting, attempts, revoked, due, late>>

\* LoginAttempts.restore() for the attempt that a redirect names; it is given
\* up when localStorage no longer has it.
Restored(t, n, page) ==
  LET found == saved[SiteOf[t]][n] # NotSaved IN
  [page EXCEPT !.current = IF found THEN n ELSE NoAttempt,
               !.progress = IF found THEN saved[SiteOf[t]][n] ELSE None,
               !.active = IF found THEN @ ELSE NoAttempt]

\* completeOauth(): the provider redirects to the page with a code or an error.
\* It is told apart when the code is exchanged.
Return(t, s) ==
  /\ tab[t].page = "closed"
  /\ s \in oauth[SiteOf[t]]
  /\ \A u \in Tabs : tab[u].activeState # s
  /\ \E access \in Access(t) :
       /\ tab' = [tab EXCEPT ![t] =
            Restored(t, s.attempt, [Loaded(t, access) EXCEPT
              !.active = s.attempt,
              !.tasks = {[kind |-> "grant", attempt |-> s.attempt,
                          provider |-> s.provider, actor |-> s.actor]}])]
       /\ local' = [local EXCEPT ![SiteOf[t]] = tab'[t].mine]
  /\ oauth' = [oauth EXCEPT ![SiteOf[t]] = @ \ {s}]
  /\ UNCHANGED <<cookie, saved, visiting, attempts, revoked, due, late>>

\* A redirect with an account: the attempt goes on with it, before the page
\* restores its logins.  Without the attempt the page only loads.
WithAccount(t, n, a, access, active) ==
  LET page == Restored(t, n, [Loaded(t, access) EXCEPT !.active = active]) IN
  IF page.current = NoAttempt
    THEN /\ tab' = [tab EXCEPT ![t] = page]
         /\ local' = [local EXCEPT ![SiteOf[t]] = page.mine]
    ELSE /\ tab' = [tab EXCEPT ![t] =
              [page EXCEPT !.page = "starting", !.told = Closed.told,
                           !.tasks = {[kind |-> "login", attempt |-> n, actor |-> a]}]]
         /\ UNCHANGED local

\* The provider of an OAuth state gives another account instead of a code.
ReturnAccount(t, s, a) ==
  /\ tab[t].page = "closed"
  /\ s \in oauth[SiteOf[t]]
  /\ \A u \in Tabs : tab[u].activeState # s
  /\ \E access \in Access(t) : WithAccount(t, s.attempt, a, access, s.attempt)
  /\ oauth' = [oauth EXCEPT ![SiteOf[t]] = @ \ {s}]
  /\ UNCHANGED <<cookie, saved, visiting, attempts, revoked, due, late>>

\* The user comes back from creating, or recovering, an account.
ReturnCreated(t, n, a) ==
  /\ tab[t].page = "closed"
  /\ n \in visiting
  /\ visiting' = visiting \ {n}
  /\ \E access \in Access(t) : WithAccount(t, n, a, access, NoAttempt)
  /\ UNCHANGED <<cookie, saved, oauth, attempts, revoked, due, late>>

\* The attempt of the redirect went no further: the logins are restored.
Restore(t) ==
  /\ tab[t].page = "starting"
  /\ tab[t].tasks = {} /\ ~tab[t].leaving
  /\ LET list == Held(t) IN
     /\ tab' = [tab EXCEPT ![t].page = "open", ![t].mine = list,
          ![t].told = [a \in Actors |-> IF OfActor(list, a) = {} THEN None
                                        ELSE CHOOSE l \in OfActor(list, a) : TRUE]]
     /\ local' = [local EXCEPT ![SiteOf[t]] = list]
  /\ UNCHANGED <<cookie, saved, oauth, visiting, attempts, revoked, due, late>>
-----------------------------------------------------------------------------
(* A login attempt.                                                        *)

Save(t, n, progress) == saved' = [saved EXCEPT ![SiteOf[t]][n] = progress]

\* LoginAttempts.finish() of the current attempt, and endLogin() for it.
FinishedStores(t) ==
  LET p == tab[t] IN
  /\ saved' = [saved EXCEPT ![SiteOf[t]][p.current] = NotSaved]
  /\ oauth' = [oauth EXCEPT ![SiteOf[t]] =
                 IF p.active = p.current THEN @ \ {p.activeState} ELSE @]
Finished(p) ==
  LET mine == p.active = p.current IN
  [p EXCEPT !.current = NoAttempt, !.progress = None, !.dialog = FALSE,
            !.active = IF mine THEN NoAttempt ELSE @,
            !.activeState = IF mine THEN NoState ELSE @]

\* handleLoginError(): the attempt stays, without progress, to be tried again.
Fail(t, n, tasks) ==
  IF tab[t].current = n
    THEN /\ tab' = [tab EXCEPT ![t].tasks = tasks, ![t].progress = None,
                               ![t].dialog = TRUE]
         /\ Save(t, n, None)
    ELSE /\ tab' = [tab EXCEPT ![t].tasks = tasks]
         /\ UNCHANGED saved

Begin(t) ==
  /\ tab[t].page = "open" /\ ~tab[t].leaving
  /\ tab[t].current = NoAttempt
  /\ attempts < MaxAttempts
  /\ attempts' = attempts + 1
  /\ tab' = [tab EXCEPT ![t].current = attempts', ![t].dialog = TRUE]
  /\ UNCHANGED <<cookie, local, saved, oauth, visiting, revoked, due, late>>

\* The dialog waits for its user: nothing of the attempt is under way.
InDialog(t) ==
  /\ tab[t].page = "open" /\ ~tab[t].leaving /\ tab[t].dialog
  /\ \A k \in tab[t].tasks :
       k.kind \in {"login", "resolve", "configure", "grant"} => k.attempt # tab[t].current

\* A handle is submitted and looked up.
Submit(t, a) ==
  /\ InDialog(t)
  /\ tab' = [tab EXCEPT ![t].tasks =
               @ \cup {[kind |-> "login", attempt |-> tab[t].current, actor |-> a]}]
  /\ UNCHANGED <<cookie, local, saved, oauth, visiting, attempts, revoked, due, late>>

\* The link to create an account, or the form to recover one.
Create(t) ==
  /\ InDialog(t)
  /\ Save(t, tab[t].current, tab[t].progress)
  /\ visiting' = visiting \cup {tab[t].current}
  /\ \/ tab' = [tab EXCEPT ![t] = Closed]
     \/ NewTabs /\ UNCHANGED tab
  /\ UNCHANGED <<cookie, local, oauth, attempts, revoked, due, late>>

\* The dialog is closed by the user.
Cancel(t) ==
  /\ tab[t].dialog
  /\ tab' = [tab EXCEPT ![t] = Finished(@)]
  /\ FinishedStores(t)
  /\ UNCHANGED <<cookie, local, visiting, attempts, revoked, due, late>>

\* login_(): the handle was found.  An actor who is logged in is done.
LoginStarts(t, k) ==
  LET p == [tab[t] EXCEPT !.tasks = @ \ {k}]
      read == [p EXCEPT !.mine = Held(t), !.told = ToldAfterRead(t)]
      existing == OfActor(Held(t), k.actor)
  IN /\ k.kind = "login"
     /\ \/ /\ p.current # k.attempt
           /\ tab' = [tab EXCEPT ![t] = p]
           /\ UNCHANGED <<local, saved, oauth>>
        \/ /\ p.current = k.attempt
           /\ local' = [local EXCEPT ![SiteOf[t]] = LocalAfterRead(t)]
           /\ \/ \E l \in existing :
                   /\ tab' = [tab EXCEPT ![t] =
                        [Finished(read) EXCEPT !.told[k.actor] = l]]
                   /\ FinishedStores(t)
              \/ /\ existing = {}
                 /\ tab' = [tab EXCEPT ![t] =
                      [read EXCEPT !.tasks = @ \cup {[k EXCEPT !.kind = "resolve"]}]]
                 /\ UNCHANGED <<saved, oauth>>
     /\ UNCHANGED <<cookie, visiting, attempts, revoked, due, late>>

\* The actor document is there: the attempt starts with its first provider.
Resolved(t, k) ==
  LET rest == tab[t].tasks \ {k}
      progress == [actor |-> k.actor, tokens |-> <<>>]
  IN /\ k.kind = "resolve"
     /\ \/ /\ tab[t].current = k.attempt
           /\ tab' = [tab EXCEPT
                ![t].progress = progress, ![t].active = k.attempt,
                ![t].tasks = rest \cup {[kind |-> "configure", attempt |-> k.attempt,
                                         provider |-> 1, actor |-> k.actor]}]
           /\ Save(t, k.attempt, progress)
        \/ Fail(t, k.attempt, rest)
     /\ UNCHANGED <<cookie, local, oauth, visiting, attempts, revoked, due, late>>

\* Authorization.login_(): the provider is known; the page is left for it.
Configured(t, k) ==
  LET rest == tab[t].tasks \ {k}
      s == [attempt |-> k.attempt, provider |-> k.provider, actor |-> k.actor]
  IN /\ k.kind = "configure"
     /\ \/ /\ tab[t].active = k.attempt
           /\ oauth' = [oauth EXCEPT ![SiteOf[t]] = @ \cup {s}]
           /\ tab' = [tab EXCEPT ![t].tasks = rest, ![t].activeState = s,
                                 ![t].leaving = TRUE]
           /\ UNCHANGED saved
        \/ /\ tab[t].active = k.attempt
           /\ Fail(t, k.attempt, rest)
           /\ UNCHANGED oauth
        \/ /\ tab[t].active # k.attempt
           /\ tab' = [tab EXCEPT ![t].tasks = rest]
           /\ UNCHANGED <<saved, oauth>>
     /\ UNCHANGED <<cookie, local, visiting, attempts, revoked, due, late>>

MutWanted(t, k) == tab[t].progress.actor # NoActor  \* mutant: some attempt is open
\* onCallbackUrl() and onLogin() take a token for the attempt that it was asked for.
Wanted(t, k) == tab[t].active = k.attempt /\ tab[t].current = k.attempt

\* The last token makes the login: whoever used the actor's old one is told.
Complete(t, l, rest) ==
  /\ tab' = [tab EXCEPT ![t] =
       [Finished(tab[t]) EXCEPT !.tasks = rest, !.told[l.actor] = l,
                                !.mine = Updated(tab[t].mine, l, FALSE)]]
  /\ StoresUpdated(t, l, FALSE, local[SiteOf[t]])
  /\ FinishedStores(t)
  /\ due' = IF tab[t].access THEN (due \ OfActor(due, l.actor)) \cup {l} ELSE due

\* The code was exchanged for a token, or it was not.
Granted(t, k) ==
  LET rest == tab[t].tasks \ {k}
      p == tab[t]
      token == [attempt |-> k.attempt, provider |-> k.provider, actor |-> k.actor]
      progress == [p.progress EXCEPT !.tokens = Append(@, token)]
  IN /\ k.kind = "grant"
     /\ \/ /\ Wanted(t, k) /\ p.progress.actor # NoActor
           /\ \/ /\ Len(progress.tokens) = Providers[progress.actor]
                 /\ Complete(t, progress, rest)
              \/ /\ Len(progress.tokens) < Providers[progress.actor]
                 /\ tab' = [tab EXCEPT ![t].progress = progress, ![t].active = p.current,
                      ![t].tasks = rest \cup
                        {[kind |-> "configure", attempt |-> p.current,
                          provider |-> Len(progress.tokens) + 1, actor |-> progress.actor]}]
                 /\ Save(t, p.current, progress)
                 /\ UNCHANGED <<cookie, local, oauth, due>>
        \/ /\ Wanted(t, k)
           /\ Fail(t, k.attempt, rest)
           /\ UNCHANGED <<cookie, local, oauth, due>>
        \/ /\ ~Wanted(t, k)
           /\ tab' = [tab EXCEPT ![t].tasks = rest]
           /\ UNCHANGED <<cookie, local, saved, oauth, due>>
     /\ UNCHANGED <<visiting, attempts, revoked, late>>
-----------------------------------------------------------------------------
(* Using a login, and ending it.                                           *)

\* forget(): what this page holds for the actor is removed.
Forget(t, a, due1) ==
  LET gone == OfActor(tab[t].mine, a) IN
  \/ /\ gone = {}
     /\ due' = due1
     /\ UNCHANGED <<cookie, local, late>>
  \/ \E l \in gone :
       /\ StoresUpdated(t, l, TRUE, local[SiteOf[t]])
       /\ due' = due1 /\ late' = late \cup ({l} \cap due1)

\* resolveSession(): a request of the application as an actor it was told of.
Use(t, a) ==
  LET ls == OfActor(Held(t), a) IN
  /\ tab[t].page = "open"
  /\ tab[t].told[a] # None
  /\ local' = [local EXCEPT ![SiteOf[t]] = LocalAfterRead(t)]
  /\ tab' = [tab EXCEPT ![t].mine = Held(t),
       ![t].told = IF ls = {} THEN [ToldAfterRead(t) EXCEPT ![a] = None]
                   ELSE ToldAfterRead(t),
       ![t].tasks = @ \cup {[kind |-> "use", login |-> l] : l \in ls}]
  /\ UNCHANGED <<cookie, saved, oauth, visiting, attempts, revoked, due, late>>

\* The answer: a refused token makes the page forget the actor's login.
Answered(t, k) ==
  LET rest == tab[t].tasks \ {k} IN
  /\ k.kind = "use"
  /\ \/ /\ ~(TokensOf(k.login) \subseteq revoked)
        /\ tab' = [tab EXCEPT ![t].tasks = rest]
        /\ UNCHANGED <<cookie, local, due, late>>
     \/ /\ TokensOf(k.login) \cap revoked # {}
        /\ Forget(t, k.login.actor, due \ {k.login})
        /\ tab' = [tab EXCEPT ![t].tasks = rest, ![t].told[k.login.actor] = None,
                              ![t].mine = @ \ OfActor(@, k.login.actor)]
  /\ UNCHANGED <<saved, oauth, visiting, attempts, revoked>>

\* logout(): the login is removed, then its tokens are revoked.
Logout(t, a) ==
  LET ls == OfActor(Held(t), a) IN
  /\ tab[t].page = "open"
  /\ tab[t].told[a] # None
  /\ \/ \E l \in ls :
          /\ StoresUpdated(t, l, TRUE, LocalAfterRead(t))
          /\ due' = due \ {l}
          /\ tab' = [tab EXCEPT ![t].mine = Held(t) \ {l}, ![t].told = ToldAfterRead(t),
               ![t].tasks = @ \cup {[kind |-> "revoke", login |-> l]}]
     \/ /\ ls = {}
        /\ tab' = [tab EXCEPT ![t].mine = Held(t), ![t].told = ToldAfterRead(t)]
        /\ local' = [local EXCEPT ![SiteOf[t]] = LocalAfterRead(t)]
        /\ UNCHANGED <<cookie, due>>
  /\ UNCHANGED <<saved, oauth, visiting, attempts, revoked, late>>

\* The tokens are revoked, but for those whose provider is not reached.  The
\* application is told that the actor is logged out when every one of them was.
Revoked(t, k) ==
  /\ k.kind = "revoke"
  /\ \E reached \in SUBSET TokensOf(k.login) :
       /\ revoked' = revoked \cup reached
       /\ tab' = [tab EXCEPT ![t].tasks = @ \ {k},
            ![t].told[k.login.actor] = IF reached = TokensOf(k.login) THEN None ELSE @]
  /\ UNCHANGED <<cookie, local, saved, oauth, visiting, attempts, due, late>>

\* A provider ends a session by itself.
Expire(token) ==
  /\ \E t \in Tabs, l \in Logins : l \in tab[t].mine /\ token \in TokensOf(l)
  /\ revoked' = revoked \cup {token}
  /\ UNCHANGED <<tab, cookie, local, saved, oauth, visiting, attempts, due, late>>

\* What waits in localStorage is discarded after ten minutes.
Discard(s, n) ==
  /\ saved[s][n] # NotSaved \/ \E o \in oauth[s] : o.attempt = n
  /\ saved' = [saved EXCEPT ![s][n] = NotSaved]
  /\ oauth' = [oauth EXCEPT ![s] = {o \in @ : o.attempt # n}]
  /\ UNCHANGED <<tab, cookie, local, visiting, attempts, revoked, due, late>>

Next ==
  \/ \E t \in Tabs :
       \/ Open(t) \/ Close(t) \/ Restore(t) \/ Begin(t) \/ Create(t) \/ Cancel(t)
       \/ \E a \in Actors : Submit(t, a) \/ Use(t, a) \/ Logout(t, a)
       \/ \E s \in oauth[SiteOf[t]] :
            Return(t, s) \/ \E a \in Actors : ReturnAccount(t, s, a)
       \/ \E n \in visiting, a \in Actors : ReturnCreated(t, n, a)
       \/ \E k \in tab[t].tasks :
            \/ LoginStarts(t, k) \/ Resolved(t, k) \/ Configured(t, k)
            \/ Granted(t, k) \/ Answered(t, k) \/ Revoked(t, k)
  \/ \E token \in UNION {TokensOf(l) : l \in UNION {tab[t].mine : t \in Tabs}} : Expire(token)
  \/ \E s \in Sites, n \in Attempts : Discard(s, n)

Spec == Init /\ [][Next]_vars
-----------------------------------------------------------------------------
(* Properties.                                                             *)

Progress ==
  {None} \cup
  (UNION {[actor : {a}, tokens : UNION {[1..i -> Tokens] : i \in 0..Providers[a] - 1}]
           : a \in Actors})
Tasks ==
  [kind : {"login", "resolve"}, attempt : Attempts, actor : Actors]
  \cup [kind : {"use", "revoke"}, login : Logins]
  \cup (UNION {[kind : {"configure", "grant"}, attempt : Attempts,
                provider : 1..Providers[a], actor : {a}] : a \in Actors})

IsPage(p) ==
  /\ p.page \in {"closed", "starting", "open"}
  /\ {p.access, p.leaving, p.dialog} \subseteq BOOLEAN
  /\ \A l \in p.mine : l \in Logins
  /\ p.dialog => p.current # NoAttempt
  /\ {p.current, p.active} \subseteq Attempts \cup {NoAttempt}
  /\ p.progress \in Progress
  /\ p.activeState \in States \cup {NoState}
  /\ \A k \in p.tasks : k \in Tasks
  /\ \A a \in Actors : p.told[a] = None \/ p.told[a] \in Logins

\* The types of the state; a list holds one login of an actor at most.
TypeOK ==
  /\ \A t \in Tabs : IsPage(tab[t])
  /\ \A S \in {local[s] : s \in Sites} \cup {tab[t].mine : t \in Tabs}
              \cup ({cookie} \ {Undefined}) :
       /\ \A l \in S : l \in Logins
       /\ \A a \in Actors : Cardinality(OfActor(S, a)) <= 1
  /\ \A s \in Sites : \A n \in Attempts : saved[s][n] \in Progress \cup {NotSaved}
  /\ \A s \in Sites : oauth[s] \subseteq States
  /\ visiting \subseteq 1..attempts /\ attempts \in 0..MaxAttempts
  /\ \A token \in revoked : token \in Tokens
  /\ \A l \in due \cup late : l \in Logins

\* A login that was saved in the cookie stays there until its user logs out or
\* logs in anew, or its own tokens are refused: no page that still holds an
\* older login takes it along.  Only a logout or a refusal meant for that older
\* login, and carried out late by a page that has the new one, ends it: late.
LoginsSurvive == due \subseteq (IF cookie = Undefined THEN {} ELSE cookie) \cup late

\* As long as an application has not been told that an actor logged out, its
\* page holds the credentials that it was told of, or none: other tabs and
\* sites never switch it to another login of the actor.
NoSilentSwitch ==
  \A t \in Tabs : \A l \in tab[t].mine :
    tab[t].page = "open" => tab[t].told[l.actor] \in {l, None}

\* The tokens of a login were issued for its actor, by its providers in their
\* order, and within one attempt, whatever attempts were given up before.
TokensMatch ==
  \A l \in UNION ({local[s] : s \in Sites} \cup {tab[t].mine : t \in Tabs}) :
    \A i \in DOMAIN l.tokens :
      /\ l.tokens[i].actor = l.actor
      /\ l.tokens[i].provider = i
      /\ l.tokens[i].attempt = l.tokens[1].attempt

\* What a rejected request ends is the login that it was sent with.
OnlyTheRejectedEnds == late = {}
=============================================================================
