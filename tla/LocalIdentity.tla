----------------------------- MODULE LocalIdentity -----------------------------
(***************************************************************************)
(* The logins of the local implementation in the tabs of a site: the       *)
(* handles are in localStorage, a login ends by loading its page anew, and *)
(* what it has to answer is meanwhile in the sessionStorage of the tab.    *)
(***************************************************************************)
EXTENDS Integers, Sequences, FiniteSets

CONSTANTS
  Views,             \* the tabs
  Names,             \* handles that users enter
  None, Failed,
  Leaving,           \* the page is about to be loaded anew
  MaxIdentityEvents  \* bound

VARIABLES
  handles,   \* localStorage: who is logged in
  ticket,    \* by tab, sessionStorage: the login that is to be answered
  todo,      \* by tab: handles that were read, and are still to be told
  inHand,    \* by tab: the ticket, once it was read
  told,      \* by tab: actors that its app takes to be logged in
  asking,    \* by tab: the login whose dialog is open, None, or Leaving
  logins,    \* history: logins, with what was entered and their answers
  ended,     \* history: handles that were logged out
  identityEvents

identityVars == <<handles, ticket, todo, inHand, told, asking, logins, ended, identityEvents>>

\* An answer to a login without a state goes to nobody.
Unasked == 0

\* handleToActor(), actorToHandle()
ActorOf(h) == <<"did:local", h>>
HandleOf(a) == a[2]

\* The pages are open; nothing was stored before.
IdentityInit ==
  /\ handles = {}
  /\ ticket = [v \in Views |-> None] /\ inHand = [v \in Views |-> None]
  /\ todo = [v \in Views |-> {}] /\ told = [v \in Views |-> {}]
  /\ asking = [v \in Views |-> None]
  /\ logins = <<>> /\ ended = {} /\ identityEvents = 0

Happens == identityEvents < MaxIdentityEvents /\ identityEvents' = identityEvents + 1

Answered(n, answer) ==
  IF n = Unasked THEN logins ELSE [logins EXCEPT ![n].answers = Append(@, answer)]
-----------------------------------------------------------------------------
MutSpent(v) == ticket[v]  \* mutant: the ticket stays
\* The ticket is forgotten before anything is told.
Spent(v) == None

\* The constructor reads what was stored; the page before, with its dialog, is gone.
Open(v) ==
  /\ \/ asking[v] = Leaving /\ UNCHANGED identityEvents
     \/ asking[v] # Leaving /\ Happens
  /\ inHand' = [inHand EXCEPT ![v] = ticket[v]]
  /\ ticket' = [ticket EXCEPT ![v] = Spent(v)]
  /\ todo' = [todo EXCEPT ![v] = handles]
  /\ told' = [told EXCEPT ![v] = {}]
  /\ asking' = [asking EXCEPT ![v] = None]
  /\ UNCHANGED <<handles, logins, ended>>

Awaited(v, h) == inHand[v] # None /\ inHand[v].handle = h

\* The sessions are restored one after the other; one of them may answer the login.
Restore(v, h) ==
  /\ h \in todo[v]
  /\ todo' = [todo EXCEPT ![v] = @ \ {h}]
  /\ told' = [told EXCEPT ![v] = @ \cup {ActorOf(h)}]
  /\ IF Awaited(v, h)
     THEN logins' = Answered(inHand[v].login, h) /\ inHand' = [inHand EXCEPT ![v] = None]
     ELSE UNCHANGED <<logins, inHand>>
  /\ UNCHANGED <<handles, ticket, asking, ended, identityEvents>>

\* None of them did: it was logged out meanwhile.
Initialized(v) ==
  /\ todo[v] = {} /\ inHand[v] # None
  /\ logins' = Answered(inHand[v].login, Failed)
  /\ inHand' = [inHand EXCEPT ![v] = None]
  /\ UNCHANGED <<handles, ticket, todo, told, asking, ended, identityEvents>>
-----------------------------------------------------------------------------
\* login(), whose dialog opens a tick later.
Login(v, correlated) ==
  /\ Happens /\ asking[v] = None
  /\ asking' = [asking EXCEPT ![v] = IF correlated THEN Len(logins) + 1 ELSE Unasked]
  /\ logins' = IF correlated THEN Append(logins, [entered |-> None, answers |-> <<>>]) ELSE logins
  /\ UNCHANGED <<handles, ticket, todo, inHand, told, ended>>

\* "A login is already in progress"
LoginTwice(v) ==
  /\ Happens /\ asking[v] \notin {None, Leaving}
  /\ logins' = Append(logins, [entered |-> None, answers |-> <<Failed>>])
  /\ UNCHANGED <<handles, ticket, todo, inHand, told, asking, ended>>

Cancel(v) ==
  /\ asking[v] \notin {None, Leaving}
  /\ asking' = [asking EXCEPT ![v] = None]
  /\ logins' = Answered(asking[v], Failed)
  /\ UNCHANGED <<handles, ticket, todo, inHand, told, ended, identityEvents>>

\* The user enters a handle: it is stored, and the page is loaded anew.
Submit(v, h) ==
  /\ asking[v] \notin {None, Leaving}
  /\ handles' = handles \cup {h}
  /\ ticket' = [ticket EXCEPT ![v] =
                  IF asking[v] = Unasked THEN None ELSE [handle |-> h, login |-> asking[v]]]
  /\ logins' = IF asking[v] = Unasked THEN logins ELSE [logins EXCEPT ![asking[v]].entered = h]
  /\ asking' = [asking EXCEPT ![v] = Leaving]
  /\ UNCHANGED <<todo, inHand, told, ended, identityEvents>>

\* logout() of an actor that the app was told of.  It fails, and the app keeps the
\* actor, when another tab was first.
Logout(v, a) ==
  /\ Happens /\ asking[v] # Leaving /\ a \in told[v]
  /\ \/ /\ HandleOf(a) \in handles
        /\ handles' = handles \ {HandleOf(a)}
        /\ told' = [told EXCEPT ![v] = @ \ {a}]
        /\ ended' = ended \cup {HandleOf(a)}
     \/ /\ HandleOf(a) \notin handles
        /\ UNCHANGED <<handles, told, ended>>
  /\ UNCHANGED <<ticket, todo, inHand, asking, logins>>

IdentityNext == \E v \in Views :
  \/ Open(v) \/ Initialized(v) \/ Cancel(v) \/ LoginTwice(v)
  \/ \E h \in Names : Restore(v, h) \/ Submit(v, h)
  \/ \E correlated \in BOOLEAN : Login(v, correlated)
  \/ \E a \in told[v] : Logout(v, a)
-----------------------------------------------------------------------------
\* A login with a state is answered once at most, across the loads of its page and
\* whatever other tabs do: with the actor of the handle that was entered for it, or
\* with a failure if nothing was, or if that handle was logged out again.
IdentitiesAreAnswered ==
  \A n \in DOMAIN logins :
    LET l == logins[n] IN
      /\ l.answers \in {<<>>, <<Failed>>, <<l.entered>>}
      /\ l.answers = <<Failed>> => l.entered \in ended \cup {None}

\* No app takes an actor to be logged in that another tab has logged out.
AppsFollowLogouts == \A v \in Views : \A a \in told[v] : HandleOf(a) \in handles
=============================================================================
