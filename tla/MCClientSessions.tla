-------------------------- MODULE MCClientSessions --------------------------
(***************************************************************************)
(* Small instances of ClientSessions for TLC, and what is assumed of its   *)
(* constants.  Its variables are declared here so that its theorems can be *)
(* next to those about ServerSessions.                                     *)
(***************************************************************************)
EXTENDS Integers, Sequences, TLC

CONSTANTS
  Tabs, Sites, Actors, SiteOf, Embedded, Providers, NewTabs, MaxAttempts, Undefined, NoActor,
  t1, t2, s1, s2, a1, a2

ASSUME SitesOfTabs == SiteOf \in [Tabs -> Sites] /\ Embedded \subseteq Tabs
ASSUME ProvidersExist == Providers \in [Actors -> Nat \ {0}]
ASSUME BoundIsNatural == MaxAttempts \in Nat
ASSUME NewTabsIsBoolean == NewTabs \in BOOLEAN
ASSUME MarkersAreNoActors == NoActor \notin Actors /\ Undefined \notin Actors /\ NoActor # Undefined

VARIABLES
  window, cookie, local, saved, oauth, visiting, attempts, revoked, due, late

Browser == INSTANCE ClientSessions WITH tab <- window

TwoSites == t1 :> s1 @@ t2 :> s2
OneSite == t1 :> s1 @@ t2 :> s1

\* The services of one actor are at two providers.
TwoAndOne == a1 :> 2 @@ a2 :> 1
-----------------------------------------------------------------------------
BrowserSpec == Browser!Spec

(* The properties, each stated with its comment in ClientSessions.         *)

\* A login in the cookie stays until it is logged out, replaced or refused.
LoginsSurvive == Browser!LoginsSurvive

\* The tokens of a login are of its actor, its providers and one attempt.
TokensMatch == Browser!TokensMatch

(* Those that are left out of the run.                                     *)

NoSilentSwitch == Browser!NoSilentSwitch

(* A property that the code does not have: see the README.                 *)

\* What a rejected request ends is the login that it was sent with.
OnlyTheRejectedEnds == Browser!OnlyTheRejectedEnds
=============================================================================
