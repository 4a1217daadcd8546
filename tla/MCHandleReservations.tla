------------------------ MODULE MCHandleReservations ------------------------
(***************************************************************************)
(* Small instances of HandleReservations for TLC, and what is assumed of   *)
(* its constants.  Its variables are declared here so that its theorems    *)
(* can be next to those about ServerSessions.                              *)
(***************************************************************************)
EXTENDS Integers, TLC

CONSTANTS
  Names, Browsers, Lifetime, MaxTabs, MaxSessions, MaxAccounts, MaxClock, MaxRequests

ASSUME LifetimePositive == Lifetime \in Nat \ {0}
ASSUME BoundsOfHandles ==
  {MaxTabs, MaxSessions, MaxAccounts, MaxClock, MaxRequests} \subseteq Nat

VARIABLES
  clock, owner, sessions, accounts, reserved, handles, challenges, logins, temp, signedIn, tab,
  requests, promise, shown, registered

Handles == INSTANCE HandleReservations WITH now <- clock, MaxTime <- MaxClock

\* Browsers are interchangeable, and so are names.
Symmetry == Permutations(Browsers) \cup Permutations(Names)
-----------------------------------------------------------------------------
HandleSpec == Handles!Spec

(* The properties, each stated with its comment in HandleReservations.     *)

\* A name that was reserved goes to nobody else.
NotScooped == Handles!NotScooped

(* One that is left out of the run.                                        *)

BoundariesAgree == Handles!BoundariesAgree

(* A property that the code does not have: see the README.                 *)

\* The handle of a new account is the one that was shown.
PromptTellsHandle == Handles!PromptTellsHandle
=============================================================================
