-------------------------- MODULE MCActorUpdates --------------------------
(* Small instances of ActorUpdates for TLC.                                *)
EXTENDS ActorUpdates, TLC

CONSTANTS a1, a2, n1, n2, n3, d1, d2

MCAccounts == {a1, a2}
MCNames == {n1, n2, n3}
MCDids == {d1, d2}
MCFirstHandle == (a1 :> n1) @@ (a2 :> n2)

\* Clients are interchangeable, and so are the accounts with their handles.
Symmetry == Permutations(Clients)
=============================================================================
