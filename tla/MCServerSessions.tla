-------------------------- MODULE MCServerSessions --------------------------
(* Small instances of ServerSessions for TLC.                              *)
EXTENDS ServerSessions, TLC

\* Clients are interchangeable, and so are workers.
Symmetry == Permutations(Clients) \cup Permutations(Workers)
=============================================================================
