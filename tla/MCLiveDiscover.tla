--------------------------- MODULE MCLiveDiscover ---------------------------
(* Small instances of LiveDiscover for TLC.                                 *)
EXTENDS LiveDiscover, TLC

CONSTANTS a, b

\* An object of both channels, and one of the second.
MCChannelsOf == [u \in Urls |-> IF u = a THEN {1, 2} ELSE {2}]
=============================================================================
