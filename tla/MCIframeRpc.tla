---------------------------- MODULE MCIframeRpc ----------------------------
(* Small instances of IframeRpc for TLC.                                   *)
EXTENDS IframeRpc, TLC

CONSTANTS page, outer, inner

\* A frame in a frame.
Nested == (outer :> page) @@ (inner :> outer)
=============================================================================
