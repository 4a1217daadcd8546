-------------------------- MODULE MCAnnouncements --------------------------
(* Small instances of Announcements for TLC.                                *)
EXTENDS Announcements, TLC

CONSTANTS o1, o2, own, shared, laptop, me

\* One object is announced to the shared inbox, the other to the own inbox only.
MCTargets == o1 :> Others @@ o2 :> {}
\* All devices are of the actor that posts.  The one that posts does not
\* discover, and looks into the own inbox only, to delete.
MCReads == [d \in Devices |-> IF d = laptop THEN {own} ELSE Inboxes]
MCAccounts == [d \in Devices |-> me]
=============================================================================
