--------------------------- MODULE MCKeeperQueue ---------------------------
(***************************************************************************)
(* Instances of KeeperQueue for TLC.                                       *)
(***************************************************************************)
EXTENDS KeeperQueue

CONSTANTS said, told, gone

\* An exchange for the queue, one for a sync call, a turn nobody recorded.
OneSync == {told}
OneSilent == {gone}
None == {}
============================================================================
