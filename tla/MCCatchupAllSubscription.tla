----------------------- MODULE MCCatchupAllSubscription ----------------------
(* Small instances of CatchupAllSubscription for TLC.                       *)
EXTENDS CatchupAllSubscription
==============================================================================
