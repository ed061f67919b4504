------------------------ MODULE MCCatchupSubscription ------------------------
(* Small instances of CatchupSubscription for TLC.                          *)
EXTENDS CatchupSubscription
==============================================================================
