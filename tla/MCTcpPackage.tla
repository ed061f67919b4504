---------------------------- MODULE MCTcpPackage -----------------------------
(* Small instance of TcpPackage for TLC; the constants are in the .cfg.      *)
EXTENDS TcpPackage
==============================================================================
