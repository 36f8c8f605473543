------------------------------ MODULE MCDaemon ------------------------------
(* Instances of Daemon for TLC.                                            *)
EXTENDS Daemon
CONSTANTS service, byhand, sh, acc
=============================================================================
