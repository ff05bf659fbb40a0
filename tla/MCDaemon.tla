------------------------------ MODULE MCDaemon ------------------------------
(* Constants for model checking Daemon.                                    *)
EXTENDS Daemon
=============================================================================
