---------------------------- MODULE MCRetention -----------------------------
(* Retention on small sets of files and jobs for TLC.                      *)
EXTENDS Retention

Everything == EventKinds

=============================================================================
