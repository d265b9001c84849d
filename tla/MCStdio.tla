------------------------------- MODULE MCStdio -------------------------------
(* Instances of Stdio.                                                       *)
EXTENDS Stdio
=============================================================================
