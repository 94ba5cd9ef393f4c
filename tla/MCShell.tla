------------------------------ MODULE MCShell -------------------------------
(* A user who types two lines.                                              *)
EXTENDS Shell

MCScripts == {<<"a", "CR", "b", "CR">>}
=============================================================================
