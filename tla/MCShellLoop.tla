----------------------------- MODULE MCShellLoop -----------------------------
(* An instance of ShellLoop for TLC: one process from before the shell and *)
(* one id for another.                                                     *)
EXTENDS ShellLoop

MCPids == 1 .. 2
MCStartup == {1}
=============================================================================
