------------------------------- MODULE MCShell -------------------------------
(* Small instances of the shell.  The number of process ids bounds the number  *)
(* of processes, and so of jobs, a behaviour starts.                           *)
EXTENDS Shell, TLC

PidSymmetry == Permutations(Pid)
==============================================================================
