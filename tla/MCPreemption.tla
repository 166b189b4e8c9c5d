----------------------------- MODULE MCPreemption -----------------------------
(* Two programs, one more pid for a fork or a background sleep, and as many    *)
(* kernel stacks as programs: the pool is exhausted when a process forks.      *)
EXTENDS Preemption
=============================================================================
