---------------------------- MODULE MCDescriptors ----------------------------
(* Two processes that make calls and one pipe that holds one byte.  A table    *)
(* has one reserved descriptor and three to allocate: sys_pipe and a dup fill  *)
(* it, and the next sys_pipe fails at either step.  No call reads io, so it is *)
(* not part of the view.                                                       *)
EXTENDS Descriptors, TLC

Perms == Permutations(Pids)

View == <<tables, forked, pipes>>
=============================================================================
