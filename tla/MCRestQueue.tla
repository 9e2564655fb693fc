----------------------------- MODULE MCRestQueue -----------------------------
(* RestQueue for TLC: a few calls, queues of two messages, and no difference *)
(* between one process id and another.                                       *)
EXTENDS RestQueue, TLC

PidSymmetry == Permutations(Pids)
=============================================================================
