------------------------ MODULE MCLifecycleEvent ------------------------
(***************************************************************************)
(* LifecycleEvent for TLC: the threads are alike, and nothing but a        *)
(* quantifier chooses among them.                                          *)
(***************************************************************************)
EXTENDS LifecycleEvent, TLC

Alike == Permutations(Threads)
=============================================================================
