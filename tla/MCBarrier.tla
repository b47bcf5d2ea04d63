----------------------------- MODULE MCBarrier -----------------------------
(* Instances of Barrier for TLC: four CPUs that share a barrier            *)
(* (MCBarrier.cfg), and one CPU selected in a machine that has two          *)
(* (MCBarrierLone.cfg).                                                     *)
EXTENDS Barrier

=============================================================================
