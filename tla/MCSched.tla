------------------------------- MODULE MCSched -------------------------------
(* Instances of Sched for TLC.                                             *)
EXTENDS Sched, TLC

CONSTANTS e1, e2, e3, d1, d2

TwoEvts == {e1, e2}
ThreeEvts == {e1, e2, e3}

EvtSymmetry == Permutations(Evt)
=============================================================================
