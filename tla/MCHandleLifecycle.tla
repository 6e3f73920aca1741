------------------------- MODULE MCHandleLifecycle -------------------------
(***************************************************************************)
(* Instances of HandleLifecycle for TLC.  The constants have a handle of   *)
(* each kind; at most MaxHandles of them come to life in one behaviour, so *)
(* that every pair of kinds is met and no more than a pair at a time.      *)
(***************************************************************************)
EXTENDS HandleLifecycle, FiniteSets, TLC

CONSTANT MaxHandles   \* bound: handles opened in one behaviour

Room == Cardinality({h \in Handles : res[h] # "unborn"}) <= MaxHandles

(* Next with Room, which only the step of a call that opens a handle, or a *)
(* panic in it, can end.                                                   *)
PairNext ==
  \E t \in Threads :
    \/ Call(t) \/ Drop(t)
    \/ \E u \in Threads : Share(t, u)
    \/ (Step(t) \/ Panic(t)) /\ Room'

PairSpec == Init /\ [][PairNext]_vars

ThreadSymmetry == Permutations(Threads)
=============================================================================
