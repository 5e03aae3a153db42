---------------------------- MODULE MCTapeClient ----------------------------
(***************************************************************************)
(* Two distinguishable atoms, iterators of up to three atoms, some of      *)
(* which would come back to life after their first None, two pushbacks     *)
(* and two nested checkpoints.                                             *)
(***************************************************************************)
EXTENDS TapeClient

MCSources == {[left |-> l, late |-> r] : l \in BoundedSeq(Atom, 3),
                                         r \in BoundedSeq(Atom, 1)}
=============================================================================
