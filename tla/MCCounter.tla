------------------------------ MODULE MCCounter ------------------------------
(* Instances of CounterServer for TLC.  _value is two bits wide in the runs:  *)
(* two additions of 1 overflow it.                                            *)
EXTENDS CounterRefinement

MCDelta == [r \in Request |-> 1]
=============================================================================
