---------------------------- MODULE MCCfeSession ----------------------------
(* How often each mishap and command of CfeSession may happen. *)
EXTENDS CfeSession

OneOfEach == [k \in Mishaps |-> 1]

=============================================================================
