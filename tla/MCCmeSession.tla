---------------------------- MODULE MCCmeSession ----------------------------
(* The faults and commands of each run of CmeSession. *)
EXTENDS CmeSession

\* Any fault or command may happen, each once.
OneOfEach == [k \in FaultKinds |-> 1]

=============================================================================
