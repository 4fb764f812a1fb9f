--------------------------- MODULE MCIdemixIssuer ---------------------------
(* Constants for model checking IdemixIssuer: identities that may enroll   *)
(* once or twice.                                                          *)
EXTENDS IdemixIssuer, TLC

EnrollOnce == [u \in IDs |-> 1]
EnrollTwice == [u \in IDs |-> 2]

Symmetry == Permutations(Handlers) \cup Permutations(Nonces) \cup Permutations(IDs)
=============================================================================
