---------------------------- MODULE MCTamperScan ----------------------------
(* Bounded instances of TamperScan. *)
EXTENDS TamperScan, TLC

CONSTANTS api, worker, \* the API server and the erasure worker
          e1, e2, e3, e4

OneLog == [e \in Entry |-> api]

Symmetry == Permutations(Entry)

\* One entry is the erasure worker's.
TwoLogs == [e \in Entry |-> IF e = e3 THEN worker ELSE api]
=============================================================================
