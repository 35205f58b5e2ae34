------------------------------ MODULE MCBuffer ------------------------------
(* Small instances of Buffer for TLC.                                      *)
EXTENDS Buffer

(* Every third message has MaxFragment + 1 fragments, the others one.      *)
MCFragmentMax ==
  [m \in SessionIds \X Seqnos |-> IF m[2] % 3 = 0 THEN MaxFragment ELSE 0]
=============================================================================
