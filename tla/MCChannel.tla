----------------------------- MODULE MCChannel -----------------------------
(* A small instance of Channel for TLC.                                    *)
EXTENDS Channel

(* Every other message has MaxFragment + 1 fragments, the others one.      *)
MCFragmentMax ==
  [m \in SessionIds \X Seqnos |-> IF m[2] % 2 = 0 THEN MaxFragment ELSE 0]
=============================================================================
