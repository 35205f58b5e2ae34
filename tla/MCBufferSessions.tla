-------------------------- MODULE MCBufferSessions --------------------------
(* Small instances of Buffer with two publisher sessions for TLC.          *)
EXTENDS Buffer

(* Of the first session every fourth message has MaxFragment + 1           *)
(* fragments; all other messages have one.                                 *)
MCFragmentMax ==
  [m \in SessionIds \X Seqnos |-> IF m[1] = 1 /\ m[2] % 4 = 0 THEN MaxFragment ELSE 0]
=============================================================================
