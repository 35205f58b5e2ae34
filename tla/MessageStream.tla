--------------------------- MODULE MessageStream ---------------------------
(***************************************************************************)
(* What a receiver promises about the messages it hands to its callback,   *)
(* whatever datagrams the network loses, repeats or reorders: one call     *)
(* hands over a run of consecutive seqnos, a run never goes back to what   *)
(* was handed over before, and messages are given up only when the stream  *)
(* has moved on by a whole window.  Fragments, slots and datagrams do not  *)
(* appear here.                                                            *)
(***************************************************************************)
EXTENDS Seqno, Sequences

CONSTANT SessionIds

VARIABLES
  session_id,  \* the session of the messages
  next_seqno,  \* the seqno the next run continues from
  handed       \* the headers handed over by the last call

vars == <<session_id, next_seqno, handed>>

Run(session, start, length) ==
  [i \in 1 .. length |->
     [session_id |-> session, seqno |-> Plus(start, i - 1)]]

HandOver(session, start, length) ==
  /\ session_id' = session
  /\ next_seqno' = Plus(start, length)
  /\ handed' = Run(session, start, length)

(* The messages that come next, or none.                                   *)
Continue ==
  \E length \in 0 .. MaxBuffers + 1 : HandOver(session_id, next_seqno, length)

(* Give up on what is missing: only after a whole window.                  *)
Skip ==
  \E start \in Seqnos, length \in 0 .. MaxBuffers :
    /\ ~IsReplay(start, next_seqno)
    /\ HandOver(session_id, start, length)
    /\ Diff(next_seqno', next_seqno) >= MaxBuffers

(* A new session starts anywhere.                                          *)
NewSession ==
  \E session \in SessionIds \ {session_id}, start \in Seqnos,
     length \in 0 .. MaxBuffers + 1 : HandOver(session, start, length)

Init ==
  /\ session_id = 0
  /\ next_seqno = 0
  /\ handed = <<>>

Next == Continue \/ Skip \/ NewSession

Spec == Init /\ [][Next]_vars
=============================================================================
