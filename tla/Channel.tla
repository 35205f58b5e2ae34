------------------------------ MODULE Channel ------------------------------
(***************************************************************************)
(* Buffer at the end of a UDP channel: a publisher that sends the          *)
(* fragments of a finite log of messages, and a network that delays,       *)
(* reorders, repeats and loses datagrams.  In Buffer any frame may arrive  *)
(* at any time; here frames arrive because they were sent, so that it can  *)
(* be said how far the buffer falls behind and what it waits for.          *)
(*                                                                         *)
(* Publisher and network are external.  Messages of the log are numbered   *)
(* from 0; the seqnos of the log wrap when Base is chosen close to the     *)
(* end of their range.                                                     *)
(***************************************************************************)
EXTENDS Buffer

CONSTANTS
  Session,      \* the session of the publisher
  Base,         \* the seqno of its first message
  MaxMessages,  \* bound on the messages it publishes
  MaxDelay,     \* bound on the messages a datagram may be overtaken by
  MaxLost       \* bound on the datagrams that are lost

ASSUME ChannelAssumption ==
  /\ Session \in SessionIds \ {0}
  /\ Base \in Seqnos
  /\ MaxMessages \in 1 .. SeqnoModulus - 1
  /\ MaxDelay \in 0 .. MaxBuffers - 1
  /\ MaxLost \in Nat

VARIABLES
  published,  \* how many messages were published
  network,    \* the frames on their way
  lost,       \* history: the frames that were lost
  joined,     \* history: the first message a frame arrived of
  newest,     \* history: the latest one
  handed      \* history: the messages handed over

channelVars == <<vars, published, network, lost, joined, newest, handed>>

Log  == 0 .. MaxMessages - 1
None == -1

FramesOf(i) ==
  LET seqno == Plus(Base, i)
  IN  {Frame(Session, seqno, k) : k \in Fragments(Session, seqno)}

(* The number in the log of a seqno.                                       *)
Index(seqno) == Diff(seqno, Base)

-----------------------------------------------------------------------------
(* The next message is sent.  A frame that is still on its way has not     *)
(* been overtaken by more than MaxDelay messages.                          *)
Publish ==
  /\ published \in Log
  /\ \A f \in network : published - Index(f.seqno) <= MaxDelay
  /\ published' = published + 1
  /\ network' = network \union FramesOf(published)
  /\ UNCHANGED <<vars, lost, joined, newest, handed>>

(* A datagram that arrives is one call of Buffer.                          *)
Delivered(f) ==
  LET i == Index(f.seqno)
  IN  /\ f \in network
      /\ Receive(f)
      /\ joined' = IF joined = None THEN i ELSE joined
      /\ newest' = IF i > newest THEN i ELSE newest
      /\ handed' = handed \union {Index(dispatched'[n].seqno) : n \in DOMAIN dispatched'}
      /\ UNCHANGED <<published, lost>>

Arrive(f) == Delivered(f) /\ network' = network \ {f}

(* A copy of it is still on its way: the B feed, a retransmission.         *)
ArriveCopy(f) == Delivered(f) /\ UNCHANGED network

Lose(f) ==
  /\ f \in network
  /\ Cardinality(lost) < MaxLost
  /\ network' = network \ {f}
  /\ lost' = lost \union {f}
  /\ UNCHANGED <<vars, published, joined, newest, handed>>

-----------------------------------------------------------------------------
ChannelInit ==
  /\ Init
  /\ published = 0
  /\ network = {}
  /\ lost = {}
  /\ joined = None
  /\ newest = None
  /\ handed = {}

ChannelNext ==
  \/ Publish
  \/ \E f \in network : Arrive(f) \/ ArriveCopy(f) \/ Lose(f)

(* The publisher goes on to the end of its log.  What is on its way        *)
(* arrives or is lost: copies of other frames do not keep it away.         *)
Oldest == {f \in network : \A g \in network : Index(f.seqno) <= Index(g.seqno)}

ChannelSpec ==
  /\ ChannelInit /\ [][ChannelNext]_channelVars
  /\ WF_channelVars(Publish)
  /\ WF_channelVars(\E f \in Oldest : Arrive(f))

-----------------------------------------------------------------------------
(* Properties.                                                             *)

(* Where the buffer is in the log.                                         *)
Position == Index(next_seqno)

(* However much is missing, the buffer is less than a window behind the    *)
(* newest message it has heard of: a hole holds back fewer than            *)
(* MAX_BUFFERS messages, without any timeout.  The log has to be shorter   *)
(* than what is_replay takes for the past.                                 *)
LagBounded == joined # None => newest - Position < MaxBuffers

(* As long as nothing is lost, datagrams overtaken by less than a window   *)
(* of messages do no harm: no hole is given up before what it waits for    *)
(* has arrived, and all from the first message heard is handed over.       *)
NothingGivenUp ==
  lost = {} => handed = IF joined = None THEN {} ELSE joined .. Position - 1

(* When nothing is lost, clients get all from the first message heard to   *)
(* the last of the log, whatever the order of the datagrams: no complete   *)
(* message is left in the ring when the channel falls silent.              *)
AllHandedOver == <>(lost # {} \/ (joined # None /\ handed = joined .. MaxMessages - 1))

(* A message that is complete and waits behind a hole.                     *)
Waits(i) ==
  /\ joined # None
  /\ i \in Position .. Position + MaxBuffers - 1
  /\ assembly[Slot(Plus(Base, i))].ready

(* A complete message waits only until a frame MAX_BUFFERS - 1 messages    *)
(* after it arrives: what is missing before it is given up by then, and    *)
(* the call of operator() that does so hands it over.                      *)
WaitBounded == \A i \in Log : Waits(i) => newest < i + MaxBuffers - 1

(* There is no timeout: a complete message waits for what is missing       *)
(* before it, or for a frame that is MAX_BUFFERS - 1 messages after it.    *)
(* It waits no longer than that, and for ever only if the publisher falls  *)
(* silent before, or all of that is lost.                                  *)
WaitEnds ==
  \A i \in Log :
    Waits(i) ~>
      \/ Position > i
      \/ \A j \in {n \in Log : n >= i + MaxBuffers - 1} : FramesOf(j) \subseteq lost
=============================================================================
