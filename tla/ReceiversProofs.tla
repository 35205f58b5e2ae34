-------------------------- MODULE ReceiversProofs --------------------------
(***************************************************************************)
(* That a process that starts listens to all it was told to, proved for    *)
(* lists of any length, addresses and ports.                               *)
(***************************************************************************)
EXTENDS Receivers, TLAPS

Listed == (Addresses \union {LOCALHOST}) \X Ports

(* What a bounded list is.                                                 *)
LEMMA BoundedIsSeq ==
  ASSUME NEW S, NEW n \in Nat, NEW s \in BoundedSeq(S, n)
  PROVE  s \in Seq(S)
BY DEF BoundedSeq, SeqOf

(* The sizes create_receivers computes.                                    *)
LEMMA Sizes ==
  ASSUME NEW m \in Nat, NEW n \in Nat
  PROVE  /\ Larger(m, n) \in Nat /\ Smaller(m, n) \in Nat
         /\ Larger(m, n) >= m /\ Larger(m, n) >= n
         /\ m <= n => Larger(m, n) = n /\ Smaller(m, n) = m
         /\ n <= m => Larger(m, n) = m /\ Smaller(m, n) = n
BY DEF Larger, Smaller

(* The receiver at each position of the longer list: lists that are        *)
(* accepted never run out of addresses or ports.                           *)
LEMMA ReceiverAt ==
  ASSUME NEW address \in Seq(Addresses), NEW port \in Seq(Ports),
         ~Mismatched(address, port),
         NEW i \in 1 .. Larger(Len(address), Len(port))
  PROVE  /\ Smaller(i, Len(port)) \in DOMAIN port
         /\ address # <<>> => Smaller(i, Len(address)) \in DOMAIN address
         /\ CreateReceivers(address, port)[i] =
              <<AddressOf(address, i), port[Smaller(i, Len(port))]>>
         /\ CreateReceivers(address, port)[i] \in Listed
<1>1. Len(address) \in Nat /\ Len(port) \in Nat /\ i \in Nat /\ i >= 1
  BY Sizes
<1>2. Len(port) >= 1 /\ (address # <<>> => Len(address) >= 1)
  BY <1>1 DEF Mismatched
<1>3. Smaller(i, Len(port)) \in DOMAIN port
  BY <1>1, <1>2 DEF Smaller
<1>4. address # <<>> => Smaller(i, Len(address)) \in DOMAIN address
  BY <1>1, <1>2 DEF Smaller
<1>5. CreateReceivers(address, port)[i] =
        <<AddressOf(address, i), port[Smaller(i, Len(port))]>>
  BY DEF CreateReceivers
<1>6. AddressOf(address, i) \in Addresses \union {LOCALHOST}
  BY <1>4 DEF AddressOf
<1>7. port[Smaller(i, Len(port))] \in Ports
  BY <1>3
<1>8. QED
  BY <1>3, <1>4, <1>5, <1>6, <1>7 DEF Listed

(* The list of receivers has the length of the longer list.                *)
LEMMA CreatedType ==
  ASSUME NEW address \in Seq(Addresses), NEW port \in Seq(Ports),
         ~Mismatched(address, port)
  PROVE  /\ CreateReceivers(address, port) \in Seq(Listed)
         /\ DOMAIN CreateReceivers(address, port) = 1 .. Larger(Len(address), Len(port))
<1>1. Larger(Len(address), Len(port)) \in Nat
  BY Sizes
<1>2. DOMAIN CreateReceivers(address, port) = 1 .. Larger(Len(address), Len(port))
  BY DEF CreateReceivers
<1>3. CreateReceivers(address, port) \in [1 .. Larger(Len(address), Len(port)) -> Listed]
  BY ReceiverAt DEF CreateReceivers
<1>4. QED
  BY <1>1, <1>2, <1>3

-----------------------------------------------------------------------------
(* What ListensToAll says of one channel.                                  *)
Covers(address, port, created) ==
  LET heard == ToSet(created)
  IN  /\ \A a \in ToSet(address) : \E p \in ToSet(port) : <<a, p>> \in heard
      /\ \A p \in ToSet(port) :
           \E a \in ToSet(address) \union {LOCALHOST} : <<a, p>> \in heard
      /\ \A r \in heard :
           /\ r[1] \in IF address = <<>> THEN {LOCALHOST} ELSE ToSet(address)
           /\ r[2] \in ToSet(port)
      /\ Len(address) = Len(port) =>
           \A i \in DOMAIN port : created[i] = <<address[i], port[i]>>

(* One call of create_receivers.  An address is heard at its own position, *)
(* which is within the longer list, with the port of that position or the  *)
(* last; a port likewise.                                                  *)
LEMMA CreatesAll ==
  ASSUME NEW address \in Seq(Addresses), NEW port \in Seq(Ports),
         ~Mismatched(address, port)
  PROVE  Covers(address, port, CreateReceivers(address, port))
<1> DEFINE created == CreateReceivers(address, port)
           size == Larger(Len(address), Len(port))
<1>1. /\ Len(address) \in Nat /\ Len(port) \in Nat /\ size \in Nat
      /\ size >= Len(address) /\ size >= Len(port)
      /\ DOMAIN address = 1 .. Len(address) /\ DOMAIN port = 1 .. Len(port)
  BY Sizes
<1>2. DOMAIN created = 1 .. size
  BY CreatedType
<1>3. ASSUME NEW i \in 1 .. size
      PROVE  /\ Smaller(i, Len(port)) \in DOMAIN port
             /\ address # <<>> => Smaller(i, Len(address)) \in DOMAIN address
             /\ created[i] = <<AddressOf(address, i), port[Smaller(i, Len(port))]>>
             /\ created[i] \in ToSet(created)
  BY <1>2, ReceiverAt DEF ToSet
<1>4. ASSUME NEW a \in ToSet(address)
      PROVE  \E p \in ToSet(port) : <<a, p>> \in ToSet(created)
  <2>1. PICK i \in 1 .. Len(address) : a = address[i]
    BY <1>1 DEF ToSet
  <2>2. i \in 1 .. size /\ address # <<>> /\ Smaller(i, Len(address)) = i
    BY <1>1, <2>1, Sizes
  <2>3. created[i] = <<a, port[Smaller(i, Len(port))]>>
    BY <1>3, <2>1, <2>2 DEF AddressOf
  <2>4. port[Smaller(i, Len(port))] \in ToSet(port)
    BY <1>3, <2>2 DEF ToSet
  <2>5. QED
    BY <1>3, <2>2, <2>3, <2>4
<1>5. ASSUME NEW p \in ToSet(port)
      PROVE  \E a \in ToSet(address) \union {LOCALHOST} : <<a, p>> \in ToSet(created)
  <2>1. PICK i \in 1 .. Len(port) : p = port[i]
    BY <1>1 DEF ToSet
  <2>2. i \in 1 .. size /\ Smaller(i, Len(port)) = i
    BY <1>1, <2>1, Sizes
  <2>3. created[i] = <<AddressOf(address, i), p>>
    BY <1>3, <2>1, <2>2
  <2>4. AddressOf(address, i) \in ToSet(address) \union {LOCALHOST}
    BY <1>3, <2>2 DEF AddressOf, ToSet
  <2>5. QED
    BY <1>3, <2>2, <2>3, <2>4
<1>6. ASSUME NEW r \in ToSet(created)
      PROVE  /\ r[1] \in IF address = <<>> THEN {LOCALHOST} ELSE ToSet(address)
             /\ r[2] \in ToSet(port)
  <2>1. PICK i \in 1 .. size : r = created[i]
    BY <1>2 DEF ToSet
  <2>2. r = <<AddressOf(address, i), port[Smaller(i, Len(port))]>>
    BY <1>3, <2>1
  <2>3. AddressOf(address, i) \in IF address = <<>> THEN {LOCALHOST} ELSE ToSet(address)
    BY <1>3 DEF AddressOf, ToSet
  <2>4. port[Smaller(i, Len(port))] \in ToSet(port)
    BY <1>3 DEF ToSet
  <2>5. QED
    BY <2>2, <2>3, <2>4
<1>7. ASSUME Len(address) = Len(port), NEW i \in DOMAIN port
      PROVE  created[i] = <<address[i], port[i]>>
  <2>1. i \in 1 .. size /\ i \in Nat /\ i <= Len(port) /\ address # <<>>
    BY <1>1, <1>7
  <2>2. Smaller(i, Len(port)) = i /\ Smaller(i, Len(address)) = i
    BY <1>1, <1>7, <2>1, Sizes
  <2>3. QED
    BY <1>3, <2>1, <2>2 DEF AddressOf
<1>8. QED
  BY <1>4, <1>5, <1>6, <1>7 DEF Covers

-----------------------------------------------------------------------------
(* The inductive invariant: what was constructed is what create_receivers  *)
(* makes of settings it accepts, and these never change.                   *)
SettingsOf(c) == settings[Channels[c]]

Accepted(c) ==
  /\ ~Mismatched(SettingsOf(c).address, SettingsOf(c).port)
  /\ receivers[c] = CreateReceivers(SettingsOf(c).address, SettingsOf(c).port)

ReceiversInv ==
  /\ settings \in [{"SNAPSHOT", "INCREMENTAL"} -> ChannelSettings]
  /\ receivers \in Seq(Seq(Listed))
  /\ Len(receivers) <= Len(Channels)
  /\ \A c \in DOMAIN receivers : Accepted(c)

LEMMA SettingsType ==
  ASSUME settings \in [{"SNAPSHOT", "INCREMENTAL"} -> ChannelSettings],
         NEW c \in 1 .. Len(Channels)
  PROVE  SettingsOf(c).address \in Seq(Addresses) /\ SettingsOf(c).port \in Seq(Ports)
<1>1. Channels[c] \in {"SNAPSHOT", "INCREMENTAL"}
  BY DEF Channels
<1>2. SettingsOf(c) \in ChannelSettings
  BY <1>1 DEF SettingsOf
<1>3. QED
  BY <1>2, BoundedIsSeq, ReceiversAssumption DEF ChannelSettings

(* The constructor of a channel keeps the invariant.                       *)
LEMMA ConstructInv ==
  ASSUME ReceiversInv, Construct
  PROVE  ReceiversInv'
<1> DEFINE c == Len(receivers) + 1
           address == SettingsOf(c).address
           port == SettingsOf(c).port
<1>1. /\ UNCHANGED settings /\ Len(receivers) < Len(Channels)
      /\ Len(receivers) \in Nat /\ c \in 1 .. Len(Channels)
  BY DEF Construct, ReceiversInv, Channels
<1>2. CASE UNCHANGED receivers
  BY <1>1, <1>2 DEF ReceiversInv, Accepted, SettingsOf
<1>3. CASE /\ ~Mismatched(address, port)
           /\ receivers' = Append(receivers, CreateReceivers(address, port))
  <2>1. address \in Seq(Addresses) /\ port \in Seq(Ports)
    BY <1>1, SettingsType DEF ReceiversInv
  <2>2. CreateReceivers(address, port) \in Seq(Listed)
    BY <1>3, <2>1, CreatedType
  <2>3. /\ receivers' \in Seq(Seq(Listed))
        /\ Len(receivers') = c
        /\ DOMAIN receivers' = 1 .. c
        /\ receivers'[c] = CreateReceivers(address, port)
        /\ \A d \in DOMAIN receivers : receivers'[d] = receivers[d]
    BY <1>1, <1>3, <2>2 DEF ReceiversInv
  <2>4. ASSUME NEW d \in DOMAIN receivers'
        PROVE  Accepted(d)'
    <3>1. CASE d = c
      BY <1>1, <1>3, <2>3, <3>1 DEF Accepted, SettingsOf
    <3>2. CASE d \in DOMAIN receivers
      BY <1>1, <2>3, <3>2 DEF Accepted, SettingsOf, ReceiversInv
    <3>3. QED
      BY <1>1, <2>3, <3>1, <3>2 DEF ReceiversInv
  <2>5. QED
    BY <1>1, <2>3, <2>4 DEF ReceiversInv
<1>4. QED
  BY <1>2, <1>3 DEF Construct, SettingsOf

(* A process that was constructed listens to everything its settings list, *)
(* and to nothing else: create_receivers of both channels.                 *)
THEOREM ListensToEverything == Spec => []ListensToAll
<1>1. Init => ReceiversInv
  BY DEF Init, ReceiversInv, Channels
<1>2. ReceiversInv /\ [Construct]_vars => ReceiversInv'
  <2>1. ReceiversInv /\ UNCHANGED vars => ReceiversInv'
    BY DEF vars, ReceiversInv, Accepted, SettingsOf
  <2>2. QED
    BY <2>1, ConstructInv
<1>3. ReceiversInv => ListensToAll
  <2> SUFFICES ASSUME ReceiversInv, NEW c \in DOMAIN receivers
               PROVE  Covers(SettingsOf(c).address, SettingsOf(c).port, receivers[c])
    BY DEF ListensToAll, Covers, SettingsOf
  <2>1. c \in 1 .. Len(Channels)
    BY DEF ReceiversInv, Channels
  <2>2. SettingsOf(c).address \in Seq(Addresses) /\ SettingsOf(c).port \in Seq(Ports)
    BY <2>1, SettingsType DEF ReceiversInv
  <2>3. QED
    BY <2>2, CreatesAll DEF ReceiversInv, Accepted
<1>4. QED
  BY <1>1, <1>2, <1>3, PTL DEF Spec
=============================================================================
