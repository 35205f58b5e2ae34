----------------------------- MODULE Receivers -----------------------------
(***************************************************************************)
(* The receivers of the two channels: create_receivers pairs the addresses *)
(* and ports of the settings, for Snapshot first and then for Incremental, *)
(* when Controller is constructed.                                         *)
(***************************************************************************)
EXTENDS Integers, Sequences, SequencesExt

CONSTANTS
  Addresses,  \* what the settings may list
  Ports,
  LOCALHOST,  \* not one of Addresses
  MaxLength   \* bound on the length of a list

ASSUME ReceiversAssumption ==
  /\ LOCALHOST \notin Addresses
  /\ MaxLength \in Nat

Channels == <<"SNAPSHOT", "INCREMENTAL">>

VARIABLES
  settings,   \* address and port of each channel
  receivers,  \* of each channel constructed so far
  terminated  \* log::fatal was called

vars == <<settings, receivers, terminated>>

-----------------------------------------------------------------------------
Mismatched(address, port) ==
  \/ port = <<>>
  \/ /\ Len(port) > 1
     /\ Len(address) > 1
     /\ Len(port) # Len(address)

Larger(m, n)  == IF m > n THEN m ELSE n
Smaller(m, n) == IF m < n THEN m ELSE n

(* create_receiver_helper: "default is localhost".                         *)
AddressOf(address, i) ==
  IF address = <<>> THEN LOCALHOST ELSE address[Smaller(i, Len(address))]

(* Mutant of CreateReceivers: as many receivers as ports.                  *)
OnePerPort(address, port) ==
  [i \in 1 .. Len(port) |-> <<AddressOf(address, i), port[Smaller(i, Len(port))]>>]

(* The last of the shorter list goes with the rest of the longer one.      *)
CreateReceivers(address, port) ==
  [i \in 1 .. Larger(Len(address), Len(port)) |->
     <<AddressOf(address, i), port[Smaller(i, Len(port))]>>]

(* The constructor of the next channel.                                    *)
Construct ==
  /\ ~terminated
  /\ Len(receivers) < Len(Channels)
  /\ LET s == settings[Channels[Len(receivers) + 1]]
     IN  IF Mismatched(s.address, s.port)
           THEN terminated' = TRUE /\ UNCHANGED receivers
           ELSE /\ receivers' = Append(receivers, CreateReceivers(s.address, s.port))
                /\ UNCHANGED terminated
  /\ UNCHANGED settings

ChannelSettings ==
  [address : BoundedSeq(Addresses, MaxLength), port : BoundedSeq(Ports, MaxLength)]

Init ==
  /\ settings \in [{"SNAPSHOT", "INCREMENTAL"} -> ChannelSettings]
  /\ receivers = <<>>
  /\ terminated = FALSE

Spec == Init /\ [][Construct]_vars

-----------------------------------------------------------------------------
(* Properties.                                                             *)

(* A process that was constructed listens to everything it was told to,    *)
(* and to nothing else: every address and port of a channel has a          *)
(* receiver, and lists of the same length are paired by position.          *)
ListensToAll ==
  \A c \in DOMAIN receivers :
    LET s == settings[Channels[c]]
        heard == ToSet(receivers[c])
    IN  /\ \A a \in ToSet(s.address) : \E p \in ToSet(s.port) : <<a, p>> \in heard
        /\ \A p \in ToSet(s.port) :
             \E a \in ToSet(s.address) \union {LOCALHOST} : <<a, p>> \in heard
        /\ \A r \in heard :
             /\ r[1] \in IF s.address = <<>> THEN {LOCALHOST} ELSE ToSet(s.address)
             /\ r[2] \in ToSet(s.port)
        /\ Len(s.address) = Len(s.port) =>
             \A i \in DOMAIN s.port : receivers[c][i] = <<s.address[i], s.port[i]>>
=============================================================================
