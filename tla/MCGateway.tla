----------------------------- MODULE MCGateway -----------------------------
(* An instance of Gateway for TLC.                                         *)
EXTENDS Gateway

CONSTANTS system, object

MCObjects == {system, object}

(* A publisher sends what is of no object as the system's.  Each treatment *)
(* a message can get is there: a Heartbeat's is that of a                  *)
(* MarketByPriceUpdate which the sequencer does not pass on.               *)
MCMessages ==
  {<<system, "GatewayStatus">>,
   <<object, "TopOfBook">>, <<object, "MarketByPriceUpdate">>, <<object, "OrderUpdate">>}
=============================================================================
