------------------------------- MODULE MCProxy -------------------------------
(***************************************************************************)
(* The proxy for TLC, and what the repository says of its gauge.           *)
(***************************************************************************)
EXTENDS Proxy

(* "Requests currently being served" (infersight_requests_in_flight): the   *)
(* gauge counts no request that is over.                                   *)
GaugeCountsServed == inFlight = Cardinality(InWork)
=============================================================================
