------------------------------ MODULE AudioCache ------------------------------
(***************************************************************************)
(* What delivering spoken responses to one device promises, whatever       *)
(* commands, acknowledgements, timeouts and reconnects carry it out: the   *)
(* device caches a response whole or not at all, and the gateway reports   *)
(* a response as delivered only when the device has cached it.  A client   *)
(* that restarts loses what it cached, and may save the rest of a response *)
(* whose beginning it lost.                                                *)
(***************************************************************************)
EXTENDS Naturals, Sequences

CONSTANTS
  Delivery,   \* the responses to deliver
  NumChunks   \* chunks of PCM in each of them

VARIABLES
  store,      \* response -> the audio the device has cached for it
  report,     \* response -> "open", "delivered" or "failed"
  restarts    \* times the client process has restarted

vars == <<store, report, restarts>>

Audio(d) == [k \in 1..NumChunks |-> <<d, k>>]

Init ==
  /\ store = [d \in Delivery |-> <<>>]
  /\ report = [d \in Delivery |-> "open"]
  /\ restarts = 0

Cache(d) ==
  /\ store[d] = <<>>
  /\ \E k \in 1..NumChunks :
        /\ restarts = 0 => SubSeq(Audio(d), k, NumChunks) = Audio(d)
        /\ store' = [store EXCEPT ![d] = SubSeq(Audio(d), k, NumChunks)]
  /\ UNCHANGED <<report, restarts>>

Deliver(d) ==
  /\ report[d] = "open"
  /\ restarts = 0 => store[d] = Audio(d)
  /\ report' = [report EXCEPT ![d] = "delivered"]
  /\ UNCHANGED <<store, restarts>>

\* The device may have cached the response and its answer been lost.
Fail(d) ==
  /\ report[d] = "open"
  /\ report' = [report EXCEPT ![d] = "failed"]
  /\ UNCHANGED <<store, restarts>>

Restart ==
  /\ restarts' = restarts + 1
  /\ store' = [d \in Delivery |-> <<>>]
  /\ UNCHANGED report

Next ==
  \/ \E d \in Delivery : Cache(d) \/ Deliver(d) \/ Fail(d)
  \/ Restart

Spec == Init /\ [][Next]_vars
=============================================================================
