---------------------------- MODULE AudioDelivery ----------------------------
(***************************************************************************)
(* Spoken responses on their way to one device: AudioDeliveryPipeline      *)
(* (audio/delivery.py) and the HTTP route that sends audio without it      *)
(* (api/__init__.py) on the gateway, CommandDispatcher (datp/commands.py)  *)
(* under both, and the handheld client that caches the audio (app.py and   *)
(* datp.py of generic_sbc_handheld).                                       *)
(*                                                                         *)
(* A response is sent as the commands put_begin, chunk 1 .. NumChunks and  *)
(* put_end, each after the acknowledgement of the one before.  A gateway   *)
(* task is atomic between two awaits; so is the handheld's main loop,      *)
(* which drains its command queue once a tick.                             *)
(***************************************************************************)
EXTENDS Naturals, Sequences

CONSTANTS
  Delivery,      \* responses; each has a response_id of its own
  Pipeline,      \* those the pipeline delivers; the others the HTTP route
  NumChunks,     \* chunks of PCM in a response
  MaxBreaks,     \* bound: times the connection breaks
  MaxRestarts    \* bound: times the client process restarts

ASSUME PipelineAssumption == Pipeline \subseteq Delivery
ASSUME NumChunksAssumption == NumChunks \in Nat \ {0}
ASSUME BoundAssumption == MaxBreaks \in Nat /\ MaxRestarts \in Nat

Begin == 0
End == NumChunks + 1
Command == Delivery \X (Begin..End)
Audio(d) == [k \in 1..NumChunks |-> <<d, k>>]

VARIABLES
  \* --- the gateway ---
  lockq,       \* holder and waiters of the pipeline's lock for the device, FIFO
  pc,          \* delivery -> "idle", "ready" to send or waiting for the lock,
               \* "awaiting" an ack, "delivered", "failed"
  step,        \* delivery -> the command it sends or awaits
  pending,     \* CommandDispatcher._pending: commands with an open future
  answer,      \* delivery -> what the future of its command resolved to
  \* --- the wire ---
  connected,   \* the device has a live connection
  net, acks,   \* frames in flight to and from the device
  breaks, restarts,
  \* --- the handheld client ---
  inbox,       \* DatpClient._cmd_queue
  batch,       \* the commands of this tick still to handle
  buffer,      \* _recording_chunks
  cached       \* _response_audio: response -> the audio saved for it

gatewayVars == <<lockq, pc, step, pending, answer>>
wireVars == <<connected, net, acks, breaks, restarts>>
clientVars == <<inbox, batch, buffer, cached>>
vars == <<gatewayVars, wireVars, clientVars>>

TypeOK ==
  /\ lockq \in Seq(Pipeline)
  /\ pc \in [Delivery -> {"idle", "ready", "awaiting", "delivered", "failed"}]
  /\ step \in [Delivery -> Begin..End]
  /\ pending \in SUBSET Command
  /\ answer \in [Delivery -> {"none", "ok", "nack"}]
  /\ connected \in BOOLEAN
  /\ net \in Seq(Command)
  /\ acks \in Seq([cmd : Command, ok : BOOLEAN])
  /\ breaks \in 0..MaxBreaks
  /\ restarts \in 0..MaxRestarts
  /\ inbox \in Seq(Command)
  /\ batch \in Seq(Command)
  /\ buffer \in Seq(Command)
  /\ cached \in [Delivery -> Seq(Command)]

Init ==
  /\ lockq = <<>>
  /\ pc = [d \in Delivery |-> "idle"]
  /\ step = [d \in Delivery |-> Begin]
  /\ pending = {}
  /\ answer = [d \in Delivery |-> "none"]
  /\ connected = TRUE
  /\ net = <<>>
  /\ acks = <<>>
  /\ breaks = 0
  /\ restarts = 0
  /\ inbox = <<>>
  /\ batch = <<>>
  /\ buffer = <<>>
  /\ cached = [d \in Delivery |-> <<>>]

-----------------------------------------------------------------------------
(* The gateway.                                                            *)

Current(d) == <<d, step[d]>>

\* The pipeline sends under the device's lock; the HTTP route takes none.
Turn(d) == d \in Pipeline => lockq # <<>> /\ Head(lockq) = d

\* The delivery returns, and async with releases the lock.
Finish(d, outcome) ==
  /\ pc' = [pc EXCEPT ![d] = outcome]
  /\ lockq' = IF d \in Pipeline THEN Tail(lockq) ELSE lockq

\* agent_response schedules _deliver_audio, which queues for the device's lock;
\* an HTTP request goes straight to _send_audio_to_device.
Respond(d) ==
  /\ pc[d] = "idle"
  /\ pc' = [pc EXCEPT ![d] = "ready"]
  /\ lockq' = IF d \in Pipeline THEN Append(lockq, d) ELSE lockq
  /\ UNCHANGED <<step, pending, answer, wireVars, clientVars>>

\* CommandDispatcher.send registers a future and the frame goes out.  On a link
\* that is dead but not known to be, the frame is lost.
Send(d) ==
  /\ pc[d] = "ready"
  /\ Turn(d)
  /\ pending' = pending \cup {Current(d)}
  /\ answer' = [answer EXCEPT ![d] = "none"]
  /\ pc' = [pc EXCEPT ![d] = "awaiting"]
  /\ net' = IF connected THEN Append(net, Current(d)) ELSE net
  /\ UNCHANGED <<lockq, step, connected, acks, breaks, restarts, clientVars>>

\* send_to_device finds no entry, or its socket raises ConnectionClosed: the
\* future is dropped again and the delivery gives up.
SendFails(d) ==
  /\ pc[d] = "ready"
  /\ Turn(d)
  /\ ~connected
  /\ Finish(d, "failed")
  /\ UNCHANGED <<step, pending, answer, wireVars, clientVars>>

\* Synthesis fails, or gives no audio, after put_begin was acknowledged.
TtsFails(d) ==
  /\ d \in Pipeline
  /\ pc[d] = "ready"
  /\ step[d] \in 1..NumChunks
  /\ Finish(d, "failed")
  /\ UNCHANGED <<step, pending, answer, wireVars, clientVars>>

\* _on_event: an ack resolves the future of its command; one that comes after
\* the timeout finds no future and is dropped.
AckArrives ==
  /\ acks # <<>>
  /\ LET ack == Head(acks) IN
     /\ pending' = pending \ {ack.cmd}
     /\ answer' = IF ack.cmd \in pending
                  THEN [answer EXCEPT ![ack.cmd[1]] = IF ack.ok THEN "ok" ELSE "nack"]
                  ELSE answer
  /\ acks' = Tail(acks)
  /\ UNCHANGED <<lockq, pc, step, connected, net, breaks, restarts, clientVars>>

\* The command was acknowledged: on to the next one, or audio_delivered.
Acked(d) ==
  /\ pc[d] = "awaiting"
  /\ answer[d] = "ok"
  /\ IF step[d] = End
     THEN /\ Finish(d, "delivered")
          /\ UNCHANGED step
     ELSE /\ step' = [step EXCEPT ![d] = @ + 1]
          /\ pc' = [pc EXCEPT ![d] = "ready"]
          /\ UNCHANGED lockq
  /\ UNCHANGED <<pending, answer, wireVars, clientVars>>

\* Mutated: the lock stays with the delivery that was refused.
NackedLocked(d) ==
  /\ pc[d] = "awaiting"
  /\ answer[d] = "nack"
  /\ pc' = [pc EXCEPT ![d] = "failed"]
  /\ UNCHANGED <<lockq, step, pending, answer, wireVars, clientVars>>

\* The device refused the command: the sequence is abandoned where it is.
Nacked(d) ==
  /\ pc[d] = "awaiting"
  /\ answer[d] = "nack"
  /\ Finish(d, "failed")
  /\ UNCHANGED <<step, pending, answer, wireVars, clientVars>>

\* wait_for times out, in the worst case as the answer comes in.
Timeout(d) ==
  /\ pc[d] = "awaiting"
  /\ pending' = pending \ {Current(d)}
  /\ Finish(d, "failed")
  /\ UNCHANGED <<step, answer, wireVars, clientVars>>

-----------------------------------------------------------------------------
(* The wire.                                                               *)

\* Frames on the wire are lost; those in the client's queue are not.
Break ==
  /\ connected
  /\ breaks < MaxBreaks
  /\ breaks' = breaks + 1
  /\ connected' = FALSE
  /\ net' = <<>>
  /\ acks' = <<>>
  /\ UNCHANGED <<restarts, gatewayVars, clientVars>>

\* The client reconnects between two ticks; its queue and its buffer survive.
Reconnect ==
  /\ ~connected
  /\ batch = <<>>
  /\ connected' = TRUE
  /\ UNCHANGED <<net, acks, breaks, restarts, gatewayVars, clientVars>>

\* The client process restarts: all it had in memory is gone.
Restart ==
  /\ restarts < MaxRestarts
  /\ restarts' = restarts + 1
  /\ connected' = FALSE
  /\ net' = <<>>
  /\ acks' = <<>>
  /\ inbox' = <<>>
  /\ batch' = <<>>
  /\ buffer' = <<>>
  /\ cached' = [d \in Delivery |-> <<>>]
  /\ UNCHANGED <<breaks, gatewayVars>>

-----------------------------------------------------------------------------
(* The client.                                                             *)

\* The listener queues the next command frame.
Receive ==
  /\ net # <<>>
  /\ inbox' = Append(inbox, Head(net))
  /\ net' = Tail(net)
  /\ UNCHANGED <<connected, acks, breaks, restarts, gatewayVars, batch, buffer,
                 cached>>

\* A tick drains the queue and handles the commands one by one.
Tick ==
  /\ batch = <<>>
  /\ inbox # <<>>
  /\ batch' = inbox
  /\ inbox' = <<>>
  /\ UNCHANGED <<gatewayVars, wireVars, buffer, cached>>

\* ack_command, after the handler.  On a closed socket it raises out of the tick
\* and the commands left in the batch are forgotten; on a link that is dead but
\* not known to be, the ack is lost.
Ack(ok) ==
  LET cmd == Head(batch) IN
  /\ IF connected
     THEN /\ acks' = Append(acks, [cmd |-> cmd, ok |-> ok])
          /\ batch' = Tail(batch)
     ELSE /\ batch' \in {<<>>, Tail(batch)}
          /\ UNCHANGED acks
  /\ UNCHANGED <<connected, net, breaks, restarts, gatewayVars, inbox>>

\* Mutated: what an abandoned sequence left in the buffer stays there.
HandleBeginOver ==
  /\ batch # <<>>
  /\ Head(batch)[2] = Begin
  /\ UNCHANGED <<buffer, cached>>
  /\ Ack(TRUE)

HandleBegin ==
  /\ batch # <<>>
  /\ Head(batch)[2] = Begin
  /\ buffer' = <<>>
  /\ UNCHANGED cached
  /\ Ack(TRUE)

HandleChunk ==
  /\ batch # <<>>
  /\ Head(batch)[2] \in 1..NumChunks
  /\ buffer' = Append(buffer, Head(batch))
  /\ UNCHANGED cached
  /\ Ack(TRUE)

\* The buffer, whosever chunks it holds, is saved as the response named.
HandleEnd ==
  /\ batch # <<>>
  /\ Head(batch)[2] = End
  /\ buffer # <<>>
  /\ cached' = [cached EXCEPT ![Head(batch)[1]] = buffer]
  /\ buffer' = <<>>
  /\ Ack(TRUE)

\* Mutated: put_end is acknowledged though nothing was saved.
HandleEndFailsSilently ==
  /\ batch # <<>>
  /\ Head(batch)[2] = End
  /\ UNCHANGED <<buffer, cached>>
  /\ Ack(TRUE)

\* Nothing was buffered, or the file could not be written.
HandleEndFails ==
  /\ batch # <<>>
  /\ Head(batch)[2] = End
  /\ UNCHANGED <<buffer, cached>>
  /\ Ack(FALSE)

-----------------------------------------------------------------------------
Deliver(d) ==
  Send(d) \/ SendFails(d) \/ TtsFails(d) \/ Acked(d) \/ Nacked(d) \/ Timeout(d)

Client == Receive \/ Tick \/ HandleBegin \/ HandleChunk \/ HandleEnd \/ HandleEndFails

Next ==
  \/ \E d \in Delivery : Respond(d) \/ Deliver(d)
  \/ AckArrives
  \/ Break \/ Reconnect \/ Restart
  \/ Client

Spec == Init /\ [][Next]_vars

\* asyncio runs ready tasks and the timers of wait_for.  Nothing is assumed of
\* the device or of the link.
Fairness == \A d \in Delivery : WF_vars(Deliver(d))

FairSpec == Spec /\ Fairness

-----------------------------------------------------------------------------
(* Safety.                                                                 *)

\* What the device has saved for a response of the pipeline is that response:
\* in order, unmixed with any other, and whole unless the client restarted in
\* the middle of the sequence.  Timeouts, nacks and breaks abandon sequences
\* half-way and leave commands in queues; put_begin must wipe all of it out.
CacheIntegrity ==
  \A d \in Delivery : cached[d] # <<>> =>
    /\ \E k \in 1..NumChunks : cached[d] = SubSeq(Audio(d), k, NumChunks)
    /\ restarts = 0 => cached[d] = Audio(d)

\* audio_delivered is emitted only for what the device holds, as long as the
\* client has not restarted.
DeliveredIsCached ==
  \A d \in Delivery :
    pc[d] = "delivered" /\ restarts = 0 => cached[d] = Audio(d)

\* CommandDispatcher._pending holds exactly the commands some delivery is
\* waiting for: no path leaks a future or drops one that is awaited.
PendingTracksSends ==
  pending = {Current(d) : d \in {e \in Delivery :
                                   pc[e] = "awaiting" /\ answer[e] = "none"}}

\* What the proofs of the above rest on.  The lock is held from the first command
\* to the end of the sequence.
LockInv ==
  /\ \A d \in Delivery : pc[d] = "idle" => step[d] = Begin
  /\ \A d \in Pipeline :
       pc[d] = "awaiting" \/ (pc[d] = "ready" /\ step[d] # Begin)
         => lockq # <<>> /\ Head(lockq) = d

\* Commands the device has yet to handle, first to last in batch, inbox, net.
Held(q) == {q[i] : i \in 1..Len(q)}
InFlight == Held(batch) \cup Held(inbox) \cup Held(net)
Quiet == batch = <<>> /\ inbox = <<>> /\ net = <<>>

\* A command is sent once; what is in flight or acknowledged was sent before.
Sent(cmd) ==
  \/ cmd[2] < step[cmd[1]]
  \/ cmd[2] = step[cmd[1]] /\ pc[cmd[1]] \notin {"idle", "ready"}
SentOnce ==
  /\ \A cmd \in InFlight : Sent(cmd)
  /\ \A i \in 1..Len(acks) : Sent(acks[i].cmd)

\* A chunk or a put_end is sent only when nothing else is in flight.
FirstInFlight ==
  /\ \A i \in 1..Len(batch) : batch[i][2] # Begin => i = 1
  /\ \A i \in 1..Len(inbox) : inbox[i][2] # Begin => i = 1 /\ batch = <<>>
  /\ \A i \in 1..Len(net) :
        net[i][2] # Begin => i = 1 /\ batch = <<>> /\ inbox = <<>>

\* The command awaited is the last one in flight, if it is.
LastInFlight ==
  \A cmd \in pending :
    /\ \A i \in 1..Len(batch) :
          batch[i] = cmd => i = Len(batch) /\ inbox = <<>> /\ net = <<>>
    /\ \A i \in 1..Len(inbox) : inbox[i] = cmd => i = Len(inbox) /\ net = <<>>
    /\ \A i \in 1..Len(net) : net[i] = cmd => i = Len(net)

\* What handling command k of d leaves behind: the chunks up to k, those from
\* before a restart of the client missing, or at last the response itself.
BufferIs(d, k) ==
  /\ Len(buffer) <= k
  /\ \A i \in 1..Len(buffer) : buffer[i] = <<d, k - Len(buffer) + i>>
  /\ restarts = 0 => Len(buffer) = k
After(d, k) ==
  IF k <= NumChunks THEN BufferIs(d, k) ELSE restarts = 0 => cached[d] = Audio(d)

\* The effect of the command before is there when a chunk or put_end comes in,
ArrivalEffect ==
  \A cmd \in InFlight : cmd[2] # Begin => After(cmd[1], cmd[2] - 1)

\* when an answer the gateway waits for is on its way,
AnswerEffect ==
  \A i \in 1..Len(acks) :
    acks[i].ok /\ acks[i].cmd \in pending
      => Quiet /\ After(acks[i].cmd[1], acks[i].cmd[2])

\* and when the gateway has it and goes on.
ProgressEffect ==
  \A d \in Delivery :
    /\ pc[d] = "awaiting" /\ answer[d] = "ok" => Quiet /\ After(d, step[d])
    /\ pc[d] = "ready" /\ step[d] # Begin => Quiet /\ After(d, step[d] - 1)

\* A response is cached by its put_end, which is handled once.
CachedOnce ==
  \A d \in Delivery : cached[d] # <<>> =>
    /\ step[d] = End
    /\ pc[d] \notin {"idle", "ready"}
    /\ <<d, End>> \notin InFlight

\* The inductive invariant, with every delivery in the pipeline.
IndInv ==
  /\ TypeOK
  /\ LockInv
  /\ PendingTracksSends
  /\ SentOnce
  /\ FirstInFlight
  /\ LastInFlight
  /\ ArrivalEffect
  /\ AnswerEffect
  /\ ProgressEffect
  /\ CachedOnce
  /\ DeliveredIsCached
  /\ CacheIntegrity

-----------------------------------------------------------------------------
(* The abstract specification this one implements, with every delivery in  *)
(* the pipeline.                                                           *)

Promise == INSTANCE AudioCache WITH
  store <- cached,
  report <- [d \in Delivery |->
               IF pc[d] \in {"delivered", "failed"} THEN pc[d] ELSE "open"]

ImplementsPromise == Promise!Spec

-----------------------------------------------------------------------------
(* Liveness.                                                               *)

\* Every response that is scheduled ends, delivered or failed, whatever the
\* device, the link and the deliveries before it in the queue do.
DeliverySettles ==
  \A d \in Delivery : pc[d] = "ready" ~> pc[d] \in {"delivered", "failed"}

-----------------------------------------------------------------------------
(* A claim of the code's comments that the code does not keep.             *)

\* _deliver_audio: "Concurrent deliveries to the same device are serialized so
\* that cache sequences do not interleave and corrupt device state."
Uncorrupted ==
  \A d \in Delivery : cached[d] # <<>> => cached[d] = Audio(d)
=============================================================================
