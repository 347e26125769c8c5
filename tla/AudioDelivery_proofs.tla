------------------------ MODULE AudioDelivery_proofs ------------------------
(***************************************************************************)
(* Proofs about AudioDelivery for every set of responses, every number of  *)
(* chunks and every bound.  Type correctness and the futures of the        *)
(* dispatcher are proved with the HTTP route interleaving; the integrity   *)
(* of the cache and the refinement of AudioCache with every response in    *)
(* the pipeline.                                                           *)
(***************************************************************************)
EXTENDS AudioDelivery, SequenceTheorems, TLAPS

LEMMA Numbers ==
  /\ NumChunks \in Nat /\ NumChunks >= 1
  /\ Begin = 0 /\ End = NumChunks + 1
  /\ Begin \in Begin..End /\ End \in Begin..End
BY NumChunksAssumption DEF Begin, End

LEMMA CurrentType ==
  ASSUME TypeOK, NEW d \in Delivery
  PROVE  /\ Current(d) \in Command
         /\ Current(d)[1] = d
         /\ Current(d)[2] = step[d]
BY DEF TypeOK, Current, Command

\* A queue loses its first element.
LEMMA TailFacts ==
  ASSUME NEW S, NEW q \in Seq(S), q # <<>>
  PROVE  /\ Tail(q) \in Seq(S)
         /\ Len(q) \in Nat /\ Len(q) >= 1
         /\ Len(Tail(q)) = Len(q) - 1
         /\ Head(q) = q[1] /\ Head(q) \in S
         /\ \A i \in 1..Len(Tail(q)) : Tail(q)[i] = q[i + 1]
OBVIOUS

\* A queue gains a last element.
LEMMA AppendFacts ==
  ASSUME NEW S, NEW q \in Seq(S), NEW x \in S
  PROVE  /\ Append(q, x) \in Seq(S)
         /\ Append(q, x) # <<>>
         /\ Len(Append(q, x)) = Len(q) + 1
         /\ \A i \in 1..Len(q) : Append(q, x)[i] = q[i]
         /\ Append(q, x)[Len(q) + 1] = x
         /\ q # <<>> => Head(Append(q, x)) = Head(q)
<1>1. /\ Append(q, x) \in Seq(S)
      /\ Append(q, x) # <<>>
      /\ Len(Append(q, x)) = Len(q) + 1
      /\ \A i \in 1..Len(q) : Append(q, x)[i] = q[i]
      /\ Append(q, x)[Len(q) + 1] = x
  BY AppendProperties
<1>2. q # <<>> => Head(Append(q, x)) = Head(q)
  OBVIOUS
<1>3. QED BY <1>1, <1>2

LEMMA InitType == Init => TypeOK
BY Numbers, BoundAssumption DEF Init, TypeOK

\* Whoever has sent a command holds the lock, if it has one to hold.
LEMMA HeldLock ==
  ASSUME TypeOK, LockInv, NEW d \in Delivery, pc[d] = "awaiting"
  PROVE  d \in Pipeline => lockq # <<>> /\ Head(lockq) = d
BY DEF LockInv

LEMMA FinishType ==
  ASSUME TypeOK, NEW d \in Delivery, d \in Pipeline => lockq # <<>>,
         NEW outcome \in {"delivered", "failed"}, Finish(d, outcome)
  PROVE  /\ lockq' \in Seq(Pipeline)
         /\ pc' \in [Delivery -> {"idle", "ready", "awaiting", "delivered", "failed"}]
BY TailFacts DEF TypeOK, Finish

LEMMA AckType ==
  ASSUME TypeOK, batch # <<>>, NEW ok \in BOOLEAN, Ack(ok)
  PROVE  /\ acks' \in Seq([cmd : Command, ok : BOOLEAN])
         /\ batch' \in Seq(Command)
         /\ UNCHANGED <<connected, net, breaks, restarts, gatewayVars, inbox>>
<1>1. batch \in Seq(Command) /\ acks \in Seq([cmd : Command, ok : BOOLEAN])
  BY DEF TypeOK
<1>2. Head(batch) \in Command /\ Tail(batch) \in Seq(Command)
  BY <1>1, TailFacts
<1>3. [cmd |-> Head(batch), ok |-> ok] \in [cmd : Command, ok : BOOLEAN]
  BY <1>2
<1>4. Append(acks, [cmd |-> Head(batch), ok |-> ok])
         \in Seq([cmd : Command, ok : BOOLEAN])
  BY <1>1, <1>3, AppendFacts
<1>5. acks' \in Seq([cmd : Command, ok : BOOLEAN])
  BY <1>1, <1>4 DEF Ack
<1>6. batch' \in Seq(Command)
  <2>1. <<>> \in Seq(Command)
    OBVIOUS
  <2>2. batch' \in {<<>>, Tail(batch)}
    BY DEF Ack
  <2>3. QED BY <1>2, <2>1, <2>2
<1>7. QED BY <1>5, <1>6 DEF Ack

\* Every step of every actor keeps the types.
LEMMA StepType ==
  ASSUME TypeOK, LockInv, Next
  PROVE  TypeOK'
<1>1. ASSUME NEW d \in Delivery, Respond(d) PROVE TypeOK'
  BY <1>1, AppendFacts DEF TypeOK, Respond, wireVars, clientVars
<1>2. ASSUME NEW d \in Delivery, Send(d) PROVE TypeOK'
  <2>1. net' \in Seq(Command)
    BY <1>2, CurrentType, AppendFacts DEF TypeOK, Send
  <2>2. pending' \in SUBSET Command
    BY <1>2, CurrentType DEF TypeOK, Send
  <2>3. QED BY <1>2, <2>1, <2>2 DEF TypeOK, Send, clientVars
<1>3. ASSUME NEW d \in Delivery, SendFails(d) \/ TtsFails(d) PROVE TypeOK'
  <2>1. Finish(d, "failed") /\ (d \in Pipeline => lockq # <<>>)
    BY <1>3 DEF SendFails, TtsFails, Turn, LockInv, Begin
  <2>2. QED
    BY <1>3, <2>1, FinishType
    DEF TypeOK, SendFails, TtsFails, wireVars, clientVars
<1>4. ASSUME NEW d \in Delivery, Acked(d) PROVE TypeOK'
  <2>1. d \in Pipeline => lockq # <<>>
    BY <1>4, HeldLock DEF Acked
  <2>2. CASE step[d] = End
    BY <1>4, <2>1, <2>2, FinishType DEF TypeOK, Acked, wireVars, clientVars
  <2>3. CASE step[d] # End
    <3>1. step' \in [Delivery -> Begin..End]
      <4>1. step[d] \in 0..(NumChunks + 1) /\ step[d] # NumChunks + 1
        BY <2>3 DEF TypeOK, Begin, End
      <4>2. step[d] + 1 \in Begin..End
        BY <4>1, Numbers DEF Begin, End
      <4>3. QED BY <1>4, <2>3, <4>2 DEF TypeOK, Acked
    <3>2. QED
      BY <1>4, <2>3, <3>1 DEF TypeOK, Acked, wireVars, clientVars
  <2>4. QED BY <2>2, <2>3
<1>5. ASSUME NEW d \in Delivery, Nacked(d) \/ Timeout(d) PROVE TypeOK'
  <2>1. Finish(d, "failed") /\ (d \in Pipeline => lockq # <<>>)
    BY <1>5, HeldLock DEF Nacked, Timeout
  <2>2. QED
    BY <1>5, <2>1, FinishType DEF TypeOK, Nacked, Timeout, wireVars, clientVars
<1>6. ASSUME AckArrives PROVE TypeOK'
  <2>1. acks \in Seq([cmd : Command, ok : BOOLEAN]) /\ acks # <<>>
    BY <1>6 DEF TypeOK, AckArrives
  <2>2. acks' \in Seq([cmd : Command, ok : BOOLEAN])
    BY <1>6, <2>1, TailFacts DEF AckArrives
  <2>3. pending' \in SUBSET Command
    BY <1>6 DEF TypeOK, AckArrives
  <2>4. answer' \in [Delivery -> {"none", "ok", "nack"}]
    BY <1>6 DEF TypeOK, AckArrives
  <2>5. QED BY <1>6, <2>2, <2>3, <2>4 DEF TypeOK, AckArrives, clientVars
<1>7. ASSUME Break \/ Reconnect \/ Restart PROVE TypeOK'
  <2>1. <<>> \in Seq(Command) /\ <<>> \in Seq([cmd : Command, ok : BOOLEAN])
    OBVIOUS
  <2>2. breaks' \in 0..MaxBreaks /\ restarts' \in 0..MaxRestarts
    BY SMTT(30), <1>7, BoundAssumption DEF TypeOK, Break, Reconnect, Restart
  <2>3. CASE Break
    BY <2>1, <2>2, <2>3 DEF TypeOK, Break, gatewayVars, clientVars
  <2>4. CASE Reconnect
    BY <2>4 DEF TypeOK, Reconnect, gatewayVars, clientVars
  <2>5. CASE Restart
    BY <2>1, <2>2, <2>5 DEF TypeOK, Restart, gatewayVars
  <2>6. QED BY <1>7, <2>3, <2>4, <2>5
<1>8. ASSUME Receive PROVE TypeOK'
  <2>1. net \in Seq(Command) /\ inbox \in Seq(Command) /\ net # <<>>
    BY <1>8 DEF TypeOK, Receive
  <2>2. net' \in Seq(Command) /\ inbox' \in Seq(Command)
    BY <1>8, <2>1, TailFacts, AppendFacts DEF Receive
  <2>3. QED BY <1>8, <2>2 DEF TypeOK, Receive, gatewayVars
<1>9. ASSUME Tick PROVE TypeOK'
  BY <1>9 DEF TypeOK, Tick, gatewayVars, wireVars
<1>10. ASSUME HandleBegin \/ HandleChunk \/ HandleEnd \/ HandleEndFails
       PROVE TypeOK'
  <2>1. PICK ok \in BOOLEAN : batch # <<>> /\ Ack(ok)
    BY <1>10 DEF HandleBegin, HandleChunk, HandleEnd, HandleEndFails
  <2>2. /\ batch \in Seq(Command) /\ buffer \in Seq(Command)
        /\ Head(batch) \in Command
    BY <2>1, TailFacts DEF TypeOK
  <2>3. buffer' \in Seq(Command)
    <3>1. Append(buffer, Head(batch)) \in Seq(Command) /\ <<>> \in Seq(Command)
      BY <2>2, AppendFacts
    <3>2. buffer' \in {buffer, <<>>, Append(buffer, Head(batch))}
      BY <1>10 DEF HandleBegin, HandleChunk, HandleEnd, HandleEndFails
    <3>3. QED BY <2>2, <3>1, <3>2
  <2>4. cached' \in [Delivery -> Seq(Command)]
    BY <1>10, <2>2
    DEF TypeOK, HandleBegin, HandleChunk, HandleEnd, HandleEndFails
  <2>5. QED BY <2>1, <2>3, <2>4, AckType DEF TypeOK, gatewayVars
<1>11. QED
  BY <1>1, <1>2, <1>3, <1>4, <1>5, <1>6, <1>7, <1>8, <1>9, <1>10
  DEF Next, Deliver, Client

\* The lock: a delivery that has begun keeps it until it ends.
LEMMA StepLock ==
  ASSUME TypeOK, LockInv, Next
  PROVE  LockInv'
<1>0. lockq \in Seq(Pipeline) /\ Pipeline \subseteq Delivery
  BY PipelineAssumption DEF TypeOK
<1>1. ASSUME NEW d \in Delivery, Respond(d) PROVE LockInv'
  <2>1. ASSUME NEW e \in Pipeline,
               pc'[e] = "awaiting" \/ (pc'[e] = "ready" /\ step'[e] # Begin)
        PROVE  lockq' # <<>> /\ Head(lockq') = e
    <3>1. CASE e = d
      BY <1>1, <2>1, <3>1 DEF Respond, TypeOK, LockInv
    <3>2. CASE e # d
      <4>1. lockq # <<>> /\ Head(lockq) = e
        BY <1>0, <1>1, <2>1, <3>2 DEF Respond, TypeOK, LockInv
      <4>2. QED BY <1>0, <1>1, <4>1, AppendFacts DEF Respond
    <3>3. QED BY <3>1, <3>2
  <2>2. ASSUME NEW e \in Delivery, pc'[e] = "idle" PROVE step'[e] = Begin
    BY <1>1, <2>2 DEF Respond, TypeOK, LockInv
  <2>3. QED BY <2>1, <2>2 DEF LockInv
<1>2. ASSUME NEW d \in Delivery, Send(d) PROVE LockInv'
  BY <1>0, <1>2 DEF Send, Turn, TypeOK, LockInv
<1>3. ASSUME NEW d \in Delivery, NEW outcome \in {"delivered", "failed"},
             Finish(d, outcome), UNCHANGED step,
             d \in Pipeline => lockq # <<>> /\ Head(lockq) = d
      PROVE  LockInv'
  BY <1>0, <1>3 DEF Finish, TypeOK, LockInv
<1>4. ASSUME NEW d \in Delivery,
             SendFails(d) \/ TtsFails(d) \/ Nacked(d) \/ Timeout(d)
      PROVE  LockInv'
  BY <1>3, <1>4, HeldLock DEF SendFails, TtsFails, Nacked, Timeout, Turn, LockInv, Begin
<1>5. ASSUME NEW d \in Delivery, Acked(d) PROVE LockInv'
  <2>1. d \in Pipeline => lockq # <<>> /\ Head(lockq) = d
    BY <1>5, HeldLock DEF Acked
  <2>2. CASE step[d] = End
    BY <1>3, <1>5, <2>1, <2>2 DEF Acked
  <2>3. CASE step[d] # End
    BY <1>0, <1>5, <2>1, <2>3 DEF Acked, TypeOK, LockInv
  <2>4. QED BY <2>2, <2>3
<1>6. ASSUME UNCHANGED <<lockq, pc, step>> PROVE LockInv'
  BY <1>6 DEF LockInv
<1>7. QED
  BY <1>1, <1>2, <1>4, <1>5, <1>6
  DEF Next, Deliver, Client, AckArrives, Break, Reconnect, Restart, Receive, Tick,
      HandleBegin, HandleChunk, HandleEnd, HandleEndFails, Ack, gatewayVars

-----------------------------------------------------------------------------
(* The futures of the dispatcher.                                          *)

Awaited(d) == pc[d] = "awaiting" /\ answer[d] = "none"

LEMMA PendingOf ==
  ASSUME TypeOK, PendingTracksSends
  PROVE  /\ \A cmd \in pending : /\ cmd[1] \in Delivery
                                 /\ Awaited(cmd[1])
                                 /\ cmd = Current(cmd[1])
         /\ \A d \in Delivery : Awaited(d) => Current(d) \in pending
BY CurrentType DEF PendingTracksSends, Awaited

\* One delivery moves; the others keep their commands and their futures.
LEMMA PendingStep ==
  ASSUME TypeOK, TypeOK', PendingTracksSends, NEW d \in Delivery,
         \A e \in Delivery : e # d => /\ pc'[e] = pc[e]
                                     /\ step'[e] = step[e]
                                     /\ answer'[e] = answer[e],
         \A e \in Delivery : e # d =>
            (Current(e) \in pending <=> Current(e) \in pending'),
         \A cmd \in pending' : cmd \in pending \/ cmd = Current(d)',
         Awaited(d)' <=> Current(d)' \in pending',
         Current(d) \in pending' => Current(d) = Current(d)'
  PROVE  PendingTracksSends'
<1>1. ASSUME NEW e \in Delivery, Awaited(e)'
      PROVE  Current(e)' \in pending'
  <2>1. CASE e = d
    BY <1>1, <2>1
  <2>2. CASE e # d
    BY <1>1, <2>2, PendingOf DEF Awaited, Current
  <2>3. QED BY <2>1, <2>2
<1>2. ASSUME NEW cmd \in pending'
      PROVE  \E e \in Delivery : Awaited(e)' /\ cmd = Current(e)'
  <2>1. CASE cmd = Current(d)'
    BY <1>2, <2>1
  <2>2. CASE cmd # Current(d)'
    <3>1. cmd \in pending
      BY <1>2, <2>2
    <3>2. PICK e \in Delivery : Awaited(e) /\ cmd = Current(e)
      BY <3>1, PendingOf
    <3>3. e # d
      BY <1>2, <2>2, <3>2
    <3>4. QED BY <3>2, <3>3 DEF Awaited, Current
  <2>3. QED BY <2>1, <2>2
<1>3. QED BY <1>1, <1>2 DEF PendingTracksSends, Awaited

LEMMA StepPending ==
  ASSUME TypeOK, TypeOK', LockInv, PendingTracksSends, Next
  PROVE  PendingTracksSends'
<1>0. /\ pc \in [Delivery -> {"idle", "ready", "awaiting", "delivered", "failed"}]
      /\ step \in [Delivery -> Begin..End]
      /\ answer \in [Delivery -> {"none", "ok", "nack"}]
      /\ pending \in SUBSET Command
  BY DEF TypeOK
<1>1. ASSUME NEW d \in Delivery, ~Awaited(d), ~Awaited(d)',
             \A e \in Delivery : e # d => pc'[e] = pc[e] /\ step'[e] = step[e],
             UNCHANGED <<pending, answer>>
      PROVE  PendingTracksSends'
  BY <1>0, <1>1 DEF PendingTracksSends, Awaited, Current
<1>2. ASSUME NEW d \in Delivery,
             Respond(d) \/ SendFails(d) \/ TtsFails(d) \/ Acked(d) \/ Nacked(d)
      PROVE  PendingTracksSends'
  BY <1>0, <1>1, <1>2
  DEF Respond, SendFails, TtsFails, Acked, Nacked, Finish, Awaited
<1>3. ASSUME NEW d \in Delivery, Send(d) PROVE PendingTracksSends'
  <2>1. pc' = [pc EXCEPT ![d] = "awaiting"] /\ answer' = [answer EXCEPT ![d] = "none"]
        /\ step' = step /\ pending' = pending \cup {Current(d)} /\ pc[d] = "ready"
    BY <1>3 DEF Send
  <2>2. \A e \in Delivery : Current(e)' = Current(e)
    BY <2>1 DEF Current
  <2>3. \A e \in Delivery : e # d => Current(e) # Current(d)
    BY CurrentType
  <2>4. Awaited(d)'
    BY <1>0, <2>1 DEF Awaited
  <2>5. QED BY <1>0, <2>1, <2>2, <2>3, <2>4, PendingStep
<1>4. ASSUME NEW d \in Delivery, Timeout(d) PROVE PendingTracksSends'
  <2>1. \A e \in Delivery : e # d => pc'[e] = pc[e]
    BY <1>0, <1>4 DEF Timeout, Finish
  <2>2. answer' = answer /\ step' = step /\ pending' = pending \ {Current(d)}
    BY <1>4 DEF Timeout
  <2>3. \A e \in Delivery : Current(e)' = Current(e)
    BY <2>2 DEF Current
  <2>4. \A e \in Delivery : e # d => Current(e) # Current(d)
    BY CurrentType
  <2>5. ~Awaited(d)'
    BY <1>0, <1>4 DEF Awaited, Timeout, Finish
  <2>6. QED BY <2>1, <2>2, <2>3, <2>4, <2>5, PendingStep
<1>5. ASSUME AckArrives PROVE PendingTracksSends'
  <2>1. PICK cmd : cmd = Head(acks).cmd /\ cmd \in Command
    <3>1. acks \in Seq([cmd : Command, ok : BOOLEAN]) /\ acks # <<>>
      BY <1>5 DEF AckArrives, TypeOK
    <3>2. Head(acks) \in [cmd : Command, ok : BOOLEAN]
      BY <3>1, TailFacts
    <3>3. QED BY <3>2
  <2>2. pc' = pc /\ step' = step /\ pending' = pending \ {cmd}
    BY <1>5, <2>1 DEF AckArrives
  <2>3. CASE cmd \notin pending
    <3>1. answer' = answer /\ pending' = pending
      BY <1>5, <2>1, <2>2, <2>3 DEF AckArrives
    <3>2. QED BY <2>2, <3>1 DEF PendingTracksSends, Current
  <2>4. CASE cmd \in pending
    <3>1. cmd[1] \in Delivery /\ cmd = Current(cmd[1])
      BY <2>4, PendingOf
    <3>2. PICK d \in Delivery : d = cmd[1]
      BY <3>1
    <3>3. answer' = [answer EXCEPT ![d] = IF Head(acks).ok THEN "ok" ELSE "nack"]
      BY <1>5, <2>1, <2>4, <3>2 DEF AckArrives
    <3>4. answer'[d] # "none" /\ \A e \in Delivery : e # d => answer'[e] = answer[e]
      BY <1>0, <3>3
    <3>5. \A e \in Delivery : Current(e)' = Current(e)
      BY <2>2 DEF Current
    <3>6. \A e \in Delivery : e # d => Current(e) # cmd
      BY <3>1, <3>2, CurrentType
    <3>7. ~Awaited(d)'
      BY <3>4 DEF Awaited
    <3>8. QED BY <2>2, <3>1, <3>2, <3>4, <3>5, <3>6, <3>7, PendingStep
  <2>5. QED BY <2>3, <2>4
<1>6. ASSUME UNCHANGED <<pc, step, pending, answer>> PROVE PendingTracksSends'
  BY <1>6 DEF PendingTracksSends, Current
<1>7. QED
  BY <1>2, <1>3, <1>4, <1>5, <1>6
  DEF Next, Deliver, Client, Break, Reconnect, Restart, Receive, Tick,
      HandleBegin, HandleChunk, HandleEnd, HandleEndFails, Ack, gatewayVars

\* What holds with the HTTP route interleaving.
GatewayInv == TypeOK /\ LockInv /\ PendingTracksSends

LEMMA GatewayInductive == Spec => []GatewayInv
<1>1. Init => GatewayInv
  <2>1. Init => LockInv
    BY PipelineAssumption DEF Init, LockInv
  <2>2. Init => PendingTracksSends
    BY DEF Init, PendingTracksSends
  <2>3. QED BY <2>1, <2>2, InitType DEF GatewayInv
<1>2. GatewayInv /\ [Next]_vars => GatewayInv'
  <2>1. ASSUME GatewayInv, Next PROVE GatewayInv'
    BY <2>1, StepType, StepLock, StepPending DEF GatewayInv
  <2>2. ASSUME GatewayInv, UNCHANGED vars PROVE GatewayInv'
    BY <2>2
    DEF GatewayInv, vars, gatewayVars, wireVars, clientVars, TypeOK, LockInv,
        PendingTracksSends, Current
  <2>3. QED BY <2>1, <2>2
<1>3. QED BY <1>1, <1>2, PTL DEF Spec

\* Type correctness of gateway, wire and client.
THEOREM TypeCorrect == Spec => []TypeOK
<1>1. GatewayInv => TypeOK
  BY DEF GatewayInv
<1>2. QED BY <1>1, GatewayInductive, PTL

\* CommandDispatcher._pending holds exactly the commands that are awaited, whoever
\* sends them.
THEOREM NoFutureLeaks == Spec => []PendingTracksSends
<1>1. GatewayInv => PendingTracksSends
  BY DEF GatewayInv
<1>2. QED BY <1>1, GatewayInductive, PTL

-----------------------------------------------------------------------------
(* Queues.                                                                 *)

LEMMA HeldTail ==
  ASSUME NEW S, NEW q \in Seq(S), q # <<>>
  PROVE  Head(q) \in Held(q) /\ Held(Tail(q)) \subseteq Held(q)
<1>1. Head(q) \in Held(q)
  BY TailFacts DEF Held
<1>2. ASSUME NEW i \in 1..Len(Tail(q)) PROVE Tail(q)[i] \in Held(q)
  <2>1. i + 1 \in 1..Len(q) /\ Tail(q)[i] = q[i + 1]
    BY <1>2, TailFacts
  <2>2. QED BY <2>1 DEF Held
<1>3. QED BY <1>1, <1>2 DEF Held

LEMMA HeldAppend ==
  ASSUME NEW S, NEW q \in Seq(S), NEW x \in S
  PROVE  Held(Append(q, x)) \subseteq Held(q) \cup {x}
<1>1. ASSUME NEW i \in 1..Len(Append(q, x))
      PROVE  Append(q, x)[i] \in Held(q) \cup {x}
  <2>1. i \in 1..Len(q) \/ i = Len(q) + 1
    BY <1>1, AppendFacts
  <2>2. QED BY <2>1, AppendFacts DEF Held
<1>2. QED BY <1>1 DEF Held

LEMMA HeldEmpty == Held(<<>>) = {}
BY DEF Held

LEMMA HeldType ==
  ASSUME NEW S, NEW q \in Seq(S)
  PROVE  Held(q) \subseteq S /\ \A i \in 1..Len(q) : q[i] \in Held(q)
BY DEF Held

LEMMA Queues ==
  ASSUME TypeOK
  PROVE  /\ batch \in Seq(Command) /\ inbox \in Seq(Command)
         /\ net \in Seq(Command) /\ InFlight \subseteq Command
         /\ acks \in Seq([cmd : Command, ok : BOOLEAN])
         /\ \A cmd \in Command : cmd[1] \in Delivery /\ cmd[2] \in Begin..End
                                 /\ cmd = <<cmd[1], cmd[2]>>
<1>1. /\ batch \in Seq(Command) /\ inbox \in Seq(Command) /\ net \in Seq(Command)
      /\ acks \in Seq([cmd : Command, ok : BOOLEAN])
  BY DEF TypeOK
<1>2. InFlight \subseteq Command
  BY <1>1, HeldType DEF InFlight
<1>3. QED BY <1>1, <1>2 DEF Command

\* The client handles a command, one way or another.
Handles == HandleBegin \/ HandleChunk \/ HandleEnd \/ HandleEndFails

LEMMA HandleFacts ==
  ASSUME TypeOK, Handles
  PROVE  /\ batch # <<>> /\ batch' \in {<<>>, Tail(batch)}
         /\ acks' = acks \/ \E ok \in BOOLEAN :
               /\ ok => HandleBegin \/ HandleChunk \/ HandleEnd
               /\ batch' = Tail(batch)
               /\ acks' = Append(acks, [cmd |-> Head(batch), ok |-> ok])
         /\ UNCHANGED <<connected, net, breaks, restarts, gatewayVars, inbox>>
<1>1. PICK ok \in BOOLEAN : /\ batch # <<>> /\ Ack(ok)
                            /\ ok => HandleBegin \/ HandleChunk \/ HandleEnd
  BY DEF Handles, HandleBegin, HandleChunk, HandleEnd, HandleEndFails
<1>2. QED BY <1>1 DEF Ack

\* Only Send puts a command in flight.
LEMMA InFlightStep ==
  ASSUME TypeOK, Next
  PROVE  InFlight' \subseteq InFlight \/ \E d \in Delivery :
           Send(d) /\ InFlight' \subseteq InFlight \cup {Current(d)}
<1>0. batch \in Seq(Command) /\ inbox \in Seq(Command) /\ net \in Seq(Command)
  BY Queues
<1>1. ASSUME UNCHANGED <<batch, inbox, net>> PROVE InFlight' \subseteq InFlight
  BY <1>1 DEF InFlight
<1>2. ASSUME NEW d \in Delivery, Send(d)
      PROVE  InFlight' \subseteq InFlight \cup {Current(d)}
  <2>1. batch' = batch /\ inbox' = inbox /\ net' \in {net, Append(net, Current(d))}
    BY <1>2 DEF Send, clientVars
  <2>2. Held(net') \subseteq Held(net) \cup {Current(d)}
    BY <1>0, <2>1, CurrentType, HeldAppend
  <2>3. QED BY <2>1, <2>2 DEF InFlight
<1>3. ASSUME Break \/ Restart PROVE InFlight' \subseteq InFlight
  BY <1>3, HeldEmpty DEF Break, Restart, clientVars, InFlight
<1>4. ASSUME Receive PROVE InFlight' \subseteq InFlight
  <2>1. /\ net # <<>> /\ inbox' = Append(inbox, Head(net))
        /\ net' = Tail(net) /\ batch' = batch
    BY <1>4 DEF Receive
  <2>2. Head(net) \in Command
    BY <1>0, <2>1, TailFacts
  <2>3. Held(inbox') \subseteq Held(inbox) \cup {Head(net)}
    BY <1>0, <2>1, <2>2, HeldAppend
  <2>4. Head(net) \in Held(net) /\ Held(net') \subseteq Held(net)
    BY <1>0, <2>1, HeldTail
  <2>5. QED BY <2>1, <2>3, <2>4 DEF InFlight
<1>5. ASSUME Tick PROVE InFlight' \subseteq InFlight
  BY <1>5, HeldEmpty DEF Tick, wireVars, InFlight
<1>6. ASSUME Handles PROVE InFlight' \subseteq InFlight
  <2>1. /\ batch # <<>> /\ batch' \in {<<>>, Tail(batch)}
        /\ inbox' = inbox /\ net' = net
    BY <1>6, HandleFacts
  <2>2. Held(batch') \subseteq Held(batch)
    BY <1>0, <2>1, HeldTail, HeldEmpty
  <2>3. QED BY <2>1, <2>2 DEF InFlight
<1>7. QED
  BY <1>1, <1>2, <1>3, <1>4, <1>5, <1>6
  DEF Next, Deliver, Client, Handles, Respond, SendFails, TtsFails, AckArrives, Acked,
      Nacked, Timeout, Reconnect, wireVars, clientVars

\* Only the handling of a command puts its acknowledgement in flight.
LEMMA AcksStep ==
  ASSUME TypeOK, Next, NEW i \in 1..Len(acks')
  PROVE  \/ \E j \in 1..Len(acks) : acks'[i] = acks[j]
         \/ /\ Handles /\ acks'[i].cmd = Head(batch) /\ batch' = Tail(batch)
            /\ acks'[i].ok => HandleBegin \/ HandleChunk \/ HandleEnd
<1>0. acks \in Seq([cmd : Command, ok : BOOLEAN])
  BY Queues
<1>1. CASE UNCHANGED acks
  BY <1>1
<1>2. CASE Break \/ Restart
  BY <1>2 DEF Break, Restart
<1>3. CASE AckArrives
  <2>1. i + 1 \in 1..Len(acks) /\ acks'[i] = acks[i + 1]
    BY <1>0, <1>3, TailFacts DEF AckArrives
  <2>2. QED BY <2>1
<1>4. CASE Handles
  <2>1. CASE acks' = acks
    BY <2>1
  <2>2. CASE acks' # acks
    <3>1. PICK ok \in BOOLEAN :
            /\ ok => HandleBegin \/ HandleChunk \/ HandleEnd
            /\ batch' = Tail(batch)
            /\ acks' = Append(acks, [cmd |-> Head(batch), ok |-> ok])
      BY <1>4, <2>2, HandleFacts
    <3>2. Head(batch) \in Command
      BY <1>4, HandleFacts, Queues, TailFacts
    <3>3. [cmd |-> Head(batch), ok |-> ok] \in [cmd : Command, ok : BOOLEAN]
      BY <3>2
    <3>4. i \in 1..Len(acks) \/ i = Len(acks) + 1
      BY <1>0, <3>1, <3>3, AppendFacts
    <3>5. CASE i \in 1..Len(acks)
      BY <1>0, <3>1, <3>3, <3>5, AppendFacts
    <3>6. CASE i = Len(acks) + 1
      BY <1>0, <1>4, <3>1, <3>3, <3>6, AppendFacts
    <3>7. QED BY <3>4, <3>5, <3>6
  <2>3. QED BY <2>1, <2>2
<1>5. QED
  BY <1>1, <1>2, <1>3, <1>4
  DEF Next, Deliver, Client, Handles, Respond, Send, SendFails, TtsFails, Acked, Nacked,
      Timeout, Reconnect, Receive, Tick, wireVars, clientVars

-----------------------------------------------------------------------------
(* Commands are sent once, and one at a time.                              *)

LEMMA SentStays ==
  ASSUME TypeOK, LockInv, Next, NEW cmd \in Command, Sent(cmd)
  PROVE  Sent(cmd)'
<1>0. /\ pc \in [Delivery -> {"idle", "ready", "awaiting", "delivered", "failed"}]
      /\ step \in [Delivery -> Begin..End]
      /\ cmd[1] \in Delivery /\ cmd[2] \in Begin..End
  BY Queues DEF TypeOK
<1>1. ASSUME NEW d \in Delivery, step' = step,
             \A e \in Delivery : e # d => pc'[e] = pc[e],
             pc[d] \in {"idle", "ready"} \/ pc'[d] \notin {"idle", "ready"}
      PROVE  Sent(cmd)'
  BY <1>0, <1>1 DEF Sent
<1>2. ASSUME NEW d \in Delivery,
             Respond(d) \/ Send(d) \/ SendFails(d) \/ TtsFails(d) \/ Nacked(d)
               \/ Timeout(d)
      PROVE  Sent(cmd)'
  BY <1>0, <1>1, <1>2 DEF Respond, Send, SendFails, TtsFails, Nacked, Timeout, Finish
<1>3. ASSUME NEW d \in Delivery, Acked(d) PROVE Sent(cmd)'
  <2>1. CASE step[d] = End
    BY <1>0, <1>1, <1>3, <2>1 DEF Acked, Finish
  <2>2. CASE step[d] # End
    <3>1. step' = [step EXCEPT ![d] = @ + 1] /\ pc' = [pc EXCEPT ![d] = "ready"]
      BY <1>3, <2>2 DEF Acked
    <3>2. step[d] \in Int /\ cmd[2] \in Int
      BY <1>0, Numbers
    <3>3. CASE cmd[1] = d
      BY <1>0, <3>1, <3>2, <3>3 DEF Sent
    <3>4. CASE cmd[1] # d
      BY <1>0, <3>1, <3>4 DEF Sent
    <3>5. QED BY <3>3, <3>4
  <2>3. QED BY <2>1, <2>2
<1>4. ASSUME UNCHANGED <<pc, step>> PROVE Sent(cmd)'
  BY <1>4 DEF Sent
<1>5. QED
  BY <1>2, <1>3, <1>4, HandleFacts
  DEF Next, Deliver, Client, Handles, AckArrives, Break, Reconnect, Restart, Receive,
      Tick, gatewayVars

LEMMA StepSentOnce ==
  ASSUME TypeOK, LockInv, SentOnce, Next
  PROVE  SentOnce'
<1>1. ASSUME NEW d \in Delivery, Send(d) PROVE Sent(Current(d))'
  <2>1. pc'[d] = "awaiting" /\ step' = step
    BY <1>1 DEF Send, TypeOK
  <2>2. Current(d)' = Current(d)
    BY <2>1 DEF Current
  <2>3. QED BY <2>1, <2>2 DEF Sent, Current
<1>2. ASSUME NEW cmd \in InFlight' PROVE Sent(cmd)'
  <2>1. CASE cmd \in InFlight
    BY <2>1, SentStays, Queues DEF SentOnce
  <2>2. CASE cmd \notin InFlight
    <3>1. PICK d \in Delivery : Send(d) /\ cmd = Current(d)
      BY <1>2, <2>2, InFlightStep
    <3>2. Sent(Current(d))' /\ Current(d)' = Current(d)
      BY <1>1, <3>1 DEF Send, Current
    <3>3. QED BY <3>1, <3>2 DEF Sent
  <2>3. QED BY <2>1, <2>2
<1>3. ASSUME NEW i \in 1..Len(acks') PROVE Sent(acks[i].cmd)'
  <2>1. CASE \E j \in 1..Len(acks) : acks'[i] = acks[j]
    <3>1. PICK j \in 1..Len(acks) : acks'[i] = acks[j]
      BY <2>1
    <3>2. acks[j].cmd \in Command
      <4>1. acks[j] \in [cmd : Command, ok : BOOLEAN]
        BY Queues, ElementOfSeq
      <4>2. QED BY <4>1
    <3>3. Sent(acks[j].cmd)
      BY DEF SentOnce
    <3>4. PICK cmd \in Command : cmd = acks[j].cmd
      BY <3>2
    <3>5. Sent(cmd)'
      BY <3>3, <3>4, SentStays
    <3>6. QED BY <3>1, <3>4, <3>5 DEF Sent
  <2>2. CASE Handles /\ acks'[i].cmd = Head(batch)
    <3>1. Head(batch) \in Command /\ Head(batch) \in InFlight
      BY <2>2, HandleFacts, Queues, HeldTail DEF InFlight
    <3>2. PICK cmd \in Command : cmd = Head(batch)
      BY <3>1
    <3>3. Sent(cmd)'
      BY <3>1, <3>2, SentStays DEF SentOnce
    <3>4. QED BY <2>2, <3>2, <3>3 DEF Sent
  <2>3. QED BY <2>1, <2>2, AcksStep
<1>4. QED BY <1>2, <1>3 DEF SentOnce

\* With every response in the pipeline, at most one of them is under way.
LEMMA OneUnderWay ==
  ASSUME Pipeline = Delivery, LockInv, NEW d \in Delivery, NEW e \in Delivery,
         \/ Turn(d)
         \/ pc[d] = "awaiting"
         \/ pc[d] = "ready" /\ step[d] # Begin,
         pc[e] = "awaiting" \/ (pc[e] = "ready" /\ step[e] # Begin)
  PROVE  d = e
BY DEF LockInv, Turn

LEMMA StepFirst ==
  ASSUME Pipeline = Delivery, TypeOK, LockInv, FirstInFlight, ProgressEffect, Next
  PROVE  FirstInFlight'
<1>0. batch \in Seq(Command) /\ inbox \in Seq(Command) /\ net \in Seq(Command)
  BY Queues
<1>1. ASSUME UNCHANGED <<batch, inbox, net>> PROVE FirstInFlight'
  BY <1>1 DEF FirstInFlight
<1>2. ASSUME NEW d \in Delivery, Send(d) PROVE FirstInFlight'
  <2>1. batch' = batch /\ inbox' = inbox /\ pc[d] = "ready"
    BY <1>2 DEF Send, clientVars
  <2>2. CASE net' = net
    BY <1>1, <2>1, <2>2
  <2>3. CASE net' # net
    <3>1. net' = Append(net, Current(d))
      BY <1>2, <2>3 DEF Send
    <3>2. Current(d) \in Command /\ Current(d)[2] = step[d]
      BY CurrentType
    <3>3. ASSUME NEW i \in 1..Len(net'), net'[i][2] # Begin
          PROVE  i = 1 /\ batch' = <<>> /\ inbox' = <<>>
      <4>1. i \in 1..Len(net) \/ i = Len(net) + 1
        BY <1>0, <3>1, <3>2, AppendFacts
      <4>2. CASE i \in 1..Len(net)
        BY <1>0, <2>1, <3>1, <3>2, <3>3, <4>2, AppendFacts DEF FirstInFlight
      <4>3. CASE i = Len(net) + 1
        <5>1. step[d] # Begin
          BY <1>0, <3>1, <3>2, <3>3, <4>3, AppendFacts
        <5>2. Quiet
          BY <2>1, <5>1 DEF ProgressEffect
        <5>3. QED BY <2>1, <4>3, <5>2 DEF Quiet
      <4>4. QED BY <4>1, <4>2, <4>3
    <3>4. QED BY <2>1, <3>3 DEF FirstInFlight
  <2>4. QED BY <2>2, <2>3
<1>3. ASSUME Receive PROVE FirstInFlight'
  <2>1. /\ net # <<>> /\ inbox' = Append(inbox, Head(net))
        /\ net' = Tail(net) /\ batch' = batch
    BY <1>3 DEF Receive
  <2>2. Head(net) \in Command /\ Head(net) = net[1] /\ 1 \in 1..Len(net)
    BY <1>0, <2>1, TailFacts
  <2>3. ASSUME NEW i \in 1..Len(inbox'), inbox'[i][2] # Begin
        PROVE  i = 1 /\ batch' = <<>>
    <3>1. i \in 1..Len(inbox) \/ i = Len(inbox) + 1
      BY <1>0, <2>1, <2>2, AppendFacts
    <3>2. CASE i \in 1..Len(inbox)
      BY <1>0, <2>1, <2>2, <2>3, <3>2, AppendFacts DEF FirstInFlight
    <3>3. CASE i = Len(inbox) + 1
      <4>1. net[1][2] # Begin
        BY <1>0, <2>1, <2>2, <2>3, <3>3, AppendFacts
      <4>2. inbox = <<>> /\ batch = <<>>
        BY <2>2, <4>1 DEF FirstInFlight
      <4>3. QED BY <2>1, <3>3, <4>2
    <3>4. QED BY <3>1, <3>2, <3>3
  <2>4. ASSUME NEW i \in 1..Len(net') PROVE net'[i][2] = Begin
    <3>1. i + 1 \in 1..Len(net) /\ net'[i] = net[i + 1] /\ i + 1 # 1
      BY <1>0, <2>1, TailFacts
    <3>2. QED BY <3>1 DEF FirstInFlight
  <2>5. QED BY <2>1, <2>3, <2>4 DEF FirstInFlight
<1>4. ASSUME Tick PROVE FirstInFlight'
  BY <1>0, <1>4 DEF Tick, wireVars, FirstInFlight
<1>5. ASSUME Handles PROVE FirstInFlight'
  <2>1. /\ batch # <<>> /\ batch' \in {<<>>, Tail(batch)}
        /\ inbox' = inbox /\ net' = net
    BY <1>5, HandleFacts
  <2>2. ASSUME NEW i \in 1..Len(batch') PROVE batch'[i][2] = Begin
    <3>1. batch' = Tail(batch)
      BY <2>1, <2>2
    <3>2. i + 1 \in 1..Len(batch) /\ batch'[i] = batch[i + 1] /\ i + 1 # 1
      BY <1>0, <2>1, <3>1, TailFacts
    <3>3. QED BY <3>2 DEF FirstInFlight
  <2>3. /\ \A i \in 1..Len(inbox) : inbox[i][2] = Begin
        /\ \A i \in 1..Len(net) : net[i][2] = Begin
    BY <2>1 DEF FirstInFlight
  <2>4. QED BY <2>1, <2>2, <2>3 DEF FirstInFlight
<1>6. ASSUME Break \/ Restart PROVE FirstInFlight'
  <2>1. CASE Break
    BY <2>1 DEF Break, clientVars, FirstInFlight
  <2>2. CASE Restart
    BY <2>2 DEF Restart, FirstInFlight
  <2>3. QED BY <1>6, <2>1, <2>2
<1>7. QED
  BY <1>1, <1>2, <1>3, <1>4, <1>5, <1>6
  DEF Next, Deliver, Client, Handles, Respond, SendFails, TtsFails, AckArrives, Acked,
      Nacked, Timeout, Reconnect, wireVars, clientVars

\* What sending a command finds: no other is awaited, and this one is not out yet.
LEMMA SendFacts ==
  ASSUME Pipeline = Delivery, TypeOK, LockInv, PendingTracksSends, SentOnce,
         NEW d \in Delivery, Send(d)
  PROVE  /\ pending = {} /\ pending' = {Current(d)}
         /\ Current(d) \notin InFlight
         /\ \A i \in 1..Len(acks) : acks[i].cmd # Current(d)
<1>1. pc[d] = "ready" /\ Turn(d) /\ pending' = pending \cup {Current(d)}
  BY DEF Send
<1>2. ASSUME NEW cmd \in pending PROVE FALSE
  <2>1. cmd[1] \in Delivery /\ pc[cmd[1]] = "awaiting"
    BY <1>2, PendingOf DEF Awaited
  <2>2. cmd[1] = d
    BY <1>1, <2>1, OneUnderWay
  <2>3. QED BY <1>1, <2>1, <2>2
<1>3. ~Sent(Current(d))
  <2>1. step[d] \in Int
    BY Numbers DEF TypeOK
  <2>2. QED BY <1>1, <2>1 DEF Sent, Current
<1>4. QED BY <1>1, <1>2, <1>3 DEF SentOnce

\* Pending commands come from Send alone.
LEMMA PendingShrinks ==
  ASSUME Next
  PROVE  pending' \subseteq pending \/ \E d \in Delivery : Send(d)
<1>1. CASE Handles \/ Receive \/ Tick \/ Break \/ Reconnect \/ Restart
  BY <1>1
  DEF Handles, HandleBegin, HandleChunk, HandleEnd, HandleEndFails, Ack, Receive, Tick,
      Break, Reconnect, Restart, gatewayVars
<1>2. CASE AckArrives
  BY <1>2 DEF AckArrives
<1>3. CASE \E d \in Delivery : Respond(d) \/ Deliver(d)
  BY <1>3 DEF Deliver, Respond, SendFails, TtsFails, Acked, Nacked, Timeout
<1>4. QED BY <1>1, <1>2, <1>3 DEF Next, Client, Handles

LEMMA StepLast ==
  ASSUME Pipeline = Delivery, TypeOK, LockInv, PendingTracksSends, SentOnce,
         LastInFlight, Next
  PROVE  LastInFlight'
<1>0. batch \in Seq(Command) /\ inbox \in Seq(Command) /\ net \in Seq(Command)
  BY Queues
<1>1. ASSUME NEW d \in Delivery, Send(d) PROVE LastInFlight'
  <2>1. /\ pending' = {Current(d)} /\ Current(d) \notin InFlight
        /\ Current(d) \in Command
    BY <1>1, SendFacts, CurrentType
  <2>2. /\ batch' = batch /\ inbox' = inbox
        /\ net' \in {net, Append(net, Current(d))}
    BY <1>1 DEF Send, clientVars
  <2>3. /\ \A i \in 1..Len(batch) : batch[i] # Current(d)
        /\ \A i \in 1..Len(inbox) : inbox[i] # Current(d)
        /\ \A i \in 1..Len(net) : net[i] # Current(d)
    BY <2>1 DEF InFlight, Held
  <2>4. ASSUME NEW i \in 1..Len(net'), net'[i] = Current(d) PROVE i = Len(net')
    <3>1. net' = Append(net, Current(d))
      BY <2>2, <2>3, <2>4
    <3>2. i \in 1..Len(net) \/ i = Len(net')
      BY <1>0, <2>1, <3>1, AppendFacts
    <3>3. CASE i \in 1..Len(net)
      BY <1>0, <2>1, <2>3, <2>4, <3>1, <3>3, AppendFacts
    <3>4. QED BY <3>2, <3>3
  <2>5. QED BY <2>1, <2>2, <2>3, <2>4 DEF LastInFlight
<1>2. ASSUME pending' \subseteq pending, UNCHANGED <<batch, inbox, net>>
      PROVE  LastInFlight'
  BY <1>2 DEF LastInFlight
<1>3. ASSUME pending' \subseteq pending, Receive PROVE LastInFlight'
  <2>1. /\ net # <<>> /\ inbox' = Append(inbox, Head(net))
        /\ net' = Tail(net) /\ batch' = batch
    BY <1>3 DEF Receive
  <2>2. Head(net) \in Command /\ Head(net) = net[1] /\ 1 \in 1..Len(net)
    BY <1>0, <2>1, TailFacts
  <2>3. SUFFICES ASSUME NEW cmd \in pending
        PROVE /\ \A i \in 1..Len(batch) : batch[i] # cmd
              /\ \A i \in 1..Len(inbox') :
                    inbox'[i] = cmd => i = Len(inbox') /\ net' = <<>>
              /\ \A i \in 1..Len(net') : net'[i] = cmd => i = Len(net')
    BY <1>3, <2>1 DEF LastInFlight
  <2>4. /\ \A i \in 1..Len(batch) : batch[i] # cmd
        /\ \A i \in 1..Len(inbox) : inbox[i] # cmd
    BY <2>1 DEF LastInFlight
  <2>5. ASSUME NEW i \in 1..Len(inbox'), inbox'[i] = cmd
        PROVE  i = Len(inbox') /\ net' = <<>>
    <3>1. i = Len(inbox) + 1 /\ Len(inbox') = Len(inbox) + 1
      <4>1. i \in 1..Len(inbox) \/ i = Len(inbox) + 1
        BY <1>0, <2>1, <2>2, AppendFacts
      <4>2. CASE i \in 1..Len(inbox)
        BY <1>0, <2>1, <2>2, <2>4, <2>5, <4>2, AppendFacts
      <4>3. QED BY <1>0, <2>1, <2>2, <4>1, <4>2, AppendFacts
    <3>2. net[1] = cmd
      BY <1>0, <2>1, <2>2, <2>5, <3>1, AppendFacts
    <3>3. Len(net) = 1
      BY <2>2, <3>2 DEF LastInFlight
    <3>4. net' = <<>>
      BY <1>0, <2>1, <3>3, TailFacts, EmptySeq
    <3>5. QED BY <3>1, <3>4
  <2>6. ASSUME NEW i \in 1..Len(net'), net'[i] = cmd PROVE i = Len(net')
    <3>1. /\ i + 1 \in 1..Len(net) /\ net'[i] = net[i + 1]
          /\ Len(net) \in Nat /\ Len(net') = Len(net) - 1 /\ i \in Nat
      BY <1>0, <2>1, TailFacts
    <3>2. i + 1 = Len(net)
      BY <2>6, <3>1 DEF LastInFlight
    <3>3. QED BY <3>1, <3>2
  <2>7. QED BY <2>4, <2>5, <2>6
<1>4. ASSUME pending' \subseteq pending, Tick PROVE LastInFlight'
  BY <1>0, <1>4 DEF Tick, wireVars, LastInFlight
<1>5. ASSUME pending' \subseteq pending, Handles PROVE LastInFlight'
  <2>1. /\ batch # <<>> /\ batch' \in {<<>>, Tail(batch)}
        /\ inbox' = inbox /\ net' = net
    BY <1>5, HandleFacts
  <2>2. ASSUME NEW cmd \in pending, NEW i \in 1..Len(batch'), batch'[i] = cmd
        PROVE  i = Len(batch') /\ inbox' = <<>> /\ net' = <<>>
    <3>1. batch' = Tail(batch)
      BY <2>1, <2>2
    <3>2. /\ i + 1 \in 1..Len(batch) /\ batch'[i] = batch[i + 1]
          /\ Len(batch') = Len(batch) - 1
      BY <1>0, <2>1, <3>1, TailFacts
    <3>3. i + 1 = Len(batch) /\ inbox = <<>> /\ net = <<>>
      BY <2>2, <3>2 DEF LastInFlight
    <3>4. QED BY <1>0, <2>1, <3>2, <3>3, TailFacts
  <2>3. QED BY <1>5, <2>1, <2>2 DEF LastInFlight
<1>6. ASSUME pending' \subseteq pending, Break \/ Restart PROVE LastInFlight'
  <2>1. CASE Break
    BY <1>6, <2>1 DEF Break, clientVars, LastInFlight
  <2>2. CASE Restart
    BY <2>2 DEF Restart, LastInFlight
  <2>3. QED BY <1>6, <2>1, <2>2
<1>7. CASE \E d \in Delivery : Send(d)
  BY <1>1, <1>7
<1>8. CASE pending' \subseteq pending
  BY <1>1, <1>2, <1>3, <1>4, <1>5, <1>6, <1>8
  DEF Next, Deliver, Client, Handles, Respond, SendFails, TtsFails, AckArrives, Acked,
      Nacked, Timeout, Reconnect, wireVars, clientVars
<1>9. QED BY <1>7, <1>8, PendingShrinks

-----------------------------------------------------------------------------
(* What the client has done with the commands it was sent.                 *)

LEMMA AfterSame ==
  ASSUME UNCHANGED <<buffer, cached, restarts>>, NEW d, NEW k
  PROVE  After(d, k)' <=> After(d, k)
BY DEF After, BufferIs

\* A complete buffer is the response, but for what a restart took from its front.
LEMMA WholeBuffer ==
  ASSUME TypeOK, NEW d \in Delivery, BufferIs(d, NumChunks), buffer # <<>>
  PROVE  /\ \E k \in 1..NumChunks : buffer = SubSeq(Audio(d), k, NumChunks)
         /\ restarts = 0 => buffer = Audio(d)
<1>1. /\ buffer \in Seq(Command) /\ Len(buffer) \in Nat
      /\ Len(buffer) >= 1 /\ Len(buffer) <= NumChunks
  BY TailFacts DEF TypeOK, BufferIs
<1>2. DOMAIN buffer = 1..Len(buffer) /\ buffer = [i \in 1..Len(buffer) |-> buffer[i]]
  BY <1>1
<1>3. \A i \in 1..Len(buffer) : buffer[i] = <<d, NumChunks - Len(buffer) + i>>
  BY DEF BufferIs
<1>4. PICK k \in 1..NumChunks : k = NumChunks - Len(buffer) + 1
  <2>1. PICK m \in Nat : m = Len(buffer) /\ m >= 1 /\ m <= NumChunks
    BY <1>1
  <2>2. NumChunks \in Nat
    BY Numbers
  <2>3. NumChunks - m + 1 \in 1..NumChunks
    BY ONLY <2>1, <2>2
  <2>4. QED BY <2>1, <2>3
<1>5. \A i \in k..NumChunks : Audio(d)[i] = <<d, i>> /\ Audio(d)[i] \in Command
  BY <1>4, Numbers DEF Audio, Command
<1>6. /\ SubSeq(Audio(d), k, NumChunks) \in Seq(Command)
      /\ Len(SubSeq(Audio(d), k, NumChunks)) = NumChunks - k + 1
      /\ \A i \in 1..(NumChunks - k + 1) :
           SubSeq(Audio(d), k, NumChunks)[i] = Audio(d)[k + i - 1]
  <2>1. k \in Int /\ NumChunks \in Int /\ k <= NumChunks
    BY <1>4, Numbers
  <2>2. \A i \in k..NumChunks : Audio(d)[i] \in Command
    BY <1>5
  <2>3. QED BY ONLY <2>1, <2>2, SubSeqProperties
<1>7. ASSUME NEW i \in 1..Len(buffer)
      PROVE  buffer[i] = SubSeq(Audio(d), k, NumChunks)[i]
  <2>1. i \in 1..(NumChunks - k + 1) /\ k + i - 1 \in k..NumChunks
    BY <1>1, <1>4, Numbers
  <2>2. k + i - 1 = NumChunks - Len(buffer) + i
    BY <1>1, <1>4, <1>7, Numbers
  <2>3. QED BY <1>3, <1>5, <1>6, <2>1, <2>2
<1>8. buffer = SubSeq(Audio(d), k, NumChunks)
  <2>1. Len(buffer) = NumChunks - k + 1
    BY <1>1, <1>4, Numbers
  <2>2. QED BY <1>1, <1>6, <1>7, <2>1, SeqEqual
<1>9. ASSUME restarts = 0 PROVE buffer = Audio(d)
  <2>1. Len(buffer) = NumChunks
    BY <1>9 DEF BufferIs
  <2>2. \A i \in 1..NumChunks : buffer[i] = <<d, i>>
    BY <1>3, <2>1, Numbers
  <2>3. QED BY <1>2, <2>1, <2>2 DEF Audio
<1>10. QED BY <1>8, <1>9

\* The command handled leaves its effect.
LEMMA HandleAfter ==
  ASSUME TypeOK, ArrivalEffect, HandleBegin \/ HandleChunk \/ HandleEnd,
         NEW cmd \in Command, cmd = Head(batch)
  PROVE  After(cmd[1], cmd[2])'
<1>0. /\ Handles /\ batch # <<>> /\ restarts' = restarts
      /\ cmd \in InFlight /\ cmd[1] \in Delivery /\ cmd[2] \in Begin..End
  BY HandleFacts, Queues, HeldTail DEF Handles, InFlight
<1>1. CASE HandleBegin
  <2>1. cmd[2] = 0 /\ buffer' = <<>>
    BY <1>1, Numbers DEF HandleBegin
  <2>2. QED BY <1>0, <2>1, Numbers DEF After, BufferIs
<1>2. CASE HandleChunk
  <2>1. cmd[2] \in 1..NumChunks /\ buffer' = Append(buffer, cmd)
    BY <1>2 DEF HandleChunk
  <2>2. BufferIs(cmd[1], cmd[2] - 1)
    BY <1>0, <2>1, Numbers DEF ArrivalEffect, After
  <2>3. /\ buffer \in Seq(Command) /\ Len(buffer) \in Nat
        /\ Len(buffer') = Len(buffer) + 1
        /\ \A i \in 1..Len(buffer) : buffer'[i] = buffer[i]
        /\ buffer'[Len(buffer) + 1] = cmd
    BY <2>1, AppendFacts DEF TypeOK
  <2>4. Len(buffer') <= cmd[2] /\ (restarts' = 0 => Len(buffer') = cmd[2])
    BY <1>0, <2>1, <2>2, <2>3, Numbers DEF BufferIs
  <2>5. ASSUME NEW i \in 1..Len(buffer')
        PROVE  buffer'[i] = <<cmd[1], cmd[2] - Len(buffer') + i>>
    <3>1. CASE i = Len(buffer) + 1
      <4>1. cmd[2] - Len(buffer') + i = cmd[2]
        BY <2>1, <2>3, <3>1, Numbers
      <4>2. QED BY <2>3, <3>1, <4>1, Queues
    <3>2. CASE i \in 1..Len(buffer)
      <4>1. cmd[2] - 1 - Len(buffer) + i = cmd[2] - Len(buffer') + i
        BY <2>1, <2>3, <3>2, Numbers
      <4>2. QED BY <2>2, <2>3, <3>2, <4>1 DEF BufferIs
    <3>3. QED BY <2>3, <3>1, <3>2
  <2>6. QED BY <2>1, <2>4, <2>5 DEF After, BufferIs
<1>3. CASE HandleEnd
  <2>1. /\ cmd[2] = NumChunks + 1 /\ buffer # <<>>
        /\ cached' = [cached EXCEPT ![cmd[1]] = buffer]
    BY <1>3, Numbers DEF HandleEnd
  <2>2. BufferIs(cmd[1], NumChunks)
    BY <1>0, <2>1, Numbers DEF ArrivalEffect, After
  <2>3. restarts = 0 => buffer = Audio(cmd[1])
    BY <1>0, <2>1, <2>2, WholeBuffer
  <2>4. cached'[cmd[1]] = buffer
    BY <1>0, <2>1 DEF TypeOK
  <2>5. QED BY <1>0, <2>1, <2>3, <2>4, Numbers DEF After, Audio
<1>4. QED BY <1>1, <1>2, <1>3

\* Once the client handles a command, only put_begins remain in flight.
LEMMA HandleLeavesBegins ==
  ASSUME TypeOK, FirstInFlight, Handles, NEW cmd \in InFlight'
  PROVE  cmd[2] = Begin
<1>1. /\ batch \in Seq(Command) /\ batch # <<>> /\ batch' \in {<<>>, Tail(batch)}
      /\ inbox' = inbox /\ net' = net
  BY HandleFacts, Queues
<1>2. CASE cmd \in Held(batch')
  <2>1. PICK i \in 1..Len(batch') : cmd = batch'[i]
    BY <1>2 DEF Held
  <2>2. batch' = Tail(batch)
    BY <1>1, <2>1
  <2>3. i + 1 \in 1..Len(batch) /\ batch'[i] = batch[i + 1] /\ i + 1 # 1
    BY <1>1, <2>2, TailFacts
  <2>4. QED BY <2>1, <2>3 DEF FirstInFlight
<1>3. CASE cmd \in Held(inbox) \cup Held(net)
  BY <1>1, <1>3 DEF FirstInFlight, Held
<1>4. QED BY <1>1, <1>2, <1>3 DEF InFlight

\* The client's memory changes when it handles a command or restarts.
LEMMA ClientFrame ==
  ASSUME Next
  PROVE  Handles \/ Restart \/ UNCHANGED <<buffer, cached, restarts>>
BY DEF Next, Deliver, Client, Handles, Respond, Send, SendFails, TtsFails, AckArrives,
       Acked, Nacked, Timeout, Break, Reconnect, Receive, Tick, wireVars, clientVars

LEMMA RestartFacts ==
  ASSUME TypeOK, Restart
  PROVE  /\ Quiet' /\ InFlight' = {} /\ restarts' # 0
         /\ \A d \in Delivery, k \in Nat : After(d, k)'
<1>1. Quiet' /\ restarts' # 0 /\ buffer' = <<>>
  BY BoundAssumption DEF TypeOK, Restart, Quiet
<1>2. InFlight' = {}
  BY <1>1, HeldEmpty DEF InFlight, Quiet
<1>3. QED BY <1>1, <1>2, Numbers DEF After, BufferIs

LEMMA StepArrival ==
  ASSUME TypeOK, FirstInFlight, ArrivalEffect, ProgressEffect, Next
  PROVE  ArrivalEffect'
<1>1. SUFFICES ASSUME NEW cmd \in InFlight', cmd[2] # Begin
               PROVE  After(cmd[1], cmd[2] - 1)'
  BY DEF ArrivalEffect
<1>2. ~Handles /\ ~Restart
  BY <1>1, HandleLeavesBegins, RestartFacts
<1>3. UNCHANGED <<buffer, cached, restarts>>
  BY <1>2, ClientFrame
<1>4. After(cmd[1], cmd[2] - 1)
  <2>1. CASE cmd \in InFlight
    BY <1>1, <2>1 DEF ArrivalEffect
  <2>2. CASE cmd \notin InFlight
    <3>1. PICK d \in Delivery : Send(d) /\ cmd = Current(d)
      BY <1>1, <2>2, InFlightStep
    <3>2. cmd[1] = d /\ cmd[2] = step[d] /\ pc[d] = "ready"
      BY <3>1, CurrentType DEF Send
    <3>3. QED BY <1>1, <3>2 DEF ProgressEffect
  <2>3. QED BY <2>1, <2>2
<1>5. QED BY <1>3, <1>4, AfterSame

LEMMA StepAnswer ==
  ASSUME Pipeline = Delivery, TypeOK, LockInv, PendingTracksSends, SentOnce,
         LastInFlight, ArrivalEffect, AnswerEffect, Next
  PROVE  AnswerEffect'
<1>1. SUFFICES ASSUME NEW i \in 1..Len(acks'), acks'[i].ok, acks'[i].cmd \in pending',
                      NEW cmd, cmd = acks'[i].cmd
               PROVE  Quiet' /\ After(cmd[1], cmd[2])'
  BY DEF AnswerEffect
<1>2. CASE \E j \in 1..Len(acks) : acks'[i] = acks[j]
  <2>1. PICK j \in 1..Len(acks) : acks'[i] = acks[j]
    BY <1>2
  <2>2. \A d \in Delivery : ~Send(d)
    BY <1>1, <2>1, SendFacts
  <2>3. cmd \in pending
    BY <1>1, <2>2, PendingShrinks
  <2>4. Quiet /\ After(cmd[1], cmd[2])
    BY <1>1, <2>1, <2>3 DEF AnswerEffect
  <2>5. ~Handles /\ ~Receive /\ ~Tick
    BY <2>4, HandleFacts DEF Quiet, Receive, Tick
  <2>6. ~Break /\ ~Restart
    BY <1>1 DEF Break, Restart
  <2>7. UNCHANGED <<batch, inbox, net>>
    BY <2>2, <2>5, <2>6
    DEF Next, Deliver, Client, Handles, Respond, SendFails, TtsFails, AckArrives, Acked,
        Nacked, Timeout, Reconnect, wireVars, clientVars
  <2>8. UNCHANGED <<buffer, cached, restarts>>
    BY <2>5, <2>6, ClientFrame
  <2>9. QED BY <2>4, <2>7, <2>8, AfterSame DEF Quiet
<1>3. CASE /\ Handles /\ acks'[i].cmd = Head(batch) /\ batch' = Tail(batch)
           /\ acks'[i].ok => HandleBegin \/ HandleChunk \/ HandleEnd
  <2>1. /\ batch \in Seq(Command) /\ batch # <<>> /\ cmd = batch[1] /\ cmd \in Command
        /\ 1 \in 1..Len(batch) /\ inbox' = inbox /\ net' = net
    BY <1>1, <1>3, HandleFacts, Queues, TailFacts
  <2>2. pending' = pending
    BY <1>3, HandleFacts DEF gatewayVars
  <2>3. Len(batch) = 1 /\ inbox = <<>> /\ net = <<>>
    BY <1>1, <2>1, <2>2 DEF LastInFlight
  <2>4. batch' = <<>>
    BY <1>3, <2>1, <2>3, TailFacts, EmptySeq
  <2>5. After(cmd[1], cmd[2])'
    BY <1>1, <1>3, <2>1, HandleAfter
  <2>6. QED BY <2>1, <2>3, <2>4, <2>5 DEF Quiet
<1>4. QED BY <1>2, <1>3, AcksStep

LEMMA StepProgress ==
  ASSUME Pipeline = Delivery, TypeOK, LockInv, PendingTracksSends, AnswerEffect,
         ProgressEffect, Next
  PROVE  ProgressEffect'
<1>0. /\ pc \in [Delivery -> {"idle", "ready", "awaiting", "delivered", "failed"}]
      /\ step \in [Delivery -> Begin..End]
      /\ answer \in [Delivery -> {"none", "ok", "nack"}]
      /\ \A d \in Delivery : step[d] \in Nat
                         /\ (step[d] # Begin => step[d] - 1 \in Nat)
  BY Numbers DEF TypeOK
<1> DEFINE Client0 == UNCHANGED <<batch, inbox, net, buffer, cached, restarts>>
<1> DEFINE P(d, k) == Quiet /\ After(d, k)
<1>1. ASSUME Client0, NEW d, NEW k, P(d, k) PROVE P(d, k)'
  BY <1>1, AfterSame DEF Quiet
<1> HIDE DEF P
<1>2. ProgressEffect =
        \A d \in Delivery :
          /\ pc[d] = "awaiting" /\ answer[d] = "ok" => P(d, step[d])
          /\ pc[d] = "ready" /\ step[d] # Begin => P(d, step[d] - 1)
  BY DEF ProgressEffect, P
<1>3. ASSUME NEW d \in Delivery, Respond(d) PROVE ProgressEffect'
  <2>1. /\ Client0 /\ step' = step /\ answer' = answer /\ step[d] = Begin
        /\ pc' = [pc EXCEPT ![d] = "ready"]
    BY <1>3 DEF Respond, wireVars, clientVars, LockInv
  <2>2. QED BY <1>0, <1>1, <2>1, <1>2 DEF ProgressEffect, P
<1>4. ASSUME NEW d \in Delivery,
             SendFails(d) \/ TtsFails(d) \/ Nacked(d) \/ Timeout(d)
      PROVE  ProgressEffect'
  <2>1. /\ Client0 /\ step' = step /\ answer' = answer
        /\ pc' = [pc EXCEPT ![d] = "failed"]
    BY <1>4
    DEF SendFails, TtsFails, Nacked, Timeout, Finish, wireVars, clientVars
  <2>2. QED BY <1>0, <1>1, <2>1, <1>2 DEF ProgressEffect, P
<1>5. ASSUME NEW d \in Delivery, Acked(d) PROVE ProgressEffect'
  <2>1. Client0 /\ answer' = answer /\ pc[d] = "awaiting" /\ answer[d] = "ok"
    BY <1>5 DEF Acked, wireVars, clientVars
  <2>2. P(d, step[d])
    BY <1>2, <2>1
  <2>3. CASE step[d] = End
    <3>1. step' = step /\ pc' = [pc EXCEPT ![d] = "delivered"]
      BY <1>5, <2>3 DEF Acked, Finish
    <3>2. QED BY <1>0, <1>1, <1>2, <2>1, <3>1 DEF ProgressEffect, P
  <2>4. CASE step[d] # End
    <3>1. /\ step' = [step EXCEPT ![d] = @ + 1] /\ pc' = [pc EXCEPT ![d] = "ready"]
      BY <1>5, <2>4 DEF Acked
    <3>2. step'[d] - 1 = step[d]
      BY <1>0, <3>1
    <3>3. QED BY <1>0, <1>1, <1>2, <2>1, <2>2, <3>1, <3>2 DEF ProgressEffect, P
  <2>5. QED BY <2>3, <2>4
<1>6. ASSUME NEW d \in Delivery, Send(d) PROVE ProgressEffect'
  <2>1. /\ step' = step /\ pc' = [pc EXCEPT ![d] = "awaiting"] /\ Turn(d)
        /\ answer' = [answer EXCEPT ![d] = "none"]
    BY <1>6 DEF Send
  <2>2. ASSUME NEW e \in Delivery, e # d
        PROVE  pc[e] # "awaiting" /\ ~(pc[e] = "ready" /\ step[e] # Begin)
    BY <2>1, <2>2, OneUnderWay
  <2>3. QED BY <1>0, <2>1, <2>2 DEF ProgressEffect
<1>7. ASSUME AckArrives PROVE ProgressEffect'
  <2>1. Client0 /\ step' = step /\ pc' = pc
    BY <1>7 DEF AckArrives, clientVars
  <2>2. ASSUME NEW d \in Delivery, pc[d] = "awaiting", answer'[d] = "ok", answer[d] # "ok"
        PROVE  P(d, step[d])
    <3>1. acks # <<>> /\ acks \in Seq([cmd : Command, ok : BOOLEAN])
      BY <1>7, Queues DEF AckArrives
    <3>2. PICK ack \in [cmd : Command, ok : BOOLEAN] : ack = Head(acks) /\ ack = acks[1]
      BY <3>1, TailFacts
    <3>3. /\ ack.cmd \in pending /\ ack.cmd[1] = d /\ ack.ok
      BY <1>0, <1>7, <2>2, <3>2 DEF AckArrives
    <3>4. ack.cmd = Current(d)
      BY <3>3, PendingOf
    <3>5. 1 \in 1..Len(acks)
      BY <3>1, TailFacts
    <3>6. Quiet /\ After(ack.cmd[1], ack.cmd[2])
      BY <3>2, <3>3, <3>5 DEF AnswerEffect
    <3>7. QED BY <3>3, <3>4, <3>6, CurrentType DEF P
  <2>3. QED BY <1>0, <1>1, <1>2, <2>1, <2>2 DEF ProgressEffect, P
<1>8. ASSUME Receive \/ Tick \/ Handles PROVE ProgressEffect'
  <2>1. ~Quiet /\ UNCHANGED <<pc, step, answer>>
    BY <1>8, HandleFacts DEF Quiet, Receive, Tick, gatewayVars
  <2>2. QED BY <2>1 DEF ProgressEffect
<1>9. ASSUME Break \/ Reconnect PROVE ProgressEffect'
  <2>1. /\ UNCHANGED <<pc, step, answer, batch, inbox, buffer, cached, restarts>>
        /\ net' \in {net, <<>>}
    BY <1>9 DEF Break, Reconnect, gatewayVars, clientVars
  <2>2. QED BY <2>1, AfterSame DEF ProgressEffect, Quiet
<1>10. ASSUME Restart PROVE ProgressEffect'
  <2>1. UNCHANGED <<pc, step, answer>>
    BY <1>10 DEF Restart, gatewayVars
  <2>2. QED BY <1>0, <1>10, <2>1, RestartFacts DEF ProgressEffect
<1>11. QED
  BY <1>3, <1>4, <1>5, <1>6, <1>7, <1>8, <1>9, <1>10
  DEF Next, Deliver, Client, Handles

\* The put_end of a response is out exactly when the delivery has come to it.
LEMMA EndSent ==
  ASSUME TypeOK, NEW d \in Delivery
  PROVE  /\ <<d, End>> \in Command
         /\ Sent(<<d, End>>) <=> step[d] = End /\ pc[d] \notin {"idle", "ready"}
<1>1. step[d] \in Begin..End
  BY DEF TypeOK
<1>2. step[d] \in Int /\ step[d] <= End /\ End \in Begin..End /\ End \in Int
  BY <1>1, Numbers
<1>3. QED BY <1>2 DEF Sent, Command

\* HandleEnd caches the response its command names, and nothing else changes
\* what is cached while the client runs.
LEMMA CachedStep ==
  ASSUME TypeOK, Next, ~Restart, NEW d \in Delivery
  PROVE  /\ restarts' = restarts
         /\ \/ cached'[d] = cached[d]
            \/ HandleEnd /\ Head(batch) = <<d, End>> /\ cached'[d] = buffer
<1>1. CASE Handles
  <2>1. restarts' = restarts
    BY <1>1, HandleFacts
  <2>2. CASE HandleEnd
    <3>1. PICK cmd \in Command : cmd = Head(batch) /\ cmd = <<cmd[1], End>>
      BY <1>1, <2>2, HandleFacts, Queues, TailFacts DEF HandleEnd
    <3>2. cached' = [cached EXCEPT ![cmd[1]] = buffer]
      BY <2>2, <3>1 DEF HandleEnd
    <3>3. QED BY <2>1, <2>2, <3>1, <3>2 DEF TypeOK
  <2>3. CASE ~HandleEnd
    BY <1>1, <2>1, <2>3 DEF Handles, HandleBegin, HandleChunk, HandleEndFails
  <2>4. QED BY <2>2, <2>3
<1>2. CASE ~Handles
  BY <1>2, ClientFrame
<1>3. QED BY <1>1, <1>2

LEMMA StepCached ==
  ASSUME TypeOK, TypeOK', LockInv, SentOnce, FirstInFlight, CachedOnce, Next
  PROVE  CachedOnce'
<1>1. SUFFICES ASSUME NEW d \in Delivery, cached'[d] # <<>>
               PROVE  Sent(<<d, End>>)' /\ <<d, End>> \notin InFlight'
  <2>1. ASSUME NEW d \in Delivery, Sent(<<d, End>>)'
        PROVE  step'[d] = End /\ pc'[d] \notin {"idle", "ready"}
    <3>1. step'[d] \in Begin..End
      BY DEF TypeOK
    <3>2. step'[d] \in Int /\ step'[d] <= End /\ End \in Int
      BY <3>1, Numbers
    <3>3. QED BY <2>1, <3>2 DEF Sent
  <2>2. QED BY <2>1 DEF CachedOnce
<1>2. PICK cmd \in Command : cmd = <<d, End>> /\ cmd[1] = d /\ cmd[2] # Begin
  <2>1. <<d, End>> \in Command /\ End # Begin
    BY EndSent, Numbers
  <2>2. QED BY <2>1
<1>3. ~Restart
  BY <1>1 DEF Restart
<1>4. CASE cached'[d] = cached[d]
  <2>1. Sent(cmd) /\ cmd \notin InFlight
    BY <1>1, <1>2, <1>4, EndSent DEF CachedOnce
  <2>2. pc[d] # "ready"
    BY <1>1, <1>4 DEF CachedOnce
  <2>3. cmd \notin InFlight'
    <3>1. ASSUME NEW e \in Delivery, Send(e) PROVE cmd # Current(e)
      BY <1>2, <2>2, <3>1, CurrentType DEF Send
    <3>2. QED BY <2>1, <3>1, InFlightStep
  <2>4. QED BY <1>2, <2>1, <2>3, SentStays DEF Sent
<1>5. CASE HandleEnd /\ Head(batch) = <<d, End>>
  <2>1. Handles /\ cmd \in InFlight
    BY ZenonT(60), <1>2, <1>5, HandleFacts, Queues, HeldTail DEF Handles, InFlight
  <2>2. cmd \notin InFlight'
    BY <1>2, <2>1, HandleLeavesBegins
  <2>3. Sent(cmd)'
    BY <2>1, SentStays DEF SentOnce
  <2>4. QED BY <1>2, <2>2, <2>3 DEF Sent
<1>6. QED BY <1>3, <1>4, <1>5, CachedStep

LEMMA StepDelivered ==
  ASSUME TypeOK, ArrivalEffect, ProgressEffect, DeliveredIsCached, Next
  PROVE  DeliveredIsCached'
<1>1. SUFFICES ASSUME NEW d \in Delivery, pc'[d] = "delivered", restarts' = 0
               PROVE  cached'[d] = Audio(d)
  BY DEF DeliveredIsCached, Audio
<1>2. ~Restart
  BY <1>1, RestartFacts
<1>3. CASE HandleEnd /\ Head(batch) = <<d, End>>
  <2>1. PICK cmd \in Command : cmd = Head(batch) /\ cmd[1] = d /\ cmd[2] = End
    BY <1>3, EndSent
  <2>2. After(cmd[1], cmd[2])'
    BY <1>3, <2>1, HandleAfter
  <2>3. ~(End <= NumChunks)
    BY Numbers
  <2>4. QED BY <1>1, <2>1, <2>2, <2>3 DEF After, Audio
<1>4. CASE cached'[d] = cached[d] /\ restarts = 0
  <2>1. CASE pc[d] = "delivered"
    BY <1>4, <2>1 DEF DeliveredIsCached
  <2>2. CASE pc[d] # "delivered"
    <3>1. Acked(d) /\ step[d] = End
      BY <1>1, <2>2
      DEF Next, Deliver, Client, Respond, Send, SendFails, TtsFails, Acked, Nacked,
          Timeout, Finish, AckArrives, Break, Reconnect, Restart, Receive, Tick,
          HandleBegin, HandleChunk, HandleEnd, HandleEndFails, Ack, gatewayVars, TypeOK
    <3>2. After(d, End)
      BY <3>1 DEF Acked, ProgressEffect
    <3>3. ~(End <= NumChunks)
      BY Numbers
    <3>4. QED BY <1>4, <3>2, <3>3 DEF After
  <2>3. QED BY <2>1, <2>2
<1>5. QED BY <1>1, <1>2, <1>3, <1>4, CachedStep

LEMMA StepIntegrity ==
  ASSUME TypeOK, ArrivalEffect, CacheIntegrity, Next
  PROVE  CacheIntegrity'
<1>1. SUFFICES ASSUME NEW d \in Delivery, cached'[d] # <<>>
               PROVE  /\ \E k \in 1..NumChunks :
                            cached'[d] = SubSeq(Audio(d), k, NumChunks)
                      /\ restarts' = 0 => cached'[d] = Audio(d)
  BY DEF CacheIntegrity, Audio
<1>2. ~Restart
  BY <1>1 DEF Restart
<1>3. CASE cached'[d] = cached[d] /\ restarts' = restarts
  BY <1>1, <1>3 DEF CacheIntegrity
<1>4. CASE /\ HandleEnd /\ Head(batch) = <<d, End>> /\ cached'[d] = buffer
           /\ restarts' = restarts
  <2>1. PICK cmd \in InFlight : cmd[1] = d /\ cmd[2] = NumChunks + 1 /\ cmd[2] # Begin
    BY <1>4, HandleFacts, Queues, HeldTail, Numbers DEF Handles, InFlight
  <2>2. BufferIs(d, NumChunks) /\ buffer # <<>>
    BY <1>4, <2>1, Numbers DEF ArrivalEffect, After, HandleEnd
  <2>3. QED BY <1>4, <2>2, WholeBuffer
<1>5. QED BY <1>2, <1>3, <1>4, CachedStep

-----------------------------------------------------------------------------
(* The cache, with every response in the pipeline.                         *)

LEMMA InitIndInv ==
  ASSUME Init
  PROVE  IndInv
<1>1. TypeOK
  BY InitType
<1>2. LockInv
  BY PipelineAssumption DEF Init, LockInv
<1>3. PendingTracksSends
  BY DEF Init, PendingTracksSends
<1>4. batch = <<>> /\ inbox = <<>> /\ net = <<>> /\ acks = <<>> /\ pending = {}
  BY DEF Init
<1>5. InFlight = {} /\ Len(acks) = 0
  BY <1>4, HeldEmpty DEF InFlight
<1>6. SentOnce /\ ArrivalEffect /\ AnswerEffect
  BY <1>5 DEF SentOnce, ArrivalEffect, AnswerEffect
<1>7. FirstInFlight /\ LastInFlight
  BY <1>4 DEF FirstInFlight, LastInFlight
<1>8. \A d \in Delivery : pc[d] = "idle" /\ cached[d] = <<>>
  BY DEF Init
<1>9. ProgressEffect /\ CachedOnce /\ DeliveredIsCached /\ CacheIntegrity
  BY <1>8 DEF ProgressEffect, CachedOnce, DeliveredIsCached, CacheIntegrity
<1>10. QED BY <1>1, <1>2, <1>3, <1>6, <1>7, <1>9 DEF IndInv

\* The inductive invariant of the pipeline.
THEOREM Inductive ==
  ASSUME Pipeline = Delivery
  PROVE  Spec => []IndInv
<1>1. IndInv /\ [Next]_vars => IndInv'
  <2>1. ASSUME IndInv, Next PROVE IndInv'
    <3>1. TypeOK'
      BY <2>1, StepType DEF IndInv
    <3>2. LockInv' /\ PendingTracksSends'
      BY <2>1, <3>1, StepLock, StepPending DEF IndInv
    <3>3. SentOnce' /\ FirstInFlight' /\ LastInFlight'
      BY <2>1, StepSentOnce, StepFirst, StepLast DEF IndInv
    <3>4. ArrivalEffect' /\ AnswerEffect' /\ ProgressEffect'
      BY <2>1, StepArrival, StepAnswer, StepProgress DEF IndInv
    <3>5. CachedOnce' /\ DeliveredIsCached' /\ CacheIntegrity'
      BY <2>1, <3>1, StepCached, StepDelivered, StepIntegrity DEF IndInv
    <3>6. QED BY <3>1, <3>2, <3>3, <3>4, <3>5 DEF IndInv
  <2>2. ASSUME IndInv, UNCHANGED vars PROVE IndInv'
    <3>0. UNCHANGED <<lockq, pc, step, pending, answer, connected, net, acks, breaks,
                      restarts, inbox, batch, buffer, cached>>
      BY <2>2 DEF vars, gatewayVars, wireVars, clientVars
    <3>1. InFlight' = InFlight /\ (Quiet' <=> Quiet)
      BY <3>0 DEF InFlight, Quiet
    <3>2. \A d, k : After(d, k)' <=> After(d, k)
      BY <3>0, AfterSame
    <3>3. TypeOK' /\ LockInv' /\ PendingTracksSends'
      BY <2>2, <3>0 DEF IndInv, TypeOK, LockInv, PendingTracksSends, Current
    <3>4. SentOnce'
      BY <2>2, <3>0, <3>1 DEF IndInv, SentOnce, Sent
    <3>5. FirstInFlight' /\ LastInFlight'
      BY <2>2, <3>0 DEF IndInv, FirstInFlight, LastInFlight
    <3>6. ArrivalEffect'
      BY <2>2, <3>1, <3>2 DEF IndInv, ArrivalEffect
    <3>7. AnswerEffect'
      BY <2>2, <3>0, <3>1, AfterSame DEF IndInv, AnswerEffect
    <3>8. ProgressEffect'
      BY <2>2, <3>0, <3>1, AfterSame DEF IndInv, ProgressEffect
    <3>9. CachedOnce' /\ DeliveredIsCached' /\ CacheIntegrity'
      BY <2>2, <3>0, <3>1 DEF IndInv, CachedOnce, DeliveredIsCached, CacheIntegrity
    <3>10. QED
      BY <3>3, <3>4, <3>5, <3>6, <3>7, <3>8, <3>9 DEF IndInv
  <2>3. QED BY <2>1, <2>2
<1>2. QED BY <1>1, InitIndInv, PTL DEF Spec

\* What a device has cached for a response is that response: unmixed, in order, and
\* whole unless its client restarted, whatever timeouts, refusals and breaks cut
\* short.  It holds if everything sent to the device goes through the pipeline.
THEOREM CacheIsSound ==
  ASSUME Pipeline = Delivery
  PROVE  Spec => []CacheIntegrity
<1>1. IndInv => CacheIntegrity
  BY DEF IndInv
<1>2. QED BY <1>1, Inductive, PTL

\* A response reported delivered is in the device's cache, if the client has not
\* restarted.
THEOREM DeliveredMeansCached ==
  ASSUME Pipeline = Delivery
  PROVE  Spec => []DeliveredIsCached
<1>1. IndInv => DeliveredIsCached
  BY DEF IndInv
<1>2. QED BY <1>1, Inductive, PTL

-----------------------------------------------------------------------------
(* The refinement of AudioCache.                                           *)

Report ==
  [d \in Delivery |-> IF pc[d] \in {"delivered", "failed"} THEN pc[d] ELSE "open"]

LEMMA AbstractInit == Init => Promise!Init
BY DEF Init, Promise!Init

\* A delivery that ends is reported so; nothing is reported otherwise.
LEMMA ReportStep ==
  ASSUME TypeOK, Next
  PROVE  \/ Report' = Report
         \/ \E d \in Delivery :
              /\ Report[d] = "open"
              /\ \/ /\ Report' = [Report EXCEPT ![d] = "failed"]
                 \/ /\ Report' = [Report EXCEPT ![d] = "delivered"]
                    /\ Acked(d) /\ step[d] = End
              /\ UNCHANGED clientVars
<1>0. pc \in [Delivery -> {"idle", "ready", "awaiting", "delivered", "failed"}]
  BY DEF TypeOK
<1>1. ASSUME UNCHANGED pc PROVE Report' = Report
  BY <1>1 DEF Report
<1>2. ASSUME NEW d \in Delivery, pc[d] \notin {"delivered", "failed"},
             NEW state \in {"ready", "awaiting"}, pc' = [pc EXCEPT ![d] = state]
      PROVE  Report' = Report
  BY <1>0, <1>2 DEF Report
<1>3. ASSUME NEW d \in Delivery, pc[d] \notin {"delivered", "failed"},
             NEW state \in {"delivered", "failed"}, pc' = [pc EXCEPT ![d] = state]
      PROVE  Report[d] = "open" /\ Report' = [Report EXCEPT ![d] = state]
  BY <1>0, <1>3 DEF Report
<1>4. ASSUME NEW d \in Delivery, Respond(d) \/ Send(d) PROVE Report' = Report
  BY <1>2, <1>4 DEF Respond, Send
<1>5. ASSUME NEW d \in Delivery,
             SendFails(d) \/ TtsFails(d) \/ Nacked(d) \/ Timeout(d)
      PROVE  /\ Report[d] = "open" /\ Report' = [Report EXCEPT ![d] = "failed"]
             /\ UNCHANGED clientVars
  BY <1>3, <1>5 DEF SendFails, TtsFails, Nacked, Timeout, Finish
<1>6. ASSUME NEW d \in Delivery, Acked(d), step[d] = End
      PROVE  /\ Report[d] = "open" /\ Report' = [Report EXCEPT ![d] = "delivered"]
             /\ UNCHANGED clientVars
  BY <1>3, <1>6 DEF Acked, Finish
<1>7. ASSUME NEW d \in Delivery, Acked(d), step[d] # End PROVE Report' = Report
  BY <1>2, <1>7 DEF Acked
<1>8. QED
  BY <1>1, <1>4, <1>5, <1>6, <1>7
  DEF Next, Deliver, Client, AckArrives, Break, Reconnect, Restart, Receive, Tick,
      HandleBegin, HandleChunk, HandleEnd, HandleEndFails, Ack, gatewayVars

LEMMA AbstractStep ==
  ASSUME IndInv, Next
  PROVE  Promise!Next \/ UNCHANGED Promise!vars
<1>0. TypeOK /\ cached \in [Delivery -> Seq(Command)]
  BY DEF IndInv, TypeOK
<1>1. CASE HandleEnd
  <2>1. PICK cmd \in InFlight :
          /\ cmd \in Command /\ cmd = Head(batch) /\ cmd[1] \in Delivery
          /\ cmd[2] = End /\ cmd = <<cmd[1], End>>
    BY <1>0, <1>1, HandleFacts, Queues, HeldTail DEF Handles, InFlight, HandleEnd
  <2>2. PICK d \in Delivery : d = cmd[1]
    BY <2>1
  <2>3. cached[d] = <<>>
    BY <2>1, <2>2 DEF IndInv, CachedOnce
  <2>4. BufferIs(d, NumChunks) /\ buffer # <<>>
    <3>1. cmd[2] # Begin /\ cmd[2] - 1 = NumChunks
      BY <2>1, Numbers
    <3>2. QED BY <1>1, <2>2, <3>1, Numbers DEF IndInv, ArrivalEffect, After, HandleEnd
  <2>5. PICK k \in 1..NumChunks :
          /\ buffer = SubSeq(Audio(d), k, NumChunks)
          /\ restarts = 0 => SubSeq(Audio(d), k, NumChunks) = Audio(d)
    BY <1>0, <2>4, WholeBuffer
  <2>6. cached' = [cached EXCEPT ![d] = SubSeq(Audio(d), k, NumChunks)]
    BY <1>1, <2>1, <2>2, <2>5 DEF HandleEnd
  <2>7. Report' = Report /\ restarts' = restarts
    BY <1>1 DEF Report, HandleEnd, Ack, gatewayVars
  <2>8. QED
    BY <2>3, <2>5, <2>6, <2>7
    DEF Promise!Next, Promise!Cache, Promise!Audio, Audio, Report
<1>2. CASE Restart
  <2>1. Report' = Report
    BY <1>2 DEF Report, Restart, gatewayVars
  <2>2. QED
    BY <1>2, <2>1 DEF Restart, Report, Promise!Next, Promise!Restart
<1>3. CASE ~HandleEnd /\ ~Restart
  <2>1. cached' = cached /\ restarts' = restarts
    BY <1>3
    DEF Next, Deliver, Client, Respond, Send, SendFails, TtsFails, Acked, Nacked,
        Timeout, AckArrives, Break, Reconnect, Receive, Tick, HandleBegin, HandleChunk,
        HandleEndFails, Ack, wireVars, clientVars
  <2>2. CASE Report' = Report
    BY <2>1, <2>2 DEF Report, Promise!vars
  <2>3. ASSUME NEW d \in Delivery, Report[d] = "open",
               Report' = [Report EXCEPT ![d] = "failed"]
        PROVE  Promise!Next
    BY <2>1, <2>3 DEF Report, Promise!Next, Promise!Fail
  <2>4. ASSUME NEW d \in Delivery, Report[d] = "open", Acked(d), step[d] = End,
               Report' = [Report EXCEPT ![d] = "delivered"]
        PROVE  Promise!Next
    <3>1. After(d, End) /\ ~(End <= NumChunks)
      BY <2>4, Numbers DEF IndInv, ProgressEffect, Acked
    <3>2. restarts = 0 => cached[d] = Audio(d)
      BY <3>1 DEF After
    <3>3. QED
      BY <2>1, <2>4, <3>2
      DEF Report, Promise!Next, Promise!Deliver, Promise!Audio, Audio
  <2>5. QED BY <1>0, <2>2, <2>3, <2>4, ReportStep
<1>4. QED BY <1>1, <1>2, <1>3

\* With every response in the pipeline, gateway, wire and client together do what
\* AudioCache promises, whatever breaks, times out or restarts.
THEOREM Refinement ==
  ASSUME Pipeline = Delivery
  PROVE  Spec => ImplementsPromise
<1>1. IndInv /\ [Next]_vars => [Promise!Next]_(Promise!vars)
  <2>1. ASSUME IndInv, Next PROVE Promise!Next \/ UNCHANGED Promise!vars
    BY <2>1, AbstractStep
  <2>2. ASSUME UNCHANGED vars PROVE UNCHANGED Promise!vars
    BY <2>2 DEF vars, gatewayVars, wireVars, clientVars, Promise!vars
  <2>3. QED BY <2>1, <2>2
<1>2. QED
  BY <1>1, AbstractInit, Inductive, PTL DEF Spec, ImplementsPromise, Promise!Spec
=============================================================================
