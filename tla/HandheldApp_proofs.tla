-------------------------- MODULE HandheldApp_proofs --------------------------
(***************************************************************************)
(* Proofs about HandheldApp for every set of gateways and conversations,   *)
(* every user and any number of messages under way: the app shows the      *)
(* selection the gateway uses, and what was said into a recording reaches  *)
(* the gateway whole.                                                      *)
(***************************************************************************)
EXTENDS HandheldApp, SequenceLemmas

-----------------------------------------------------------------------------
(* Types.                                                                  *)

\* A message to the handheld by its kind.
LEMMA MessageKinds ==
  ASSUME NEW m \in Message
  PROVE  /\ m.kind \in {"command", "ack", "error"}
         /\ m.kind = "command" => m.what \in Command
         /\ m.kind = "ack" => m.what \in Conversation
<1>1. CASE m \in [kind : {"command"}, what : Command]
  BY <1>1
<1>2. CASE m \in [kind : {"ack"}, what : Conversation]
  BY <1>2
<1>3. CASE m = [kind |-> "error", what |-> None]
  BY <1>3
<1> QED BY <1>1, <1>2, <1>3 DEF Message

\* The type invariant by its parts.
Places ==
  /\ at \in {"input", "commands", "report", "stream", "overdue", "finish", "reply", "connect", "off"}
  /\ after \in {"none", "release", "overdue", "retry", "change", "gateway", "restore"}
  /\ x \in {"up", "down", "long"}
  /\ link \in {"none", "open", "ended", "broken"}
  /\ waiter \in {"none", "waiting", "ack", "error"}

Flags ==
  /\ online \in BOOLEAN /\ muted \in BOOLEAN /\ longSeen \in BOOLEAN
  /\ connected \in BOOLEAN /\ listening \in BOOLEAN

Capture ==
  /\ mic \in [on : BOOLEAN, recorded : Nat, read : Nat]
  /\ mic.read <= mic.recorded
  /\ tx \in [stream : 0..user.streams, seq : Nat]

Queues ==
  /\ toDevice \in Seq(Message) /\ asked \in Seq(Conversation)
  /\ commands \in Seq(Command) /\ batch \in Seq(Command)

Chosen ==
  /\ conv \in Selection /\ info \in Selection /\ pref \in Selection
  /\ url \in Url /\ prev \in [url : Url, pref : Selection]
  /\ selected \in [Url -> Conversation]

\* Only what is left to do changes of the user.
LEMMA UserKept ==
  ASSUME Linked, Talks \/ Presses \/ Wait \/ Tick \/ Listen \/ ListenEnds \/ Environment
  PROVE  user' \in Habit /\ user'.streams = user.streams /\ user.streams \in Nat
<1>1. user' = user \/ (user.captures > 0 /\ user' = [user EXCEPT !.captures = @ - 1])
        \/ (user.switches > 0 /\ user' = [user EXCEPT !.switches = @ - 1])
        \/ (user.breaks > 0 /\ user' = [user EXCEPT !.breaks = @ - 1])
  <2>1. CASE Talks
    BY <2>1 DEF Talks, PressX, LongPressX, ReleaseX, MissRelease, Cancel, Speak, MicOn
  <2>2. CASE Presses
    BY <2>2 DEF Presses, Navigate, ToggleMute, SendPrompt, Quit, Retry, ChangeConversation, ChangeGateway
  <2>3. CASE Wait
    BY <2>3 DEF Wait, Replied, ReplyTimeout, ConnectSucceeds, ConnectFails
  <2>4. CASE Tick
    BY <2>4 DEF Tick, EndInput, HandleCommand, Check, Report, NoReport, Stream, StopOverdue, NotOverdue, Finish
  <2>5. CASE Listen \/ ListenEnds
    BY <2>5 DEF Listen, ListenEnds
  <2>6. CASE Environment
    BY <2>6 DEF Environment, GatewayCommands, OthersSwitch, GatewayAnswers, Break, MuteExpires
  <2> QED BY <2>1, <2>2, <2>3, <2>4, <2>5, <2>6
<1> QED BY <1>1 DEF Linked, Habit

\* The empty sequence is one of anything.
LEMMA Emptied == \A S : <<>> \in Seq(S)
BY EmptySeq

\* The microphone has read no more than it has recorded.
LEMMA MicType == TypeOK => mic \in [on : BOOLEAN, recorded : Nat, read : Nat] /\ mic.read <= mic.recorded
BY DEF TypeOK

\* A capture that stays one, and a stream of which at most the sequence number changes.
LEMMA CaptureFits ==
  ASSUME TypeOK, user'.streams = user.streams,
         mic' \in [on : BOOLEAN, recorded : Nat, read : Nat], mic'.read <= mic'.recorded,
         tx' = tx \/ tx' = [tx EXCEPT !.seq = 0] \/ tx' = [tx EXCEPT !.seq = @ + 1]
  PROVE  Capture'
<1>1. tx \in [stream : 0..user.streams, seq : Nat]
  BY DEF TypeOK
<1>2. tx' \in [stream : 0..user.streams, seq : Nat]
  BY ONLY <1>1, tx' = tx \/ tx' = [tx EXCEPT !.seq = 0] \/ tx' = [tx EXCEPT !.seq = @ + 1]
<1> QED BY ONLY <1>2, user'.streams = user.streams, mic' \in [on : BOOLEAN, recorded : Nat, read : Nat],
     mic'.read <= mic'.recorded DEF Capture

\* The end of a recording leaves a capture.
LEMMA StopFits ==
  ASSUME TypeOK, user'.streams = user.streams, NEW why, StopRecording(why)
  PROVE  Capture'
<1>1. mic' = [mic EXCEPT !.on = FALSE, !.read = mic.recorded]
  BY DEF StopRecording
<1>2. tx' = tx \/ tx' = [tx EXCEPT !.seq = @ + 1]
  BY DEF StopRecording
<1>3. mic' \in [on : BOOLEAN, recorded : Nat, read : Nat]
  BY ONLY <1>1, MicType, TypeOK
<1>4. mic'.read <= mic'.recorded
  BY ONLY <1>1, MicType, TypeOK
<1> QED BY <1>2, <1>3, <1>4, CaptureFits

\* One lemma for each group of actions: types and links are preserved.
LEMMA TypeTalks == ASSUME TypeOK, Linked, Talks, Remember PROVE TypeOK' /\ Linked'
<1> user' \in Habit /\ user'.streams = user.streams /\ user.streams \in Nat
  BY UserKept
<1>1. CASE PressX
  <2> USE <1>1 DEF TypeOK, Linked, PressX, MicOn, Silent, socket, queues, client, choice, gateway
  <2>1. Places'  BY DEF Places
  <2>2. Flags'  BY DEF Flags
  <2>3. Capture'
    <3>1. mic' = mic \/ mic' = [on |-> TRUE, recorded |-> 0, read |-> 0]
      OBVIOUS
    <3>2. tx' = tx
      OBVIOUS
    <3>3. CASE mic' = mic
      BY ONLY <3>2, <3>3, MicType, CaptureFits, TypeOK, user'.streams = user.streams
    <3>4. CASE mic' = [on |-> TRUE, recorded |-> 0, read |-> 0]
      BY ONLY <3>2, <3>4, CaptureFits, TypeOK, user'.streams = user.streams
    <3> QED BY ONLY <3>1, <3>3, <3>4
  <2>4. Queues'  BY ZenonT(60), Emptied DEF Queues
  <2>5. Chosen'  BY DEF Chosen, Selection
  <2>6. ui' \in Mode  BY DEF Mode
  <2>7. Linked'  OBVIOUS
  <2>8. spoilt' \subseteq 0..user'.streams  BY DEF Remember
  <2> QED BY ONLY <2>1, <2>2, <2>3, <2>4, <2>5, <2>6, <2>7, <2>8 DEF Places, Flags, Capture, Queues, Chosen, TypeOK
<1>2. CASE LongPressX
  <2> USE <1>2 DEF TypeOK, Linked, LongPressX, NotStarted, Started, SendRaises, Raise, Goes, Silent, capture, client, choice, gateway
  <2>1. Places'  BY DEF Places
  <2>2. Flags'  BY DEF Flags
  <2>3. Capture'
    <3>1. CASE UNCHANGED <<mic, tx>>
      BY <3>1 DEF Capture
    <3>2. CASE Started
      <4> DEFINE now == IF mic.on THEN mic ELSE [Silent EXCEPT !.on = TRUE]
      <4>1. now \in [on : BOOLEAN, recorded : Nat, read : Nat]
        OBVIOUS
      <4>2. mic' = [now EXCEPT !.read = now.recorded]
        BY <3>2
      <4>3. tx' \in {[stream |-> tx.stream + 1, seq |-> 0], [stream |-> tx.stream + 1, seq |-> 1]}
        BY <3>2
      <4>4. tx.stream < user.streams /\ tx.stream \in 0..user.streams
        BY <3>2
      <4> HIDE DEF now
      <4> QED BY ONLY <4>1, <4>2, <4>3, <4>4, user'.streams = user.streams, user.streams \in Nat DEF Capture
    <3>3. UNCHANGED <<mic, tx>> \/ Started
      OBVIOUS
    <3> QED BY ONLY <3>1, <3>2, <3>3
  <2>4. Queues'
    <3>1. batch' \in {batch, <<>>} /\ UNCHANGED <<toDevice, asked, commands>>
      OBVIOUS
    <3> QED BY ONLY ZenonT(60), <3>1, Emptied, TypeOK DEF Queues, TypeOK
  <2>5. Chosen'  BY DEF Chosen, Selection
  <2>6. ui' \in Mode  BY DEF Mode
  <2>7. Linked'  OBVIOUS
  <2>8. spoilt' \subseteq 0..user'.streams  BY DEF Remember
  <2> QED BY ONLY <2>1, <2>2, <2>3, <2>4, <2>5, <2>6, <2>7, <2>8 DEF Places, Flags, Capture, Queues, Chosen, TypeOK
<1>3. CASE ReleaseX
  <2> USE <1>3 DEF TypeOK, Linked, ReleaseX, MicOff, StopRecording, SendRaises, Raise, Publish, Goes, Silent, client, choice, gateway
  <2>1. Places'  BY DEF Places
  <2>2. Flags'  BY DEF Flags
  <2>3. Capture'
    <3>1. CASE StopRecording("release")
      BY ONLY <3>1, StopFits, TypeOK, user'.streams = user.streams
    <3>2. CASE mic' = [on |-> FALSE, recorded |-> 0, read |-> 0] /\ tx' = tx
      BY ONLY <3>2, CaptureFits, TypeOK, user'.streams = user.streams
    <3> QED BY <3>1, <3>2
  <2>4. Queues'  BY ZenonT(60), Emptied DEF Queues
  <2>5. Chosen'  BY DEF Chosen, Selection
  <2>6. ui' \in Mode  BY DEF Mode
  <2>7. Linked'  OBVIOUS
  <2>8. spoilt' \subseteq 0..user'.streams  BY DEF Remember
  <2> QED BY ONLY <2>1, <2>2, <2>3, <2>4, <2>5, <2>6, <2>7, <2>8 DEF Places, Flags, Capture, Queues, Chosen, TypeOK
<1>4. CASE MissRelease
  <2> USE <1>4 DEF TypeOK, Linked, MissRelease, screen, capture, socket, queues, client, choice, gateway
  <2>1. Places'  BY DEF Places
  <2>2. Flags'  BY DEF Flags
  <2>3. Capture'  BY DEF Capture
  <2>4. Queues'  BY ZenonT(60), Emptied DEF Queues
  <2>5. Chosen'  BY DEF Chosen, Selection
  <2>6. ui' \in Mode  BY DEF Mode
  <2>7. Linked'  OBVIOUS
  <2>8. spoilt' \subseteq 0..user'.streams  BY DEF Remember
  <2> QED BY ONLY <2>1, <2>2, <2>3, <2>4, <2>5, <2>6, <2>7, <2>8 DEF Places, Flags, Capture, Queues, Chosen, TypeOK
<1>5. CASE Cancel
  <2> USE <1>5 DEF TypeOK, Linked, Cancel, MicOff, Silent, socket, queues, client, choice, gateway
  <2>1. Places'  BY DEF Places
  <2>2. Flags'  BY DEF Flags
  <2>3. Capture'
    <3>1. mic' = [on |-> FALSE, recorded |-> 0, read |-> 0] /\ tx' = [tx EXCEPT !.seq = 0]
      OBVIOUS
    <3> QED BY ONLY <3>1, CaptureFits, TypeOK, user'.streams = user.streams
  <2>4. Queues'  BY ZenonT(60), Emptied DEF Queues
  <2>5. Chosen'  BY DEF Chosen, Selection
  <2>6. ui' \in Mode  BY DEF Mode
  <2>7. Linked'  OBVIOUS
  <2>8. spoilt' \subseteq 0..user'.streams  BY DEF Remember
  <2> QED BY ONLY <2>1, <2>2, <2>3, <2>4, <2>5, <2>6, <2>7, <2>8 DEF Places, Flags, Capture, Queues, Chosen, TypeOK
<1>6. CASE Speak
  <2> USE <1>6 DEF TypeOK, Linked, Speak, screen, button, socket, queues, client, choice, gateway
  <2>1. Places'  BY DEF Places
  <2>2. Flags'  BY DEF Flags
  <2>3. Capture'
    <3>1. mic' = [mic EXCEPT !.recorded = @ + 1] /\ tx' = tx
      OBVIOUS
    <3>2. mic' \in [on : BOOLEAN, recorded : Nat, read : Nat] /\ mic'.read <= mic'.recorded
      BY ONLY <3>1, TypeOK, MicType
    <3> QED BY ONLY <3>1, <3>2, CaptureFits, TypeOK, user'.streams = user.streams
  <2>4. Queues'  BY ZenonT(60), Emptied DEF Queues
  <2>5. Chosen'  BY DEF Chosen, Selection
  <2>6. ui' \in Mode  BY DEF Mode
  <2>7. Linked'  OBVIOUS
  <2>8. spoilt' \subseteq 0..user'.streams  BY DEF Remember
  <2> QED BY ONLY <2>1, <2>2, <2>3, <2>4, <2>5, <2>6, <2>7, <2>8 DEF Places, Flags, Capture, Queues, Chosen, TypeOK
<1> QED BY <1>1, <1>2, <1>3, <1>4, <1>5, <1>6 DEF Talks

\* The other buttons preserve types and links.
LEMMA TypePresses == ASSUME TypeOK, Linked, Presses, Remember PROVE TypeOK' /\ Linked'
<1> user' \in Habit /\ user'.streams = user.streams /\ user.streams \in Nat
  BY UserKept
<1>1. CASE Navigate
  <2> USE <1>1 DEF TypeOK, Linked, Navigate, button, capture, socket, queues, client, choice, gateway
  <2>1. Places'  BY DEF Places
  <2>2. Flags'  BY DEF Flags
  <2>3. Capture'  BY DEF Capture
  <2>4. Queues'  BY ZenonT(60), Emptied DEF Queues
  <2>5. Chosen'  BY DEF Chosen, Selection
  <2>6. ui' \in Mode  BY DEF Mode
  <2>7. Linked'  OBVIOUS
  <2>8. spoilt' \subseteq 0..user'.streams  BY DEF Remember
  <2> QED BY ONLY <2>1, <2>2, <2>3, <2>4, <2>5, <2>6, <2>7, <2>8 DEF Places, Flags, Capture, Queues, Chosen, TypeOK
<1>2. CASE ToggleMute
  <2> USE <1>2 DEF TypeOK, Linked, ToggleMute, button, capture, socket, queues, client, choice, gateway
  <2>1. Places'  BY DEF Places
  <2>2. Flags'  BY DEF Flags
  <2>3. Capture'  BY DEF Capture
  <2>4. Queues'  BY ZenonT(60), Emptied DEF Queues
  <2>5. Chosen'  BY DEF Chosen, Selection
  <2>6. ui' \in Mode  BY DEF Mode
  <2>7. Linked'  OBVIOUS
  <2>8. spoilt' \subseteq 0..user'.streams  BY DEF Remember
  <2> QED BY ONLY <2>1, <2>2, <2>3, <2>4, <2>5, <2>6, <2>7, <2>8 DEF Places, Flags, Capture, Queues, Chosen, TypeOK
<1>3. CASE SendPrompt
  <2> USE <1>3 DEF TypeOK, Linked, SendPrompt, button, capture, queues, client, choice, gateway
  <2>1. Places'  BY DEF Places
  <2>2. Flags'  BY DEF Flags
  <2>3. Capture'  BY DEF Capture
  <2>4. Queues'  BY ZenonT(60), Emptied DEF Queues
  <2>5. Chosen'  BY DEF Chosen, Selection
  <2>6. ui' \in Mode  BY DEF Mode
  <2>7. Linked'  OBVIOUS
  <2>8. spoilt' \subseteq 0..user'.streams  BY DEF Remember
  <2> QED BY ONLY <2>1, <2>2, <2>3, <2>4, <2>5, <2>6, <2>7, <2>8 DEF Places, Flags, Capture, Queues, Chosen, TypeOK
<1>4. CASE Quit
  <2> USE <1>4 DEF TypeOK, Linked, Quit, MicOff, Goes, Silent, screen, button, queues, client, choice, gateway
  <2>1. Places'  BY DEF Places
  <2>2. Flags'  BY DEF Flags
  <2>3. Capture'  BY DEF Capture
  <2>4. Queues'  BY ZenonT(60), Emptied DEF Queues
  <2>5. Chosen'  BY DEF Chosen, Selection
  <2>6. ui' \in Mode  BY DEF Mode
  <2>7. Linked'  OBVIOUS
  <2>8. spoilt' \subseteq 0..user'.streams  BY DEF Remember
  <2> QED BY ONLY <2>1, <2>2, <2>3, <2>4, <2>5, <2>6, <2>7, <2>8 DEF Places, Flags, Capture, Queues, Chosen, TypeOK
<1>5. CASE Retry
  <2> USE <1>5 DEF TypeOK, Linked, Retry, Disconnect, Goes, button, capture, queues, choice, gateway
  <2>1. Places'  BY DEF Places
  <2>2. Flags'  BY DEF Flags
  <2>3. Capture'  BY DEF Capture
  <2>4. Queues'  BY ZenonT(60), Emptied DEF Queues
  <2>5. Chosen'  BY DEF Chosen, Selection
  <2>6. ui' \in Mode  BY DEF Mode
  <2>7. Linked'  OBVIOUS
  <2>8. spoilt' \subseteq 0..user'.streams  BY DEF Remember
  <2> QED BY ONLY <2>1, <2>2, <2>3, <2>4, <2>5, <2>6, <2>7, <2>8 DEF Places, Flags, Capture, Queues, Chosen, TypeOK
<1>6. CASE \E c \in Conversation : ChangeConversation(c)
  <2> USE <1>6 DEF TypeOK, Linked, ChangeConversation, Disconnect, Goes, button, capture, queues, gateway
  <2>1. Places'  BY DEF Places
  <2>2. Flags'  BY DEF Flags
  <2>3. Capture'  BY DEF Capture
  <2>4. Queues'
    <3>1. PICK c \in Conversation : asked' \in {Append(asked, c), <<>>}
      OBVIOUS
    <3>2. Append(asked, c) \in Seq(Conversation)
      BY AppendProperties
    <3>3. toDevice' \in {toDevice, <<>>} /\ UNCHANGED <<commands, batch>>
      OBVIOUS
    <3> QED BY ONLY ZenonT(60), <3>1, <3>2, <3>3, Emptied, TypeOK DEF TypeOK, Queues
  <2>5. Chosen'  BY DEF Chosen, Selection
  <2>6. ui' \in Mode  BY DEF Mode
  <2>7. Linked'  OBVIOUS
  <2>8. spoilt' \subseteq 0..user'.streams  BY DEF Remember
  <2> QED BY ONLY <2>1, <2>2, <2>3, <2>4, <2>5, <2>6, <2>7, <2>8 DEF Places, Flags, Capture, Queues, Chosen, TypeOK
<1>7. CASE \E u \in Url : ChangeGateway(u)
  <2> USE <1>7 DEF TypeOK, Linked, ChangeGateway, Disconnect, Goes, button, capture, queues, gateway
  <2>1. Places'  BY DEF Places
  <2>2. Flags'  BY DEF Flags
  <2>3. Capture'  BY DEF Capture
  <2>4. Queues'  BY ZenonT(60), Emptied DEF Queues
  <2>5. Chosen'  BY DEF Chosen, Selection
  <2>6. ui' \in Mode  BY DEF Mode
  <2>7. Linked'  OBVIOUS
  <2>8. spoilt' \subseteq 0..user'.streams  BY DEF Remember
  <2> QED BY ONLY <2>1, <2>2, <2>3, <2>4, <2>5, <2>6, <2>7, <2>8 DEF Places, Flags, Capture, Queues, Chosen, TypeOK
<1> QED BY <1>1, <1>2, <1>3, <1>4, <1>5, <1>6, <1>7 DEF Presses

\* What comes of a wait preserves types and links.
LEMMA TypeWait == ASSUME TypeOK, Linked, Wait, Remember PROVE TypeOK' /\ Linked'
<1> user' \in Habit /\ user'.streams = user.streams /\ user.streams \in Nat
  BY UserKept
<1>1. CASE Replied
  <2> USE <1>1 DEF TypeOK, Linked, Replied, Restore, Goes, button, capture, socket, queues, gateway
  <2>1. Places'  BY DEF Places
  <2>2. Flags'  BY DEF Flags
  <2>3. Capture'  BY DEF Capture
  <2>4. Queues'  BY ZenonT(60), Emptied DEF Queues
  <2>5. Chosen'  BY DEF Chosen, Selection
  <2>6. ui' \in Mode  BY DEF Mode
  <2>7. Linked'  OBVIOUS
  <2>8. spoilt' \subseteq 0..user'.streams  BY DEF Remember
  <2> QED BY ONLY <2>1, <2>2, <2>3, <2>4, <2>5, <2>6, <2>7, <2>8 DEF Places, Flags, Capture, Queues, Chosen, TypeOK
<1>2. CASE ReplyTimeout
  <2> USE <1>2 DEF TypeOK, Linked, ReplyTimeout, Disconnect, Goes, button, capture, queues, choice, gateway
  <2>1. Places'  BY DEF Places
  <2>2. Flags'  BY DEF Flags
  <2>3. Capture'  BY DEF Capture
  <2>4. Queues'  BY ZenonT(60), Emptied DEF Queues
  <2>5. Chosen'  BY DEF Chosen, Selection
  <2>6. ui' \in Mode  BY DEF Mode
  <2>7. Linked'  OBVIOUS
  <2>8. spoilt' \subseteq 0..user'.streams  BY DEF Remember
  <2> QED BY ONLY <2>1, <2>2, <2>3, <2>4, <2>5, <2>6, <2>7, <2>8 DEF Places, Flags, Capture, Queues, Chosen, TypeOK
<1>3. CASE ConnectSucceeds
  <2> USE <1>3 DEF TypeOK, Linked, ConnectSucceeds, Goes, button, capture, queues
  <2>1. Places'  BY DEF Places
  <2>2. Flags'  BY DEF Flags
  <2>3. Capture'  BY DEF Capture
  <2>4. Queues'  BY ZenonT(60), Emptied DEF Queues
  <2>5. Chosen'  BY DEF Chosen, Selection
  <2>6. ui' \in Mode  BY DEF Mode
  <2>7. Linked'  OBVIOUS
  <2>8. spoilt' \subseteq 0..user'.streams  BY DEF Remember
  <2> QED BY ONLY <2>1, <2>2, <2>3, <2>4, <2>5, <2>6, <2>7, <2>8 DEF Places, Flags, Capture, Queues, Chosen, TypeOK
<1>4. CASE ConnectFails
  <2> USE <1>4 DEF TypeOK, Linked, ConnectFails, Restore, Goes, button, capture, socket, queues, gateway
  <2>1. Places'  BY DEF Places
  <2>2. Flags'  BY DEF Flags
  <2>3. Capture'  BY DEF Capture
  <2>4. Queues'  BY ZenonT(60), Emptied DEF Queues
  <2>5. Chosen'  BY DEF Chosen, Selection
  <2>6. ui' \in Mode  BY DEF Mode
  <2>7. Linked'  OBVIOUS
  <2>8. spoilt' \subseteq 0..user'.streams  BY DEF Remember
  <2> QED BY ONLY <2>1, <2>2, <2>3, <2>4, <2>5, <2>6, <2>7, <2>8 DEF Places, Flags, Capture, Queues, Chosen, TypeOK
<1> QED BY <1>1, <1>2, <1>3, <1>4 DEF Wait

\* The tick preserves types and links.
LEMMA TypeTick == ASSUME TypeOK, Linked, Tick, Remember PROVE TypeOK' /\ Linked'
<1> user' \in Habit /\ user'.streams = user.streams /\ user.streams \in Nat
  BY UserKept
<1>1. CASE EndInput
  <2> USE <1>1 DEF TypeOK, Linked, EndInput, Goes, screen, button, capture, socket, client, choice, gateway
  <2>1. Places'  BY DEF Places
  <2>2. Flags'  BY DEF Flags
  <2>3. Capture'  BY DEF Capture
  <2>4. Queues'  BY ZenonT(60), Emptied DEF Queues
  <2>5. Chosen'  BY DEF Chosen, Selection
  <2>6. ui' \in Mode  BY DEF Mode
  <2>7. Linked'  OBVIOUS
  <2>8. spoilt' \subseteq 0..user'.streams  BY DEF Remember
  <2> QED BY ONLY <2>1, <2>2, <2>3, <2>4, <2>5, <2>6, <2>7, <2>8 DEF Places, Flags, Capture, Queues, Chosen, TypeOK
<1>2. CASE HandleCommand
  <2> USE <1>2 DEF TypeOK, Linked, HandleCommand, Raise, Goes, button, capture, socket, client, choice, gateway
  <2>1. Places'  BY DEF Places
  <2>2. Flags'  BY DEF Flags
  <2>3. Capture'  BY DEF Capture
  <2>4. Queues'
    <3>1. batch' \in {Tail(batch), <<>>} /\ UNCHANGED <<toDevice, asked, commands>>
      OBVIOUS
    <3>2. Tail(batch) \in Seq(Command)
      BY FirstTaken
    <3> QED BY ONLY ZenonT(60), <3>1, <3>2, Emptied, TypeOK DEF TypeOK, Queues
  <2>5. Chosen'  BY DEF Chosen, Selection
  <2>6. ui' \in Mode
    <3>1. Head(batch) \in Command
      BY FirstTaken
    <3>2. ui' \in {"home", ui, "error"} \/ (Head(batch) \notin {"mute", "quiet"} /\ ui' = Head(batch))
      OBVIOUS
    <3> QED BY ONLY <3>1, <3>2, TypeOK DEF TypeOK, Command, Mode
  <2>7. Linked'  OBVIOUS
  <2>8. spoilt' \subseteq 0..user'.streams  BY DEF Remember
  <2> QED BY ONLY <2>1, <2>2, <2>3, <2>4, <2>5, <2>6, <2>7, <2>8 DEF Places, Flags, Capture, Queues, Chosen, TypeOK
<1>3. CASE Check
  <2> USE <1>3 DEF TypeOK, Linked, Check, Goes, button, capture, socket, queues, client, choice, gateway
  <2>1. Places'  BY DEF Places
  <2>2. Flags'  BY DEF Flags
  <2>3. Capture'  BY DEF Capture
  <2>4. Queues'  BY ZenonT(60), Emptied DEF Queues
  <2>5. Chosen'  BY DEF Chosen, Selection
  <2>6. ui' \in Mode  BY DEF Mode
  <2>7. Linked'  OBVIOUS
  <2>8. spoilt' \subseteq 0..user'.streams  BY DEF Remember
  <2> QED BY ONLY <2>1, <2>2, <2>3, <2>4, <2>5, <2>6, <2>7, <2>8 DEF Places, Flags, Capture, Queues, Chosen, TypeOK
<1>4. CASE Report
  <2> USE <1>4 DEF TypeOK, Linked, Report, SendRaises, Raise, Goes, button, capture, client, choice, gateway
  <2>1. Places'  BY DEF Places
  <2>2. Flags'  BY DEF Flags
  <2>3. Capture'  BY DEF Capture
  <2>4. Queues'  BY ZenonT(60), Emptied DEF Queues
  <2>5. Chosen'  BY DEF Chosen, Selection
  <2>6. ui' \in Mode  BY DEF Mode
  <2>7. Linked'  OBVIOUS
  <2>8. spoilt' \subseteq 0..user'.streams  BY DEF Remember
  <2> QED BY ONLY <2>1, <2>2, <2>3, <2>4, <2>5, <2>6, <2>7, <2>8 DEF Places, Flags, Capture, Queues, Chosen, TypeOK
<1>5. CASE NoReport
  <2> USE <1>5 DEF TypeOK, Linked, NoReport, Goes, screen, button, capture, socket, queues, client, choice, gateway
  <2>1. Places'  BY DEF Places
  <2>2. Flags'  BY DEF Flags
  <2>3. Capture'  BY DEF Capture
  <2>4. Queues'  BY ZenonT(60), Emptied DEF Queues
  <2>5. Chosen'  BY DEF Chosen, Selection
  <2>6. ui' \in Mode  BY DEF Mode
  <2>7. Linked'  OBVIOUS
  <2>8. spoilt' \subseteq 0..user'.streams  BY DEF Remember
  <2> QED BY ONLY <2>1, <2>2, <2>3, <2>4, <2>5, <2>6, <2>7, <2>8 DEF Places, Flags, Capture, Queues, Chosen, TypeOK
<1>6. CASE Stream
  <2> USE <1>6 DEF TypeOK, Linked, Stream, SendRaises, Raise, Publish, Goes, button, client, choice, gateway
  <2>1. Places'  BY DEF Places
  <2>2. Flags'  BY DEF Flags
  <2>3. Capture'
    <3>1. mic' = [mic EXCEPT !.read = IF mic.on THEN mic.recorded ELSE @]
      OBVIOUS
    <3>2. tx' = tx \/ tx' = [tx EXCEPT !.seq = @ + 1]
      OBVIOUS
    <3>3. mic' \in [on : BOOLEAN, recorded : Nat, read : Nat]
      BY ONLY <3>1, TypeOK, MicType
    <3>4. mic'.read <= mic'.recorded
      BY ONLY <3>1, TypeOK, MicType
    <3> QED BY ONLY <3>2, <3>3, <3>4, CaptureFits, TypeOK, user'.streams = user.streams
  <2>4. Queues'  BY ZenonT(60), Emptied DEF Queues
  <2>5. Chosen'  BY DEF Chosen, Selection
  <2>6. ui' \in Mode  BY DEF Mode
  <2>7. Linked'  OBVIOUS
  <2>8. spoilt' \subseteq 0..user'.streams  BY DEF Remember
  <2> QED BY ONLY <2>1, <2>2, <2>3, <2>4, <2>5, <2>6, <2>7, <2>8 DEF Places, Flags, Capture, Queues, Chosen, TypeOK
<1>7. CASE StopOverdue
  <2> USE <1>7 DEF TypeOK, Linked, StopOverdue, StopRecording, SendRaises, Raise, Publish, Goes, button, client, choice, gateway
  <2>1. Places'  BY DEF Places
  <2>2. Flags'  BY DEF Flags
  <2>3. Capture'
    BY ONLY StopOverdue, StopFits, TypeOK, user'.streams = user.streams DEF StopOverdue
  <2>4. Queues'  BY ZenonT(60), Emptied DEF Queues
  <2>5. Chosen'  BY DEF Chosen, Selection
  <2>6. ui' \in Mode  BY DEF Mode
  <2>7. Linked'  OBVIOUS
  <2>8. spoilt' \subseteq 0..user'.streams  BY DEF Remember
  <2> QED BY ONLY <2>1, <2>2, <2>3, <2>4, <2>5, <2>6, <2>7, <2>8 DEF Places, Flags, Capture, Queues, Chosen, TypeOK
<1>8. CASE NotOverdue
  <2> USE <1>8 DEF TypeOK, Linked, NotOverdue, Goes, screen, button, capture, socket, queues, client, choice, gateway
  <2>1. Places'  BY DEF Places
  <2>2. Flags'  BY DEF Flags
  <2>3. Capture'  BY DEF Capture
  <2>4. Queues'  BY ZenonT(60), Emptied DEF Queues
  <2>5. Chosen'  BY DEF Chosen, Selection
  <2>6. ui' \in Mode  BY DEF Mode
  <2>7. Linked'  OBVIOUS
  <2>8. spoilt' \subseteq 0..user'.streams  BY DEF Remember
  <2> QED BY ONLY <2>1, <2>2, <2>3, <2>4, <2>5, <2>6, <2>7, <2>8 DEF Places, Flags, Capture, Queues, Chosen, TypeOK
<1>9. CASE Finish
  <2> USE <1>9 DEF TypeOK, Linked, Finish, MicOff, SendRaises, Raise, Publish, Goes, Silent, client, choice, gateway
  <2>1. Places'  BY DEF Places
  <2>2. Flags'  BY DEF Flags
  <2>3. Capture'  BY DEF Capture
  <2>4. Queues'  BY ZenonT(60), Emptied DEF Queues
  <2>5. Chosen'  BY DEF Chosen, Selection
  <2>6. ui' \in Mode  BY DEF Mode
  <2>7. Linked'  OBVIOUS
  <2>8. spoilt' \subseteq 0..user'.streams  BY DEF Remember
  <2> QED BY ONLY <2>1, <2>2, <2>3, <2>4, <2>5, <2>6, <2>7, <2>8 DEF Places, Flags, Capture, Queues, Chosen, TypeOK
<1> QED BY <1>1, <1>2, <1>3, <1>4, <1>5, <1>6, <1>7, <1>8, <1>9 DEF Tick

\* The gateway and time preserve types and links.
LEMMA TypeEnvironment == ASSUME TypeOK, Linked, Environment, Remember PROVE TypeOK' /\ Linked'
<1> user' \in Habit /\ user'.streams = user.streams /\ user.streams \in Nat
  BY UserKept
<1>1. CASE \E c \in user.commands : GatewayCommands(c)
  <2> USE <1>1 DEF TypeOK, Linked, GatewayCommands, screen, button, capture, queues, client, choice, gateway
  <2>1. Places'  BY DEF Places
  <2>2. Flags'  BY DEF Flags
  <2>3. Capture'  BY DEF Capture
  <2>4. Queues'
    <3>1. PICK c \in user.commands : toDevice' = Append(toDevice, [kind |-> "command", what |-> c])
      OBVIOUS
    <3>2. [kind |-> "command", what |-> c] \in Message
      BY DEF Message, Habit, Command
    <3>3. Append(toDevice, [kind |-> "command", what |-> c]) \in Seq(Message)
      BY <3>2, AppendProperties
    <3> QED BY <3>1, <3>3 DEF Queues
  <2>5. Chosen'  BY DEF Chosen, Selection
  <2>6. ui' \in Mode  BY DEF Mode
  <2>7. Linked'  OBVIOUS
  <2>8. spoilt' \subseteq 0..user'.streams  BY DEF Remember
  <2> QED BY ONLY <2>1, <2>2, <2>3, <2>4, <2>5, <2>6, <2>7, <2>8 DEF Places, Flags, Capture, Queues, Chosen, TypeOK
<1>2. CASE \E c \in Conversation : OthersSwitch(c)
  <2> USE <1>2 DEF TypeOK, Linked, OthersSwitch, screen, button, capture, queues, client, choice
  <2>1. Places'  BY DEF Places
  <2>2. Flags'  BY DEF Flags
  <2>3. Capture'  BY DEF Capture
  <2>4. Queues'
    <3>1. PICK c \in Conversation : toDevice' = Append(toDevice, [kind |-> "ack", what |-> c])
      OBVIOUS
    <3>2. [kind |-> "ack", what |-> c] \in Message
      BY DEF Message
    <3>3. Append(toDevice, [kind |-> "ack", what |-> c]) \in Seq(Message)
      BY <3>2, AppendProperties
    <3> QED BY <3>1, <3>3 DEF Queues
  <2>5. Chosen'  BY DEF Chosen, Selection
  <2>6. ui' \in Mode  BY DEF Mode
  <2>7. Linked'  OBVIOUS
  <2>8. spoilt' \subseteq 0..user'.streams  BY DEF Remember
  <2> QED BY ONLY <2>1, <2>2, <2>3, <2>4, <2>5, <2>6, <2>7, <2>8 DEF Places, Flags, Capture, Queues, Chosen, TypeOK
<1>3. CASE GatewayAnswers
  <2> USE <1>3 DEF TypeOK, Linked, GatewayAnswers, screen, button, capture, queues, client, choice
  <2>1. Places'  BY DEF Places
  <2>2. Flags'  BY DEF Flags
  <2>3. Capture'  BY DEF Capture
  <2>4. Queues'
    <3>1. PICK m \in Message : toDevice' = Append(toDevice, m)
      <4>1. [kind |-> "ack", what |-> Head(asked)] \in Message /\ [kind |-> "error", what |-> None] \in Message
        BY FirstTaken DEF Message
      <4> QED BY <4>1
    <3>2. Append(toDevice, m) \in Seq(Message) /\ Tail(asked) \in Seq(Conversation)
      BY AppendProperties, FirstTaken
    <3> QED BY <3>1, <3>2 DEF Queues
  <2>5. Chosen'
    <3>1. Head(asked) \in Conversation
      BY FirstTaken
    <3> QED BY ZenonT(60), <3>1 DEF Chosen
  <2>6. ui' \in Mode  BY DEF Mode
  <2>7. Linked'  OBVIOUS
  <2>8. spoilt' \subseteq 0..user'.streams  BY DEF Remember
  <2> QED BY ONLY <2>1, <2>2, <2>3, <2>4, <2>5, <2>6, <2>7, <2>8 DEF Places, Flags, Capture, Queues, Chosen, TypeOK
<1>4. CASE Break
  <2> USE <1>4 DEF TypeOK, Linked, Break, screen, button, capture, queues, client, choice, gateway
  <2>1. Places'  BY DEF Places
  <2>2. Flags'  BY DEF Flags
  <2>3. Capture'  BY DEF Capture
  <2>4. Queues'  BY ZenonT(60), Emptied DEF Queues
  <2>5. Chosen'  BY DEF Chosen, Selection
  <2>6. ui' \in Mode  BY DEF Mode
  <2>7. Linked'  OBVIOUS
  <2>8. spoilt' \subseteq 0..user'.streams  BY DEF Remember
  <2> QED BY ONLY <2>1, <2>2, <2>3, <2>4, <2>5, <2>6, <2>7, <2>8 DEF Places, Flags, Capture, Queues, Chosen, TypeOK
<1>5. CASE MuteExpires
  <2> USE <1>5 DEF TypeOK, Linked, MuteExpires, button, capture, socket, queues, client, choice, gateway
  <2>1. Places'  BY DEF Places
  <2>2. Flags'  BY DEF Flags
  <2>3. Capture'  BY DEF Capture
  <2>4. Queues'  BY ZenonT(60), Emptied DEF Queues
  <2>5. Chosen'  BY DEF Chosen, Selection
  <2>6. ui' \in Mode  BY DEF Mode
  <2>7. Linked'  OBVIOUS
  <2>8. spoilt' \subseteq 0..user'.streams  BY DEF Remember
  <2> QED BY ONLY <2>1, <2>2, <2>3, <2>4, <2>5, <2>6, <2>7, <2>8 DEF Places, Flags, Capture, Queues, Chosen, TypeOK
<1> QED BY <1>1, <1>2, <1>3, <1>4, <1>5 DEF Environment

\* The listener preserves types and links.
LEMMA TypeListens == ASSUME TypeOK, Linked, Listen \/ ListenEnds, Remember PROVE TypeOK' /\ Linked'
<1> user' \in Habit /\ user'.streams = user.streams /\ user.streams \in Nat
  BY UserKept
<1>1. CASE Listen
  <2> USE <1>1 DEF TypeOK, Linked, Listen, screen, button, capture, choice, gateway
  <2>1. Places'
    <3>1. Head(toDevice) \in Message /\ Head(toDevice).kind \in {"command", "ack", "error"}
      BY FirstTaken, MessageKinds
    <3> QED BY <3>1 DEF Places
  <2>2. Flags'  BY DEF Flags
  <2>3. Capture'  BY DEF Capture
  <2>4. Queues'
    <3>1. Tail(toDevice) \in Seq(Message)
      BY FirstTaken
    <3>2. commands' \in Seq(Command)
      <4>1. CASE Head(toDevice).kind = "command"
        BY <4>1, FirstTaken, MessageKinds, AppendProperties
      <4>2. CASE Head(toDevice).kind # "command"
        BY <4>2
      <4> QED BY <4>1, <4>2
    <3> QED BY <3>1, <3>2 DEF Queues
  <2>5. Chosen'
    <3>1. Head(toDevice).kind = "ack" => Head(toDevice).what \in Conversation
      BY FirstTaken, MessageKinds
    <3> QED BY <3>1 DEF Chosen, Selection
  <2>6. ui' \in Mode  BY DEF Mode
  <2>7. Linked'  OBVIOUS
  <2>8. spoilt' \subseteq 0..user'.streams  BY DEF Remember
  <2> QED BY ONLY <2>1, <2>2, <2>3, <2>4, <2>5, <2>6, <2>7, <2>8 DEF Places, Flags, Capture, Queues, Chosen, TypeOK
<1>2. CASE ListenEnds
  <2> USE <1>2 DEF TypeOK, Linked, ListenEnds, screen, button, capture, queues, client, choice, gateway
  <2>1. Places'  BY DEF Places
  <2>2. Flags'  BY DEF Flags
  <2>3. Capture'  BY DEF Capture
  <2>4. Queues'  BY ZenonT(60), Emptied DEF Queues
  <2>5. Chosen'  BY DEF Chosen, Selection
  <2>6. ui' \in Mode  BY DEF Mode
  <2>7. Linked'  OBVIOUS
  <2>8. spoilt' \subseteq 0..user'.streams  BY DEF Remember
  <2> QED BY ONLY <2>1, <2>2, <2>3, <2>4, <2>5, <2>6, <2>7, <2>8 DEF Places, Flags, Capture, Queues, Chosen, TypeOK
<1> QED BY <1>1, <1>2

\* The types and links hold at first.
LEMMA TypeInit == Init => TypeOK /\ Linked
<1> SUFFICES ASSUME Init PROVE TypeOK /\ Linked
  OBVIOUS
<1>1. user \in Habit
  BY UserAssumption DEF Init
<1>2. /\ user.url \in Url /\ user.selected \in [Url -> Conversation] /\ user.streams \in Nat
  BY <1>1 DEF Habit
<1>3. Linked
  BY <1>1 DEF Init, Linked
<1>4. selected \in [Url -> Conversation] /\ url \in Url /\ info \in Selection /\ pref \in Selection
  BY <1>2 DEF Init, Selection
<1>5. Capture
  BY <1>2 DEF Capture, Init, Silent
<1>6. Queues /\ Chosen
  BY <1>4, Emptied DEF Queues, Chosen, Init, Selection
<1>7. Places /\ Flags /\ ui \in Mode
  BY DEF Init, Places, Flags, Mode
<1>8. spoilt \subseteq 0..user.streams
  BY DEF Init
<1> QED BY ONLY <1>3, <1>5, <1>6, <1>7, <1>8 DEF Places, Flags, Capture, Queues, Chosen, TypeOK

-----------------------------------------------------------------------------
(* The conversation.                                                       *)

\* A step that leaves the conversation alone.
LEMMA ConversingKept ==
  ASSUME Conversing, UNCHANGED <<asked, toDevice, waiter, info, pref, url, prev, selected, foreign>>,
         link' = "open" => link = "open", at' = "reply" <=> at = "reply"
  PROVE  Conversing'
BY DEF Conversing, UnderWay, Answerless, Tells

\* Without a link nothing is claimed of the conversation.
LEMMA ConversingOff == ASSUME link' # "open" PROVE Conversing'
BY DEF Conversing

\* The X button leaves the conversation alone.
LEMMA ConversingTalks == ASSUME Conversing, Talks PROVE Conversing'
<1> USE ConversingKept, ConversingOff DEF socket, client, choice, gateway
<1>1. CASE PressX
  BY <1>1 DEF PressX
<1>2. CASE LongPressX
  BY <1>2 DEF LongPressX, NotStarted, Started, SendRaises, Raise, Goes
<1>3. CASE ReleaseX
  BY <1>3 DEF ReleaseX, StopRecording, SendRaises, Raise, Goes
<1>4. CASE MissRelease \/ Cancel \/ Speak
  BY <1>4 DEF MissRelease, Cancel, Speak
<1> QED BY <1>1, <1>2, <1>3, <1>4 DEF Talks

\* So does the tick.
LEMMA ConversingTick == ASSUME Conversing, Tick PROVE Conversing'
<1> USE ConversingKept DEF socket, client, choice, gateway, Goes, Raise, SendRaises
<1>1. CASE EndInput \/ NoReport \/ NotOverdue \/ Check
  BY <1>1 DEF EndInput, NoReport, NotOverdue, Check
<1>2. CASE HandleCommand
  BY <1>2 DEF HandleCommand
<1>3. CASE Report
  BY <1>3 DEF Report
<1>4. CASE Stream
  BY <1>4 DEF Stream
<1>5. CASE StopOverdue
  BY <1>5 DEF StopOverdue, StopRecording
<1>6. CASE Finish
  BY <1>6 DEF Finish
<1> QED BY <1>1, <1>2, <1>3, <1>4, <1>5, <1>6 DEF Tick

\* A change of the conversation asks one question, at a settled selection.
LEMMA ConversingPresses == ASSUME TypeOK, Linked, Conversing, Presses PROVE Conversing'
<1> USE ConversingKept, ConversingOff DEF socket, client, choice, gateway, Goes
<1>1. CASE Navigate \/ ToggleMute \/ SendPrompt
  BY <1>1 DEF Navigate, ToggleMute, SendPrompt
<1>2. CASE Quit
  BY <1>2 DEF Quit
<1>3. CASE Retry
  BY <1>3 DEF Retry, Disconnect
<1>4. ASSUME NEW u \in Url, ChangeGateway(u) PROVE Conversing'
  BY <1>4 DEF ChangeGateway, Disconnect
<1>5. ASSUME NEW c \in Conversation, ChangeConversation(c) PROVE Conversing'
  <2>1. CASE link = "open" /\ ~foreign /\ connected
    <3>1. at = "input" /\ asked = <<>> /\ Answerless /\ pref = selected[url]
      BY <1>5, <2>1 DEF ChangeConversation, Conversing
    <3>2. /\ asked' = Append(asked, c) /\ waiter' = "waiting" /\ at' = "reply"
          /\ prev' = [url |-> url, pref |-> pref]
          /\ UNCHANGED <<toDevice, url, selected, foreign>>
      BY <1>5, <2>1 DEF ChangeConversation
    <3>3. Len(asked') = 1
      BY <3>1, <3>2, AppendProperties, EmptySeq DEF TypeOK
    <3>4. UnderWay'
      BY <3>1, <3>2, <3>3 DEF UnderWay, Answerless
    <3> QED BY <3>2, <3>4 DEF Conversing
  <2>2. CASE link # "open"
    BY <1>5, <2>2 DEF ChangeConversation, Disconnect
  <2>3. CASE foreign
    BY <1>5, <2>3 DEF ChangeConversation, Conversing
  <2> QED BY <2>1, <2>2, <2>3 DEF Linked
<1> QED BY <1>1, <1>2, <1>3, <1>4, <1>5 DEF Presses

\* The answer settles it; so does a new connection.
LEMMA ConversingWait == ASSUME TypeOK, Linked, Conversing, Wait PROVE Conversing'
<1> USE ConversingOff DEF socket, client, choice, gateway, Goes
<1>1. CASE Replied
  <2>1. CASE link = "open" /\ ~foreign
    <3>1. prev.url = url /\ UnderWay
      BY <1>1, <2>1 DEF Replied, Conversing
    <3>2. asked = <<>> /\ Answerless
      BY <1>1, <3>1 DEF Replied, UnderWay
    <3>3. /\ waiter = "ack" => info = selected[url]
          /\ waiter = "error" => prev.pref = selected[url]
      BY <1>1, <3>1 DEF Replied, UnderWay
    <3>4. pref' = selected[url] /\ url' = url
      BY <1>1, <3>1, <3>3 DEF Replied, Restore
    <3>5. at' = "input" /\ UNCHANGED <<link, foreign, asked, toDevice, selected>>
      BY <1>1 DEF Replied
    <3> QED BY <3>2, <3>4, <3>5 DEF Conversing, Answerless
  <2>2. CASE ~(link = "open" /\ ~foreign)
    BY <1>1, <2>2 DEF Replied, Conversing
  <2> QED BY <2>1, <2>2
<1>2. CASE ReplyTimeout
  BY <1>2 DEF ReplyTimeout, Disconnect
<1>3. CASE ConnectSucceeds
  <2>1. asked' = <<>> /\ toDevice' = <<>> /\ at' = "input"
    BY <1>3 DEF ConnectSucceeds, Linked
  <2>2. pref' = selected'[url] /\ url' = url
    BY <1>3 DEF ConnectSucceeds, TypeOK
  <2> QED BY <2>1, <2>2 DEF Conversing, Answerless
<1>4. CASE ConnectFails
  BY <1>4 DEF ConnectFails, Linked
<1> QED BY <1>1, <1>2, <1>3, <1>4 DEF Wait

\* What the listener takes up is a command, or the one answer that is under way.
LEMMA ConversingListen == ASSUME TypeOK, Linked, Conversing, Listen PROVE Conversing'
<1> USE DEF client, choice, gateway
<1> DEFINE m == Head(toDevice)
<1>1. /\ toDevice # <<>> /\ toDevice' = Tail(toDevice)
      /\ waiter' = IF waiter = "waiting" /\ m.kind # "command" THEN m.kind ELSE waiter
      /\ \/ m.kind = "ack" /\ info' = m.what
         \/ m.kind # "ack" /\ info' = info
      /\ UNCHANGED <<at, link, asked, pref, url, prev, selected, foreign>>
  BY DEF Listen
<1>2. /\ m = toDevice[1] /\ DOMAIN toDevice = 1..Len(toDevice)
      /\ DOMAIN toDevice' = 1..Len(toDevice) - 1 /\ Len(toDevice) \in Nat \ {0}
      /\ \A i \in 1..Len(toDevice) - 1 : toDevice'[i] = toDevice[i + 1]
  BY <1>1, FirstTaken, LenProperties DEF TypeOK
<1>3. 1 \in DOMAIN toDevice /\ \A i \in DOMAIN toDevice' : i + 1 \in DOMAIN toDevice /\ toDevice'[i] = toDevice[i + 1]
  BY <1>2
<1>4. Answerless => Answerless' /\ m.kind = "command"
  BY <1>2, <1>3 DEF Answerless
<1> HIDE DEF m
<1>5. CASE ~(link = "open" /\ ~foreign)
  BY <1>1, <1>5 DEF Conversing
<1>6. CASE link = "open" /\ ~foreign /\ at # "reply"
  BY <1>1, <1>4, <1>6 DEF Conversing
<1>7. CASE link = "open" /\ ~foreign /\ at = "reply"
  <2>1. prev.url = url /\ UnderWay
    BY <1>7 DEF Conversing
  <2>2. CASE Answerless
    <3>1. waiter' = waiter /\ info' = info /\ Answerless'
      BY <1>1, <1>4, <2>2
    <3>2. ASSUME Len(asked) = 1, waiter = "waiting", prev.pref = selected[url]
          PROVE  UnderWay'
      BY <1>1, <3>1, <3>2 DEF UnderWay
    <3>3. ASSUME asked = <<>>,
                 \/ waiter = "ack" /\ info = selected[url]
                 \/ waiter = "error" /\ prev.pref = selected[url]
          PROVE  UnderWay'
      BY <1>1, <3>1, <3>3 DEF UnderWay
    <3>4. ~ \E i \in DOMAIN toDevice : Tells(toDevice[i])
      BY <2>2 DEF Answerless, Tells
    <3>5. UnderWay'
      BY <2>1, <3>2, <3>3, <3>4 DEF UnderWay
    <3> QED BY <1>1, <1>7, <2>1, <3>5 DEF Conversing
  <2>3. CASE ~Answerless
    <3>1. PICK i \in DOMAIN toDevice :
            /\ asked = <<>> /\ waiter = "waiting" /\ Tells(toDevice[i])
            /\ \A j \in DOMAIN toDevice : j # i => toDevice[j].kind = "command"
      BY <2>1, <2>3 DEF UnderWay
    <3>2. CASE i = 1
      <4>1. Answerless'
        BY <1>2, <1>3, <3>1, <3>2 DEF Answerless
      <4>2. \/ m.kind = "ack" /\ waiter' = "ack" /\ info' = selected[url]
            \/ m.kind = "error" /\ waiter' = "error" /\ prev.pref = selected[url]
        BY <1>1, <1>2, <3>1, <3>2 DEF Tells
      <4>3. UnderWay'
        BY <1>1, <3>1, <4>1, <4>2 DEF UnderWay
      <4> QED BY <1>1, <1>7, <2>1, <4>3 DEF Conversing
    <3>3. CASE i # 1
      <4>1. m.kind = "command" /\ waiter' = waiter
        BY <1>1, <1>2, <1>3, <3>1, <3>3
      <4>2. PICK k \in Nat : k = i - 1 /\ k \in DOMAIN toDevice' /\ toDevice'[k] = toDevice[i]
        BY <1>2, <3>3
      <4>3. \A j \in DOMAIN toDevice' : j # k => toDevice'[j].kind = "command"
        BY <1>2, <1>3, <3>1, <4>2
      <4>4. Tells(toDevice[k])'
        BY <1>1, <3>1, <4>2 DEF Tells
      <4>5. UnderWay'
        BY <1>1, <3>1, <4>1, <4>2, <4>3, <4>4 DEF UnderWay
      <4> QED BY <1>1, <1>7, <2>1, <4>5 DEF Conversing
    <3> QED BY <3>2, <3>3
  <2> QED BY <2>2, <2>3
<1> QED BY <1>5, <1>6, <1>7

\* A command changes nothing; the gateway's answer takes the question's place.
LEMMA ConversingEnvironment == ASSUME TypeOK, Linked, Conversing, Environment PROVE Conversing'
<1> USE ConversingKept, ConversingOff DEF socket, client, choice, gateway
<1>1. ASSUME NEW c \in user.commands, GatewayCommands(c) PROVE Conversing'
  <2> DEFINE m == [kind |-> "command", what |-> c]
  <2>1. /\ toDevice' = Append(toDevice, m)
        /\ UNCHANGED <<at, link, asked, waiter, info, pref, url, prev, selected, foreign>>
    BY <1>1 DEF GatewayCommands
  <2>2. m \in Message
    BY DEF Message, Linked, Habit, Command
  <2>3. /\ DOMAIN toDevice = 1..Len(toDevice) /\ DOMAIN toDevice' = 1..Len(toDevice) + 1
        /\ \A i \in DOMAIN toDevice : toDevice'[i] = toDevice[i]
        /\ toDevice'[Len(toDevice) + 1].kind = "command"
        /\ Len(toDevice) \in Nat
    BY <2>1, <2>2, AppendProperties, LenProperties DEF TypeOK
  <2>4. /\ DOMAIN toDevice \subseteq DOMAIN toDevice'
        /\ \A i \in DOMAIN toDevice' : i \in DOMAIN toDevice \/ toDevice'[i].kind = "command"
    BY <2>3
  <2>5. Answerless => Answerless'
    BY <2>3, <2>4 DEF Answerless
  <2>6. ASSUME NEW i \in DOMAIN toDevice, Tells(toDevice[i]) PROVE Tells(toDevice[i])'
    BY <2>1, <2>3, <2>6 DEF Tells
  <2> HIDE DEF m
  <2>7. UnderWay => UnderWay'
    <3>1. ASSUME NEW i \in DOMAIN toDevice, asked = <<>>, waiter = "waiting", Tells(toDevice[i]),
                 \A j \in DOMAIN toDevice : j # i => toDevice[j].kind = "command"
          PROVE  UnderWay'
      <4>1. Tells(toDevice[i])' /\ i \in DOMAIN toDevice'
        BY <2>4, <2>6, <3>1
      <4>2. \A j \in DOMAIN toDevice' : j # i => toDevice'[j].kind = "command"
        BY <2>3, <2>4, <3>1
      <4> QED BY <2>1, <3>1, <4>1, <4>2 DEF UnderWay
    <3>2. CASE Answerless
      BY <2>1, <2>5, <3>1, <3>2 DEF UnderWay
    <3> QED BY <3>1, <3>2 DEF UnderWay
  <2> QED BY <2>1, <2>5, <2>7 DEF Conversing
<1>2. ASSUME NEW c \in Conversation, OthersSwitch(c) PROVE Conversing'
  BY <1>2 DEF OthersSwitch, Conversing
<1>3. CASE GatewayAnswers
  <2>1. CASE foreign
    BY <1>3, <2>1 DEF GatewayAnswers, Conversing
  <2>2. CASE ~foreign
    <3>1. /\ at = "reply" /\ prev.url = url /\ Len(asked) = 1 /\ Answerless
          /\ waiter = "waiting" /\ prev.pref = selected[url]
      BY <1>3, <2>2 DEF GatewayAnswers, Conversing, UnderWay
    <3>2. Head(asked) \in Conversation /\ asked' = <<>>
      <4>1. asked' = Tail(asked) /\ asked # <<>>
        BY <1>3 DEF GatewayAnswers
      <4>2. asked' \in Seq(Conversation) /\ Len(asked') = 0 /\ Head(asked) \in Conversation
        BY <3>1, <4>1, FirstTaken DEF TypeOK
      <4> QED BY <4>2, EmptySeq
    <3>3. PICK m \in Message :
            /\ toDevice' = Append(toDevice, m) /\ Tells(m)'
            /\ UNCHANGED <<at, link, waiter, url, prev, foreign>>
      <4>1. UNCHANGED <<at, link, waiter, url, prev, foreign>>
        BY <1>3 DEF GatewayAnswers
      <4>2. CASE /\ selected' = [selected EXCEPT ![url] = Head(asked)]
                 /\ toDevice' = Append(toDevice, [kind |-> "ack", what |-> Head(asked)])
        <5>1. [kind |-> "ack", what |-> Head(asked)] \in Message
          BY <3>2 DEF Message
        <5>2. selected'[url'] = Head(asked)
          BY <4>1, <4>2 DEF TypeOK
        <5> QED BY <4>1, <4>2, <5>1, <5>2 DEF Tells
      <4>3. CASE selected' = selected /\ toDevice' = Append(toDevice, [kind |-> "error", what |-> None])
        <5>1. [kind |-> "error", what |-> None] \in Message
          BY DEF Message
        <5> QED BY <3>1, <4>1, <4>3, <5>1 DEF Tells
      <4> QED BY <1>3, <4>2, <4>3 DEF GatewayAnswers
    <3>4. PICK n \in Nat :
            /\ DOMAIN toDevice = 1..n /\ DOMAIN toDevice' = 1..n + 1
            /\ \A i \in DOMAIN toDevice : toDevice'[i] = toDevice[i]
            /\ toDevice'[n + 1] = m
      <4>1. PICK n \in Nat : n = Len(toDevice)
        BY LenProperties DEF TypeOK
      <4>2. DOMAIN toDevice = 1..n /\ DOMAIN toDevice' = 1..n + 1
        BY <3>3, <4>1, AppendProperties, LenProperties DEF TypeOK
      <4>3. \A i \in 1..n : toDevice'[i] = toDevice[i]
        BY <3>3, <4>1, AppendProperties DEF TypeOK
      <4>4. toDevice'[n + 1] = m
        BY <3>3, <4>1, AppendProperties DEF TypeOK
      <4> QED BY <4>2, <4>3, <4>4
    <3>5. \A j \in DOMAIN toDevice' : j # n + 1 => toDevice'[j].kind = "command"
      BY <3>1, <3>4 DEF Answerless
    <3>6. n + 1 \in DOMAIN toDevice' /\ Tells(toDevice[n + 1])'
      BY <3>3, <3>4 DEF Tells
    <3>7. UnderWay'
      BY <3>1, <3>2, <3>3, <3>5, <3>6 DEF UnderWay
    <3> QED BY <3>1, <3>3, <3>7 DEF Conversing
  <2> QED BY <2>1, <2>2 DEF TypeOK
<1>4. CASE Break
  BY <1>4 DEF Break
<1>5. CASE MuteExpires
  BY <1>5 DEF MuteExpires
<1> QED BY <1>1, <1>2, <1>3, <1>4, <1>5 DEF Environment

\* Every step keeps at most one change under way.
LEMMA ConversingNext == ASSUME TypeOK, Linked, Conversing, Next PROVE Conversing'
<1>1. CASE ListenEnds
  BY <1>1, ConversingKept DEF ListenEnds, queues, client, choice, gateway
<1> QED BY <1>1, ConversingTalks, ConversingPresses, ConversingWait, ConversingTick, ConversingListen,
           ConversingEnvironment DEF Next

\* The selection is settled at first.
LEMMA ConversingInit == Init => Conversing
BY DEF Init, Conversing, Answerless

\* Unless somebody else interferes, the app is right about what the gateway uses.
LEMMA AgreedOfConversing == Conversing => Agreed
BY DEF Conversing, Agreed

-----------------------------------------------------------------------------
(* The recording.                                                          *)

\* A chunk of what has been recorded since the last continues what was sent.
LEMMA FollowedGrows ==
  ASSUME NEW l \in Seq(Part), NEW read \in Nat, NEW seq \in Nat, NEW upto \in Nat,
         Followed(l, read, seq)
  PROVE  LET g == Append(l, Chunk(seq, read + 1, upto))
         IN g \in Seq(Part) /\ Followed(g, upto, seq + 1)
<1> DEFINE c == Chunk(seq, read + 1, upto)
           g == Append(l, c)
<1>1. c \in Part /\ c.kind = "chunk" /\ c.seq = seq /\ c.from = read + 1 /\ c.to = upto
  BY DEF Chunk, Part
<1>2. /\ g \in Seq(Part) /\ Len(g) = Len(l) + 1 /\ g[Len(l) + 1] = c
      /\ \A i \in 1..Len(l) : g[i] = l[i]
  BY <1>1, AppendProperties
<1> HIDE DEF g, c
<1>3. /\ Len(l) \in Nat \ {0} /\ seq = Len(l) - 1 /\ l[1].kind = "begin" /\ l[1] \in Part
      /\ l[Len(l)] \in Part
  BY EmptySeq, LenProperties, ElementOfSeq DEF Followed
<1>4. g[1] = l[1] /\ g # <<>>
  BY <1>2, <1>3, EmptySeq
<1>5. ASSUME NEW i \in 2..Len(g)
      PROVE  /\ g[i].kind = "chunk" /\ g[i].seq = i - 2
             /\ g[i].from = IF i = 2 THEN g[1].from ELSE g[i - 1].to + 1
  <2>1. CASE i = Len(l) + 1
    <3>1. g[i] = c /\ i - 2 = seq
      BY <1>2, <1>3, <2>1
    <3>2. CASE i = 2
      <4>1. read = l[1].from - 1 /\ l[1].from \in Nat
        BY <1>3, <2>1, <3>2 DEF Followed, Part
      <4> QED BY <1>1, <1>4, <3>1, <3>2, <4>1
    <3>3. CASE i # 2
      <4>1. read = l[Len(l)].to
        BY <1>3, <2>1, <3>3 DEF Followed
      <4>2. g[i - 1] = l[Len(l)]
        BY <1>2, <1>3, <2>1
      <4> QED BY <1>1, <3>1, <3>3, <4>1, <4>2
    <3> QED BY <3>2, <3>3
  <2>2. CASE i # Len(l) + 1
    <3>1. i \in 2..Len(l) /\ g[i] = l[i] /\ g[i - 1] = l[i - 1]
      BY <1>2, <1>3, <2>2
    <3> QED BY <1>4, <3>1 DEF Followed
  <2> QED BY <2>1, <2>2
<1>6. seq + 1 = Len(g) - 1 /\ Len(g) # 1 /\ g[Len(g)].to = upto
  BY <1>1, <1>2, <1>3
<1>7. Followed(g, upto, seq + 1)
  BY <1>3, <1>4, <1>5, <1>6 DEF Followed
<1> QED BY <1>2, <1>7 DEF g, c

\* What goes on has not ended.
LEMMA FollowedEndless ==
  ASSUME NEW l \in Seq(Part), NEW read, NEW seq, Followed(l, read, seq)
  PROVE  ~ \E i \in DOMAIN l : l[i].kind = "end"
<1>1. DOMAIN l = 1..Len(l)
  BY LenProperties
<1> QED BY <1>1 DEF Followed

\* The end after all that was read makes it whole.
LEMMA FollowedEnds ==
  ASSUME NEW l \in Seq(Part), NEW read \in Nat, NEW seq \in Nat, Followed(l, read, seq)
  PROVE  Whole(Append(l, End(read)))
<1> DEFINE e == End(read)
           g == Append(l, e)
<1>1. e \in Part /\ e.kind = "end" /\ e.to = read
  BY DEF End, Part
<1>2. Len(g) = Len(l) + 1 /\ g[Len(l) + 1] = e /\ \A i \in 1..Len(l) : g[i] = l[i]
  BY <1>1, AppendProperties
<1> HIDE DEF g, e
<1>3. Len(l) \in Nat \ {0} /\ l[1].kind = "begin"
  BY EmptySeq, LenProperties DEF Followed
<1>4. g[1] = l[1] /\ g[Len(g)] = e
  BY <1>2, <1>3
<1>5. ASSUME NEW i \in 2..Len(g) - 1
      PROVE  /\ g[i].kind = "chunk" /\ g[i].seq = i - 2
             /\ g[i].from = IF i = 2 THEN g[1].from ELSE g[i - 1].to + 1
  <2>1. i \in 2..Len(l) /\ g[i] = l[i] /\ g[i - 1] = l[i - 1]
    BY <1>2, <1>3
  <2> QED BY <1>4, <2>1 DEF Followed
<1>6. read = IF Len(g) = 2 THEN g[1].from - 1 ELSE g[Len(g) - 1].to
  <2>1. Len(l) = Len(g) - 1 /\ g[Len(g) - 1] = l[Len(l)] /\ (Len(g) = 2 <=> Len(l) = 1)
    <3>1. Len(g) - 1 = Len(l) /\ Len(l) \in 1..Len(l)
      BY <1>2, <1>3
    <3> QED BY <1>2, <1>3, <3>1
  <2> QED BY <1>4, <2>1 DEF Followed
<1>7. Whole(g)
  BY <1>1, <1>3, <1>4, <1>5, <1>6 DEF Whole
<1> QED BY <1>7 DEF g, e

\* A step that leaves the recording alone.
LEMMA SpeechKept ==
  ASSUME SpeechWhole, sent' = sent, Remember, user'.streams = user.streams
  PROVE  SpeechWhole'
BY DEF SpeechWhole, Remember

\* A step that leaves the capture and what was sent of it alone.
LEMMA FollowingKept ==
  ASSUME Following, Remember, user'.streams = user.streams, UNCHANGED <<sent, tx, confirmed>>,
         mic'.on = mic.on, mic'.read = mic.read, connected' => connected,
         at' = "finish" => at = "finish" /\ mic'.recorded = mic.recorded
  PROVE  Following'
<1> USE DEF Following
<1>1. spoilt \subseteq spoilt'
  BY DEF Remember
<1> QED BY <1>1

\* A step after which nobody follows the recording.
LEMMA FollowingOver ==
  ASSUME Following, user'.streams = user.streams, sent' = sent, tx'.stream = tx.stream,
         confirmed' \in BOOLEAN, confirmed' => confirmed, at' # "finish",
         confirmed' /\ connected' /\ mic'.on => tx'.stream \in spoilt'
  PROVE  Following'
BY DEF Following

\* The publication of what was recorded, by the tick or by the end of the recording.
LEMMA Published ==
  ASSUME TypeOK, Linked, Following, SpeechWhole, Remember, user'.streams = user.streams,
         Publish(tx.stream, Chunk(tx.seq, mic.read + 1, mic.recorded)),
         mic.on, connected, tx' = [tx EXCEPT !.seq = @ + 1], confirmed' = confirmed,
         mic'.read = mic.recorded, mic'.recorded = mic.recorded, at' = "finish" => ~mic'.on
  PROVE  Following' /\ SpeechWhole'
<1> DEFINE s == tx.stream
           c == Chunk(tx.seq, mic.read + 1, mic.recorded)
<1>1. /\ s \in 0..user.streams /\ tx.seq \in Nat /\ mic.read \in Nat /\ mic.recorded \in Nat
      /\ tx'.stream = s /\ tx'.seq = tx.seq + 1 /\ sent[s] \in Seq(Part) /\ user.streams \in Nat
  BY DEF TypeOK, Linked, Habit, Following
<1>2. c \in Part
  BY <1>1 DEF Chunk, Part
<1>3. Append(sent[s], c) \in Seq(Part) /\ Append(sent[s], c) # sent[s]
  BY <1>1, <1>2, AppendProperties, LenProperties
<1>4. spoilt \subseteq spoilt'
  BY DEF Remember
<1>5. CASE s \in spoilt
  <2>1. sent' = sent
    BY <1>5 DEF Publish
  <2>2. Following'
    BY <1>1, <1>4, <1>5, <2>1 DEF Following
  <2> QED BY <2>1, <2>2, SpeechKept
<1>6. CASE s \notin spoilt
  <2>1. sent' = [sent EXCEPT ![s] = Append(sent[s], c)]
    BY <1>6 DEF Publish
  <2>2. /\ sent' \in [0..user.streams -> Seq(Part)] /\ sent'[s] = Append(sent[s], c)
        /\ \A t \in 0..user.streams : t # s => sent'[t] = sent[t]
    BY <1>1, <1>3, <2>1 DEF Following
  <2>3. s \notin spoilt' => confirmed
    <3>1. sent' # sent
      BY <1>3, <2>2
    <3> QED BY <1>1, <3>1 DEF Remember, Following
  <2>4. confirmed => Followed(sent'[s], mic.recorded, tx.seq + 1)
    <3>1. confirmed => Followed(sent[s], mic.read, tx.seq)
      BY <1>6 DEF Following
    <3> QED BY <1>1, <2>2, <3>1, FollowedGrows
  <2> HIDE DEF c
  <2>5. Following'
    <3>1. \A t \in 1..user.streams : t > s => sent'[t] = <<>>
      BY <1>1, <2>2 DEF Following
    <3> QED BY <1>1, <2>2, <2>4, <3>1 DEF Following
  <2>6. SpeechWhole'
    <3> SUFFICES ASSUME NEW t \in 1..user.streams, t \notin spoilt',
                        \E i \in DOMAIN sent'[t] : sent'[t][i].kind = "end"
                 PROVE  Whole(sent'[t])
      BY DEF SpeechWhole
    <3>1. t # s
      BY <1>1, <2>2, <2>3, <2>4, FollowedEndless
    <3>2. sent'[t] = sent[t] /\ t \notin spoilt
      BY <1>1, <1>4, <2>2, <3>1
    <3> QED BY <3>2 DEF SpeechWhole
  <2> QED BY <2>5, <2>6
<1> QED BY <1>5, <1>6

\* The end of a recording, sent after all of it.
LEMMA Ended ==
  ASSUME TypeOK, Linked, Following, SpeechWhole, Remember, user'.streams = user.streams,
         Publish(tx.stream, End(mic.recorded)), at = "finish", connected,
         tx'.stream = tx.stream, confirmed' = FALSE, at' = "input"
  PROVE  Following' /\ SpeechWhole'
<1> DEFINE s == tx.stream
           e == End(mic.recorded)
<1>1. /\ s \in 0..user.streams /\ tx.seq \in Nat /\ mic.read \in Nat /\ mic.recorded \in Nat
      /\ sent[s] \in Seq(Part) /\ user.streams \in Nat /\ mic.read = mic.recorded
  BY DEF TypeOK, Linked, Habit, Following
<1>2. e \in Part
  BY <1>1 DEF End, Part
<1>3. Append(sent[s], e) \in Seq(Part) /\ Append(sent[s], e) # sent[s]
  BY <1>1, <1>2, AppendProperties, LenProperties
<1>4. spoilt \subseteq spoilt'
  BY DEF Remember
<1>5. CASE s \in spoilt
  <2>1. sent' = sent
    BY <1>5 DEF Publish
  <2> QED BY <2>1, SpeechKept, FollowingOver
<1>6. CASE s \notin spoilt
  <2>1. sent' = [sent EXCEPT ![s] = Append(sent[s], e)]
    BY <1>6 DEF Publish
  <2>2. /\ sent' \in [0..user.streams -> Seq(Part)] /\ sent'[s] = Append(sent[s], e)
        /\ \A t \in 0..user.streams : t # s => sent'[t] = sent[t]
    BY <1>1, <1>3, <2>1 DEF Following
  <2>3. s \notin spoilt' => confirmed
    <3>1. sent' # sent
      BY <1>3, <2>2
    <3> QED BY <3>1 DEF Remember, Following
  <2>4. confirmed => Whole(sent'[s])
    <3>1. confirmed => Followed(sent[s], mic.recorded, tx.seq)
      BY <1>1, <1>6 DEF Following
    <3> QED BY <1>1, <2>2, <3>1, FollowedEnds
  <2> HIDE DEF e
  <2>5. Following'
    <3>1. \A t \in 1..user.streams : t > s => sent'[t] = <<>>
      BY <1>1, <2>2 DEF Following
    <3> QED BY <2>2, <3>1 DEF Following
  <2>6. SpeechWhole'
    <3> SUFFICES ASSUME NEW t \in 1..user.streams, t \notin spoilt',
                        \E i \in DOMAIN sent'[t] : sent'[t][i].kind = "end"
                 PROVE  Whole(sent'[t])
      BY DEF SpeechWhole
    <3>1. CASE t = s
      BY <2>3, <2>4, <3>1
    <3>2. CASE t # s
      <4>1. sent'[t] = sent[t] /\ t \notin spoilt
        BY <1>1, <1>4, <2>2, <3>2
      <4> QED BY <4>1 DEF SpeechWhole
    <3> QED BY <3>1, <3>2
  <2> QED BY <2>5, <2>6
<1> QED BY <1>5, <1>6

\* A new recording: the promoted capture, with what it holds so far.
LEMMA Begun ==
  ASSUME TypeOK, Linked, Following, SpeechWhole, Remember, user'.streams = user.streams,
         Started, at = "input"
  PROVE  Following' /\ SpeechWhole'
<1> DEFINE id == tx.stream + 1
           now == IF mic.on THEN mic ELSE [Silent EXCEPT !.on = TRUE]
           first == <<Begin(now.read + 1)>>
           more == Append(first, Chunk(0, now.read + 1, now.recorded))
<1>1. /\ id \in 1..user.streams /\ id \in 0..user.streams /\ tx.stream \in Nat /\ user.streams \in Nat
      /\ now.read \in Nat /\ now.recorded \in Nat
  BY SMTT(30) DEF TypeOK, Linked, Habit, Silent, Started
<1>2. /\ confirmed' = TRUE /\ mic'.read = now.recorded /\ at' # "finish"
      /\ tx'.stream = id
      /\ \/ now.recorded = now.read /\ tx'.seq = 0 /\ sent' = [sent EXCEPT ![id] = first]
         \/ tx'.seq = 1 /\ sent' = [sent EXCEPT ![id] = more]
         \/ connected' = FALSE /\ sent' = [sent EXCEPT ![id] = first]
  <2>1. id \in DOMAIN sent
    BY <1>1 DEF Following
  <2>2. mic' = [now EXCEPT !.read = now.recorded] /\ mic'.read = now.recorded
    BY <1>1 DEF Started, Silent, TypeOK
  <2>3. ASSUME NEW c PROVE [[sent EXCEPT ![id] = first] EXCEPT ![id] = Append(@, c)]
                              = [sent EXCEPT ![id] = Append(first, c)]
    BY <2>1
  <2>4. /\ confirmed' = TRUE
        /\ \/ /\ now.recorded = now.read /\ at' = at
              /\ tx' = [stream |-> id, seq |-> 0] /\ sent' = [sent EXCEPT ![id] = first]
           \/ /\ at' = at /\ tx' = [stream |-> id, seq |-> 1]
              /\ sent' = [[sent EXCEPT ![id] = first]
                             EXCEPT ![id] = Append(@, Chunk(0, now.read + 1, now.recorded))]
           \/ /\ SendRaises
              /\ tx' = [stream |-> id, seq |-> 0] /\ sent' = [sent EXCEPT ![id] = first]
    BY ZenonT(30) DEF Started
  <2>5. SendRaises => connected' = FALSE /\ at' = "input"
    BY DEF SendRaises, Raise, Goes
  <2> HIDE DEF now, first
  <2> QED BY <2>2, <2>3, <2>4, <2>5
<1> HIDE DEF now
<1>3. first \in Seq(Part) /\ Followed(first, now.read, 0)
  <2>1. Begin(now.read + 1) \in Part /\ Begin(now.read + 1).kind = "begin" /\ Begin(now.read + 1).from = now.read + 1
    BY <1>1 DEF Begin, Part
  <2>2. first \in Seq(Part) /\ Len(first) = 1 /\ first[1] = Begin(now.read + 1) /\ first # <<>>
    BY <2>1
  <2> QED BY <1>1, <2>1, <2>2 DEF Followed
<1>4. more \in Seq(Part) /\ Followed(more, now.recorded, 1)
  <2>1. 0 \in Nat /\ 0 + 1 = 1
    OBVIOUS
  <2> QED BY ONLY <1>1, <1>3, <2>1, FollowedGrows
<1> HIDE DEF first, more
<1>5. PICK l \in Seq(Part) :
        /\ sent' = [sent EXCEPT ![id] = l]
        /\ \E r, q : Followed(l, r, q)
        /\ connected' => Followed(l, now.recorded, tx'.seq)
  BY <1>2, <1>3, <1>4
<1>6. /\ sent' \in [0..user.streams -> Seq(Part)] /\ sent'[id] = l
      /\ \A t \in 0..user.streams : t # id => sent'[t] = sent[t]
  BY <1>1, <1>5 DEF Following
<1>7. \A t \in 1..user.streams : t > id => sent'[t] = <<>>
  BY SMTT(30), <1>1, <1>6 DEF Following
<1>8. Following'
  BY <1>1, <1>2, <1>5, <1>6, <1>7 DEF Following
<1>9. SpeechWhole'
  <2> SUFFICES ASSUME NEW t \in 1..user.streams, t \notin spoilt',
                      \E i \in DOMAIN sent'[t] : sent'[t][i].kind = "end"
               PROVE  Whole(sent'[t])
    BY DEF SpeechWhole
  <2>1. t # id
    BY <1>5, <1>6, FollowedEndless
  <2>2. sent'[t] = sent[t] /\ t \notin spoilt
    BY <1>6, <2>1 DEF Remember
  <2> QED BY <2>2 DEF SpeechWhole
<1> QED BY <1>8, <1>9

\* The end of a capture: what is left of it is sent, or nothing is, or the link is gone.
LEMMA Stopped ==
  ASSUME TypeOK, Linked, Following, SpeechWhole, Remember, user'.streams = user.streams,
         NEW why, StopRecording(why), confirmed' = confirmed
  PROVE  Following' /\ SpeechWhole'
<1>1. mic' = [mic EXCEPT !.on = FALSE, !.read = mic.recorded] /\ mic.on
  BY DEF StopRecording
<1>2. mic'.on = FALSE /\ mic'.read = mic.recorded /\ mic'.recorded = mic.recorded
  BY <1>1 DEF TypeOK
<1>3. CASE /\ mic.recorded = mic.read \/ ~connected
           /\ UNCHANGED <<tx, sent, connected>>
  <2>1. spoilt \subseteq spoilt'
    BY DEF Remember
  <2>2. Following'
    BY <1>1, <1>2, <1>3, <2>1 DEF Following
  <2> QED BY <1>3, <2>2, SpeechKept
<1>4. CASE /\ connected
           /\ Publish(tx.stream, Chunk(tx.seq, mic.read + 1, mic.recorded))
           /\ tx' = [tx EXCEPT !.seq = @ + 1]
  BY <1>1, <1>2, <1>4, Published
<1>5. CASE connected /\ SendRaises /\ UNCHANGED <<tx, sent>>
  BY <1>2, <1>5, FollowingOver, SpeechKept DEF SendRaises, Raise, Goes, Following
<1> QED BY <1>3, <1>4, <1>5 DEF StopRecording

\* The X button starts, feeds and stops what is followed.
LEMMA SpeechTalks ==
  ASSUME TypeOK, Linked, Following, SpeechWhole, Remember, user'.streams = user.streams, Talks
  PROVE  Following' /\ SpeechWhole'
<1> USE SpeechKept
<1>1. CASE PressX
  <2>1. CASE mic' = mic /\ confirmed' = confirmed
    BY <1>1, <2>1, FollowingKept DEF PressX, socket
  <2>2. CASE confirmed' = FALSE
    BY <1>1, <2>2, FollowingOver DEF PressX
  <2> QED BY <1>1, <2>1, <2>2 DEF PressX, MicOn
<1>2. CASE LongPressX
  <2>1. CASE Started
    BY <1>2, <2>1, Begun DEF LongPressX
  <2>2. CASE UNCHANGED <<at, mic, tx, sent, confirmed, connected>>
    BY <2>2, FollowingKept
  <2> QED BY <1>2, <2>1, <2>2 DEF LongPressX, NotStarted, capture
<1>3. CASE ReleaseX
  <2>1. CASE StopRecording("release") /\ confirmed' = confirmed
    BY <2>1, Stopped
  <2>2. CASE MicOff /\ at' = at /\ UNCHANGED <<tx, sent>>
    BY <1>3, <2>2, FollowingOver DEF ReleaseX, MicOff
  <2> QED BY <1>3, <2>1, <2>2 DEF ReleaseX
<1>4. CASE MissRelease
  BY <1>4, FollowingKept DEF MissRelease, capture, socket
<1>5. CASE Cancel
  <2>1. tx'.stream = tx.stream /\ confirmed' = FALSE /\ sent' = sent /\ at' # "finish"
    BY <1>5 DEF Cancel, MicOff, TypeOK
  <2> QED BY <2>1, FollowingOver
<1>6. CASE Speak
  <2>1. mic'.on = mic.on /\ mic'.read = mic.read /\ at # "finish" /\ at' = at
    BY <1>6 DEF Speak, TypeOK, Following
  <2> QED BY <1>6, <2>1, FollowingKept DEF Speak, socket
<1> QED BY <1>1, <1>2, <1>3, <1>4, <1>5, <1>6 DEF Talks

\* The other buttons leave the recording alone, or end the app.
LEMMA SpeechPresses ==
  ASSUME TypeOK, Following, SpeechWhole, Remember, user'.streams = user.streams, Presses
  PROVE  Following' /\ SpeechWhole'
<1> USE SpeechKept, FollowingKept DEF capture, socket
<1>1. CASE Navigate \/ ToggleMute \/ SendPrompt
  BY <1>1 DEF Navigate, ToggleMute, SendPrompt
<1>2. CASE Quit
  BY <1>2, FollowingOver DEF Quit, MicOff, Goes
<1>3. CASE Retry
  BY <1>3 DEF Retry, Disconnect, Goes
<1>4. ASSUME NEW c \in Conversation, ChangeConversation(c) PROVE Following' /\ SpeechWhole'
  BY <1>4 DEF ChangeConversation, Disconnect, Goes
<1>5. ASSUME NEW u \in Url, ChangeGateway(u) PROVE Following' /\ SpeechWhole'
  BY <1>5 DEF ChangeGateway, Disconnect, Goes
<1> QED BY <1>1, <1>2, <1>3, <1>4, <1>5 DEF Presses

\* A new connection finds the screen elsewhere: a recording that went on is lost.
LEMMA SpeechWait ==
  ASSUME TypeOK, Following, SpeechWhole, Remember, user'.streams = user.streams, Wait
  PROVE  Following' /\ SpeechWhole'
<1> USE SpeechKept DEF capture, socket, Goes
<1>1. CASE Replied \/ ReplyTimeout \/ ConnectFails
  BY <1>1, FollowingKept DEF Replied, ReplyTimeout, ConnectFails, Disconnect
<1>2. CASE ConnectSucceeds
  <2>1. /\ UNCHANGED <<mic, tx, sent, confirmed>> /\ at' # "finish" /\ ui' # "recording"
    BY <1>2 DEF ConnectSucceeds
  <2>2. confirmed' /\ mic'.on => tx'.stream \in spoilt'
    BY <2>1 DEF Remember
  <2> QED BY <2>1, <2>2, FollowingOver DEF Following
<1> QED BY <1>1, <1>2 DEF Wait

\* The tick sends what was recorded, or stops it.
LEMMA SpeechTick ==
  ASSUME TypeOK, Linked, Following, SpeechWhole, Remember, user'.streams = user.streams, Tick
  PROVE  Following' /\ SpeechWhole'
<1> USE SpeechKept DEF capture, socket, Goes
<1>1. CASE EndInput \/ HandleCommand \/ Check \/ NoReport \/ NotOverdue
  BY <1>1, FollowingKept DEF EndInput, HandleCommand, Check, NoReport, NotOverdue, Raise
<1>2. CASE Report
  BY <1>2, FollowingKept DEF Report, SendRaises, Raise
<1>3. CASE Stream
  <2>1. /\ mic' = [mic EXCEPT !.read = IF mic.on THEN mic.recorded ELSE @]
        /\ confirmed' = confirmed /\ at' # "finish"
    BY <1>3 DEF Stream, SendRaises, Raise
  <2>2. mic'.on = mic.on /\ mic'.read = (IF mic.on THEN mic.recorded ELSE mic.read) /\ mic'.recorded = mic.recorded
    BY <2>1 DEF TypeOK
  <2>3. CASE /\ ~(mic.on /\ mic.recorded > mic.read /\ connected /\ ui = "recording")
             /\ UNCHANGED <<ui, connected, tx, sent>>
    <3>1. CASE ~mic.on \/ ~connected
      BY <2>1, <2>2, <2>3, <3>1, FollowingOver DEF Following
    <3>2. CASE mic.on /\ mic.recorded <= mic.read
      <4>1. mic'.read = mic.read
        BY <2>2, <3>2 DEF TypeOK
      <4> QED BY <2>1, <2>2, <2>3, <4>1, FollowingKept
    <3>3. CASE mic.on /\ ui # "recording"
      <4>1. confirmed' => tx'.stream \in spoilt'
        BY <2>2, <2>3, <3>3 DEF Remember
      <4> QED BY <2>1, <2>3, <4>1, FollowingOver DEF Following
    <3> QED BY <2>3, <3>1, <3>2, <3>3 DEF TypeOK
  <2>4. CASE /\ mic.on /\ connected
             /\ Publish(tx.stream, Chunk(tx.seq, mic.read + 1, mic.recorded))
             /\ tx' = [tx EXCEPT !.seq = @ + 1]
    BY <2>1, <2>2, <2>4, Published
  <2>5. CASE SendRaises /\ UNCHANGED <<tx, sent>>
    BY <2>1, <2>5, FollowingOver DEF SendRaises, Following
  <2> QED BY <1>3, <2>3, <2>4, <2>5 DEF Stream
<1>4. CASE StopOverdue
  BY <1>4, Stopped DEF StopOverdue
<1>5. CASE Finish
  <2>1. confirmed' = FALSE /\ at' = "input"
    BY <1>5 DEF Finish, MicOff, SendRaises, Raise
  <2>2. tx'.stream = tx.stream
    BY <1>5 DEF Finish, TypeOK
  <2>3. CASE connected /\ Publish(tx.stream, End(mic.recorded))
    BY <1>5, <2>1, <2>2, <2>3, Ended DEF Finish
  <2>4. CASE sent' = sent
    BY <2>1, <2>2, <2>4, FollowingOver
  <2> QED BY <1>5, <2>3, <2>4 DEF Finish
<1> QED BY <1>1, <1>2, <1>3, <1>4, <1>5 DEF Tick

\* Every step keeps what is followed, and what has ended whole.
LEMMA SpeechNext ==
  ASSUME TypeOK, Linked, Following, SpeechWhole, Next
  PROVE  Following' /\ SpeechWhole'
<1>1. Remember /\ user'.streams = user.streams
  BY UserKept DEF Next
<1>2. CASE Listen \/ ListenEnds
  <2>1. UNCHANGED <<at, mic, tx, sent, confirmed>>
    BY <1>2 DEF Listen, ListenEnds, capture
  <2>2. connected' = connected \/ connected' = (connected /\ link # "broken")
    BY <1>2 DEF Listen, ListenEnds
  <2>3. connected' => connected
    BY <2>2 DEF TypeOK
  <2> QED BY <1>1, <2>1, <2>3, SpeechKept, FollowingKept
<1>3. CASE Environment
  <2>1. UNCHANGED <<at, mic, tx, sent, confirmed, connected>>
    BY <1>3 DEF Environment, GatewayCommands, OthersSwitch, GatewayAnswers, Break, MuteExpires, capture, socket
  <2> QED BY <1>1, <2>1, SpeechKept, FollowingKept
<1> QED BY <1>1, <1>2, <1>3, SpeechTalks, SpeechPresses, SpeechWait, SpeechTick DEF Next

\* Nothing has been recorded at first.
LEMMA SpeechInit == Init => Following /\ SpeechWhole
<1> SUFFICES ASSUME Init PROVE Following /\ SpeechWhole
  OBVIOUS
<1>1. user.streams \in Nat
  BY UserAssumption DEF Init, Habit
<1>2. sent = [s \in 0..user.streams |-> <<>>] /\ <<>> \in Seq(Part)
  BY Emptied DEF Init
<1>3. Following
  <2>1. sent \in [0..user.streams -> Seq(Part)] /\ \A s \in 1..user.streams : sent[s] = <<>>
    BY <1>1, <1>2
  <2>2. confirmed = FALSE /\ at = "input"
    BY DEF Init
  <2> QED BY <2>1, <2>2 DEF Following
<1>4. SpeechWhole
  BY <1>1, <1>2 DEF SpeechWhole
<1> QED BY <1>3, <1>4

-----------------------------------------------------------------------------
(* What holds of every handheld.                                           *)

\* The inductive invariant, whose parts say why the two properties hold: types, links,
\* the one change under way, and the recording that is followed up to its end.
THEOREM Inductive == Spec => []IndInv
<1>1. Init => IndInv
  BY TypeInit, ConversingInit, SpeechInit DEF IndInv
<1>2. IndInv /\ [Next]_vars => IndInv'
  <2> USE DEF IndInv
  <2>1. ASSUME IndInv, Next PROVE IndInv'
    <3>1. TypeOK' /\ Linked'
      BY <2>1, TypeTalks, TypePresses, TypeWait, TypeTick, TypeListens, TypeEnvironment DEF Next
    <3> QED BY <2>1, <3>1, ConversingNext, SpeechNext
  <2>2. ASSUME IndInv, UNCHANGED vars PROVE IndInv'
    <3> USE <2>2 DEF vars, screen, button, capture, socket, queues, client, choice, gateway
    <3>1. TypeOK'  BY DEF TypeOK
    <3>2. Linked'  BY DEF Linked
    <3>3. Conversing'  BY ConversingKept
    <3>4. Following'  BY DEF Following
    <3>5. SpeechWhole'  BY DEF SpeechWhole
    <3> QED BY <3>1, <3>2, <3>3, <3>4, <3>5
  <2> QED BY <2>1, <2>2
<1> QED BY <1>1, <1>2, PTL DEF Spec

\* Every variable has its type, and the app agrees with the gateway it is connected to
\* on the selection, after every update, refusal, timeout, change of gateway and
\* reconnection, whatever the user does and however the messages interleave.
THEOREM AppAgrees == Spec => []AppInv
<1>1. IndInv => AppInv
  BY AgreedOfConversing DEF IndInv, AppInv
<1> QED BY <1>1, Inductive, PTL

\* A recording that reaches its end, that the screen did not leave while the microphone
\* was on and that was promoted to one, has reached the gateway whole: begun, its chunks
\* numbered from 0, each taking up where the last ended, up to the last piece recorded
\* (_stream_recorded_audio and the end of a recording in app.py).
THEOREM RecordingsWhole == Spec => []SpeechWhole
<1>1. IndInv => SpeechWhole
  BY DEF IndInv
<1> QED BY <1>1, Inductive, PTL

=============================================================================
