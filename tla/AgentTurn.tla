------------------------------ MODULE AgentTurn ------------------------------
(***************************************************************************)
(* One question of a device, from the event that asks it to the answer on  *)
(* its screen, in its loudspeaker and in the gateway's list of transcripts:*)
(* ChannelService (channel/service.py), the agent backends it drives       *)
(* (channel/*_backend.py), TextDeliveryPipeline (text/delivery.py), the    *)
(* segmenter of AudioDeliveryPipeline (audio/delivery.py) and the records  *)
(* of the HTTP API (api/__init__.py).                                      *)
(*                                                                         *)
(* A text is a sequence of words; a word is a turn and a position in its   *)
(* reply, so that every word says where it comes from.  The event bus is   *)
(* synchronous: what an event of an agent makes a backend yield reaches    *)
(* every subscriber in the same step.                                      *)
(***************************************************************************)
EXTENDS Devices, Lists, SequencesExt, FiniteSetsExt

CONSTANTS
  Turn,          \* the questions asked
  DeviceOf,      \* turn -> the device that asks
  KeyOf,         \* turn -> stream_id of a recording, correlation_id of a prompt
  Spoken,        \* the turns that are recordings, the others are typed
  Backend,       \* the backends of the catalog
  ReplyLen,      \* turn -> words in the agent's whole reply
  Stop,          \* the words after which the segmenter finds a boundary
  None,
  MaxRecords,    \* _transcripts keeps this many (100 in the code)
  MaxAsked,      \* bound: questions asked
  MaxIdle,       \* bound: events without text the agents send
  MaxFaults      \* bound: agents that fail and commands that time out

Key == {KeyOf[t] : t \in Turn}
WordsOf(t) == {<<t, i>> : i \in 1..ReplyLen[t]}
Word == UNION {WordsOf(t) : t \in Turn}
BackendName == {"pi", "stub", "openclaw", "hermes", "piclaw", "cli"}

ASSUME TurnAssumption ==
  /\ DeviceOf \in [Turn -> Device]
  /\ ReplyLen \in [Turn -> Nat \ {0}]
  /\ Spoken \subseteq Turn
  /\ \A t \in Spoken : \A u \in Turn \ {t} : KeyOf[t] # KeyOf[u]
  /\ None \notin Turn
ASSUME BackendAssumption == Backend \subseteq BackendName
ASSUME BoundAssumption == MaxRecords \in Nat \ {0} /\ MaxAsked \in Nat /\ MaxIdle \in Nat /\ MaxFaults \in Nat

VARIABLES
  stage,     \* where the handler of a turn is
  conversation, \* device -> the backend its conversation names
  said,      \* turn -> words of its reply the agent has sent
  idle,      \* events without text so far
  gen,       \* turn -> locals of the backend's generator
  reply,     \* turn -> last_text of _handle_streaming_request
  working,   \* turns whose last_progress_text is set
  pending,   \* device -> text deliveries that wait for its lock
  counter,   \* TextDeliveryPipeline._sequence_counters
  buffer,    \* _stream_states: device and key -> words not yet spoken
  open,      \* the keys of _stream_states
  records,   \* GatewayAPI._transcripts
  issued,    \* history: turn -> words sent to its screen
  shown,     \* history: turn -> words of them that got there
  expected,  \* device -> the number that follows the last one it received
  missed,    \* history: devices that received nothing since a command was lost
  spoken,    \* history: device and key -> words handed to the speech pipeline
  reached,   \* history: turns of which a card or words got to the device
  dropped,   \* history: turns of which a card or words did not
  faults     \* agents that failed and commands that timed out

screen == <<pending, counter, issued, shown, expected, missed>>
speech == <<buffer, open, spoken>>
vars == <<stage, conversation, said, idle, gen, reply, working, screen, speech, records, reached, dropped, faults>>

Reply(t, n) == [i \in 1..n |-> <<t, i>>]

Chunk(text, final) == [text |-> text, final |-> final, progress |-> FALSE]
Working == [text |-> <<>>, final |-> FALSE, progress |-> TRUE]
Fresh == [sent |-> <<>>, text |-> <<>>, told |-> FALSE]

Stage == {"new", "running", "erring", "carding", "answered", "failed", "crashed"}
Gen == [sent : Seq(Word), text : Seq(Word), told : BOOLEAN]
ChunkType == [text : Seq(Word), final : BOOLEAN, progress : BOOLEAN]
Message == [turn : Turn, text : Seq(Word), final : BOOLEAN, progress : BOOLEAN]
RecordType == [device : Device, key : Key, heard : Turn \cup {None}, by : Turn \cup {None}, text : Seq(Word)]

TypeOK ==
  /\ stage \in [Turn -> Stage]
  /\ conversation \in [Device -> Backend]
  /\ said \in [Turn -> Nat] /\ \A t \in Turn : said[t] <= ReplyLen[t]
  /\ idle \in 0..MaxIdle
  /\ gen \in [Turn -> Gen]
  /\ reply \in [Turn -> Seq(Word)]
  /\ working \subseteq Turn
  /\ pending \in [Device -> Seq(Message)]
  /\ counter \in [Device -> Nat] /\ expected \in [Device -> Nat] /\ missed \subseteq Device
  /\ issued \in [Turn -> Seq(Word)] /\ shown \in [Turn -> Seq(Word)]
  /\ buffer \in [Device \X Key -> Seq(Word)] /\ spoken \in [Device \X Key -> Seq(Word)]
  /\ open \subseteq Device \X Key
  /\ records \in Seq(RecordType)
  /\ faults \in 0..MaxFaults

Init ==
  /\ stage = [t \in Turn |-> "new"]
  /\ conversation \in [Device -> Backend]
  /\ said = [t \in Turn |-> 0]
  /\ idle = 0
  /\ gen = [t \in Turn |-> Fresh]
  /\ reply = [t \in Turn |-> <<>>]
  /\ working = {}
  /\ pending = [d \in Device |-> <<>>]
  /\ counter = [d \in Device |-> 0]
  /\ buffer = [k \in Device \X Key |-> <<>>]
  /\ open = {}
  /\ records = <<>>
  /\ issued = [t \in Turn |-> <<>>]
  /\ shown = [t \in Turn |-> <<>>]
  /\ expected = [d \in Device |-> 0]
  /\ missed = {}
  /\ spoken = [k \in Device \X Key |-> <<>>]
  /\ reached = {}
  /\ dropped = {}
  /\ faults = 0

-----------------------------------------------------------------------------
(* The backends: what one event of the agent makes a generator yield.      *)

\* Mutant: the prefix that was sent is not taken off.
RemainingWhole(done, text) == text

\* What is left of a text of which a prefix was sent; a text that does not go
\* on from there is taken whole.
Remaining(done, text) ==
  IF IsPrefix(done, text) THEN SubSeq(text, Len(done) + 1, Len(text)) ELSE text

\* A text that goes on from what was sent, or is added to it.
Extended(done, text) == IF IsPrefix(done, text) THEN text ELSE done \o text

Yield(g, chunks, end) == [gen |-> g, chunks |-> chunks, end |-> end]
NonEmpty(text, final) == IF text = <<>> THEN <<>> ELSE <<Chunk(text, final)>>

\* An event of the subprocess: a delta, the message so far, the last message
\* with or without its text, a note on progress, or the end of its output.
PiStep(g, e) ==
  CASE e.kind = "delta" ->
         Yield([g EXCEPT !.sent = Extended(g.sent, e.text), !.text = Extended(g.sent, e.text)],
               NonEmpty(Remaining(g.sent, e.text), FALSE), "on")
    [] e.kind = "snapshot" ->
         Yield([g EXCEPT !.sent = e.text, !.text = e.text], NonEmpty(Remaining(g.sent, e.text), FALSE), "on")
    [] e.kind = "end" ->
         Yield([sent |-> e.text, text |-> e.text, told |-> TRUE],
               Append(NonEmpty(Remaining(g.sent, e.text), TRUE), Chunk(<<>>, TRUE)), "done")
    [] e.kind = "blank end" ->
         IF g.sent # <<>>
         THEN Yield([g EXCEPT !.told = TRUE], <<Chunk(<<>>, TRUE)>>, "done")
         ELSE Yield(g, <<>>, "on")
    [] e.kind = "progress" -> Yield(g, <<Working>>, "on")
    [] e.kind = "eof" -> Yield(g, NonEmpty(g.text, TRUE), "done")

\* A frame of the OpenClaw gateway.  An event frame that adds no text is taken
\* for the response, whose type it has not.
OpenClawStep(g, e) ==
  CASE e.kind \in {"delta", "snapshot"} ->
         LET d == Remaining(g.sent, e.text) IN
         IF d = <<>> THEN Yield(g, <<>>, "fail")
         ELSE Yield([g EXCEPT !.sent = @ \o d], <<Chunk(d, FALSE)>>, "on")
    [] e.kind = "progress" -> Yield(g, <<>>, "fail")
    [] e.kind = "accepted" -> Yield(g, <<>>, "on")
    [] e.kind = "end" -> Yield(g, NonEmpty(Remaining(g.sent, e.text), TRUE), "done")

\* A server-sent event of Hermes, and the end of the stream.
HermesStep(g, e) ==
  CASE e.kind = "delta" -> Yield([g EXCEPT !.told = TRUE], <<Chunk(e.text, FALSE)>>, "on")
    [] e.kind = "blank end" -> Yield(g, <<Chunk(<<>>, TRUE)>>, "on")
    [] e.kind = "eof" -> Yield(g, IF g.told THEN <<Chunk(<<>>, TRUE)>> ELSE <<>>, "done")

\* A server-sent event of PiClaw; side_prompt_done does not end the stream.
PiClawStep(g, e) ==
  CASE e.kind = "delta" ->
         Yield([g EXCEPT !.sent = @ \o e.text, !.told = TRUE], <<Chunk(e.text, FALSE)>>, "on")
    [] e.kind = "progress" -> Yield(g, <<Working>>, "on")
    [] e.kind = "end" ->
         LET d == Remaining(g.sent, e.text) IN
         Yield([g EXCEPT !.sent = @ \o d, !.told = @ \/ d # <<>>], <<Chunk(d, TRUE)>>, "on")
    [] e.kind = "eof" -> Yield(g, IF g.told THEN <<Chunk(<<>>, TRUE)>> ELSE <<>>, "done")

StubStep(g, e) == Yield(g, <<Chunk(e.text, TRUE)>>, "done")

\* A program that is run to its end: no chunk, the text is the response.
CliStep(g, e) == Yield([g EXCEPT !.text = e.text], <<>>, "done")

Streams(b) == b # "cli"

BackendStep(b, g, e) ==
  IF e.kind \in {"fail", "crash"} THEN Yield(g, <<>>, e.kind)
  ELSE CASE b = "pi" -> PiStep(g, e)
         [] b = "openclaw" -> OpenClawStep(g, e)
         [] b = "hermes" -> HermesStep(g, e)
         [] b = "piclaw" -> PiClawStep(g, e)
         [] b = "stub" -> StubStep(g, e)
         [] b = "cli" -> CliStep(g, e)

\* What the agent behind a backend may send: it says its reply once and in
\* order.  An error that is an AgentBackendError is "fail", another a "crash".
Kinds(b) ==
  {"fail", "crash"} \cup
  CASE b = "pi" -> {"delta", "snapshot", "end", "blank end", "progress", "eof"}
    [] b = "openclaw" -> {"delta", "snapshot", "progress", "accepted", "end"}
    [] b = "hermes" -> {"delta", "blank end", "eof"}
    [] b = "piclaw" -> {"delta", "progress", "end", "eof"}
    [] OTHER -> {"end"}

BackendFor(t) == conversation[DeviceOf[t]]

\* After the event the agent has said n words.
Possible(t, kind, n) ==
  CASE kind = "delta" -> n = said[t] + 1
    [] kind = "snapshot" -> n > said[t]
    [] kind = "end" -> n = ReplyLen[t]
    [] OTHER -> n = said[t]

Event(t, kind, n) ==
  [kind |-> kind, text |-> IF kind = "delta" THEN <<<<t, n>>>> ELSE Reply(t, n)]

-----------------------------------------------------------------------------
(* The subscribers of the event bus.                                        *)

\* ChannelService: what it keeps as the answer.  A final text replaces.
Accumulate(text, c) ==
  IF c.text = <<>> THEN text ELSE IF c.final THEN c.text ELSE text \o c.text

\* AudioDeliveryPipeline: words up to the last boundary, all of them at the end.
Boundary(text) ==
  CHOOSE i \in 0..Len(text) :
    (i > 0 => text[i] \in Stop) /\ \A j \in (i + 1)..Len(text) : text[j] \notin Stop
\* Mutant: the end of a stream drops the rest.
PushDrops(s, c) ==
  LET text  == s.buffer \o c.text
      ready == Boundary(text)
  IN [buffer |-> IF c.final THEN <<>> ELSE SubSeq(text, ready + 1, Len(text)),
      spoken |-> s.spoken \o SubSeq(text, 1, ready),
      open   |-> ~c.final]

Push(s, c) ==
  LET text  == s.buffer \o c.text
      ready == IF c.final THEN Len(text) ELSE Boundary(text)
  IN [buffer |-> SubSeq(text, ready + 1, Len(text)),
      spoken |-> s.spoken \o SubSeq(text, 1, ready),
      open   |-> ~c.final]

Stream(t) == <<DeviceOf[t], KeyOf[t]>>
Speech(t) == [buffer |-> buffer[Stream(t)], spoken |-> spoken[Stream(t)], open |-> Stream(t) \in open]

Speaks(t, s) ==
  /\ buffer' = [buffer EXCEPT ![Stream(t)] = s.buffer]
  /\ spoken' = [spoken EXCEPT ![Stream(t)] = s.spoken]
  /\ open' = IF s.open THEN open \cup {Stream(t)} ELSE open \ {Stream(t)}

\* What a subscriber makes of the chunks of one event, of which there are two
\* at most.
Each(Step(_, _), state, chunks) ==
  CASE Len(chunks) = 0 -> state
    [] Len(chunks) = 1 -> Step(state, chunks[1])
    [] Len(chunks) = 2 -> Step(Step(state, chunks[1]), chunks[2])

\* A note on progress comes alone; every other chunk is a delta.
Deltas(chunks) == IF chunks = <<Working>> THEN <<>> ELSE chunks

\* TextDeliveryPipeline: a task for every delta, and for a note on progress
\* that is not the one before.
Deliveries(t, chunks) ==
  LET new == IF t \in working THEN Deltas(chunks) ELSE chunks
  IN [i \in DOMAIN new |->
        [turn |-> t, text |-> new[i].text, final |-> new[i].final, progress |-> new[i].progress]]

\* Mutant: the answer goes to the same device whoever asked.
QueuesForeground(t, chunks) ==
  /\ working' = IF chunks = <<Working>> THEN working \cup {t} ELSE working
  /\ pending' = [pending EXCEPT ![CHOOSE d \in Device : TRUE] = @ \o Deliveries(t, chunks)]

Queues(t, chunks) ==
  /\ working' = IF chunks = <<Working>> THEN working \cup {t} ELSE working
  /\ pending' = [pending EXCEPT ![DeviceOf[t]] = @ \o Deliveries(t, chunks)]

Hears(t, chunks) ==
  /\ reply' = [reply EXCEPT ![t] = Each(Accumulate, @, Deltas(chunks))]
  /\ Queues(t, chunks)
  /\ Speaks(t, Each(Push, Speech(t), Deltas(chunks)))

\* GatewayAPI: the record of a conversation, and the answer put into the last
\* one that matches.  Only a transcript makes room.
Record(t, heard, by, text) ==
  [device |-> DeviceOf[t], key |-> KeyOf[t], heard |-> heard, by |-> by, text |-> text]

Transcribed(t) ==
  LET all == Append(records, Record(t, t, None, <<>>))
  IN SubSeq(all, Len(all) - Min({MaxRecords, Len(all)}) + 1, Len(all))

\* Mutant: the last record of the device.
MatchingDevice(t) == {i \in DOMAIN records : records[i].device = DeviceOf[t]}

Matching(t) == {i \in DOMAIN records : records[i].device = DeviceOf[t] /\ records[i].key = KeyOf[t]}

Answered(t, text) ==
  IF text = <<>> THEN records
  ELSE IF Matching(t) # {}
       THEN [records EXCEPT ![Max(Matching(t))] = [@ EXCEPT !.by = t, !.text = text]]
       ELSE Append(records, Record(t, IF t \in Spoken THEN t ELSE None, t, text))

-----------------------------------------------------------------------------
(* The handlers.                                                            *)

\* A transcript or a text.prompt event starts the handler of its turn.
Ask(t) ==
  /\ stage[t] = "new"
  /\ Cardinality({u \in Turn : stage[u] # "new"}) < MaxAsked
  /\ stage' = [stage EXCEPT ![t] = "running"]
  /\ records' = IF t \in Spoken THEN Transcribed(t) ELSE records
  /\ UNCHANGED <<conversation, said, idle, gen, reply, working, screen, speech, faults, reached, dropped>>

\* A streamed answer is complete: the response event only reaches the records.
StreamEnds(t, chunks) ==
  /\ Hears(t, chunks)
  /\ records' = Answered(t, reply'[t])
  /\ stage' = [stage EXCEPT ![t] = "answered"]

\* A response in one piece is spoken as one piece, and shown if it was typed.
ResponseComes(t, text) ==
  /\ Speaks(t, [Speech(t) EXCEPT !.spoken = @ \o text])
  /\ records' = Answered(t, text)
  /\ stage' = [stage EXCEPT ![t] = IF t \in Spoken THEN "answered" ELSE "carding"]
  /\ UNCHANGED <<reply, working, pending>>

\* Mutant: nobody is told.
RequestFailsSilently(t) ==
  /\ stage' = [stage EXCEPT ![t] = "failed"]
  /\ UNCHANGED <<reply, working, pending, speech, records>>

\* Only a typed question is told of an error.
RequestFails(t) ==
  /\ stage' = [stage EXCEPT ![t] = IF t \in Spoken THEN "failed" ELSE "erring"]
  /\ UNCHANGED <<reply, working, pending, speech, records>>

\* Nobody catches an error of another type: the task of the handler ends.
HandlerCrashes(t) ==
  /\ stage' = [stage EXCEPT ![t] = "crashed"]
  /\ UNCHANGED <<reply, working, pending, speech, records>>

AgentSends(t, kind, n) ==
  LET s == BackendStep(BackendFor(t), gen[t], Event(t, kind, n))
      wordless == n = said[t] /\ s.end = "on"
  IN
  /\ wordless => idle < MaxIdle
  /\ kind \in {"fail", "crash"} => faults < MaxFaults
  /\ faults' = IF kind \in {"fail", "crash"} THEN faults + 1 ELSE faults
  /\ said' = [said EXCEPT ![t] = n]
  /\ idle' = IF wordless THEN idle + 1 ELSE idle
  /\ gen' = [gen EXCEPT ![t] = s.gen]
  /\ \/ s.end = "on" /\ Hears(t, s.chunks) /\ UNCHANGED <<stage, records>>
     \/ s.end = "done" /\ Streams(BackendFor(t)) /\ StreamEnds(t, s.chunks)
     \/ s.end = "done" /\ ~Streams(BackendFor(t)) /\ ResponseComes(t, s.gen.text)
     \/ s.end = "fail" /\ RequestFails(t)
     \/ s.end = "crash" /\ HandlerCrashes(t)
  /\ UNCHANGED <<conversation, counter, issued, shown, expected, missed, reached, dropped>>

AgentSays(t) ==
  /\ stage[t] = "running"
  /\ \E kind \in Kinds(BackendFor(t)), n \in 0..ReplyLen[t] :
       Possible(t, kind, n) /\ AgentSends(t, kind, n)

\* A command is acknowledged, or it times out: it may have been shown or not.
Result == {"acked", "late", "lost"}
Spend(result) ==
  /\ result # "acked" => faults < MaxFaults
  /\ faults' = IF result = "acked" THEN faults ELSE faults + 1

Reaches(t, words, result) ==
  /\ reached' = IF words /\ result # "lost" THEN reached \cup {t} ELSE reached
  /\ dropped' = IF words /\ result = "lost" THEN dropped \cup {t} ELSE dropped

\* Mutant: only an acknowledged command uses up its number.
NumberedWhenAcked(d, final, result) ==
  counter' = [counter EXCEPT ![d] = IF result # "acked" THEN @ ELSE IF final THEN 0 ELSE @ + 1]

\* _do_deliver_text_delta, under the lock of the device: the number is taken
\* before the command, and starts again after an acknowledged final delta.
Numbered(d, final, result) ==
  counter' = [counter EXCEPT ![d] = IF final /\ result = "acked" THEN 0 ELSE @ + 1]

\* A command that fails or times out is given up: what was lost with it is not
\* sent again.
Deliver(d, result) ==
  LET msg == Head(pending[d]) IN
  /\ pending[d] # <<>>
  /\ Spend(result)
  /\ pending' = [pending EXCEPT ![d] = Tail(@)]
  /\ Numbered(d, msg.final, result)
  /\ issued' = [issued EXCEPT ![msg.turn] = @ \o msg.text]
  /\ IF result = "lost"
     THEN missed' = missed \cup {d} /\ UNCHANGED <<shown, expected>>
     ELSE /\ missed' = missed \ {d}
          /\ shown' = [shown EXCEPT ![msg.turn] = @ \o msg.text]
          /\ expected' = [expected EXCEPT ![d] = IF msg.final THEN 0 ELSE counter[d] + 1]
  /\ Reaches(msg.turn, msg.text # <<>>, result)
  /\ UNCHANGED <<stage, conversation, said, idle, gen, reply, working, speech, records>>

\* show_card of _handle_text_prompt: its answer, or that there is none.
ShowCard(t, result) ==
  /\ stage[t] \in {"erring", "carding"}
  /\ Spend(result)
  /\ stage' = [stage EXCEPT ![t] = IF @ = "erring" THEN "failed" ELSE "answered"]
  /\ Reaches(t, TRUE, result)
  /\ UNCHANGED <<conversation, said, idle, gen, reply, working, screen, speech, records>>

Work ==
  \/ \E t \in Turn : AgentSays(t) \/ \E r \in Result : ShowCard(t, r)
  \/ \E d \in Device, r \in Result : Deliver(d, r)

Next == (\E t \in Turn : Ask(t)) \/ Work

Spec == Init /\ [][Next]_vars

\* Every read of a backend and every command has a timeout, so the loop always
\* gets back to one of them.
FairSpec == Spec /\ WF_vars(Work)

-----------------------------------------------------------------------------
(* Properties.                                                              *)

\* The words of a turn in what waits for a screen.
Awaited(messages, t) ==
  LET text[n \in 0..Len(messages)] ==
        IF n = 0 THEN <<>>
        ELSE IF messages[n].turn = t THEN text[n - 1] \o messages[n].text ELSE text[n - 1]
  IN text[Len(messages)]

Waiting(t) == Awaited(pending[DeviceOf[t]], t)

\* What a turn's listeners were told of the agent's words: each once, but all
\* of them once more by a Pi process that ends without its last message.
Told(t) ==
  LET words == Reply(t, said[t]) IN
  IF BackendFor(t) = "pi" /\ stage[t] = "answered" /\ ~gen[t].told THEN words \o words
  ELSE IF BackendFor(t) = "cli" THEN <<>> ELSE words

\* s is whole with some of its elements left out.
LeftOut(s, whole) ==
  \E at \in [1..Len(s) -> 1..Len(whole)] :
    /\ \A i, j \in 1..Len(s) : i < j => at[i] < at[j]
    /\ \A i \in 1..Len(s) : s[i] = whole[at[i]]

\* What the screen got and what waits for it are an agent's words in the agent's
\* order, however the agent mixes deltas, messages so far and a final message, and
\* whatever other turns do meanwhile: every word once, unless a command of the turn
\* (words or a card) was lost, and then with gaps but never twice or out of order.
ScreenComplete ==
  \A t \in Turn :
    /\ t \notin dropped => shown[t] \o Waiting(t) = Told(t)
    /\ LeftOut(shown[t] \o Waiting(t), Told(t))

\* The loudspeaker gets the same words in the same order, spoken or still in
\* the segmenter, also when two turns share the key of their stream.
SpeechComplete ==
  \A t \in Turn :
    Streams(BackendFor(t)) =>
      Those(spoken[Stream(t)] \o buffer[Stream(t)], WordsOf(t)) = Told(t)

\* A stream that is answered leaves nothing behind in _stream_states, unless
\* OpenClaw answered it or another turn of its key was cut short.
NoStaleSpeech ==
  \A k \in open : \E t \in Turn :
    /\ Stream(t) = k
    /\ \/ stage[t] \in {"running", "erring", "failed", "crashed"}
       \/ stage[t] = "answered" /\ BackendFor(t) = "openclaw"

\* A device that follows the numbers of the display commands notices every
\* one that did not reach it: the next it receives is not the one it expects.
LossNoticed == \A d \in missed : counter[d] # expected[d]

\* What the subscribers of the bus keep between two chunks has its types, is let go
\* of when an answer is over, and numbers commands so that a loss is noticed.
TurnInv == TypeOK /\ NoStaleSpeech /\ LossNoticed

\* The list of transcripts has one record for a conversation, and an answer
\* stands under the question it answers, in whatever order answers come.
RecordsMatch ==
  /\ \A i, j \in DOMAIN records :
       records[i].device = records[j].device /\ records[i].key = records[j].key => i = j
  /\ \A i \in DOMAIN records :
       records[i].heard # None /\ records[i].by # None => records[i].by = records[i].heard

\* What makes them hold.  A device expects no number beyond the next, and one
\* below it when it missed a command.
Numbering ==
  \A d \in Device : expected[d] <= counter[d] /\ (d \in missed => expected[d] < counter[d])

\* A generator that goes on as it stands ends with a final chunk.
WillClose(b, g) ==
  CASE b = "pi" -> g.text # <<>>
    [] b \in {"hermes", "piclaw"} -> g.told
    [] OTHER -> FALSE

\* A segmenter is open for a turn whose generator will close it, or for one
\* that was cut short or that OpenClaw answers.
Opened ==
  \A k \in open : \E t \in Turn :
    /\ Stream(t) = k
    /\ \/ stage[t] \in {"erring", "failed", "crashed"}
       \/ BackendFor(t) = "openclaw" /\ stage[t] \in {"running", "answered"}
       \/ stage[t] = "running" /\ WillClose(BackendFor(t), gen[t])

\* A record is of turns that were asked, with the device and the key of each.
RecordsFrom ==
  \A i \in DOMAIN records :
    LET r == records[i] IN
    /\ r.heard # None \/ r.by # None
    /\ r.heard # None => r.heard \in Spoken
    /\ \A t \in {r.heard, r.by} \ {None} :
         stage[t] # "new" /\ r.device = DeviceOf[t] /\ r.key = KeyOf[t]

\* What waits for a screen was asked on it.
OwnScreen == \A d \in Device : \A i \in DOMAIN pending[d] : DeviceOf[pending[d][i].turn] = d

\* What a generator goes on from is what its agent has said.
GoesOnFrom(b, g, t, n) ==
  /\ b \in {"pi", "openclaw", "piclaw"} => g.sent = Reply(t, n)
  /\ b = "pi" => g.text = Reply(t, n) /\ ~g.told
  /\ b = "stub" => n = 0

InStep ==
  \A t \in Turn :
    /\ stage[t] \in {"new", "running"} => GoesOnFrom(BackendFor(t), gen[t], t, said[t])
    /\ stage[t] = "carding" => BackendFor(t) = "cli"

AgentInd == TypeOK /\ Numbering /\ Opened /\ RecordsFrom /\ RecordsMatch /\ OwnScreen

\* What was sent to a screen and what waits to be is what its turn was told.
AllIssued == \A t \in Turn : issued[t] \o Waiting(t) = Told(t)

\* A screen lacks what was lost on the way to it, and nothing else.
Gaps ==
  \A t \in Turn :
    /\ t \notin dropped => shown[t] = issued[t]
    /\ LeftOut(shown[t], issued[t])

WordsInd == AgentInd /\ InStep /\ AllIssued /\ SpeechComplete

\* Every typed question gets, in the end, a card or words on the screen, unless
\* the agent says nothing, the command is lost or the backend fails in a way
\* nobody catches.
AnswerComes ==
  []<>\A t \in Turn \ Spoken :
        \/ stage[t] \in {"new", "crashed"}
        \/ t \in reached \cup dropped
        \/ stage[t] = "answered" /\ said[t] = 0
=============================================================================
