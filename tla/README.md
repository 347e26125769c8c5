# A TLA+ verification project for Oi

Oi puts small voice devices in front of coding agents. A gateway (`oi-gateway`,
Python, one asyncio event loop) holds one WebSocket per device, speaks the DATP
protocol over it, turns uploaded audio into text, sends the text to an agent
backend and delivers the answer as text and as cached audio. Device clients
(handheld, simulator, M5Stack firmware, Android PWA), a dashboard and a command
line sit around it. All paths below are relative to `src/src/`.

This directory holds TLA+ modules translated from that code, TLC runs over small
instances, and theorems checked by TLAPS. `PROJECT.json` maps every definition to
the lines it models, and lists the runs, the mutants (a plausible bug in the code
for every property, which the run must catch), the hazards and the theorems.

## 1. Inventory

One row for each component: state, operations, what is hard about it, what makes it
correct, and the modules. "M" modelled, "P" partly, "-" left out ("Not modelled" says why).

| | Component | State | Operations | Hard behaviour | Correct when | Modules |
|-|-----------|-------|------------|----------------|--------------|---------|
| P | **DATPServer** `oi-gateway/src/datp/server.py` | `device_registry` (device -> socket, session, conversation), one `asyncio.Lock` per device, `_stopping`, the local `device_id` of every connection task | accept, dispatch, hello, conversation update (device, HTTP), `send_to_device`, stop | a reconnect awaits the close of the old socket while that socket's `finally` runs; registration goes on after the lock is released; acks that cannot be sent | commands go to the one socket that was acknowledged, under the session it was told; locks exclude; nobody connected is offline; stop terminates | `DatpServer` |
| P | **RegistryService, DeviceStore** `registry/service.py`, `registry/store.py` | `_online`, SQLite rows, a pool of two threads | registration, disconnect, reports, foreground, character pack | every `await` of the pool lets the loop run; two threads commit in either order; a row is read, rebuilt and written back | presence follows connections; no field is lost | `DatpServer`, `DeviceRegistry` |
| P | **HeartbeatMonitor, ReconnectionManager** `registry/heartbeat.py`, `registry/reconnection.py` | last heartbeats, reconnect counts, saved states | record, save, restore | a restart of the gateway, a monitor nobody starts | who is online is watched; state is restored | `DeviceRegistry` |
| M | **CommandDispatcher** `datp/commands.py` | `_pending`: command id -> future | `send` and the commands built on it | an ack racing the timeout; a socket that dies in between | every future is resolved or removed, every request is answered | `AudioDelivery`, `DeviceCommands` |
| M | **AudioDeliveryPipeline**, `POST /api/route` `audio/delivery.py`, `api/__init__.py` | a lock per device, segmenters | segment, synthesise, `put_begin`, chunks, `put_end` | concurrent responses, half-way failures, a second path without the lock | the device caches a response whole or not at all; it is reported only if cached | `AudioDelivery`, `AudioCache`, `AgentTurn` |
| M | **StreamAccumulator** `audio/pipeline.py` | buffers per stream | chunk, finished, transcribe | gaps, late chunks, a second end, broken connections | a recording becomes one transcript of its own audio | `AudioUpload`, `VoiceTurn` |
| M | **TextDeliveryPipeline, ChannelService** `text/delivery.py`, `channel/service.py` | sequence counters, tasks, conversations | prompt, transcript, stream, card | concurrent requests share a counter and a screen; a final text replaces deltas | every word once, in order, and an answer for every question | `AgentTurn`, `VoiceTurn` |
| P | **Agent backends** `channel/*_backend.py` | locals of a generator | events to chunks | deltas, snapshots, progress and ends in different mixtures | no word twice, none lost | `AgentTurn` |
| - | **DATP messages, event bus** `datp/messages.py`, `datp/events.py` | subscribers | build, parse, emit | none: emit is synchronous | formatting | |
| P | **HTTP API** `api/__init__.py` | transcript records | conversation switch, commands, route, reads | handlers run between any two awaits of the server | an answer stands under its question; a route tries every device | `DatpServer`, `AudioDelivery`, `DeviceRegistry`, `AgentTurn`, `DeviceCommands` |
| M | **Routing policy** `routing/` | none | evaluate | profiles, limits, roles | the devices chosen can speak the text | `RoutingPolicy` |
| M | **Attention** `attention/policy.py` | who has attention, queue, priorities | acquire, release, time out, set priority | long sequences of legal calls | one device is attended to, nobody waits for nothing | `Attention` |
| P | **Character packs** `character_packs/` | `_last_rendered`; files | render; CRUD | renders overlap, links come back | what the gateway believes shown is shown | `DeviceCommands` |
| - | **Multi-device, coding workflow, integrations, skill sandbox** `multi_device/`, `coding/`, `integrations/` | tables, subprocesses | select, wrap | not constructed by the gateway | | |
| - | **Speech backends, bootstrap** `audio/stt.py`, `audio/tts.py`, `gateway_app.py` | none | wrap, wire | failure, an outcome of the models | external | |
| P | **Handheld client** `oi-clients/generic_sbc_handheld/oi_client` | command queue, recording, response cache, screen, selection, waiter | main loop, listener, reconnect | sends suspend the loop, the queue outlives the session, acks that fail | speech arrives whole; the screen tells the truth | `HandheldApp`, `AudioDelivery` |
| P | **Vendored websockets** `.../lib/websockets/legacy` | a connection at each end | read, write, ping, close, recv, send | closing from three sides, timeouts, resets | no message lost in between, closing ends | `WebSocketLink` |
| P | **Android PWA** `oi-clients/android_pwa` | socket, queue, recorder, cache | connect, queue, hold to talk, cache | promises and timers race; a reload | each message once, a complete response has all chunks | `PwaClient` |
| - | **Simulator, M5Stack firmware** `oi-clients/oi-sim`, `oi-clients/m5stack_stickS3` | | | a tool for tests; a prototype that never connects | | |
| - | **Dashboard, CLI** `oi-dashboard`, `oi-cli` | view state | poll, reduce | one request at a time | display | |

### How they interact

    device --frames--> DATPServer --EventBus.emit (synchronous)--> ChannelService,
                          |   ^                                    StreamAccumulator,
                  registered  send_to_device                       AudioDeliveryPipeline,
                          v   |                                    TextDeliveryPipeline,
                RegistryService    CommandDispatcher <--------------- HTTP API
                          |                                             (other tasks)
              DeviceStore: two threads, SQLite

Everything in the gateway but the two pool threads runs on one event loop, so code
between two awaits is atomic, and the awaits are where behaviours interleave. The
bus calls its subscribers inside `emit`: their synchronous part belongs to the
action that emits, and the tasks they create are actions of their own.

### Hazards

`PROJECT.json` lists 40 of them at their lines, each with the properties that would catch
it going wrong. Those that shape the modules are the `finally` block of
`_handle_connection`, which looks its device up under the id of the last frame dispatched;
the close of an old socket awaited under the device lock; `device_registered` running after
the lock is released; audio sequences abandoned half-way; acks that meet a timeout or a dead
socket; answers of concurrent questions on one screen; a closing handshake started from
three sides; and clients whose main loop is suspended in a send while their connection, the
button or the screen changes.

## 2. Modules

| Module | Models | Composes, refines |
|--------|--------|-------------------|
| `DatpServer` | `DATPServer`, presence in `RegistryService`, the pool of `DeviceStore` | implements `DeviceOwnership` |
| `DeviceOwnership` | abstract: who owns a device id | |
| `DatpServer_proofs` | theorems about `DatpServer` | |
| `AudioDelivery` | `AudioDeliveryPipeline`, `CommandDispatcher`, the audio route, the handheld's cache | implements `AudioCache` |
| `AudioCache` | abstract: what delivering a response promises | |
| `AudioDelivery_proofs` | theorems about `AudioDelivery` | |
| `DeviceRegistry` | `RegistryService` and its tables, rows, columns and pool threads, restart of the gateway | |
| `AgentTurn` | `ChannelService`, the backends, `TextDeliveryPipeline`, the segmenter, transcript records | |
| `AudioUpload` | `StreamAccumulator` and the recognizer's threads | |
| `Devices` | the devices of `AudioUpload`, `AgentTurn`, `DeviceCommands` and `Attention` | |
| `VoiceTurn` | a recording to its answer | `AudioUpload` and `AgentTurn`, which share the transcript event |
| `WebSocketLink` | both ends of a WebSocket connection | |
| `HandheldApp` | the handheld's main loop and DATP client | |
| `PwaClient` | the PWA's connection, hold to talk and cache | |
| `RoutingPolicy` | which devices a text is routed to | |
| `DeviceCommands` | commands, routes and characters | uses `RoutingPolicy` |
| `Attention` | who is attended to | |
| `DeviceChoice_proofs` | theorems about `RoutingPolicy`, `DeviceCommands` and `Attention` | |
| `Reconnects_proofs` | theorems about `DeviceRegistry` and `PwaClient`: what survives a lost connection | |
| `Lists` | list comprehensions as recursive functions, for `RoutingPolicy`, `PwaClient` and the properties of `AgentTurn` | |
| `HandheldApp_proofs` | theorems about `HandheldApp` | |
| `WebSocketLink_proofs` | theorems about `WebSocketLink` | |
| `VoiceTurn_proofs` | theorems about `AudioUpload`, `AgentTurn` and `VoiceTurn` | |
| `SequenceLemmas` | lemmas about positions, parts, queues, insertion, removal and filters that these modules share | |

The order follows what a failure costs: who is connected and what is said to whom, whether
a response survives its delivery, what the registry remembers, then questions and answers,
then the clients. `MC*` modules give values to the constants. Several of them take a set of
scenarios (`User`, `Usage`, `Application`, `Script`, `Config`) of which `Init` chooses one: a
sum of small instances, each with the case it is about, instead of their product.

Next: an abstract channel that `WebSocketLink` implements.

## 3. DatpServer

### Correspondence

State. `device_registry`, `lockq` (`_device_locks`: the head holds the lock, the
rest are its waiters in FIFO order), `stopping`, `online` (`RegistryService._online`),
`row` (the `session_id` column) and `jobs` (the executor's queue) are the program's.
`pc`, `device_id`, `dev`, `sess`, `conv` and `peer` are the suspended coroutines: one
task for each connection, one for each HTTP handler. `ws`, `frames` and `told` are the
sockets and what the peers have read. `issued` counts session ids, which the code
draws from `secrets.token_hex`: they are taken to be distinct.

Actions. One action is the code between two awaits of a task:

| Code | Actions |
|------|---------|
| `_handle_connection` | `Accept`, `ConnectionEnds` (the `finally` block is `Finalize`) |
| `_dispatch` | `ReceiveInvalid`, `ReceiveRefused`, `ReceiveOwned`, `ReceiveHello`, `ReceiveUpdate` |
| `_handle_hello` | `HelloRejected`, `HelloInstalls`, `HelloClosesOld`, `OldClosed`, `AckSent`, `AckFails` |
| `device_registered` and the pool | `PoolCommits`, `Registered` |
| `update_device_conversation` | `CallUpdate`, `UpdateRefused`, `UpdateApplies`, `Notified`; the error a refused update is answered with is sent without the lock (`RefusalSent`) |
| `stop` | `StopBegins`, `StopEnds` |
| `websockets` (external) | `ConnectionLost`, `CloseCompletes` |

Abstractions. A conversation is one of the choices on offer, an invalid request, or
none at all. A frame that is answered with an error is one action with the device it
names, whatever the error: what matters later is only the id `_dispatch` returns.
Reading an owned frame and putting it on the bus is one step: the writes of state and
heartbeats inside it are in `DeviceRegistry`. Frames that arrived before a close are
still delivered after it, as `websockets` does. `ws.send` on a closed socket raises and
the exception unwinds through the lock to the `finally` block.

### Runs

| Run | Instance | Shows |
|-----|----------|-------|
| `server_three` | 3 connections of one device, or 2 of them and two devices (constraint `ThreeOrTwo`); 2 frames each, 3 hellos, symmetry over connections | `OneVoice`, `ConnectedIsOnline`, `CleanExit`, and `ImplementsOwnership` (refines `DeviceOwnership`) |
| `server_update` | 2 connections, an HTTP caller, 2 conversations and an unknown one, fairness | `ToldTheTruth`, `HelloSettles`, `StopTerminates` |

Bounds. Three connections are the least with which a third hello can wait while a
second replaces a first. Two frames let a connection say hello and then update, say
hello again, or send a frame that disturbs `device_id`. Two devices are enough for a
connection to hold one and name another. With one choice of conversation the runs
without updates lose nothing; with two, an update can change it.

`CHECK_DEADLOCK FALSE` is set because peers may stop sending, and after `stop` nothing
is left to do; that nothing hangs half-way is what `HelloSettles` and `StopTerminates`
check.

Fairness. Weak fairness of the tasks' own steps: asyncio runs every ready task,
`asyncio.Lock` wakes waiters in order (so the queue needs no strong fairness),
`websockets` gives up a close after its `close_timeout`, and a pool thread finishes the
first job of the queue. Nothing is assumed of peers, callers or the operator.

### Proofs (`DatpServer_proofs`)

For every set of devices, connections, callers and choices, and every bound, from the
assumptions `ConnAssumption` (connections are not callers, `None` is neither),
`DeviceAssumption`, `ChoiceAssumption` (the default is offered, the unknown and `None`
are not) and `BoundAssumption`:

| Theorem | States |
|---------|--------|
| `Inductive` | `Spec => []IndInv` |
| `TypeCorrect` | `Spec => []TypeOK` |
| `LocksAreKept` | `Spec => []LockDiscipline` |
| `OneVoicePerDevice` | `Spec => []OneVoice` |
| `DevicesKnowTheTruth` | `Spec => []ToldTheTruth` |
| `PeersLeaveNothing` | `Spec => []CleanExit` |
| `ConnectedDevicesAreOnline` | `Spec => []ConnectedIsOnline` |
| `Refinement` | `Spec => Ownership!Spec` |

`OneVoice` is not inductive: that installing an entry leaves nobody else open with an
acknowledgement needs the old socket to be closing, which needs the entry to be still
the old one's when its close returns. `IndInv` adds, for each await inside a critical
section, what the code relies on when it resumes: `ReplacingOld` (the entry is the old
connection's, or its finalizer removed it), `Acknowledging` (it is the one just
installed), `Notifying` (it is the one just edited, or its connection ended). These hold
because of `LockDiscipline`: only the holder of a device's lock installs or edits its
entry, and only the entry's own connection removes it. `InCall`, `Unused` and `Submitted`
carry the arguments of calls, connections not yet accepted and jobs of the pool;
`ToldUnlessSending` is `ToldTheTruth` for every moment at which no acknowledgement is on
its way. The preservation proof has one lemma for each action. The refinement uses
`ReplacingOld`: when a device changes hands, the former owner is closed.

`ConnectedIsOnline` is inductive beside `IndInv`: the `finally` block of an old connection may
mark a device offline that a new one has just taken, but only while the new one is between its
entry and the `upserted` job, after which it sets the device online itself. `CleanExit` follows
from two parts of `IndInv`: the `finally` block leaves only entries it did not look at
(`LeftBehind`), and for a peer that keeps to the device it was acknowledged for (`settled`, a
history variable) `device_id` is that device once `device_registered` has returned (`Settling`).

Only model-checked: the two liveness properties, which are beyond the prover.

## 4. AudioDelivery

### Correspondence

A response is delivered by one task. `pc` and `step` are where it is in
`put_begin`, chunks, `put_end`; `pending` and `answer` are `CommandDispatcher._pending` and
the result of its futures; `lockq` is the pipeline's lock for the device. The wire is two
FIFO queues that lose everything in flight when the connection breaks. The client is the
handheld: `inbox` is `DatpClient._cmd_queue`, `batch` what one tick drained from it,
`buffer` is `_recording_chunks`, `cached` is `_response_audio`.

| Code | Actions |
|------|---------|
| `_on_event`, `_deliver_audio` | `Respond`, and `Finish` on every way out |
| `CommandDispatcher.send` | `Send`, `SendFails`, `Acked`, `Nacked`, `Timeout` |
| `CommandDispatcher._on_event` | `AckArrives` |
| synthesis in `_do_deliver_audio` | `TtsFails` |
| `_listen_loop`, `reconnect` | `Receive`, `Reconnect` |
| `_tick` and the three handlers | `Tick`, `HandleBegin`, `HandleChunk`, `HandleEnd`, `HandleEndFails`, with `Ack` |
| external | `Break`, `Restart` |

Abstractions. A chunk is the pair of its response and its number. Response ids are taken
to be distinct. The character renderer, which may send a command of its own, is left out.
A timeout may come at any moment of a wait, the moment the answer arrives included. A
frame sent on a link that is dead and not known to be is lost. `Restart` takes the
client's memory; the queue and the buffer survive a mere reconnect, as in the code.

### Runs

| Run | Instance | Shows |
|-----|----------|-------|
| `audio` | 3 responses in the pipeline, 2 chunks each, 2 breaks, a restart, fairness | `CacheIntegrity`, `DeliveredIsCached`, `DeliverySettles`, and `ImplementsPromise` (refines `AudioCache`) |
| `audio_route` | 1 response in the pipeline, 1 on the route | violation of `Uncorrupted` |

Two chunks are the least that can be swapped, doubled or cut; three responses let one be
abandoned, one be in queues and one begin. Two breaks let a command of a session before
the last be still in the client's queue. Without a restart a response is cached whole; a
restart between `put_begin` and `put_end` leaves a suffix, which `CacheIntegrity` and `AudioCache`
state as it is.

Fairness: `DeliverySettles` needs only weak fairness of the gateway's own delivery step
(event loop and the timer of `wait_for`), not of link or device.

`CHECK_DEADLOCK FALSE`: when every response is settled the system rests.

### Proofs (`AudioDelivery_proofs`)

From `PipelineAssumption` (the pipeline's responses are responses),
`NumChunksAssumption` (a response has a chunk) and `BoundAssumption`, for every number of
responses and chunks and every bound:

| Theorem | States | Besides |
|---------|--------|---------|
| `TypeCorrect` | `Spec => []TypeOK` | |
| `NoFutureLeaks` | `Spec => []PendingTracksSends` | |
| `Inductive` | `Spec => []IndInv` | `Pipeline = Delivery` |
| `CacheIsSound` | `Spec => []CacheIntegrity` | `Pipeline = Delivery` |
| `DeliveredMeansCached` | `Spec => []DeliveredIsCached` | `Pipeline = Delivery` |
| `Refinement` | `Spec => ImplementsPromise` | `Pipeline = Delivery` |

`Pipeline = Delivery` says that nothing goes to the device past the pipeline's lock. It is
needed: `audio_route` is the counterexample without it.

The argument. The lock is held from the first command of a response to its end
(`LockInv`), so one delivery is under way, and a command is awaited by one future at most.
But the lock does not cover the device: what a delivery gave up on may still be in the
queues. Three facts make this harmless. A command is sent once (`SentOnce`), so the one
awaited is the last in flight (`LastInFlight`), and its acknowledgement means that the
queues are empty (`AnswerEffect`, `Quiet`). A chunk or a `put_end` is therefore sent into
empty queues, and only a `put_begin`, which clears the buffer, ever stands behind something
older (`FirstInFlight`). So when a chunk or a `put_end` is handled, the effect of the
command before it is in the buffer (`ArrivalEffect`): the chunks up to its number, all of
them or, after a restart, the last of them (`BufferIs`). `CachedOnce` adds that a `put_end`
is handled once, which the refinement needs because `AudioCache` stores a response once.

## 5. DeviceRegistry

### Correspondence

`owner` is `DATPServer.device_registry` cut down to the socket; `online` is
`RegistryService._online`; `heard` the keys of `HeartbeatMonitor._heartbeats`; `count` and
`saved` are `ReconnectionManager._reconnect_counts` and `_saved_states`; `row` is the table,
with the columns session, state, pack, priority and reconnect count; `jobs` is the
executor's queue, of which the first `PoolWorkers` entries are running.

| Code | Actions |
|------|---------|
| `_handle_hello` | `Hello`, `Install`, `AckFails` |
| `device_registered` | `Register`, `Registered` |
| `record_heartbeat`, `device_state_update` | `Heartbeat`, `Beaten`, `Report` |
| `device_disconnected`, from the `finally` block | `Close` |
| `POST .../foreground`, `POST .../character` | `AskForeground`, `ServeForeground`, `SetPack` |
| the pool | `PoolWrites`, `PoolSelects` |
| external | `Restart` |

`DatpServer` models what a connection may say and when its `finally` block looks up the
wrong device. Here a connection says hello once, then sends valid frames, and the question
is what is remembered. Abstractions. A state is the set of the fields it holds: a hello
carries `HelloState`, a report replaces the state by the fields it names, and a merge is a
union. Capabilities and timestamps (`last_seen`, `last_interaction`, `last_heartbeat`) are
left out, and with them the jobs that write nothing else. The pool's read in a foreground
request is taken when the handler resumes, which allows the same outcomes because no row
is ever deleted. A job is atomic except the one that selects before it updates. `Restart`
may come between any two steps; jobs that ran are in the rows, the others are lost.

### Runs

| Run | Instance | Shows |
|-----|----------|-------|
| `registry_overlap` | 3 connections of one device, a caller, a restart, fairness | `RegistryInv` (with `HeardIsOnline` and `OwnerIsServed`), `TasksReturn`, `StateSurvives` |

`StateSurvives` speaks of devices that wait: `patient` remembers that no hello came before the
former connection was done with. It fails of a fast reconnect, and a restart loses what was
saved (see Findings).

Three connections are the least with which the finalizer of one, the registration of a
second and the hello of a third overlap. A hello carries one field and a report two, so that
a reported field can be lost. Two pool threads are what the code has. `MaxPriority` only stops
foreground requests that begin when a device has reached it.

Fairness. The loop runs the tasks that are ready and a pool thread finishes the first job.
Connections, callers and restarts are free.

`CHECK_DEADLOCK FALSE`: when every connection has been used the system rests.

### Proofs (`Reconnects_proofs`, first part)

From `TaskAssumption`, `DeviceOfAssumption`, `PoolAssumption` and `BoundAssumption`, for every set of
devices, connections, callers, states and packs, finite or not, every number of pool
threads and every bound:

| Theorem | States |
|---------|--------|
| `Inductive` | `Spec => []IndInv` |
| `TablesAgree` | `Spec => []RegistryInv` |
| `PatientInductive` | `Spec => []PatientInv` |
| `StateIsRestored` | `Spec => StateSurvives` |

`RegistryInv` alone does not survive the pool: a job that commits must find its own task still
waiting for it, about its own device, which is `JobsAwaited`. `RegisteredIsKnown` says that a task
past its upsert has a row, and `PrioritiesBounded` that the priorities in rows and jobs have a
highest, so that the maximum `max_priority` reads exists although no set here is assumed finite.
`StateSurvives` is an action property of patient devices: `OneAtATime` leaves a device one connection
that is neither unused nor over, so nobody else writes its row, and `StateKept` follows the
fields from the old row to `saved` and on into the upsert that is queued. There is one lemma
for each action, for each of the two invariants.

## 6. AgentTurn

### Correspondence

A turn is a question. `stage`, `gen` and `said` are its handler, the locals of the
backend's generator and the agent behind it; `pending` and `counter` are the queue of
delivery tasks of a device and its sequence number in `TextDeliveryPipeline`; `issued` is what
was sent to a screen, `shown` what got there (a command that fails or times out is given up, and
the words it carried are not sent again), `expected` and `missed` what a device that follows the
numbers knows; `buffer`, `open` and `spoken` are the states of the segmenter and its output;
`records` is `GatewayAPI._transcripts`. A text is a sequence of words, and a word is a turn
and a position, so that every word says where it comes from.

| Code | Definitions |
|------|-------------|
| `ChannelService._on_event`, `_handle_transcript`, `_handle_text_prompt` | `Ask`, `ResponseComes`, `RequestFails`, `HandlerCrashes`, `ShowCard`, `StreamEnds` |
| `_handle_streaming_request`, `_accumulate_stream_text` | `AgentSends`, `Hears`, `Each`, `Accumulate` |
| the generators of the backends | `PiStep`, `OpenClawStep`, `HermesStep`, `PiClawStep`, `StubStep`, `CliStep`, with `Remaining` and `Extended` |
| `TextDeliveryPipeline` | `Deltas`, `Deliveries`, `Queues`, `Deliver`, `Numbered` |
| `AudioDeliveryPipeline._handle_stream_delta` and its segmenter | `Push`, `Boundary`, `Speaks` |
| `GatewayAPI._record_transcript`, `_record_agent_response` | `Transcribed`, `Matching`, `Answered` |
| the agent (external) | `AgentSays`, `Possible` |

Abstractions. An event of an agent is a delta, a message so far, a final message, progress, or
an end, with a number of words of its reply; what a backend makes of it is computed as in the
code. Segments are handed on at once: their delivery is `AudioDelivery`'s. The bus is
synchronous, so everything a chunk causes in its subscribers is one step, and the tasks they
schedule run later, one at a time under the device's lock.

### Run

| Run | Instance | Shows |
|-----|----------|-------|
| `agent_turn` | a recording and two typed prompts with one text (hence one key) of one device, at most two asked; six backends; a fault; an event without text; a list of one transcript; fairness | `ScreenComplete`, `SpeechComplete`, `RecordsMatch`, `TurnInv`, `AnswerComes` |

Two turns at once are what a shared counter, screen and key need; a reply of two words has a
boundary inside it and can be cut. One fault fails an agent or loses a command, at any
moment. `ScreenComplete` says two things of a screen: with no command of the turn lost it gets every word
once and in order; with one lost it has gaps (`LeftOut`), but no word twice and none out of order.
`TurnInv` also says that a finished stream leaves no segmenter state, except after
OpenClaw or a failure; these exceptions are the code's.

Fairness: every read of an agent and every command has a timeout, so the loop comes back to
some step (`WF(Work)`). `CHECK_DEADLOCK FALSE`: when every question is over the system rests.

## 7. AudioUpload and VoiceTurn

`arrived` is what came of the recordings; `streams` and `known` are the buffers of
`StreamAccumulator` and its keys; `tasks` the transcription tasks scheduled, `jobs` the threads
of the recognizer, `transcripts` and `failed` what became of their work. `useless` and `replaced`
remember the chunks whose data could not be used and those whose place another copy took, `late` the
recordings of which a chunk came after an end.

| Code | Definitions |
|------|-------------|
| `_on_event` | `ChunkArrives`, `FinishArrives` |
| `_buffer_chunk`, `pcm16_to_mono` | `BufferChunk` |
| `_transcribe` | `Transcribe`, `Take`, `Recognized` |
| device and network (external) | `Comes` |
| `ChannelService._handle_transcript` | `Heard`, `HeardElsewhere` of `VoiceTurn` |

A frame is a recording, a number (that of a chunk, or `ChunkCount` for the end) and a copy, which the
code does not see: it tells the first sending of a chunk from another. `_on_event` asks for no order
and keeps no account of what came before, so `Comes` gives none: a chunk or an end may come before or
after any other, not at all, or once more. Pages do reorder: what one sends between the `open` of its socket
and the `hello_ack` overtakes its queue (`PwaClient`), and a device's former connection may still be read
while the new one is.

Sound is a set of frames; a chunk may be good, empty after conversion (and then still take the place of
the one with its number), or impossible to decode. `VoiceTurn` composes this with `AgentTurn`: a
recognized text is the step the two share, since the transcript event calls its subscribers where it is
emitted. A recording whose end comes twice with a chunk between is recognized in two parts, and each
part asks the agent: the second question is outside `Turn` (`HeardElsewhere`), since `AgentTurn` assumes
that no two of its turns share a recording. In the code they would share their `stream_id`, and
`_find_transcript` would file both answers under the later one.

| Run | Instance | Shows |
|-----|----------|-------|
| `voice_turn` | a recording of two chunks and an end, two frames that come once more, an unusable chunk; a device that types a prompt beside it; fairness | `UploadInv`, `AnswersAsker`, `RecordingEnds` |

One frame more can be a chunk that replaces another, or an end that finds the buffer gone; with two, a chunk and an end
after the first transcription make another. Two devices can take each other's answers. Buffers are independent of each
other, so one recording is enough here; the theorems are for any number. A stream id belongs to one
device: the handheld's are made of its clock in milliseconds, and two devices that drew the same one
would share a buffer. Fairness: the event loop runs a task that is scheduled, the recognizer's threads
return, and the agents' steps are those of `AgentTurn`; nothing is assumed of the network.
`CHECK_DEADLOCK FALSE`: when all is answered the system rests.

### Proofs (`VoiceTurn_proofs`)

From the assumptions of the three modules (`RecorderAssumption`, `UploadAssumption`; `TurnAssumption`,
`BackendAssumption`, `BoundAssumption`; `SpokenAssumption`): for any number of devices, recordings,
frames, questions, words and faults, and every catalog of backends. `VoiceTurn` extends the two
modules it composes, so that their theorems stand side by side here; those about `AgentTurn` are of its own
specification, `Spec`.

| Theorem | States |
|---------|--------|
| `UploadInductive` | `VoiceSpec => []UploadInd` |
| `RecordedOnce` | `VoiceSpec => []UploadInv` |
| `AgentInductive` | `Spec => []AgentInd` |
| `TurnsKept` | `Spec => []TurnInv` |
| `AnswersFiled` | `Spec => []RecordsMatch` |
| `WordsInductive` | `Spec => []WordsInd` |
| `ScreensComplete` | `Spec => []ScreenComplete` |
| `LoudspeakersComplete` | `Spec => []SpeechComplete` |
| `TurnsAreAgents` | `VoiceSpec => Spec` |
| `AskerAnswered` | `VoiceSpec => []AnswersAsker` |

`UploadInv` says where every frame that arrived is now: in its buffer, with the recognizer, replaced or useless
(`NothingCut`), and in no two of these places (`ChunkOnce`). It holds of a step because what is kept anywhere has
arrived (`Placed`: a frame that comes is nowhere yet) and because a transcription follows an end (`ByAnEnd`: what
was given to the recognizer is buffered again only by a chunk that is late). No order of arrival is needed.

`TurnInv` speaks of a segmenter that is open while its turn may still run. Whether the turn will close it
depends on the locals of its generator, and `Opened` says which: a Pi process that has a text, a Hermes or
PiClaw stream that said something (`WillClose`). The lemma `BackendContract`, shown for each backend, is
the promise behind it: an event leaves a generator that will close its stream, or closes it, or says nothing
for a turn that had not opened one. OpenClaw gives no such promise, which is the exception of
`NoStaleSpeech`. `Numbering` bounds the number a device expects by the next one to be sent. `RecordsFrom`
says whose a record is: two turns have no key in common if one of them is spoken, so an answer found
by device and key is put under its own question (`FiledAnswer`), a recording never finds its conversation in
the list (`TranscribedKeeps`), and a prompt whose key another prompt had takes over that record.

`ScreenComplete` follows from two invariants. `Gaps` relates what was sent to a screen and what got
there: the same while no command of the turn was lost, and with words left out afterwards
(`LeftOutGoesOn`: two texts of which one has gaps may both go on alike). `AllIssued` says that what was
sent and what waits is what the turn was told. `AllIssued` and `SpeechComplete` say where every word of an
agent is, and hold of a step only if the backend went on from the right place: Pi, OpenClaw and PiClaw send the rest of a text,
found by comparing it with what was sent before. `WordsInd` adds that (`InStep`, by `GoesOnFrom`: for each
backend, which locals of its generator hold what its agent has said). `BackendWords`, shown for each backend
like `BackendContract`, is what one event conveys: nothing, the next words, or all of them once more, which is
Pi at the end of its file. Deliveries of one device wait in one list and sentences of one key in one buffer,
with the words of other turns between them; so the proof works with filters: what is taken from the front
of the list or moved from the buffer to the loudspeaker changes no turn's part of the whole
(`DeliverWords`, `SpeechHears`), and a word added is of its own turn only (`OwnText`).

`AskerAnswered` needs both halves: `NothingCut` of the recording says whose it was when its transcript
starts the turn, `OwnScreen` that no delivery changes screens afterwards.

## 8. WebSocketLink

The protocol object of the vendored library, at both ends of one connection. `state`, `tcp`,
`eof`, `messages`, `close_sent`, `close_rcvd` and `close_rcvd_then_sent` are its attributes;
`transfer`, `keepalive` and `closer` are where its three tasks are; `recv`, `send` and `close` are
the calls of the application; `wire` holds the frames on their way, `woken` and `waits` say who
was woken and how many timeouts a `close()` has used.

| Code | Actions |
|------|---------|
| `transfer_data`, `read_message`, `read_data_frame` | `Read` with `ReadData` and `ReadClose`, `ReadError`, `RoomAgain`, `Answered`, `Cancelled` |
| `keepalive_ping` | `SendPing`, `PingDrained`, `PongReceived`, `PongTimeout` |
| `close_connection`, `close_transport` | `TransferOver`, `LostInTime`, `TcpTimeout`, `HalfTimeout`, `CloseTimeout` |
| `recv` | `Recv`, `RecvWakes`, `RecvRaises`, `RecvCancelled` |
| `send` | `Send`, `SendReturns` |
| `close` | `Close`, `CloseDrained`, `WriteTimeout`, `TransferTimeout`, `CloseReturns` |
| `fail_connection`, `connection_lost`, `eof_received` | `Fail`, `ConnectionLost`, `PeerEof` |
| asyncio, network (external) | `Flushed`, `Reset` |

Abstractions. A message is its number. Time passes at will: a wait with a timeout may end by
it at once. Back pressure is a limit on the frames under way. The opening handshake, messages
in fragments, several pings under way and compression are left out.

| Run | Instance | Shows |
|-----|----------|-------|
| `websocket_link` | six scenarios: a client that pings and sends on a network that may reset; one that pings and closes; a server that sends more than the client's queue of one holds while either closes; both closing; a message over `max_size`; fairness | `LinkInv`, `NoGap`, `CloseEnds`, `RecvEnds` |

A queue of one and a limit of one frame make every wait happen. The scenarios separate what
the tasks do to each other; their product is out of reach.

Fairness: the event loop runs every task and timer of an end, and nothing is assumed of
network or application. `RecvEnds` excepts a ping that cannot be written: the code has no
timeout there. `CHECK_DEADLOCK FALSE`: a closed connection rests.

### Proofs (`WebSocketLink_proofs`)

From `LimitAssumption` and `BoundAssumption`, for every `max_size` decision, every limit of the queue
and of the writers, with and without TLS, and every number of messages, calls and resets:

| Theorem | States |
|---------|--------|
| `Inductive` | `Spec => []IndInv` |
| `ClosesOnce` | `Spec => []LinkInv` |
| `ReceivesInOrder` | `Spec => []NoGap` |

Neither property is inductive. `IndInv` adds what the code leaves implicit:

* `Shaking`: a connection is lost exactly when its state is `CLOSED`, an open end has sent no close
  frame, a close frame that was read had been sent. With `OneCloseFrame` it makes `OneAnswers` hold:
  an end that answers is open, so it has sent nothing the other could have answered.
* `Waiting`: how many timeouts `close()` and `close_connection_task` have used where they are now
  (`CloseUsed`, `CloserUsed`); their greatest sum is the bound of `CloseBounded`. A server never waits
  for its client to close the TCP connection, which is why its bound is one less.
* `InOrder`: the messages on a wire go on from the last that was delivered (`Ordered`); as long as
  the writer has its connection, or its close frame is still to be read, none of those it wrote is
  missing (`Complete`). An abort cuts the end of the wire: then only `Ordered` is left, and nothing can be
  written any more. That is what `NoGap` rests on, and why a message too big, or a cancelled data
  transfer, makes no gap: nothing is read after it.
* `Accounted`: after a close frame was read, what was received is everything that was written; a call of
  recv that was woken finds its message, which is what a cancelled call must not take away.

The 28 actions are not proved against each part. `Effect` says what a step does as seen from the
wires: the other end rests; at most one frame is written, or the connection is lost with the end of
its wire; a frame is read, a message is stored or taken, or the tasks go on. `HandshakeKept`, `DataKept`
and `WaitingKept` show the invariant from that, and there is one lemma for each action (`ReadStep`,
`CloseTimeoutStep` and so on) that it has the type, such an effect and a bound on its wait. The lemmas on
wires (`OrderedReads`, `OrderedWrites`, `OrderedCut`, `CompleteReads`, `CompleteWrites`, `CloseReads`,
`CloseCut`) speak of sequences of frames alone.

## 9. HandheldApp

`at` is where the main task of `app.py` is suspended (input, a send, the drain of the recorder, a
connect), `after` what it goes on to; `screen` is the mode with what hangs on it, `button` and
`capture` the press being tracked and the microphone; `socket` is the connection as the client
(`connected`) and the network (`link`) see it, `queues` and `toDevice` what is queued on either
side of the listener; `choice` the preferences with what is restored if a change fails;
`gateway` the conversation the gateway uses. `spoilt` remembers recordings the screen left.

| Code | Actions |
|------|---------|
| `_handle_input`, `InputAdapter.poll` | `PressX`, `LongPressX`, `ReleaseX`, `Cancel`, `Navigate`, `EndInput` |
| `start_recording`, `stop_recording`, `_stream_recorded_audio`, `_maybe_auto_stop_recording` | `Started`, `NotStarted`, `StopRecording`, `Finish`, `Stream`, `StopOverdue`, `NotOverdue` |
| `_handle_menu`, `_apply_connection_preferences`, `_restore_connection_state` | `ToggleMute`, `ChangeConversation`, `ChangeGateway`, `Restore`, `Replied`, `ReplyTimeout` |
| `DatpClient.connect`, `reconnect`, `disconnect`, `_listen_loop`, `_handle_message` | `ConnectSucceeds`, `ConnectFails`, `Retry`, `Quit`, `Disconnect`, `Listen`, `ListenEnds` |
| `_tick`, `_handle_command`, `_maybe_send_state_report` | `Check`, `HandleCommand`, `Report`, `NoReport`, `Raise` |
| user, controller, gateway, network (external) | `Speak`, `MissRelease`, `GatewayAnswers`, `GatewayCommands`, `OthersSwitch`, `Break` |

HOME and READY differ in a caption and are one mode; the cursor of a menu is left out; audio is
numbered pieces. A raise ends the tick and the loop goes on, as the handler of `_tick` does.

| Run | Instance | Shows |
|-----|----------|-------|
| `handheld` | four users: a long recording and a break; one with cards from the gateway; two recordings; one who changes conversation and gateway while the link breaks and others switch; fairness | `SpeechWhole`, `AppInv` (with `Agreed`), `LinkNoticed`, `RecordingStops` |

Two pieces can be lost, doubled or swapped; two recordings can be mixed up. Fairness: both
tasks run, waits have timeouts, the state report and the recording limit come due again and
again (`SF`: other steps may disable them for a while). `CHECK_DEADLOCK FALSE`: after `Quit` the
client rests.

### Proofs (`HandheldApp_proofs`)

From `UserAssumption` and `BoundAssumption`, for every set of gateways and conversations, every
user and any number of messages under way:

| Theorem | States |
|---------|--------|
| `Inductive` | `Spec => []IndInv` |
| `AppAgrees` | `Spec => []AppInv` |
| `RecordingsWhole` | `Spec => []SpeechWhole` |

`Agreed` speaks of moments with nothing under way; `Conversing` says what is true in between: the one
question is on its way, or its one answer is (`Tells`: an ack says what the gateway uses now, a
refusal leaves what the app would restore), or the waiter has it. That the answer is the only
one needs `Linked`: a link that is open is one the app counts on, and one that comes up carries
no messages of its predecessor. `SpeechWhole` speaks of ended streams; `Following` says what is true
of a stream that goes on: what was sent of it is everything read from the microphone since
the promotion, numbered without a gap (`Followed`). `FollowedGrows` and `FollowedEnds` are about a chunk
and an end appended to such a stream; every other step leaves it alone or has nobody follow
it any longer (`FollowingOver`): the link is gone, the capture was dropped, or the screen
left it, which is when the stream counts as spoilt. `SpeechWhole` says nothing of spoilt streams:
the code drops what it reads of the microphone while the screen is elsewhere, and a capture that was never
promoted to a recording is not one.

## 10. PwaClient

`socket`, `connected` and `timer` are the client's; `queue` its `_queue`; `rec`, `ptt`, `asking`, `live`
and `closing` the recorder, the button, the calls of `getUserMedia` under way, the microphones that are on and
the `stop()`s that await a context. `start()` does not look again after its `await`: a
microphone may be granted when the button is up, or beside another one (two pointerdowns). `astray`
remembers that such a microphone may still be on, `spoilt` the recordings made beside another
microphone or across a change of the connection;
`cache` is `AudioCache.responses` in the order of the map; `inbox`, `step` and `phase` the
deliveries of the gateway; `log`, `first` and `hellos` what the gateway heard of a connection.

| Code | Actions |
|------|---------|
| `DatpClient` `_onOpen`, `_onMessage`, `_onClose`, `_scheduleReconnect`, `_send` | `Open`, `HelloAck`, `OnClose`, `Reconnect`, `Say` |
| `PttRecorder`, `controller.js` | `Press`, `Granted`, `Refused`, `Speak`, `Release`, `Stopped` |
| `AudioCache`, the command listener of `main.js` | `HandleCommand` with `Begin`, `Update`, `Gapless` |
| browser, network, gateway (external) | `Break`, `BeginClose`, `Reload`, `GatewaySends`, `GatewayGivesUp` |

| Run | Instance | Shows |
|-----|----------|-------|
| `pwa` | four usages: two recordings with two breaks, with a break and a reload, a recording during a delivery, two deliveries into a cache of one with breaks and a reload; two chunks; fairness | `PageInv`, `HeardWhole`, `LinkComesBack`, `MicReleased` |

A cache of one evicts on the second delivery. `MicReleased` speaks of every microphone of the page: all
go off once the button is up, unless one was granted when it was up already or while another was
open or being closed; such a one stays on in the code until it is released by a later press, or until the page
is reloaded (see Findings). `HeardWhole` excepts the
recordings in `spoilt`: the sound of two microphones goes out under one stream and one `seq`. A recording whose
button went up before the grant is not excepted. Two presses are enough for two
microphones at a time. Fairness: timers fire, sockets report that they are closed,
a context closes, the gateway answers a hello and can be reached again and again (`SF(Open)`).
`CHECK_DEADLOCK FALSE`: a page nobody uses rests.

### Proofs (`Reconnects_proofs`, second part)

From `UsageAssumption` (how often the page is used is a number) and `CacheAssumption` (a response has a
chunk, the cache a place), for any responses, numbers of chunks and uses of the page:

| Theorem | States |
|---------|--------|
| `PageIndHolds` | `PageSpec => []PageInd` |
| `PageCorrect` | `PageSpec => []PageInv` |
| `RecordingsWhole` | `PageSpec => []HeardWhole` |

Neither invariant survives a step alone. `PageInd` adds what they rest on:

* `SaidOnce`: a piece of sound is in the queue or has been heard, never both, and pieces to come are
  numbered below all of them. Without it flushing the queue (`HelloAck`) could repeat a piece.
* `Awaits`: of each delivery at most one command is under way, and an ack in the queue never
  answers a command that is sent after it. `CacheFollows` says what that gives: of a response the cache
  holds the first chunks up to the command the delivery has come to, so an end finds them all, also
  when the ack of a chunk waited in the queue while the response was given up.
* `Recorded`: what is heard or queued of a recording that is not spoilt is a beginning of it while it is
  on (`Going`) and all of it afterwards (`Whole`); it is never partly heard and partly queued.
* `Calm`: a recording that is on has a processor, and one that is not spoilt has the only one; a
  microphone that did not go astray is the only one, and the button is held. `Room` and `Greeted`
  count the recordings and the hellos.

What the gateway hears of a recording is a filter of what it hears (`Those`). `Kept`, `KeptNext`, `KeptOfBoth`,
`KeptOnce` and `AllKept` of `SequenceLemmas` say what a filter does to an element at the end, to two lists
and to elements that stand once. There is one lemma for each action.

## 11. RoutingPolicy and DeviceCommands

`RoutingPolicy` has `evaluate` and what it calls as operators. `DeviceCommands` has the tasks that send
on behalf of others: `pc`, `todo`, `step`, `answer` and `heard` are a task inside
`CommandDispatcher.send` (the devices it still has to serve, the command it is at, its future);
`last` is `CharacterRendererService._last_rendered`, `shown` what the devices show, `pack` the assigned
packs, `link` and `device_registry` the connections; `sure` the devices whose link lasted since
the picture was sent. The renderer awaits the send before it notes what it drew, and a send may
wait for a socket under back pressure: `drain` holds, for each device, the tasks that wait so, in
the order of their frames.

| Code | Actions |
|------|---------|
| `RoutingPolicy.evaluate` and its parts | `Evaluate`, `RouteShort`, `RouteLong`, `ExplicitFails`, `CanSpeak`, `Read`, `Foreground`, `Background`, `Capable` |
| `CommandDispatcher.send` | `Begin`, `GoOn`, `SendCommand`, `AckArrives`, `Timeout`, `Resume` |
| `CharacterRendererService` | `Event`, `Drawn` (up to the send), `Noted` (after it), `CapabilityUpdated`, `PictureOf` |
| HTTP handlers | `Command`, `Route`, `Synthesized`, `SetPack`, `End` |
| `DATPServer` | `Join`, `Leave` |

| Run | Instance | Shows |
|-----|----------|-------|
| `commands` | a status, a report and a playback or mute of one device whose link, pack and capabilities change; two texts routed to two devices, one of them lost; every text of six over every pair of 14 capabilities; fairness | `CommandsInv`, `ChoosesWell`, `Answered` |

`ChoosesWell` says to whom a text goes, for which no devices are named, without following the code's
lists: a short text goes to one foreground device at most, to one that can speak it if there is one,
to none only if none is in the foreground; a long one, or one for several, only to devices that can
speak it, to all of these in the background, to one in the foreground if there is one, to one at most
besides the background, and to none only if none can. This is what the code does and not what its
docstring says (section 14). It is checked over the last set of scenarios; the limits 30, 40 and 300
seconds lie on both sides of the texts' durations. That a device shows what a command means
before it gets the command is no property: a device with an assigned pack is not drawn at all, a
reconnected one is not drawn anew, and while one picture waits for the socket, another task may skip
its own as unchanged.
An acknowledgement that a device owes may come on the link after the next hello (the dispatcher
looks at the command's id only), unless the device has rebooted.
Fairness: the pool reads, a socket drains or its connection ends, the timer of `wait_for` fires and
ready tasks run.
`CHECK_DEADLOCK FALSE`: answered requests rest.

### Proofs (`DeviceChoice_proofs`, first part)

From `ScriptAssumption` (a script is a record of requests, capabilities and bounds), `FiniteAssumption`
(finitely many devices) and `PictureAssumption`, for any devices, tasks, pictures and scripts:

| Theorem | States |
|---------|--------|
| `CommandsCorrect` | `Spec => []CommandsInv` |
| `RightDevicesChosen` | `Spec => []ChoosesWell` |

`CommandsInv` is inductive as it stands. Besides the types and `CharacterKnown` it has `ToldOnline` (a
device is in `sure` only while its link is up, without which `Leave` and `Join` would break
`CharacterKnown`), `Serving` (a task that works has a device it serves, without which
`Head(todo[t])` would be no device) and `Draining` (a task that waits for a socket draws for that device
and waits once, without which another task's step could change the picture that `CharacterKnown`
expects). While a device's `drain` is not empty, `CharacterKnown` speaks of its last task: the notes are
made in the order of the sends, so the last note is the picture shown. It is proved in two halves,
`DevicesFit` and `TasksFit`, which few actions disturb together, with one lemma for each action;
`KnownRest` and `DrainingRest` say what the steps of others leave alone.

`ChoosesWell` is no invariant that steps preserve but a fact about the policy: `Kept` says what a list
comprehension (`Those`) keeps, shown by induction over the recursive function that defines it,
`Placed` and `Fluent` carry it to the lists the policy forms, and `ShortChosen` and `LongChosen` say
what is chosen from them.

## 12. Attention

Calls of `AttentionPolicy` do not yield, so each is an action: `Acquire`, `Denied`, `Release`,
`CheckTimeouts`, `RecordActivity`, `SetPriority`; `TimePasses` is the clock. `current`, `attention_queue`
and `config` are its fields; `priority`, `active`, `timed` and `quiet` are the entries of
`_device_attention` (quiet: no activity for the release time). Run `attention` takes three devices,
priorities 0 to 2, every configuration and symmetry over devices, checks `AttentionInv`, and
checks deadlock too. Priority decides only where `enable_priority` is set: otherwise a device of
less priority takes over (`test_acquire_attention_ignores_priority_when_disabled`), as in `Acquire`.

### Proofs (`DeviceChoice_proofs`, second part)

From `PriorityAssumption` (priorities are integers, `Nobody` is not), `DeviceAssumption` and
`ConfigAssumption`, for every set of devices, priorities and configurations:

| Theorem | States |
|---------|--------|
| `Inductive` | `AttentionSpec => []AttentionInv` |
| `TypeCorrect`, `OneDeviceAttended`, `NobodyWaitsIdly`, `EveryoneWaitsOnce` | its four parts |

The parts are inductive together: that a grant leaves one device active needs to know that the
device attended to before was the only one. The work is in the queue: `Inserted` and
`Removed` say what stands where after an insertion and a removal, `InsertedOnce` and `TakenOut` that
neither makes a device wait twice (the first two are in `SequenceLemmas`), `QueuedOnce` and `Shortened` carry this to `Queued` and to the
rest of the queue that `LetGo` leaves. There is one lemma for each action.

## 13. What is proved and what is only checked

Proved, for all values of the constants: the eight theorems of `DatpServer_proofs`, the six of
`AudioDelivery_proofs`, the seven of `DeviceChoice_proofs`, the seven of `Reconnects_proofs`, the
three of `HandheldApp_proofs`, the three of `WebSocketLink_proofs` and the ten of `VoiceTurn_proofs`. `TypeOK`, `LockDiscipline` and `IndInv` of the
first, `TypeOK`, `PendingTracksSends` and `IndInv` of the second are not in the runs any more: the
theorems cover them. Everything else named above is model-checked on the instances given.
Every invariant and every action property of the passing runs is stated by a theorem. Liveness stays
with TLC: it depends on fairness and `ENABLED`, which the prover does not treat. The library's filters and concatenations of any number of sequences (`SelectSeq`,
`FlattenSeq`) are recursive operators, which the provers cannot expand; `Those` of `Lists` and `Awaited` of
`AgentTurn` are recursive functions instead, and what they compute is proved by way of a shortest
counterexample, since the induction theorems take an operator that the provers cannot instantiate.
A composite invariant (`RegistryInv`, `TurnInv`, `UploadInv`, `LinkInv`, `AppInv`, `PageInv`, `CommandsInv`,
`AttentionInv`) is the conjunction of the named parts above it, each with its own comment.

## 14. Findings

`audio_route` is a finding with a run: `audio/delivery.py:199-200` says concurrent deliveries are
serialized, and `POST /api/route` sends the same commands without the lock.

The others came up while modelling. The models contain the behaviour as it is, and a property
excepts it where one says so.

Gateway, sessions and registry:

* `datp/server.py:117-118` says the entry is removed on exit. The `finally` block uses the id of the
  last frame whose dispatch returned; an invalid last frame, one that names another device, or
  a first hello whose ack failed leaves the entry. `CleanExit` (proved) says of which peers none
  stays: those acknowledged for a device whose later frames all parsed and named it.
* `registry/service.py:379` says only connected devices are returned; `device_registered` sets
  `_online` after its upsert, when the connection may be gone. While a reconnect awaits the old
  socket's close, the old `finally` block marks the device offline (`server.py:449-451` says it cannot).
* A hello clears the character pack, which `tests/test_character_packs_api.py:257` says is persisted.
  A hello that replaces a live connection finds nothing saved. After a restart of the gateway a
  reconnect overwrites the recorded count with a smaller one. The upsert of a replaced
  registration may run last and leave its session in the row.
* Two foreground requests read the same maximum (`store.py:382`), against `service.py:260`.
* `RegistryService.start` is never awaited (`gateway_app.py:230`): no device ever becomes unhealthy.

Questions and answers:

* Pi: at the end of file the whole text is sent once more as the final chunk, although its
  words were streamed. A final text replaces the accumulated one although it holds only the
  rest. A silent agent tells the device nothing. OpenClaw: a fully streamed answer ends without
  a final chunk, so segmenter state and number stay; an event that adds no text fails the turn.
* Only `AgentBackendError` is caught: any other failure, and every failure of a spoken
  question, tells the device nothing. `_record_agent_response` appends past the limit of 100. Two
  prompts with one text share a correlation id. The handheld appends deltas to a card whose title
  is still "Response", so answers of two questions mix on it.

Routing, characters, attention:

* `device_id` of `POST /api/route`, "backward compatible", is not an explicit selection, so the
  audio goes where the policy decides. A background device not declared non-foreground is
  chosen twice for a long text. `policy.py:391` is unreachable.
* `routing/policy.py:132-133` says that devices are filtered by `max_spoken_seconds` and that any
  available device is fallen back to when none is in the foreground. A short text goes to
  nobody then, although a device in the background could speak it (`RouteShort`), and goes to a
  foreground device that cannot speak it when none of them can; only long texts are filtered.
* The registry returns a pack's id and the renderer uses it as a pack: the error is swallowed and
  a device with an assigned pack shows no character. Assigning a pack redraws nothing.
* `_last_rendered` survives a disconnect, so a rebooted device is not drawn until its state changes.
  It is set after the send was awaited: while the socket is under back pressure a command whose picture is
  the one noted before is skipped as unchanged although another was sent meanwhile, and a
  capability update that empties it is overwritten by the note that follows.
* A device that was queued and then granted attention stays queued and gets it back when it
  lets go. A denied device the policy does not know is dropped. The priority asked for is not stored.

Clients:

* Handheld: audio read while the screen has left the recording is dropped; a mute during a
  capture still publishes on release; sound taken before the long press is dropped (comments
  `app.py:559`, `1650` say it is kept); an ack that raises loses the commands drained with it;
  commands queued before a reconnect are acknowledged on the new link; any `hello_ack` or error
  resolves the one waiter; a connection that ends normally passes for connected until the next
  state report.
* PWA: a button released before `getUserMedia` resolves leaves the microphone on until it is pressed and
  released again, and a second pointerdown before that (`controller.js:6-13` has no guard, `recorder.js:21`
  looks at `recording` only before its `await`) opens a second microphone: the first stays on until the page is
  reloaded, and the sound of both goes out as one stream; messages sent
  between open and `hello_ack` overtake the queue; every page uses one default device id, so two
  pages evict each other; a message given to a dead open socket is lost.
* websockets: `close()` may raise when the connection dies under its frame; the keepalive has no
  timeout while the ping cannot be written; a lost connection cancels what is read but not
  yet delivered.
* M5Stack: `main.py` never connects; gating reads another state object than the one that is
  updated; `audio.cache.put_end` and `device.set_led` are missing from the command table and are
  refused; `_handle_audio_stop` raises a `TypeError`.

## 15. Not modelled, and why

Multi-device selection, the coding workflow, agent integrations and the skill sandbox are not
constructed by `GatewayRuntime` (`gateway_app.py:135-228`) and are synchronous wrappers: no two
steps of them interleave. Speech backends, bootstrap, messages and the event bus are external
engines, wiring, formatting and a synchronous call. The dashboard and the command line read.
Inside modelled components: the checks of `HeartbeatMonitor` and the backoff of
`ReconnectionManager`, which nothing starts or calls; the management of agent processes and sockets;
files and drawing of character packs; timestamps; the resume token and nonce, which are carried
and never compared; exceptions other than those named; formatting, logging, configuration.

## 16. Running

    tlc -config MCDatpServer_three.cfg MCDatpServer      # and the other .cfg files
    tlapm DatpServer_proofs.tla
    tlapm AudioDelivery_proofs.tla
    tlapm DeviceChoice_proofs.tla
    tlapm Reconnects_proofs.tla
    tlapm HandheldApp_proofs.tla
    tlapm WebSocketLink_proofs.tla
    tlapm VoiceTurn_proofs.tla
