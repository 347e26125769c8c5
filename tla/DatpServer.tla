----------------------------- MODULE DatpServer -----------------------------
(***************************************************************************)
(* The session core of the Oi gateway: DATPServer (datp/server.py) with    *)
(* the presence map of RegistryService (registry/service.py) and the       *)
(* session column that DeviceStore persists (registry/store.py).           *)
(*                                                                         *)
(* Every WebSocket connection runs one asyncio task, _handle_connection;   *)
(* every HTTP request that switches a conversation runs another.  A task   *)
(* is atomic between two awaits, so one action below is the code from one  *)
(* await to the next.  The awaits at which tasks interleave are: the next  *)
(* frame, the per-device asyncio.Lock, old_entry["ws"].close(),            *)
(* ws.send(ack), and the SQLite upsert in the two-thread pool.             *)
(***************************************************************************)
EXTENDS Naturals, Sequences

CONSTANTS
  Device,         \* device ids that peers may put in an envelope
  Conn,           \* WebSocket connections; each is opened at most once
  Caller,         \* HTTP handlers calling update_device_conversation
  Choice,         \* the conversations the gateway offers
  DefaultChoice,  \* the one _resolve_conversation falls back to
  Unknown,        \* a request naming a backend or agent that does not exist
  None,           \* Python's None
  MaxSession,     \* bound: session ids issued (hello frames processed)
  MaxFrames,      \* bound: frames a peer sends on one connection
  PoolWorkers     \* threads of DeviceStore's executor (2 in the code)

Task == Conn \cup Caller
Request == Choice \cup {Unknown, None}

ASSUME ConnAssumption == Conn \cap Caller = {} /\ None \notin Task
ASSUME DeviceAssumption == None \notin Device
ASSUME ChoiceAssumption ==
  DefaultChoice \in Choice /\ Unknown \notin Choice /\ None \notin Choice
ASSUME BoundAssumption ==
  MaxSession \in Nat /\ MaxFrames \in Nat /\ PoolWorkers \in Nat \ {0}

VARIABLES
  \* --- DATPServer ---
  device_registry,  \* device -> its DeviceEntry, or NoEntry
  lockq,            \* device -> holder and waiters of its asyncio.Lock, FIFO
  stopping,         \* "no", "yes" (server.close() called), "stopped"
  issued,           \* session ids handed out so far (fresh by construction)
  \* --- RegistryService and DeviceStore ---
  online,           \* RegistryService._online
  row,              \* device -> session_id column of its row, 0 if no row
  jobs,             \* upserts submitted to the pool, in submission order
  \* --- the tasks ---
  pc,               \* task -> the await it is suspended at
  device_id,        \* connection -> local of _handle_connection
  dev, sess, conv,  \* task -> arguments of the call in progress
  peer,             \* task -> the connection it closes or notifies
  \* --- the sockets and the peers ---
  ws,               \* connection -> "new", "open", "closing", "closed"
  frames,           \* connection -> frames its peer may still have sent
  told,             \* connection, device -> last hello_ack its peer received,
                    \* NoAck once the socket is closed
  settled           \* history: connection -> device of the last hello_ack sent
                    \* on it, None again once its peer sent a frame that names
                    \* another device or cannot be parsed

serverVars == <<device_registry, lockq, stopping, issued>>
registryVars == <<online, row, jobs>>
taskVars == <<pc, device_id, dev, sess, conv, peer>>
wireVars == <<ws, frames, told, settled>>
vars == <<serverVars, registryVars, taskVars, wireVars>>

Entry == [ws : Conn \cup {None}, session : 0..MaxSession, conv : Choice]
NoEntry == [ws |-> None, session |-> 0, conv |-> DefaultChoice]
Ack == [session : 0..MaxSession, conv : Choice]
NoAck == [session |-> 0, conv |-> DefaultChoice]
Job == [task : Conn, dev : Device, session : 0..MaxSession]

ConnPC == {"new", "recv", "helloLock", "closeOld", "sendAck", "upsert",
           "upserted", "updateLock", "refuse", "notify", "done"}
CallerPC == {"idle", "updateLock", "notify"}

TypeOK ==
  /\ device_registry \in [Device -> Entry]
  /\ lockq \in [Device -> Seq(Task)]
  /\ stopping \in {"no", "yes", "stopped"}
  /\ issued \in 0..MaxSession
  /\ online \in [Device -> BOOLEAN]
  /\ row \in [Device -> 0..MaxSession]
  /\ jobs \in Seq(Job)
  /\ pc \in [Task -> ConnPC \cup CallerPC]
  /\ device_id \in [Conn -> Device \cup {None}]
  /\ dev \in [Task -> Device \cup {None}]
  /\ sess \in [Conn -> 0..MaxSession]
  /\ conv \in [Task -> Request]
  /\ peer \in [Task -> Conn \cup {None}]
  /\ ws \in [Conn -> {"new", "open", "closing", "closed"}]
  /\ frames \in [Conn -> 0..MaxFrames]
  /\ told \in [Conn -> [Device -> Ack]]
  /\ settled \in [Conn -> Device \cup {None}]

Init ==
  /\ device_registry = [d \in Device |-> NoEntry]
  /\ lockq = [d \in Device |-> <<>>]
  /\ stopping = "no"
  /\ issued = 0
  /\ online = [d \in Device |-> FALSE]
  /\ row = [d \in Device |-> 0]
  /\ jobs = <<>>
  /\ pc = [t \in Task |-> IF t \in Conn THEN "new" ELSE "idle"]
  /\ device_id = [c \in Conn |-> None]
  /\ dev = [t \in Task |-> None]
  /\ sess = [c \in Conn |-> 0]
  /\ conv = [t \in Task |-> None]
  /\ peer = [t \in Task |-> None]
  /\ ws = [c \in Conn |-> "new"]
  /\ frames = [c \in Conn |-> MaxFrames]
  /\ told = [c \in Conn |-> [d \in Device |-> NoAck]]
  /\ settled = [c \in Conn |-> None]

-----------------------------------------------------------------------------
(* Helpers.                                                                *)

\* _connection_owns_device: the registry entry is this very socket's.
Owns(c, d) == device_registry[d].ws = c

\* The device's asyncio.Lock: acquire queues, the head holds it.
Holds(t, d) == lockq[d] # <<>> /\ Head(lockq[d]) = t
Acquire(t, d) == lockq' = [lockq EXCEPT ![d] = Append(@, t)]
Release(t, d) == lockq' = [lockq EXCEPT ![d] = Tail(@)]

\* _validate_conversation_request with strict_selection=True.
Valid(request) == request \in Choice \cup {None}

\* _resolve_conversation: what is not offered falls back to the default.
Resolve(request) == IF request \in Choice THEN request ELSE DefaultChoice

\* A call returns and its arguments go out of scope.
Forget(t) ==
  /\ dev' = [dev EXCEPT ![t] = None]
  /\ conv' = [conv EXCEPT ![t] = None]
  /\ peer' = [peer EXCEPT ![t] = None]
  /\ sess' = [c \in Conn |-> IF c = t THEN 0 ELSE sess[c]]

\* _dispatch returns id and the task awaits the next of the frames left.
Returns(c, id, left) ==
  /\ pc' = [pc EXCEPT ![c] = "recv"]
  /\ device_id' = [device_id EXCEPT ![c] = id]
  /\ frames' = [frames EXCEPT ![c] = left]
  /\ Forget(c)
  /\ UNCHANGED <<device_registry, online>>

\* Mutated: device_disconnected whether or not the socket still owns the entry.
FinalizeUnchecked(c) ==
  /\ device_registry' = [d \in Device |->
        IF d = device_id[c] /\ Owns(c, d) THEN NoEntry ELSE device_registry[d]]
  /\ online' = [d \in Device |-> IF d = device_id[c] THEN FALSE ELSE online[d]]
  /\ pc' = [pc EXCEPT ![c] = "done"]
  /\ frames' = [frames EXCEPT ![c] = 0]
  /\ Forget(c)
  /\ UNCHANGED device_id

\* Mutated: the entry is deleted without asking whose it is.
FinalizeAnyEntry(c) ==
  /\ device_registry' = [d \in Device |->
        IF d = device_id[c] THEN NoEntry ELSE device_registry[d]]
  /\ online' = [d \in Device |-> IF d = device_id[c] THEN FALSE ELSE online[d]]
  /\ pc' = [pc EXCEPT ![c] = "done"]
  /\ frames' = [frames EXCEPT ![c] = 0]
  /\ Forget(c)
  /\ UNCHANGED device_id

\* The connection ends, or a send in _dispatch raises ConnectionClosed: the
\* finally block, with the device_id of the last frame whose dispatch returned.
\* device_disconnected is a no-op when the device is offline already.
Finalize(c) ==
  LET gone == {d \in Device : d = device_id[c] /\ Owns(c, d)}
  IN /\ device_registry' = [d \in Device |->
            IF d \in gone THEN NoEntry ELSE device_registry[d]]
     /\ online' = [d \in Device |-> IF d \in gone THEN FALSE ELSE online[d]]
     /\ pc' = [pc EXCEPT ![c] = "done"]
     /\ frames' = [frames EXCEPT ![c] = 0]
     /\ Forget(c)
     /\ UNCHANGED device_id

\* Mutated: _dispatch forgets whose frame it refused.
RepliesUnnamed(c, id, left) ==
  \/ ws[c] = "open" /\ Returns(c, None, left)
  \/ ws[c] = "closed" /\ Finalize(c)

\* _dispatch awaits ws.send(error) and returns id if the peer is still there.
Replies(c, id, left) ==
  \/ ws[c] = "open" /\ Returns(c, id, left)
  \/ ws[c] = "closed" /\ Finalize(c)

\* An update asked for by an HTTP handler returns to it.
CallReturns(t) ==
  /\ t \in Caller
  /\ pc' = [pc EXCEPT ![t] = "idle"]
  /\ Forget(t)
  /\ UNCHANGED <<device_registry, online, device_id, frames>>

\* The task takes the next frame from the socket.  Frames that arrived before
\* the close are still delivered after it.
Receive(c) ==
  /\ pc[c] = "recv"
  /\ frames[c] > 0

\* The device_id of the frame taken, None if it cannot be parsed.
Names(c, id) == settled' = [settled EXCEPT ![c] = IF @ = id THEN id ELSE None]

-----------------------------------------------------------------------------
(* The sockets.                                                            *)

\* A peer connects; a connection accepted while the server stops is closed.
Accept(c) ==
  /\ pc[c] = "new"
  /\ IF stopping = "no"
     THEN /\ ws' = [ws EXCEPT ![c] = "open"]
          /\ pc' = [pc EXCEPT ![c] = "recv"]
     ELSE /\ stopping = "yes"
          /\ ws' = [ws EXCEPT ![c] = "closed"]
          /\ pc' = [pc EXCEPT ![c] = "done"]
  /\ UNCHANGED <<serverVars, registryVars, device_id, dev, sess, conv, peer,
                 frames, told, settled>>

\* The peer closes, the link breaks, or the keepalive gives up.
ConnectionLost(c) ==
  /\ ws[c] = "open"
  /\ ws' = [ws EXCEPT ![c] = "closed"]
  /\ told' = [told EXCEPT ![c] = [d \in Device |-> NoAck]]
  /\ UNCHANGED <<serverVars, registryVars, taskVars, frames, settled>>

\* A close started by the gateway ends: peer's close frame, or close_timeout.
CloseCompletes(c) ==
  /\ ws[c] = "closing"
  /\ ws' = [ws EXCEPT ![c] = "closed"]
  /\ told' = [told EXCEPT ![c] = [d \in Device |-> NoAck]]
  /\ UNCHANGED <<serverVars, registryVars, taskVars, frames, settled>>

\* The iteration over the socket ends and the finally block runs.
ConnectionEnds(c) ==
  /\ pc[c] = "recv"
  /\ ws[c] = "closed"
  /\ Finalize(c)
  /\ UNCHANGED <<lockq, stopping, issued, row, jobs, ws, told, settled>>

-----------------------------------------------------------------------------
(* _dispatch: frames other than hello and conversation.update.             *)

\* A frame that parse_message rejects: INVALID_JSON, and _dispatch returns None.
ReceiveInvalid(c) ==
  /\ Receive(c)
  /\ Names(c, None)
  /\ Replies(c, None, frames[c] - 1)
  /\ UNCHANGED <<lockq, stopping, issued, row, jobs, ws, told>>

\* A frame answered with an error: sender does not own d (UNKNOWN_DEVICE,
\* DEVICE_ID_MISMATCH), a command, an unknown type, a malformed conversation.
ReceiveRefused(c, d) ==
  /\ Receive(c)
  /\ Names(c, d)
  /\ Replies(c, d, frames[c] - 1)
  /\ UNCHANGED <<lockq, stopping, issued, row, jobs, ws, told>>

\* event, state, audio_chunk, ack or error of the owned device: to the bus.
ReceiveOwned(c, d) ==
  /\ Receive(c)
  /\ Owns(c, d)
  /\ Names(c, d)
  /\ Returns(c, d, frames[c] - 1)
  /\ UNCHANGED <<lockq, stopping, issued, row, jobs, ws, told>>

-----------------------------------------------------------------------------
(* _handle_hello.                                                          *)

\* A well-formed hello: a fresh session id, then queue for the device lock.
ReceiveHello(c, d, request) ==
  /\ Receive(c)
  /\ frames' = [frames EXCEPT ![c] = @ - 1]
  /\ Names(c, d)
  /\ issued < MaxSession
  /\ issued' = issued + 1
  /\ sess' = [sess EXCEPT ![c] = issued + 1]
  /\ dev' = [dev EXCEPT ![c] = d]
  /\ conv' = [conv EXCEPT ![c] = request]
  /\ pc' = [pc EXCEPT ![c] = "helloLock"]
  /\ Acquire(c, d)
  /\ UNCHANGED <<device_registry, stopping, registryVars, device_id, peer,
                 ws, told>>

\* An unknown backend or agent: INVALID_CONVERSATION, the lock is released.
HelloRejected(c) ==
  LET d == dev[c] IN
  /\ pc[c] = "helloLock"
  /\ Holds(c, d)
  /\ ~Valid(conv[c])
  /\ Release(c, d)
  /\ Replies(c, d, frames[c])
  /\ UNCHANGED <<stopping, issued, row, jobs, ws, told, settled>>

\* The new entry replaces whatever the registry holds by then.
Install(c, d) ==
  /\ device_registry' = [device_registry EXCEPT ![d] =
        [ws |-> c, session |-> sess[c], conv |-> Resolve(conv[c])]]
  /\ pc' = [pc EXCEPT ![c] = "sendAck"]

\* Mutated: the old connection is replaced without being closed.
InstallOverOpen(c) ==
  /\ pc[c] = "helloLock"
  /\ Holds(c, dev[c])
  /\ Valid(conv[c])
  /\ online' = [online EXCEPT ![dev[c]] = TRUE]
  /\ Install(c, dev[c])
  /\ UNCHANGED <<lockq, stopping, issued, row, jobs, device_id, dev, sess, conv,
                 peer, wireVars>>

\* First hello of the device, or the old socket is already closed:
\* _mark_online and the new entry without an await in between.
HelloInstalls(c) ==
  LET d == dev[c] IN
  /\ pc[c] = "helloLock"
  /\ Holds(c, d)
  /\ Valid(conv[c])
  /\ device_registry[d].ws # None => ws[device_registry[d].ws] = "closed"
  /\ online' = [online EXCEPT ![d] = TRUE]
  /\ Install(c, d)
  /\ UNCHANGED <<lockq, stopping, issued, row, jobs, device_id, dev, sess, conv,
                 peer, wireVars>>

\* Reconnect: _mark_online, then await the close of the old socket.
HelloClosesOld(c) ==
  LET d == dev[c]
      old == device_registry[d].ws
  IN
  /\ pc[c] = "helloLock"
  /\ Holds(c, d)
  /\ Valid(conv[c])
  /\ old # None
  /\ ws[old] # "closed"
  /\ online' = [online EXCEPT ![d] = TRUE]
  /\ ws' = [ws EXCEPT ![old] = "closing"]
  /\ peer' = [peer EXCEPT ![c] = old]
  /\ pc' = [pc EXCEPT ![c] = "closeOld"]
  /\ UNCHANGED <<serverVars, row, jobs, device_id, dev, sess, conv, frames, told,
                 settled>>

\* The old socket is closed; its task may or may not have run its finally.
OldClosed(c) ==
  /\ pc[c] = "closeOld"
  /\ ws[peer[c]] = "closed"
  /\ Install(c, dev[c])
  /\ UNCHANGED <<lockq, stopping, issued, registryVars, device_id, dev, sess, conv,
                 peer, wireVars>>

\* hello_ack is out; the lock is released and device_registered submits the row.
AckSent(c) ==
  LET d == dev[c] IN
  /\ pc[c] = "sendAck"
  /\ ws[c] = "open"
  /\ told' = [told EXCEPT ![c][d] =
        [session |-> sess[c], conv |-> Resolve(conv[c])]]
  /\ settled' = [settled EXCEPT ![c] = d]
  /\ Release(c, d)
  /\ jobs' = Append(jobs, [task |-> c, dev |-> d, session |-> sess[c]])
  /\ pc' = [pc EXCEPT ![c] = "upsert"]
  /\ conv' = [conv EXCEPT ![c] = None]
  /\ peer' = [peer EXCEPT ![c] = None]
  /\ UNCHANGED <<device_registry, stopping, issued, online, row, device_id, dev,
                 sess, ws, frames>>

\* Mutated: the lock is not released when the hello_ack cannot be sent.
AckFailsLocked(c) ==
  /\ pc[c] = "sendAck"
  /\ ws[c] = "closed"
  /\ Finalize(c)
  /\ UNCHANGED <<lockq, stopping, issued, row, jobs, ws, told, settled>>

\* The peer left before its hello_ack: ConnectionClosed unwinds to the finally.
AckFails(c) ==
  /\ pc[c] = "sendAck"
  /\ ws[c] = "closed"
  /\ Release(c, dev[c])
  /\ Finalize(c)
  /\ UNCHANGED <<stopping, issued, row, jobs, ws, told, settled>>

-----------------------------------------------------------------------------
(* RegistryService.device_registered and the store's pool.                 *)

JobsBut(i) == SubSeq(jobs, 1, i - 1) \o SubSeq(jobs, i + 1, Len(jobs))

\* A pool thread commits one of the upserts it may be running: the first
\* PoolWorkers jobs run concurrently and commit in either order.
PoolCommits(i) ==
  /\ i \in 1..Len(jobs)
  /\ i <= PoolWorkers
  /\ row' = [row EXCEPT ![jobs[i].dev] = jobs[i].session]
  /\ pc' = [pc EXCEPT ![jobs[i].task] = "upserted"]
  /\ jobs' = JobsBut(i)
  /\ UNCHANGED <<serverVars, online, device_id, dev, sess, conv, peer, wireVars>>

\* device_registered resumes after the upsert and marks the device online.
Registered(c) ==
  /\ pc[c] = "upserted"
  /\ online' = [online EXCEPT ![dev[c]] = TRUE]
  /\ pc' = [pc EXCEPT ![c] = "recv"]
  /\ device_id' = [device_id EXCEPT ![c] = dev[c]]
  /\ Forget(c)
  /\ UNCHANGED <<serverVars, row, jobs, wireVars>>

-----------------------------------------------------------------------------
(* update_device_conversation, from the device or from the HTTP API.       *)

AskUpdate(t, d, request) ==
  /\ dev' = [dev EXCEPT ![t] = d]
  /\ conv' = [conv EXCEPT ![t] = request]
  /\ pc' = [pc EXCEPT ![t] = "updateLock"]
  /\ Acquire(t, d)
  /\ UNCHANGED <<device_registry, stopping, issued, registryVars, device_id, sess,
                 peer, ws, told>>

ReceiveUpdate(c, d, request) ==
  /\ Receive(c)
  /\ frames' = [frames EXCEPT ![c] = @ - 1]
  /\ Owns(c, d)
  /\ Names(c, d)
  /\ AskUpdate(c, d, request)

CallUpdate(t, d, request) ==
  /\ t \in Caller
  /\ pc[t] = "idle"
  /\ stopping = "no"
  /\ device_registry[d].ws # None
  /\ AskUpdate(t, d, request)
  /\ UNCHANGED <<frames, settled>>

\* No entry any more, or an invalid request: nothing is changed and the lock is
\* released.  An HTTP handler has its answer, a device is yet to be sent one.
UpdateRefused(t) ==
  LET d == dev[t] IN
  /\ pc[t] = "updateLock"
  /\ Holds(t, d)
  /\ device_registry[d].ws = None \/ ~Valid(conv[t])
  /\ Release(t, d)
  /\ \/ /\ t \in Conn
        /\ pc' = [pc EXCEPT ![t] = "refuse"]
        /\ UNCHANGED <<device_registry, online, device_id, dev, sess, conv, peer,
                       frames>>
     \/ CallReturns(t)
  /\ UNCHANGED <<stopping, issued, row, jobs, ws, told, settled>>

\* UNKNOWN_DEVICE or INVALID_CONVERSATION is sent without the lock.
RefusalSent(c) ==
  /\ pc[c] = "refuse"
  /\ Replies(c, dev[c], frames[c])
  /\ UNCHANGED <<lockq, stopping, issued, row, jobs, ws, told, settled>>

\* Mutated: the device is notified after the lock is released.
UpdateThenUnlock(t) ==
  LET d == dev[t] IN
  /\ pc[t] = "updateLock"
  /\ Holds(t, d)
  /\ device_registry[d].ws # None
  /\ Valid(conv[t])
  /\ device_registry' = [device_registry EXCEPT ![d].conv = Resolve(conv[t])]
  /\ peer' = [peer EXCEPT ![t] = device_registry[d].ws]
  /\ pc' = [pc EXCEPT ![t] = "notify"]
  /\ Release(t, d)
  /\ UNCHANGED <<stopping, issued, registryVars, device_id, dev, sess, conv, wireVars>>

\* entry["conversation"] is replaced, then the device is notified, still under
\* the lock.
UpdateApplies(t) ==
  LET d == dev[t] IN
  /\ pc[t] = "updateLock"
  /\ Holds(t, d)
  /\ device_registry[d].ws # None
  /\ Valid(conv[t])
  /\ device_registry' = [device_registry EXCEPT ![d].conv = Resolve(conv[t])]
  /\ peer' = [peer EXCEPT ![t] = device_registry[d].ws]
  /\ pc' = [pc EXCEPT ![t] = "notify"]
  /\ UNCHANGED <<lockq, stopping, issued, registryVars, device_id, dev, sess, conv,
                 wireVars>>

\* The hello_ack of the update is sent, or dropped when the device has gone.
Notified(t) ==
  LET d == dev[t] IN
  /\ pc[t] = "notify"
  /\ ws[peer[t]] # "closing"
  /\ told' = IF ws[peer[t]] = "open"
             THEN [told EXCEPT ![peer[t]][d] =
                    [session |-> device_registry[d].session,
                     conv |-> Resolve(conv[t])]]
             ELSE told
  /\ Release(t, d)
  /\ \/ t \in Conn /\ Returns(t, d, frames[t])
     \/ CallReturns(t)
  /\ UNCHANGED <<stopping, issued, row, jobs, ws, settled>>

-----------------------------------------------------------------------------
(* DATPServer.stop.                                                        *)

\* Mutated: the listening socket is closed, the connections are not.
StopListening ==
  /\ stopping = "no"
  /\ stopping' = "yes"
  /\ UNCHANGED <<device_registry, lockq, issued, registryVars, taskVars, wireVars>>

\* _stopping is set and server.close() starts closing every connection.
StopBegins ==
  /\ stopping = "no"
  /\ stopping' = "yes"
  /\ ws' = [c \in Conn |-> IF ws[c] = "open" THEN "closing" ELSE ws[c]]
  /\ UNCHANGED <<device_registry, lockq, issued, registryVars, taskVars, frames,
                 told, settled>>

\* wait_closed returns when every handler has; entries that are still there
\* are reported as disconnected.
StopEnds ==
  /\ stopping = "yes"
  /\ \A c \in Conn : pc[c] \in {"new", "done"}
  /\ stopping' = "stopped"
  /\ online' = [d \in Device |->
        IF device_registry[d].ws = None THEN online[d] ELSE FALSE]
  /\ UNCHANGED <<device_registry, lockq, issued, row, jobs, taskVars, wireVars>>

-----------------------------------------------------------------------------
\* What the gateway's event loop and its pool threads do on their own.
Progress ==
  \/ \E c \in Conn : \/ CloseCompletes(c) \/ ConnectionEnds(c)
                     \/ HelloRejected(c) \/ HelloInstalls(c) \/ HelloClosesOld(c)
                     \/ OldClosed(c) \/ AckSent(c) \/ AckFails(c)
                     \/ Registered(c) \/ RefusalSent(c)
  \/ \E t \in Task : UpdateRefused(t) \/ UpdateApplies(t) \/ Notified(t)
  \/ \E i \in 1..Len(jobs) : PoolCommits(i)
  \/ StopEnds

\* What peers, HTTP clients and the operator do.
Environment ==
  \/ \E c \in Conn : Accept(c) \/ ConnectionLost(c) \/ ReceiveInvalid(c)
  \/ \E c \in Conn, d \in Device : ReceiveRefused(c, d) \/ ReceiveOwned(c, d)
  \/ \E c \in Conn, d \in Device, r \in Request :
        ReceiveHello(c, d, r) \/ ReceiveUpdate(c, d, r)
  \/ \E t \in Caller, d \in Device, r \in Request : CallUpdate(t, d, r)
  \/ StopBegins

Next == Progress \/ Environment

Spec == Init /\ [][Next]_vars

\* asyncio runs every ready task, asyncio.Lock is first come first served, a
\* close ends at the latest after close_timeout, and a pool thread finishes the
\* statement it runs.  Nothing is assumed of peers, HTTP clients or operator.
Fairness ==
  /\ \A c \in Conn :
       /\ WF_vars(CloseCompletes(c))
       /\ WF_vars(ConnectionEnds(c))
       /\ WF_vars(HelloRejected(c) \/ HelloInstalls(c) \/ HelloClosesOld(c))
       /\ WF_vars(OldClosed(c))
       /\ WF_vars(AckSent(c) \/ AckFails(c))
       /\ WF_vars(Registered(c))
       /\ WF_vars(RefusalSent(c))
  /\ \A t \in Task : WF_vars(UpdateRefused(t) \/ UpdateApplies(t) \/ Notified(t))
  /\ WF_vars(PoolCommits(1))
  /\ WF_vars(StopEnds)

FairSpec == Spec /\ Fairness

-----------------------------------------------------------------------------
(* Safety.                                                                 *)

Critical == {"closeOld", "sendAck", "notify"}

\* A task that is past the lock of a device and has not released it is its
\* holder: replacing an entry, acknowledging it and switching its conversation
\* never overlap on one device (async with self._device_lock).
LockDiscipline ==
  \A t \in Task : pc[t] \in Critical => Holds(t, dev[t])

\* A socket that is open and was given a hello_ack for a device is the one the
\* registry routes that device's commands to, under the session it was told: no
\* superseded socket stays open (the comment on closing the prior connection).
OneVoice ==
  \A c \in Conn, d \in Device :
    ws[c] = "open" /\ told[c][d].session # 0
      => /\ device_registry[d].ws = c
         /\ device_registry[d].session = told[c][d].session

\* Whenever nobody holds the device lock, the conversation the connected device
\* last read in a hello_ack is the one the gateway uses for its requests.
ToldTheTruth ==
  \A d \in Device :
    LET e == device_registry[d] IN
    lockq[d] = <<>> /\ e.ws # None /\ ws[e.ws] = "open"
      => told[e.ws][d].session = e.session /\ told[e.ws][d].conv = e.conv

\* While the gateway is not stopping, a device whose entry holds an open socket is
\* online, unless that very connection is on the way from installing the entry to
\* the return of device_registered: _mark_online, the finalizer of the old
\* connection and another registration in flight cannot leave a session that is
\* registered, and that the registry routes to, marked offline.
ConnectedIsOnline ==
  \A d \in Device :
    LET c == device_registry[d].ws IN
    /\ stopping = "no"
    /\ c # None
    /\ ws[c] = "open"
    /\ ~online[d]
    => dev[c] = d /\ pc[c] \in {"sendAck", "upsert", "upserted"}

\* On exit the entry is removed (_handle_connection): a peer that was sent a
\* hello_ack for a device, and whose frames since then all parsed and named that
\* device, leaves no entry of that device behind, whether its frames were routed,
\* refused, or broken off in the middle of a second hello or an update.  Of the
\* peers this leaves out (no hello_ack yet, or a later frame that names another
\* device or none) an entry does stay; README section 14 shows the steps.
CleanExit ==
  \A c \in Conn, d \in Device :
    settled[c] = d /\ pc[c] = "done" => device_registry[d].ws # c

\* What a task suspended inside _handle_hello or update_device_conversation can
\* rely on when it resumes.  Its arguments are those of a call:
InCall ==
  /\ \A t \in Task : pc[t] \in Critical \cup {"helloLock", "updateLock", "refuse"}
                       => dev[t] \in Device
  /\ \A t \in Task : pc[t] \in {"closeOld", "notify"} => peer[t] \in Conn
  /\ \A c \in Conn : pc[c] \in {"helloLock", "closeOld", "sendAck"} => sess[c] # 0

\* the entry a hello is about to replace is the old connection's or gone;
ReplacingOld ==
  \A c \in Conn : pc[c] = "closeOld" =>
    /\ device_registry[dev[c]].ws \in {None, peer[c]}
    /\ ws[peer[c]] \in {"closing", "closed"}

\* the entry a hello acknowledges is still the one it installed;
Acknowledging ==
  \A c \in Conn : pc[c] = "sendAck" =>
    LET e == device_registry[dev[c]] IN
    e.ws = c /\ e.session = sess[c] /\ e.conv = Resolve(conv[c])

\* the entry an update edited is still there, unless its connection has ended.
Notifying ==
  \A t \in Task : pc[t] = "notify" =>
    LET e == device_registry[dev[t]] IN
    \/ e.ws = None /\ ws[peer[t]] = "closed"
    \/ e.ws = peer[t] /\ e.conv = Resolve(conv[t])

\* A connection that is yet to be accepted has left no trace.
Unused ==
  \A c \in Conn :
    /\ pc[c] = "new" <=> ws[c] = "new"
    /\ pc[c] = "new" => \A d \in Device :
         device_registry[d].ws # c /\ told[c][d].session = 0

\* Every upsert in the pool is awaited by a task of its own.
Submitted ==
  /\ \A i \in 1..Len(jobs) : pc[jobs[i].task] = "upsert"
  /\ \A i, j \in 1..Len(jobs) : jobs[i].task = jobs[j].task => i = j

\* The device holds the truth whenever no acknowledgement is on its way to it.
ToldUnlessSending ==
  \A d \in Device :
    LET e == device_registry[d] IN
    /\ e.ws # None
    /\ ws[e.ws] = "open"
    /\ \A t \in Task : pc[t] \in {"sendAck", "notify"} => dev[t] # d
    => told[e.ws][d].session = e.session /\ told[e.ws][d].conv = e.conv

\* An entry whose connection is over is one that its finally block did not look
\* at: device_id is that of the last frame whose dispatch returned.
LeftBehind ==
  \A d \in Device :
    LET c == device_registry[d].ws IN
    c # None /\ pc[c] = "done" => device_id[c] # d

\* From its hello_ack on, the finally block of a connection that speaks of one
\* device will look at that device, once device_registered has returned.
Settling ==
  \A c \in Conn : settled[c] # None =>
    IF pc[c] \in {"upsert", "upserted"}
    THEN dev[c] = settled[c]
    ELSE device_id[c] = settled[c] /\ dev[c] \in {None, settled[c]}

\* The inductive invariant behind LockDiscipline, OneVoice, ToldTheTruth,
\* CleanExit and the refinement.
IndInv ==
  /\ TypeOK
  /\ LockDiscipline
  /\ InCall
  /\ ReplacingOld
  /\ Acknowledging
  /\ Notifying
  /\ Unused
  /\ Submitted
  /\ OneVoice
  /\ ToldUnlessSending
  /\ LeftBehind
  /\ Settling

-----------------------------------------------------------------------------
(* The abstract specification this one implements.                         *)

Ownership == INSTANCE DeviceOwnership WITH
  owner <- [d \in Device |-> device_registry[d].ws],
  open <- {c \in Conn : ws[c] = "open"},
  ended <- {c \in Conn : ws[c] \in {"closing", "closed"}}

\* A device id changes hands only once its former connection is closed or being
\* closed, and is dropped only when its connection is gone.
ImplementsOwnership == Ownership!Spec

-----------------------------------------------------------------------------
(* Liveness.                                                               *)

\* Every hello is settled: acknowledged and registered, rejected, or its
\* connection is over.  No chain of lock waits, closes of old sockets (its own
\* included) and notifications can hang it.
HelloSettles ==
  \A c \in Conn : pc[c] = "helloLock" ~> pc[c] \in {"recv", "done"}

\* DATPServer.stop terminates, whatever the handlers were doing.
StopTerminates == stopping = "yes" ~> stopping = "stopped"
=============================================================================
