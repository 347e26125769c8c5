---------------------------- MODULE WebSocketLink ----------------------------
(***************************************************************************)
(* The WebSocket connection under the DATP client of the handheld, as the  *)
(* vendored websockets library runs it (lib/websockets/legacy/protocol.py):*)
(* at each end a task that reads frames, one that sends keepalive pings,   *)
(* one that closes the TCP connection, and the application's calls of      *)
(* recv, send and close.  What the two ends are between awaits is atomic.  *)
(*                                                                         *)
(* Time passes at will: a wait that has a timeout may end by it at once.   *)
(* The network delivers in order, late or never, and may reset.            *)
(***************************************************************************)
EXTENDS Naturals, Sequences

CONSTANTS
  MaxQueue,      \* max_queue: messages received and not yet taken
  WriteLimit,    \* frames under way before a writer has to wait
  CanWriteEof,   \* transport.can_write_eof: FALSE over TLS
  Application,   \* bound: what the applications may do, one of these
  TooBig         \* bound: the messages that exceed max_size, <<end, number>>

Side == {"client", "server"}
Peer(s) == IF s = "client" THEN "server" ELSE "client"

Normal == 1000
TooBigCode == 1009
InternalError == 1011
Abnormal == 1006        \* no close frame
OkCode == {1000, 1001, 1005}

ASSUME LimitAssumption == MaxQueue \in Nat \ {0} /\ WriteLimit \in Nat /\ CanWriteEof \in BOOLEAN
\* The ends with a ping_interval, those that call recv and close, how many
\* messages each sends, and the connections the network resets by itself.
ASSUME BoundAssumption ==
  /\ \A a \in Application :
       /\ a.pings \subseteq Side /\ a.receives \subseteq Side /\ a.closes \subseteq Side
       /\ a.sends \in [Side -> Nat]
       /\ a.resets \in Nat
  /\ TooBig \subseteq Side \X Nat

VARIABLES
  wire,             \* end -> frames it wrote and the other has not read
  tcp,              \* end -> its transport
  eof,              \* end -> nothing more will come into its reader
  broken,           \* end -> its reader has an exception
  aborted,          \* end -> its transport was aborted
  resets,           \* connections the network will still reset
  state, close_rcvd, close_sent, close_rcvd_then_sent,
  messages,         \* end -> messages received and not yet taken
  transfer, inhand, \* transfer_data_task, and the message it has no room for
  keepalive, pings, \* keepalive_ping_task, and whether a pong is awaited
  closer,           \* close_connection_task
  recv, woken,      \* a call of recv, and its _pop_message_waiter
  send, close,      \* calls of send and close
  unsent,           \* end -> messages its application will still send
  waits,            \* history: timeouts that went by during close()
  written, got      \* history: messages written, messages recv returned

network == <<wire, tcp, eof, broken, aborted, resets>>
handshake == <<state, close_rcvd, close_sent, close_rcvd_then_sent>>
received == <<messages, transfer, inhand>>
calls == <<recv, woken, send, close, unsent, waits, written, got>>
vars == <<network, handshake, received, keepalive, pings, closer, calls>>

Data(n) == [op |-> "data", n |-> n]
CloseFrame(code) == [op |-> "close", n |-> code]
Ping == [op |-> "ping", n |-> 0]
Pong == [op |-> "pong", n |-> 0]
Code == {Normal, TooBigCode, InternalError}
Frame == [op : {"data"}, n : Nat] \cup [op : {"close"}, n : Code] \cup {Ping, Pong}
None == 0

TypeOK ==
  /\ resets \in Nat
  /\ wire \in [Side -> Seq(Frame)]
  /\ tcp \in [Side -> {"up", "half", "closing", "lost"}]
  /\ eof \in [Side -> BOOLEAN] /\ broken \in [Side -> BOOLEAN] /\ aborted \in [Side -> BOOLEAN]
  /\ state \in [Side -> {"OPEN", "CLOSING", "CLOSED"}]
  /\ close_rcvd \in [Side -> Code \cup {None}] /\ close_sent \in [Side -> Code \cup {None}]
  /\ close_rcvd_then_sent \in [Side -> {"unset", "yes", "no"}]
  /\ messages \in [Side -> Seq(Nat)] /\ \A s \in Side : Len(messages[s]) <= MaxQueue
  /\ transfer \in [Side -> {"reading", "answering", "echoing", "full", "cancelled", "done"}]
  /\ inhand \in [Side -> Nat]
  /\ keepalive \in [Side -> {"off", "sleeping", "draining", "waiting", "done"}]
  /\ pings \in [Side -> BOOLEAN]
  /\ closer \in [Side -> {"transfer", "tcp", "half", "close", "done"}]
  /\ recv \in [Side -> {"never", "idle", "waiting", "ensuring", "ok", "error"}]
  /\ woken \in [Side -> BOOLEAN]
  /\ send \in [Side -> {"idle", "draining", "ensuring", "failed"}]
  /\ close \in [Side -> {"never", "idle", "draining", "transfer", "tcp", "done"}]
  /\ unsent \in [Side -> Nat] /\ waits \in [Side -> Nat]
  /\ written \in [Side -> Nat] /\ got \in [Side -> Seq(Nat)]

Init ==
  /\ wire = [s \in Side |-> <<>>]
  /\ tcp = [s \in Side |-> "up"]
  /\ eof = [s \in Side |-> FALSE]
  /\ broken = [s \in Side |-> FALSE]
  /\ aborted = [s \in Side |-> FALSE]
  /\ state = [s \in Side |-> "OPEN"]
  /\ close_rcvd = [s \in Side |-> None]
  /\ close_sent = [s \in Side |-> None]
  /\ close_rcvd_then_sent = [s \in Side |-> "unset"]
  /\ messages = [s \in Side |-> <<>>]
  /\ transfer = [s \in Side |-> "reading"]
  /\ inhand = [s \in Side |-> None]
  /\ \E a \in Application :
       /\ keepalive = [s \in Side |-> IF s \in a.pings THEN "sleeping" ELSE "off"]
       /\ recv = [s \in Side |-> IF s \in a.receives THEN "idle" ELSE "never"]
       /\ close = [s \in Side |-> IF s \in a.closes THEN "idle" ELSE "never"]
       /\ unsent = a.sends
       /\ resets = a.resets
  /\ pings = [s \in Side |-> FALSE]
  /\ closer = [s \in Side |-> "transfer"]
  /\ woken = [s \in Side |-> FALSE]
  /\ send = [s \in Side |-> "idle"]
  /\ waits = [s \in Side |-> 0]
  /\ written = [s \in Side |-> 0]
  /\ got = [s \in Side |-> <<>>]

-----------------------------------------------------------------------------
(* Writing, draining, failing.                                              *)

Lost(s) == tcp[s] = "lost"
Paused(s) == Len(wire[s]) > WriteLimit /\ ~Lost(s)

\* write_frame_sync: a transport that is lost swallows what is written.
Plus(w, s, f) == IF Lost(s) THEN w ELSE [w EXCEPT ![s] = Append(@, f)]

\* drain() suspends the writer when there is no room, or to let the connection
\* be lost.  It ends when there is room; on a lost connection it raises, unless
\* it was suspended before.
Suspends(s, w) == Len(w[s]) > WriteLimit \/ tcp[s] = "closing"
Drained(s, outcome) ==
  /\ ~Paused(s)
  /\ outcome = "raised" => Lost(s)

Cancel(s) == transfer' = [transfer EXCEPT ![s] = IF @ = "done" THEN @ ELSE "cancelled"]

\* connection_closed_exc
Verdict(s) == IF close_rcvd[s] \in OkCode /\ close_sent[s] \in OkCode THEN "ok" ELSE "error"

\* ensure_open: go on, raise, or wait for close_connection_task and raise.
IsOpen(s) == state[s] = "OPEN" /\ transfer[s] # "done"
Ensure(s, open, wait, raise) ==
  IF IsOpen(s) THEN open ELSE IF state[s] = "CLOSED" THEN raise ELSE wait

\* Sets the state before the frame is written, so that nobody writes another.
StartClosing(s, code) ==
  /\ state' = [state EXCEPT ![s] = "CLOSING"]
  /\ close_sent' = [close_sent EXCEPT ![s] = code]

\* fail_connection
Fail(s, code) ==
  /\ Cancel(s)
  /\ IF code # Abnormal /\ state[s] = "OPEN"
     THEN StartClosing(s, code) /\ wire' = Plus(wire, s, CloseFrame(code))
     ELSE UNCHANGED <<state, close_sent, wire>>

-----------------------------------------------------------------------------
(* transfer_data_task                                                       *)

Enqueue(s, n) ==
  /\ messages' = [messages EXCEPT ![s] = Append(@, n)]
  /\ woken' = [woken EXCEPT ![s] = recv[s] = "waiting"]

ReadData(s, n) ==
  IF Len(messages[s]) < MaxQueue
  THEN Enqueue(s, n) /\ UNCHANGED <<transfer, inhand>>
  ELSE /\ transfer' = [transfer EXCEPT ![s] = "full"]
       /\ inhand' = [inhand EXCEPT ![s] = n]
       /\ UNCHANGED <<messages, woken>>

\* Mutant: an end answers a close frame although it sent one.
ReadCloseEchoes(s, code, rest) ==
  /\ close_rcvd' = [close_rcvd EXCEPT ![s] = code]
  /\ close_rcvd_then_sent' = [close_rcvd_then_sent EXCEPT ![s] = IF close_sent[s] # None THEN "no" ELSE "yes"]
  /\ StartClosing(s, code)
  /\ wire' = Plus(rest, s, CloseFrame(code))
  /\ transfer' = [transfer EXCEPT ![s] = IF Suspends(s, wire') THEN "echoing" ELSE "done"]

\* The close frame is answered if none was sent yet; the answer is drained.
ReadClose(s, code, rest) ==
  /\ close_rcvd' = [close_rcvd EXCEPT ![s] = code]
  /\ IF state[s] = "OPEN"
     THEN /\ StartClosing(s, code)
          /\ close_rcvd_then_sent' = [close_rcvd_then_sent EXCEPT ![s] = "yes"]
          /\ wire' = Plus(rest, s, CloseFrame(code))
          /\ transfer' = [transfer EXCEPT ![s] = IF Suspends(s, wire') THEN "echoing" ELSE "done"]
     ELSE /\ close_rcvd_then_sent' =
               [close_rcvd_then_sent EXCEPT ![s] = IF close_sent[s] # None THEN "no" ELSE @]
          /\ wire' = rest
          /\ transfer' = [transfer EXCEPT ![s] = "done"]
          /\ UNCHANGED <<state, close_sent>>

Read(s) ==
  LET p == Peer(s)
      frame == Head(wire[p])
      rest == [wire EXCEPT ![p] = Tail(@)]
  IN
  /\ transfer[s] = "reading" /\ wire[p] # <<>> /\ ~broken[s]
  /\ \/ /\ frame.op = "data" /\ <<p, frame.n>> \notin TooBig
        /\ ReadData(s, frame.n)
        /\ wire' = rest
        /\ UNCHANGED <<handshake, pings>>
     \/ /\ frame.op = "data" /\ <<p, frame.n>> \in TooBig   \* PayloadTooBig
        /\ transfer' = [transfer EXCEPT ![s] = "done"]
        /\ IF state[s] = "OPEN"
           THEN StartClosing(s, TooBigCode) /\ wire' = Plus(rest, s, CloseFrame(TooBigCode))
           ELSE UNCHANGED <<state, close_sent>> /\ wire' = rest
        /\ UNCHANGED <<close_rcvd, close_rcvd_then_sent, messages, inhand, woken, pings>>
     \/ /\ frame.op = "ping"
        /\ IF state[s] = "OPEN"
           THEN /\ wire' = Plus(rest, s, Pong)
                /\ transfer' = [transfer EXCEPT ![s] = IF Suspends(s, wire') THEN "answering" ELSE @]
           ELSE UNCHANGED transfer /\ wire' = rest
        /\ UNCHANGED <<handshake, messages, inhand, woken, pings>>
     \/ /\ frame.op = "pong"
        /\ pings' = [pings EXCEPT ![s] = FALSE]
        /\ wire' = rest
        /\ UNCHANGED <<handshake, received, woken>>
     \/ /\ frame.op = "close"
        /\ ReadClose(s, frame.n, rest)
        /\ UNCHANGED <<messages, inhand, woken, pings>>
  /\ UNCHANGED <<tcp, eof, broken, aborted, resets, keepalive, closer, recv, send, close, unsent, waits, written, got>>

\* EOF or an error of the transport: fail_connection(1006) cancels this task.
ReadError(s) ==
  /\ transfer[s] = "reading"
  /\ broken[s] \/ (eof[s] /\ wire[Peer(s)] = <<>>)
  /\ transfer' = [transfer EXCEPT ![s] = "done"]
  /\ UNCHANGED <<network, handshake, messages, inhand, keepalive, pings, closer, calls>>

\* recv took a message.
RoomAgain(s) ==
  /\ transfer[s] = "full" /\ Len(messages[s]) < MaxQueue
  /\ Enqueue(s, inhand[s])
  /\ inhand' = [inhand EXCEPT ![s] = None]
  /\ transfer' = [transfer EXCEPT ![s] = "reading"]
  /\ UNCHANGED <<network, handshake, keepalive, pings, closer, recv, send, close, unsent, waits, written, got>>

\* The pong or the answer to the close frame is drained.
Answered(s) ==
  /\ transfer[s] \in {"answering", "echoing"}
  /\ \E outcome \in {"returned", "raised"} :
       /\ Drained(s, outcome)
       /\ transfer' = [transfer EXCEPT ![s] =
                         IF @ = "echoing" THEN "done" ELSE IF outcome = "raised" THEN "cancelled" ELSE "reading"]
  /\ UNCHANGED <<network, handshake, messages, inhand, keepalive, pings, closer, calls>>

Cancelled(s) ==
  /\ transfer[s] = "cancelled"
  /\ transfer' = [transfer EXCEPT ![s] = "done"]
  /\ inhand' = [inhand EXCEPT ![s] = None]
  /\ UNCHANGED <<network, handshake, messages, keepalive, pings, closer, calls>>


-----------------------------------------------------------------------------
(* keepalive_ping_task                                                      *)

\* A ping that finds the connection closing waits until close_connection_task
\* cancels it, or until that is done: it is over at once here.
SendPing(s) ==
  /\ keepalive[s] = "sleeping"
  /\ IF IsOpen(s)
     THEN pings' = [pings EXCEPT ![s] = TRUE] /\ wire' = Plus(wire, s, Ping)
     ELSE UNCHANGED <<pings, wire>>
  /\ keepalive' = [keepalive EXCEPT ![s] =
                     Ensure(s, IF Suspends(s, wire') THEN "draining" ELSE "waiting", "done", "done")]
  /\ UNCHANGED <<tcp, eof, broken, aborted, resets, handshake, received, closer, calls>>

\* A connection that is lost ends the wait for the pong with an exception.
PingDrained(s) ==
  /\ keepalive[s] = "draining" /\ ~Paused(s)
  /\ keepalive' = [keepalive EXCEPT ![s] = IF Lost(s) THEN "done" ELSE "waiting"]
  /\ \E raised \in BOOLEAN :
       /\ raised => Lost(s)
       /\ IF raised THEN Cancel(s) ELSE UNCHANGED transfer
  /\ UNCHANGED <<network, handshake, messages, inhand, pings, closer, calls>>

PongReceived(s) ==
  /\ keepalive[s] = "waiting"
  /\ ~pings[s] \/ Lost(s)
  /\ keepalive' = [keepalive EXCEPT ![s] = IF Lost(s) THEN "done" ELSE "sleeping"]
  /\ UNCHANGED <<network, handshake, received, pings, closer, calls>>

\* Mutant: the timeout gives up the ping and not the connection.
PongTimeoutForgives(s) ==
  /\ keepalive[s] = "waiting" /\ pings[s] /\ ~Lost(s)
  /\ keepalive' = [keepalive EXCEPT ![s] = "done"]
  /\ UNCHANGED <<network, handshake, received, pings, closer, calls>>

PongTimeout(s) ==
  /\ keepalive[s] = "waiting" /\ pings[s] /\ ~Lost(s)
  /\ Fail(s, InternalError)
  /\ keepalive' = [keepalive EXCEPT ![s] = "done"]
  /\ UNCHANGED <<tcp, eof, broken, aborted, resets, close_rcvd, close_rcvd_then_sent,
                 messages, inhand, pings, closer, calls>>


-----------------------------------------------------------------------------
(* close_connection_task                                                    *)

\* connection_lost
ConnectionLost(s) ==
  /\ tcp' = [tcp EXCEPT ![s] = "lost"]
  /\ eof' = [eof EXCEPT ![s] = TRUE]
  /\ state' = [state EXCEPT ![s] = "CLOSED"]

\* The timeouts close() has to wait for.
Waited(s) == waits' = [waits EXCEPT ![s] = IF close[s] \in {"never", "idle", "done"} THEN @ ELSE @ + 1]

HalfClose(s) ==
  IF CanWriteEof
  THEN /\ closer' = [closer EXCEPT ![s] = "half"]
       /\ tcp' = [tcp EXCEPT ![s] = IF @ = "up" THEN "half" ELSE @]
  ELSE /\ closer' = [closer EXCEPT ![s] = "close"]
       /\ tcp' = [tcp EXCEPT ![s] = IF @ = "lost" THEN @ ELSE "closing"]

\* The data transfer is over: no more pings, and a client waits for the server
\* to close the TCP connection.
TransferOver(s) ==
  /\ closer[s] = "transfer" /\ transfer[s] = "done"
  /\ keepalive' = [keepalive EXCEPT ![s] = "done"]
  /\ IF s = "client" THEN closer' = [closer EXCEPT ![s] = "tcp"] /\ UNCHANGED tcp ELSE HalfClose(s)
  /\ UNCHANGED <<wire, eof, broken, aborted, resets, handshake, received, pings, calls>>

LostInTime(s) ==
  /\ closer[s] \in {"tcp", "half", "close"} /\ Lost(s)
  /\ closer' = [closer EXCEPT ![s] = "done"]
  /\ UNCHANGED <<network, handshake, received, keepalive, pings, calls>>

TcpTimeout(s) ==
  /\ closer[s] = "tcp" /\ ~Lost(s)
  /\ HalfClose(s)
  /\ Waited(s)
  /\ UNCHANGED <<wire, eof, broken, aborted, resets, handshake, received, keepalive, pings,
                 recv, woken, send, close, unsent, written, got>>

HalfTimeout(s) ==
  /\ closer[s] = "half" /\ ~Lost(s)
  /\ closer' = [closer EXCEPT ![s] = "close"]
  /\ tcp' = [tcp EXCEPT ![s] = "closing"]
  /\ Waited(s)
  /\ UNCHANGED <<wire, eof, broken, aborted, resets, handshake, received, keepalive, pings,
                 recv, woken, send, close, unsent, written, got>>

\* transport.abort: what is not sent yet is discarded.
CloseTimeout(s) ==
  /\ closer[s] = "close" /\ ~Lost(s)
  /\ closer' = [closer EXCEPT ![s] = "done"]
  /\ ConnectionLost(s)
  /\ aborted' = [aborted EXCEPT ![s] = TRUE]
  /\ \E n \in 0..Len(wire[s]) : wire' = [wire EXCEPT ![s] = SubSeq(@, 1, n)]
  /\ Waited(s)
  /\ UNCHANGED <<broken, resets, close_rcvd, close_sent, close_rcvd_then_sent,
                 received, keepalive, pings, recv, woken, send, close, unsent, written, got>>


-----------------------------------------------------------------------------
(* recv, send and close, each called by one task of the application.        *)

Pop(s) ==
  /\ got' = [got EXCEPT ![s] = Append(@, Head(messages[s]))]
  /\ messages' = [messages EXCEPT ![s] = Tail(@)]

Recv(s) ==
  /\ recv[s] = "idle"
  /\ IF messages[s] # <<>>
     THEN Pop(s) /\ UNCHANGED recv
     ELSE recv' = [recv EXCEPT ![s] = "waiting"] /\ UNCHANGED <<got, messages>>
  /\ woken' = [woken EXCEPT ![s] = FALSE]
  /\ UNCHANGED <<network, handshake, transfer, inhand, keepalive, pings, closer, send, close, unsent, waits, written>>

RecvWakes(s) ==
  /\ recv[s] = "waiting"
  /\ \/ woken[s] /\ Pop(s) /\ recv' = [recv EXCEPT ![s] = "idle"]
     \/ /\ ~woken[s] /\ transfer[s] = "done"
        /\ recv' = [recv EXCEPT ![s] = IF state[s] = "CLOSED" THEN Verdict(s) ELSE "ensuring"]
        /\ UNCHANGED <<got, messages>>
  /\ woken' = [woken EXCEPT ![s] = FALSE]
  /\ UNCHANGED <<network, handshake, transfer, inhand, keepalive, pings, closer, send, close, unsent, waits, written>>

RecvRaises(s) ==
  /\ recv[s] = "ensuring" /\ closer[s] = "done"
  /\ recv' = [recv EXCEPT ![s] = Verdict(s)]
  /\ UNCHANGED <<network, handshake, received, keepalive, pings, closer, woken, send, close, unsent, waits, written, got>>

\* Mutant: the message it was woken for is gone.
RecvCancelledTakes(s) ==
  /\ recv[s] \in {"waiting", "ensuring"}
  /\ recv' = [recv EXCEPT ![s] = "idle"]
  /\ woken' = [woken EXCEPT ![s] = FALSE]
  /\ messages' = [messages EXCEPT ![s] = IF woken[s] THEN Tail(@) ELSE @]
  /\ UNCHANGED <<network, handshake, transfer, inhand, keepalive, pings, closer, send, close, unsent, waits, written, got>>

\* The task that called recv is cancelled; it may call again.
RecvCancelled(s) ==
  /\ recv[s] \in {"waiting", "ensuring"}
  /\ recv' = [recv EXCEPT ![s] = "idle"]
  /\ woken' = [woken EXCEPT ![s] = FALSE]
  /\ UNCHANGED <<network, handshake, received, keepalive, pings, closer, send, close, unsent, waits, written, got>>

Send(s) ==
  /\ send[s] = "idle" /\ unsent[s] > 0
  /\ IF IsOpen(s)
     THEN /\ unsent' = [unsent EXCEPT ![s] = @ - 1]
          /\ written' = [written EXCEPT ![s] = @ + 1]
          /\ wire' = Plus(wire, s, Data(written[s] + 1))
     ELSE UNCHANGED <<unsent, written, wire>>
  /\ send' = [send EXCEPT ![s] =
                Ensure(s, IF Suspends(s, wire') THEN "draining" ELSE "idle", "ensuring", "failed")]
  /\ UNCHANGED <<tcp, eof, broken, aborted, resets, handshake, received, keepalive, pings, closer,
                 recv, woken, close, waits, got>>

SendReturns(s) ==
  /\ \/ /\ send[s] = "ensuring" /\ closer[s] = "done"
        /\ send' = [send EXCEPT ![s] = "failed"]
        /\ UNCHANGED transfer
     \/ /\ send[s] = "draining" /\ Drained(s, "returned")
        /\ send' = [send EXCEPT ![s] = "idle"]
        /\ UNCHANGED transfer
     \/ /\ send[s] = "draining" /\ Drained(s, "raised")
        /\ send' = [send EXCEPT ![s] = "failed"]
        /\ Cancel(s)
  /\ UNCHANGED <<network, handshake, messages, inhand, keepalive, pings, closer,
                 recv, woken, close, unsent, waits, written, got>>

Close(s) ==
  /\ close[s] = "idle"
  /\ IF state[s] = "OPEN"
     THEN /\ StartClosing(s, Normal)
          /\ wire' = Plus(wire, s, CloseFrame(Normal))
          /\ close' = [close EXCEPT ![s] = IF Suspends(s, wire') THEN "draining" ELSE "transfer"]
     ELSE /\ close' = [close EXCEPT ![s] = "transfer"]
          /\ UNCHANGED <<state, close_sent, wire>>
  /\ UNCHANGED <<tcp, eof, broken, aborted, resets, close_rcvd, close_rcvd_then_sent, received,
                 keepalive, pings, closer, recv, woken, send, unsent, waits, written, got>>

CloseDrained(s) ==
  /\ close[s] = "draining"
  /\ \/ /\ Drained(s, "returned")
        /\ close' = [close EXCEPT ![s] = "transfer"]
        /\ UNCHANGED transfer
     \/ /\ Drained(s, "raised")
        /\ close' = [close EXCEPT ![s] = "done"]
        /\ Cancel(s)
  /\ UNCHANGED <<network, handshake, messages, inhand, keepalive, pings, closer,
                 recv, woken, send, unsent, waits, written, got>>

WriteTimeout(s) ==
  /\ close[s] = "draining" /\ Paused(s)
  /\ Cancel(s)
  /\ close' = [close EXCEPT ![s] = "transfer"]
  /\ Waited(s)
  /\ UNCHANGED <<network, handshake, messages, inhand, keepalive, pings, closer,
                 recv, woken, send, unsent, written, got>>

\* Mutant: the timeout leaves the data transfer alone.
TransferTimeoutGoesOn(s) ==
  /\ close[s] = "transfer" /\ transfer[s] \notin {"cancelled", "done"}
  /\ close' = [close EXCEPT ![s] = "tcp"]
  /\ Waited(s)
  /\ UNCHANGED <<network, handshake, received, keepalive, pings, closer,
                 recv, woken, send, unsent, written, got>>

TransferTimeout(s) ==
  /\ close[s] = "transfer" /\ transfer[s] \notin {"cancelled", "done"}
  /\ Cancel(s)
  /\ close' = [close EXCEPT ![s] = "tcp"]
  /\ Waited(s)
  /\ UNCHANGED <<network, handshake, messages, inhand, keepalive, pings, closer,
                 recv, woken, send, unsent, written, got>>

CloseReturns(s) ==
  /\ \/ close[s] = "transfer" /\ transfer[s] = "done" /\ close' = [close EXCEPT ![s] = "tcp"]
     \/ close[s] = "tcp" /\ closer[s] = "done" /\ close' = [close EXCEPT ![s] = "done"]
  /\ UNCHANGED <<network, handshake, received, keepalive, pings, closer,
                 recv, woken, send, unsent, waits, written, got>>


-----------------------------------------------------------------------------
(* The transports and the network.                                          *)

NetworkOnly(s) == UNCHANGED <<wire, close_rcvd, close_sent, close_rcvd_then_sent, received,
                              keepalive, pings, closer, calls>>

\* The other end has nothing more to write: eof_received closes the transport.
PeerEof(s) ==
  LET p == Peer(s) IN
  /\ ~eof[s] /\ tcp[s] # "lost"
  /\ tcp[p] = "half" \/ (Lost(p) /\ ~aborted[p] /\ ~broken[p])
  /\ eof' = [eof EXCEPT ![s] = TRUE]
  /\ tcp' = [tcp EXCEPT ![s] = "closing"]
  /\ UNCHANGED <<broken, aborted, resets, state>> /\ NetworkOnly(s)

\* A transport that was closed has flushed its buffer.
Flushed(s) ==
  /\ tcp[s] = "closing" /\ ~Paused(s)
  /\ ConnectionLost(s)
  /\ UNCHANGED <<broken, aborted, resets>> /\ NetworkOnly(s)

\* The network resets the connection, or answers what is written to a
\* connection the other end has closed.
Reset(s) ==
  LET p == Peer(s)
      answer == Lost(p) /\ (aborted[p] \/ wire[s] # <<>>)
  IN
  /\ ~Lost(s)
  /\ answer \/ resets > 0
  /\ resets' = IF answer THEN resets ELSE resets - 1
  /\ ConnectionLost(s)
  /\ broken' = [broken EXCEPT ![s] = TRUE]
  /\ UNCHANGED <<aborted>> /\ NetworkOnly(s)

Calls(s) == Recv(s) \/ RecvCancelled(s) \/ Send(s) \/ SendReturns(s) \/ Close(s)
Network(s) == PeerEof(s) \/ Flushed(s) \/ Reset(s)

\* What the event loop of an end does by itself: its tasks and its timers.
EventLoop(s) ==
  \/ ReadError(s) \/ RoomAgain(s) \/ Answered(s) \/ Cancelled(s)
  \/ SendPing(s) \/ PingDrained(s) \/ PongReceived(s) \/ PongTimeout(s)
  \/ TransferOver(s) \/ LostInTime(s) \/ TcpTimeout(s) \/ HalfTimeout(s) \/ CloseTimeout(s)
  \/ CloseDrained(s) \/ WriteTimeout(s) \/ TransferTimeout(s) \/ CloseReturns(s)

Receiving(s) == RecvWakes(s) \/ RecvRaises(s)

Next == \E s \in Side : Read(s) \/ EventLoop(s) \/ Receiving(s) \/ Calls(s) \/ Network(s)

Spec == Init /\ [][Next]_vars

\* The event loop runs every task and every timer.  Nothing is assumed of the
\* network, nor of what the applications call.
FairSpec == Spec /\ \A s \in Side : WF_vars(EventLoop(s)) /\ WF_vars(Receiving(s))

-----------------------------------------------------------------------------
(* Properties.                                                              *)

HasClose(s) == \E i \in DOMAIN wire[s] : wire[s][i].op = "close"

\* Each end writes at most one close frame, and nothing after it, although the
\* application, the keepalive task and the data transfer may all start it.
OneCloseFrame ==
  \A s \in Side :
    /\ HasClose(s) => close_sent[s] # None /\ close_rcvd[Peer(s)] = None
    /\ \A i \in 1..(Len(wire[s]) - 1) : wire[s][i].op # "close"

\* What recv returned, and what waits for it, are the messages the other end
\* wrote, in order and without a gap, whatever is cancelled meanwhile.
NoGap ==
  \A s \in Side :
    LET all == got[s] \o messages[s] \o IF transfer[s] = "full" THEN <<inhand[s]>> ELSE <<>>
    IN all = [i \in 1..Len(all) |-> i]

\* recv raises ConnectionClosedOK only to an application that got everything
\* the other end wrote.
OkMeansAll ==
  \A s \in Side : recv[s] = "ok" => Len(got[s]) = written[Peer(s)]

\* Both ends may take themselves for the one that closed first, but not both
\* for the one that answered.
OneAnswers ==
  ~\A s \in Side : close_rcvd_then_sent[s] = "yes"

\* close() takes at most four timeouts at a client and three at a server, up to
\* the abort of the transport, which may take the fifth or the fourth.
CloseBounded ==
  \A s \in Side : waits[s] <= IF s = "client" THEN 4 ELSE 3

\* Closing is one handshake, whoever starts it and however often: every variable
\* has its type, each end writes one close frame, one of them answers, close() waits
\* a bounded time, and a normal end means that everything was received.
LinkInv == TypeOK /\ OneCloseFrame /\ OneAnswers /\ CloseBounded /\ OkMeansAll

-----------------------------------------------------------------------------
(* The inductive invariants behind them.                                    *)

\* Only an open end writes, and it has not written a close frame; a close frame that
\* was read had been sent, and an answer answers one.
Shaking ==
  \A s \in Side :
    /\ Lost(s) <=> state[s] = "CLOSED"
    /\ state[s] = "OPEN" => close_sent[s] = None
    /\ close_rcvd[s] # None => close_sent[Peer(s)] # None
    /\ close_rcvd_then_sent[s] = "yes" => close_rcvd[s] # None /\ close_sent[s] # None

\* The timeouts close() has used by itself, and those of close_connection_task.
CloseUsed(s) ==
  IF close[s] \in {"never", "idle", "draining"} \/ (close[s] = "transfer" /\ transfer[s] \notin {"cancelled", "done"})
  THEN 0 ELSE 1
CloserUsed(s) ==
  LET tcpWait == IF s = "client" THEN 1 ELSE 0 IN
  CASE closer[s] \in {"transfer", "tcp"} -> 0
    [] closer[s] = "half" -> tcpWait
    [] closer[s] = "close" -> tcpWait + 1
    [] closer[s] = "done" -> tcpWait + 2

Waiting ==
  /\ closer["server"] # "tcp"
  /\ \A s \in Side : waits[s] <= CloseUsed(s) + CloserUsed(s)

\* The messages on a wire after the first d of them were delivered: each comes once, in
\* order, and after all its predecessors.
Ordered(w, d) ==
  /\ \A i \in DOMAIN w : w[i].op = "data" =>
       /\ w[i].n > d
       /\ \A k \in d + 1..w[i].n : \E j \in 1..i : w[j] = Data(k)
  /\ \A i, j \in DOMAIN w : i < j /\ w[i].op = "data" /\ w[j].op = "data" => w[i].n < w[j].n

\* Of n messages that were written the first d were delivered, and the others are on the wire.
Complete(w, d, n) ==
  /\ d <= n
  /\ \A i \in DOMAIN w : w[i].op = "data" => w[i].n <= n
  /\ \A k \in d + 1..n : \E j \in DOMAIN w : w[j] = Data(k)

Delivered(s) == Len(got[s]) + Len(messages[s]) + IF transfer[s] = "full" THEN 1 ELSE 0

\* What was delivered is a beginning of what was written, and the wire goes on from there.
InOrder ==
  \A s \in Side :
    /\ \A i \in DOMAIN got[s] : got[s][i] = i
    /\ \A i \in DOMAIN messages[s] : messages[s][i] = Len(got[s]) + i
    /\ transfer[s] = "full" => inhand[s] = Len(got[s]) + Len(messages[s]) + 1
    /\ transfer[s] \in {"reading", "answering", "full"} =>
         /\ Ordered(wire[Peer(s)], Delivered(s))
         /\ ~Lost(Peer(s)) \/ HasClose(Peer(s)) => Complete(wire[Peer(s)], Delivered(s), written[Peer(s)])

\* The close frame came after all messages; who waits for one was woken if it came.
Accounted ==
  \A s \in Side :
    /\ close_rcvd[s] # None =>
         /\ transfer[s] \in {"echoing", "cancelled", "done"}
         /\ Len(got[s]) + Len(messages[s]) = written[Peer(s)]
    /\ woken[s] => recv[s] = "waiting" /\ messages[s] # <<>>
    /\ recv[s] = "waiting" /\ ~woken[s] => messages[s] = <<>>
    /\ recv[s] \in {"ensuring", "ok"} => transfer[s] = "done" /\ messages[s] = <<>>
    /\ recv[s] = "ok" => close_rcvd[s] # None

IndInv == TypeOK /\ Shaking /\ OneCloseFrame /\ OneAnswers /\ Waiting /\ InOrder /\ Accounted

-----------------------------------------------------------------------------
(* Liveness.                                                                *)

\* close() returns, whatever the network and the other end do.
CloseEnds == []<>(\A s \in Side : close[s] \in {"never", "idle", "done"})

\* Where there are pings, recv waits for ever only while pongs come, or while
\* the ping itself cannot be written.
RecvEnds ==
  \A s \in Side :
    <>[](recv[s] = "waiting") => []<>(keepalive[s] \in {"off", "sleeping", "draining"})
=============================================================================
