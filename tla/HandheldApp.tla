----------------------------- MODULE HandheldApp -----------------------------
(***************************************************************************)
(* The handheld (generic_sbc_handheld/oi_client): the main loop of app.py, *)
(* its buttons (input.py), its microphone (audio.py) and its DATP client   *)
(* (datp.py), whose listener is a task of its own.  The gateway is what    *)
(* the client sees of it: commands, acknowledged conversations, an end.    *)
(*                                                                         *)
(* The main task is atomic between two awaits; every send may suspend it,  *)
(* so the listener runs between any two.  The modes HOME and READY, which  *)
(* differ in a caption, are "home"; the cursor of the menus is left out,   *)
(* so an item is chosen at once.                                           *)
(***************************************************************************)
EXTENDS Naturals, Sequences, SequencesExt

CONSTANTS
  Url,           \* the gateways the handheld knows
  Conversation,  \* selections of backend, agent and session
  None,          \* no selection: the gateway's own stands
  User,          \* bound: what the user does, one of these
  MaxQueue       \* bound: messages under way to the handheld

Mode == {"home", "connecting", "waiting", "card", "menu", "error", "offline", "recording"}

\* Does the user change settings; what the gateways command; how often the user
\* records, with how many long presses and pieces of sound; how often connections break and others
\* switch the conversation; how it all begins.
Habit == [captures : Nat, streams : Nat, pieces : Nat, changes : BOOLEAN,
          commands : SUBSET (Mode \cup {"mute", "quiet"}), breaks : Nat, switches : Nat,
          url : Url, selected : [Url -> Conversation]]

ASSUME UserAssumption == User \subseteq Habit
ASSUME BoundAssumption ==
  None \notin Conversation /\ Url # {} /\ MaxQueue \in Nat

VARIABLES
  user,              \* who uses it, with the breaks and switches still to come
  at, after,         \* where the main task is; why it reconnects, or stops recording
  ui, online, muted, \* _ui_mode, _online, DeviceController.is_muted
  x, longSeen,       \* the X button, and _x_long_press_seen
  mic,               \* the capture: is it on, pieces recorded, pieces read
  tx,                \* number of the last recording, which names its stream; _record_tx_seq
  connected,         \* DatpClient._connected
  link, listening,   \* the socket, and the listener's task
  toDevice, asked,   \* messages to the handheld; updates to the gateway
  commands, batch,   \* _cmd_queue, and what this tick drained of it
  conv, info, waiter,\* DatpClient's conversation, server_info, the waiter's state
  pref, url, prev,   \* the app's selection and gateway; those before a change
  selected,          \* gateway -> the selection it uses for this device
  sent,              \* history: stream -> what was sent of it
  confirmed,         \* history: did start_recording promote this capture?
  spoilt,            \* history: streams recorded while the screen showed something else
  foreign            \* history: did somebody else switch the conversation?

screen == <<ui, online, muted>>
button == <<x, longSeen>>
capture == <<mic, tx, sent, confirmed>>
socket == <<connected, link, listening, toDevice, asked>>
queues == <<commands, batch>>
client == <<conv, info, waiter>>
choice == <<pref, url, prev>>
gateway == <<selected, foreign>>
vars == <<user, at, after, screen, button, capture, spoilt, socket, queues, client, choice, gateway>>

Selection == Conversation \cup {None}
Command == Mode \cup {"mute", "quiet"}
Message == [kind : {"command"}, what : Command] \cup [kind : {"ack"}, what : Conversation]
             \cup {[kind |-> "error", what |-> None]}
Chunk(n, a, b) == [kind |-> "chunk", seq |-> n, from |-> a, to |-> b]
Begin(n) == [kind |-> "begin", seq |-> 0, from |-> n, to |-> 0]
End(n) == [kind |-> "end", seq |-> 0, from |-> 0, to |-> n]

\* No capture: the microphone is off, nothing recorded, nothing read.
Silent == [on |-> FALSE, recorded |-> 0, read |-> 0]

TypeOK ==
  /\ at \in {"input", "commands", "report", "stream", "overdue", "finish", "reply", "connect", "off"}
  /\ after \in {"none", "release", "overdue", "retry", "change", "gateway", "restore"}
  /\ ui \in Mode /\ online \in BOOLEAN /\ muted \in BOOLEAN
  /\ x \in {"up", "down", "long"} /\ longSeen \in BOOLEAN
  /\ mic \in [on : BOOLEAN, recorded : Nat, read : Nat]
  /\ mic.read <= mic.recorded
  /\ tx \in [stream : 0..user.streams, seq : Nat]
  /\ link \in {"none", "open", "ended", "broken"} /\ connected \in BOOLEAN /\ listening \in BOOLEAN
  /\ toDevice \in Seq(Message) /\ asked \in Seq(Conversation)
  /\ commands \in Seq(Command) /\ batch \in Seq(Command)
  /\ conv \in Selection /\ info \in Selection /\ pref \in Selection
  /\ waiter \in {"none", "waiting", "ack", "error"}
  /\ url \in Url /\ prev \in [url : Url, pref : Selection]
  /\ selected \in [Url -> Conversation]
  /\ spoilt \subseteq 0..user.streams

\* run() has connected, or not.
Init ==
  /\ user \in User
  /\ at = "input" /\ after = "none"
  /\ muted = FALSE
  /\ x = "up" /\ longSeen = FALSE
  /\ mic = Silent
  /\ tx = [stream |-> 0, seq |-> 0]
  /\ toDevice = <<>> /\ asked = <<>> /\ commands = <<>> /\ batch = <<>>
  /\ conv = None /\ waiter = "none"
  /\ url = user.url /\ selected = user.selected
  /\ \/ /\ connected = TRUE /\ link = "open" /\ listening = TRUE
        /\ online = TRUE /\ ui = "home"
        /\ info = selected[url] /\ pref = selected[url]
     \/ /\ connected = FALSE /\ link = "none" /\ listening = FALSE
        /\ online = FALSE /\ ui = "error"
        /\ info = None /\ pref = None
  /\ prev = [url |-> url, pref |-> pref]
  /\ sent = [s \in 0..user.streams |-> <<>>]
  /\ confirmed = FALSE /\ spoilt = {} /\ foreign = FALSE

Goes(p) == at' = p

\* The handler of _tick: an exception ends the tick, and what it had drained is lost.
Raise ==
  /\ Goes("input")
  /\ ui' = "error"
  /\ batch' = <<>>

\* _send on a connection that is gone.
SendRaises ==
  /\ link # "open"
  /\ connected' = FALSE
  /\ Raise

-----------------------------------------------------------------------------
(* The microphone.                                                         *)

\* start_recording of the audio adapter.
MicOn ==
  /\ user.captures > 0
  /\ user' = [user EXCEPT !.captures = @ - 1]
  /\ mic' = [Silent EXCEPT !.on = TRUE] /\ confirmed' = FALSE
MicOff == mic' = Silent /\ confirmed' = FALSE

\* What is sent of a stream; a spoilt one is not followed any further.
Publish(s, m) == sent' = IF s \in spoilt THEN sent ELSE [sent EXCEPT ![s] = Append(@, m)]

\* X goes down: capture begins, to be published only if a long press follows.
PressX ==
  /\ at = "input" /\ user.captures > 0 /\ x = "up" /\ x' = "down"
  /\ IF ui # "home" THEN UNCHANGED <<user, ui, mic, confirmed>>
     ELSE \/ muted /\ ui' = "card" /\ UNCHANGED <<user, mic, confirmed>>
          \/ ~muted /\ mic.on /\ UNCHANGED <<user, ui, mic, confirmed>>
          \/ ~muted /\ ~mic.on /\ MicOn /\ UNCHANGED ui
          \/ ~muted /\ ~mic.on /\ ui' = "error" /\ UNCHANGED <<user, mic, confirmed>>
  /\ UNCHANGED <<at, after, online, muted, longSeen, tx, sent, socket, queues, client, choice, gateway>>

\* start_recording without a connection or muted: the capture goes on.
NotStarted ==
  /\ muted \/ ~connected
  /\ ui' = IF muted THEN "card" ELSE "error"
  /\ UNCHANGED <<at, mic, tx, sent, confirmed, connected, batch>>

\* start_recording promotes the capture and sends what it holds.
Started ==
  /\ ~muted /\ connected /\ tx.stream < user.streams
  /\ confirmed' = TRUE
  /\ LET id == tx.stream + 1
         now == IF mic.on THEN mic ELSE [Silent EXCEPT !.on = TRUE]
         begun == [sent EXCEPT ![id] = <<Begin(now.read + 1)>>]
     IN /\ mic' = [now EXCEPT !.read = now.recorded]
        /\ \/ /\ now.recorded = now.read
              /\ tx' = [stream |-> id, seq |-> 0] /\ sent' = begun /\ ui' = "recording"
              /\ UNCHANGED <<at, connected, batch>>
           \/ /\ now.recorded > now.read /\ link = "open"
              /\ tx' = [stream |-> id, seq |-> 1] /\ ui' = "recording"
              /\ sent' = [begun EXCEPT ![id] = Append(@, Chunk(0, now.read + 1, now.recorded))]
              /\ UNCHANGED <<at, connected, batch>>
           \/ /\ now.recorded > now.read /\ SendRaises
              /\ tx' = [stream |-> id, seq |-> 0] /\ sent' = begun

\* X has been held for eight polls.
LongPressX ==
  /\ at = "input" /\ x = "down" /\ x' = "long"
  /\ IF ui # "home" THEN UNCHANGED <<at, ui, longSeen, capture, connected, batch>>
     ELSE /\ longSeen' = TRUE
          /\ \/ NotStarted
             \/ Started
             \/ /\ ~muted /\ connected /\ ~mic.on /\ ui' = "error"
                /\ UNCHANGED <<at, capture, connected, batch>>
  /\ UNCHANGED <<user, after, online, muted, link, listening, toDevice, asked, commands, client, choice, gateway>>

\* Mutated: the capture device is closed before its queue is drained.
StopUndrained(why) ==
  /\ mic.on
  /\ mic' = [mic EXCEPT !.on = FALSE]
  /\ Goes("finish") /\ after' = why
  /\ UNCHANGED <<ui, batch, tx, sent, connected>>

\* stop_recording sends what is left of the capture, and then its end.
StopRecording(why) ==
  /\ mic.on
  /\ mic' = [mic EXCEPT !.on = FALSE, !.read = mic.recorded]
  /\ \/ /\ mic.recorded = mic.read \/ ~connected
        /\ Goes("finish") /\ after' = why
        /\ UNCHANGED <<ui, batch, tx, sent, connected>>
     \/ /\ mic.recorded > mic.read /\ connected /\ link = "open"
        /\ Goes("finish") /\ after' = why
        /\ Publish(tx.stream, Chunk(tx.seq, mic.read + 1, mic.recorded))
        /\ tx' = [tx EXCEPT !.seq = @ + 1]
        /\ UNCHANGED <<ui, batch, connected>>
     \/ /\ mic.recorded > mic.read /\ connected /\ SendRaises
        /\ UNCHANGED <<after, tx, sent>>

Finish ==
  /\ at = "finish"
  /\ \/ /\ ~connected \/ link = "open"
        /\ IF connected THEN Publish(tx.stream, End(mic.recorded)) ELSE UNCHANGED sent
        /\ tx' = [tx EXCEPT !.seq = 0]
        /\ ui' = IF online THEN "waiting" ELSE "offline"
        /\ longSeen' = (longSeen /\ after # "release")
        /\ Goes("input")
        /\ UNCHANGED <<connected, batch>>
     \/ /\ connected /\ SendRaises
        /\ UNCHANGED <<sent, tx, longSeen>>
  /\ MicOff
  /\ after' = "none"
  /\ UNCHANGED <<user, online, muted, x, link, listening, toDevice, asked, commands, client, choice, gateway>>

\* X goes up: long_release stops a capture, as does the release of a confirmed
\* one; the release of any other ends it unheard.
ReleaseX ==
  /\ at = "input" /\ x # "up" /\ x' = "up"
  /\ \/ /\ mic.on /\ (x = "long" \/ longSeen)
        /\ StopRecording("release")
        /\ UNCHANGED <<longSeen, confirmed>>
     \/ /\ ~(mic.on /\ (x = "long" \/ longSeen))
        /\ MicOff /\ longSeen' = FALSE
        /\ UNCHANGED <<at, after, ui, batch, tx, sent, connected>>
  /\ UNCHANGED <<user, online, muted, link, listening, toDevice, asked, commands, client, choice, gateway>>

\* The controller drops the release.
MissRelease ==
  /\ at = "input" /\ x # "up" /\ x' = "up"
  /\ UNCHANGED <<user, at, after, screen, longSeen, capture, socket, queues, client, choice, gateway>>

\* B while recording.
Cancel ==
  /\ at = "input" /\ ui = "recording"
  /\ MicOff
  /\ tx' = [tx EXCEPT !.seq = 0]
  /\ longSeen' = FALSE
  /\ ui' = IF online THEN "home" ELSE "offline"
  /\ UNCHANGED <<user, at, after, online, muted, x, sent, socket, queues, client, choice, gateway>>

\* The user speaks into an open microphone.
Speak ==
  /\ at # "off" /\ mic.on /\ mic.recorded < user.pieces
  /\ mic' = [mic EXCEPT !.recorded = @ + 1]
  /\ UNCHANGED <<user, at, after, screen, button, tx, sent, confirmed, socket, queues, client, choice, gateway>>

-----------------------------------------------------------------------------
(* The other buttons.                                                      *)

\* Start or select opens a menu, B leaves it; B leaves a card or the wait.
Navigate ==
  /\ at = "input"
  /\ \/ user.changes /\ ui # "menu" /\ ui' = "menu"
     \/ ui \in {"menu", "card", "waiting"} /\ ui' = "home"
     \/ ui = "menu" /\ ui' = "card"
  /\ UNCHANGED <<user, at, after, online, muted, button, capture, socket, queues, client, choice, gateway>>

\* The menu's Mute.
ToggleMute ==
  /\ at = "input" /\ user.changes /\ ui = "menu"
  /\ muted' = ~muted /\ ui' = "card"
  /\ UNCHANGED <<user, at, after, online, button, capture, socket, queues, client, choice, gateway>>

\* A on the home screen sends a prompt; the exception of its send is caught.
SendPrompt ==
  /\ at = "input" /\ ui = "home"
  /\ \/ muted /\ ui' = "card" /\ UNCHANGED connected
     \/ ~muted /\ ~connected /\ ui' = "offline" /\ UNCHANGED connected
     \/ ~muted /\ connected /\ link = "open" /\ ui' = "waiting" /\ UNCHANGED connected
     \/ ~muted /\ connected /\ link # "open" /\ ui' = "error" /\ connected' = FALSE
  /\ UNCHANGED <<user, at, after, online, muted, button, capture, link, listening, toDevice, asked, queues, client, choice, gateway>>

\* B without a connection, or the menu's Quit: the main loop ends in shutdown.
Quit ==
  /\ at = "input" /\ ui \in {"error", "offline", "menu"}
  /\ Goes("off")
  /\ connected' = FALSE /\ link' = "none" /\ listening' = FALSE /\ toDevice' = <<>> /\ asked' = <<>>
  /\ MicOff
  /\ UNCHANGED <<user, after, screen, button, tx, sent, queues, client, choice, gateway>>

-----------------------------------------------------------------------------
(* Connecting.                                                             *)

\* The first half of reconnect(): the listener is cancelled, the socket closed.
Disconnect(why) ==
  /\ Goes("connect")
  /\ after' = why
  /\ ui' = "connecting"
  /\ connected' = FALSE /\ link' = "none" /\ listening' = FALSE
  /\ toDevice' = <<>> /\ asked' = <<>>
  /\ info' = None /\ waiter' = "none"

\* A retries; the menu's Reconnect does the same, Reconnect Now with the app's selection.
Retry ==
  /\ at = "input" /\ ui \in {"error", "offline", "menu"}
  /\ Disconnect("retry")
  /\ \/ UNCHANGED conv
     \/ ui = "menu" /\ conv' = pref
  /\ UNCHANGED <<user, online, muted, button, capture, queues, choice, gateway>>

\* The menu's Backend, Agent and Session: a live update if there is a connection.
ChangeConversation(c) ==
  /\ at = "input" /\ user.changes /\ ui = "menu"
  /\ prev' = [url |-> url, pref |-> pref]
  /\ pref' = c /\ conv' = c
  /\ \/ /\ connected /\ link = "open"
        /\ asked' = Append(asked, c)
        /\ waiter' = "waiting" /\ ui' = "connecting" /\ Goes("reply")
        /\ UNCHANGED <<after, connected, link, listening, toDevice, info>>
     \/ /\ ~connected \/ link # "open"
        /\ Disconnect("change")
  /\ UNCHANGED <<user, online, muted, button, capture, queues, url, gateway>>

\* The menu's Gateway: another one, with the selection reset.
ChangeGateway(u) ==
  /\ at = "input" /\ user.changes /\ ui = "menu" /\ u # url
  /\ prev' = [url |-> url, pref |-> pref]
  /\ url' = u /\ pref' = None /\ conv' = None
  /\ Disconnect("gateway")
  /\ UNCHANGED <<user, online, muted, button, capture, queues, gateway>>

\* Mutated: only the gateway is restored.
RestoreUrl ==
  /\ url' = prev.url
  /\ UNCHANGED <<pref, conv>>

\* _restore_connection_state.
Restore ==
  /\ url' = prev.url
  /\ pref' = prev.pref
  /\ conv' = prev.pref

\* The waiter is answered: by the gateway's refusal, or by whatever hello_ack came.
Replied ==
  /\ at = "reply" /\ waiter \in {"ack", "error"}
  /\ Goes("input")
  /\ online' = TRUE /\ waiter' = "none"
  /\ \/ waiter = "ack" /\ pref' = info /\ ui' = "card" /\ UNCHANGED <<url, conv>>
     \/ waiter = "error" /\ Restore /\ ui' = "error"
  /\ UNCHANGED <<user, after, muted, button, capture, socket, queues, info, prev, gateway>>

ReplyTimeout ==
  /\ at = "reply" /\ waiter = "waiting"
  /\ Disconnect("change")
  /\ UNCHANGED <<user, online, muted, button, capture, queues, conv, choice, gateway>>

\* hello and hello_ack: the gateway uses the selection it is told, if any.
ConnectSucceeds ==
  /\ at = "connect"
  /\ connected' = TRUE /\ link' = "open" /\ listening' = TRUE
  /\ LET c == IF conv = None THEN selected[url] ELSE conv IN
       /\ selected' = [selected EXCEPT ![url] = c]
       /\ info' = c /\ pref' = c
  /\ online' = TRUE /\ foreign' = FALSE
  /\ ui' = IF after = "retry" THEN "home" ELSE "card"
  /\ Goes("input") /\ after' = "none"
  /\ UNCHANGED <<user, muted, button, capture, toDevice, asked, queues, conv, waiter, url, prev>>

\* No connection, no hello_ack, or a refusal: a change is undone, and after a
\* change of the gateway the old one tried again.
ConnectFails ==
  /\ at = "connect"
  /\ IF after = "gateway"
     THEN Restore /\ after' = "restore" /\ UNCHANGED <<at, online, ui>>
     ELSE /\ Goes("input") /\ after' = "none" /\ online' = FALSE /\ ui' = "error"
          /\ IF after = "change" THEN Restore ELSE UNCHANGED <<url, pref, conv>>
  /\ UNCHANGED <<user, muted, button, capture, socket, queues, info, waiter, prev, gateway>>

-----------------------------------------------------------------------------
(* The tick.                                                               *)

EndInput ==
  /\ at = "input"
  /\ Goes("commands")
  /\ batch' = commands /\ commands' = <<>>
  /\ UNCHANGED <<user, after, screen, button, capture, socket, client, choice, gateway>>

\* What the handler does to the screen; then the ack, whose failure ends the tick.
HandleCommand ==
  /\ at = "commands" /\ batch # <<>>
  /\ LET c == Head(batch) IN
       /\ muted' = (muted \/ c = "mute")
       /\ \/ /\ link \in {"none", "open"}
             /\ ui' = CASE c = "mute" -> "home" [] c = "quiet" -> ui [] OTHER -> c
             /\ batch' = Tail(batch)
             /\ UNCHANGED at
          \/ link \in {"ended", "broken"} /\ Raise
  /\ UNCHANGED <<user, after, online, button, capture, socket, commands, client, choice, gateway>>

Check ==
  /\ at = "commands" /\ batch = <<>>
  /\ Goes("report")
  /\ IF online /\ ~connected
     THEN online' = FALSE /\ ui' = "offline"
     ELSE UNCHANGED <<online, ui>>
  /\ UNCHANGED <<user, after, muted, button, capture, socket, queues, client, choice, gateway>>

\* Mutated: the exception of the send is swallowed.
ReportQuietly ==
  /\ at = "report" /\ connected
  /\ Goes("stream")
  /\ UNCHANGED <<user, after, screen, button, capture, socket, queues, client, choice, gateway>>

\* A state report is due.
Report ==
  /\ at = "report" /\ connected
  /\ \/ link = "open" /\ Goes("stream") /\ UNCHANGED <<ui, batch, connected>>
     \/ SendRaises
  /\ UNCHANGED <<user, after, online, muted, button, capture, link, listening, toDevice, asked, commands, client, choice, gateway>>

NoReport ==
  /\ at = "report"
  /\ Goes("stream")
  /\ UNCHANGED <<user, after, screen, button, capture, socket, queues, client, choice, gateway>>

\* What the microphone holds is read whatever the mode, and sent while recording.
Stream ==
  /\ at = "stream"
  /\ mic' = [mic EXCEPT !.read = IF mic.on THEN mic.recorded ELSE @]
  /\ LET sends == mic.on /\ mic.recorded > mic.read /\ connected /\ ui = "recording" IN
       \/ ~sends /\ Goes("overdue") /\ UNCHANGED <<ui, batch, connected, tx, sent>>
       \/ /\ sends /\ link = "open" /\ Goes("overdue")
          /\ Publish(tx.stream, Chunk(tx.seq, mic.read + 1, mic.recorded))
          /\ tx' = [tx EXCEPT !.seq = @ + 1]
          /\ UNCHANGED <<ui, batch, connected>>
       \/ sends /\ SendRaises /\ UNCHANGED <<tx, sent>>
  /\ UNCHANGED <<user, after, online, muted, button, confirmed, link, listening, toDevice, asked, commands, client, choice, gateway>>

\* Mutated: only once the button is known to be up.
StopReleased ==
  /\ at = "overdue" /\ ui = "recording" /\ tx.stream > 0 /\ x = "up"
  /\ StopRecording("overdue")
  /\ UNCHANGED <<user, online, muted, button, confirmed, link, listening, toDevice, asked, commands, client, choice, gateway>>

\* _maybe_auto_stop_recording; OI_MAX_RECORDING_SECONDS have gone by, or not.
StopOverdue ==
  /\ at = "overdue" /\ ui = "recording" /\ tx.stream > 0
  /\ StopRecording("overdue")
  /\ UNCHANGED <<user, online, muted, button, confirmed, link, listening, toDevice, asked, commands, client, choice, gateway>>

NotOverdue ==
  /\ at = "overdue"
  /\ Goes("input")
  /\ UNCHANGED <<user, after, screen, button, capture, socket, queues, client, choice, gateway>>

-----------------------------------------------------------------------------
(* The listener, the gateway, and time.                                    *)

\* _handle_message; an answer for nobody is an answer for whoever waits.
Listen ==
  /\ listening /\ toDevice # <<>>
  /\ toDevice' = Tail(toDevice)
  /\ LET m == Head(toDevice) IN
       /\ commands' = IF m.kind = "command" THEN Append(commands, m.what) ELSE commands
       /\ waiter' = IF waiter = "waiting" /\ m.kind # "command" THEN m.kind ELSE waiter
       /\ \/ m.kind = "ack" /\ info' = m.what /\ conv' = m.what
          \/ m.kind # "ack" /\ UNCHANGED <<info, conv>>
  /\ UNCHANGED <<user, at, after, screen, button, capture, connected, link, listening, asked, batch, choice, gateway>>

\* The iteration over the socket raises ConnectionClosed, or just ends after a
\* normal close.
ListenEnds ==
  /\ listening /\ toDevice = <<>> /\ link # "open"
  /\ listening' = FALSE
  /\ connected' = (connected /\ link # "broken")
  /\ UNCHANGED <<user, at, after, screen, button, capture, link, toDevice, asked, queues, client, choice, gateway>>

GatewayCommands(c) ==
  /\ link = "open" /\ Len(toDevice \o commands \o batch) < MaxQueue
  /\ toDevice' = Append(toDevice, [kind |-> "command", what |-> c])
  /\ UNCHANGED <<user, at, after, screen, button, capture, connected, link, listening, asked, queues, client, choice, gateway>>

GatewayAnswers ==
  /\ link = "open" /\ asked # <<>>
  /\ asked' = Tail(asked)
  /\ \/ /\ selected' = [selected EXCEPT ![url] = Head(asked)]
        /\ toDevice' = Append(toDevice, [kind |-> "ack", what |-> Head(asked)])
     \/ /\ toDevice' = Append(toDevice, [kind |-> "error", what |-> None])
        /\ UNCHANGED selected
  /\ UNCHANGED <<user, at, after, screen, button, capture, connected, link, listening, queues, client, choice, foreign>>

\* Somebody else switches the device's conversation over HTTP.
OthersSwitch(c) ==
  /\ link = "open" /\ user.switches > 0 /\ Len(toDevice) < MaxQueue
  /\ user' = [user EXCEPT !.switches = @ - 1]
  /\ foreign' = TRUE
  /\ selected' = [selected EXCEPT ![url] = c]
  /\ toDevice' = Append(toDevice, [kind |-> "ack", what |-> c])
  /\ UNCHANGED <<at, after, screen, button, capture, connected, link, listening, asked, queues, client, choice>>

\* The gateway closes the connection, or it breaks.
Break ==
  /\ link = "open" /\ user.breaks > 0
  /\ user' = [user EXCEPT !.breaks = @ - 1]
  /\ link' \in {"ended", "broken"}
  /\ asked' = <<>>
  /\ UNCHANGED <<at, after, screen, button, capture, connected, listening, toDevice, queues, client, choice, gateway>>

MuteExpires ==
  /\ at # "off" /\ muted /\ muted' = FALSE
  /\ UNCHANGED <<user, at, after, ui, online, button, capture, socket, queues, client, choice, gateway>>

-----------------------------------------------------------------------------
Talks == PressX \/ LongPressX \/ ReleaseX \/ MissRelease \/ Cancel \/ Speak

Presses ==
  \/ Navigate \/ ToggleMute \/ SendPrompt \/ Quit \/ Retry
  \/ \E c \in Conversation : ChangeConversation(c)
  \/ \E u \in Url : ChangeGateway(u)

Wait == Replied \/ ReplyTimeout \/ ConnectSucceeds \/ ConnectFails

Tick == EndInput \/ HandleCommand \/ Check \/ Report \/ NoReport \/ Stream \/ StopOverdue \/ NotOverdue \/ Finish

Environment ==
  \/ \E c \in user.commands : GatewayCommands(c)
  \/ \E c \in Conversation : OthersSwitch(c)
  \/ GatewayAnswers \/ Break \/ MuteExpires

\* What of a recording is lost, and what was never to be sent, spoils its stream.
Remember ==
  spoilt' = spoilt \cup {s \in {tx'.stream} :
                           \/ mic.on /\ mic'.on /\ confirmed' /\ ui' # "recording"
                           \/ sent' # sent /\ ~confirmed /\ ~confirmed'}

Next ==
  /\ Talks \/ Presses \/ Wait \/ Tick \/ Listen \/ ListenEnds \/ Environment
  /\ Remember

Spec == Init /\ [][Next]_vars

\* Both tasks run; every wait has a timeout; the clock reaches what is due.
Fairness ==
  /\ WF_vars((Wait \/ Tick) /\ Remember)
  /\ WF_vars(EndInput /\ Remember)
  /\ WF_vars((Listen \/ ListenEnds) /\ Remember)
  /\ SF_vars(Report /\ Remember)
  /\ SF_vars(StopOverdue /\ Remember)

FairSpec == Spec /\ Fairness

-----------------------------------------------------------------------------
(* Properties.                                                             *)

\* A recording: begun, its chunks numbered from 0 and without a gap, and its end.
Whole(l) ==
  LET n == Len(l) IN
  /\ l[1].kind = "begin" /\ l[n].kind = "end"
  /\ \A i \in 2..n - 1 :
       /\ l[i].kind = "chunk" /\ l[i].seq = i - 2
       /\ l[i].from = IF i = 2 THEN l[1].from ELSE l[i - 1].to + 1
  /\ l[n].to = IF n = 2 THEN l[1].from - 1 ELSE l[n - 1].to

\* What the user says from the long press to the release reaches the gateway whole
\* and once, however the recording stops, unless the screen left the recording while
\* the microphone was on, or what is sent was never promoted to a recording.
SpeechWhole ==
  \A s \in 1..user.streams \ spoilt :
    (\E i \in DOMAIN sent[s] : sent[s][i].kind = "end") => Whole(sent[s])

\* Online and with nothing under way, the app shows the selection the gateway uses,
\* after every update, refusal, timeout and change of gateway, unless somebody else
\* has switched it.
Agreed ==
  /\ at = "input" /\ online /\ link = "open" /\ ~foreign
  /\ asked = <<>> /\ \A i \in DOMAIN toDevice : toDevice[i].kind = "command"
  => pref = selected[url]

\* Every variable has its type, and the app and the gateway agree on the selection.
AppInv == TypeOK /\ Agreed

-----------------------------------------------------------------------------
(* The inductive invariants behind them.                                   *)

\* The user stays one; an open link is one the app counts on; a
\* connection that is coming up has no messages yet.
Linked ==
  /\ user \in Habit
  /\ link = "open" => connected
  /\ connected => online
  /\ at = "connect" => ~connected /\ link = "none" /\ asked = <<>> /\ toDevice = <<>>
  /\ at = "off" => link = "none"

Answerless == \A i \in DOMAIN toDevice : toDevice[i].kind = "command"

\* An answer that tells what the gateway uses now; a refusal leaves what was used.
Tells(m) ==
  \/ m.kind = "ack" /\ m.what = selected[url]
  \/ m.kind = "error" /\ prev.pref = selected[url]

\* The only question is on its way, or its only answer is, or the app has it.
UnderWay ==
  \/ /\ Len(asked) = 1 /\ Answerless /\ waiter = "waiting" /\ prev.pref = selected[url]
  \/ /\ asked = <<>> /\ waiter = "waiting"
     /\ \E i \in DOMAIN toDevice :
          /\ Tells(toDevice[i])
          /\ \A j \in DOMAIN toDevice : j # i => toDevice[j].kind = "command"
  \/ /\ asked = <<>> /\ Answerless
     /\ \/ waiter = "ack" /\ info = selected[url]
        \/ waiter = "error" /\ prev.pref = selected[url]

\* Unless others interfere, the selection is settled, or one change of it under way.
Conversing ==
  link = "open" /\ ~foreign =>
    \/ at # "reply" /\ asked = <<>> /\ Answerless /\ pref = selected[url]
    \/ at = "reply" /\ prev.url = url /\ UnderWay

\* What was sent of a recording that goes on: all that was read of the microphone.
Followed(l, read, seq) ==
  /\ l # <<>> /\ l[1].kind = "begin" /\ seq = Len(l) - 1
  /\ \A i \in 2..Len(l) :
       /\ l[i].kind = "chunk" /\ l[i].seq = i - 2
       /\ l[i].from = IF i = 2 THEN l[1].from ELSE l[i - 1].to + 1
  /\ read = IF Len(l) = 1 THEN l[1].from - 1 ELSE l[Len(l)].to

Part == [kind : {"begin", "chunk", "end"}, seq : Nat, from : Nat, to : Nat]

\* A capture that start_recording promoted is followed up to its end.
Following ==
  /\ sent \in [0..user.streams -> Seq(Part)]
  /\ confirmed \in BOOLEAN
  /\ \A s \in 1..user.streams : s > tx.stream => sent[s] = <<>>
  /\ confirmed => tx.stream >= 1
  /\ at = "finish" => ~mic.on /\ (connected => mic.read = mic.recorded)
  /\ confirmed /\ connected /\ (mic.on \/ at = "finish") /\ tx.stream \notin spoilt
       => Followed(sent[tx.stream], mic.read, tx.seq)

IndInv == TypeOK /\ Linked /\ Conversing /\ Following /\ SpeechWhole

-----------------------------------------------------------------------------
(* Liveness.                                                               *)

\* A connection that is gone does not pass for one for ever, however it went.
LinkNoticed == []<>(~(online /\ link # "open") \/ at = "off")

\* "Fail safe for missed release events while hold-to-record is active."
RecordingStops == []<>(~(mic.on /\ ui = "recording") \/ tx.stream = 0)
=============================================================================
