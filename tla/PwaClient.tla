------------------------------ MODULE PwaClient ------------------------------
(***************************************************************************)
(* The Android PWA (oi-clients/android_pwa): the WebSocket client that     *)
(* queues and reconnects (datp/client.js), hold to talk (ui/controller.js, *)
(* audio/recorder.js), and the audio cache (audio/cache.js, main.js).      *)
(*                                                                         *)
(* JavaScript runs an event handler up to its first await.  A message      *)
(* counts as heard by the gateway when it is given to a live socket.  The  *)
(* gateway is what its dispatcher shows: deliveries that send a command    *)
(* when the one before is acknowledged, several of them at a time.         *)
(***************************************************************************)
EXTENDS Lists, Integers, FiniteSets, SequencesExt

CONSTANTS
  Response,      \* the responses the gateway delivers
  NumChunks,     \* chunks of a response
  MaxResponses,  \* AudioCache.maxResponses
  Usage          \* bound: how the page is used, one of these

\* Presses, pieces of sound, breaks of the connection, reloads of the page, and
\* the responses that are delivered.
ASSUME UsageAssumption ==
  \A u \in Usage :
    /\ {u.presses, u.pieces, u.breaks, u.reloads} \subseteq Nat
    /\ u.responses \subseteq Response
ASSUME CacheAssumption == NumChunks \in Nat \ {0} /\ MaxResponses \in Nat \ {0}

VARIABLES
  use,              \* what is still to happen
  socket, connected,\* ws.readyState, and DatpClient.connected
  timer, queue,     \* _reconnectId is set; _queue
  ptt, asking,      \* pttActive; calls of getUserMedia under way
  rec,              \* PttRecorder: recording, the stream, seq, is its context open?
  closing, live,    \* stops that await context.close(); processors that still push
  cache, latest,    \* AudioCache: the responses in order of begin(); latestId
  inbox,            \* commands under way to the page
  step, phase,      \* each delivery: the command it has come to, and how it stands
  log,              \* history: stream -> what the gateway heard of it
  first, hellos,    \* history: the first message of this connection; its hellos
  astray,           \* history: was a microphone granted with the button up, or beside another?
  spoilt            \* history: streams with a change of the connection, or beside another

link == <<socket, connected, timer, queue>>
talk == <<ptt, asking, rec, closing, live, astray>>
audio == <<cache, latest>>
gateway == <<step, phase, log, first, hellos>>
page == <<use, link, talk, audio, inbox, gateway, spoilt>>

Stream == 1..use.streams
Start(s) == [kind |-> "start", of |-> s]
Sound(s, n, p) == [kind |-> "sound", of |-> s, seq |-> n, piece |-> p]
Finish(s) == [kind |-> "finish", of |-> s]
Ack(r, n, ok) == [kind |-> "ack", of |-> r, step |-> n, ok |-> ok]
Greeting == [kind |-> "hello"]

\* What belongs to a recording, and what is said besides.
About(s) ==
  [kind : {"start", "finish"}, of : {s}] \cup [kind : {"sound"}, of : {s}, seq : Nat, piece : Nat]
Answer == [kind : {"ack"}, of : Response, step : 0..NumChunks + 1, ok : BOOLEAN]
Message ==
  Answer \cup [kind : {"start", "finish"}, of : Stream]
    \cup [kind : {"sound"}, of : Stream, seq : Nat, piece : Nat]

Off == [on |-> FALSE, stream |-> 0, seq |-> 0, open |-> FALSE]

PageTypeOK ==
  /\ use \in [presses : Nat, streams : Nat, pieces : Nat, breaks : Nat, reloads : Nat,
              responses : SUBSET Response]
  /\ socket \in {"connecting", "open", "dead", "closing", "closed"}
  /\ connected \in BOOLEAN /\ timer \in BOOLEAN /\ queue \in Seq(Message)
  /\ ptt \in BOOLEAN /\ asking \in Nat /\ closing \in Nat /\ live \in Nat
  /\ rec \in [on : BOOLEAN, stream : 0..use.streams, seq : Nat, open : BOOLEAN]
  /\ cache \in Seq([id : Response, chunks : SUBSET (1..NumChunks), complete : BOOLEAN])
  /\ Len(cache) <= MaxResponses /\ latest \in Response \cup {"none"}
  /\ inbox \in Seq([of : Response, step : 0..NumChunks + 1])
  /\ step \in [Response -> 0..NumChunks + 1]
  /\ phase \in [Response -> {"ready", "waiting", "delivered", "failed"}]
  /\ log \in [Stream -> Seq(Message)] /\ spoilt \subseteq Stream
  /\ astray \in BOOLEAN /\ hellos \in Nat
  /\ timer <=> socket = "closed"

\* main.js: the page connects at once.
PageInit ==
  /\ \E u \in Usage :
       use = [presses |-> u.presses, streams |-> u.presses, pieces |-> u.pieces,
              breaks |-> u.breaks, reloads |-> u.reloads, responses |-> u.responses]
  /\ socket = "connecting" /\ connected = FALSE /\ timer = FALSE /\ queue = <<>>
  /\ ptt = FALSE /\ asking = 0 /\ rec = Off /\ closing = 0 /\ live = 0
  /\ cache = <<>> /\ latest = "none" /\ inbox = <<>>
  /\ step = [r \in Response |-> 0] /\ phase = [r \in Response |-> "ready"]
  /\ log = [s \in Stream |-> <<>>]
  /\ first = "none" /\ hellos = 0 /\ astray = FALSE /\ spoilt = {}

-----------------------------------------------------------------------------
(* Sending.                                                                *)

\* The gateway hears these, one after the other: an ack answers the delivery that
\* waits for it.
Hear(ms) ==
  /\ log' = [s \in Stream |-> log[s] \o Those(ms, About(s))]
  /\ LET Told(r, ok) == \E i \in DOMAIN ms : ms[i] = Ack(r, step[r], ok)
         answered == {r \in Response : phase[r] = "waiting" /\ (Told(r, TRUE) \/ Told(r, FALSE))}
     IN /\ step' = [r \in Response |->
                      IF r \in answered /\ Told(r, TRUE) /\ step[r] <= NumChunks
                      THEN step[r] + 1 ELSE step[r]]
        /\ phase' = [r \in Response |->
                       CASE r \notin answered -> phase[r]
                         [] r \in answered /\ ~Told(r, TRUE) -> "failed"
                         [] r \in answered /\ Told(r, TRUE) ->
                              IF step[r] = NumChunks + 1 THEN "delivered" ELSE "ready"]
  /\ first' = IF first = "none" /\ ms # <<>> THEN Head(ms).kind ELSE first
  /\ hellos' = hellos + Len(Those(ms, {Greeting}))

\* _send: what a socket that is not OPEN cannot take is queued; one that is OPEN,
\* but whose peer is gone, takes it.
Say(ms) ==
  \/ socket = "open" /\ Hear(ms) /\ UNCHANGED queue
  \/ socket = "dead" /\ UNCHANGED <<gateway, queue>>
  \/ socket \notin {"open", "dead"} /\ queue' = queue \o ms /\ UNCHANGED gateway

-----------------------------------------------------------------------------
(* The connection.                                                         *)

\* _onOpen.
Open ==
  /\ socket = "connecting" /\ socket' = "open"
  /\ Hear(<<Greeting>>)
  /\ UNCHANGED <<use, connected, timer, queue, talk, audio, inbox>>

\* Mutated: the queue is flushed, and kept.
HelloAckAgain ==
  /\ socket \in {"open", "dead"} /\ ~connected
  /\ connected' = TRUE
  /\ IF socket = "open" THEN Hear(queue) ELSE UNCHANGED gateway
  /\ UNCHANGED <<use, socket, timer, queue, talk, audio, inbox>>

\* hello_ack flushes the queue, also into a socket whose peer is gone.
HelloAck ==
  /\ socket \in {"open", "dead"} /\ ~connected
  /\ connected' = TRUE
  /\ queue' = <<>>
  /\ IF socket = "open" THEN Hear(queue) ELSE UNCHANGED gateway
  /\ UNCHANGED <<use, socket, timer, talk, audio, inbox>>

\* The network or the gateway is gone.
Break ==
  /\ socket = "open" /\ use.breaks > 0
  /\ use' = [use EXCEPT !.breaks = @ - 1]
  /\ socket' = "dead"
  /\ UNCHANGED <<connected, timer, queue, talk, audio, inbox, gateway>>

\* The gateway's close frame: readyState is CLOSING until the close event.
BeginClose ==
  /\ socket = "dead" /\ socket' = "closing"
  /\ UNCHANGED <<use, connected, timer, queue, talk, audio, inbox, gateway>>

\* Mutated: only a connection that was up is tried again.
OnCloseOnce ==
  /\ socket \in {"connecting", "dead", "closing"} /\ socket' = "closed"
  /\ connected' = FALSE
  /\ timer' = connected
  /\ inbox' = <<>>
  /\ UNCHANGED <<use, queue, talk, audio, gateway>>

\* _onClose, also of a connection that did not come about.
OnClose ==
  /\ socket \in {"connecting", "dead", "closing"} /\ socket' = "closed"
  /\ connected' = FALSE
  /\ timer' = TRUE
  /\ inbox' = <<>>
  /\ UNCHANGED <<use, queue, talk, audio, gateway>>

\* _scheduleReconnect's timer: connect().
Reconnect ==
  /\ timer /\ timer' = FALSE
  /\ socket' = "connecting"
  /\ first' = "none" /\ hellos' = 0
  /\ UNCHANGED <<use, connected, queue, talk, audio, inbox, step, phase, log>>

\* The page is reloaded, or the browser drops it.
Reload ==
  /\ use.reloads > 0
  /\ use' = [use EXCEPT !.reloads = @ - 1]
  /\ socket' = "connecting" /\ connected' = FALSE /\ timer' = FALSE /\ queue' = <<>>
  /\ ptt' = FALSE /\ asking' = 0 /\ closing' = 0 /\ live' = 0 /\ astray' = FALSE
  /\ rec' = [Off EXCEPT !.stream = rec.stream]
  /\ cache' = <<>> /\ latest' = "none" /\ inbox' = <<>>
  /\ first' = "none" /\ hellos' = 0
  /\ UNCHANGED <<step, phase, log>>

-----------------------------------------------------------------------------
(* Hold to talk.                                                           *)

\* pointerdown, of any pointer: start() asks for a microphone unless it is recording.
Press ==
  /\ use.presses > 0
  /\ use' = [use EXCEPT !.presses = @ - 1]
  /\ ptt' = TRUE
  /\ asking' = IF rec.on THEN asking ELSE asking + 1
  /\ UNCHANGED <<link, rec, closing, live, astray, audio, inbox, gateway>>

\* start() goes on: it does not look again whether it is recording, or whether the
\* button is still down.  A processor that was there stays.
Granted ==
  /\ asking > 0 /\ asking' = asking - 1
  /\ LET s == rec.stream + 1 IN
       /\ rec' = [on |-> TRUE, stream |-> s, seq |-> 0, open |-> TRUE]
       /\ Say(<<Start(s)>>)
  /\ live' = live + 1
  /\ astray' = (astray \/ ~ptt \/ live + closing > 0)
  /\ UNCHANGED <<use, socket, connected, timer, ptt, closing, audio, inbox>>

Refused ==
  /\ asking > 0 /\ asking' = asking - 1
  /\ UNCHANGED <<use, link, ptt, rec, closing, live, astray, audio, inbox, gateway>>

\* onaudioprocess, of every processor that is still connected, or whose event was
\* due when it was disconnected: pushSamples throws when nothing is recorded.
Speak ==
  /\ rec.on /\ use.pieces > 0 /\ live + closing > 0
  /\ use' = [use EXCEPT !.pieces = @ - 1]
  /\ LET n == IF live > 0 THEN live ELSE 1 IN
       /\ Say([i \in 1..n |-> Sound(rec.stream, rec.seq + i - 1, use.pieces)])
       /\ rec' = [rec EXCEPT !.seq = @ + n]
  /\ UNCHANGED <<socket, connected, timer, ptt, asking, closing, live, astray, audio, inbox>>

\* Mutated: there is nothing to stop while there is no connection.
ReleaseOnline ==
  /\ ptt /\ ptt' = FALSE
  /\ IF rec.on /\ rec.open /\ connected
     THEN rec' = [rec EXCEPT !.open = FALSE] /\ closing' = closing + 1 /\ live' = live - 1
     ELSE UNCHANGED <<rec, closing, live>>
  /\ astray' = (astray /\ live' > 0)
  /\ UNCHANGED <<use, link, asking, audio, inbox, gateway>>

\* pointerup, -cancel or -leave: stop() up to its await; the close() of a context
\* that is closed throws.
Release ==
  /\ ptt /\ ptt' = FALSE
  /\ IF rec.on /\ rec.open
     THEN rec' = [rec EXCEPT !.open = FALSE] /\ closing' = closing + 1 /\ live' = live - 1
     ELSE UNCHANGED <<rec, closing, live>>
  /\ astray' = (astray /\ live' > 0)
  /\ UNCHANGED <<use, link, asking, audio, inbox, gateway>>

\* Mutated: the end is announced before the context is closed.
StopEarly ==
  /\ closing > 0 /\ closing' = closing - 1
  /\ rec' = [rec EXCEPT !.on = FALSE]
  /\ Say(<<Finish(rec.stream), Sound(rec.stream, rec.seq, use.pieces)>>)
  /\ UNCHANGED <<use, socket, connected, timer, ptt, asking, live, astray, audio, inbox>>

\* stop() goes on when the context is closed.
Stopped ==
  /\ closing > 0 /\ closing' = closing - 1
  /\ rec' = [rec EXCEPT !.on = FALSE]
  /\ Say(<<Finish(rec.stream)>>)
  /\ UNCHANGED <<use, socket, connected, timer, ptt, asking, live, astray, audio, inbox>>

-----------------------------------------------------------------------------
(* The audio cache.                                                        *)

Ids == {cache[i].id : i \in DOMAIN cache}

\* Map.set keeps the place of a key that is there; _evict drops the oldest.
Begin(r) ==
  LET fresh == [id |-> r, chunks |-> {}, complete |-> FALSE]
      all == IF r \in Ids THEN [i \in DOMAIN cache |-> IF cache[i].id = r THEN fresh ELSE cache[i]]
                          ELSE Append(cache, fresh)
  IN IF Len(all) > MaxResponses THEN Tail(all) ELSE all

Update(r, e) == [i \in DOMAIN cache |-> IF cache[i].id = r THEN e ELSE cache[i]]
Entry(r) == cache[CHOOSE i \in DOMAIN cache : cache[i].id = r]
Gapless(chunks) == \A n \in chunks : 1..n \subseteq chunks

\* The command listener of main.js: an exception of the cache is a refusal.
HandleCommand ==
  /\ inbox # <<>> /\ inbox' = Tail(inbox)
  /\ LET r == Head(inbox).of
         n == Head(inbox).step
         ok == n = 0 \/ (r \in Ids /\ (n <= NumChunks \/ Gapless(Entry(r).chunks)))
     IN /\ latest' = IF n = 0 THEN r ELSE latest
        /\ cache' = CASE ~ok -> cache
                      [] ok /\ n = 0 -> Begin(r)
                      [] ok /\ n \in 1..NumChunks -> Update(r, [Entry(r) EXCEPT !.chunks = @ \cup {n}])
                      [] ok /\ n > NumChunks -> Update(r, [Entry(r) EXCEPT !.complete = TRUE])
        /\ Say(<<Ack(r, n, ok)>>)
  /\ UNCHANGED <<use, socket, connected, timer, talk>>

\* The gateway sends the next command of a delivery.
GatewaySends(r) ==
  /\ r \in use.responses /\ socket = "open" /\ hellos > 0
  /\ phase[r] = "ready"
  /\ phase' = [phase EXCEPT ![r] = "waiting"]
  /\ inbox' = Append(inbox, [of |-> r, step |-> step[r]])
  /\ UNCHANGED <<use, link, talk, audio, step, log, first, hellos>>

\* No ack in time: the delivery is given up.
GatewayGivesUp(r) ==
  /\ phase[r] = "waiting" /\ phase' = [phase EXCEPT ![r] = "failed"]
  /\ UNCHANGED <<use, link, talk, audio, inbox, step, log, first, hellos>>

-----------------------------------------------------------------------------
Connection == Open \/ HelloAck \/ Break \/ BeginClose \/ OnClose \/ Reconnect \/ Reload
Talking == Press \/ Granted \/ Refused \/ Speak \/ Release \/ Stopped
Delivery == HandleCommand \/ \E r \in Response : GatewaySends(r) \/ GatewayGivesUp(r)

Remember ==
  spoilt' = spoilt \cup {s \in {rec.stream, rec'.stream} \cap Stream :
                           live' + closing' > 1 \/ (rec.on /\ socket' # socket)}

PageNext == (Connection \/ Talking \/ Delivery) /\ Remember

PageSpec == PageInit /\ [][PageNext]_page

\* Timers fire, sockets tell that they are closed, a context closes, the gateway
\* answers a hello, and can be reached again and again.
PageFairness ==
  /\ WF_page((OnClose \/ Reconnect \/ HelloAck) /\ Remember)
  /\ SF_page(Open /\ Remember)
  /\ WF_page(Stopped /\ Remember)

PageFairSpec == PageSpec /\ PageFairness

-----------------------------------------------------------------------------
(* Properties.                                                             *)

\* The gateway closes a connection that does not begin with hello, and a second
\* hello would replace the first: every connection begins with its only one.
HelloOpens == first \in {"none", "hello"} /\ hellos <= 1

\* A recording whose end the gateway hears, made while the connection stayed as it
\* was, up or down, and no other microphone of the page was open or being closed, is
\* heard whole: its start, every piece of sound once and in order with seq from 0,
\* and one end.
HeardWhole ==
  \A s \in Stream \ spoilt :
    LET l == log[s]
        n == Len(l)
    IN (\E i \in 1..n : l[i].kind = "finish") =>
         /\ l[1] = Start(s) /\ l[n] = Finish(s)
         /\ \A i \in 2..n - 1 :
              /\ l[i].kind = "sound" /\ l[i].seq = i - 2
              /\ l[i].piece = l[2].piece - (i - 2)

\* Whatever is queued, flushed and broken off, no chunk of sound is heard twice.
HeardOnce ==
  \A s \in Stream : \A i, j \in DOMAIN log[s] :
    log[s][i] = log[s][j] /\ log[s][i].kind = "sound" => i = j

\* Deliveries interleave, connections break and the page is reloaded: a response
\* that counts as complete has all its chunks.
CacheSound ==
  \A i \in DOMAIN cache : cache[i].complete => cache[i].chunks = 1..NumChunks

\* Through breaks and reloads every variable has its type, a connection says hello
\* first and once, no sound is heard twice, and the cache claims nothing it lacks.
PageInv == PageTypeOK /\ HelloOpens /\ HeardOnce /\ CacheSound

\* What makes them hold.  As many recordings are to come as may, and before the first
\* nothing is open.
Room ==
  /\ rec.stream + asking + use.presses <= use.streams
  /\ rec.open => live > 0
  /\ rec.stream = 0 => ~rec.on /\ live + closing = 0

\* A connection that is tried has heard nothing, and one that is open a hello.
Greeted ==
  /\ socket = "connecting" => first = "none" /\ hellos = 0
  /\ socket = "open" => first = "hello"

\* A piece of sound is on its way to the gateway or has been heard, and stands there
\* once; pieces still to come are others.
SaidOnce ==
  /\ \A i, j \in DOMAIN queue : queue[i] = queue[j] /\ queue[i].kind = "sound" => i = j
  /\ \A i \in DOMAIN queue : queue[i].kind = "sound" => queue[i].piece > use.pieces
  /\ \A s \in Stream : \A i \in DOMAIN log[s] : log[s][i].kind = "sound" =>
       log[s][i].piece > use.pieces /\ \A j \in DOMAIN queue : queue[j] # log[s][i]

\* A delivery waits for the answer to its last command, of which there is one at most:
\* it is under way, or the answer is in the queue.
Due == {inbox[i].of : i \in DOMAIN inbox}
Awaits ==
  /\ \A i \in DOMAIN inbox :
       LET r == inbox[i].of IN
       /\ inbox[i].step = step[r] /\ phase[r] \in {"waiting", "failed"}
       /\ \A j \in DOMAIN inbox : inbox[j].of = r => i = j
  /\ \A i \in DOMAIN queue : queue[i].kind = "ack" =>
       LET r == queue[i].of IN
       /\ queue[i].step <= step[r]
       /\ phase[r] = "ready" \/ r \in Due => queue[i].step < step[r]

\* What is cached of a response: its first m chunks, up to the one before the command its
\* delivery has come to, or with it once that is handled.
Holds(e, m) == e.chunks = 1..m /\ (e.complete => m = NumChunks)
Handled(r) == phase[r] # "ready" /\ r \notin Due
Stands(r, m) ==
  /\ m + 1 = step[r] \/ (m = step[r] /\ Handled(r))
  /\ \A j \in DOMAIN queue : queue[j] = Ack(r, step[r], TRUE) /\ step[r] <= NumChunks => m = step[r]
CacheFollows ==
  /\ \A i, j \in DOMAIN cache : cache[i].id = cache[j].id => i = j
  /\ \A i \in DOMAIN cache : \E m \in 0..NumChunks : Holds(cache[i], m) /\ Stands(cache[i].id, m)

\* A recording has a processor, and one that is not spoilt has the only one; a
\* microphone that is on went astray, or it is the only one and the button is held.
Calm ==
  /\ rec.on => live + closing > 0
  /\ rec.stream \notin spoilt =>
       /\ live + closing = IF rec.on THEN 1 ELSE 0
       /\ rec.on => (rec.open <=> live = 1)
  /\ live > 0 => astray \/ (ptt /\ rec.on /\ rec.open /\ live = 1 /\ closing = 0)

\* What is heard, or waits to be, of a recording that is still on, and of one that is over.
Going(w, s) ==
  /\ Len(w) = rec.seq + 1 /\ w[1] = Start(s)
  /\ \A i \in 2..Len(w) : w[i] = Sound(s, i - 2, use.pieces + rec.seq - (i - 2))
Whole(w, s) ==
  /\ Len(w) > 1 /\ w[1] = Start(s) /\ w[Len(w)] = Finish(s)
  /\ \A i \in 2..Len(w) - 1 : w[i] = Sound(s, i - 2, w[2].piece - (i - 2))

\* A recording that is not spoilt is all heard, all queued or all lost.
Recorded(s) ==
  LET sent == log[s]
      kept == Those(queue, About(s))
  IN /\ sent = <<>> \/ kept = <<>>
     /\ s > rec.stream => sent = <<>> /\ kept = <<>>
     /\ s = rec.stream /\ rec.on =>
          /\ sent = <<>> \/ (socket = "open" /\ Going(sent, s))
          /\ kept = <<>> \/ (socket \notin {"open", "dead"} /\ Going(kept, s))
          /\ socket # "dead" => sent # <<>> \/ kept # <<>>
     /\ s < rec.stream \/ (s = rec.stream /\ ~rec.on) =>
          \A w \in {sent, kept} : w = <<>> \/ Whole(w, s)

PageInd ==
  /\ PageTypeOK /\ HelloOpens /\ HeardOnce
  /\ Room /\ Greeted /\ SaidOnce /\ Awaits /\ CacheFollows
  /\ Calm /\ \A s \in Stream \ spoilt : Recorded(s)

\* The connection comes back, and what was queued goes out, or down with one that
\* was dead when the queue was flushed.
LinkComesBack == []<>(socket = "open" /\ connected /\ queue = <<>>)

\* Once the button is up every microphone goes off and nothing is recorded, with a
\* connection or without, unless one was granted when the button was up already, or
\* while another was open or being closed.
MicReleased == []<>(ptt \/ astray \/ (live = 0 /\ ~rec.on))
=============================================================================
