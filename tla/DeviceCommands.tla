---------------------------- MODULE DeviceCommands ----------------------------
(***************************************************************************)
(* What the gateway says to its devices on behalf of others: the commands  *)
(* and routed audio of the HTTP API (api/__init__.py), sent through        *)
(* CommandDispatcher.send, and the character the device shows meanwhile    *)
(* (CharacterRendererService in character_packs/__init__.py), which is     *)
(* drawn for commands and for what devices report.                         *)
(*                                                                         *)
(* A task runs from one await to the next.  A send writes its frame at     *)
(* once and may then wait for a socket under back pressure; the sends of   *)
(* one socket go on in their order, or fail when its connection ends.      *)
(***************************************************************************)
EXTENDS Devices, RoutingPolicy, FiniteSets

CONSTANTS
  Task, None,
  Picture,        \* what a character can show: a state and a label
  Script,         \* bound: what is asked and what happens, one of these
  NumChunks       \* bound: chunks of a routed text

Ask ==
  [kind : {"status", "event"}, device : Device, picture : Picture]
    \cup [kind : {"play", "mute"}, device : Device]
    \cup [kind : {"route"}, named : Device \cup {None}, ids : Seq(Device), words : Nat, multiple : BOOLEAN]

\* What the tasks are asked, the capabilities devices offer, the devices with a
\* character pack, and how often links, packs and capabilities change.
IsCourse(s) ==
  /\ s \in [asks : {s.asks}, offers : {s.offers}, packed : SUBSET Device,
            breaks : Nat, repacks : Nat, updates : Nat]
  /\ DOMAIN s.asks \subseteq Task /\ s.asks \in [DOMAIN s.asks -> Ask]
  /\ DOMAIN s.offers \subseteq Device /\ s.offers \in [DOMAIN s.offers -> Offer]

ASSUME ScriptAssumption == (\A s \in Script : IsCourse(s)) /\ NumChunks \in Nat
ASSUME FiniteAssumption == IsFiniteSet(Device)
ASSUME PictureAssumption ==
  None \notin Picture /\ {"Buffering", "Ready", "Speaking", "Muted"} \subseteq Picture

VARIABLES
  left,            \* what of the script is still to come
  device_registry, \* the devices connected, in the order of the dict
  link,            \* device -> "up", "dead" and not known to be, or "none"
  pack,            \* device -> is a character pack in its row?
  last,            \* _last_rendered
  drain,           \* device -> the tasks whose picture went out on the link it has, and
                   \* that wait for its socket to drain
  pc, todo, step,  \* each task: where it stands, the devices it has yet to serve,
                   \* and how far it is with the first of them
  answer,          \* the result of the command it awaits
  heard,           \* whether that command reached the device
  shown,           \* history: device -> the picture it was told since it booted
  sure,            \* history: devices that were told `last` on the link they have
  among, tried     \* history: task -> devices it could choose from, and has tried

work == <<pc, todo, step, answer, heard, among, tried>>
devices == <<device_registry, link, sure>>
vars == <<left, devices, pack, last, drain, work, shown>>

Registered == ToSet(device_registry)
ask == left.asks
caps == left.offers

TypeOK ==
  /\ IsCourse(left)
  /\ device_registry \in Seq(Device) /\ IsInjective(device_registry)
  /\ link \in [Device -> {"up", "dead", "none"}]
  /\ \A d \in Device : link[d] = "none" <=> d \notin Registered
  /\ pack \in [Device -> BOOLEAN]
  /\ last \in [Device -> Picture \cup {None}] /\ drain \in [Device -> Seq(Task)]
  /\ pc \in [Task -> {"new", "synthesizing", "rendering", "drawing", "awaiting", "done"}]
  /\ answer \in [Task -> {None, "ack", "no"}] /\ heard \in [Task -> BOOLEAN]
  /\ step \in [Task -> 0..NumChunks + 1] /\ todo \in [Task -> Seq(Device)]
  /\ shown \in [Device -> Picture \cup {None}] /\ sure \subseteq Registered
  /\ among \in [Task -> Seq(Device)] /\ tried \in [Task -> SUBSET Device]

\* Devices are connected, in any order; rows have a pack or have none.
Init ==
  /\ left \in Script
  /\ device_registry \in SetToSeqs(DOMAIN left.offers)
  /\ link = [d \in Device |-> IF d \in Registered THEN "up" ELSE "none"]
  /\ pack = [d \in Device |-> d \in left.packed]
  /\ last = [d \in Device |-> None] /\ shown = last /\ sure = Registered
  /\ drain = [d \in Device |-> <<>>]
  /\ pc = [t \in Task |-> IF t \in DOMAIN ask THEN "new" ELSE "done"]
  /\ todo = [t \in Task |-> <<>>] /\ step = [t \in Task |-> 0]
  /\ answer = [t \in Task |-> None] /\ heard = [t \in Task |-> FALSE]
  /\ among = [t \in Task |-> <<>>] /\ tried = [t \in Task |-> {}]

-----------------------------------------------------------------------------
(* CommandDispatcher.send and the renderer.                                *)

\* _map_command_to_semantic, and _on_event: the picture for step n of a task.
PictureOf(t, n) ==
  CASE ask[t].kind \in {"status", "event"} -> ask[t].picture
    [] ask[t].kind = "play" -> "Speaking"
    [] ask[t].kind = "mute" -> "Muted"
    [] ask[t].kind = "route" ->
         CASE n = 0 -> "Buffering" [] n \in 1..NumChunks -> None [] n > NumChunks -> "Ready"

\* send_to_device for the command of step n, and what comes of it: a device that is
\* not connected fails it; a link that is dead and not known to be loses it.
SendCommand(t, d) ==
  /\ pc' = [pc EXCEPT ![t] = "awaiting"]
  /\ answer' = [answer EXCEPT ![t] = IF d \in Registered THEN None ELSE "no"]
  /\ heard' = [heard EXCEPT ![t] = link[d] = "up"]
  /\ tried' = [tried EXCEPT ![t] = @ \cup {d}]

\* send from its start: the picture is drawn first, unless it was the last one.
Begin(t, ds, n) ==
  LET d == Head(ds)
      p == PictureOf(t, n)
  IN /\ todo' = [todo EXCEPT ![t] = ds] /\ step' = [step EXCEPT ![t] = n]
     /\ IF p # None /\ last[d] # p
        THEN pc' = [pc EXCEPT ![t] = "rendering"] /\ UNCHANGED <<answer, heard, tried>>
        ELSE SendCommand(t, d)

End(t) ==
  /\ pc' = [pc EXCEPT ![t] = "done"] /\ todo' = [todo EXCEPT ![t] = <<>>]
  /\ UNCHANGED <<step, answer, heard, tried>>

\* The picture is done with: a report has no command, else the command is sent.
GoOn(t) ==
  IF ask[t].kind = "event" THEN End(t)
  ELSE SendCommand(t, Head(todo[t])) /\ UNCHANGED <<todo, step>>

\* _render_state_async goes on when the row was read.  For an assigned pack it has
\* the pack's id and raises; with none it sends the first built-in one.
Drawn(t) ==
  LET d == Head(todo[t])
      p == PictureOf(t, step[t])
  IN /\ pc[t] = "rendering"
     /\ IF pack[d] \/ d \notin Registered
        THEN GoOn(t) /\ UNCHANGED <<shown, sure, drain>>
        ELSE /\ pc' = [pc EXCEPT ![t] = "drawing"]
             /\ drain' = [drain EXCEPT ![d] = Append(@, t)]
             /\ shown' = IF link[d] = "up" THEN [shown EXCEPT ![d] = p] ELSE shown
             /\ sure' = IF link[d] = "up" THEN sure \cup {d} ELSE sure
             /\ UNCHANGED <<todo, step, answer, heard, tried>>
  /\ UNCHANGED <<left, device_registry, link, pack, last, among>>

\* Mutated: what could not be sent counts as drawn, too.
NotedAnyway(t) ==
  LET d == Head(todo[t])
  IN /\ pc[t] = "drawing"
     /\ last' = [last EXCEPT ![d] = PictureOf(t, step[t])]
     /\ IF t \in ToSet(drain[d])
        THEN t = Head(drain[d]) /\ drain' = [drain EXCEPT ![d] = Tail(@)]
        ELSE UNCHANGED drain
  /\ GoOn(t)
  /\ UNCHANGED <<left, devices, pack, shown, among>>

\* The picture's send returns, first come first served, and what was sent is noted;
\* or its connection has ended, which fails it.
Noted(t) ==
  LET d == Head(todo[t])
  IN /\ pc[t] = "drawing"
     /\ IF t \in ToSet(drain[d])
        THEN /\ t = Head(drain[d]) /\ drain' = [drain EXCEPT ![d] = Tail(@)]
             /\ last' = [last EXCEPT ![d] = PictureOf(t, step[t])]
        ELSE UNCHANGED <<last, drain>>
  /\ GoOn(t)
  /\ UNCHANGED <<left, devices, pack, shown, among>>

\* The device answers, or refuses, what it heard, while its link lasts.
AckArrives(t) ==
  /\ pc[t] = "awaiting" /\ answer[t] = None /\ heard[t]
  /\ link[Head(todo[t])] = "up"
  /\ \E a \in {"ack", "no"} : answer' = [answer EXCEPT ![t] = a]
  /\ UNCHANGED <<left, devices, pack, last, drain, shown, pc, todo, step, heard, among, tried>>

Timeout(t) ==
  /\ pc[t] = "awaiting" /\ answer[t] = None
  /\ answer' = [answer EXCEPT ![t] = "no"]
  /\ UNCHANGED <<left, devices, pack, last, drain, shown, pc, todo, step, heard, among, tried>>

-----------------------------------------------------------------------------
(* The HTTP API, and the events that are drawn.                            *)

\* A status, a playback or a mute is asked for, of a device that is connected.
Command(t) ==
  /\ pc[t] = "new" /\ ask[t].kind \in {"status", "play", "mute"}
  /\ IF ask[t].device \in Registered THEN Begin(t, <<ask[t].device>>, 0) ELSE End(t)
  /\ UNCHANGED <<left, devices, pack, last, drain, shown, among>>

\* A device reports a mode, a button or a playback: a task draws it.
Event(t) ==
  /\ pc[t] = "new" /\ ask[t].kind = "event" /\ link[ask[t].device] # "none"
  /\ IF last[ask[t].device] # ask[t].picture THEN Begin(t, <<ask[t].device>>, 0) ELSE End(t)
  /\ UNCHANGED <<left, devices, pack, last, drain, shown, among>>

\* _route, up to the synthesis in a thread.
Route(t) ==
  /\ pc[t] = "new" /\ ask[t].kind = "route"
  /\ among' = [among EXCEPT ![t] = device_registry]
  /\ LET known == {ask[t].named} \cup ToSet(ask[t].ids) \subseteq Registered \cup {None}
         ds == Evaluate(ask[t], device_registry, caps)
     IN IF known /\ ds # <<>>
        THEN /\ pc' = [pc EXCEPT ![t] = "synthesizing"] /\ todo' = [todo EXCEPT ![t] = ds]
             /\ UNCHANGED <<step, answer, heard, tried>>
        ELSE End(t)
  /\ UNCHANGED <<left, devices, pack, last, drain, shown>>

\* _route_to_devices goes on; with no audio it gives up.
Synthesized(t) ==
  /\ pc[t] = "synthesizing"
  /\ Begin(t, todo[t], 0) \/ End(t)
  /\ UNCHANGED <<left, devices, pack, last, drain, shown, among>>

\* Mutated: a device that fails ends the route.
ResumeOrFail(t) ==
  /\ pc[t] = "awaiting" /\ answer[t] # None
  /\ IF ask[t].kind = "route"
     THEN CASE answer[t] = "ack" /\ step[t] <= NumChunks -> Begin(t, todo[t], step[t] + 1)
            [] answer[t] = "ack" /\ step[t] > NumChunks ->
                 IF Len(todo[t]) > 1 THEN Begin(t, Tail(todo[t]), 0) ELSE End(t)
            [] answer[t] = "no" -> End(t)
     ELSE End(t)
  /\ UNCHANGED <<left, devices, pack, last, drain, shown, among>>

\* The task is woken with the answer: _send_audio_to_device goes on to its next
\* command, or it is through with this device and the loop takes the next one.
Resume(t) ==
  /\ pc[t] = "awaiting" /\ answer[t] # None
  /\ CASE ask[t].kind = "route" /\ answer[t] = "ack" /\ step[t] <= NumChunks ->
            Begin(t, todo[t], step[t] + 1)
       [] ask[t].kind = "route" /\ Len(todo[t]) > 1
            /\ (answer[t] = "no" \/ step[t] > NumChunks) -> Begin(t, Tail(todo[t]), 0)
       [] OTHER -> End(t)
  /\ UNCHANGED <<left, devices, pack, last, drain, shown, among>>

\* POST .../character: the row is written, and nothing drawn.
SetPack(d) ==
  /\ left.repacks > 0 /\ left' = [left EXCEPT !.repacks = @ - 1]
  /\ pack' = [pack EXCEPT ![d] = ~@]
  /\ UNCHANGED <<devices, last, drain, work, shown>>

\* device.capability_updated: what was drawn is forgotten.
CapabilityUpdated(d) ==
  /\ d \in Registered /\ left.updates > 0
  /\ left' = [left EXCEPT !.updates = @ - 1]
  /\ last' = [last EXCEPT ![d] = None]
  /\ UNCHANGED <<devices, pack, drain, work, shown>>

-----------------------------------------------------------------------------
(* Connections.                                                            *)

\* The link breaks, and nobody knows.
Break(d) ==
  /\ link[d] = "up" /\ left.breaks > 0
  /\ left' = [left EXCEPT !.breaks = @ - 1]
  /\ link' = [link EXCEPT ![d] = "dead"] /\ sure' = sure \ {d}
  /\ UNCHANGED <<device_registry, pack, last, drain, work, shown>>

\* The gateway notices, and what waits for the socket fails.
Leave(d) ==
  /\ link[d] = "dead"
  /\ link' = [link EXCEPT ![d] = "none"] /\ drain' = [drain EXCEPT ![d] = <<>>]
  /\ device_registry' = Those(device_registry, Device \ {d})
  /\ UNCHANGED <<left, sure, pack, last, work, shown>>

\* The device is back, and answers on the new link what it heard on the former one,
\* unless it has rebooted; a dict keeps the place of a key it has, and the row is
\* written anew, without a character pack.
Join(d) ==
  /\ d \in DOMAIN caps /\ link[d] # "up"
  /\ link' = [link EXCEPT ![d] = "up"] /\ drain' = [drain EXCEPT ![d] = <<>>]
  /\ device_registry' = IF d \in Registered THEN device_registry ELSE Append(device_registry, d)
  /\ pack' = [pack EXCEPT ![d] = FALSE]
  /\ \/ UNCHANGED <<shown, heard>>
     \/ /\ shown' = [shown EXCEPT ![d] = None]
        /\ heard' = [t \in Task |-> heard[t] /\ (todo[t] = <<>> \/ Head(todo[t]) # d)]
  /\ UNCHANGED <<left, sure, last, pc, todo, step, answer, among, tried>>

-----------------------------------------------------------------------------
Serve(t) == Drawn(t) \/ Noted(t) \/ Timeout(t) \/ Synthesized(t) \/ Resume(t)

Next ==
  \/ \E t \in Task : Serve(t) \/ AckArrives(t) \/ Command(t) \/ Event(t) \/ Route(t)
  \/ \E d \in Device : SetPack(d) \/ CapabilityUpdated(d) \/ Break(d) \/ Leave(d) \/ Join(d)

Spec == Init /\ [][Next]_vars

\* The pool reads, a socket drains or its connection ends, the timer of wait_for
\* fires, and ready tasks run.
FairSpec == Spec /\ \A t \in Task : WF_vars(Serve(t))

-----------------------------------------------------------------------------
(* Properties.                                                             *)

\* On a device whose link has lasted the gateway believes the picture to be shown that
\* is shown, or none, however renders, reports and commands overlap; while it waits for
\* the socket, the device shows the last picture that waits.  A render that is skipped
\* as unchanged when nothing waits would change nothing.
CharacterKnown ==
  \A d \in sure :
    IF drain[d] = <<>> THEN last[d] \in {None, shown[d]}
    ELSE LET t == Last(drain[d]) IN shown[d] = PictureOf(t, step[t])

\* Which devices were told: only those whose link holds.
ToldOnline == \A d \in sure : link[d] = "up"

\* A task that is not done was asked something, and while it serves devices there is
\* one that it serves.
Serving ==
  \A t \in Task :
    /\ pc[t] # "done" => t \in DOMAIN ask
    /\ pc[t] \in {"synthesizing", "rendering", "drawing", "awaiting"} => todo[t] # <<>>

\* A task that waits for a socket draws for its device, and waits once.
Draining ==
  \A d \in Device :
    /\ IsInjective(drain[d])
    /\ \A t \in ToSet(drain[d]) : pc[t] = "drawing" /\ Head(todo[t]) = d

\* Every variable has its type, and the gateway knows the pictures of its devices.
CommandsInv == TypeOK /\ CharacterKnown /\ ToldOnline /\ Serving /\ Draining

\* A text for which no devices are named, as the code decides.  A short one goes to
\* one foreground device, to one that can speak it if there is one, else to one that
\* cannot, and to nobody if none is in the foreground.  A long one, or one for several,
\* goes only to devices that can speak it: to all of them in the background, to one of
\* them in the foreground if there is one, to one at most besides the background, and
\* to nobody only if none can.
ChoosesWell ==
  \A t \in Task : pc[t] # "new" /\ t \in DOMAIN ask /\ ask[t].kind = "route" /\ ask[t].ids = <<>> =>
    LET CanDo(d) == CanSpeak(Read(caps[d]), ask[t].words)
        Primary(d) == Read(caps[d]).foreground
        Rear(d) == Read(caps[d]).background
        there == ToSet(among[t])
        taken == ToSet(Evaluate(ask[t], among[t], caps))
    IN /\ taken \subseteq there
       /\ IF IsLong(ask[t].words) \/ ask[t].multiple
          THEN /\ \A d \in taken : CanDo(d)
               /\ \A d \in there : CanDo(d) =>
                    /\ taken # {} /\ (Rear(d) => d \in taken)
                    /\ Primary(d) => \E e \in taken : Primary(e)
               /\ Cardinality({d \in taken : ~Rear(d)}) <= 1
          ELSE /\ Cardinality(taken) <= 1 /\ \A d \in taken : Primary(d)
               /\ \A d \in there : Primary(d) => \E e \in taken : CanDo(d) => CanDo(e)

\* A route that is over and had its audio has tried every device it chose: none is
\* left out because another one vanished or failed.
AllTried(t) ==
  ask[t].kind = "route" => tried[t] \in {{}, ToSet(Evaluate(ask[t], among[t], caps))}

\* Every request is answered, whatever becomes of its devices, and not before all
\* of them were tried.
Answered ==
  \A t \in Task :
    []<>(pc[t] = "new" \/ (pc[t] = "done" /\ (t \in DOMAIN ask => AllTried(t))))
=============================================================================
