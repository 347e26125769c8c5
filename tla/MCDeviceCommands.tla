--------------------------- MODULE MCDeviceCommands ---------------------------
(***************************************************************************)
(* Model-checking instance of DeviceCommands: commands and events of one   *)
(* device whose link breaks and whose pack changes; texts routed to two    *)
(* devices, one of them lost; and every choice between devices.            *)
(***************************************************************************)
EXTENDS DeviceCommands

CONSTANTS d1, d2, t1, t2, t3

Pictures == {"Buffering", "Ready", "Speaking", "Muted", "Thinking", "Listening"}

Show(d, p) == [kind |-> "status", device |-> d, picture |-> p]
Play(d) == [kind |-> "play", device |-> d]
Mute(d) == [kind |-> "mute", device |-> d]
Report(d, p) == [kind |-> "event", device |-> d, picture |-> p]
Speak(n, all) == [kind |-> "route", named |-> None, ids |-> <<>>, words |-> n, multiple |-> all]
SpeakTo(ds) == [kind |-> "route", named |-> None, ids |-> ds, words |-> 50, multiple |-> FALSE]
SpeakAt(d) == [kind |-> "route", named |-> d, ids |-> <<>>, words |-> 50, multiple |-> FALSE]

Plain == Able(120, TRUE, FALSE)
Both(a, b) == (d1 :> a) @@ (d2 :> b)
Asked(a, b, c) == (t1 :> a) @@ (t2 :> b) @@ (t3 :> c)
Staged(wanted, offered, withPack, cuts, changes, upgrades) ==
  [asks |-> wanted, offers |-> offered, packed |-> withPack,
   breaks |-> cuts, repacks |-> changes, updates |-> upgrades]

\* One device: a status, a report and a playback; a mute in place of it.
OneDevice ==
  {Staged(Asked(Show(d1, "Thinking"), Report(d1, "Listening"), last3), (d1 :> Plain), {}, 2, 1, 1) :
     last3 \in {Play(d1), Mute(d1), Show(d1, "Thinking")}}

\* Two devices: a text for both while one is lost, and another text or a report.
TwoDevices ==
  {Staged((t1 :> Speak(150, FALSE)) @@ (t2 :> other), Both(Plain, Able(300, FALSE, TRUE)), {}, 1, 0, 0) :
     other \in {Report(d1, "Listening"), SpeakTo(<<d2, d1>>)}}

\* Every choice between two devices, one text at a time.
Offers ==
  {Able(n, f, b) : n \in {30, 40, 300}, f \in BOOLEAN, b \in BOOLEAN}
    \cup {Unreadable("dashboard"), Unreadable("watch")}
EveryChoice ==
  {Staged((t1 :> text), Both(a, b), {d1}, 0, 0, 0) :
     text \in {Speak(100, FALSE), Speak(90, TRUE), Speak(101, FALSE), Speak(400, FALSE),
               SpeakTo(<<d1, d2>>), SpeakAt(d2)},
     a \in Offers, b \in Offers}

Scripts == OneDevice \cup TwoDevices \cup EveryChoice
=============================================================================
