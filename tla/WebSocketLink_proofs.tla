------------------------- MODULE WebSocketLink_proofs -------------------------
(***************************************************************************)
(* Proofs about WebSocketLink, for every length of the queue, every limit  *)
(* of the writers and every pair of applications: closing is one           *)
(* handshake, and recv returns what was sent, in order and without a gap.  *)
(***************************************************************************)
EXTENDS WebSocketLink, SequenceLemmas

-----------------------------------------------------------------------------
(* Frames on a wire.                                                       *)

\* There are two ends.
LEMMA Ends ==
  \A s \in Side : /\ Peer(s) \in Side /\ Peer(s) # s /\ Peer(Peer(s)) = s
                  /\ \A q \in Side : q = s \/ q = Peer(s)
BY DEF Side, Peer

\* A frame by its kind.
LEMMA FrameKinds ==
  /\ \A f \in Frame : /\ f.op \in {"data", "close", "ping", "pong"}
                      /\ f.op = "data" => f.n \in Nat
                      /\ f.op = "close" => f.n \in Code /\ f.n # None
  /\ \A n \in Nat : Data(n) \in Frame /\ Data(n).op = "data" /\ Data(n).n = n
  /\ \A c \in Code : CloseFrame(c) \in Frame /\ CloseFrame(c).op = "close" /\ CloseFrame(c).n = c
  /\ Ping \in Frame /\ Ping.op = "ping" /\ Pong \in Frame /\ Pong.op = "pong"
BY DEF Frame, Data, CloseFrame, Ping, Pong, Code, Normal, TooBigCode, InternalError, None

\* The first message on the wire is the next one; what comes after it is ordered again.
LEMMA OrderedReads ==
  ASSUME NEW w \in Seq(Frame), NEW d \in Nat, Ordered(w, d), w # <<>>, Head(w).op = "data"
  PROVE  Head(w).n = d + 1 /\ Ordered(Tail(w), d + 1)
<1> DEFINE t == Tail(w)
<1>1. /\ Head(w) = w[1] /\ w[1] \in Frame /\ w[1].n \in Nat
      /\ Len(w) \in Nat \ {0} /\ DOMAIN w = 1..Len(w) /\ DOMAIN t = 1..Len(w) - 1
      /\ \A i \in 1..Len(w) - 1 : t[i] = w[i + 1]
  BY FirstTaken, FrameKinds
<1>2. \A i \in DOMAIN w : w[i] \in Frame
  BY <1>1, ElementOfSeq
<1>3. w[1].n = d + 1
  <2>1. 1 \in DOMAIN w /\ w[1].n > d
    BY <1>1 DEF Ordered
  <2>2. d + 1 \in d + 1..w[1].n
    BY <1>1, <2>1
  <2>3. w[1] = Data(d + 1)
    BY <1>1, <2>1, <2>2 DEF Ordered
  <2> QED BY <2>3, FrameKinds
<1>4. ASSUME NEW i \in DOMAIN t, t[i].op = "data"
      PROVE  t[i].n > d + 1 /\ \A k \in d + 1 + 1..t[i].n : \E j \in 1..i : t[j] = Data(k)
  <2>1. i + 1 \in DOMAIN w /\ 1 \in DOMAIN w /\ t[i] = w[i + 1] /\ w[i + 1].n \in Nat
    BY <1>1, <1>2, <1>4, FrameKinds
  <2>2. t[i].n > d + 1
    BY <1>1, <1>3, <1>4, <2>1 DEF Ordered
  <2>3. ASSUME NEW k \in d + 1 + 1..t[i].n PROVE \E j \in 1..i : t[j] = Data(k)
    <3> k \in d + 1..w[i + 1].n
      BY <2>1
    <3>1. PICK j \in 1..i + 1 : w[j] = Data(k)
      BY <1>4, <2>1 DEF Ordered
    <3>2. j # 1
      BY <1>3, <3>1, FrameKinds
    <3>3. j - 1 \in 1..i /\ t[j - 1] = w[j]
      BY <1>1, <3>2
    <3> QED BY <3>1, <3>3
  <2> QED BY <2>2, <2>3
<1>5. ASSUME NEW i \in DOMAIN t, NEW j \in DOMAIN t, i < j, t[i].op = "data", t[j].op = "data"
      PROVE  t[i].n < t[j].n
  BY <1>1, <1>5 DEF Ordered
<1> QED BY <1>1, <1>3, <1>4, <1>5 DEF Ordered

\* Another frame is not missed.
LEMMA OrderedSkips ==
  ASSUME NEW w \in Seq(Frame), NEW d \in Nat, Ordered(w, d), w # <<>>, Head(w).op # "data"
  PROVE  Ordered(Tail(w), d)
<1> DEFINE t == Tail(w)
<1>1. /\ Head(w) = w[1]
      /\ Len(w) \in Nat \ {0} /\ DOMAIN w = 1..Len(w) /\ DOMAIN t = 1..Len(w) - 1
      /\ \A i \in 1..Len(w) - 1 : t[i] = w[i + 1]
  BY FirstTaken
<1>2. ASSUME NEW i \in DOMAIN t, t[i].op = "data"
      PROVE  t[i].n > d /\ \A k \in d + 1..t[i].n : \E j \in 1..i : t[j] = Data(k)
  <2>1. i + 1 \in DOMAIN w /\ t[i] = w[i + 1]
    BY <1>1
  <2>2. ASSUME NEW k \in d + 1..t[i].n PROVE \E j \in 1..i : t[j] = Data(k)
    <3>1. PICK j \in 1..i + 1 : w[j] = Data(k)
      BY <1>2, <2>1 DEF Ordered
    <3>2. j # 1
      <4>1. k \in Nat
        OBVIOUS
      <4> QED BY <1>1, <3>1, <4>1, FrameKinds
    <3>3. j - 1 \in 1..i /\ t[j - 1] = w[j]
      BY <1>1, <3>2
    <3> QED BY <3>1, <3>3
  <2> QED BY <1>2, <2>1, <2>2 DEF Ordered
<1>3. ASSUME NEW i \in DOMAIN t, NEW j \in DOMAIN t, i < j, t[i].op = "data", t[j].op = "data"
      PROVE  t[i].n < t[j].n
  BY <1>1, <1>3 DEF Ordered
<1> QED BY <1>2, <1>3 DEF Ordered

\* The next message may be written, and any other frame.
LEMMA OrderedWrites ==
  ASSUME NEW w \in Seq(Frame), NEW d \in Nat, NEW n \in Nat, NEW f \in Frame, Ordered(w, d),
         f.op = "data" => f = Data(n + 1) /\ Complete(w, d, n)
  PROVE  Ordered(Append(w, f), d)
<1> DEFINE a == Append(w, f)
<1>1. /\ Len(w) \in Nat /\ DOMAIN w = 1..Len(w) /\ DOMAIN a = 1..Len(w) + 1
      /\ a[Len(w) + 1] = f /\ \A i \in 1..Len(w) : a[i] = w[i]
  BY Joined
<1> HIDE DEF a
<1>2. f.op = "data" => f.n = n + 1 /\ d <= n
  BY FrameKinds DEF Complete
<1>3. ASSUME NEW i \in DOMAIN a, a[i].op = "data"
      PROVE  a[i].n > d /\ \A k \in d + 1..a[i].n : \E j \in 1..i : a[j] = Data(k)
  <2>1. CASE i = Len(w) + 1
    <3>1. a[i].n = n + 1 /\ n + 1 > d /\ a[i] = Data(n + 1)
      BY <1>1, <1>2, <1>3, <2>1
    <3>2. ASSUME NEW k \in d + 1..n + 1 PROVE \E j \in 1..i : a[j] = Data(k)
      <4>1. CASE k = n + 1
        BY <1>1, <2>1, <3>1, <4>1
      <4>2. CASE k # n + 1
        <5>1. PICK j \in DOMAIN w : w[j] = Data(k)
          BY <1>1, <1>3, <2>1, <4>2 DEF Complete
        <5> QED BY <1>1, <2>1, <5>1
      <4> QED BY <4>1, <4>2
    <3> QED BY <3>1, <3>2
  <2>2. CASE i # Len(w) + 1
    <3>1. i \in DOMAIN w /\ a[i] = w[i] /\ \A j \in 1..i : a[j] = w[j]
      BY <1>1, <2>2
    <3> QED BY <1>3, <3>1 DEF Ordered
  <2> QED BY <2>1, <2>2
<1>4. ASSUME NEW i \in DOMAIN a, NEW j \in DOMAIN a, i < j, a[i].op = "data", a[j].op = "data"
      PROVE  a[i].n < a[j].n
  <2>1. i \in DOMAIN w /\ a[i] = w[i]
    BY <1>1, <1>4
  <2>2. CASE j = Len(w) + 1
    <3>1. f.op = "data" /\ a[j] = f
      BY <1>1, <1>4, <2>2
    <3>2. w[i].n <= n /\ w[i].n \in Nat
      BY <1>4, <2>1, <3>1, ElementOfSeq, FrameKinds, <1>1 DEF Complete
    <3> QED BY <1>2, <2>1, <3>1, <3>2
  <2>3. CASE j # Len(w) + 1
    BY <1>1, <1>4, <2>1, <2>3 DEF Ordered
  <2> QED BY <2>2, <2>3
<1>5. Ordered(a, d)
  BY <1>3, <1>4 DEF Ordered
<1> QED BY <1>5 DEF a

\* What is cut off at the end leaves the order.
LEMMA OrderedCut ==
  ASSUME NEW w \in Seq(Frame), NEW d \in Nat, NEW n \in 0..Len(w), Ordered(w, d)
  PROVE  Ordered(SubSeq(w, 1, n), d)
<1> DEFINE u == SubSeq(w, 1, n)
<1>1. Len(w) \in Nat /\ DOMAIN w = 1..Len(w) /\ \A i \in 1..n : w[i] \in Frame
  BY LenProperties, ElementOfSeq
<1>2. u \in Seq(Frame) /\ Len(u) = n /\ \A i \in 1..n : u[i] = w[i]
  BY <1>1, SubSeqProperties
<1>3. DOMAIN u = 1..n
  BY <1>2, LenProperties
<1> HIDE DEF u
<1>4. Ordered(u, d)
  BY SMTT(30), <1>1, <1>2, <1>3 DEF Ordered
<1> QED BY <1>4 DEF u

\* The wire stays complete when its first frame is read
LEMMA CompleteReads ==
  ASSUME NEW w \in Seq(Frame), NEW d \in Nat, NEW n \in Nat, Complete(w, d, n), Ordered(w, d), w # <<>>
  PROVE  Complete(Tail(w), IF Head(w).op = "data" THEN d + 1 ELSE d, n)
<1> DEFINE t == Tail(w)
           e == IF Head(w).op = "data" THEN d + 1 ELSE d
<1>1. /\ Head(w) = w[1]
      /\ Len(w) \in Nat \ {0} /\ DOMAIN w = 1..Len(w) /\ DOMAIN t = 1..Len(w) - 1
      /\ \A i \in 1..Len(w) - 1 : t[i] = w[i + 1]
  BY FirstTaken
<1>2. w[1].op = "data" => w[1].n = d + 1
  BY <1>1, OrderedReads
<1>3. e <= n
  BY <1>1, <1>2 DEF Complete
<1>4. \A i \in DOMAIN t : t[i].op = "data" => t[i].n <= n
  BY <1>1 DEF Complete
<1>5. ASSUME NEW k \in e + 1..n PROVE \E j \in DOMAIN t : t[j] = Data(k)
  <2>1. PICK j \in DOMAIN w : w[j] = Data(k)
    BY DEF Complete
  <2>2. w[j].op = "data" /\ w[j].n = k
    BY <2>1, FrameKinds
  <2>3. j # 1
    BY <1>1, <1>2, <2>2
  <2>4. j - 1 \in DOMAIN t /\ t[j - 1] = w[j]
    BY <1>1, <2>3
  <2> QED BY <2>1, <2>4
<1> QED BY <1>3, <1>4, <1>5 DEF Complete

\* and when a frame is written.
LEMMA CompleteWrites ==
  ASSUME NEW w \in Seq(Frame), NEW d \in Nat, NEW n \in Nat, NEW f \in Frame, Complete(w, d, n),
         f.op = "data" => f = Data(n + 1)
  PROVE  Complete(Append(w, f), d, IF f.op = "data" THEN n + 1 ELSE n)
<1> DEFINE a == Append(w, f)
           m == IF f.op = "data" THEN n + 1 ELSE n
<1>1. /\ Len(w) \in Nat /\ DOMAIN w = 1..Len(w) /\ DOMAIN a = 1..Len(w) + 1
      /\ a[Len(w) + 1] = f /\ \A i \in 1..Len(w) : a[i] = w[i]
  BY Joined
<1> HIDE DEF a
<1>2. f.op = "data" => f.n = n + 1
  BY FrameKinds
<1>3. ASSUME NEW i \in DOMAIN a, a[i].op = "data" PROVE a[i].n <= m
  <2>1. CASE i = Len(w) + 1
    BY <1>1, <1>2, <1>3, <2>1
  <2>2. CASE i # Len(w) + 1
    <3>1. i \in DOMAIN w /\ a[i] = w[i] /\ w[i].n \in Nat
      BY <1>1, <1>3, <2>2, ElementOfSeq, FrameKinds
    <3> QED BY <1>3, <3>1 DEF Complete
  <2> QED BY <2>1, <2>2
<1>4. ASSUME NEW k \in d + 1..m PROVE \E j \in DOMAIN a : a[j] = Data(k)
  <2>1. CASE k = n + 1
    BY <1>1, <2>1
  <2>2. CASE k # n + 1
    <3>1. PICK j \in DOMAIN w : w[j] = Data(k)
      BY <2>2 DEF Complete
    <3> QED BY <1>1, <3>1
  <2> QED BY <2>1, <2>2
<1>5. Complete(a, d, m)
  BY <1>3, <1>4 DEF Complete
<1> QED BY <1>5 DEF a

\* With nothing on the wire everything was delivered.
LEMMA CompleteEmpty ==
  ASSUME NEW w \in Seq(Frame), NEW d \in Nat, NEW n \in Nat, Complete(w, d, n),
         \A i \in DOMAIN w : w[i].op # "data"
  PROVE  d = n
<1>1. \A k \in d + 1..n : k \in Nat
  OBVIOUS
<1>2. \A k \in d + 1..n : FALSE
  BY <1>1, FrameKinds DEF Complete
<1> QED BY <1>2 DEF Complete

-----------------------------------------------------------------------------
(* Types.                                                                  *)

\* The type invariant by its parts.
Networks ==
  /\ resets \in Nat
  /\ tcp \in [Side -> {"up", "half", "closing", "lost"}]
  /\ eof \in [Side -> BOOLEAN] /\ broken \in [Side -> BOOLEAN] /\ aborted \in [Side -> BOOLEAN]

Wires == wire \in [Side -> Seq(Frame)]

Handshakes ==
  /\ state \in [Side -> {"OPEN", "CLOSING", "CLOSED"}]
  /\ close_rcvd \in [Side -> Code \cup {None}] /\ close_sent \in [Side -> Code \cup {None}]
  /\ close_rcvd_then_sent \in [Side -> {"unset", "yes", "no"}]

Queues == messages \in [Side -> Seq(Nat)] /\ \A s \in Side : Len(messages[s]) <= MaxQueue

Tasks ==
  /\ transfer \in [Side -> {"reading", "answering", "echoing", "full", "cancelled", "done"}]
  /\ inhand \in [Side -> Nat]
  /\ keepalive \in [Side -> {"off", "sleeping", "draining", "waiting", "done"}]
  /\ pings \in [Side -> BOOLEAN]
  /\ closer \in [Side -> {"transfer", "tcp", "half", "close", "done"}]

Callers ==
  /\ recv \in [Side -> {"never", "idle", "waiting", "ensuring", "ok", "error"}]
  /\ woken \in [Side -> BOOLEAN]
  /\ send \in [Side -> {"idle", "draining", "ensuring", "failed"}]
  /\ close \in [Side -> {"never", "idle", "draining", "transfer", "tcp", "done"}]
  /\ unsent \in [Side -> Nat] /\ waits \in [Side -> Nat]
  /\ written \in [Side -> Nat] /\ got \in [Side -> Seq(Nat)]

\* The parts are the whole.
LEMMA TypeParts == TypeOK <=> Networks /\ Wires /\ Handshakes /\ Queues /\ Tasks /\ Callers
BY DEF TypeOK, Networks, Wires, Handshakes, Queues, Tasks, Callers

\* Frames join a wire, and leave it.
LEMMA PlusType ==
  \A w \in [Side -> Seq(Frame)], s \in Side, f \in Frame : Plus(w, s, f) \in [Side -> Seq(Frame)]
BY Joined DEF Plus

LEMMA RestType ==
  ASSUME Wires, NEW p \in Side, wire[p] # <<>>
  PROVE  [wire EXCEPT ![p] = Tail(@)] \in [Side -> Seq(Frame)] /\ Head(wire[p]) \in Frame
BY FirstTaken DEF Wires

LEMMA EnqueueType ==
  ASSUME Queues, NEW s \in Side, NEW n \in Nat, Enqueue(s, n), Len(messages[s]) < MaxQueue
  PROVE  Queues'
<1>1. /\ Append(messages[s], n) \in Seq(Nat) /\ Len(messages[s]) \in Nat
      /\ Len(Append(messages[s], n)) = Len(messages[s]) + 1
  BY Joined DEF Queues
<1>2. messages' = [messages EXCEPT ![s] = Append(messages[s], n)]
  BY DEF Enqueue
<1> QED BY <1>1, <1>2, LimitAssumption DEF Queues

LEMMA PopType ==
  ASSUME Queues, Callers, NEW s \in Side, Pop(s), messages[s] # <<>>
  PROVE  Queues' /\ got' \in [Side -> Seq(Nat)]
<1>1. /\ Head(messages[s]) \in Nat /\ Tail(messages[s]) \in Seq(Nat)
      /\ Len(Tail(messages[s])) = Len(messages[s]) - 1 /\ Len(messages[s]) \in Nat
  BY FirstTaken DEF Queues
<1>2. Append(got[s], Head(messages[s])) \in Seq(Nat)
  BY <1>1, Joined DEF Callers
<1>3. messages' = [messages EXCEPT ![s] = Tail(messages[s])]
  BY DEF Pop
<1>4. Queues'
  BY <1>1, <1>3, LimitAssumption DEF Queues
<1>5. got' = [got EXCEPT ![s] = Append(got[s], Head(messages[s]))]
  BY DEF Pop
<1>6. got' \in [Side -> Seq(Nat)]
  BY <1>2, <1>5 DEF Callers
<1> QED BY <1>4, <1>6

\* The closing codes are codes.
LEMMA Codes == Normal \in Code /\ TooBigCode \in Code /\ InternalError \in Code
BY DEF Code

-----------------------------------------------------------------------------
(* The close frame on a wire.                                              *)

Closes(w) == \E i \in DOMAIN w : w[i].op = "close"
ClosesLast(w) == \A i \in 1..(Len(w) - 1) : w[i].op # "close"

\* A close frame that is read was the last frame.
LEMMA CloseReads ==
  ASSUME NEW w \in Seq(Frame), ClosesLast(w), w # <<>>
  PROVE  /\ ClosesLast(Tail(w)) /\ (Closes(Tail(w)) => Closes(w))
         /\ Head(w).op = "close" => Closes(w) /\ ~Closes(Tail(w))
<1> DEFINE t == Tail(w)
<1>1. /\ Head(w) = w[1] /\ t \in Seq(Frame) /\ Len(t) = Len(w) - 1
      /\ Len(w) \in Nat \ {0} /\ DOMAIN w = 1..Len(w) /\ DOMAIN t = 1..Len(w) - 1
      /\ \A i \in 1..Len(w) - 1 : t[i] = w[i + 1]
  BY FirstTaken
<1> HIDE DEF t
<1>2. ClosesLast(t) /\ (Closes(t) => Closes(w))
  BY SMTT(30), <1>1 DEF ClosesLast, Closes
<1>3. Head(w).op = "close" => Closes(w) /\ ~Closes(t)
  BY <1>1 DEF ClosesLast, Closes
<1> QED BY <1>2, <1>3 DEF t

\* A frame that is written where there is no close frame may be one.
LEMMA CloseWrites ==
  ASSUME NEW w \in Seq(Frame), NEW f \in Frame, ~Closes(w)
  PROVE  ClosesLast(Append(w, f)) /\ (Closes(Append(w, f)) <=> f.op = "close")
<1> DEFINE a == Append(w, f)
<1>1. /\ Len(w) \in Nat /\ DOMAIN w = 1..Len(w) /\ DOMAIN a = 1..Len(w) + 1 /\ Len(a) = Len(w) + 1
      /\ a[Len(w) + 1] = f /\ \A i \in 1..Len(w) : a[i] = w[i]
  BY Joined
<1> HIDE DEF a
<1>2. ClosesLast(a) /\ (Closes(a) <=> f.op = "close")
  BY <1>1 DEF Closes, ClosesLast
<1> QED BY <1>2 DEF a

\* Where the close frame is left nothing was cut off.
LEMMA CloseCut ==
  ASSUME NEW w \in Seq(Frame), NEW n \in 0..Len(w), ClosesLast(w)
  PROVE  /\ ClosesLast(SubSeq(w, 1, n))
         /\ Closes(SubSeq(w, 1, n)) => Closes(w) /\ SubSeq(w, 1, n) = w
<1> DEFINE u == SubSeq(w, 1, n)
<1>1. Len(w) \in Nat /\ DOMAIN w = 1..Len(w) /\ \A i \in 1..n : w[i] \in Frame
  BY LenProperties, ElementOfSeq
<1>2. u \in Seq(Frame) /\ Len(u) = n /\ \A i \in 1..n : u[i] = w[i]
  BY <1>1, SubSeqProperties
<1>3. DOMAIN u = 1..n
  BY <1>2, LenProperties
<1> HIDE DEF u
<1>4. ClosesLast(u)
  BY <1>1, <1>2, <1>3 DEF ClosesLast
<1>5. ASSUME Closes(u) PROVE Closes(w) /\ u = w
  <2>1. PICK i \in 1..n : w[i].op = "close"
    BY <1>2, <1>3, <1>5 DEF Closes
  <2>2. n = Len(w)
    <3>1. i \notin 1..(Len(w) - 1)
      BY <2>1 DEF ClosesLast
    <3>2. i \in Nat /\ n \in Nat /\ Len(w) \in Nat /\ 1 <= i /\ i <= n /\ n <= Len(w)
      BY <1>1
    <3>3. ~(i <= Len(w) - 1)
      BY <3>1, <3>2
    <3> QED BY <3>2, <3>3
  <2>3. u = w
    BY <1>1, <1>2, <1>3, <2>2, SeqEqual
  <2> QED BY <1>1, <2>1, <2>3 DEF Closes
<1> QED BY <1>4, <1>5 DEF u

-----------------------------------------------------------------------------
(* What a step of an end does, seen from the wires.                        *)

\* The other end: only its wire may change.
Rests(p) ==
  /\ transfer'[p] = transfer[p] /\ inhand'[p] = inhand[p] /\ messages'[p] = messages[p]
  /\ got'[p] = got[p] /\ recv'[p] = recv[p] /\ (woken'[p] <=> woken[p])
  /\ state'[p] = state[p] /\ close_sent'[p] = close_sent[p] /\ close_rcvd'[p] = close_rcvd[p]
  /\ close_rcvd_then_sent'[p] = close_rcvd_then_sent[p]
  /\ tcp'[p] = tcp[p] /\ written'[p] = written[p]
  /\ closer'[p] = closer[p] /\ close'[p] = close[p] /\ waits'[p] = waits[p]

\* Nothing is written,
Silent(s) ==
  /\ wire'[s] = wire[s] /\ written'[s] = written[s]
  /\ state'[s] = state[s] /\ close_sent'[s] = close_sent[s]
  /\ (tcp'[s] = "lost" <=> tcp[s] = "lost")

\* an open end writes a frame,
Writes(s, f) ==
  /\ state[s] = "OPEN" /\ tcp'[s] = tcp[s]
  /\ wire'[s] = Append(wire[s], f)
  /\ IF f.op = "close"
     THEN state'[s] = "CLOSING" /\ close_sent'[s] = f.n
     ELSE state'[s] = "OPEN" /\ close_sent'[s] = close_sent[s]
  /\ IF f.op = "data"
     THEN f = Data(written[s] + 1) /\ written'[s] = written[s] + 1
     ELSE written'[s] = written[s]

\* or the connection is lost, with the end of what was on the wire.
Loses(s) ==
  /\ tcp[s] # "lost" /\ tcp'[s] = "lost" /\ state'[s] = "CLOSED"
  /\ close_sent'[s] = close_sent[s] /\ written'[s] = written[s]
  /\ wire'[s] = wire[s] \/ \E n \in 0..Len(wire[s]) : wire'[s] = SubSeq(wire[s], 1, n)

Outgoing(s) == Silent(s) \/ (\E f \in Frame : Writes(s, f)) \/ Loses(s)

\* The handshake is not heard of,
Deaf(s) == close_rcvd'[s] = close_rcvd[s] /\ close_rcvd_then_sent'[s] = close_rcvd_then_sent[s]

\* a frame is read,
Reads(s) ==
  LET f == Head(wire[Peer(s)]) IN
  /\ transfer[s] = "reading" /\ wire[Peer(s)] # <<>> /\ wire'[Peer(s)] = Tail(wire[Peer(s)])
  /\ got'[s] = got[s] /\ recv'[s] = recv[s]
  /\ IF f.op = "close"
     THEN /\ close_rcvd'[s] = f.n /\ transfer'[s] \in {"echoing", "done"}
          /\ close_rcvd_then_sent'[s] =
               IF state[s] = "OPEN" THEN "yes" ELSE IF close_sent[s] # None THEN "no" ELSE close_rcvd_then_sent[s]
          /\ state[s] = "OPEN" => close_sent'[s] # None
     ELSE Deaf(s)
  /\ \/ /\ f.op = "data" /\ messages'[s] = Append(messages[s], f.n)
        /\ transfer'[s] = "reading" /\ (woken'[s] <=> recv[s] = "waiting")
     \/ /\ f.op = "data" /\ transfer'[s] = "full" /\ inhand'[s] = f.n
        /\ messages'[s] = messages[s] /\ (woken'[s] <=> woken[s])
     \/ /\ f.op = "data" => transfer'[s] = "done"
        /\ transfer'[s] # "full"
        /\ messages'[s] = messages[s] /\ (woken'[s] <=> woken[s])

\* the message that had no room is stored,
Stores(s) ==
  /\ Deaf(s) /\ wire'[Peer(s)] = wire[Peer(s)] /\ got'[s] = got[s] /\ recv'[s] = recv[s]
  /\ transfer[s] = "full" /\ transfer'[s] = "reading"
  /\ messages'[s] = Append(messages[s], inhand[s]) /\ (woken'[s] <=> recv[s] = "waiting")

\* the application takes a message,
Takes(s) ==
  /\ Deaf(s) /\ wire'[Peer(s)] = wire[Peer(s)]
  /\ transfer'[s] = transfer[s] /\ inhand'[s] = inhand[s]
  /\ messages[s] # <<>> /\ messages'[s] = Tail(messages[s])
  /\ got'[s] = Append(got[s], Head(messages[s]))
  /\ recv'[s] = "idle" /\ ~woken'[s]

\* or nothing is received, and the tasks and the calls go on.
Goes(s) ==
  /\ Deaf(s) /\ wire'[Peer(s)] = wire[Peer(s)] /\ messages'[s] = messages[s] /\ got'[s] = got[s]
  /\ \/ transfer'[s] = transfer[s] /\ inhand'[s] = inhand[s]
     \/ transfer[s] # "done" /\ transfer'[s] \in {"cancelled", "done"}
     \/ transfer[s] = "answering" /\ transfer'[s] = "reading"
  /\ \/ recv'[s] = recv[s] /\ (woken'[s] <=> woken[s])
     \/ recv'[s] \in {"idle", "error"} /\ ~woken'[s]
     \/ recv'[s] = "waiting" /\ messages[s] = <<>> /\ ~woken'[s]
     \/ /\ recv'[s] \in {"ensuring", "ok"} /\ ~woken'[s]
        /\ recv'[s] = "ok" => close_rcvd[s] # None
        /\ (recv[s] = "waiting" /\ ~woken[s] /\ transfer[s] = "done") \/ recv[s] = "ensuring"
        /\ transfer'[s] = transfer[s]

Incoming(s) == Reads(s) \/ Stores(s) \/ Takes(s) \/ Goes(s)

Effect(s) == Rests(Peer(s)) /\ Outgoing(s) /\ Incoming(s)

-----------------------------------------------------------------------------
(* The handshake.                                                          *)

\* The invariant of the close frames, in the terms of the lemmas on wires.
LEMMA CloseParts ==
  OneCloseFrame <=> \A s \in Side : /\ Closes(wire[s]) => close_sent[s] # None /\ close_rcvd[Peer(s)] = None
                                    /\ ClosesLast(wire[s])
BY DEF OneCloseFrame, HasClose, Closes, ClosesLast

\* A step of an end keeps the handshake: a close frame is written once, and read once.
LEMMA HandshakeKept ==
  ASSUME TypeOK, Shaking, OneCloseFrame, OneAnswers, NEW s \in Side, Effect(s)
  PROVE  Shaking' /\ OneCloseFrame' /\ OneAnswers'
<1> DEFINE p == Peer(s)
<1>1. p \in Side /\ p # s /\ Peer(p) = s /\ \A q \in Side : q = s \/ q = p
  BY Ends
<1> HIDE DEF p
<1>2. /\ wire[s] \in Seq(Frame) /\ wire[p] \in Seq(Frame)
      /\ state[s] \in {"OPEN", "CLOSING", "CLOSED"}
  BY <1>1 DEF TypeOK
<1>3. /\ tcp[s] = "lost" <=> state[s] = "CLOSED"
      /\ tcp[p] = "lost" <=> state[p] = "CLOSED"
      /\ state[s] = "OPEN" => close_sent[s] = None
      /\ state[p] = "OPEN" => close_sent[p] = None
      /\ close_rcvd[s] # None => close_sent[p] # None
      /\ close_rcvd[p] # None => close_sent[s] # None
      /\ close_rcvd_then_sent[s] = "yes" => close_rcvd[s] # None /\ close_sent[s] # None
      /\ close_rcvd_then_sent[p] = "yes" => close_rcvd[p] # None /\ close_sent[p] # None
  <2>1. \A q \in Side : /\ tcp[q] = "lost" <=> state[q] = "CLOSED"
                        /\ state[q] = "OPEN" => close_sent[q] = None
                        /\ close_rcvd[q] # None => close_sent[Peer(q)] # None
                        /\ close_rcvd_then_sent[q] = "yes" => close_rcvd[q] # None /\ close_sent[q] # None
    BY DEF Shaking, Lost
  <2>2. Peer(s) = p
    BY DEF p
  <2> QED BY <1>1, <2>1, <2>2
<1>4. /\ ClosesLast(wire[s]) /\ ClosesLast(wire[p])
      /\ Closes(wire[s]) => close_sent[s] # None /\ close_rcvd[p] = None
      /\ Closes(wire[p]) => close_sent[p] # None /\ close_rcvd[s] = None
  <2>1. \A q \in Side : /\ Closes(wire[q]) => close_sent[q] # None /\ close_rcvd[Peer(q)] = None
                        /\ ClosesLast(wire[q])
    BY CloseParts
  <2>2. Peer(s) = p
    BY DEF p
  <2> QED BY <1>1, <2>1, <2>2
<1>5. ~(close_rcvd_then_sent[s] = "yes" /\ close_rcvd_then_sent[p] = "yes")
  BY <1>1 DEF OneAnswers
<1>6. /\ state'[p] = state[p] /\ close_sent'[p] = close_sent[p] /\ close_rcvd'[p] = close_rcvd[p]
      /\ close_rcvd_then_sent'[p] = close_rcvd_then_sent[p] /\ tcp'[p] = tcp[p]
  BY DEF Effect, Rests, p
<1>7. /\ ClosesLast(wire'[s]) /\ (Closes(wire'[s]) => close_sent'[s] # None /\ close_rcvd[p] = None)
      /\ (tcp'[s] = "lost" <=> state'[s] = "CLOSED")
      /\ state'[s] = "OPEN" => close_sent'[s] = None
      /\ close_sent[s] # None => close_sent'[s] # None
  <2>1. CASE Silent(s)
    BY <1>3, <1>4, <2>1 DEF Silent
  <2>2. CASE \E f \in Frame : Writes(s, f)
    <3>0. PICK f \in Frame : Writes(s, f)
      BY <2>2
    <3>1. ~Closes(wire[s]) /\ tcp[s] # "lost" /\ close_rcvd[p] = None
      BY <1>3, <1>4, <3>0 DEF Writes
    <3>2. /\ wire'[s] = Append(wire[s], f) /\ ClosesLast(wire'[s])
          /\ Closes(wire'[s]) <=> f.op = "close"
      BY <1>2, <3>0, <3>1, CloseWrites DEF Writes
    <3>3. f.op = "close" => f.n # None
      BY FrameKinds
    <3> QED BY <1>3, <3>0, <3>1, <3>2, <3>3 DEF Writes
  <2>3. CASE Loses(s)
    <3>1. ClosesLast(wire'[s]) /\ (Closes(wire'[s]) => Closes(wire[s]))
      <4>1. CASE wire'[s] = wire[s]
        BY <1>4, <4>1
      <4>2. CASE \E n \in 0..Len(wire[s]) : wire'[s] = SubSeq(wire[s], 1, n)
        BY <1>2, <1>4, <4>2, CloseCut
      <4> QED BY <2>3, <4>1, <4>2 DEF Loses
    <3> QED BY <1>4, <2>3, <3>1 DEF Loses
  <2> QED BY <2>1, <2>2, <2>3 DEF Effect, Outgoing
<1>8. /\ ClosesLast(wire'[p]) /\ (Closes(wire'[p]) => close_sent[p] # None /\ close_rcvd'[s] = None)
      /\ close_rcvd'[s] # None => close_sent[p] # None
      /\ close_rcvd_then_sent'[s] = "yes" => close_rcvd'[s] # None /\ close_sent'[s] # None
      /\ ~(close_rcvd_then_sent'[s] = "yes" /\ close_rcvd_then_sent[p] = "yes")
  <2>1. CASE Reads(s)
    <3> DEFINE f == Head(wire[p])
    <3>1. /\ wire[p] # <<>> /\ wire'[p] = Tail(wire[p])
          /\ IF f.op = "close"
             THEN /\ close_rcvd'[s] = f.n
                  /\ close_rcvd_then_sent'[s] =
                       IF state[s] = "OPEN" THEN "yes" ELSE IF close_sent[s] # None THEN "no" ELSE close_rcvd_then_sent[s]
                  /\ state[s] = "OPEN" => close_sent'[s] # None
             ELSE Deaf(s)
      BY <2>1 DEF Reads, p
    <3>2. f \in Frame
      BY <1>2, <3>1, FirstTaken
    <3>3. /\ ClosesLast(wire'[p]) /\ (Closes(wire'[p]) => Closes(wire[p]))
          /\ f.op = "close" => Closes(wire[p]) /\ ~Closes(wire'[p])
      BY <1>2, <1>4, <3>1, CloseReads
    <3>4. f.op = "close" => f.n # None
      BY <3>2, FrameKinds
    <3> HIDE DEF f
    <3>5. CASE f.op = "close"
      BY <1>3, <1>4, <1>5, <1>7, <3>1, <3>3, <3>4, <3>5
    <3>6. CASE f.op # "close"
      BY <1>3, <1>4, <1>5, <1>7, <3>1, <3>3, <3>6 DEF Deaf
    <3> QED BY <3>5, <3>6
  <2>2. CASE Stores(s) \/ Takes(s) \/ Goes(s)
    <3>1. wire'[p] = wire[p] /\ Deaf(s)
      BY <2>2 DEF Stores, Takes, Goes, p
    <3> QED BY <1>3, <1>4, <1>5, <1>7, <3>1 DEF Deaf
  <2> QED BY <2>1, <2>2 DEF Effect, Incoming
<1>9. Shaking'
  <2> SUFFICES ASSUME NEW q \in Side
               PROVE  /\ tcp'[q] = "lost" <=> state'[q] = "CLOSED"
                      /\ state'[q] = "OPEN" => close_sent'[q] = None
                      /\ close_rcvd'[q] # None => close_sent'[Peer(q)] # None
                      /\ close_rcvd_then_sent'[q] = "yes" => close_rcvd'[q] # None /\ close_sent'[q] # None
    BY DEF Shaking, Lost
  <2>1. CASE q = s
    BY <1>1, <1>6, <1>7, <1>8, <2>1 DEF p
  <2>2. CASE q = p
    BY <1>1, <1>3, <1>6, <1>7, <2>2
  <2> QED BY <1>1, <2>1, <2>2
<1>10. OneCloseFrame'
  <2>1. \A q \in Side : /\ Closes(wire'[q]) => close_sent'[q] # None /\ close_rcvd'[Peer(q)] = None
                        /\ ClosesLast(wire'[q])
    <3> TAKE q \in Side
    <3>1. CASE q = s
      BY <1>6, <1>7, <3>1 DEF p
    <3>2. CASE q = p
      BY <1>1, <1>6, <1>8, <3>2
    <3> QED BY <1>1, <3>1, <3>2
  <2> QED BY <2>1 DEF OneCloseFrame, HasClose, Closes, ClosesLast
<1>11. OneAnswers'
  BY <1>1, <1>6, <1>8 DEF OneAnswers
<1> QED BY <1>9, <1>10, <1>11

-----------------------------------------------------------------------------
(* The messages.                                                           *)

\* The invariants of the messages, for one end.
InOrderAt(s) ==
  /\ \A i \in DOMAIN got[s] : got[s][i] = i
  /\ \A i \in DOMAIN messages[s] : messages[s][i] = Len(got[s]) + i
  /\ transfer[s] = "full" => inhand[s] = Len(got[s]) + Len(messages[s]) + 1
  /\ transfer[s] \in {"reading", "answering", "full"} =>
       /\ Ordered(wire[Peer(s)], Delivered(s))
       /\ tcp[Peer(s)] # "lost" \/ Closes(wire[Peer(s)])
          => Complete(wire[Peer(s)], Delivered(s), written[Peer(s)])

AccountedAt(s) ==
  /\ close_rcvd[s] # None =>
       /\ transfer[s] \in {"echoing", "cancelled", "done"}
       /\ Len(got[s]) + Len(messages[s]) = written[Peer(s)]
  /\ woken[s] => recv[s] = "waiting" /\ messages[s] # <<>>
  /\ recv[s] = "waiting" /\ ~woken[s] => messages[s] = <<>>
  /\ recv[s] \in {"ensuring", "ok"} => transfer[s] = "done" /\ messages[s] = <<>>
  /\ recv[s] = "ok" => close_rcvd[s] # None

LEMMA DataParts ==
  /\ InOrder <=> \A s \in Side : InOrderAt(s)
  /\ Accounted <=> \A s \in Side : AccountedAt(s)
BY DEF InOrder, InOrderAt, Accounted, AccountedAt, Lost, HasClose, Closes

\* How many messages were delivered is a number.
LEMMA DeliveredType ==
  ASSUME TypeOK
  PROVE  \A s \in Side : /\ Delivered(s) \in Nat /\ Len(got[s]) \in Nat /\ Len(messages[s]) \in Nat
                         /\ got[s] \in Seq(Nat) /\ messages[s] \in Seq(Nat) /\ wire[s] \in Seq(Frame)
                         /\ written[s] \in Nat
BY LenProperties DEF TypeOK, Delivered

\* What an end writes or loses leaves the other end with a beginning of what it wrote.
LEMMA WritesKept ==
  ASSUME TypeOK, Shaking, OneCloseFrame, InOrder, Accounted,
         NEW s \in Side, Rests(Peer(s)), Outgoing(s)
  PROVE  InOrderAt(Peer(s))' /\ AccountedAt(Peer(s))'
<1> DEFINE p == Peer(s)
           d == Delivered(p)
<1>1. p \in Side /\ p # s /\ Peer(p) = s
  BY Ends
<1>2. /\ transfer'[p] = transfer[p] /\ inhand'[p] = inhand[p] /\ messages'[p] = messages[p]
      /\ got'[p] = got[p] /\ recv'[p] = recv[p] /\ (woken'[p] <=> woken[p])
      /\ close_rcvd'[p] = close_rcvd[p]
  BY DEF Rests
<1>3. d \in Nat /\ Delivered(p)' = d
  BY <1>1, <1>2, DeliveredType DEF Delivered
<1>4. InOrderAt(p) /\ AccountedAt(p)
  BY <1>1, DataParts
<1>5. wire[s] \in Seq(Frame) /\ written[s] \in Nat
  BY DeliveredType
<1>6. ClosesLast(wire[s]) /\ (tcp[s] = "lost" <=> state[s] = "CLOSED")
  BY CloseParts DEF Shaking, Lost
<1>7. state[s] = "OPEN" => close_rcvd[p] = None
  BY <1>1 DEF Shaking
<1> HIDE DEF d
<1>8. ASSUME transfer[p] \in {"reading", "answering", "full"}
      PROVE  /\ Ordered(wire'[s], d)
             /\ tcp'[s] # "lost" \/ Closes(wire'[s]) => Complete(wire'[s], d, written'[s])
  <2>1. /\ Ordered(wire[s], d)
        /\ tcp[s] # "lost" \/ Closes(wire[s]) => Complete(wire[s], d, written[s])
    BY <1>1, <1>4, <1>8 DEF InOrderAt, d
  <2>2. CASE Silent(s)
    BY <2>1, <2>2 DEF Silent
  <2>3. CASE \E f \in Frame : Writes(s, f)
    <3>1. PICK f \in Frame : Writes(s, f)
      BY <2>3
    <3>2. /\ tcp[s] # "lost" /\ wire'[s] = Append(wire[s], f)
          /\ f.op = "data" => f = Data(written[s] + 1)
          /\ written'[s] = IF f.op = "data" THEN written[s] + 1 ELSE written[s]
      BY <1>6, <3>1 DEF Writes
    <3>3. Ordered(Append(wire[s], f), d)
      BY <1>3, <1>5, <2>1, <3>2, OrderedWrites
    <3>4. Complete(Append(wire[s], f), d, IF f.op = "data" THEN written[s] + 1 ELSE written[s])
      BY <1>3, <1>5, <2>1, <3>2, CompleteWrites
    <3> QED BY <3>2, <3>3, <3>4
  <2>4. CASE Loses(s)
    <3>1. /\ Complete(wire[s], d, written[s]) /\ tcp'[s] = "lost" /\ written'[s] = written[s]
          /\ wire'[s] = wire[s] \/ \E n \in 0..Len(wire[s]) : wire'[s] = SubSeq(wire[s], 1, n)
      BY <2>1, <2>4 DEF Loses
    <3>2. CASE wire'[s] = wire[s]
      BY <2>1, <3>1, <3>2
    <3>3. CASE \E n \in 0..Len(wire[s]) : wire'[s] = SubSeq(wire[s], 1, n)
      <4>1. Ordered(wire'[s], d)
        BY <1>3, <1>5, <2>1, <3>3, OrderedCut
      <4>2. Closes(wire'[s]) => wire'[s] = wire[s]
        BY <1>5, <1>6, <3>3, CloseCut
      <4> QED BY <3>1, <4>1, <4>2
    <3> QED BY <3>1, <3>2, <3>3
  <2> QED BY <2>2, <2>3, <2>4 DEF Outgoing
<1>9. InOrderAt(p)'
  <2>1. /\ \A i \in DOMAIN got'[p] : got'[p][i] = i
        /\ \A i \in DOMAIN messages'[p] : messages'[p][i] = Len(got'[p]) + i
        /\ transfer'[p] = "full" => inhand'[p] = Len(got'[p]) + Len(messages'[p]) + 1
    <3>1. /\ \A i \in DOMAIN got[p] : got[p][i] = i
          /\ \A i \in DOMAIN messages[p] : messages[p][i] = Len(got[p]) + i
          /\ transfer[p] = "full" => inhand[p] = Len(got[p]) + Len(messages[p]) + 1
      BY <1>4 DEF InOrderAt
    <3>2. /\ transfer'[p] = transfer[p] /\ inhand'[p] = inhand[p] /\ messages'[p] = messages[p]
          /\ got'[p] = got[p]
      BY <1>2
    <3> HIDE DEF p
    <3> QED BY <3>1, <3>2, Zenon
  <2>2. transfer'[p] \in {"reading", "answering", "full"} =>
          /\ Ordered(wire'[Peer(p)], Delivered(p)')
          /\ tcp'[Peer(p)] # "lost" \/ Closes(wire'[Peer(p)])
             => Complete(wire'[Peer(p)], Delivered(p)', written'[Peer(p)])
    BY <1>1, <1>2, <1>3, <1>8
  <2> QED BY <2>1, <2>2 DEF InOrderAt
<1>10. close_rcvd[p] # None => written'[s] = written[s]
  BY <1>7 DEF Outgoing, Silent, Writes, Loses
<1>11. AccountedAt(p)'
  BY <1>1, <1>2, <1>4, <1>10 DEF AccountedAt
<1> QED BY <1>9, <1>11

\* A frame that is read leaves what comes after it in order; a close frame comes after
\* all messages.
LEMMA FrameRead ==
  ASSUME NEW w \in Seq(Frame), NEW d \in Nat, NEW n \in Nat, w # <<>>, Ordered(w, d), ClosesLast(w),
         NEW b \in BOOLEAN, b \/ Closes(w) => Complete(w, d, n)
  PROVE  LET e == IF Head(w).op = "data" THEN d + 1 ELSE d
         IN /\ Head(w).op = "data" => Head(w).n = d + 1
            /\ Ordered(Tail(w), e)
            /\ b \/ Closes(Tail(w)) => Complete(Tail(w), e, n)
            /\ Head(w).op = "close" => d = n
<1> DEFINE e == IF Head(w).op = "data" THEN d + 1 ELSE d
<1>1. (Head(w).op = "data" => Head(w).n = d + 1) /\ Ordered(Tail(w), e)
  BY OrderedReads, OrderedSkips
<1>2. ASSUME b \/ Closes(Tail(w)) PROVE Complete(Tail(w), e, n)
  <2>1. Complete(w, d, n)
    BY <1>2, CloseReads
  <2> QED BY <2>1, CompleteReads
<1>3. ASSUME Head(w).op = "close" PROVE d = n
  <2>1. Head(w) = w[1] /\ Len(w) \in Nat \ {0} /\ DOMAIN w = 1..Len(w)
    BY FirstTaken
  <2>2. Closes(w)
    BY <1>3, CloseReads
  <2>3. \A i \in DOMAIN w : w[i].op # "data"
    <3>1. 1 \notin 1..(Len(w) - 1)
      BY <1>3, <2>1 DEF ClosesLast
    <3>2. Len(w) = 1
      BY <2>1, <3>1
    <3> QED BY <1>3, <2>1, <3>2
  <2> QED BY <2>2, <2>3, CompleteEmpty
<1> QED BY <1>1, <1>2, <1>3

\* The messages received so far are the first ones, and one more keeps them so.
LEMMA AppendKeeps ==
  ASSUME NEW m \in Seq(Nat), NEW g \in Nat, NEW n \in Nat, n = g + Len(m) + 1,
         \A i \in DOMAIN m : m[i] = g + i
  PROVE  \A i \in DOMAIN Append(m, n) : Append(m, n)[i] = g + i
<1> DEFINE a == Append(m, n)
<1>1. /\ Len(m) \in Nat /\ DOMAIN m = 1..Len(m) /\ DOMAIN a = 1..Len(m) + 1
      /\ a[Len(m) + 1] = n /\ \A i \in 1..Len(m) : a[i] = m[i]
  BY Joined
<1> HIDE DEF a
<1>2. ASSUME NEW i \in DOMAIN a PROVE a[i] = g + i
  <2>1. CASE i = Len(m) + 1
    BY <1>1, <2>1
  <2>2. CASE i # Len(m) + 1
    BY <1>1, <2>2
  <2> QED BY <2>1, <2>2
<1> QED BY <1>2 DEF a

\* Reading, the first frame of the wire is delivered or it is no message.
LEMMA ReadsKeep ==
  ASSUME TypeOK, TypeOK', OneCloseFrame, InOrder, Accounted,
         NEW s \in Side, Rests(Peer(s)), Reads(s)
  PROVE  InOrderAt(s)' /\ AccountedAt(s)'
<1> DEFINE p == Peer(s)
           w == wire[p]
           f == Head(w)
           d == Len(got[s]) + Len(messages[s])
           e == IF f.op = "data" THEN d + 1 ELSE d
<1>0. /\ got \in [Side -> Seq(Nat)] /\ messages \in [Side -> Seq(Nat)]
      /\ got' \in [Side -> Seq(Nat)] /\ messages' \in [Side -> Seq(Nat)] /\ inhand' \in [Side -> Nat]
  BY DEF TypeOK
<1>1. p \in Side /\ p # s /\ Peer(p) = s
  BY Ends
<1>2. /\ d \in Nat /\ Len(got[s]) \in Nat /\ Len(messages[s]) \in Nat
      /\ got[s] \in Seq(Nat) /\ messages[s] \in Seq(Nat) /\ w \in Seq(Frame) /\ written[p] \in Nat
      /\ d = Len(got[s]) + Len(messages[s])
  <2>1. /\ Len(got[s]) \in Nat /\ Len(messages[s]) \in Nat
        /\ got[s] \in Seq(Nat) /\ messages[s] \in Seq(Nat)
    BY DeliveredType
  <2>2. w \in Seq(Frame) /\ written[p] \in Nat
    BY <1>1, DeliveredType
  <2>3. d = Len(got[s]) + Len(messages[s])
    OBVIOUS
  <2> HIDE DEF d, w, f, e, p
  <2>4. d \in Nat
    BY <1>0, <2>1, <2>3
  <2> QED BY <2>1, <2>2, <2>3, <2>4
<1>3. InOrderAt(s) /\ AccountedAt(s) /\ ClosesLast(w)
  BY <1>1, DataParts, CloseParts
<1>4. /\ transfer[s] = "reading" /\ w # <<>> /\ wire'[p] = Tail(w)
      /\ got'[s] = got[s] /\ recv'[s] = recv[s]
      /\ tcp'[p] = tcp[p] /\ written'[p] = written[p]
      /\ f.op # "close" => close_rcvd'[s] = close_rcvd[s]
      /\ f.op = "close" => transfer'[s] \in {"echoing", "done"}
  BY DEF Reads, Rests, Deaf
<1>5. /\ \/ /\ f.op = "data" /\ messages'[s] = Append(messages[s], f.n)
            /\ transfer'[s] = "reading" /\ (woken'[s] <=> recv[s] = "waiting")
         \/ /\ f.op = "data" /\ transfer'[s] = "full" /\ inhand'[s] = f.n
            /\ messages'[s] = messages[s] /\ (woken'[s] <=> woken[s])
         \/ /\ f.op = "data" => transfer'[s] = "done"
            /\ transfer'[s] # "full"
            /\ messages'[s] = messages[s] /\ (woken'[s] <=> woken[s])
  BY DEF Reads
<1>6. Delivered(s) = d
  BY <1>2, <1>4 DEF Delivered
<1>7. Ordered(w, d) /\ ((tcp[p] # "lost") \/ Closes(w) => Complete(w, d, written[p]))
  BY <1>3, <1>4, <1>6 DEF InOrderAt
<1>8. /\ f.op = "data" => f.n = d + 1
      /\ Ordered(Tail(w), e)
      /\ (tcp[p] # "lost") \/ Closes(Tail(w)) => Complete(Tail(w), e, written[p])
      /\ f.op = "close" => d = written[p]
  <2> HIDE DEF d, p, w
  <2> QED BY <1>2, <1>3, <1>4, <1>7, FrameRead
<1>E. e = IF f.op = "data" THEN d + 1 ELSE d
  OBVIOUS
<1> HIDE DEF w, f, d, e
<1>9. close_rcvd[s] = None /\ recv[s] \notin {"ensuring", "ok"}
  BY <1>3, <1>4 DEF AccountedAt
<1>10. /\ \A i \in DOMAIN got[s] : got[s][i] = i
       /\ \A i \in DOMAIN messages[s] : messages[s][i] = Len(got[s]) + i
       /\ woken[s] => recv[s] = "waiting" /\ messages[s] # <<>>
       /\ recv[s] = "waiting" /\ ~woken[s] => messages[s] = <<>>
  BY <1>3 DEF InOrderAt, AccountedAt
<1> DEFINE Now == /\ \A i \in DOMAIN got'[s] : got'[s][i] = i
                  /\ \A i \in DOMAIN messages'[s] : messages'[s][i] = Len(got'[s]) + i
                  /\ transfer'[s] = "full" => inhand'[s] = Len(got'[s]) + Len(messages'[s]) + 1
                  /\ transfer'[s] \in {"reading", "answering", "full"} => Delivered(s)' = e
                  /\ f.op = "close" => Len(got'[s]) + Len(messages'[s]) = d
                  /\ woken'[s] => recv'[s] = "waiting" /\ messages'[s] # <<>>
                  /\ recv'[s] = "waiting" /\ ~woken'[s] => messages'[s] = <<>>
<1>11. Now
  <2>0. Delivered(s)' = Len(got'[s]) + Len(messages'[s]) + IF transfer'[s] = "full" THEN 1 ELSE 0
    BY DEF Delivered
  <2>1. CASE /\ f.op = "data" /\ messages'[s] = Append(messages[s], f.n)
             /\ transfer'[s] = "reading" /\ (woken'[s] <=> recv[s] = "waiting")
    <3>1. f.n = Len(got[s]) + Len(messages[s]) + 1 /\ f.n \in Nat
      <4>1. f.n = d + 1
      BY <1>8, <2>1
    <4> QED BY <1>0, <1>2, <4>1
    <3>2. /\ \A i \in DOMAIN messages'[s] : messages'[s][i] = Len(got[s]) + i
          /\ Len(messages'[s]) = Len(messages[s]) + 1 /\ messages'[s] # <<>>
      <4>1. Append(messages[s], f.n) # <<>> /\ Len(Append(messages[s], f.n)) = Len(messages[s]) + 1
        <5>1. \A m \in Seq(Nat), n \in Nat : Append(m, n) # <<>> /\ Len(Append(m, n)) = Len(m) + 1
          BY ZenonT(60), Joined
        <5>2. messages[s] \in Seq(Nat) /\ f.n \in Nat
          BY <1>2, <3>1
        <5> QED BY <5>1, <5>2
      <4>2. \A i \in DOMAIN Append(messages[s], f.n) : Append(messages[s], f.n)[i] = Len(got[s]) + i
        BY ZenonT(60), <1>2, <1>10, <3>1, AppendKeeps
      <4> QED BY <2>1, <4>1, <4>2
    <3>3. Delivered(s)' = e
      BY <1>0, <1>2, <1>4, <1>E, <2>0, <2>1, <3>2
    <3> QED BY <1>4, <1>10, <2>1, <3>2, <3>3
  <2>2. CASE /\ f.op = "data" /\ transfer'[s] = "full" /\ inhand'[s] = f.n
             /\ messages'[s] = messages[s] /\ (woken'[s] <=> woken[s])
    <3>1. f.n = Len(got[s]) + Len(messages[s]) + 1
      BY <1>2, <1>8, <2>2
    <3>2. Delivered(s)' = e
      BY <1>0, <1>2, <1>4, <1>E, <2>0, <2>2
    <3> QED BY <1>4, <1>10, <2>2, <3>1, <3>2
  <2>3. CASE /\ f.op = "data" => transfer'[s] = "done"
             /\ transfer'[s] # "full"
             /\ messages'[s] = messages[s] /\ (woken'[s] <=> woken[s])
    <3>1. transfer'[s] \in {"reading", "answering", "full"} => Delivered(s)' = e
      BY <1>0, <1>2, <1>4, <1>E, <2>0, <2>3
    <3>2. f.op = "close" => Len(got'[s]) + Len(messages'[s]) = d
      BY <1>2, <1>4, <2>3
    <3> QED BY <1>4, <1>10, <2>3, <3>1, <3>2
  <2> QED BY <1>5, <2>1, <2>2, <2>3
<1>12. InOrderAt(s)'
  <2>1. transfer'[s] \in {"reading", "answering", "full"} =>
          /\ Ordered(wire'[p], Delivered(s)')
          /\ tcp'[p] # "lost" \/ Closes(wire'[p]) => Complete(wire'[p], Delivered(s)', written'[p])
    <3> QED BY <1>4, <1>8, <1>11
  <2> QED BY <1>11, <2>1 DEF InOrderAt
<1>13. AccountedAt(s)'
  <2>1. close_rcvd'[s] # None =>
          /\ transfer'[s] \in {"echoing", "cancelled", "done"}
          /\ Len(got'[s]) + Len(messages'[s]) = written'[p]
    <3> QED BY <1>4, <1>8, <1>9, <1>11
  <2>2. recv'[s] \notin {"ensuring", "ok"}
    BY <1>4, <1>9
  <2> QED BY <1>11, <2>1, <2>2 DEF AccountedAt
<1> QED BY <1>12, <1>13

\* The message that had no room is the next one.
LEMMA StoresKeep ==
  ASSUME TypeOK, TypeOK', InOrder, Accounted, NEW s \in Side, Rests(Peer(s)), Stores(s)
  PROVE  InOrderAt(s)' /\ AccountedAt(s)'
<1> DEFINE p == Peer(s)
           h == inhand[s]
<1>0. /\ got \in [Side -> Seq(Nat)] /\ messages \in [Side -> Seq(Nat)] /\ inhand \in [Side -> Nat]
      /\ got' \in [Side -> Seq(Nat)] /\ messages' \in [Side -> Seq(Nat)]
      /\ messages[s] \in Seq(Nat) /\ h \in Nat /\ Len(got[s]) \in Nat /\ Len(messages[s]) \in Nat
  BY LenProperties DEF TypeOK
<1>1. InOrderAt(s) /\ AccountedAt(s)
  BY DataParts
<1>2. /\ wire'[p] = wire[p] /\ tcp'[p] = tcp[p] /\ written'[p] = written[p]
      /\ got'[s] = got[s] /\ recv'[s] = recv[s] /\ close_rcvd'[s] = close_rcvd[s]
      /\ transfer[s] = "full" /\ transfer'[s] = "reading"
      /\ messages'[s] = Append(messages[s], h) /\ (woken'[s] <=> recv[s] = "waiting")
  BY DEF Stores, Rests, Deaf
<1>3. /\ \A i \in DOMAIN got[s] : got[s][i] = i
      /\ \A i \in DOMAIN messages[s] : messages[s][i] = Len(got[s]) + i
      /\ h = Len(got[s]) + Len(messages[s]) + 1
      /\ Ordered(wire[p], Delivered(s))
      /\ tcp[p] # "lost" \/ Closes(wire[p]) => Complete(wire[p], Delivered(s), written[p])
  BY <1>1, <1>2 DEF InOrderAt
<1>4. close_rcvd[s] = None /\ recv[s] \notin {"ensuring", "ok"}
  BY <1>1, <1>2 DEF AccountedAt
<1> HIDE DEF h, p
<1>5. /\ \A i \in DOMAIN messages'[s] : messages'[s][i] = Len(got[s]) + i
      /\ Len(messages'[s]) = Len(messages[s]) + 1 /\ messages'[s] # <<>>
  <2>1. \A m \in Seq(Nat), n \in Nat : Append(m, n) # <<>> /\ Len(Append(m, n)) = Len(m) + 1
    BY SMTT(30), Joined
  <2>2. \A i \in DOMAIN Append(messages[s], h) : Append(messages[s], h)[i] = Len(got[s]) + i
    <3> DEFINE m == messages[s]
               k == Len(got[s])
    <3>1. m \in Seq(Nat) /\ k \in Nat /\ h \in Nat /\ h = k + Len(m) + 1 /\ \A i \in DOMAIN m : m[i] = k + i
      BY <1>0, <1>3
    <3> HIDE DEF m, k
    <3>2. \A i \in DOMAIN Append(m, h) : Append(m, h)[i] = k + i
      BY <3>1, AppendKeeps
    <3> QED BY <3>2 DEF m, k
  <2>3. Append(messages[s], h) # <<>> /\ Len(Append(messages[s], h)) = Len(messages[s]) + 1
    BY <1>0, <2>1
  <2> QED BY <1>2, <2>2, <2>3
<1>6. Delivered(s)' = Delivered(s)
  BY <1>0, <1>2, <1>5 DEF Delivered
<1>7. InOrderAt(s)'
  <2>1. /\ Ordered(wire'[p], Delivered(s)')
        /\ tcp'[p] # "lost" \/ Closes(wire'[p]) => Complete(wire'[p], Delivered(s)', written'[p])
    BY <1>2, <1>3, <1>6
  <2>2. \A i \in DOMAIN got'[s] : got'[s][i] = i
    BY <1>2, <1>3
  <2>3. \A i \in DOMAIN messages'[s] : messages'[s][i] = Len(got'[s]) + i
    BY <1>2, <1>5
  <2> QED BY <1>2, <2>1, <2>2, <2>3 DEF InOrderAt, p
<1>8. AccountedAt(s)'
  BY <1>2, <1>4, <1>5 DEF AccountedAt
<1> QED BY <1>7, <1>8

\* The message that is taken follows those taken before.
LEMMA TakesKeep ==
  ASSUME TypeOK, TypeOK', InOrder, Accounted, NEW s \in Side, Rests(Peer(s)), Takes(s)
  PROVE  InOrderAt(s)' /\ AccountedAt(s)'
<1> DEFINE p == Peer(s)
           m == messages[s]
           g == got[s]
<1>0. /\ got \in [Side -> Seq(Nat)] /\ messages \in [Side -> Seq(Nat)]
      /\ got' \in [Side -> Seq(Nat)] /\ messages' \in [Side -> Seq(Nat)]
      /\ m \in Seq(Nat) /\ g \in Seq(Nat) /\ Len(g) \in Nat /\ Len(m) \in Nat
  BY LenProperties DEF TypeOK
<1>1. InOrderAt(s) /\ AccountedAt(s)
  BY DataParts
<1>2. /\ wire'[p] = wire[p] /\ tcp'[p] = tcp[p] /\ written'[p] = written[p]
      /\ transfer'[s] = transfer[s] /\ inhand'[s] = inhand[s] /\ close_rcvd'[s] = close_rcvd[s]
      /\ m # <<>> /\ messages'[s] = Tail(m) /\ got'[s] = Append(g, Head(m))
      /\ recv'[s] = "idle" /\ ~woken'[s]
  BY DEF Takes, Rests, Deaf
<1>3. /\ \A i \in DOMAIN g : g[i] = i
      /\ \A i \in DOMAIN m : m[i] = Len(g) + i
      /\ transfer[s] = "full" => inhand[s] = Len(g) + Len(m) + 1
      /\ transfer[s] \in {"reading", "answering", "full"} =>
           /\ Ordered(wire[p], Delivered(s))
           /\ tcp[p] # "lost" \/ Closes(wire[p]) => Complete(wire[p], Delivered(s), written[p])
  BY <1>1 DEF InOrderAt
<1>4. Delivered(s) = Len(g) + Len(m) + IF transfer[s] = "full" THEN 1 ELSE 0
  BY DEF Delivered
<1>5. close_rcvd[s] # None =>
        transfer[s] \in {"echoing", "cancelled", "done"} /\ Len(g) + Len(m) = written[p]
  BY <1>1 DEF AccountedAt
<1> HIDE DEF m, g, p
<1>6. /\ Head(m) = m[1] /\ Head(m) \in Nat /\ DOMAIN m = 1..Len(m) /\ Len(m) # 0
      /\ Len(Tail(m)) = Len(m) - 1 /\ DOMAIN Tail(m) = 1..Len(m) - 1
      /\ \A i \in 1..Len(m) - 1 : Tail(m)[i] = m[i + 1]
  BY <1>0, <1>2, FirstTaken
<1>7. Head(m) = Len(g) + 1
  <2> DEFINE k == Len(g)
             l == Len(m)
  <2>1. k \in Nat /\ l \in Nat /\ l # 0 /\ DOMAIN m = 1..l /\ \A i \in DOMAIN m : m[i] = k + i
    BY <1>0, <1>3, <1>6
  <2> HIDE DEF k, l
  <2>2. m[1] = k + 1
    BY <2>1
  <2> QED BY <1>6, <2>2 DEF k
<1>8. /\ \A i \in DOMAIN Append(g, Head(m)) : Append(g, Head(m))[i] = 0 + i
      /\ Len(Append(g, Head(m))) = Len(g) + 1
  <2>1. \A i \in DOMAIN g : g[i] = 0 + i
    <3>1. DOMAIN g = 1..Len(g)
      BY <1>0, LenProperties
    <3> QED BY <1>0, <1>3, <3>1
  <2>2. Head(m) = 0 + Len(g) + 1
    BY <1>0, <1>7
  <2>3. Len(Append(g, Head(m))) = Len(g) + 1
    BY <1>0, <1>6, Joined
  <2>4. \A i \in DOMAIN Append(g, Head(m)) : Append(g, Head(m))[i] = 0 + i
    BY <1>0, <1>6, <2>1, <2>2, AppendKeeps
  <2> QED BY <2>3, <2>4
<1>9. Len(got'[s]) = Len(g) + 1 /\ Len(messages'[s]) = Len(m) - 1
  BY <1>2, <1>6, <1>8
<1>10. Delivered(s)' = Delivered(s)
  <2>1. Delivered(s)' = Len(got'[s]) + Len(messages'[s]) + IF transfer'[s] = "full" THEN 1 ELSE 0
    BY DEF Delivered
  <2> QED BY <1>0, <1>2, <1>4, <1>9, <2>1
<1>11. InOrderAt(s)'
  <2>1. transfer'[s] \in {"reading", "answering", "full"} =>
          /\ Ordered(wire'[p], Delivered(s)')
          /\ tcp'[p] # "lost" \/ Closes(wire'[p]) => Complete(wire'[p], Delivered(s)', written'[p])
    BY <1>2, <1>3, <1>10
  <2>2. \A i \in DOMAIN got'[s] : got'[s][i] = i
    <3>1. DOMAIN Append(g, Head(m)) = 1..Len(g) + 1
      BY <1>0, <1>6, Joined
    <3>2. \A i \in DOMAIN Append(g, Head(m)) : Append(g, Head(m))[i] = i
      <4> DEFINE a == Append(g, Head(m))
                 k == Len(g)
      <4>1. k \in Nat /\ DOMAIN a = 1..k + 1 /\ \A i \in DOMAIN a : a[i] = 0 + i
        BY <1>0, <1>8, <3>1
      <4> HIDE DEF a, k
      <4>2. \A i \in DOMAIN a : a[i] = i
        BY <4>1
      <4> QED BY <4>2 DEF a
    <3> QED BY <1>2, <3>2
  <2>3. \A i \in DOMAIN messages'[s] : messages'[s][i] = Len(got'[s]) + i
    <3>1. \A i \in DOMAIN Tail(m) : Tail(m)[i] = Len(g) + 1 + i
      <4> DEFINE k == Len(g)
                 l == Len(m)
                 t == Tail(m)
      <4>1. /\ k \in Nat /\ l \in Nat /\ DOMAIN m = 1..l /\ \A i \in DOMAIN m : m[i] = k + i
            /\ DOMAIN t = 1..l - 1 /\ \A i \in 1..l - 1 : t[i] = m[i + 1]
        BY <1>0, <1>3, <1>6
      <4> HIDE DEF k, l, t
      <4>2. \A i \in DOMAIN t : t[i] = k + 1 + i
        BY SMTT(30), <4>1
      <4> QED BY <4>2 DEF k, t
    <3> QED BY <1>2, <1>9, <3>1
  <2>4. transfer'[s] = "full" => inhand'[s] = Len(got'[s]) + Len(messages'[s]) + 1
    BY <1>0, <1>2, <1>3, <1>9
  <2> QED BY <2>1, <2>2, <2>3, <2>4 DEF InOrderAt, p
<1>12. AccountedAt(s)'
  <2>1. Len(got'[s]) + Len(messages'[s]) = Len(g) + Len(m)
    BY <1>0, <1>9
  <2> QED BY <1>2, <1>5, <2>1 DEF AccountedAt, p
<1> QED BY <1>11, <1>12

\* Nothing else touches a message.
LEMMA GoesKeep ==
  ASSUME TypeOK, InOrder, Accounted, NEW s \in Side, Rests(Peer(s)), Goes(s)
  PROVE  InOrderAt(s)' /\ AccountedAt(s)'
<1> DEFINE p == Peer(s)
<1>1. InOrderAt(s) /\ AccountedAt(s)
  BY DataParts
<1>2. /\ wire'[p] = wire[p] /\ tcp'[p] = tcp[p] /\ written'[p] = written[p]
      /\ messages'[s] = messages[s] /\ got'[s] = got[s] /\ close_rcvd'[s] = close_rcvd[s]
  BY DEF Goes, Rests, Deaf
<1>3. \/ transfer'[s] = transfer[s] /\ inhand'[s] = inhand[s]
      \/ transfer[s] # "done" /\ transfer'[s] \in {"cancelled", "done"}
      \/ transfer[s] = "answering" /\ transfer'[s] = "reading"
  BY DEF Goes
<1>4. \/ recv'[s] = recv[s] /\ (woken'[s] <=> woken[s])
      \/ recv'[s] \in {"idle", "error"} /\ ~woken'[s]
      \/ recv'[s] = "waiting" /\ messages[s] = <<>> /\ ~woken'[s]
      \/ /\ recv'[s] \in {"ensuring", "ok"} /\ ~woken'[s]
         /\ recv'[s] = "ok" => close_rcvd[s] # None
         /\ (recv[s] = "waiting" /\ ~woken[s] /\ transfer[s] = "done") \/ recv[s] = "ensuring"
         /\ transfer'[s] = transfer[s]
  BY DEF Goes
<1>5. /\ \A i \in DOMAIN got[s] : got[s][i] = i
      /\ \A i \in DOMAIN messages[s] : messages[s][i] = Len(got[s]) + i
      /\ transfer[s] = "full" => inhand[s] = Len(got[s]) + Len(messages[s]) + 1
      /\ transfer[s] \in {"reading", "answering", "full"} =>
           /\ Ordered(wire[p], Delivered(s))
           /\ tcp[p] # "lost" \/ Closes(wire[p]) => Complete(wire[p], Delivered(s), written[p])
  BY <1>1 DEF InOrderAt
<1> HIDE DEF p
<1>6. transfer'[s] \in {"reading", "answering", "full"} =>
        transfer[s] \in {"reading", "answering", "full"} /\ Delivered(s)' = Delivered(s)
  BY <1>2, <1>3 DEF Delivered
<1>7. InOrderAt(s)'
  <2>1. transfer'[s] \in {"reading", "answering", "full"} =>
          /\ Ordered(wire'[p], Delivered(s)')
          /\ tcp'[p] # "lost" \/ Closes(wire'[p]) => Complete(wire'[p], Delivered(s)', written'[p])
    BY <1>2, <1>5, <1>6
  <2>2. /\ \A i \in DOMAIN got'[s] : got'[s][i] = i
        /\ \A i \in DOMAIN messages'[s] : messages'[s][i] = Len(got'[s]) + i
    BY <1>2, <1>5, Zenon
  <2>3. transfer'[s] = "full" => inhand'[s] = Len(got'[s]) + Len(messages'[s]) + 1
    BY <1>2, <1>3, <1>5
  <2> QED BY <2>1, <2>2, <2>3 DEF InOrderAt, p
<1>8. AccountedAt(s)'
  <2>1. /\ close_rcvd[s] # None =>
             /\ transfer[s] \in {"echoing", "cancelled", "done"}
             /\ Len(got[s]) + Len(messages[s]) = written[p]
        /\ woken[s] => recv[s] = "waiting" /\ messages[s] # <<>>
        /\ recv[s] = "waiting" /\ ~woken[s] => messages[s] = <<>>
        /\ recv[s] \in {"ensuring", "ok"} => transfer[s] = "done" /\ messages[s] = <<>>
        /\ recv[s] = "ok" => close_rcvd[s] # None
    BY <1>1 DEF AccountedAt, p
  <2>2. close_rcvd'[s] # None =>
          /\ transfer'[s] \in {"echoing", "cancelled", "done"}
          /\ Len(got'[s]) + Len(messages'[s]) = written'[p]
    BY <1>2, <1>3, <2>1
  <2>3. /\ woken'[s] => recv'[s] = "waiting" /\ messages'[s] # <<>>
        /\ recv'[s] = "waiting" /\ ~woken'[s] => messages'[s] = <<>>
        /\ recv'[s] = "ok" => close_rcvd'[s] # None
    BY <1>2, <1>4, <2>1
  <2>4. recv'[s] \in {"ensuring", "ok"} => transfer'[s] = "done" /\ messages'[s] = <<>>
    BY <1>2, <1>3, <1>4, <2>1
  <2> QED BY <2>2, <2>3, <2>4 DEF AccountedAt, p
<1> QED BY <1>7, <1>8

\* What the ends read, take and write keeps every message in its place.
LEMMA DataKept ==
  ASSUME TypeOK, TypeOK', Shaking, OneCloseFrame, InOrder, Accounted, NEW s \in Side, Effect(s)
  PROVE  InOrder' /\ Accounted'
<1>1. InOrderAt(Peer(s))' /\ AccountedAt(Peer(s))'
  BY WritesKept DEF Effect
<1>2. InOrderAt(s)' /\ AccountedAt(s)'
  BY ReadsKeep, StoresKeep, TakesKeep, GoesKeep DEF Effect, Incoming
<1>3. \A q \in Side : q = s \/ q = Peer(s)
  BY Ends
<1>4. (\A q \in Side : InOrderAt(q))'
  BY <1>1, <1>2, <1>3 DEF InOrderAt, Delivered
<1>5. (\A q \in Side : AccountedAt(q))'
  BY <1>1, <1>2, <1>3 DEF AccountedAt
<1>6. (InOrder <=> \A q \in Side : InOrderAt(q))' /\ (Accounted <=> \A q \in Side : AccountedAt(q))'
  BY DEF InOrder, InOrderAt, Accounted, AccountedAt, Lost, HasClose, Closes, Delivered
<1> QED BY <1>4, <1>5, <1>6

-----------------------------------------------------------------------------
(* The time close() waits.                                                 *)

\* The invariant of the timeouts, for one end.
WaitsAt(s) ==
  /\ s = "server" => closer[s] # "tcp"
  /\ waits[s] <= CloseUsed(s) + CloserUsed(s)

LEMMA WaitParts == Waiting <=> \A s \in Side : WaitsAt(s)
BY DEF Waiting, WaitsAt, Side

\* What was used is a number, and so small that close() is bounded.
LEMMA UsedType ==
  ASSUME TypeOK
  PROVE  \A s \in Side : /\ CloseUsed(s) \in {0, 1} /\ waits[s] \in Nat
                         /\ CloserUsed(s) \in IF s = "client" THEN 0..3 ELSE 0..2
<1> SUFFICES ASSUME NEW s \in Side PROVE /\ CloseUsed(s) \in {0, 1} /\ waits[s] \in Nat
                                         /\ CloserUsed(s) \in IF s = "client" THEN 0..3 ELSE 0..2
  OBVIOUS
<1>1. closer[s] \in {"transfer", "tcp", "half", "close", "done"} /\ waits[s] \in Nat
  BY DEF TypeOK
<1> QED BY <1>1 DEF CloseUsed, CloserUsed

\* A wait that goes on, or a task that ends, gives no time back.
Lasts(s) ==
  /\ closer'[s] = closer[s] /\ close'[s] = close[s] /\ waits'[s] = waits[s]
  /\ \/ transfer'[s] = transfer[s]
     \/ transfer[s] \notin {"cancelled", "done"}
     \/ transfer'[s] \in {"cancelled", "done"}

LEMMA LastsKeep ==
  ASSUME TypeOK, Waiting, NEW s \in Side, Lasts(s)
  PROVE  WaitsAt(s)'
<1>1. WaitsAt(s)
  BY WaitParts
<1>2. CloserUsed(s)' = CloserUsed(s) /\ CloseUsed(s)' \in {0, 1} /\ CloseUsed(s) <= CloseUsed(s)'
  BY DEF Lasts, CloserUsed, CloseUsed
<1>3. CloseUsed(s) \in {0, 1} /\ waits[s] \in Nat /\ CloserUsed(s) \in Nat
  BY UsedType
<1>4. waits'[s] <= CloseUsed(s)' + CloserUsed(s)'
  BY <1>1, <1>2, <1>3 DEF Lasts, WaitsAt
<1> QED BY <1>1, <1>4 DEF Lasts, WaitsAt

\* A step of close_connection_task: each timeout that it waits for moves it on.
LEMMA CloserWaits ==
  ASSUME TypeOK, Waiting, NEW s \in Side,
         close'[s] = close[s], transfer'[s] = transfer[s],
         closer'[s] = "tcp" => s = "client",
         \/ closer[s] = "transfer" /\ closer'[s] \in {"tcp", "half", "close"} /\ waits'[s] = waits[s]
         \/ /\ \/ closer[s] = "tcp" /\ closer'[s] \in {"half", "close", "done"}
               \/ closer[s] = "half" /\ closer'[s] \in {"close", "done"}
               \/ closer[s] = "close" /\ closer'[s] = "done"
            /\ waits'[s] \in {waits[s], waits[s] + 1}
  PROVE  WaitsAt(s)'
<1>1. WaitsAt(s) /\ waits[s] \in Nat /\ CloseUsed(s) \in {0, 1}
  BY WaitParts, UsedType
<1>2. CloseUsed(s)' = CloseUsed(s)
  BY DEF CloseUsed
<1>3. s = "server" => closer[s] # "tcp" /\ closer'[s] # "tcp"
  BY <1>1 DEF WaitsAt
<1>4. CASE closer[s] = "transfer"
  <2>1. CloserUsed(s) = 0 /\ CloserUsed(s)' \in Nat
    BY <1>4 DEF CloserUsed
  <2> QED BY <1>1, <1>2, <1>3, <1>4, <2>1 DEF WaitsAt
<1>5. CASE closer[s] # "transfer"
  <2>1. CloserUsed(s) \in Nat /\ CloserUsed(s)' \in Nat
    BY <1>5 DEF CloserUsed
  <2>2. CloserUsed(s)' >= CloserUsed(s) + 1
    <3>1. CASE closer[s] = "tcp"
      BY <1>3, <3>1 DEF CloserUsed, Side
    <3>2. CASE closer[s] = "half"
      BY <3>2 DEF CloserUsed
    <3>3. CASE closer[s] = "close"
      BY <3>3 DEF CloserUsed
    <3> QED BY <1>5, <3>1, <3>2, <3>3
  <2> QED BY <1>1, <1>2, <1>3, <1>5, <2>1, <2>2 DEF WaitsAt
<1> QED BY <1>4, <1>5

\* A step of close() up to its timeout, which it waits for once.
LEMMA CloseWaits ==
  ASSUME TypeOK, Waiting, NEW s \in Side,
         closer'[s] = closer[s],
         \/ close[s] \in {"never", "idle", "draining"}
         \/ close[s] = "transfer" /\ transfer[s] \notin {"cancelled", "done"},
         \/ waits'[s] = waits[s]
         \/ /\ waits'[s] = waits[s] + 1
            /\ \/ close'[s] = "tcp"
               \/ close'[s] = "transfer" /\ transfer'[s] \in {"cancelled", "done"}
  PROVE  WaitsAt(s)'
<1>1. WaitsAt(s) /\ waits[s] \in Nat /\ CloserUsed(s) \in Nat
  BY WaitParts, UsedType
<1>2. CloserUsed(s)' = CloserUsed(s)
  BY DEF CloserUsed
<1>3. CloseUsed(s) = 0 /\ CloseUsed(s)' \in {0, 1}
  BY DEF CloseUsed
<1>4. waits'[s] = waits[s] \/ (waits'[s] = waits[s] + 1 /\ CloseUsed(s)' = 1)
  BY DEF CloseUsed
<1> QED BY <1>1, <1>2, <1>3, <1>4 DEF WaitsAt

\* The other end has used as much as before.
LEMMA WaitingKept ==
  ASSUME TypeOK, Waiting, NEW s \in Side, Rests(Peer(s)), WaitsAt(s)'
  PROVE  Waiting'
<1>1. Lasts(Peer(s)) /\ Peer(s) \in Side
  BY Ends DEF Rests, Lasts
<1>2. WaitsAt(Peer(s))'
  BY <1>1, LastsKeep
<1>3. \A q \in Side : q = s \/ q = Peer(s)
  BY Ends
<1>4. (\A q \in Side : WaitsAt(q))'
  BY <1>2, <1>3 DEF WaitsAt, CloseUsed, CloserUsed
<1>5. (Waiting <=> \A q \in Side : WaitsAt(q))'
  BY DEF Waiting, WaitsAt, Side, CloseUsed, CloserUsed
<1> QED BY <1>4, <1>5

-----------------------------------------------------------------------------
(* Each step.                                                              *)

\* The type invariant, put together again.
LEMMA TypeKept ==
  ASSUME Networks', Wires', Handshakes', Queues', Tasks', Callers'
  PROVE  TypeOK'
BY DEF TypeOK, Networks, Wires, Handshakes, Queues, Tasks, Callers

\* The reader ends by an error.
LEMMA ReadErrorStep ==
  ASSUME IndInv, NEW s \in Side, ReadError(s)
  PROVE  TypeOK' /\ Effect(s) /\ WaitsAt(s)'
<1> USE DEF network, handshake, received, calls
<1>1. TypeOK /\ Waiting /\ Networks /\ Wires /\ Handshakes /\ Queues /\ Tasks /\ Callers
  BY TypeParts DEF IndInv
<1>2. Networks'
  BY <1>1 DEF Networks, ReadError
<1>3. Wires'
  BY <1>1 DEF Wires, ReadError
<1>4. Handshakes'
  BY <1>1 DEF Handshakes, ReadError
<1>5. Queues'
  BY <1>1 DEF Queues, ReadError
<1>6. Tasks'
  BY <1>1 DEF Tasks, ReadError
<1>7. Callers'
  BY <1>1 DEF Callers, ReadError
<1>8. TypeOK'
  BY <1>2, <1>3, <1>4, <1>5, <1>6, <1>7, TypeKept
<1>9. Rests(Peer(s))
  BY <1>1, Ends DEF Rests, TypeOK, ReadError
<1>10. Outgoing(s)
  BY <1>1 DEF Outgoing, Silent, TypeOK, ReadError
<1>11. Incoming(s)
  BY <1>1, Ends DEF Incoming, Goes, Deaf, TypeOK, ReadError
<1>12. WaitsAt(s)'
  <2>1. Lasts(s)
    BY <1>1 DEF Lasts, TypeOK, ReadError
  <2> QED BY <1>1, <2>1, LastsKeep
<1> QED BY <1>8, <1>9, <1>10, <1>11, <1>12 DEF Effect

\* An answer is drained.
LEMMA AnsweredStep ==
  ASSUME IndInv, NEW s \in Side, Answered(s)
  PROVE  TypeOK' /\ Effect(s) /\ WaitsAt(s)'
<1> USE DEF network, handshake, received, calls
<1>1. TypeOK /\ Waiting /\ Networks /\ Wires /\ Handshakes /\ Queues /\ Tasks /\ Callers
  BY TypeParts DEF IndInv
<1>2. Networks'
  BY <1>1 DEF Networks, Answered
<1>3. Wires'
  BY <1>1 DEF Wires, Answered
<1>4. Handshakes'
  BY <1>1 DEF Handshakes, Answered
<1>5. Queues'
  BY <1>1 DEF Queues, Answered
<1>6. Tasks'
  BY <1>1 DEF Tasks, Answered
<1>7. Callers'
  BY <1>1 DEF Callers, Answered
<1>8. TypeOK'
  BY <1>2, <1>3, <1>4, <1>5, <1>6, <1>7, TypeKept
<1>9. Rests(Peer(s))
  BY <1>1, Ends DEF Rests, TypeOK, Answered
<1>10. Outgoing(s)
  BY <1>1 DEF Outgoing, Silent, TypeOK, Answered
<1>11. Incoming(s)
  BY <1>1, Ends DEF Incoming, Goes, Deaf, TypeOK, Answered
<1>12. WaitsAt(s)'
  <2>1. Lasts(s)
    BY <1>1 DEF Lasts, TypeOK, Answered
  <2> QED BY <1>1, <2>1, LastsKeep
<1> QED BY <1>8, <1>9, <1>10, <1>11, <1>12 DEF Effect

\* The data transfer is cancelled.
LEMMA CancelledStep ==
  ASSUME IndInv, NEW s \in Side, Cancelled(s)
  PROVE  TypeOK' /\ Effect(s) /\ WaitsAt(s)'
<1> USE DEF network, handshake, received, calls
<1>1. TypeOK /\ Waiting /\ Networks /\ Wires /\ Handshakes /\ Queues /\ Tasks /\ Callers
  BY TypeParts DEF IndInv
<1>2. Networks'
  BY <1>1 DEF Networks, Cancelled, None
<1>3. Wires'
  BY <1>1 DEF Wires, Cancelled, None
<1>4. Handshakes'
  BY <1>1 DEF Handshakes, Cancelled, None
<1>5. Queues'
  BY <1>1 DEF Queues, Cancelled, None
<1>6. Tasks'
  BY <1>1 DEF Tasks, Cancelled, None
<1>7. Callers'
  BY <1>1 DEF Callers, Cancelled, None
<1>8. TypeOK'
  BY <1>2, <1>3, <1>4, <1>5, <1>6, <1>7, TypeKept
<1>9. Rests(Peer(s))
  BY <1>1, Ends DEF Rests, TypeOK, Cancelled, None
<1>10. Outgoing(s)
  BY <1>1 DEF Outgoing, Silent, TypeOK, Cancelled, None
<1>11. Incoming(s)
  BY <1>1, Ends DEF Incoming, Goes, Deaf, TypeOK, Cancelled, None
<1>12. WaitsAt(s)'
  <2>1. Lasts(s)
    BY <1>1 DEF Lasts, TypeOK, Cancelled, None
  <2> QED BY <1>1, <2>1, LastsKeep
<1> QED BY <1>8, <1>9, <1>10, <1>11, <1>12 DEF Effect

\* A ping is drained.
LEMMA PingDrainedStep ==
  ASSUME IndInv, NEW s \in Side, PingDrained(s)
  PROVE  TypeOK' /\ Effect(s) /\ WaitsAt(s)'
<1> USE DEF network, handshake, received, calls
<1>1. TypeOK /\ Waiting /\ Networks /\ Wires /\ Handshakes /\ Queues /\ Tasks /\ Callers
  BY TypeParts DEF IndInv
<1>2. Networks'
  BY <1>1 DEF Networks, PingDrained, Cancel
<1>3. Wires'
  BY <1>1 DEF Wires, PingDrained, Cancel
<1>4. Handshakes'
  BY <1>1 DEF Handshakes, PingDrained, Cancel
<1>5. Queues'
  BY <1>1 DEF Queues, PingDrained, Cancel
<1>6. Tasks'
  BY <1>1 DEF Tasks, PingDrained, Cancel
<1>7. Callers'
  BY <1>1 DEF Callers, PingDrained, Cancel
<1>8. TypeOK'
  BY <1>2, <1>3, <1>4, <1>5, <1>6, <1>7, TypeKept
<1>9. Rests(Peer(s))
  BY <1>1, Ends DEF Rests, TypeOK, PingDrained, Cancel
<1>10. Outgoing(s)
  BY <1>1 DEF Outgoing, Silent, TypeOK, PingDrained, Cancel
<1>11. Incoming(s)
  BY <1>1, Ends DEF Incoming, Goes, Deaf, TypeOK, PingDrained, Cancel
<1>12. WaitsAt(s)'
  <2>1. Lasts(s)
    BY <1>1 DEF Lasts, TypeOK, PingDrained, Cancel
  <2> QED BY <1>1, <2>1, LastsKeep
<1> QED BY <1>8, <1>9, <1>10, <1>11, <1>12 DEF Effect

\* A pong came.
LEMMA PongReceivedStep ==
  ASSUME IndInv, NEW s \in Side, PongReceived(s)
  PROVE  TypeOK' /\ Effect(s) /\ WaitsAt(s)'
<1> USE DEF network, handshake, received, calls
<1>1. TypeOK /\ Waiting /\ Networks /\ Wires /\ Handshakes /\ Queues /\ Tasks /\ Callers
  BY TypeParts DEF IndInv
<1>2. Networks'
  BY <1>1 DEF Networks, PongReceived
<1>3. Wires'
  BY <1>1 DEF Wires, PongReceived
<1>4. Handshakes'
  BY <1>1 DEF Handshakes, PongReceived
<1>5. Queues'
  BY <1>1 DEF Queues, PongReceived
<1>6. Tasks'
  BY <1>1 DEF Tasks, PongReceived
<1>7. Callers'
  BY <1>1 DEF Callers, PongReceived
<1>8. TypeOK'
  BY <1>2, <1>3, <1>4, <1>5, <1>6, <1>7, TypeKept
<1>9. Rests(Peer(s))
  BY <1>1, Ends DEF Rests, TypeOK, PongReceived
<1>10. Outgoing(s)
  BY <1>1 DEF Outgoing, Silent, TypeOK, PongReceived
<1>11. Incoming(s)
  BY <1>1, Ends DEF Incoming, Goes, Deaf, TypeOK, PongReceived
<1>12. WaitsAt(s)'
  <2>1. Lasts(s)
    BY <1>1 DEF Lasts, TypeOK, PongReceived
  <2> QED BY <1>1, <2>1, LastsKeep
<1> QED BY <1>8, <1>9, <1>10, <1>11, <1>12 DEF Effect

\* The connection is lost in time.
LEMMA LostInTimeStep ==
  ASSUME IndInv, NEW s \in Side, LostInTime(s)
  PROVE  TypeOK' /\ Effect(s) /\ WaitsAt(s)'
<1> USE DEF network, handshake, received, calls
<1>1. TypeOK /\ Waiting /\ Networks /\ Wires /\ Handshakes /\ Queues /\ Tasks /\ Callers
  BY TypeParts DEF IndInv
<1>2. Networks'
  BY <1>1 DEF Networks, LostInTime
<1>3. Wires'
  BY <1>1 DEF Wires, LostInTime
<1>4. Handshakes'
  BY <1>1 DEF Handshakes, LostInTime
<1>5. Queues'
  BY <1>1 DEF Queues, LostInTime
<1>6. Tasks'
  BY <1>1 DEF Tasks, LostInTime
<1>7. Callers'
  BY <1>1 DEF Callers, LostInTime
<1>8. TypeOK'
  BY <1>2, <1>3, <1>4, <1>5, <1>6, <1>7, TypeKept
<1>9. Rests(Peer(s))
  BY <1>1, Ends DEF Rests, TypeOK, LostInTime
<1>10. Outgoing(s)
  BY <1>1 DEF Outgoing, Silent, TypeOK, LostInTime
<1>11. Incoming(s)
  BY <1>1, Ends DEF Incoming, Goes, Deaf, TypeOK, LostInTime
<1>12. WaitsAt(s)'
  <2>1. close'[s] = close[s] /\ transfer'[s] = transfer[s]
    BY <1>1 DEF TypeOK, LostInTime
  <2>2. closer[s] \in {"tcp", "half", "close"} /\ closer'[s] = "done"
    BY <1>1 DEF TypeOK, Side, LostInTime
  <2>3. waits'[s] = waits[s]
    BY <1>1 DEF TypeOK, LostInTime
  <2> QED BY <1>1, <2>1, <2>2, <2>3, CloserWaits
<1> QED BY <1>8, <1>9, <1>10, <1>11, <1>12 DEF Effect

\* The data transfer is over.
LEMMA TransferOverStep ==
  ASSUME IndInv, NEW s \in Side, TransferOver(s)
  PROVE  TypeOK' /\ Effect(s) /\ WaitsAt(s)'
<1> USE DEF network, handshake, received, calls
<1>1. TypeOK /\ Waiting /\ Networks /\ Wires /\ Handshakes /\ Queues /\ Tasks /\ Callers
  BY TypeParts DEF IndInv
<1>2. Networks'
  BY <1>1 DEF Networks, TransferOver, HalfClose
<1>3. Wires'
  BY <1>1 DEF Wires, TransferOver, HalfClose
<1>4. Handshakes'
  BY <1>1 DEF Handshakes, TransferOver, HalfClose
<1>5. Queues'
  BY <1>1 DEF Queues, TransferOver, HalfClose
<1>6. Tasks'
  BY <1>1 DEF Tasks, TransferOver, HalfClose
<1>7. Callers'
  BY <1>1 DEF Callers, TransferOver, HalfClose
<1>8. TypeOK'
  BY <1>2, <1>3, <1>4, <1>5, <1>6, <1>7, TypeKept
<1>9. Rests(Peer(s))
  BY SMTT(30), <1>1, Ends DEF Rests, TypeOK, TransferOver, HalfClose
<1>10. Outgoing(s)
  BY <1>1 DEF Outgoing, Silent, TypeOK, TransferOver, HalfClose
<1>11. Incoming(s)
  BY <1>1, Ends DEF Incoming, Goes, Deaf, TypeOK, TransferOver, HalfClose
<1>12. WaitsAt(s)'
  <2>1. close'[s] = close[s] /\ transfer'[s] = transfer[s]
    BY <1>1 DEF TypeOK, TransferOver, HalfClose
  <2>2. closer[s] = "transfer" /\ closer'[s] \in {"tcp", "half", "close"} /\ (closer'[s] = "tcp" => s = "client")
    BY <1>1 DEF TypeOK, Side, TransferOver, HalfClose
  <2>3. waits'[s] = waits[s]
    BY <1>1 DEF TypeOK, TransferOver, HalfClose
  <2> QED BY <1>1, <2>1, <2>2, <2>3, CloserWaits
<1> QED BY <1>8, <1>9, <1>10, <1>11, <1>12 DEF Effect

\* A client no longer waits for the server to close the TCP connection.
LEMMA TcpTimeoutStep ==
  ASSUME IndInv, NEW s \in Side, TcpTimeout(s)
  PROVE  TypeOK' /\ Effect(s) /\ WaitsAt(s)'
<1> USE DEF network, handshake, received, calls
<1>1. TypeOK /\ Waiting /\ Networks /\ Wires /\ Handshakes /\ Queues /\ Tasks /\ Callers
  BY TypeParts DEF IndInv
<1>2. Networks'
  BY <1>1 DEF Networks, TcpTimeout, HalfClose, Waited, Lost
<1>3. Wires'
  BY <1>1 DEF Wires, TcpTimeout, HalfClose, Waited, Lost
<1>4. Handshakes'
  BY <1>1 DEF Handshakes, TcpTimeout, HalfClose, Waited, Lost
<1>5. Queues'
  BY <1>1 DEF Queues, TcpTimeout, HalfClose, Waited, Lost
<1>6. Tasks'
  BY <1>1 DEF Tasks, TcpTimeout, HalfClose, Waited, Lost
<1>7. Callers'
  BY <1>1 DEF Callers, TcpTimeout, HalfClose, Waited, Lost
<1>8. TypeOK'
  BY <1>2, <1>3, <1>4, <1>5, <1>6, <1>7, TypeKept
<1>9. Rests(Peer(s))
  BY <1>1, Ends DEF Rests, TypeOK, TcpTimeout, HalfClose, Waited, Lost
<1>10. Outgoing(s)
  BY <1>1 DEF Outgoing, Silent, TypeOK, TcpTimeout, HalfClose, Waited, Lost
<1>11. Incoming(s)
  BY <1>1, Ends DEF Incoming, Goes, Deaf, TypeOK, TcpTimeout, HalfClose, Waited, Lost
<1>12. WaitsAt(s)'
  <2>1. close'[s] = close[s] /\ transfer'[s] = transfer[s]
    BY <1>1 DEF TypeOK, TcpTimeout, HalfClose, Waited
  <2>2. closer[s] = "tcp" /\ closer'[s] \in {"half", "close"}
    BY <1>1 DEF TypeOK, Side, TcpTimeout, HalfClose, Waited
  <2>3. waits'[s] \in {waits[s], waits[s] + 1}
    BY <1>1 DEF TypeOK, TcpTimeout, HalfClose, Waited
  <2> QED BY <1>1, <2>1, <2>2, <2>3, CloserWaits
<1> QED BY <1>8, <1>9, <1>10, <1>11, <1>12 DEF Effect

\* An end no longer waits for the other to answer the half-close.
LEMMA HalfTimeoutStep ==
  ASSUME IndInv, NEW s \in Side, HalfTimeout(s)
  PROVE  TypeOK' /\ Effect(s) /\ WaitsAt(s)'
<1> USE DEF network, handshake, received, calls
<1>1. TypeOK /\ Waiting /\ Networks /\ Wires /\ Handshakes /\ Queues /\ Tasks /\ Callers
  BY TypeParts DEF IndInv
<1>2. Networks'
  BY <1>1 DEF Networks, HalfTimeout, Waited, Lost
<1>3. Wires'
  BY <1>1 DEF Wires, HalfTimeout, Waited, Lost
<1>4. Handshakes'
  BY <1>1 DEF Handshakes, HalfTimeout, Waited, Lost
<1>5. Queues'
  BY <1>1 DEF Queues, HalfTimeout, Waited, Lost
<1>6. Tasks'
  BY <1>1 DEF Tasks, HalfTimeout, Waited, Lost
<1>7. Callers'
  BY <1>1 DEF Callers, HalfTimeout, Waited, Lost
<1>8. TypeOK'
  BY <1>2, <1>3, <1>4, <1>5, <1>6, <1>7, TypeKept
<1>9. Rests(Peer(s))
  BY <1>1, Ends DEF Rests, TypeOK, HalfTimeout, Waited, Lost
<1>10. Outgoing(s)
  BY <1>1 DEF Outgoing, Silent, TypeOK, HalfTimeout, Waited, Lost
<1>11. Incoming(s)
  BY <1>1, Ends DEF Incoming, Goes, Deaf, TypeOK, HalfTimeout, Waited, Lost
<1>12. WaitsAt(s)'
  <2>1. close'[s] = close[s] /\ transfer'[s] = transfer[s]
    BY <1>1 DEF TypeOK, HalfTimeout, Waited
  <2>2. closer[s] = "half" /\ closer'[s] = "close"
    BY <1>1 DEF TypeOK, Side, HalfTimeout, Waited
  <2>3. waits'[s] \in {waits[s], waits[s] + 1}
    BY <1>1 DEF TypeOK, HalfTimeout, Waited
  <2> QED BY <1>1, <2>1, <2>2, <2>3, CloserWaits
<1> QED BY <1>8, <1>9, <1>10, <1>11, <1>12 DEF Effect

\* recv raises when the connection is closed.
LEMMA RecvRaisesStep ==
  ASSUME IndInv, NEW s \in Side, RecvRaises(s)
  PROVE  TypeOK' /\ Effect(s) /\ WaitsAt(s)'
<1> USE DEF network, handshake, received, calls
<1>1. TypeOK /\ Waiting /\ Networks /\ Wires /\ Handshakes /\ Queues /\ Tasks /\ Callers
  BY TypeParts DEF IndInv
<1>2. Networks'
  BY <1>1 DEF Networks, RecvRaises, Verdict, OkCode, None
<1>3. Wires'
  BY <1>1 DEF Wires, RecvRaises, Verdict, OkCode, None
<1>4. Handshakes'
  BY <1>1 DEF Handshakes, RecvRaises, Verdict, OkCode, None
<1>5. Queues'
  BY <1>1 DEF Queues, RecvRaises, Verdict, OkCode, None
<1>6. Tasks'
  BY <1>1 DEF Tasks, RecvRaises, Verdict, OkCode, None
<1>7. Callers'
  BY <1>1 DEF Callers, RecvRaises, Verdict, OkCode, None
<1>8. TypeOK'
  BY <1>2, <1>3, <1>4, <1>5, <1>6, <1>7, TypeKept
<1>9. Rests(Peer(s))
  BY <1>1, Ends DEF Rests, TypeOK, RecvRaises, Verdict, OkCode, None
<1>10. Outgoing(s)
  BY <1>1 DEF Outgoing, Silent, TypeOK, RecvRaises, Verdict, OkCode, None
<1>11. Incoming(s)
  <2>1. ~woken[s]
    BY DEF IndInv, Accounted, RecvRaises
  <2>2. recv'[s] \in {"ok", "error"} /\ (recv'[s] = "ok" => close_rcvd[s] # None)
    BY <1>1 DEF TypeOK, RecvRaises, Verdict, OkCode, None
  <2> QED BY <1>1, <2>1, <2>2, Ends DEF Incoming, Goes, Deaf, TypeOK, RecvRaises
<1>12. WaitsAt(s)'
  <2>1. Lasts(s)
    BY <1>1 DEF Lasts, TypeOK, RecvRaises, Verdict, OkCode, None
  <2> QED BY <1>1, <2>1, LastsKeep
<1> QED BY <1>8, <1>9, <1>10, <1>11, <1>12 DEF Effect

\* A call of recv is cancelled.
LEMMA RecvCancelledStep ==
  ASSUME IndInv, NEW s \in Side, RecvCancelled(s)
  PROVE  TypeOK' /\ Effect(s) /\ WaitsAt(s)'
<1> USE DEF network, handshake, received, calls
<1>1. TypeOK /\ Waiting /\ Networks /\ Wires /\ Handshakes /\ Queues /\ Tasks /\ Callers
  BY TypeParts DEF IndInv
<1>2. Networks'
  BY <1>1 DEF Networks, RecvCancelled
<1>3. Wires'
  BY <1>1 DEF Wires, RecvCancelled
<1>4. Handshakes'
  BY <1>1 DEF Handshakes, RecvCancelled
<1>5. Queues'
  BY <1>1 DEF Queues, RecvCancelled
<1>6. Tasks'
  BY <1>1 DEF Tasks, RecvCancelled
<1>7. Callers'
  BY <1>1 DEF Callers, RecvCancelled
<1>8. TypeOK'
  BY <1>2, <1>3, <1>4, <1>5, <1>6, <1>7, TypeKept
<1>9. Rests(Peer(s))
  BY <1>1, Ends DEF Rests, TypeOK, RecvCancelled
<1>10. Outgoing(s)
  BY <1>1 DEF Outgoing, Silent, TypeOK, RecvCancelled
<1>11. Incoming(s)
  BY <1>1, Ends DEF Incoming, Goes, Deaf, TypeOK, RecvCancelled
<1>12. WaitsAt(s)'
  <2>1. Lasts(s)
    BY <1>1 DEF Lasts, TypeOK, RecvCancelled
  <2> QED BY <1>1, <2>1, LastsKeep
<1> QED BY <1>8, <1>9, <1>10, <1>11, <1>12 DEF Effect

\* A call of send ends.
LEMMA SendReturnsStep ==
  ASSUME IndInv, NEW s \in Side, SendReturns(s)
  PROVE  TypeOK' /\ Effect(s) /\ WaitsAt(s)'
<1> USE DEF network, handshake, received, calls
<1>1. TypeOK /\ Waiting /\ Networks /\ Wires /\ Handshakes /\ Queues /\ Tasks /\ Callers
  BY TypeParts DEF IndInv
<1>2. Networks'
  BY <1>1 DEF Networks, SendReturns, Cancel
<1>3. Wires'
  BY <1>1 DEF Wires, SendReturns, Cancel
<1>4. Handshakes'
  BY <1>1 DEF Handshakes, SendReturns, Cancel
<1>5. Queues'
  BY <1>1 DEF Queues, SendReturns, Cancel
<1>6. Tasks'
  BY <1>1 DEF Tasks, SendReturns, Cancel
<1>7. Callers'
  BY <1>1 DEF Callers, SendReturns, Cancel
<1>8. TypeOK'
  BY <1>2, <1>3, <1>4, <1>5, <1>6, <1>7, TypeKept
<1>9. Rests(Peer(s))
  BY <1>1, Ends DEF Rests, TypeOK, SendReturns, Cancel
<1>10. Outgoing(s)
  BY <1>1 DEF Outgoing, Silent, TypeOK, SendReturns, Cancel
<1>11. Incoming(s)
  BY <1>1, Ends DEF Incoming, Goes, Deaf, TypeOK, SendReturns, Cancel
<1>12. WaitsAt(s)'
  <2>1. Lasts(s)
    BY <1>1 DEF Lasts, TypeOK, SendReturns, Cancel
  <2> QED BY <1>1, <2>1, LastsKeep
<1> QED BY <1>8, <1>9, <1>10, <1>11, <1>12 DEF Effect

\* The close frame of close() is drained.
LEMMA CloseDrainedStep ==
  ASSUME IndInv, NEW s \in Side, CloseDrained(s)
  PROVE  TypeOK' /\ Effect(s) /\ WaitsAt(s)'
<1> USE DEF network, handshake, received, calls
<1>1. TypeOK /\ Waiting /\ Networks /\ Wires /\ Handshakes /\ Queues /\ Tasks /\ Callers
  BY TypeParts DEF IndInv
<1>2. Networks'
  BY <1>1 DEF Networks, CloseDrained, Cancel
<1>3. Wires'
  BY <1>1 DEF Wires, CloseDrained, Cancel
<1>4. Handshakes'
  BY <1>1 DEF Handshakes, CloseDrained, Cancel
<1>5. Queues'
  BY <1>1 DEF Queues, CloseDrained, Cancel
<1>6. Tasks'
  BY <1>1 DEF Tasks, CloseDrained, Cancel
<1>7. Callers'
  BY <1>1 DEF Callers, CloseDrained, Cancel
<1>8. TypeOK'
  BY <1>2, <1>3, <1>4, <1>5, <1>6, <1>7, TypeKept
<1>9. Rests(Peer(s))
  BY <1>1, Ends DEF Rests, TypeOK, CloseDrained, Cancel
<1>10. Outgoing(s)
  BY <1>1 DEF Outgoing, Silent, TypeOK, CloseDrained, Cancel
<1>11. Incoming(s)
  BY <1>1, Ends DEF Incoming, Goes, Deaf, TypeOK, CloseDrained, Cancel
<1>12. WaitsAt(s)'
  <2>1. closer'[s] = closer[s] /\ close[s] = "draining"
    BY <1>1 DEF TypeOK, CloseDrained, Cancel
  <2>2. waits'[s] = waits[s]
    BY <1>1 DEF TypeOK, CloseDrained, Cancel
  <2> QED BY <1>1, <2>1, <2>2, CloseWaits
<1> QED BY <1>8, <1>9, <1>10, <1>11, <1>12 DEF Effect

\* The close frame of close() is not drained in time.
LEMMA WriteTimeoutStep ==
  ASSUME IndInv, NEW s \in Side, WriteTimeout(s)
  PROVE  TypeOK' /\ Effect(s) /\ WaitsAt(s)'
<1> USE DEF network, handshake, received, calls
<1>1. TypeOK /\ Waiting /\ Networks /\ Wires /\ Handshakes /\ Queues /\ Tasks /\ Callers
  BY TypeParts DEF IndInv
<1>2. Networks'
  BY <1>1 DEF Networks, WriteTimeout, Cancel, Waited
<1>3. Wires'
  BY <1>1 DEF Wires, WriteTimeout, Cancel, Waited
<1>4. Handshakes'
  BY <1>1 DEF Handshakes, WriteTimeout, Cancel, Waited
<1>5. Queues'
  BY <1>1 DEF Queues, WriteTimeout, Cancel, Waited
<1>6. Tasks'
  BY <1>1 DEF Tasks, WriteTimeout, Cancel, Waited
<1>7. Callers'
  BY <1>1 DEF Callers, WriteTimeout, Cancel, Waited
<1>8. TypeOK'
  BY <1>2, <1>3, <1>4, <1>5, <1>6, <1>7, TypeKept
<1>9. Rests(Peer(s))
  BY <1>1, Ends DEF Rests, TypeOK, WriteTimeout, Cancel, Waited
<1>10. Outgoing(s)
  BY <1>1 DEF Outgoing, Silent, TypeOK, WriteTimeout, Cancel, Waited
<1>11. Incoming(s)
  BY <1>1, Ends DEF Incoming, Goes, Deaf, TypeOK, WriteTimeout, Cancel, Waited
<1>12. WaitsAt(s)'
  <2>1. closer'[s] = closer[s] /\ close[s] = "draining"
    BY <1>1 DEF TypeOK, WriteTimeout, Cancel, Waited
  <2>2. waits'[s] = waits[s] + 1 /\ close'[s] = "transfer" /\ transfer'[s] \in {"cancelled", "done"}
    BY <1>1 DEF TypeOK, WriteTimeout, Cancel, Waited
  <2> QED BY <1>1, <2>1, <2>2, CloseWaits
<1> QED BY <1>8, <1>9, <1>10, <1>11, <1>12 DEF Effect

\* The answer to the close frame does not come in time.
LEMMA TransferTimeoutStep ==
  ASSUME IndInv, NEW s \in Side, TransferTimeout(s)
  PROVE  TypeOK' /\ Effect(s) /\ WaitsAt(s)'
<1> USE DEF network, handshake, received, calls
<1>1. TypeOK /\ Waiting /\ Networks /\ Wires /\ Handshakes /\ Queues /\ Tasks /\ Callers
  BY TypeParts DEF IndInv
<1>2. Networks'
  BY <1>1 DEF Networks, TransferTimeout, Cancel, Waited
<1>3. Wires'
  BY <1>1 DEF Wires, TransferTimeout, Cancel, Waited
<1>4. Handshakes'
  BY <1>1 DEF Handshakes, TransferTimeout, Cancel, Waited
<1>5. Queues'
  BY <1>1 DEF Queues, TransferTimeout, Cancel, Waited
<1>6. Tasks'
  BY <1>1 DEF Tasks, TransferTimeout, Cancel, Waited
<1>7. Callers'
  BY <1>1 DEF Callers, TransferTimeout, Cancel, Waited
<1>8. TypeOK'
  BY <1>2, <1>3, <1>4, <1>5, <1>6, <1>7, TypeKept
<1>9. Rests(Peer(s))
  BY <1>1, Ends DEF Rests, TypeOK, TransferTimeout, Cancel, Waited
<1>10. Outgoing(s)
  BY <1>1 DEF Outgoing, Silent, TypeOK, TransferTimeout, Cancel, Waited
<1>11. Incoming(s)
  BY <1>1, Ends DEF Incoming, Goes, Deaf, TypeOK, TransferTimeout, Cancel, Waited
<1>12. WaitsAt(s)'
  <2>1. closer'[s] = closer[s] /\ close[s] = "transfer" /\ transfer[s] \notin {"cancelled", "done"}
    BY <1>1 DEF TypeOK, TransferTimeout, Cancel, Waited
  <2>2. waits'[s] = waits[s] + 1 /\ close'[s] = "tcp"
    BY <1>1 DEF TypeOK, TransferTimeout, Cancel, Waited
  <2> QED BY <1>1, <2>1, <2>2, CloseWaits
<1> QED BY <1>8, <1>9, <1>10, <1>11, <1>12 DEF Effect

\* close() goes on when the data transfer, and then the connection, is over.
LEMMA CloseReturnsStep ==
  ASSUME IndInv, NEW s \in Side, CloseReturns(s)
  PROVE  TypeOK' /\ Effect(s) /\ WaitsAt(s)'
<1> USE DEF network, handshake, received, calls
<1>1. TypeOK /\ Waiting /\ Networks /\ Wires /\ Handshakes /\ Queues /\ Tasks /\ Callers
  BY TypeParts DEF IndInv
<1>2. Networks'
  BY <1>1 DEF Networks, CloseReturns
<1>3. Wires'
  BY <1>1 DEF Wires, CloseReturns
<1>4. Handshakes'
  BY <1>1 DEF Handshakes, CloseReturns
<1>5. Queues'
  BY <1>1 DEF Queues, CloseReturns
<1>6. Tasks'
  BY <1>1 DEF Tasks, CloseReturns
<1>7. Callers'
  BY <1>1 DEF Callers, CloseReturns
<1>8. TypeOK'
  BY <1>2, <1>3, <1>4, <1>5, <1>6, <1>7, TypeKept
<1>9. Rests(Peer(s))
  BY <1>1, Ends DEF Rests, TypeOK, CloseReturns
<1>10. Outgoing(s)
  BY <1>1 DEF Outgoing, Silent, TypeOK, CloseReturns
<1>11. Incoming(s)
  BY <1>1, Ends DEF Incoming, Goes, Deaf, TypeOK, CloseReturns
<1>12. WaitsAt(s)'
  <2>1. /\ close[s] = "tcp" \/ (close[s] = "transfer" /\ transfer[s] = "done")
        /\ close'[s] \in {"tcp", "done"}
        /\ transfer'[s] = transfer[s] /\ closer'[s] = closer[s] /\ waits'[s] = waits[s]
    BY <1>1 DEF TypeOK, CloseReturns, received
  <2>2. CloseUsed(s) = 1 /\ CloseUsed(s)' = 1 /\ CloserUsed(s)' = CloserUsed(s)
    BY <2>1 DEF CloseUsed, CloserUsed
  <2> QED BY <1>1, <2>1, <2>2, WaitParts DEF WaitsAt
<1> QED BY <1>8, <1>9, <1>10, <1>11, <1>12 DEF Effect

\* The other end has nothing more to write.
LEMMA PeerEofStep ==
  ASSUME IndInv, NEW s \in Side, PeerEof(s)
  PROVE  TypeOK' /\ Effect(s) /\ WaitsAt(s)'
<1> USE DEF network, handshake, received, calls
<1>1. TypeOK /\ Waiting /\ Networks /\ Wires /\ Handshakes /\ Queues /\ Tasks /\ Callers
  BY TypeParts DEF IndInv
<1>2. Networks'
  BY <1>1 DEF Networks, PeerEof, NetworkOnly, Lost
<1>3. Wires'
  BY <1>1 DEF Wires, PeerEof, NetworkOnly, Lost
<1>4. Handshakes'
  BY <1>1 DEF Handshakes, PeerEof, NetworkOnly, Lost
<1>5. Queues'
  BY <1>1 DEF Queues, PeerEof, NetworkOnly, Lost
<1>6. Tasks'
  BY <1>1 DEF Tasks, PeerEof, NetworkOnly, Lost
<1>7. Callers'
  BY <1>1 DEF Callers, PeerEof, NetworkOnly, Lost
<1>8. TypeOK'
  BY <1>2, <1>3, <1>4, <1>5, <1>6, <1>7, TypeKept
<1>9. Rests(Peer(s))
  BY <1>1, Ends DEF Rests, TypeOK, PeerEof, NetworkOnly, Lost
<1>10. Outgoing(s)
  BY <1>1 DEF Outgoing, Silent, TypeOK, PeerEof, NetworkOnly, Lost
<1>11. Incoming(s)
  BY <1>1, Ends DEF Incoming, Goes, Deaf, TypeOK, PeerEof, NetworkOnly, Lost
<1>12. WaitsAt(s)'
  <2>1. Lasts(s)
    BY <1>1 DEF Lasts, TypeOK, PeerEof, NetworkOnly, Lost
  <2> QED BY <1>1, <2>1, LastsKeep
<1> QED BY <1>8, <1>9, <1>10, <1>11, <1>12 DEF Effect

\* A transport that was closed has flushed its buffer.
LEMMA FlushedStep ==
  ASSUME IndInv, NEW s \in Side, Flushed(s)
  PROVE  TypeOK' /\ Effect(s) /\ WaitsAt(s)'
<1> USE DEF network, handshake, received, calls
<1>1. TypeOK /\ Waiting /\ Networks /\ Wires /\ Handshakes /\ Queues /\ Tasks /\ Callers
  BY TypeParts DEF IndInv
<1>2. Networks'
  BY <1>1 DEF Networks, Flushed, ConnectionLost, NetworkOnly, Lost
<1>3. Wires'
  BY <1>1 DEF Wires, Flushed, ConnectionLost, NetworkOnly, Lost
<1>4. Handshakes'
  BY <1>1 DEF Handshakes, Flushed, ConnectionLost, NetworkOnly, Lost
<1>5. Queues'
  BY <1>1 DEF Queues, Flushed, ConnectionLost, NetworkOnly, Lost
<1>6. Tasks'
  BY <1>1 DEF Tasks, Flushed, ConnectionLost, NetworkOnly, Lost
<1>7. Callers'
  BY <1>1 DEF Callers, Flushed, ConnectionLost, NetworkOnly, Lost
<1>8. TypeOK'
  BY <1>2, <1>3, <1>4, <1>5, <1>6, <1>7, TypeKept
<1>9. Rests(Peer(s))
  BY <1>1, Ends DEF Rests, TypeOK, Flushed, ConnectionLost, NetworkOnly, Lost
<1>10. Outgoing(s)
  BY <1>1 DEF Outgoing, Loses, TypeOK, Flushed, ConnectionLost, NetworkOnly, Lost
<1>11. Incoming(s)
  BY <1>1, Ends DEF Incoming, Goes, Deaf, TypeOK, Flushed, ConnectionLost, NetworkOnly, Lost
<1>12. WaitsAt(s)'
  <2>1. Lasts(s)
    BY <1>1 DEF Lasts, TypeOK, Flushed, ConnectionLost, NetworkOnly, Lost
  <2> QED BY <1>1, <2>1, LastsKeep
<1> QED BY <1>8, <1>9, <1>10, <1>11, <1>12 DEF Effect

\* The network resets the connection.
LEMMA ResetStep ==
  ASSUME IndInv, NEW s \in Side, Reset(s)
  PROVE  TypeOK' /\ Effect(s) /\ WaitsAt(s)'
<1> USE DEF network, handshake, received, calls
<1>1. TypeOK /\ Waiting /\ Networks /\ Wires /\ Handshakes /\ Queues /\ Tasks /\ Callers
  BY TypeParts DEF IndInv
<1>2. Networks'
  BY <1>1 DEF Networks, Reset, ConnectionLost, NetworkOnly, Lost
<1>3. Wires'
  BY <1>1 DEF Wires, Reset, ConnectionLost, NetworkOnly, Lost
<1>4. Handshakes'
  BY <1>1 DEF Handshakes, Reset, ConnectionLost, NetworkOnly, Lost
<1>5. Queues'
  BY <1>1 DEF Queues, Reset, ConnectionLost, NetworkOnly, Lost
<1>6. Tasks'
  BY <1>1 DEF Tasks, Reset, ConnectionLost, NetworkOnly, Lost
<1>7. Callers'
  BY <1>1 DEF Callers, Reset, ConnectionLost, NetworkOnly, Lost
<1>8. TypeOK'
  BY <1>2, <1>3, <1>4, <1>5, <1>6, <1>7, TypeKept
<1>9. Rests(Peer(s))
  BY <1>1, Ends DEF Rests, TypeOK, Reset, ConnectionLost, NetworkOnly, Lost
<1>10. Outgoing(s)
  BY <1>1 DEF Outgoing, Loses, TypeOK, Reset, ConnectionLost, NetworkOnly, Lost
<1>11. Incoming(s)
  BY <1>1, Ends DEF Incoming, Goes, Deaf, TypeOK, Reset, ConnectionLost, NetworkOnly, Lost
<1>12. WaitsAt(s)'
  <2>1. Lasts(s)
    BY <1>1 DEF Lasts, TypeOK, Reset, ConnectionLost, NetworkOnly, Lost
  <2> QED BY <1>1, <2>1, LastsKeep
<1> QED BY <1>8, <1>9, <1>10, <1>11, <1>12 DEF Effect

\* There is room for the message in hand.
LEMMA RoomAgainStep ==
  ASSUME IndInv, NEW s \in Side, RoomAgain(s)
  PROVE  TypeOK' /\ Effect(s) /\ WaitsAt(s)'
<1> USE DEF network, handshake, received, calls
<1>1. TypeOK /\ Waiting /\ Networks /\ Wires /\ Handshakes /\ Queues /\ Tasks /\ Callers
  BY TypeParts DEF IndInv
<1>2. Networks'
  BY <1>1 DEF Networks, RoomAgain, Enqueue, None
<1>3. Wires'
  BY <1>1 DEF Wires, RoomAgain, Enqueue, None
<1>4. Handshakes'
  BY <1>1 DEF Handshakes, RoomAgain, Enqueue, None
<1>5. Queues'
  <2>1. inhand[s] \in Nat /\ Len(messages[s]) < MaxQueue /\ Enqueue(s, inhand[s])
    BY <1>1 DEF Tasks, RoomAgain
  <2> QED BY <1>1, <2>1, EnqueueType
<1>6. Tasks'
  BY <1>1 DEF Tasks, RoomAgain, Enqueue, None
<1>7. Callers'
  BY <1>1 DEF Callers, RoomAgain, Enqueue, None
<1>8. TypeOK'
  BY <1>2, <1>3, <1>4, <1>5, <1>6, <1>7, TypeKept
<1>9. Rests(Peer(s))
  BY <1>1, Ends DEF Rests, TypeOK, RoomAgain, Enqueue, None
<1>10. Outgoing(s)
  BY <1>1 DEF Outgoing, Silent, TypeOK, RoomAgain, Enqueue, None
<1>11. Incoming(s)
  <2>1. woken'[s] = (recv[s] = "waiting")
    BY <1>1 DEF Callers, RoomAgain, Enqueue
  <2>2. /\ messages'[s] = Append(messages[s], inhand[s]) /\ transfer[s] = "full" /\ transfer'[s] = "reading"
        /\ wire' = wire /\ got' = got /\ recv' = recv /\ Deaf(s)
    BY <1>1 DEF Queues, Tasks, Deaf, RoomAgain, Enqueue, network, handshake
  <2>3. Stores(s)
    BY <2>1, <2>2 DEF Stores
  <2> QED BY <2>3 DEF Incoming
<1>12. WaitsAt(s)'
  <2>1. Lasts(s)
    BY <1>1 DEF Lasts, TypeOK, RoomAgain, Enqueue, None
  <2> QED BY <1>1, <2>1, LastsKeep
<1> QED BY <1>8, <1>9, <1>10, <1>11, <1>12 DEF Effect

\* A ping is sent.
LEMMA SendPingStep ==
  ASSUME IndInv, NEW s \in Side, SendPing(s)
  PROVE  TypeOK' /\ Effect(s) /\ WaitsAt(s)'
<1> USE DEF network, handshake, received, calls
<1>1. TypeOK /\ Waiting /\ Networks /\ Wires /\ Handshakes /\ Queues /\ Tasks /\ Callers
  BY TypeParts DEF IndInv
<1>2. Networks'
  BY <1>1 DEF Networks, SendPing, Ensure
<1>3. Wires'
  <2>1. Ping \in Frame
    BY <1>1, FrameKinds, Codes DEF Callers
  <2> QED BY <1>1, <2>1, PlusType DEF Wires, SendPing, Ensure
<1>4. Handshakes'
  BY <1>1, Codes DEF Handshakes, SendPing, Ensure
<1>5. Queues'
  BY <1>1 DEF Queues, SendPing, Ensure
<1>6. Tasks'
  BY <1>1 DEF Tasks, SendPing, Ensure
<1>7. Callers'
  BY <1>1 DEF Callers, SendPing, Ensure
<1>8. TypeOK'
  BY <1>2, <1>3, <1>4, <1>5, <1>6, <1>7, TypeKept
<1>9. Rests(Peer(s))
  BY <1>1, Ends DEF Rests, TypeOK, Plus, SendPing, Ensure
<1>10. Outgoing(s)
  <2>1. CASE IsOpen(s)
    <3>1. state[s] = "OPEN" /\ tcp[s] # "lost"
      BY <2>1 DEF IndInv, Shaking, Lost, IsOpen
    <3>2. wire'[s] = Append(wire[s], Ping)
      BY <1>1, <2>1, <3>1 DEF Wires, Plus, Lost, SendPing, Ensure
    <3>3. /\ Ping \in Frame /\ Ping.op = "ping"
      BY <1>1, FrameKinds, Codes DEF Callers
    <3>4. Writes(s, Ping)
      BY <1>1, <2>1, <3>1, <3>2, <3>3 DEF Writes, TypeOK, SendPing, Ensure
    <3> QED BY <3>3, <3>4 DEF Outgoing
  <2>2. CASE ~(IsOpen(s))
    BY <1>1, <2>2 DEF Outgoing, Silent, TypeOK, SendPing, Ensure
  <2> QED BY <2>1, <2>2
<1>11. Incoming(s)
  BY <1>1, Ends DEF Incoming, Goes, Deaf, TypeOK, Plus, SendPing, Ensure
<1>12. WaitsAt(s)'
  <2>1. Lasts(s)
    BY <1>1 DEF Lasts, TypeOK, SendPing, Ensure
  <2> QED BY <1>1, <2>1, LastsKeep
<1> QED BY <1>8, <1>9, <1>10, <1>11, <1>12 DEF Effect

\* The pong does not come in time.
LEMMA PongTimeoutStep ==
  ASSUME IndInv, NEW s \in Side, PongTimeout(s)
  PROVE  TypeOK' /\ Effect(s) /\ WaitsAt(s)'
<1> USE DEF network, handshake, received, calls
<1>1. TypeOK /\ Waiting /\ Networks /\ Wires /\ Handshakes /\ Queues /\ Tasks /\ Callers
  BY TypeParts DEF IndInv
<1>2. Networks'
  BY <1>1 DEF Networks, PongTimeout, Fail, Cancel, StartClosing, Abnormal, InternalError
<1>3. Wires'
  <2>1. CloseFrame(InternalError) \in Frame
    BY <1>1, FrameKinds, Codes DEF Callers
  <2> QED BY <1>1, <2>1, PlusType DEF Wires, PongTimeout, Fail, Cancel, StartClosing, Abnormal,
                                      InternalError
<1>4. Handshakes'
  BY <1>1, Codes DEF Handshakes, PongTimeout, Fail, Cancel, StartClosing
<1>5. Queues'
  BY <1>1 DEF Queues, PongTimeout, Fail, Cancel, StartClosing, Abnormal, InternalError
<1>6. Tasks'
  BY <1>1 DEF Tasks, PongTimeout, Fail, Cancel, StartClosing, Abnormal, InternalError
<1>7. Callers'
  BY <1>1 DEF Callers, PongTimeout, Fail, Cancel, StartClosing, Abnormal, InternalError
<1>8. TypeOK'
  BY <1>2, <1>3, <1>4, <1>5, <1>6, <1>7, TypeKept
<1>9. Rests(Peer(s))
  BY SMTT(30), <1>1, Ends DEF Rests, TypeOK, Plus, PongTimeout, Fail, Cancel, StartClosing, Abnormal,
                    InternalError
<1>10. Outgoing(s)
  <2>1. CASE state[s] = "OPEN"
    <3>1. state[s] = "OPEN" /\ tcp[s] # "lost"
      BY <2>1 DEF IndInv, Shaking, Lost, IsOpen
    <3>2. wire'[s] = Append(wire[s], CloseFrame(InternalError))
      BY <1>1, <2>1, <3>1 DEF Wires, Plus, Lost, PongTimeout, Fail, Cancel, StartClosing, Abnormal,
                              InternalError
    <3>3. /\ CloseFrame(InternalError) \in Frame /\ CloseFrame(InternalError).op = "close" /\ CloseFrame(InternalError).n = InternalError
      BY <1>1, FrameKinds, Codes DEF Callers
    <3>4. Writes(s, CloseFrame(InternalError))
      BY <1>1, <2>1, <3>1, <3>2, <3>3 DEF Writes, TypeOK, PongTimeout, Fail, Cancel, StartClosing,
                                          Abnormal, InternalError
    <3> QED BY <3>3, <3>4 DEF Outgoing
  <2>2. CASE ~(state[s] = "OPEN")
    BY <1>1, <2>2 DEF Outgoing, Silent, TypeOK, PongTimeout, Fail, Cancel, StartClosing, Abnormal,
                      InternalError
  <2> QED BY <2>1, <2>2
<1>11. Incoming(s)
  BY <1>1, Ends DEF Incoming, Goes, Deaf, TypeOK, Plus, PongTimeout, Fail, Cancel, StartClosing,
                    Abnormal, InternalError
<1>12. WaitsAt(s)'
  <2>1. Lasts(s)
    BY <1>1 DEF Lasts, TypeOK, PongTimeout, Fail, Cancel, StartClosing, Abnormal, InternalError
  <2> QED BY <1>1, <2>1, LastsKeep
<1> QED BY <1>8, <1>9, <1>10, <1>11, <1>12 DEF Effect

\* The application sends a message.
LEMMA SendStep ==
  ASSUME IndInv, NEW s \in Side, Send(s)
  PROVE  TypeOK' /\ Effect(s) /\ WaitsAt(s)'
<1> USE DEF network, handshake, received, calls
<1>1. TypeOK /\ Waiting /\ Networks /\ Wires /\ Handshakes /\ Queues /\ Tasks /\ Callers
  BY TypeParts DEF IndInv
<1>2. Networks'
  BY <1>1 DEF Networks, Send, Ensure
<1>3. Wires'
  <2>1. Data(written[s] + 1) \in Frame
    BY <1>1, FrameKinds, Codes DEF Callers
  <2> QED BY <1>1, <2>1, PlusType DEF Wires, Send, Ensure
<1>4. Handshakes'
  BY <1>1, Codes DEF Handshakes, Send, Ensure
<1>5. Queues'
  BY <1>1 DEF Queues, Send, Ensure
<1>6. Tasks'
  BY <1>1 DEF Tasks, Send, Ensure
<1>7. Callers'
  <2>1. unsent[s] > 0 => unsent[s] \in Nat /\ unsent[s] - 1 \in Nat /\ written[s] + 1 \in Nat
    BY <1>1 DEF Callers
  <2>2. /\ unsent' = [unsent EXCEPT ![s] = unsent[s] - 1] \/ unsent' = unsent
        /\ written' = [written EXCEPT ![s] = written[s] + 1] \/ written' = written
    BY DEF Send
  <2>3. unsent[s] > 0
    BY DEF Send
  <2>4. unsent' \in [Side -> Nat] /\ written' \in [Side -> Nat]
    BY ZenonT(60), <1>1, <2>1, <2>2, <2>3 DEF Callers
  <2> QED BY <1>1, <2>4 DEF Callers, Send, Ensure
<1>8. TypeOK'
  BY <1>2, <1>3, <1>4, <1>5, <1>6, <1>7, TypeKept
<1>9. Rests(Peer(s))
  BY <1>1, Ends DEF Rests, TypeOK, Plus, Send, Ensure
<1>10. Outgoing(s)
  <2>1. CASE IsOpen(s)
    <3>1. state[s] = "OPEN" /\ tcp[s] # "lost"
      BY <2>1 DEF IndInv, Shaking, Lost, IsOpen
    <3>2. wire'[s] = Append(wire[s], Data(written[s] + 1))
      BY <1>1, <2>1, <3>1 DEF Wires, Plus, Lost, Send, Ensure
    <3>3. /\ Data(written[s] + 1) \in Frame /\ Data(written[s] + 1).op = "data"
      BY <1>1, FrameKinds, Codes DEF Callers
    <3>4. Writes(s, Data(written[s] + 1))
      BY <1>1, <2>1, <3>1, <3>2, <3>3 DEF Writes, TypeOK, Send, Ensure
    <3> QED BY <3>3, <3>4 DEF Outgoing
  <2>2. CASE ~(IsOpen(s))
    BY <1>1, <2>2 DEF Outgoing, Silent, TypeOK, Send, Ensure
  <2> QED BY <2>1, <2>2
<1>11. Incoming(s)
  BY SMTT(30), <1>1, Ends DEF Incoming, Goes, Deaf, TypeOK, Plus, Send, Ensure
<1>12. WaitsAt(s)'
  <2>1. Lasts(s)
    BY <1>1 DEF Lasts, TypeOK, Send, Ensure
  <2> QED BY <1>1, <2>1, LastsKeep
<1> QED BY <1>8, <1>9, <1>10, <1>11, <1>12 DEF Effect

\* The application closes the connection.
LEMMA CloseStep ==
  ASSUME IndInv, NEW s \in Side, Close(s)
  PROVE  TypeOK' /\ Effect(s) /\ WaitsAt(s)'
<1> USE DEF network, handshake, received, calls
<1>1. TypeOK /\ Waiting /\ Networks /\ Wires /\ Handshakes /\ Queues /\ Tasks /\ Callers
  BY TypeParts DEF IndInv
<1>2. Networks'
  BY <1>1 DEF Networks, Close, StartClosing
<1>3. Wires'
  <2>1. CloseFrame(Normal) \in Frame
    BY <1>1, FrameKinds, Codes DEF Callers
  <2> QED BY <1>1, <2>1, PlusType DEF Wires, Close, StartClosing
<1>4. Handshakes'
  BY <1>1, Codes DEF Handshakes, Close, StartClosing
<1>5. Queues'
  BY <1>1 DEF Queues, Close, StartClosing
<1>6. Tasks'
  BY <1>1 DEF Tasks, Close, StartClosing
<1>7. Callers'
  BY <1>1 DEF Callers, Close, StartClosing
<1>8. TypeOK'
  BY <1>2, <1>3, <1>4, <1>5, <1>6, <1>7, TypeKept
<1>9. Rests(Peer(s))
  BY SMTT(30), <1>1, Ends DEF Rests, TypeOK, Plus, Close, StartClosing
<1>10. Outgoing(s)
  <2>1. CASE state[s] = "OPEN"
    <3>1. state[s] = "OPEN" /\ tcp[s] # "lost"
      BY <2>1 DEF IndInv, Shaking, Lost, IsOpen
    <3>2. wire'[s] = Append(wire[s], CloseFrame(Normal))
      BY <1>1, <2>1, <3>1 DEF Wires, Plus, Lost, Close, StartClosing
    <3>3. /\ CloseFrame(Normal) \in Frame /\ CloseFrame(Normal).op = "close" /\ CloseFrame(Normal).n = Normal
      BY <1>1, FrameKinds, Codes DEF Callers
    <3>4. Writes(s, CloseFrame(Normal))
      BY <1>1, <2>1, <3>1, <3>2, <3>3 DEF Writes, TypeOK, Close, StartClosing
    <3> QED BY <3>3, <3>4 DEF Outgoing
  <2>2. CASE ~(state[s] = "OPEN")
    BY <1>1, <2>2 DEF Outgoing, Silent, TypeOK, Close, StartClosing
  <2> QED BY <2>1, <2>2
<1>11. Incoming(s)
  BY <1>1, Ends DEF Incoming, Goes, Deaf, TypeOK, Plus, Close, StartClosing
<1>12. WaitsAt(s)'
  <2>1. closer'[s] = closer[s] /\ close[s] = "idle"
    BY <1>1 DEF TypeOK, Close
  <2>2. waits'[s] = waits[s]
    BY <1>1 DEF TypeOK, Close
  <2> QED BY <1>1, <2>1, <2>2, CloseWaits
<1> QED BY <1>8, <1>9, <1>10, <1>11, <1>12 DEF Effect

\* The other end does not close the TCP connection in time: it is aborted.
LEMMA CloseTimeoutStep ==
  ASSUME IndInv, NEW s \in Side, CloseTimeout(s)
  PROVE  TypeOK' /\ Effect(s) /\ WaitsAt(s)'
<1> USE DEF network, handshake, received, calls
<1>1. TypeOK /\ Waiting /\ Networks /\ Wires /\ Handshakes /\ Queues /\ Tasks /\ Callers
  BY TypeParts DEF IndInv
<1>2. Networks'
  BY <1>1 DEF Networks, CloseTimeout, Waited, ConnectionLost, Lost
<1>3. Wires'
  <2>1. PICK n \in 0..Len(wire[s]) : wire' = [wire EXCEPT ![s] = SubSeq(@, 1, n)]
    BY DEF CloseTimeout
  <2>2. Len(wire[s]) \in Nat /\ \A i \in 1..n : wire[s][i] \in Frame
    BY <1>1, LenProperties, ElementOfSeq DEF Wires
  <2>3. SubSeq(wire[s], 1, n) \in Seq(Frame)
    BY <2>2, SubSeqProperties
  <2> QED BY <1>1, <2>1, <2>3 DEF Wires
<1>4. Handshakes'
  BY <1>1 DEF Handshakes, CloseTimeout, Waited, ConnectionLost, Lost
<1>5. Queues'
  BY <1>1 DEF Queues, CloseTimeout, Waited, ConnectionLost, Lost
<1>6. Tasks'
  BY <1>1 DEF Tasks, CloseTimeout, Waited, ConnectionLost, Lost
<1>7. Callers'
  BY <1>1 DEF Callers, CloseTimeout, Waited, ConnectionLost, Lost
<1>8. TypeOK'
  BY <1>2, <1>3, <1>4, <1>5, <1>6, <1>7, TypeKept
<1>9. Rests(Peer(s))
  <2>1. PICK n \in 0..Len(wire[s]) : wire' = [wire EXCEPT ![s] = SubSeq(@, 1, n)]
    BY DEF CloseTimeout
  <2> QED BY <1>1, <2>1, Ends DEF Rests, TypeOK, CloseTimeout, Waited, ConnectionLost
<1>10. Outgoing(s)
  <2>1. PICK n \in 0..Len(wire[s]) : wire' = [wire EXCEPT ![s] = SubSeq(@, 1, n)]
    BY DEF CloseTimeout
  <2>2. wire'[s] = SubSeq(wire[s], 1, n)
    BY <1>1, <2>1 DEF Wires
  <2>3. Loses(s)
    BY <1>1, <2>2 DEF Loses, TypeOK, CloseTimeout, ConnectionLost, Lost
  <2> QED BY <2>3 DEF Outgoing
<1>11. Incoming(s)
  <2>1. PICK n \in 0..Len(wire[s]) : wire' = [wire EXCEPT ![s] = SubSeq(@, 1, n)]
    BY DEF CloseTimeout
  <2>2. wire'[Peer(s)] = wire[Peer(s)]
    BY <1>1, <2>1, Ends DEF Wires
  <2> QED BY <1>1, <2>2, Ends DEF Incoming, Goes, Deaf, TypeOK, CloseTimeout, ConnectionLost, Waited
<1>12. WaitsAt(s)'
  <2>1. close'[s] = close[s] /\ transfer'[s] = transfer[s]
    BY <1>1 DEF TypeOK, CloseTimeout, Waited
  <2>2. closer[s] = "close" /\ closer'[s] = "done"
    BY <1>1 DEF TypeOK, Side, CloseTimeout, Waited
  <2>3. waits'[s] \in {waits[s], waits[s] + 1}
    BY <1>1 DEF TypeOK, CloseTimeout, Waited
  <2> QED BY <1>1, <2>1, <2>2, <2>3, CloserWaits
<1> QED BY <1>8, <1>9, <1>10, <1>11, <1>12 DEF Effect

\* The application calls recv.
LEMMA RecvStep ==
  ASSUME IndInv, NEW s \in Side, Recv(s)
  PROVE  TypeOK' /\ Effect(s) /\ WaitsAt(s)'
<1> USE DEF network, handshake, received, calls
<1>1. TypeOK /\ Waiting /\ Networks /\ Wires /\ Handshakes /\ Queues /\ Tasks /\ Callers
  BY TypeParts DEF IndInv
<1>2. Networks'
  BY <1>1 DEF Networks, Recv, Pop
<1>3. Wires'
  BY <1>1 DEF Wires, Recv, Pop
<1>4. Handshakes'
  BY <1>1 DEF Handshakes, Recv, Pop
<1>5. Queues'
  <2>1. CASE messages[s] # <<>>
    <3>1. Pop(s) /\ messages[s] # <<>>
      BY <2>1 DEF Recv, IndInv, Accounted
    <3> QED BY <1>1, <3>1, PopType
  <2>2. CASE ~(messages[s] # <<>>)
    BY <1>1, <2>2 DEF Queues, Recv
  <2> QED BY <2>1, <2>2
<1>6. Tasks'
  BY <1>1 DEF Tasks, Recv, Pop
<1>7. Callers'
  <2>1. got' \in [Side -> Seq(Nat)]
    <3>1. CASE messages[s] # <<>>
      <4>1. Pop(s) /\ messages[s] # <<>>
        BY <3>1 DEF Recv, IndInv, Accounted
      <4> QED BY <1>1, <4>1, PopType
    <3>2. CASE ~(messages[s] # <<>>)
      BY <1>1, <3>2 DEF Callers, Recv
    <3> QED BY <3>1, <3>2
  <2>2. /\ recv' \in [Side -> {"never", "idle", "waiting", "ensuring", "ok", "error"}]
        /\ woken' \in [Side -> BOOLEAN]
    BY <1>1 DEF Callers, Recv, Verdict
  <2> QED BY <1>1, <2>1, <2>2 DEF Callers, Recv
<1>8. TypeOK'
  BY <1>2, <1>3, <1>4, <1>5, <1>6, <1>7, TypeKept
<1>9. Rests(Peer(s))
  BY SMTT(30), <1>1, Ends DEF Rests, TypeOK, Recv, Pop
<1>10. Outgoing(s)
  BY <1>1 DEF Outgoing, Silent, TypeOK, Recv, Pop
<1>11. Incoming(s)
  <2>0. ~woken'[s] /\ wire' = wire /\ Deaf(s) /\ transfer' = transfer /\ inhand' = inhand
    BY <1>1 DEF Recv, Deaf, network, handshake, Callers
  <2>1. CASE messages[s] # <<>>
    <3>1. Pop(s) /\ messages[s] # <<>> /\ recv'[s] = "idle"
      BY <1>1, <2>1 DEF Recv, IndInv, Accounted, Callers
    <3>2. messages'[s] = Tail(messages[s]) /\ got'[s] = Append(got[s], Head(messages[s]))
      BY <1>1, <3>1 DEF Pop, Queues, Callers
    <3>3. Takes(s)
      BY <2>0, <3>1, <3>2 DEF Takes
    <3> QED BY <3>3 DEF Incoming
  <2>2. CASE ~(messages[s] # <<>>)
    <3>1. messages' = messages /\ got' = got /\ recv'[s] = "waiting"
      BY <1>1, <2>2 DEF Recv, Callers
    <3>2. Goes(s)
      BY <2>0, <2>2, <3>1 DEF Goes
    <3> QED BY <3>2 DEF Incoming
  <2> QED BY <2>1, <2>2
<1>12. WaitsAt(s)'
  <2>1. Lasts(s)
    BY <1>1 DEF Lasts, TypeOK, Recv, Pop
  <2> QED BY <1>1, <2>1, LastsKeep
<1> QED BY <1>8, <1>9, <1>10, <1>11, <1>12 DEF Effect

\* The call of recv is woken: by a message, or by the end of the data transfer.
LEMMA RecvWakesStep ==
  ASSUME IndInv, NEW s \in Side, RecvWakes(s)
  PROVE  TypeOK' /\ Effect(s) /\ WaitsAt(s)'
<1> USE DEF network, handshake, received, calls
<1>1. TypeOK /\ Waiting /\ Networks /\ Wires /\ Handshakes /\ Queues /\ Tasks /\ Callers
  BY TypeParts DEF IndInv
<1>2. Networks'
  BY <1>1 DEF Networks, RecvWakes, Pop, Verdict
<1>3. Wires'
  BY <1>1 DEF Wires, RecvWakes, Pop, Verdict
<1>4. Handshakes'
  BY <1>1 DEF Handshakes, RecvWakes, Pop, Verdict
<1>5. Queues'
  <2>1. CASE woken[s]
    <3>1. Pop(s) /\ messages[s] # <<>>
      BY <2>1 DEF RecvWakes, IndInv, Accounted
    <3> QED BY <1>1, <3>1, PopType
  <2>2. CASE ~(woken[s])
    BY <1>1, <2>2 DEF Queues, RecvWakes
  <2> QED BY <2>1, <2>2
<1>6. Tasks'
  BY <1>1 DEF Tasks, RecvWakes, Pop, Verdict
<1>7. Callers'
  <2>1. got' \in [Side -> Seq(Nat)]
    <3>1. CASE woken[s]
      <4>1. Pop(s) /\ messages[s] # <<>>
        BY <3>1 DEF RecvWakes, IndInv, Accounted
      <4> QED BY <1>1, <4>1, PopType
    <3>2. CASE ~(woken[s])
      BY <1>1, <3>2 DEF Callers, RecvWakes
    <3> QED BY <3>1, <3>2
  <2>2. /\ recv' \in [Side -> {"never", "idle", "waiting", "ensuring", "ok", "error"}]
        /\ woken' \in [Side -> BOOLEAN]
    BY <1>1 DEF Callers, RecvWakes, Verdict
  <2> QED BY <1>1, <2>1, <2>2 DEF Callers, RecvWakes
<1>8. TypeOK'
  BY <1>2, <1>3, <1>4, <1>5, <1>6, <1>7, TypeKept
<1>9. Rests(Peer(s))
  BY SMTT(30), <1>1, Ends DEF Rests, TypeOK, RecvWakes, Pop, Verdict
<1>10. Outgoing(s)
  BY <1>1 DEF Outgoing, Silent, TypeOK, RecvWakes, Pop, Verdict
<1>11. Incoming(s)
  <2>0. ~woken'[s] /\ wire' = wire /\ Deaf(s) /\ transfer' = transfer /\ inhand' = inhand
    BY <1>1 DEF RecvWakes, Deaf, network, handshake, Callers
  <2>1. CASE woken[s]
    <3>1. Pop(s) /\ messages[s] # <<>> /\ recv'[s] = "idle"
      BY <1>1, <2>1 DEF RecvWakes, IndInv, Accounted, Callers
    <3>2. messages'[s] = Tail(messages[s]) /\ got'[s] = Append(got[s], Head(messages[s]))
      BY <1>1, <3>1 DEF Pop, Queues, Callers
    <3>3. Takes(s)
      BY <2>0, <3>1, <3>2 DEF Takes
    <3> QED BY <3>3 DEF Incoming
  <2>2. CASE ~(woken[s])
    <3>1. /\ messages' = messages /\ got' = got /\ recv[s] = "waiting" /\ transfer[s] = "done"
          /\ recv'[s] \in {"ensuring", "ok", "error"}
          /\ recv'[s] = "ok" => close_rcvd[s] # None
      BY <1>1, <2>2 DEF RecvWakes, Callers, Verdict, OkCode, None
    <3>2. Goes(s)
      BY <2>0, <2>2, <3>1 DEF Goes
    <3> QED BY <3>2 DEF Incoming
  <2> QED BY <2>1, <2>2
<1>12. WaitsAt(s)'
  <2>1. Lasts(s)
    BY <1>1 DEF Lasts, TypeOK, RecvWakes, Pop, Verdict
  <2> QED BY <1>1, <2>1, LastsKeep
<1> QED BY <1>8, <1>9, <1>10, <1>11, <1>12 DEF Effect

\* A frame is read: a message, one that is too big, a ping, a pong or a close frame.
LEMMA ReadStep ==
  ASSUME IndInv, NEW s \in Side, Read(s)
  PROVE  TypeOK' /\ Effect(s) /\ WaitsAt(s)'
<1> DEFINE p == Peer(s)
           w == wire[p]
           f == Head(w)
           rest == [wire EXCEPT ![p] = Tail(@)]
<1>1. TypeOK /\ Waiting /\ Networks /\ Wires /\ Handshakes /\ Queues /\ Tasks /\ Callers
  BY TypeParts DEF IndInv
<1>2. p \in Side /\ p # s /\ Peer(p) = s /\ s # p
  BY Ends
<1>3. /\ transfer[s] = "reading" /\ w # <<>>
      /\ UNCHANGED <<tcp, eof, broken, aborted, resets, keepalive, closer, recv, send, close, unsent, waits, written, got>>
  BY DEF Read
<1>4. \/ /\ f.op = "data" /\ ReadData(s, f.n) /\ wire' = rest /\ UNCHANGED <<handshake, pings>>
      \/ /\ f.op = "data" /\ transfer' = [transfer EXCEPT ![s] = "done"]
         /\ IF state[s] = "OPEN"
            THEN StartClosing(s, TooBigCode) /\ wire' = Plus(rest, s, CloseFrame(TooBigCode))
            ELSE UNCHANGED <<state, close_sent>> /\ wire' = rest
         /\ UNCHANGED <<close_rcvd, close_rcvd_then_sent, messages, inhand, woken, pings>>
      \/ /\ f.op = "ping"
         /\ IF state[s] = "OPEN"
            THEN /\ wire' = Plus(rest, s, Pong)
                 /\ transfer' = [transfer EXCEPT ![s] = IF Suspends(s, wire') THEN "answering" ELSE @]
            ELSE UNCHANGED transfer /\ wire' = rest
         /\ UNCHANGED <<handshake, messages, inhand, woken, pings>>
      \/ /\ f.op = "pong" /\ pings' = [pings EXCEPT ![s] = FALSE] /\ wire' = rest
         /\ UNCHANGED <<handshake, received, woken>>
      \/ /\ f.op = "close" /\ ReadClose(s, f.n, rest)
         /\ UNCHANGED <<messages, inhand, woken, pings>>
  BY DEF Read
<1>5. f \in Frame /\ w \in Seq(Frame) /\ rest \in [Side -> Seq(Frame)] /\ rest[p] = Tail(w) /\ rest[s] = wire[s]
  BY <1>1, <1>2, <1>3, RestType DEF Wires
<1>6. /\ f.op = "data" => f.n \in Nat
      /\ f.op = "close" => f.n \in Code /\ f.n # None
  BY <1>5, FrameKinds
<1>7. tcp[s] = "lost" <=> state[s] = "CLOSED"
  BY DEF IndInv, Shaking, Lost
<1>8. (close_rcvd[s] = None) /\ (state[s] = "OPEN" => close_sent[s] = None)
  BY <1>3 DEF IndInv, Shaking, Accounted
<1> HIDE DEF rest, f, w, p
<1>9. ASSUME NEW g \in Frame, state[s] = "OPEN"
      PROVE  LET v == Plus(rest, s, g)
             IN v \in [Side -> Seq(Frame)] /\ v[p] = Tail(w) /\ v[s] = Append(wire[s], g)
  <2>1. Plus(rest, s, g) = [rest EXCEPT ![s] = Append(rest[s], g)]
    BY <1>7, <1>9 DEF Plus, Lost
  <2>2. Append(wire[s], g) \in Seq(Frame)
    BY <1>1, Joined DEF Wires
  <2> QED BY <1>2, <1>5, <2>1, <2>2
<1>10. WaitsAt(s)'
  <2>1. Lasts(s)
    BY <1>3 DEF Lasts
  <2> QED BY <1>1, <2>1, LastsKeep
<1>11. Networks'
  BY <1>1, <1>3 DEF Networks
<1>12. ASSUME messages'[p] = messages[p], transfer'[p] = transfer[p], inhand'[p] = inhand[p], woken'[p] <=> woken[p],
              state'[p] = state[p], close_sent'[p] = close_sent[p], close_rcvd'[p] = close_rcvd[p],
              close_rcvd_then_sent'[p] = close_rcvd_then_sent[p]
       PROVE  Rests(p)
  BY <1>3, <1>12 DEF Rests
<1>13. CASE /\ f.op = "data" /\ ReadData(s, f.n) /\ wire' = rest /\ UNCHANGED <<handshake, pings>>
  <2>1. Wires' /\ Handshakes' /\ wire'[p] = Tail(w)
    BY <1>1, <1>5, <1>13 DEF Wires, Handshakes, handshake
  <2>2. Silent(s) /\ Deaf(s)
    BY <1>3, <1>5, <1>13 DEF Silent, Deaf, handshake
  <2>3. CASE Len(messages[s]) < MaxQueue
    <3>1. Enqueue(s, f.n) /\ UNCHANGED <<transfer, inhand>>
      BY <1>13, <2>3 DEF ReadData
    <3>2. Queues'
      BY <1>1, <1>6, <1>13, <2>3, <3>1, EnqueueType
    <3>3. Tasks' /\ Callers'
      BY <1>1, <1>3, <1>13, <3>1 DEF Tasks, Callers, Enqueue
    <3>4. woken'[s] = (recv[s] = "waiting") /\ woken'[p] = woken[p]
      BY <1>1, <1>2, <3>1 DEF Callers, Enqueue
    <3>5. messages'[s] = Append(messages[s], f.n) /\ messages'[p] = messages[p]
      BY <1>1, <1>2, <3>1 DEF Queues, Enqueue
    <3>6. Rests(p)
      BY <1>3, <1>12, <1>13, <3>1, <3>4, <3>5 DEF handshake
    <3>7. Reads(s)
      BY <1>3, <1>13, <2>1, <2>2, <3>1, <3>4, <3>5 DEF Reads, p, w, f
    <3>8. TypeOK'
      BY <1>11, <2>1, <3>2, <3>3, TypeKept
    <3> QED BY <1>10, <2>2, <3>6, <3>7, <3>8 DEF Effect, Outgoing, Incoming, p
  <2>4. CASE ~(Len(messages[s]) < MaxQueue)
    <3>1. /\ transfer' = [transfer EXCEPT ![s] = "full"] /\ inhand' = [inhand EXCEPT ![s] = f.n]
          /\ UNCHANGED <<messages, woken>>
      BY <1>13, <2>4 DEF ReadData
    <3>2. Queues' /\ Tasks' /\ Callers'
      BY <1>1, <1>3, <1>6, <1>13, <3>1 DEF Queues, Tasks, Callers
    <3>3. Rests(p)
      BY <1>1, <1>2, <1>3, <1>12, <1>13, <3>1 DEF handshake, Tasks
    <3>4. Reads(s)
      BY <1>1, <1>3, <1>13, <2>1, <2>2, <3>1 DEF Reads, p, w, f, Tasks
    <3>5. TypeOK'
      BY <1>11, <2>1, <3>2, TypeKept
    <3> QED BY <1>10, <2>2, <3>3, <3>4, <3>5 DEF Effect, Outgoing, Incoming, p
  <2> QED BY <2>3, <2>4
<1>14. CASE /\ f.op = "data" /\ transfer' = [transfer EXCEPT ![s] = "done"]
            /\ IF state[s] = "OPEN"
               THEN StartClosing(s, TooBigCode) /\ wire' = Plus(rest, s, CloseFrame(TooBigCode))
               ELSE UNCHANGED <<state, close_sent>> /\ wire' = rest
            /\ UNCHANGED <<close_rcvd, close_rcvd_then_sent, messages, inhand, woken, pings>>
  <2>1. /\ CloseFrame(TooBigCode) \in Frame /\ CloseFrame(TooBigCode).op = "close" /\ TooBigCode \in Code
        /\ CloseFrame(TooBigCode).n = TooBigCode
    BY FrameKinds, Codes
  <2>2. Wires' /\ wire'[p] = Tail(w)
    BY <1>5, <1>9, <1>14, <2>1 DEF Wires
  <2>3. Handshakes' /\ Queues' /\ Tasks' /\ Callers'
    <3>1. Handshakes'
      BY <1>1, <1>14, <2>1 DEF Handshakes, StartClosing
    <3>2. Queues' /\ Tasks' /\ Callers'
      BY <1>1, <1>3, <1>14 DEF Queues, Tasks, Callers
    <3> QED BY <3>1, <3>2
  <2>4. Outgoing(s)
    <3>1. CASE state[s] = "OPEN"
      <4>1. Writes(s, CloseFrame(TooBigCode))
        BY <1>1, <1>3, <1>9, <1>14, <2>1, <3>1 DEF Writes, StartClosing, Handshakes
      <4> QED BY <2>1, <4>1 DEF Outgoing
    <3>2. CASE state[s] # "OPEN"
      BY <1>3, <1>5, <1>14, <3>2 DEF Outgoing, Silent
    <3> QED BY <3>1, <3>2
  <2>5. Rests(p)
    BY <1>1, <1>2, <1>3, <1>12, <1>14 DEF Tasks, Handshakes, StartClosing
  <2>6. Reads(s)
    BY <1>1, <1>3, <1>14, <2>2 DEF Reads, Deaf, p, w, f, Tasks
  <2>7. TypeOK'
    BY <1>11, <2>2, <2>3, TypeKept
  <2> QED BY <1>10, <2>4, <2>5, <2>6, <2>7 DEF Effect, Incoming, p
<1>15. CASE /\ f.op = "ping"
            /\ IF state[s] = "OPEN"
               THEN /\ wire' = Plus(rest, s, Pong)
                    /\ transfer' = [transfer EXCEPT ![s] = IF Suspends(s, wire') THEN "answering" ELSE @]
               ELSE UNCHANGED transfer /\ wire' = rest
            /\ UNCHANGED <<handshake, messages, inhand, woken, pings>>
  <2>1. Pong \in Frame /\ Pong.op = "pong"
    BY FrameKinds
  <2>2. Wires' /\ wire'[p] = Tail(w)
    BY <1>5, <1>9, <1>15, <2>1 DEF Wires
  <2>3. /\ transfer' \in [Side -> {"reading", "answering", "echoing", "full", "cancelled", "done"}]
        /\ transfer'[s] \in {"reading", "answering"} /\ transfer'[p] = transfer[p]
    BY <1>1, <1>2, <1>3, <1>15 DEF Tasks
  <2>4. Handshakes' /\ Queues' /\ Tasks' /\ Callers'
    BY <1>1, <1>3, <1>15, <2>3 DEF Handshakes, Queues, Tasks, Callers, handshake
  <2>5. Outgoing(s)
    <3>1. CASE state[s] = "OPEN"
      <4>1. Writes(s, Pong)
        BY <1>3, <1>9, <1>15, <2>1, <3>1 DEF Writes, handshake
      <4> QED BY <2>1, <4>1 DEF Outgoing
    <3>2. CASE state[s] # "OPEN"
      BY <1>3, <1>5, <1>15, <3>2 DEF Outgoing, Silent, handshake
    <3> QED BY <3>1, <3>2
  <2>6. Rests(p)
    BY <1>3, <1>12, <1>15, <2>3 DEF handshake
  <2>7. Reads(s)
    BY <1>3, <1>15, <2>2, <2>3 DEF Reads, Deaf, p, w, f, handshake
  <2>8. TypeOK'
    BY <1>11, <2>2, <2>4, TypeKept
  <2> QED BY <1>10, <2>5, <2>6, <2>7, <2>8 DEF Effect, Incoming, p
<1>16. CASE /\ f.op = "pong" /\ pings' = [pings EXCEPT ![s] = FALSE] /\ wire' = rest
            /\ UNCHANGED <<handshake, received, woken>>
  <2>1. Wires' /\ wire'[p] = Tail(w)
    BY <1>5, <1>16 DEF Wires
  <2>2. Handshakes' /\ Queues' /\ Tasks' /\ Callers'
    BY <1>1, <1>3, <1>16 DEF Handshakes, Queues, Tasks, Callers, handshake, received
  <2>3. Silent(s)
    BY <1>3, <1>5, <1>16 DEF Silent, handshake
  <2>4. Rests(p)
    BY <1>3, <1>12, <1>16 DEF handshake, received
  <2>5. Reads(s)
    BY <1>3, <1>16, <2>1 DEF Reads, Deaf, p, w, f, handshake, received
  <2>6. TypeOK'
    BY <1>11, <2>1, <2>2, TypeKept
  <2> QED BY <1>10, <2>3, <2>4, <2>5, <2>6 DEF Effect, Outgoing, Incoming, p
<1>17. CASE /\ f.op = "close" /\ ReadClose(s, f.n, rest)
            /\ UNCHANGED <<messages, inhand, woken, pings>>
  <2>1. CloseFrame(f.n) \in Frame /\ CloseFrame(f.n).op = "close" /\ CloseFrame(f.n).n = f.n /\ f.n \in Code
    BY <1>6, <1>17, FrameKinds
  <2>2. Wires' /\ wire'[p] = Tail(w)
    BY <1>5, <1>9, <1>17, <2>1 DEF Wires, ReadClose
  <2>3. /\ transfer' \in [Side -> {"reading", "answering", "echoing", "full", "cancelled", "done"}]
        /\ transfer'[s] \in {"echoing", "done"} /\ transfer'[p] = transfer[p]
    BY <1>1, <1>2, <1>17 DEF Tasks, ReadClose
  <2>4. Handshakes'
    BY <1>1, <1>17, <2>1 DEF Handshakes, ReadClose, StartClosing
  <2>5. Queues' /\ Tasks' /\ Callers'
    BY <1>1, <1>3, <1>17, <2>3 DEF Queues, Tasks, Callers
  <2>6. Outgoing(s)
    <3>1. CASE state[s] = "OPEN"
      <4>1. Writes(s, CloseFrame(f.n))
        BY <1>1, <1>3, <1>9, <1>17, <2>1, <3>1 DEF Writes, ReadClose, StartClosing, Handshakes
      <4> QED BY <2>1, <4>1 DEF Outgoing
    <3>2. CASE state[s] # "OPEN"
      BY <1>3, <1>5, <1>17, <3>2 DEF Outgoing, Silent, ReadClose
    <3> QED BY <3>1, <3>2
  <2>7. /\ state'[p] = state[p] /\ close_sent'[p] = close_sent[p] /\ close_rcvd'[p] = close_rcvd[p]
        /\ close_rcvd_then_sent'[p] = close_rcvd_then_sent[p]
    BY <1>1, <1>2, <1>17 DEF Handshakes, ReadClose, StartClosing
  <2>8. Rests(p)
    BY <1>3, <1>12, <1>17, <2>3, <2>7
  <2>9. /\ close_rcvd'[s] = f.n
        /\ close_rcvd_then_sent'[s] =
             IF state[s] = "OPEN" THEN "yes" ELSE IF close_sent[s] # None THEN "no" ELSE close_rcvd_then_sent[s]
        /\ state[s] = "OPEN" => close_sent'[s] = f.n
    BY <1>1, <1>17 DEF Handshakes, ReadClose, StartClosing
  <2>10. Reads(s)
    BY <1>3, <1>6, <1>17, <2>2, <2>3, <2>9 DEF Reads, p, w, f
  <2>11. TypeOK'
    BY <1>11, <2>2, <2>4, <2>5, TypeKept
  <2> QED BY <1>10, <2>6, <2>8, <2>10, <2>11 DEF Effect, Incoming, p
<1> QED BY <1>4, <1>13, <1>14, <1>15, <1>16, <1>17

-----------------------------------------------------------------------------
(* The theorems.                                                           *)

\* Nothing is under way at first.
LEMMA Begins == Init => IndInv
<1> SUFFICES ASSUME Init PROVE IndInv
  OBVIOUS
<1>1. PICK a \in Application :
        /\ keepalive = [s \in Side |-> IF s \in a.pings THEN "sleeping" ELSE "off"]
        /\ recv = [s \in Side |-> IF s \in a.receives THEN "idle" ELSE "never"]
        /\ close = [s \in Side |-> IF s \in a.closes THEN "idle" ELSE "never"]
        /\ unsent = a.sends
        /\ resets = a.resets
  BY DEF Init
<1>2. a.sends \in [Side -> Nat] /\ a.resets \in Nat
  BY BoundAssumption
<1>3. <<>> \in Seq(Frame) /\ <<>> \in Seq(Nat) /\ Len(<<>>) = 0 /\ DOMAIN <<>> = {}
  OBVIOUS
<1>4. /\ \A s \in Side : /\ wire[s] = <<>> /\ tcp[s] = "up" /\ state[s] = "OPEN"
                         /\ close_rcvd[s] = None /\ close_sent[s] = None /\ close_rcvd_then_sent[s] = "unset"
                         /\ messages[s] = <<>> /\ got[s] = <<>> /\ written[s] = 0 /\ waits[s] = 0
                         /\ transfer[s] = "reading" /\ closer[s] = "transfer" /\ ~woken[s]
                         /\ recv[s] \in {"idle", "never"}
  BY <1>1 DEF Init
<1>5. TypeOK
  <2>1. Networks /\ Handshakes
    BY <1>1, <1>2 DEF Init, Networks, Handshakes
  <2>2. Wires /\ Queues
    BY <1>3, LimitAssumption DEF Init, Wires, Queues
  <2>3. Tasks
    BY <1>1 DEF Init, Tasks, None
  <2>4. Callers
    BY <1>1, <1>2, <1>3 DEF Init, Callers
  <2> QED BY <2>1, <2>2, <2>3, <2>4, TypeParts
<1>6. Shaking /\ OneAnswers
  BY <1>4 DEF Shaking, OneAnswers, Lost, Side
<1>7. OneCloseFrame
  BY <1>3, <1>4 DEF OneCloseFrame, HasClose
<1>8. Waiting
  BY <1>4 DEF Waiting, CloseUsed, CloserUsed, Side
<1>9. InOrder
  <2>1. ASSUME NEW s \in Side PROVE Delivered(s) = 0
    <3>1. Len(got[s]) = 0 /\ Len(messages[s]) = 0 /\ transfer[s] = "reading"
      BY <1>3, <1>4
    <3> QED BY <1>5, <3>1 DEF Delivered, TypeOK
  <2>2. \A s \in Side : Ordered(wire[Peer(s)], 0) /\ Complete(wire[Peer(s)], 0, written[Peer(s)])
    BY <1>3, <1>4, Ends DEF Ordered, Complete
  <2> QED BY <1>3, <1>4, <2>1, <2>2 DEF InOrder
<1>10. Accounted
  BY <1>4 DEF Accounted
<1> QED BY <1>5, <1>6, <1>7, <1>8, <1>9, <1>10 DEF IndInv

\* What is shown of a step is enough.
LEMMA IndKept ==
  ASSUME IndInv, NEW s \in Side, TypeOK', Effect(s), WaitsAt(s)'
  PROVE  IndInv'
<1>1. Shaking' /\ OneCloseFrame' /\ OneAnswers'
  BY HandshakeKept DEF IndInv
<1>2. Waiting'
  BY WaitingKept DEF IndInv, Effect
<1>3. InOrder' /\ Accounted'
  BY DataKept DEF IndInv
<1> QED BY <1>1, <1>2, <1>3 DEF IndInv

\* Every step keeps the inductive invariant.
LEMMA StepKeeps == IndInv /\ [Next]_vars => IndInv'
<1> SUFFICES ASSUME IndInv, [Next]_vars PROVE IndInv'
  OBVIOUS
<1>1. CASE UNCHANGED vars
  <2>1. TypeOK' /\ Shaking' /\ OneCloseFrame' /\ OneAnswers'
    BY SMTT(30), <1>1 DEF IndInv, TypeOK, Shaking, OneCloseFrame, OneAnswers, HasClose, Lost,
                vars, network, handshake, received, calls
  <2>2. Waiting'
    BY <1>1 DEF IndInv, Waiting, CloseUsed, CloserUsed, vars, network, handshake, received, calls
  <2>3. InOrder' /\ Accounted'
    BY <1>1 DEF IndInv, InOrder, Accounted, Delivered, HasClose, Lost, vars, network, handshake,
                received, calls
  <2> QED BY <2>1, <2>2, <2>3 DEF IndInv
<1>2. CASE Next
  <2>1. PICK s \in Side : Read(s) \/ EventLoop(s) \/ Receiving(s) \/ Calls(s) \/ Network(s)
    BY <1>2 DEF Next
  <2>2. CASE Read(s)
    BY <2>2, ReadStep, IndKept
  <2>3. CASE EventLoop(s)
    <3>1. CASE ReadError(s) \/ RoomAgain(s) \/ Answered(s) \/ Cancelled(s)
      BY <3>1, ReadErrorStep, RoomAgainStep, AnsweredStep, CancelledStep, IndKept
    <3>2. CASE SendPing(s) \/ PingDrained(s) \/ PongReceived(s) \/ PongTimeout(s)
      BY <3>2, SendPingStep, PingDrainedStep, PongReceivedStep, PongTimeoutStep, IndKept
    <3>3. CASE TransferOver(s) \/ LostInTime(s) \/ TcpTimeout(s) \/ HalfTimeout(s) \/ CloseTimeout(s)
      BY <3>3, TransferOverStep, LostInTimeStep, TcpTimeoutStep, HalfTimeoutStep, CloseTimeoutStep,
         IndKept
    <3>4. CASE CloseDrained(s) \/ WriteTimeout(s) \/ TransferTimeout(s) \/ CloseReturns(s)
      BY <3>4, CloseDrainedStep, WriteTimeoutStep, TransferTimeoutStep, CloseReturnsStep, IndKept
    <3> QED BY <2>3, <3>1, <3>2, <3>3, <3>4 DEF EventLoop
  <2>4. CASE Receiving(s)
    BY <2>4, RecvWakesStep, RecvRaisesStep, IndKept DEF Receiving
  <2>5. CASE Calls(s)
    BY <2>5, RecvStep, RecvCancelledStep, SendStep, SendReturnsStep, CloseStep, IndKept DEF Calls
  <2>6. CASE Network(s)
    BY <2>6, PeerEofStep, FlushedStep, ResetStep, IndKept DEF Network
  <2> QED BY <2>1, <2>2, <2>3, <2>4, <2>5, <2>6
<1> QED BY <1>1, <1>2

\* Closing takes few timeouts, and who gets a normal end got everything.
LEMMA LinkFollows == IndInv => LinkInv
<1> SUFFICES ASSUME IndInv PROVE LinkInv
  OBVIOUS
<1>1. TypeOK /\ OneCloseFrame /\ OneAnswers /\ Waiting /\ Accounted
  BY DEF IndInv
<1>2. CloseBounded
  <2> SUFFICES ASSUME NEW s \in Side PROVE waits[s] <= IF s = "client" THEN 4 ELSE 3
    BY DEF CloseBounded
  <2>1. WaitsAt(s)
    BY <1>1, WaitParts
  <2> QED BY <1>1, <2>1, UsedType DEF WaitsAt
<1>3. OkMeansAll
  <2> SUFFICES ASSUME NEW s \in Side, recv[s] = "ok" PROVE Len(got[s]) = written[Peer(s)]
    BY DEF OkMeansAll
  <2>1. messages[s] = <<>> /\ Len(got[s]) + Len(messages[s]) = written[Peer(s)]
    BY <1>1 DEF Accounted
  <2>2. Len(messages[s]) = 0
    BY <2>1
  <2> QED BY <1>1, <2>1, <2>2, DeliveredType DEF TypeOK
<1> QED BY <1>1, <1>2, <1>3 DEF LinkInv

\* Numbers that go on from those before them.
LEMMA JoinCounts ==
  ASSUME NEW a \in Seq(Nat), NEW b \in Seq(Nat),
         \A i \in DOMAIN a : a[i] = i, \A i \in DOMAIN b : b[i] = Len(a) + i
  PROVE  /\ a \o b \in Seq(Nat) /\ Len(a \o b) = Len(a) + Len(b) /\ Len(a) \in Nat /\ Len(b) \in Nat
         /\ \A i \in DOMAIN (a \o b) : (a \o b)[i] = i
<1> DEFINE c == a \o b
<1>1. /\ c \in Seq(Nat) /\ Len(c) = Len(a) + Len(b)
      /\ \A i \in 1..Len(a) + Len(b) : c[i] = IF i <= Len(a) THEN a[i] ELSE b[i - Len(a)]
  BY ConcatProperties
<1>2. /\ Len(a) \in Nat /\ Len(b) \in Nat /\ DOMAIN a = 1..Len(a) /\ DOMAIN b = 1..Len(b)
  BY LenProperties
<1>3. DOMAIN c = 1..Len(a) + Len(b)
  BY <1>1, LenProperties
<1> HIDE DEF c
<1>4. ASSUME NEW i \in DOMAIN c PROVE c[i] = i
  <2>1. CASE i <= Len(a)
    BY <1>1, <1>2, <1>3, <2>1
  <2>2. CASE ~(i <= Len(a))
    <3>1. i - Len(a) \in DOMAIN b /\ c[i] = b[i - Len(a)]
      BY <1>1, <1>2, <1>3, <2>2
    <3> QED BY <1>2, <1>3, <3>1
  <2> QED BY <2>1, <2>2
<1> QED BY <1>1, <1>2, <1>4 DEF c

\* What was received is a beginning of what was sent.
LEMMA GapFollows == IndInv => NoGap
<1> SUFFICES ASSUME IndInv, NEW s \in Side
             PROVE  LET all == got[s] \o messages[s] \o IF transfer[s] = "full" THEN <<inhand[s]>> ELSE <<>>
                    IN all = [i \in 1..Len(all) |-> i]
  BY DEF NoGap
<1> DEFINE g == got[s]
           m == messages[s]
           e == inhand[s]
           h == IF transfer[s] = "full" THEN <<e>> ELSE <<>>
           gm == g \o m
           all == gm \o h
<1>1. g \in Seq(Nat) /\ m \in Seq(Nat) /\ e \in Nat
  BY DEF IndInv, TypeOK
<1>2. /\ \A i \in DOMAIN g : g[i] = i
      /\ \A i \in DOMAIN m : m[i] = Len(g) + i
      /\ transfer[s] = "full" => e = Len(g) + Len(m) + 1
  BY DEF IndInv, InOrder
<1> HIDE DEF g, m, e
<1>3. gm \in Seq(Nat) /\ Len(gm) = Len(g) + Len(m) /\ \A i \in DOMAIN gm : gm[i] = i
  BY <1>1, <1>2, JoinCounts
<1> HIDE DEF gm
<1>4. h \in Seq(Nat) /\ \A i \in DOMAIN h : h[i] = Len(gm) + i
  <2>1. CASE transfer[s] = "full"
    <3>1. e = Len(gm) + 1
      BY <1>2, <1>3, <2>1
    <3>2. h = <<e>>
      BY <2>1
    <3>3. <<e>> \in Seq(Nat) /\ DOMAIN <<e>> = 1..1 /\ <<e>>[1] = e
      BY <1>1
    <3>4. \A i \in 1..1 : i = 1
      OBVIOUS
    <3> QED BY <3>1, <3>2, <3>3, <3>4
  <2>2. CASE transfer[s] # "full"
    BY <2>2
  <2> QED BY <2>1, <2>2
<1> HIDE DEF h
<1>5. all \in Seq(Nat) /\ \A i \in DOMAIN all : all[i] = i
  BY <1>3, <1>4, JoinCounts
<1> HIDE DEF all
<1>6. all = [i \in 1..Len(all) |-> i]
  BY <1>5, LenProperties
<1> QED BY <1>6 DEF all, gm, g, m, h, e

\* The inductive invariant of the connection: the handshake, the time that closing
\* takes, and the place of every message.
THEOREM Inductive == Spec => []IndInv
<1> QED BY Begins, StepKeeps, PTL DEF Spec

\* Closing is one handshake, whichever of the application, the keepalive task and the data
\* transfer starts it: each end writes one close frame, at most one of them answers, close()
\* takes a bounded number of timeouts, and ConnectionClosedOK means everything was received.
THEOREM ClosesOnce == Spec => []LinkInv
<1> QED BY Inductive, LinkFollows, PTL

\* recv returns what the other end sent, in order and without a gap, whatever is cancelled,
\* however full the queue was and whenever the connection ends.
THEOREM ReceivesInOrder == Spec => []NoGap
<1> QED BY Inductive, GapFollows, PTL

=============================================================================
