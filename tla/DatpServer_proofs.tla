-------------------------- MODULE DatpServer_proofs --------------------------
(***************************************************************************)
(* Proofs about DatpServer for every set of devices, connections and HTTP  *)
(* callers, and every bound: the inductive invariant IndInv, the safety    *)
(* properties it implies, and the refinement of DeviceOwnership.           *)
(***************************************************************************)
EXTENDS DatpServer, SequenceTheorems, TLAPS

LEMMA TaskFacts ==
  /\ Conn \subseteq Task
  /\ Caller \subseteq Task
  /\ \A t \in Task : t \in Conn \/ t \in Caller
  /\ \A t \in Conn : t \notin Caller
  /\ None \notin Task /\ None \notin Conn
  /\ None \notin Device
BY ConnAssumption, DeviceAssumption DEF Task

\* What Resolve returns is always offered.
LEMMA ResolveChoice == \A r : Resolve(r) \in Choice
BY ChoiceAssumption DEF Resolve

\* Removing a job from the pool's queue leaves a queue of jobs.
LEMMA JobsButType ==
  ASSUME jobs \in Seq(Job), NEW i \in 1..Len(jobs)
  PROVE  JobsBut(i) \in Seq(Job)
<1>1. SubSeq(jobs, 1, i - 1) \in Seq(Job)
  BY SubSeqProperties
<1>2. SubSeq(jobs, i + 1, Len(jobs)) \in Seq(Job)
  BY SubSeqProperties
<1>3. QED BY <1>1, <1>2, ConcatProperties DEF JobsBut

LEMMA JobTasks ==
  ASSUME jobs \in Seq(Job)
  PROVE  \A i \in 1..Len(jobs) : /\ jobs[i].task \in Conn
                                 /\ jobs[i].dev \in Device
                                 /\ jobs[i].session \in 0..MaxSession
<1>1. \A i \in 1..Len(jobs) : jobs[i] \in Job
  BY ElementOfSeq
<1>2. QED BY <1>1 DEF Job

\* What the other tasks see of a lock queue: nobody else loses a lock.
LocksKept(t) ==
  /\ lockq' \in [Device -> Seq(Task)]
  /\ \A u \in Task, d \in Device : u # t /\ Holds(u, d) => Holds(u, d)'

LEMMA AcquireKeeps ==
  ASSUME TypeOK, NEW t \in Task, NEW d \in Device, Acquire(t, d)
  PROVE  LocksKept(t)
<1>1. lockq' \in [Device -> Seq(Task)]
  BY AppendProperties DEF TypeOK, Acquire
<1>2. ASSUME NEW u \in Task, NEW x \in Device, Holds(u, x) PROVE Holds(u, x)'
  BY <1>2, AppendProperties DEF TypeOK, Acquire, Holds
<1>3. QED BY <1>1, <1>2 DEF LocksKept

LEMMA ReleaseKeeps ==
  ASSUME TypeOK, NEW t \in Task, NEW d \in Device, Holds(t, d), Release(t, d)
  PROVE  LocksKept(t)
<1>1. lockq' \in [Device -> Seq(Task)]
  BY DEF TypeOK, Release, Holds
<1>2. ASSUME NEW u \in Task, NEW x \in Device, Holds(u, x), u # t
      PROVE Holds(u, x)'
  <2>1. x # d  BY <1>2 DEF Holds
  <2>2. QED BY <2>1, <1>2 DEF TypeOK, Release, Holds
<1>3. QED BY <1>1, <1>2 DEF LocksKept

LEMMA UnchangedKeeps ==
  ASSUME TypeOK, NEW t \in Task, UNCHANGED lockq
  PROVE  LocksKept(t)
BY DEF TypeOK, LocksKept, Holds

\* One task moves, to a place where it need not hold a lock.
LEMMA OthersKeepLocks ==
  ASSUME IndInv, NEW t \in Task, LocksKept(t), pc'[t] \notin Critical,
         \A u \in Task : u # t => pc'[u] = pc[u] /\ dev'[u] = dev[u]
  PROVE  LockDiscipline'
<1>1. SUFFICES ASSUME NEW u \in Task, pc'[u] \in Critical
               PROVE  Holds(u, dev[u])' 
  BY DEF LockDiscipline
<1>2. u # t /\ pc'[u] = pc[u] /\ dev'[u] = dev[u]
  BY <1>1
<1>3. Holds(u, dev[u]) /\ dev[u] \in Device
  BY <1>1, <1>2 DEF IndInv, LockDiscipline, InCall
<1>4. QED
  BY <1>2, <1>3 DEF LocksKept, Holds

-----------------------------------------------------------------------------
(* A call that ends.                                                       *)

\* No connection is settled by the step, and only that of t may cease to be.
Renamed(t) ==
  /\ settled' \in [Conn -> Device \cup {None}]
  /\ \A x \in Conn : settled'[x] \in {settled[x], None}
  /\ \A x \in Conn : x # t => settled'[x] = settled[x]

LEMMA NamesRenames ==
  ASSUME TypeOK, NEW c \in Conn, NEW id \in Device \cup {None}, Names(c, id)
  PROVE  /\ Renamed(c)
         /\ settled'[c] \in {id, None}
BY DEF TypeOK, Names, Renamed

LEMMA UnchangedRenames ==
  ASSUME TypeOK, NEW t \in Task, UNCHANGED settled
  PROVE  Renamed(t)
BY DEF TypeOK, Renamed

\* The finally block keeps the invariant, wherever in _dispatch the connection
\* broke off.
LEMMA FinalizeKeeps ==
  ASSUME IndInv, NEW c \in Conn,
         pc[c] \in {"recv", "helloLock", "sendAck", "updateLock", "refuse"},
         ws[c] = "closed", Finalize(c), LocksKept(c), Renamed(c),
         UNCHANGED <<stopping, issued, row, jobs, ws, told>>
  PROVE  IndInv'
<1> USE TaskFacts DEF IndInv
<1> DEFINE gone == {d \in Device : d = device_id[c] /\ Owns(c, d)}
<1>1. /\ pc \in [Task -> ConnPC \cup CallerPC]
      /\ pc' = [pc EXCEPT ![c] = "done"]
  BY DEF TypeOK, Finalize
<1>2. /\ dev' = [dev EXCEPT ![c] = None]
      /\ conv' = [conv EXCEPT ![c] = None]
      /\ peer' = [peer EXCEPT ![c] = None]
      /\ sess' = [x \in Conn |-> IF x = c THEN 0 ELSE sess[x]]
      /\ dev \in [Task -> Device \cup {None}]
      /\ conv \in [Task -> Request]
      /\ peer \in [Task -> Conn \cup {None}]
      /\ sess \in [Conn -> 0..MaxSession]
  BY DEF TypeOK, Finalize, Forget
<1>3. /\ device_registry' = [d \in Device |->
           IF d \in gone THEN NoEntry ELSE device_registry[d]]
      /\ online' = [d \in Device |-> IF d \in gone THEN FALSE ELSE online[d]]
      /\ device_registry \in [Device -> Entry]
  BY DEF TypeOK, Finalize
<1>4. \A d \in Device : d \in gone => d = device_id[c] /\ device_registry[d].ws = c
  BY DEF Owns
<1>5. TypeOK'
  <2>1. device_registry' \in [Device -> Entry]
    BY <1>3, ChoiceAssumption, BoundAssumption DEF NoEntry, Entry
  <2>2. dev' \in [Task -> Device \cup {None}] /\ peer' \in [Task -> Conn \cup {None}]
    BY <1>2
  <2>3. conv' \in [Task -> Request] /\ sess' \in [Conn -> 0..MaxSession]
    BY <1>2, BoundAssumption DEF Request
  <2>4. pc' \in [Task -> ConnPC \cup CallerPC]
    BY <1>1 DEF ConnPC
  <2>5. online' \in [Device -> BOOLEAN]
    BY <1>3 DEF TypeOK
  <2>6. frames' \in [Conn -> 0..MaxFrames] /\ device_id' \in [Conn -> Device \cup {None}]
    BY BoundAssumption DEF TypeOK, Finalize
  <2>7. QED
    BY <2>1, <2>2, <2>3, <2>4, <2>5, <2>6 DEF TypeOK, LocksKept, Renamed
<1>6. LockDiscipline'
  BY ZenonT(60), <1>1, <1>2 DEF LockDiscipline, InCall, LocksKept, Holds, Critical
<1>7. InCall'
  BY <1>1, <1>2 DEF InCall, Critical
<1>8. ReplacingOld'
  BY <1>1, <1>2, <1>3 DEF ReplacingOld, InCall, NoEntry, Critical
<1>9. Acknowledging'
  BY <1>1, <1>2, <1>3, <1>4 DEF Acknowledging, InCall, Critical
<1>10. Notifying'
  BY <1>1, <1>2, <1>3, <1>4 DEF Notifying, InCall, NoEntry, Critical
<1>11. Submitted'
  <2>1. \A i \in 1..Len(jobs) : jobs[i].task \in Conn
    BY JobTasks DEF TypeOK
  <2>2. \A i \in 1..Len(jobs) : pc'[jobs[i].task] = "upsert"
    BY <1>1, <2>1 DEF Submitted
  <2>3. QED BY <2>2 DEF Submitted
<1>12. OneVoice'
  BY <1>3, <1>4 DEF OneVoice
<1>13. ToldUnlessSending'
  <2>1. SUFFICES ASSUME NEW d \in Device, device_registry'[d].ws # None,
                        ws[device_registry'[d].ws] = "open",
                        \A t \in Task : pc'[t] \in {"sendAck", "notify"} => dev'[t] # d
                 PROVE  LET e == device_registry'[d] IN
                        /\ told[e.ws][d].session = e.session
                        /\ told[e.ws][d].conv = e.conv
    BY DEF ToldUnlessSending
  <2>2. device_registry'[d] = device_registry[d] /\ device_registry[d].ws # c
    BY <1>3, <2>1 DEF NoEntry
  <2>3. \A t \in Task : pc[t] \in {"sendAck", "notify"} => dev[t] # d
    <3>1. pc[c] = "sendAck" => device_registry[dev[c]].ws = c
      BY DEF Acknowledging
    <3>2. pc[c] \in {"sendAck", "notify"} => dev[c] # d
      BY <2>2, <3>1
    <3>3. \A t \in Task \ {c} : pc'[t] = pc[t] /\ dev'[t] = dev[t]
      BY <1>1, <1>2
    <3>4. QED BY <2>1, <3>2, <3>3
  <2>4. QED BY <2>1, <2>2, <2>3 DEF ToldUnlessSending
<1>14. LeftBehind'
  BY <1>1, <1>3 DEF LeftBehind, Finalize, Owns, NoEntry, Entry
<1>15. Unused'
  BY <1>1, <1>3 DEF Unused, NoEntry
<1>16. Settling'
  BY <1>1, <1>2 DEF Settling, Renamed, Finalize
<1>17. QED
  BY <1>5, <1>6, <1>7, <1>8, <1>9, <1>10, <1>11, <1>12, <1>13, <1>14, <1>15, <1>16

\* A call that returns without ending the connection: what its task held is
\* released, and no other task notices.
CallEnds(t) ==
  /\ \E s \in {"recv", "idle"} : pc' = [pc EXCEPT ![t] = s]
  /\ Forget(t)
  /\ UNCHANGED device_registry
  /\ online' \in [Device -> BOOLEAN]
  /\ device_id' \in [Conn -> Device \cup {None}]
  /\ \A c \in Conn : c # t => device_id'[c] = device_id[c]
  /\ frames' \in [Conn -> 0..MaxFrames]
  /\ Renamed(t)
  /\ \A c \in Conn : c = t /\ settled'[c] # None => device_id'[c] = settled'[c]

LEMMA ReturnsEnds ==
  ASSUME TypeOK, NEW c \in Conn, NEW id \in Device \cup {None},
         NEW left \in 0..MaxFrames, Returns(c, id, left),
         Renamed(c), settled'[c] \in {id, None}
  PROVE  CallEnds(c)
BY DEF TypeOK, Returns, CallEnds

LEMMA CallReturnsEnds ==
  ASSUME TypeOK, NEW t \in Task, CallReturns(t), UNCHANGED settled
  PROVE  CallEnds(t)
BY TaskFacts, UnchangedRenames DEF TypeOK, CallReturns, CallEnds

\* During a call that names a device a settled connection is settled for it.
LEMMA SettledForCall ==
  ASSUME IndInv, NEW c \in Conn, dev[c] \in Device
  PROVE  settled[c] \in {dev[c], None}
BY TaskFacts DEF IndInv, Settling, TypeOK

LEMMA CallEndsKeeps ==
  ASSUME IndInv, NEW t \in Task,
         pc[t] \in {"recv", "helloLock", "updateLock", "refuse", "notify",
                   "upserted"},
         CallEnds(t), LocksKept(t), told' \in [Conn -> [Device -> Ack]],
         UNCHANGED <<stopping, issued, row, jobs, ws>>
  PROVE  /\ TypeOK' /\ LockDiscipline' /\ InCall' /\ ReplacingOld'
         /\ Acknowledging' /\ Notifying' /\ Submitted' /\ LeftBehind' /\ Settling'
         /\ \A c \in Conn : pc'[c] = "new" <=> pc[c] = "new"
<1> USE TaskFacts DEF IndInv
<1>1. /\ \E s \in {"recv", "idle"} : pc' = [pc EXCEPT ![t] = s]
      /\ device_registry' = device_registry
      /\ online' \in [Device -> BOOLEAN]
      /\ device_id' \in [Conn -> Device \cup {None}]
      /\ \A c \in Conn : c # t => device_id'[c] = device_id[c]
      /\ frames' \in [Conn -> 0..MaxFrames]
  BY DEF CallEnds
<1>2. Forget(t)
  BY DEF CallEnds
<1>3. /\ pc \in [Task -> ConnPC \cup CallerPC]
      /\ dev \in [Task -> Device \cup {None}]
      /\ conv \in [Task -> Request]
      /\ peer \in [Task -> Conn \cup {None}]
      /\ sess \in [Conn -> 0..MaxSession]
  BY DEF TypeOK
<1>4. \A u \in Task : u # t =>
        /\ pc'[u] = pc[u] /\ dev'[u] = dev[u]
        /\ peer'[u] = peer[u] /\ conv'[u] = conv[u]
  BY <1>1, <1>2, <1>3 DEF Forget
<1>5. \A c \in Conn : c # t => sess'[c] = sess[c]
  BY <1>2 DEF Forget
<1>6. pc'[t] \in {"recv", "idle"}
  BY <1>1, <1>3
<1>7. TypeOK'
  <2>1. pc' \in [Task -> ConnPC \cup CallerPC]
    BY <1>1, <1>3 DEF ConnPC, CallerPC
  <2>2. dev' \in [Task -> Device \cup {None}] /\ peer' \in [Task -> Conn \cup {None}]
    BY <1>2, <1>3 DEF Forget
  <2>3. conv' \in [Task -> Request] /\ sess' \in [Conn -> 0..MaxSession]
    BY <1>2, <1>3, BoundAssumption DEF Forget, Request
  <2>4. settled' \in [Conn -> Device \cup {None}]
    BY DEF CallEnds, Renamed
  <2>5. QED BY <1>1, <2>1, <2>2, <2>3, <2>4 DEF TypeOK, LocksKept
<1>8. LockDiscipline'
  BY <1>4, <1>6, OthersKeepLocks DEF Critical
<1>9. InCall'
  BY <1>4, <1>5, <1>6 DEF InCall, Critical
<1>10. ReplacingOld'
  BY <1>1, <1>4, <1>6 DEF ReplacingOld
<1>11. Acknowledging'
  BY <1>1, <1>4, <1>5, <1>6 DEF Acknowledging, Resolve
<1>12. Notifying'
  BY <1>1, <1>4, <1>6 DEF Notifying, Resolve
<1>13. Submitted'
  <2>1. \A i \in 1..Len(jobs) : jobs[i].task \in Conn
    BY JobTasks DEF TypeOK
  <2>2. \A i \in 1..Len(jobs) : pc'[jobs[i].task] = "upsert"
    BY <1>4, <2>1 DEF Submitted
  <2>3. QED BY <2>2 DEF Submitted
<1>14. LeftBehind'
  BY <1>1, <1>3, <1>4, <1>6 DEF LeftBehind, TypeOK, Entry
<1>15. \A c \in Conn : pc'[c] = "new" <=> pc[c] = "new"
  BY <1>4, <1>6
<1>16. Settling'
  <2>1. /\ \A c \in Conn : c # t => settled'[c] = settled[c]
        /\ \A c \in Conn : c = t /\ settled'[c] # None => device_id'[c] = settled'[c]
    BY DEF CallEnds, Renamed
  <2>2. dev'[t] = None
    BY <1>2, <1>3 DEF Forget
  <2>3. QED BY <1>1, <1>4, <1>6, <2>1, <2>2 DEF Settling
<1>17. QED
  BY <1>7, <1>8, <1>9, <1>10, <1>11, <1>12, <1>13, <1>14, <1>15, <1>16

\* If nothing is on its way to a device, nothing changes for the peers either.
LEMMA QuietReturnKeeps ==
  ASSUME IndInv, NEW t \in Task,
         pc[t] \in {"recv", "helloLock", "updateLock", "refuse", "upserted"},
         CallEnds(t), LocksKept(t),
         UNCHANGED <<stopping, issued, row, jobs, ws, told>>
  PROVE  IndInv'
<1> USE TaskFacts DEF IndInv
<1>1. /\ TypeOK' /\ LockDiscipline' /\ InCall' /\ ReplacingOld'
      /\ Acknowledging' /\ Notifying' /\ Submitted' /\ LeftBehind' /\ Settling'
      /\ \A c \in Conn : pc'[c] = "new" <=> pc[c] = "new"
  BY CallEndsKeeps DEF TypeOK
<1>2. /\ device_registry' = device_registry
      /\ \E s \in {"recv", "idle"} : pc' = [pc EXCEPT ![t] = s]
      /\ dev' = [dev EXCEPT ![t] = None]
  BY DEF CallEnds, Forget
<1>3. OneVoice'
  BY <1>2 DEF OneVoice
<1>4. ToldUnlessSending'
  <2>1. \A u \in Task : pc[u] \in {"sendAck", "notify"} =>
          pc'[u] = pc[u] /\ dev'[u] = dev[u]
    BY <1>2 DEF TypeOK
  <2>2. QED BY <1>2, <2>1 DEF ToldUnlessSending
<1>5. Unused'
  BY <1>1, <1>2 DEF Unused
<1>6. QED BY <1>1, <1>3, <1>4, <1>5

-----------------------------------------------------------------------------
(* One lemma per action: it preserves IndInv.                              *)

LEMMA AcceptStep == ASSUME IndInv, NEW c \in Conn, Accept(c) PROVE IndInv'
<1> USE TaskFacts DEF IndInv
<1>1. /\ pc[c] = "new" /\ ws[c] = "new"
      /\ \A d \in Device : device_registry[d].ws # c /\ told[c][d].session = 0
  BY DEF Accept, Unused
<1>2. /\ \E s \in {"recv", "done"} : pc' = [pc EXCEPT ![c] = s]
      /\ \E s \in {"open", "closed"} : ws' = [ws EXCEPT ![c] = s]
      /\ UNCHANGED <<device_registry, lockq, issued, stopping, online, row, jobs,
                     device_id, dev, sess, conv, peer, frames, told,
                     settled>>
  BY DEF Accept, serverVars, registryVars
<1>3. /\ pc \in [Task -> ConnPC \cup CallerPC]
      /\ ws \in [Conn -> {"new", "open", "closing", "closed"}]
  BY DEF TypeOK
<1>4. /\ \A u \in Task : u # c => pc'[u] = pc[u]
      /\ pc'[c] \in {"recv", "done"}
      /\ \A u \in Conn : u # c => ws'[u] = ws[u]
  BY <1>2, <1>3
<1>5. TypeOK'
  <2>1. pc' \in [Task -> ConnPC \cup CallerPC]
    BY <1>2, <1>3 DEF ConnPC
  <2>2. ws' \in [Conn -> {"new", "open", "closing", "closed"}]
    BY <1>2, <1>3
  <2>3. QED BY <1>2, <2>1, <2>2 DEF TypeOK
<1>6. LockDiscipline' /\ InCall'
  BY <1>2, <1>4 DEF LockDiscipline, InCall, Critical, Holds
<1>7. ReplacingOld'
  BY <1>1, <1>2, <1>4 DEF ReplacingOld, InCall
<1>8. Acknowledging'
  BY <1>2, <1>4 DEF Acknowledging, Resolve
<1>9. Notifying'
  BY <1>1, <1>2, <1>4 DEF Notifying, InCall, Resolve
<1>10. Unused'
  <2>1. pc'[c] # "new" /\ ws'[c] # "new"
    BY <1>2, <1>3, <1>4
  <2>2. QED BY <1>2, <1>4, <2>1 DEF Unused
<1>11. Submitted'
  <2>1. \A i \in 1..Len(jobs) : jobs[i].task \in Conn
    BY JobTasks DEF TypeOK
  <2>2. \A i \in 1..Len(jobs) : pc'[jobs[i].task] = "upsert"
    BY <1>1, <1>4, <2>1 DEF Submitted
  <2>3. QED BY <1>2, <2>2 DEF Submitted
<1>12. OneVoice'
  BY <1>1, <1>2, <1>4 DEF OneVoice
<1>13. ToldUnlessSending'
  <2>1. \A u \in Task : pc[u] \in {"sendAck", "notify"} => pc'[u] = pc[u]
    BY <1>1, <1>4
  <2>2. \A d \in Device : device_registry[d].ws \in Conn \cup {None}
    BY DEF TypeOK, Entry
  <2>3. QED BY <1>1, <1>2, <1>4, <2>1, <2>2 DEF ToldUnlessSending
<1>14. LeftBehind'
  <2>1. \A d \in Device : device_registry[d].ws \in Conn \cup {None}
    BY DEF TypeOK, Entry
  <2>2. QED BY <1>1, <1>2, <1>4, <2>1 DEF LeftBehind
<1>15. Settling'
  BY <1>1, <1>2, <1>4 DEF Settling
<1>16. QED
  BY <1>5, <1>6, <1>7, <1>8, <1>9, <1>10, <1>11, <1>12, <1>13, <1>14, <1>15

\* A socket ends, from the peer's side or the gateway's.
LEMMA SocketEnds ==
  ASSUME IndInv, NEW c \in Conn, ConnectionLost(c) \/ CloseCompletes(c)
  PROVE  IndInv'
<1> USE TaskFacts DEF IndInv
<1>1. /\ ws[c] \in {"open", "closing"}
      /\ ws' = [ws EXCEPT ![c] = "closed"]
      /\ told' = [told EXCEPT ![c] = [d \in Device |-> NoAck]]
      /\ UNCHANGED <<device_registry, lockq, issued, stopping, online, row, jobs,
                     pc, device_id, dev, sess, conv, peer, frames, settled>>
  BY DEF ConnectionLost, CloseCompletes, serverVars, registryVars, taskVars
<1>2. /\ ws \in [Conn -> {"new", "open", "closing", "closed"}]
      /\ told \in [Conn -> [Device -> Ack]]
  BY DEF TypeOK
<1>3. ws'[c] = "closed" /\ \A u \in Conn : u # c => ws'[u] = ws[u] /\ told'[u] = told[u]
  BY <1>1, <1>2
<1>4. TypeOK'
  <2>1. NoAck \in Ack
    BY ChoiceAssumption, BoundAssumption DEF NoAck, Ack
  <2>2. told' \in [Conn -> [Device -> Ack]]
    BY <1>1, <1>2, <2>1
  <2>3. ws' \in [Conn -> {"new", "open", "closing", "closed"}]
    BY <1>1, <1>2
  <2>4. QED BY <1>1, <2>2, <2>3 DEF TypeOK
<1>5. LockDiscipline' /\ InCall' /\ Acknowledging' /\ Submitted' /\ LeftBehind'
      /\ Settling'
  BY <1>1 DEF LockDiscipline, Holds, InCall, Acknowledging, Resolve, Submitted,
              LeftBehind, Settling
<1>6. ReplacingOld'
  BY <1>1, <1>3 DEF ReplacingOld, InCall
<1>7. Notifying'
  BY <1>1, <1>3 DEF Notifying, InCall, Resolve
<1>8. Unused'
  BY <1>1, <1>3 DEF Unused
<1>9. OneVoice'
  BY <1>1, <1>3 DEF OneVoice
<1>10. ToldUnlessSending'
  <2>1. \A d \in Device : device_registry[d].ws \in Conn \cup {None}
    BY DEF TypeOK, Entry
  <2>2. QED BY <1>1, <1>3, <2>1 DEF ToldUnlessSending
<1>11. QED
  BY <1>4, <1>5, <1>6, <1>7, <1>8, <1>9, <1>10

LEMMA ConnectionEndsStep ==
  ASSUME IndInv, NEW c \in Conn, ConnectionEnds(c) PROVE IndInv'
<1>1. LocksKept(c)
  BY UnchangedKeeps, TaskFacts DEF IndInv, ConnectionEnds
<1>2. Renamed(c)
  BY UnchangedRenames, TaskFacts DEF IndInv, ConnectionEnds
<1>3. QED
  BY <1>1, <1>2, FinalizeKeeps DEF ConnectionEnds

\* An error reply either returns or finds the connection gone.
LEMMA RepliesKeeps ==
  ASSUME IndInv, NEW c \in Conn, pc[c] \in {"recv", "helloLock", "refuse"},
         NEW id \in Device \cup {None}, NEW left \in 0..MaxFrames,
         Replies(c, id, left), LocksKept(c), Renamed(c), settled'[c] \in {id, None},
         UNCHANGED <<stopping, issued, row, jobs, ws, told>>
  PROVE  IndInv'
<1>1. CASE ws[c] = "open" /\ Returns(c, id, left)
  BY <1>1, ReturnsEnds, QuietReturnKeeps, TaskFacts DEF IndInv
<1>2. CASE ws[c] = "closed" /\ Finalize(c)
  BY <1>2, FinalizeKeeps
<1>3. QED
  BY <1>1, <1>2 DEF Replies

\* The frames a peer has left after one is taken.
LEMMA FramesLeft ==
  ASSUME TypeOK, NEW c \in Conn
  PROVE  /\ frames[c] \in 0..MaxFrames
         /\ frames[c] > 0 => frames[c] - 1 \in 0..MaxFrames
BY BoundAssumption DEF TypeOK

LEMMA ReceiveInvalidStep ==
  ASSUME IndInv, NEW c \in Conn, ReceiveInvalid(c) PROVE IndInv'
<1>1. LocksKept(c)
  BY UnchangedKeeps, TaskFacts DEF IndInv, ReceiveInvalid
<1>2. frames[c] - 1 \in 0..MaxFrames
  BY FramesLeft DEF IndInv, ReceiveInvalid, Receive
<1>3. Renamed(c) /\ settled'[c] \in {None, None}
  BY NamesRenames DEF IndInv, ReceiveInvalid
<1>4. QED
  BY <1>1, <1>2, <1>3, RepliesKeeps DEF ReceiveInvalid, Receive

LEMMA ReceiveRefusedStep ==
  ASSUME IndInv, NEW c \in Conn, NEW d \in Device, ReceiveRefused(c, d) PROVE IndInv'
<1>1. LocksKept(c)
  BY UnchangedKeeps, TaskFacts DEF IndInv, ReceiveRefused
<1>2. frames[c] - 1 \in 0..MaxFrames
  BY FramesLeft DEF IndInv, ReceiveRefused, Receive
<1>3. Renamed(c) /\ settled'[c] \in {d, None}
  BY NamesRenames DEF IndInv, ReceiveRefused
<1>4. QED
  BY <1>1, <1>2, <1>3, RepliesKeeps DEF ReceiveRefused, Receive

LEMMA ReceiveOwnedStep ==
  ASSUME IndInv, NEW c \in Conn, NEW d \in Device, ReceiveOwned(c, d) PROVE IndInv'
<1>1. LocksKept(c)
  BY UnchangedKeeps, TaskFacts DEF IndInv, ReceiveOwned
<1>2. frames[c] - 1 \in 0..MaxFrames
  BY FramesLeft DEF IndInv, ReceiveOwned, Receive
<1>3. CallEnds(c)
  BY <1>2, ReturnsEnds, NamesRenames DEF ReceiveOwned, IndInv
<1>4. QED
  BY <1>1, <1>3, QuietReturnKeeps, TaskFacts DEF ReceiveOwned, Receive

\* Whoever waits for a lock has named its device.
LEMMA WaitsForDevice ==
  ASSUME IndInv, NEW t \in Task, pc[t] \in {"helloLock", "updateLock", "refuse"} \cup Critical
  PROVE  dev[t] \in Device
BY DEF IndInv, InCall

LEMMA HelloRejectedStep ==
  ASSUME IndInv, NEW c \in Conn, HelloRejected(c) PROVE IndInv'
<1>1. pc[c] = "helloLock" /\ dev[c] \in Device
  BY WaitsForDevice, TaskFacts DEF HelloRejected
<1>2. LocksKept(c)
  BY <1>1, ReleaseKeeps, TaskFacts DEF IndInv, HelloRejected
<1>3. frames[c] \in 0..MaxFrames
  BY FramesLeft DEF IndInv
<1>4. Renamed(c) /\ settled'[c] \in {dev[c], None}
  BY <1>1, SettledForCall, UnchangedRenames, TaskFacts DEF HelloRejected, IndInv
<1>5. QED
  BY <1>1, <1>2, <1>3, <1>4, RepliesKeeps DEF HelloRejected

LEMMA AckFailsStep ==
  ASSUME IndInv, NEW c \in Conn, AckFails(c) PROVE IndInv'
<1>1. pc[c] = "sendAck" /\ dev[c] \in Device
  BY WaitsForDevice, TaskFacts DEF AckFails, Critical
<1>2. LocksKept(c)
  BY <1>1, ReleaseKeeps, TaskFacts DEF IndInv, AckFails, LockDiscipline, Critical
<1>3. Renamed(c)
  BY UnchangedRenames, TaskFacts DEF IndInv, AckFails
<1>4. QED
  BY <1>1, <1>2, <1>3, FinalizeKeeps DEF AckFails

\* The lock is released and the error is yet to be sent.
LEMMA RefusalKeeps ==
  ASSUME IndInv, NEW c \in Conn, pc[c] = "updateLock", dev[c] \in Device,
         LocksKept(c), pc' = [pc EXCEPT ![c] = "refuse"],
         UNCHANGED <<device_registry, online, device_id, dev, sess, conv, peer,
                     frames, stopping, issued, row, jobs, ws, told, settled>>
  PROVE  IndInv'
<1> USE TaskFacts DEF IndInv
<1>1. pc \in [Task -> ConnPC \cup CallerPC]
  BY DEF TypeOK
<1>2. pc'[c] = "refuse" /\ \A u \in Task : u # c => pc'[u] = pc[u]
  BY <1>1
<1>3. TypeOK'
  <2>1. pc' \in [Task -> ConnPC \cup CallerPC]
    BY <1>1 DEF ConnPC
  <2>2. QED BY <2>1 DEF TypeOK, LocksKept
<1>4. LockDiscipline'
  BY <1>2, OthersKeepLocks DEF Critical
<1>5. InCall' /\ ReplacingOld' /\ Acknowledging'
  BY <1>2 DEF InCall, ReplacingOld, Acknowledging, Critical, Resolve
<1>6. Notifying' /\ Unused'
  BY <1>2 DEF Notifying, Unused, Resolve
<1>7. Submitted'
  <2>1. \A i \in 1..Len(jobs) : jobs[i].task \in Conn
    BY JobTasks DEF TypeOK
  <2>2. \A i \in 1..Len(jobs) : pc'[jobs[i].task] = "upsert"
    BY <1>2, <2>1 DEF Submitted
  <2>3. QED BY <2>2 DEF Submitted
<1>8. OneVoice' /\ Settling'
  BY <1>2 DEF OneVoice, Settling
<1>9. ToldUnlessSending'
  <2>1. \A u \in Task : pc[u] \in {"sendAck", "notify"} => pc'[u] = pc[u]
    BY <1>2
  <2>2. QED BY <2>1 DEF ToldUnlessSending
<1>10. LeftBehind'
  <2>1. \A d \in Device : device_registry[d].ws \in Conn \cup {None}
    BY DEF TypeOK, Entry
  <2>2. QED BY <1>2, <2>1 DEF LeftBehind
<1>11. QED
  BY <1>3, <1>4, <1>5, <1>6, <1>7, <1>8, <1>9, <1>10

LEMMA UpdateRefusedStep ==
  ASSUME IndInv, NEW t \in Task, UpdateRefused(t) PROVE IndInv'
<1>1. pc[t] = "updateLock" /\ dev[t] \in Device
  BY WaitsForDevice DEF UpdateRefused
<1>2. LocksKept(t)
  BY <1>1, ReleaseKeeps DEF IndInv, UpdateRefused
<1>3. CASE t \in Conn /\ pc' = [pc EXCEPT ![t] = "refuse"]
           /\ UNCHANGED <<device_registry, online, device_id, dev, sess, conv, peer,
                          frames>>
  BY <1>1, <1>2, <1>3, RefusalKeeps DEF UpdateRefused
<1>4. CASE CallReturns(t)
  BY <1>1, <1>2, <1>4, CallReturnsEnds, QuietReturnKeeps DEF UpdateRefused, IndInv
<1>5. QED
  BY <1>3, <1>4 DEF UpdateRefused

LEMMA RefusalSentStep ==
  ASSUME IndInv, NEW c \in Conn, RefusalSent(c) PROVE IndInv'
<1>1. pc[c] = "refuse" /\ dev[c] \in Device
  BY WaitsForDevice, TaskFacts DEF RefusalSent
<1>2. LocksKept(c)
  BY UnchangedKeeps, TaskFacts DEF IndInv, RefusalSent
<1>3. frames[c] \in 0..MaxFrames
  BY FramesLeft DEF IndInv
<1>4. Renamed(c) /\ settled'[c] \in {dev[c], None}
  BY <1>1, SettledForCall, UnchangedRenames, TaskFacts DEF RefusalSent, IndInv
<1>5. QED
  BY <1>1, <1>2, <1>3, <1>4, RepliesKeeps DEF RefusalSent

\* Two tasks are never past the lock of the same device.
LEMMA MutualExclusion ==
  ASSUME IndInv, NEW t \in Task, NEW u \in Task,
         Holds(t, dev[t]), pc[u] \in Critical, dev[u] = dev[t]
  PROVE  u = t
BY DEF IndInv, LockDiscipline, Holds

\* A task takes a frame or a request and queues for the lock of d.
LEMMA QueuesKeeps ==
  ASSUME IndInv, NEW t \in Task, NEW d \in Device, NEW r \in Request,
         NEW s \in {"helloLock", "updateLock"},
         pc[t] \in {"recv", "idle"}, Acquire(t, d),
         pc' = [pc EXCEPT ![t] = s],
         dev' = [dev EXCEPT ![t] = d], conv' = [conv EXCEPT ![t] = r],
         sess' \in [Conn -> 0..MaxSession],
         \A c \in Conn : c # t => sess'[c] = sess[c],
         s = "helloLock" => sess'[t] # 0,
         issued' \in 0..MaxSession, frames' \in [Conn -> 0..MaxFrames],
         Renamed(t), t \in Conn => settled'[t] \in {d, None},
         UNCHANGED <<device_registry, stopping, online, row, jobs, device_id, peer,
                     ws, told>>
  PROVE  IndInv'
<1> USE TaskFacts DEF IndInv
<1>1. LocksKept(t)
  BY AcquireKeeps
<1>2. /\ pc \in [Task -> ConnPC \cup CallerPC]
      /\ dev \in [Task -> Device \cup {None}]
      /\ conv \in [Task -> Request]
  BY DEF TypeOK
<1>3. /\ pc'[t] = s /\ dev'[t] = d
      /\ \A u \in Task : u # t =>
           pc'[u] = pc[u] /\ dev'[u] = dev[u] /\ conv'[u] = conv[u]
  BY <1>2
<1>4. TypeOK'
  <2>1. pc' \in [Task -> ConnPC \cup CallerPC]
    BY <1>2 DEF ConnPC
  <2>2. dev' \in [Task -> Device \cup {None}] /\ conv' \in [Task -> Request]
    BY <1>2
  <2>3. QED BY <1>1, <2>1, <2>2 DEF TypeOK, LocksKept, Renamed
<1>5. LockDiscipline'
  BY <1>1, <1>3, OthersKeepLocks DEF Critical
<1>6. InCall'
  BY <1>3 DEF InCall, Critical
<1>7. ReplacingOld' /\ Acknowledging'
  BY <1>3 DEF ReplacingOld, Acknowledging, Resolve
<1>8. Notifying' /\ Unused'
  BY <1>3 DEF Notifying, Unused, Resolve
<1>9. Submitted'
  <2>1. \A i \in 1..Len(jobs) : jobs[i].task \in Conn
    BY JobTasks DEF TypeOK
  <2>2. \A i \in 1..Len(jobs) : pc'[jobs[i].task] = "upsert"
    BY <1>3, <2>1 DEF Submitted
  <2>3. QED BY <2>2 DEF Submitted
<1>10. OneVoice'
  BY DEF OneVoice
<1>11. ToldUnlessSending'
  <2>1. \A u \in Task : pc[u] \in {"sendAck", "notify"} =>
          pc'[u] = pc[u] /\ dev'[u] = dev[u]
    BY <1>3
  <2>2. QED BY <2>1 DEF ToldUnlessSending
<1>12. LeftBehind'
  <2>1. \A c \in Conn : pc'[c] = "done" => pc[c] = "done"
    BY <1>3
  <2>2. \A x \in Device : device_registry[x].ws \in Conn \cup {None}
    BY DEF TypeOK, Entry
  <2>3. QED BY <2>1, <2>2 DEF LeftBehind
<1>13. Settling'
  <2>1. \A c \in Conn : c # t => settled'[c] = settled[c]
    BY DEF Renamed
  <2>2. t \in Conn => settled'[t] \in {settled[t], None} \cap {d, None}
    BY DEF Renamed
  <2>3. QED BY <1>3, <2>1, <2>2 DEF Settling
<1>14. QED
  BY <1>4, <1>5, <1>6, <1>7, <1>8, <1>9, <1>10, <1>11, <1>12, <1>13

LEMMA ReceiveHelloStep ==
  ASSUME IndInv, NEW c \in Conn, NEW d \in Device, NEW r \in Request,
         ReceiveHello(c, d, r)
  PROVE  IndInv'
<1>1. issued + 1 \in 1..MaxSession
  BY BoundAssumption DEF IndInv, TypeOK, ReceiveHello
<1>2. /\ sess' = [sess EXCEPT ![c] = issued + 1]
      /\ issued' = issued + 1
      /\ frames' = [frames EXCEPT ![c] = @ - 1]
      /\ pc[c] = "recv" /\ frames[c] > 0
      /\ sess \in [Conn -> 0..MaxSession]
      /\ frames \in [Conn -> 0..MaxFrames]
  BY DEF IndInv, TypeOK, ReceiveHello, Receive
<1>3. sess' \in [Conn -> 0..MaxSession] /\ sess'[c] # 0
      /\ \A x \in Conn : x # c => sess'[x] = sess[x]
  BY <1>1, <1>2
<1>4. frames' \in [Conn -> 0..MaxFrames]
  BY <1>2, FramesLeft DEF IndInv
<1>5. issued' \in 0..MaxSession
  BY <1>1, <1>2
<1>6. /\ Acquire(c, d)
      /\ pc' = [pc EXCEPT ![c] = "helloLock"]
      /\ dev' = [dev EXCEPT ![c] = d]
      /\ conv' = [conv EXCEPT ![c] = r]
      /\ UNCHANGED <<device_registry, stopping, online, row, jobs, device_id, peer,
                     ws, told>>
  BY DEF ReceiveHello, registryVars
<1>7. Renamed(c) /\ settled'[c] \in {d, None}
  BY NamesRenames DEF IndInv, ReceiveHello
<1>8. QED
  BY <1>2, <1>3, <1>4, <1>5, <1>6, <1>7, QueuesKeeps, TaskFacts

LEMMA ReceiveUpdateStep ==
  ASSUME IndInv, NEW c \in Conn, NEW d \in Device, NEW r \in Request,
         ReceiveUpdate(c, d, r)
  PROVE  IndInv'
<1>1. /\ frames' = [frames EXCEPT ![c] = @ - 1]
      /\ pc[c] = "recv" /\ frames[c] > 0
      /\ frames \in [Conn -> 0..MaxFrames]
      /\ sess' = sess /\ issued' = issued
      /\ sess \in [Conn -> 0..MaxSession] /\ issued \in 0..MaxSession
  BY DEF IndInv, TypeOK, ReceiveUpdate, Receive, AskUpdate
<1>2. frames' \in [Conn -> 0..MaxFrames]
  BY <1>1, FramesLeft DEF IndInv
<1>3. /\ Acquire(c, d)
      /\ pc' = [pc EXCEPT ![c] = "updateLock"]
      /\ dev' = [dev EXCEPT ![c] = d]
      /\ conv' = [conv EXCEPT ![c] = r]
      /\ UNCHANGED <<device_registry, stopping, online, row, jobs, device_id, peer,
                     ws, told>>
  BY DEF ReceiveUpdate, AskUpdate, registryVars
<1>4. Renamed(c) /\ settled'[c] \in {d, None}
  BY NamesRenames DEF IndInv, ReceiveUpdate
<1>5. QED
  BY <1>1, <1>2, <1>3, <1>4, QueuesKeeps, TaskFacts

LEMMA CallUpdateStep ==
  ASSUME IndInv, NEW t \in Caller, NEW d \in Device, NEW r \in Request,
         CallUpdate(t, d, r)
  PROVE  IndInv'
<1>1. /\ pc[t] = "idle"
      /\ frames' = frames /\ frames \in [Conn -> 0..MaxFrames]
      /\ sess' = sess /\ issued' = issued
      /\ sess \in [Conn -> 0..MaxSession] /\ issued \in 0..MaxSession
  BY DEF IndInv, TypeOK, CallUpdate, AskUpdate
<1>2. /\ Acquire(t, d)
      /\ pc' = [pc EXCEPT ![t] = "updateLock"]
      /\ dev' = [dev EXCEPT ![t] = d]
      /\ conv' = [conv EXCEPT ![t] = r]
      /\ UNCHANGED <<device_registry, stopping, online, row, jobs, device_id, peer,
                     ws, told>>
  BY DEF CallUpdate, AskUpdate, registryVars
<1>3. Renamed(t)
  BY UnchangedRenames, TaskFacts DEF IndInv, CallUpdate
<1>4. QED
  BY <1>1, <1>2, <1>3, QueuesKeeps, TaskFacts

\* A hello whose old connection is gone installs its entry.
LEMMA InstallKeeps ==
  ASSUME IndInv, NEW c \in Conn, pc[c] \in {"helloLock", "closeOld"},
         Holds(c, dev[c]),
         device_registry[dev[c]].ws # None
           => ws[device_registry[dev[c]].ws] = "closed",
         Install(c, dev[c]), online' \in [Device -> BOOLEAN],
         UNCHANGED <<lockq, stopping, issued, row, jobs, device_id, dev, sess,
                     conv, peer, ws, frames, told, settled>>
  PROVE  IndInv'
<1> USE TaskFacts DEF IndInv
<1> DEFINE d == dev[c]
<1>1. d \in Device
  BY WaitsForDevice DEF Critical
<1>2. /\ pc \in [Task -> ConnPC \cup CallerPC]
      /\ device_registry \in [Device -> Entry]
      /\ sess[c] \in 0..MaxSession
      /\ pc' = [pc EXCEPT ![c] = "sendAck"]
  BY DEF TypeOK, Install
<1>3. /\ device_registry'[d].ws = c
      /\ device_registry'[d].session = sess[c]
      /\ device_registry'[d].conv = Resolve(conv[c])
      /\ \A x \in Device : x # d => device_registry'[x] = device_registry[x]
  BY <1>1, <1>2 DEF Install
<1>4. pc'[c] = "sendAck" /\ \A u \in Task : u # c => pc'[u] = pc[u]
  BY <1>2
<1>5. \A u \in Task : u # c /\ pc[u] \in Critical => dev[u] # d /\ dev[u] \in Device
  BY MutualExclusion DEF InCall
<1>6. TypeOK'
  <2>1. pc' \in [Task -> ConnPC \cup CallerPC]
    BY <1>2 DEF ConnPC
  <2>2. [ws |-> c, session |-> sess[c], conv |-> Resolve(conv[c])] \in Entry
    BY <1>2, ResolveChoice DEF Entry
  <2>3. device_registry' \in [Device -> Entry]
    BY <1>2, <2>2 DEF Install
  <2>4. QED BY <2>1, <2>3 DEF TypeOK
<1>7. LockDiscipline'
  BY <1>4 DEF LockDiscipline, Holds, Critical
<1>8. InCall'
  BY <1>1, <1>4 DEF InCall, Critical
<1>9. ReplacingOld'
  BY <1>3, <1>4, <1>5 DEF ReplacingOld, Critical
<1>10. Acknowledging'
  BY <1>3, <1>4, <1>5 DEF Acknowledging, Critical, Resolve
<1>11. Notifying'
  BY <1>3, <1>4, <1>5 DEF Notifying, Critical, Resolve
<1>12. Unused'
  BY <1>3, <1>4 DEF Unused
<1>13. Submitted'
  <2>1. \A i \in 1..Len(jobs) : jobs[i].task \in Conn
    BY JobTasks DEF TypeOK
  <2>2. \A i \in 1..Len(jobs) : pc'[jobs[i].task] = "upsert"
    BY <1>4, <2>1 DEF Submitted
  <2>3. QED BY <2>2 DEF Submitted
<1>14. OneVoice'
  BY <1>1, <1>3 DEF OneVoice
<1>15. ToldUnlessSending'
  <2>1. \A x \in Device : (\A u \in Task : pc'[u] \in {"sendAck", "notify"} => dev[u] # x)
          => x # d /\ \A u \in Task : pc[u] \in {"sendAck", "notify"} => dev[u] # x
    BY <1>4
  <2>2. QED BY <1>3, <2>1 DEF ToldUnlessSending
<1>16. LeftBehind'
  <2>1. \A x \in Device : device_registry[x].ws \in Conn \cup {None}
    BY DEF TypeOK, Entry
  <2>2. QED BY <1>3, <1>4, <2>1 DEF LeftBehind
<1>17. Settling'
  BY <1>4 DEF Settling
<1>18. QED
  BY <1>6, <1>7, <1>8, <1>9, <1>10, <1>11, <1>12, <1>13, <1>14, <1>15, <1>16, <1>17

LEMMA HelloInstallsStep ==
  ASSUME IndInv, NEW c \in Conn, HelloInstalls(c) PROVE IndInv'
<1>1. online' \in [Device -> BOOLEAN]
  BY DEF IndInv, TypeOK, HelloInstalls
<1>2. QED
  BY <1>1, InstallKeeps DEF HelloInstalls, wireVars

LEMMA OldClosedStep ==
  ASSUME IndInv, NEW c \in Conn, OldClosed(c) PROVE IndInv'
<1>1. pc[c] = "closeOld" /\ Holds(c, dev[c])
  BY TaskFacts DEF IndInv, OldClosed, LockDiscipline, Critical
<1>2. device_registry[dev[c]].ws # None => ws[device_registry[dev[c]].ws] = "closed"
  BY <1>1 DEF IndInv, OldClosed, ReplacingOld
<1>3. online' \in [Device -> BOOLEAN]
  BY DEF IndInv, TypeOK, OldClosed, registryVars
<1>4. QED
  BY <1>1, <1>2, <1>3, InstallKeeps DEF OldClosed, registryVars, wireVars

LEMMA HelloClosesOldStep ==
  ASSUME IndInv, NEW c \in Conn, HelloClosesOld(c) PROVE IndInv'
<1> USE TaskFacts DEF IndInv
<1> DEFINE d == dev[c]
           old == device_registry[d].ws
<1>1. d \in Device /\ Holds(c, d) /\ pc[c] = "helloLock"
  BY WaitsForDevice DEF HelloClosesOld
<1>2. old \in Conn /\ ws[old] # "closed"
  BY <1>1 DEF HelloClosesOld, TypeOK, Entry
<1>3. /\ online' = [online EXCEPT ![d] = TRUE]
      /\ ws' = [ws EXCEPT ![old] = "closing"]
      /\ peer' = [peer EXCEPT ![c] = old]
      /\ pc' = [pc EXCEPT ![c] = "closeOld"]
      /\ UNCHANGED <<device_registry, lockq, stopping, issued, row, jobs, device_id,
                     dev, sess, conv, frames, told, settled>>
  BY DEF HelloClosesOld, serverVars
<1>4. /\ pc \in [Task -> ConnPC \cup CallerPC]
      /\ ws \in [Conn -> {"new", "open", "closing", "closed"}]
      /\ peer \in [Task -> Conn \cup {None}]
      /\ online \in [Device -> BOOLEAN]
  BY DEF TypeOK
<1>5. /\ pc'[c] = "closeOld" /\ peer'[c] = old /\ ws'[old] = "closing"
      /\ \A u \in Task : u # c => pc'[u] = pc[u] /\ peer'[u] = peer[u]
      /\ \A u \in Conn : u # old => ws'[u] = ws[u]
  BY <1>2, <1>3, <1>4
<1>6. TypeOK'
  <2>1. pc' \in [Task -> ConnPC \cup CallerPC]
    BY <1>3, <1>4 DEF ConnPC
  <2>2. /\ ws' \in [Conn -> {"new", "open", "closing", "closed"}]
        /\ online' \in [Device -> BOOLEAN]
        /\ peer' \in [Task -> Conn \cup {None}]
    BY <1>2, <1>3, <1>4
  <2>3. QED BY <1>3, <2>1, <2>2 DEF TypeOK
<1>7. LockDiscipline'
  BY <1>1, <1>3, <1>5 DEF LockDiscipline, Holds
<1>8. InCall'
  BY <1>1, <1>2, <1>3, <1>5 DEF InCall, Critical
<1>9. ReplacingOld'
  <2>1. \A u \in Conn : pc[u] = "closeOld" => peer[u] \in Conn
    BY DEF InCall
  <2>2. QED BY <1>3, <1>5, <2>1 DEF ReplacingOld
<1>10. Acknowledging'
  BY <1>3, <1>5 DEF Acknowledging, Resolve
<1>11. Notifying'
  BY <1>2, <1>3, <1>5 DEF Notifying, Resolve
<1>12. Unused'
  BY <1>1, <1>3, <1>5 DEF Unused
<1>13. Submitted'
  <2>1. \A i \in 1..Len(jobs) : jobs[i].task \in Conn
    BY JobTasks DEF TypeOK
  <2>2. \A i \in 1..Len(jobs) : pc'[jobs[i].task] = "upsert"
    BY <1>1, <1>5, <2>1 DEF Submitted
  <2>3. QED BY <1>3, <2>2 DEF Submitted
<1>14. OneVoice'
  BY <1>3, <1>5 DEF OneVoice
<1>15. ToldUnlessSending'
  <2>1. \A u \in Task : pc[u] \in {"sendAck", "notify"} => pc'[u] = pc[u]
    BY <1>1, <1>5
  <2>2. \A x \in Device : device_registry[x].ws \in Conn \cup {None}
    BY DEF TypeOK, Entry
  <2>3. QED BY <1>3, <1>5, <2>1, <2>2 DEF ToldUnlessSending
<1>16. LeftBehind'
  <2>1. \A x \in Device : device_registry[x].ws \in Conn \cup {None}
    BY DEF TypeOK, Entry
  <2>2. QED BY <1>3, <1>5, <2>1 DEF LeftBehind
<1>17. Settling'
  BY <1>1, <1>3, <1>5 DEF Settling
<1>18. QED
  BY <1>6, <1>7, <1>8, <1>9, <1>10, <1>11, <1>12, <1>13, <1>14, <1>15, <1>16, <1>17

LEMMA AckSentStep == ASSUME IndInv, NEW c \in Conn, AckSent(c) PROVE IndInv'
<1> USE TaskFacts DEF IndInv
<1> DEFINE d == dev[c]
           job == [task |-> c, dev |-> d, session |-> sess[c]]
<1>1. pc[c] = "sendAck" /\ d \in Device /\ Holds(c, d)
  BY WaitsForDevice DEF AckSent, LockDiscipline, Critical
<1>2. /\ told' = [told EXCEPT ![c][d] =
                    [session |-> sess[c], conv |-> Resolve(conv[c])]]
      /\ settled' = [settled EXCEPT ![c] = d]
      /\ jobs' = Append(jobs, job)
      /\ pc' = [pc EXCEPT ![c] = "upsert"]
      /\ conv' = [conv EXCEPT ![c] = None]
      /\ peer' = [peer EXCEPT ![c] = None]
      /\ UNCHANGED <<device_registry, stopping, issued, online, row, device_id, dev,
                     sess, ws, frames>>
  BY DEF AckSent
<1>3. LocksKept(c)
  BY <1>1, ReleaseKeeps DEF AckSent
<1>4. /\ pc \in [Task -> ConnPC \cup CallerPC]
      /\ conv \in [Task -> Request]
      /\ peer \in [Task -> Conn \cup {None}]
      /\ sess \in [Conn -> 0..MaxSession]
      /\ told \in [Conn -> [Device -> Ack]]
      /\ jobs \in Seq(Job)
  BY DEF TypeOK
<1>5. /\ pc'[c] = "upsert"
      /\ \A u \in Task : u # c =>
           pc'[u] = pc[u] /\ conv'[u] = conv[u] /\ peer'[u] = peer[u]
  BY <1>2, <1>4
<1>6. /\ told'[c][d].session = sess[c] /\ told'[c][d].conv = Resolve(conv[c])
      /\ \A u \in Conn, x \in Device : u # c \/ x # d => told'[u][x] = told[u][x]
  BY <1>1, <1>2, <1>4
<1>7. TypeOK'
  <2>1. pc' \in [Task -> ConnPC \cup CallerPC]
    BY <1>2, <1>4 DEF ConnPC
  <2>2. conv' \in [Task -> Request] /\ peer' \in [Task -> Conn \cup {None}]
    BY <1>2, <1>4 DEF Request
  <2>3. [session |-> sess[c], conv |-> Resolve(conv[c])] \in Ack
    BY <1>4, ResolveChoice DEF Ack
  <2>4. told' \in [Conn -> [Device -> Ack]]
    BY <1>1, <1>2, <1>4, <2>3
  <2>5. job \in Job
    BY <1>1, <1>4 DEF Job
  <2>6. jobs' \in Seq(Job)
    BY <1>2, <1>4, <2>5, AppendProperties
  <2>7. settled' \in [Conn -> Device \cup {None}]
    BY <1>1, <1>2 DEF TypeOK
  <2>8. QED BY <1>2, <1>3, <2>1, <2>2, <2>4, <2>6, <2>7 DEF TypeOK, LocksKept
<1>8. LockDiscipline'
  BY <1>2, <1>3, <1>5, OthersKeepLocks DEF Critical
<1>9. InCall'
  BY <1>2, <1>5 DEF InCall, Critical
<1>10. ReplacingOld' /\ Unused'
  BY <1>1, <1>2, <1>5, <1>6 DEF ReplacingOld, Unused
<1>11. Acknowledging'
  BY <1>2, <1>5 DEF Acknowledging, Resolve
<1>12. Notifying'
  BY <1>2, <1>5 DEF Notifying, Resolve
<1>13. Submitted'
  <2>1. \A i \in 1..Len(jobs) : jobs[i].task \in Conn \ {c} /\ pc[jobs[i].task] = "upsert"
    BY <1>1, <1>4, JobTasks DEF Submitted
  <2>2. /\ Len(jobs') = Len(jobs) + 1
        /\ \A i \in 1..Len(jobs) : jobs'[i] = jobs[i]
        /\ jobs'[Len(jobs) + 1] = job
    BY <1>2, <1>4, AppendProperties
  <2>3. \A i \in 1..Len(jobs') :
          \/ i \in 1..Len(jobs) /\ jobs'[i] = jobs[i]
          \/ i = Len(jobs) + 1 /\ jobs'[i].task = c
    BY SMTT(30), <1>4, <2>2, LenProperties
  <2>4. \A i \in 1..Len(jobs') : pc'[jobs'[i].task] = "upsert"
    BY <1>5, <2>1, <2>3
  <2>5. \A i, j \in 1..Len(jobs') : jobs'[i].task = jobs'[j].task => i = j
    BY <2>1, <2>3 DEF Submitted
  <2>6. QED BY <2>4, <2>5 DEF Submitted
<1>14. OneVoice'
  <2>1. device_registry[d].ws = c /\ device_registry[d].session = sess[c]
    BY <1>1 DEF Acknowledging
  <2>2. QED BY <1>2, <1>6, <2>1 DEF OneVoice
<1>15. ToldUnlessSending'
  <2>1. /\ device_registry[d].ws = c /\ device_registry[d].session = sess[c]
        /\ device_registry[d].conv = Resolve(conv[c])
    BY <1>1 DEF Acknowledging, Resolve
  <2>2. \A x \in Device : device_registry[x].ws \in Conn \cup {None}
    BY DEF TypeOK, Entry
  <2>3. \A x \in Device \ {d} :
          (\A u \in Task : pc'[u] \in {"sendAck", "notify"} => dev[u] # x)
          => \A u \in Task : pc[u] \in {"sendAck", "notify"} => dev[u] # x
    BY <1>5
  <2>4. QED BY <1>2, <1>6, <2>1, <2>2, <2>3 DEF ToldUnlessSending
<1>16. LeftBehind'
  <2>1. \A x \in Device : device_registry[x].ws \in Conn \cup {None}
    BY DEF TypeOK, Entry
  <2>2. QED BY <1>2, <1>5, <2>1 DEF LeftBehind
<1>17. Settling'
  <2>1. settled'[c] = d /\ \A u \in Conn : u # c => settled'[u] = settled[u]
    BY <1>2 DEF TypeOK
  <2>2. QED BY <1>2, <1>5, <2>1 DEF Settling
<1>18. QED
  BY <1>7, <1>8, <1>9, <1>10, <1>11, <1>12, <1>13, <1>14, <1>15, <1>16, <1>17

\* What the pool's queue is made of once a job has left it.
LEMMA JobsButElements ==
  ASSUME jobs \in Seq(Job), NEW i \in 1..Len(jobs)
  PROVE  /\ Len(JobsBut(i)) = Len(jobs) - 1
         /\ \A k \in 1..Len(JobsBut(i)) :
              JobsBut(i)[k] = jobs[IF k < i THEN k ELSE k + 1]
<1> DEFINE before == SubSeq(jobs, 1, i - 1)
           after == SubSeq(jobs, i + 1, Len(jobs))
<1>1. Len(jobs) \in Nat
  BY LenProperties
<1>2. /\ before \in Seq(Job) /\ Len(before) = i - 1
      /\ \A k \in 1..(i - 1) : before[k] = jobs[k]
  BY <1>1, SubSeqProperties
<1>3. /\ after \in Seq(Job) /\ Len(after) = Len(jobs) - i
      /\ \A k \in 1..(Len(jobs) - i) : after[k] = jobs[i + k]
  BY <1>1, SubSeqProperties
<1>4. JobsBut(i) = before \o after
  BY DEF JobsBut
<1> HIDE DEF before, after
<1>5. /\ Len(before \o after) = Len(before) + Len(after)
      /\ \A k \in 1..(Len(before) + Len(after)) :
           (before \o after)[k] =
             IF k <= Len(before) THEN before[k] ELSE after[k - Len(before)]
  BY <1>2, <1>3, ConcatProperties
<1>6. Len(JobsBut(i)) = Len(jobs) - 1
  BY <1>1, <1>2, <1>3, <1>4, <1>5
<1>7. ASSUME NEW k \in 1..(Len(jobs) - 1)
      PROVE  JobsBut(i)[k] = jobs[IF k < i THEN k ELSE k + 1]
  <2>1. CASE k < i
    BY <1>1, <1>2, <1>3, <1>4, <1>5, <2>1
  <2>2. CASE ~(k < i)
    <3>1. k - (i - 1) \in 1..(Len(jobs) - i)
      BY <1>1, <2>2
    <3>2. JobsBut(i)[k] = after[k - (i - 1)]
      BY <1>1, <1>2, <1>3, <1>4, <1>5, <2>2
    <3>3. after[k - (i - 1)] = jobs[i + (k - (i - 1))]
      BY <1>3, <3>1
    <3>4. i + (k - (i - 1)) = k + 1
      BY <1>1
    <3>5. QED BY <2>2, <3>2, <3>3, <3>4
  <2>3. QED BY <2>1, <2>2
<1>8. QED
  BY <1>6, <1>7

LEMMA PoolCommitsStep ==
  ASSUME IndInv, NEW i \in 1..Len(jobs), PoolCommits(i) PROVE IndInv'
<1> USE TaskFacts DEF IndInv
<1> DEFINE c == jobs[i].task
<1>1. /\ c \in Conn /\ jobs[i].dev \in Device /\ jobs[i].session \in 0..MaxSession
      /\ pc[c] = "upsert"
  BY JobTasks DEF TypeOK, Submitted
<1>2. /\ row' = [row EXCEPT ![jobs[i].dev] = jobs[i].session]
      /\ pc' = [pc EXCEPT ![c] = "upserted"]
      /\ jobs' = JobsBut(i)
      /\ UNCHANGED <<device_registry, lockq, stopping, issued, online, device_id, dev,
                     sess, conv, peer, ws, frames, told, settled>>
  BY DEF PoolCommits, serverVars, wireVars
<1>3. /\ pc \in [Task -> ConnPC \cup CallerPC]
      /\ row \in [Device -> 0..MaxSession]
      /\ jobs \in Seq(Job)
  BY DEF TypeOK
<1>4. pc'[c] = "upserted" /\ \A u \in Task : u # c => pc'[u] = pc[u]
  BY <1>1, <1>2, <1>3
<1>5. TypeOK'
  <2>1. pc' \in [Task -> ConnPC \cup CallerPC]
    BY <1>2, <1>3 DEF ConnPC
  <2>2. row' \in [Device -> 0..MaxSession]
    BY <1>1, <1>2, <1>3
  <2>3. jobs' \in Seq(Job)
    BY <1>2, <1>3, JobsButType
  <2>4. QED BY <1>2, <2>1, <2>2, <2>3 DEF TypeOK
<1>6. LockDiscipline' /\ InCall'
  BY <1>2, <1>4 DEF LockDiscipline, InCall, Critical, Holds
<1>7. ReplacingOld' /\ Acknowledging'
  BY <1>2, <1>4 DEF ReplacingOld, Acknowledging, Resolve
<1>8. Notifying'
  BY <1>2, <1>4 DEF Notifying, Resolve
<1>9. Unused'
  BY <1>1, <1>2, <1>4 DEF Unused
<1>10. Submitted'
  <2> DEFINE from(k) == IF k < i THEN k ELSE k + 1
  <2>1. Len(jobs) \in Nat
    BY <1>3, LenProperties
  <2>2. Len(jobs') = Len(jobs) - 1 /\ \A k \in 1..Len(jobs') : jobs'[k] = jobs[from(k)]
    BY <1>2, <1>3, JobsButElements
  <2>3. \A k \in 1..Len(jobs') : from(k) \in 1..Len(jobs) /\ from(k) # i
    BY <2>1, <2>2
  <2>4. \A k, l \in 1..Len(jobs') : from(k) = from(l) => k = l
    BY <2>1, <2>2
  <2> HIDE DEF from
  <2>5. \A k \in 1..Len(jobs') :
          jobs'[k].task \in Conn \ {c} /\ pc[jobs'[k].task] = "upsert"
    BY <1>3, <2>2, <2>3, JobTasks DEF Submitted
  <2>6. \A k \in 1..Len(jobs') : pc'[jobs'[k].task] = "upsert"
    BY <1>4, <2>5
  <2>7. \A k, l \in 1..Len(jobs') : jobs'[k].task = jobs'[l].task => k = l
    <3>1. \A i1, j1 \in 1..Len(jobs) : jobs[i1].task = jobs[j1].task => i1 = j1
      BY DEF Submitted
    <3>2. QED BY ONLY <2>2, <2>3, <2>4, <3>1
  <2>8. QED BY <2>6, <2>7 DEF Submitted
<1>11. OneVoice'
  BY <1>2 DEF OneVoice
<1>12. ToldUnlessSending'
  <2>1. \A u \in Task : pc[u] \in {"sendAck", "notify"} => pc'[u] = pc[u]
    BY <1>1, <1>4
  <2>2. QED BY <1>2, <2>1 DEF ToldUnlessSending
<1>13. LeftBehind'
  <2>1. \A x \in Device : device_registry[x].ws \in Conn \cup {None}
    BY DEF TypeOK, Entry
  <2>2. QED BY <1>2, <1>4, <2>1 DEF LeftBehind
<1>14. Settling'
  BY <1>1, <1>2, <1>4 DEF Settling
<1>15. QED
  BY <1>5, <1>6, <1>7, <1>8, <1>9, <1>10, <1>11, <1>12, <1>13, <1>14

LEMMA RegisteredStep == ASSUME IndInv, NEW c \in Conn, Registered(c) PROVE IndInv'
<1>1. dev[c] \in Device \cup {None} /\ pc[c] = "upserted"
  BY TaskFacts DEF IndInv, TypeOK, Registered
<1>2. CallEnds(c)
  <2>1. settled[c] # None => dev[c] = settled[c]
    BY <1>1 DEF IndInv, Settling
  <2>2. Renamed(c)
    BY UnchangedRenames, TaskFacts DEF IndInv, Registered, wireVars
  <2>3. QED
    BY <1>1, <2>1, <2>2 DEF IndInv, TypeOK, Registered, CallEnds, serverVars, wireVars
<1>3. LocksKept(c)
  BY UnchangedKeeps, TaskFacts DEF IndInv, Registered, serverVars
<1>4. QED
  BY <1>1, <1>2, <1>3, QuietReturnKeeps, TaskFacts DEF Registered, serverVars, wireVars

LEMMA UpdateAppliesStep ==
  ASSUME IndInv, NEW t \in Task, UpdateApplies(t) PROVE IndInv'
<1> USE TaskFacts DEF IndInv
<1> DEFINE d == dev[t]
<1>1. d \in Device /\ Holds(t, d) /\ pc[t] = "updateLock"
  BY WaitsForDevice DEF UpdateApplies
<1>2. /\ device_registry' =
           [device_registry EXCEPT ![d].conv = Resolve(conv[t])]
      /\ peer' = [peer EXCEPT ![t] = device_registry[d].ws]
      /\ pc' = [pc EXCEPT ![t] = "notify"]
      /\ UNCHANGED <<lockq, stopping, issued, online, row, jobs, device_id, dev,
                     sess, conv, ws, frames, told, settled>>
  BY DEF UpdateApplies, registryVars, wireVars
<1>3. /\ device_registry \in [Device -> Entry]
      /\ pc \in [Task -> ConnPC \cup CallerPC]
      /\ peer \in [Task -> Conn \cup {None}]
  BY DEF TypeOK
<1>4. device_registry[d] \in Entry /\ device_registry[d].ws \in Conn
  BY <1>1, <1>3 DEF UpdateApplies, Entry
<1>5. /\ device_registry'[d].ws = device_registry[d].ws
      /\ device_registry'[d].session = device_registry[d].session
      /\ device_registry'[d].conv = Resolve(conv[t])
      /\ \A x \in Device : x # d => device_registry'[x] = device_registry[x]
  BY <1>1, <1>2, <1>3, <1>4 DEF Entry
<1>6. /\ pc'[t] = "notify" /\ peer'[t] = device_registry[d].ws
      /\ \A u \in Task : u # t => pc'[u] = pc[u] /\ peer'[u] = peer[u]
  BY <1>2, <1>3
<1>7. \A u \in Task : u # t /\ pc[u] \in Critical => dev[u] # d /\ dev[u] \in Device
  BY <1>1, MutualExclusion DEF InCall
<1>8. \A x \in Device : device_registry'[x].ws = device_registry[x].ws
                     /\ device_registry'[x].session = device_registry[x].session
  BY <1>5
<1>9. TypeOK'
  <2>1. pc' \in [Task -> ConnPC \cup CallerPC]
    BY <1>2, <1>3 DEF ConnPC
  <2>2. peer' \in [Task -> Conn \cup {None}]
    BY <1>2, <1>3, <1>4
  <2>3. device_registry' \in [Device -> Entry]
    BY <1>1, <1>2, <1>3, <1>4, ResolveChoice DEF Entry
  <2>4. QED BY <1>2, <2>1, <2>2, <2>3 DEF TypeOK
<1>10. LockDiscipline'
  BY <1>1, <1>2, <1>6 DEF LockDiscipline, Holds
<1>11. InCall'
  BY <1>1, <1>2, <1>4, <1>6 DEF InCall, Critical
<1>12. ReplacingOld'
  BY <1>2, <1>6, <1>7, <1>8 DEF ReplacingOld, Critical
<1>13. Acknowledging'
  BY <1>2, <1>5, <1>6, <1>7 DEF Acknowledging, Critical, Resolve
<1>14. Notifying'
  BY <1>2, <1>5, <1>6, <1>7 DEF Notifying, Critical, Resolve
<1>15. Unused'
  BY <1>1, <1>2, <1>6, <1>8 DEF Unused
<1>16. Submitted'
  <2>1. \A i \in 1..Len(jobs) : jobs[i].task \in Conn
    BY JobTasks DEF TypeOK
  <2>2. \A i \in 1..Len(jobs) : pc'[jobs[i].task] = "upsert"
    BY <1>1, <1>6, <2>1 DEF Submitted
  <2>3. QED BY <1>2, <2>2 DEF Submitted
<1>17. OneVoice'
  BY <1>2, <1>8 DEF OneVoice
<1>18. ToldUnlessSending'
  <2>1. \A x \in Device : (\A u \in Task : pc'[u] \in {"sendAck", "notify"} => dev[u] # x)
          => x # d /\ \A u \in Task : pc[u] \in {"sendAck", "notify"} => dev[u] # x
    BY <1>1, <1>6
  <2>2. QED BY <1>2, <1>5, <2>1 DEF ToldUnlessSending
<1>19. LeftBehind'
  <2>1. \A x \in Device : device_registry[x].ws \in Conn \cup {None}
    BY <1>3 DEF Entry
  <2>2. QED BY <1>2, <1>6, <1>8, <2>1 DEF LeftBehind
<1>20. Settling'
  BY <1>1, <1>2, <1>6 DEF Settling
<1>21. QED
  BY <1>9, <1>10, <1>11, <1>12, <1>13, <1>14, <1>15, <1>16, <1>17, <1>18, <1>19,
     <1>20

LEMMA NotifiedStep == ASSUME IndInv, NEW t \in Task, Notified(t) PROVE IndInv'
<1> USE TaskFacts DEF IndInv
<1> DEFINE d == dev[t]
           to == peer[t]
           ack == [session |-> device_registry[d].session, conv |-> Resolve(conv[t])]
<1>1. /\ pc[t] = "notify" /\ d \in Device /\ Holds(t, d) /\ to \in Conn
  BY WaitsForDevice DEF Notified, LockDiscipline, InCall, Critical
<1>2. /\ ws[to] # "closing"
      /\ told' = IF ws[to] = "open" THEN [told EXCEPT ![to][d] = ack] ELSE told
      /\ UNCHANGED <<stopping, issued, row, jobs, ws, settled>>
  BY DEF Notified
<1>3. LocksKept(t)
  BY <1>1, ReleaseKeeps DEF Notified
<1>4. CallEnds(t)
  <2>1. CASE t \in Conn /\ Returns(t, d, frames[t])
    <3>1. Renamed(t) /\ settled'[t] \in {d, None}
      BY <1>1, <1>2, <2>1, SettledForCall, UnchangedRenames
    <3>2. QED BY <1>1, <2>1, <3>1, FramesLeft, ReturnsEnds
  <2>2. CASE CallReturns(t)
    BY <1>2, <2>2, CallReturnsEnds
  <2>3. QED BY <2>1, <2>2 DEF Notified
<1>5. /\ told \in [Conn -> [Device -> Ack]]
      /\ device_registry \in [Device -> Entry]
  BY DEF TypeOK
<1>6. ack \in Ack
  BY <1>1, <1>5, ResolveChoice DEF Ack, Entry
<1>7. told' \in [Conn -> [Device -> Ack]]
  BY <1>1, <1>2, <1>5, <1>6
<1>8. /\ TypeOK' /\ LockDiscipline' /\ InCall' /\ ReplacingOld'
      /\ Acknowledging' /\ Notifying' /\ Submitted' /\ LeftBehind' /\ Settling'
      /\ \A c \in Conn : pc'[c] = "new" <=> pc[c] = "new"
  BY <1>1, <1>2, <1>3, <1>4, <1>7, CallEndsKeeps
<1>9. /\ device_registry' = device_registry
      /\ \E s \in {"recv", "idle"} : pc' = [pc EXCEPT ![t] = s]
      /\ dev' = [dev EXCEPT ![t] = None]
  BY <1>4 DEF CallEnds, Forget
<1>10. \A u \in Task : u # t => pc'[u] = pc[u] /\ dev'[u] = dev[u]
  BY <1>9 DEF TypeOK
<1>11. /\ ws[to] = "open" =>
            told'[to][d].session = device_registry[d].session
            /\ told'[to][d].conv = Resolve(conv[t])
       /\ ws[to] # "open" => told' = told
       /\ \A c \in Conn, x \in Device : c # to \/ x # d => told'[c][x] = told[c][x]
  BY <1>1, <1>2, <1>5
<1>12. ws[to] = "open" =>
         device_registry[d].ws = to /\ device_registry[d].conv = Resolve(conv[t])
  BY <1>1 DEF Notifying, Resolve
<1>13. Unused'
  BY <1>1, <1>2, <1>8, <1>9, <1>11, <1>12 DEF Unused
<1>14. OneVoice'
  BY <1>1, <1>2, <1>9, <1>11, <1>12 DEF OneVoice
<1>15. ToldUnlessSending'
  <2>1. SUFFICES ASSUME NEW x \in Device, device_registry[x].ws # None,
                        ws[device_registry[x].ws] = "open",
                        \A u \in Task : pc'[u] \in {"sendAck", "notify"} => dev'[u] # x
                 PROVE  LET e == device_registry[x] IN
                        /\ told'[e.ws][x].session = e.session
                        /\ told'[e.ws][x].conv = e.conv
    BY <1>2, <1>9 DEF ToldUnlessSending
  <2>2. CASE x = d
    <3>1. device_registry[d].ws = to
      BY <1>1, <1>12, <2>1, <2>2 DEF Notifying
    <3>2. QED BY <1>11, <1>12, <2>1, <2>2, <3>1
  <2>3. CASE x # d
    <3>1. \A u \in Task : pc[u] \in {"sendAck", "notify"} => dev[u] # x
      BY <1>10, <2>1, <2>3
    <3>2. device_registry[x].ws \in Conn
      BY <1>5, <2>1 DEF Entry
    <3>3. QED BY <1>11, <2>1, <2>3, <3>1, <3>2 DEF ToldUnlessSending
  <2>4. QED BY <2>2, <2>3
<1>16. QED
  BY <1>8, <1>13, <1>14, <1>15

LEMMA StopStep == ASSUME IndInv, StopBegins \/ StopEnds PROVE IndInv'
<1> USE TaskFacts DEF IndInv
<1>1. /\ \/ ws' = [c \in Conn |-> IF ws[c] = "open" THEN "closing" ELSE ws[c]]
         \/ ws' = ws
      /\ stopping' \in {"yes", "stopped"} /\ online' \in [Device -> BOOLEAN]
      /\ UNCHANGED <<device_registry, lockq, issued, row, jobs, pc, device_id, dev,
                     sess, conv, peer, frames, told, settled>>
  BY DEF StopBegins, StopEnds, TypeOK, registryVars, taskVars, wireVars
<1>2. /\ \A c \in Conn : ws'[c] = "open" => ws[c] = "open"
      /\ \A c \in Conn : ws[c] # "open" => ws'[c] = ws[c]
  BY <1>1
<1>3. TypeOK'
  BY <1>1 DEF TypeOK
<1>4. LockDiscipline' /\ InCall' /\ Acknowledging' /\ Submitted' /\ LeftBehind'
      /\ Settling'
  BY <1>1 DEF LockDiscipline, Holds, InCall, Acknowledging, Resolve, Submitted,
              LeftBehind, Settling
<1>5. ReplacingOld'
  BY <1>1, <1>2 DEF ReplacingOld, InCall
<1>6. Notifying' /\ Unused'
  BY <1>1, <1>2 DEF Notifying, InCall, Unused, Resolve
<1>7. OneVoice'
  BY <1>1, <1>2 DEF OneVoice
<1>8. ToldUnlessSending'
  <2>1. \A d \in Device : device_registry[d].ws \in Conn \cup {None}
    BY DEF TypeOK, Entry
  <2>2. QED BY <1>1, <1>2, <2>1 DEF ToldUnlessSending
<1>9. QED
  BY <1>3, <1>4, <1>5, <1>6, <1>7, <1>8

-----------------------------------------------------------------------------
(* The theorems.                                                           *)

LEMMA IndInvInit == Init => IndInv
<1> SUFFICES ASSUME Init PROVE IndInv
  OBVIOUS
<1> USE TaskFacts DEF Init
<1>1. NoEntry \in Entry /\ NoAck \in Ack
  BY ChoiceAssumption, BoundAssumption DEF NoEntry, Entry, NoAck, Ack
<1>2. TypeOK
  BY <1>1, BoundAssumption, ChoiceAssumption
     DEF TypeOK, ConnPC, CallerPC, Request
<1>3. pc \in [Task -> {"new", "idle"}]
  OBVIOUS
<1>4. LockDiscipline /\ InCall
  BY <1>3 DEF LockDiscipline, InCall, Critical
<1>5. ReplacingOld /\ Acknowledging /\ Notifying
  BY <1>3 DEF ReplacingOld, Acknowledging, Notifying
<1>6. Unused
  BY DEF Unused, NoEntry, NoAck
<1>7. Submitted
  BY DEF Submitted
<1>8. OneVoice /\ ToldUnlessSending /\ LeftBehind /\ Settling
  BY DEF OneVoice, ToldUnlessSending, LeftBehind, Settling, NoEntry, NoAck
<1>9. QED
  BY <1>2, <1>4, <1>5, <1>6, <1>7, <1>8 DEF IndInv

LEMMA IndInvStutter == ASSUME IndInv, UNCHANGED vars PROVE IndInv'
<1> USE DEF IndInv, vars, serverVars, registryVars, taskVars, wireVars
<1>1. TypeOK' /\ Submitted' /\ Unused'
  BY DEF TypeOK, Submitted, Unused
<1>2. LockDiscipline' /\ InCall'
  BY DEF LockDiscipline, Holds, InCall
<1>3. ReplacingOld' /\ Acknowledging' /\ Notifying'
  BY DEF ReplacingOld, Acknowledging, Notifying, Resolve
<1>4. OneVoice' /\ ToldUnlessSending' /\ LeftBehind' /\ Settling'
  BY DEF OneVoice, ToldUnlessSending, LeftBehind, Settling
<1>5. QED
  BY <1>1, <1>2, <1>3, <1>4

LEMMA IndInvNext == ASSUME IndInv, Next PROVE IndInv'
<1>1. CASE \E c \in Conn : \/ CloseCompletes(c) \/ ConnectionEnds(c)
                           \/ HelloRejected(c) \/ HelloInstalls(c)
                           \/ HelloClosesOld(c) \/ OldClosed(c) \/ AckSent(c)
                           \/ AckFails(c) \/ Registered(c) \/ RefusalSent(c)
  BY <1>1, SocketEnds, ConnectionEndsStep, HelloRejectedStep, HelloInstallsStep,
     HelloClosesOldStep, OldClosedStep, AckSentStep, AckFailsStep, RegisteredStep,
     RefusalSentStep
<1>2. CASE \E t \in Task : UpdateRefused(t) \/ UpdateApplies(t) \/ Notified(t)
  BY <1>2, UpdateRefusedStep, UpdateAppliesStep, NotifiedStep
<1>3. CASE \E i \in 1..Len(jobs) : PoolCommits(i)
  BY <1>3, PoolCommitsStep
<1>4. CASE StopBegins \/ StopEnds
  BY <1>4, StopStep
<1>5. CASE \E c \in Conn : Accept(c) \/ ConnectionLost(c) \/ ReceiveInvalid(c)
  BY <1>5, AcceptStep, SocketEnds, ReceiveInvalidStep
<1>6. CASE \E c \in Conn, d \in Device : ReceiveRefused(c, d) \/ ReceiveOwned(c, d)
  BY <1>6, ReceiveRefusedStep, ReceiveOwnedStep
<1>7. CASE \E c \in Conn, d \in Device, r \in Request :
              ReceiveHello(c, d, r) \/ ReceiveUpdate(c, d, r)
  BY <1>7, ReceiveHelloStep, ReceiveUpdateStep
<1>8. CASE \E t \in Caller, d \in Device, r \in Request : CallUpdate(t, d, r)
  BY <1>8, CallUpdateStep
<1>9. QED
  BY <1>1, <1>2, <1>3, <1>4, <1>5, <1>6, <1>7, <1>8 DEF Next, Progress, Environment

\* IndInv is an invariant of the server for all devices, connections, HTTP
\* callers and bounds: it holds before and after every step of every handler.
THEOREM Inductive == Spec => []IndInv
<1>1. IndInv /\ [Next]_vars => IndInv'
  BY IndInvNext, IndInvStutter
<1>2. QED
  BY <1>1, IndInvInit, PTL DEF Spec

\* Every variable of the server keeps its type: no handler stores a lock queue,
\* an entry or an acknowledgement of another shape.
THEOREM TypeCorrect == Spec => []TypeOK
<1>1. IndInv => TypeOK
  BY DEF IndInv
<1>2. QED
  BY <1>1, Inductive, PTL

\* The critical sections of _handle_hello and update_device_conversation exclude
\* each other per device, whatever the order in which sockets close and acks fail.
THEOREM LocksAreKept == Spec => []LockDiscipline
<1>1. IndInv => LockDiscipline
  BY DEF IndInv
<1>2. QED
  BY <1>1, Inductive, PTL

\* However many connections say hello as one device, an open socket that was
\* acknowledged is the one the registry routes to, under the session it was told.
THEOREM OneVoicePerDevice == Spec => []OneVoice
<1>1. IndInv => OneVoice
  BY DEF IndInv
<1>2. QED
  BY <1>1, Inductive, PTL

\* A peer that was acknowledged as a device and since then only sent frames of
\* that device leaves no entry of it behind when its connection is over, however
\* its last calls ended and whatever other connections do with the device.
THEOREM PeersLeaveNothing == Spec => []CleanExit
<1>1. IndInv => CleanExit
  <2>1. SUFFICES ASSUME IndInv, NEW c \in Conn, NEW d \in Device,
                        settled[c] = d, pc[c] = "done"
                 PROVE  device_registry[d].ws # c
    BY DEF CleanExit
  <2>2. device_id[c] = d
    BY <2>1, TaskFacts DEF IndInv, Settling
  <2>3. QED
    BY <2>1, <2>2, TaskFacts DEF IndInv, LeftBehind
<1>2. QED
  BY <1>1, Inductive, PTL

\* With the device lock free, a connected device was told the conversation the
\* gateway uses for it.
THEOREM DevicesKnowTheTruth == Spec => []ToldTheTruth
<1>1. IndInv => ToldTheTruth
  <2>1. SUFFICES ASSUME IndInv, NEW d \in Device, lockq[d] = <<>>,
                        device_registry[d].ws # None,
                        ws[device_registry[d].ws] = "open"
                 PROVE  LET e == device_registry[d] IN
                        /\ told[e.ws][d].session = e.session
                        /\ told[e.ws][d].conv = e.conv
    BY DEF ToldTheTruth
  <2>2. \A t \in Task : pc[t] \in {"sendAck", "notify"} => dev[t] # d
    BY <2>1 DEF IndInv, LockDiscipline, Holds, Critical
  <2>3. QED
    BY <2>1, <2>2 DEF IndInv, ToldUnlessSending
<1>2. QED
  BY <1>1, Inductive, PTL

-----------------------------------------------------------------------------
(* Presence.                                                               *)

\* A step that takes no device offline unless it drops its entry, opens no socket
\* that had an entry, installs none, and leaves who is on the way there.
LEMMA PresenceKept ==
  ASSUME IndInv, ConnectedIsOnline, stopping' = "no" => stopping = "no",
         \A d \in Device :
           /\ device_registry'[d].ws \in {device_registry[d].ws, None}
           /\ device_registry'[d].ws # None /\ online[d] => online'[d],
         \A c \in Conn : ws'[c] = "open" => ws[c] = "open",
         \A c \in Conn :
           /\ ws'[c] = "open" /\ pc[c] \in {"sendAck", "upsert", "upserted"}
           => \/ dev'[c] = dev[c] /\ pc'[c] \in {"sendAck", "upsert", "upserted"}
              \/ dev[c] \in Device => online'[dev[c]]
  PROVE  ConnectedIsOnline'
<1> SUFFICES ASSUME NEW d \in Device, stopping' = "no", device_registry'[d].ws # None,
                    ws'[device_registry'[d].ws] = "open", ~online'[d]
             PROVE  /\ dev'[device_registry'[d].ws] = d
                    /\ pc'[device_registry'[d].ws] \in {"sendAck", "upsert", "upserted"}
  BY DEF ConnectedIsOnline
<1> DEFINE c == device_registry[d].ws
<1>1. device_registry'[d].ws = c /\ c \in Conn
  BY DEF IndInv, TypeOK, Entry
<1>2. dev[c] = d /\ pc[c] \in {"sendAck", "upsert", "upserted"} /\ ws'[c] = "open"
  BY <1>1 DEF ConnectedIsOnline
<1>3. QED BY <1>1, <1>2

\* The finally block takes a device offline together with its entry.
LEMMA PresenceFinalize ==
  ASSUME IndInv, ConnectedIsOnline, NEW c \in Conn, Finalize(c), ws[c] = "closed",
         UNCHANGED <<stopping, ws>>
  PROVE  ConnectedIsOnline'
<1> USE TaskFacts
<1>1. \A d \in Device :
        /\ device_registry'[d].ws \in {device_registry[d].ws, None}
        /\ device_registry'[d].ws # None /\ online[d] => online'[d]
  BY DEF Finalize, IndInv, TypeOK, NoEntry
<1>2. \A x \in Conn : x # c => dev'[x] = dev[x] /\ pc'[x] = pc[x]
  BY DEF Finalize, Forget, IndInv, TypeOK
<1>3. QED BY <1>1, <1>2, PresenceKept

\* A call that returns to the loop was not on the way to a registration.
LEMMA PresenceReturns ==
  ASSUME IndInv, ConnectedIsOnline, NEW t \in Task, NEW d \in Device \cup {None},
         NEW n, pc[t] \in {"recv", "helloLock", "updateLock", "refuse", "notify"},
         (t \in Conn /\ Returns(t, d, n)) \/ CallReturns(t), UNCHANGED <<stopping, ws>>
  PROVE  ConnectedIsOnline'
<1> USE TaskFacts
<1>1. \A x \in Conn : x # t => dev'[x] = dev[x] /\ pc'[x] = pc[x]
  BY DEF Returns, CallReturns, Forget, IndInv, TypeOK
<1>2. UNCHANGED <<device_registry, online>>
  BY DEF Returns, CallReturns
<1>3. QED BY <1>1, <1>2, PresenceKept

LEMMA PresenceReplies ==
  ASSUME IndInv, ConnectedIsOnline, NEW c \in Conn, NEW d \in Device \cup {None},
         NEW n, pc[c] \in {"recv", "helloLock", "refuse"}, Replies(c, d, n),
         UNCHANGED <<stopping, ws>>
  PROVE  ConnectedIsOnline'
BY PresenceFinalize, PresenceReturns, TaskFacts DEF Replies

\* An entry that is installed belongs to a task that goes on to register, and no
\* other device changes.
LEMMA PresenceInstall ==
  ASSUME IndInv, ConnectedIsOnline, NEW c \in Conn, dev[c] \in Device, Install(c, dev[c]),
         \A d \in Device : online[d] => online'[d],
         UNCHANGED <<stopping, ws, dev>>
  PROVE  ConnectedIsOnline'
<1> USE TaskFacts
<1> SUFFICES ASSUME NEW d \in Device, stopping' = "no", device_registry'[d].ws # None,
                    ws'[device_registry'[d].ws] = "open", ~online'[d]
             PROVE  /\ dev'[device_registry'[d].ws] = d
                    /\ pc'[device_registry'[d].ws] \in {"sendAck", "upsert", "upserted"}
  BY DEF ConnectedIsOnline
<1>1. CASE d = dev[c]
  BY <1>1 DEF Install, IndInv, TypeOK
<1>2. CASE d # dev[c]
  <2>1. device_registry'[d] = device_registry[d] /\ device_registry[d].ws \in Conn
    BY <1>2 DEF Install, IndInv, TypeOK, Entry
  <2>2. pc'[device_registry[d].ws] \in {pc[device_registry[d].ws], "sendAck"}
    BY <2>1 DEF Install, IndInv, TypeOK
  <2>3. QED BY <2>1, <2>2 DEF ConnectedIsOnline
<1>3. QED BY <1>1, <1>2

LEMMA PresenceNext == ASSUME IndInv, ConnectedIsOnline, Next PROVE ConnectedIsOnline'
<1> USE TaskFacts
<1>1. ASSUME NEW c \in Conn, ConnectionLost(c) \/ CloseCompletes(c)
      PROVE  ConnectedIsOnline'
  BY <1>1, PresenceKept DEF ConnectionLost, CloseCompletes, serverVars, registryVars, taskVars, IndInv, TypeOK
<1>2. ASSUME NEW c \in Conn, ConnectionEnds(c) \/ AckFails(c)
      PROVE  ConnectedIsOnline'
  BY <1>2, PresenceFinalize DEF ConnectionEnds, AckFails
<1>3. ASSUME NEW c \in Conn, ReceiveInvalid(c) PROVE ConnectedIsOnline'
  BY <1>3, PresenceReplies DEF ReceiveInvalid, Receive
<1>4. ASSUME NEW c \in Conn, NEW d \in Device, ReceiveRefused(c, d) PROVE ConnectedIsOnline'
  BY <1>4, PresenceReplies DEF ReceiveRefused, Receive
<1>5. ASSUME NEW c \in Conn, NEW d \in Device, ReceiveOwned(c, d) PROVE ConnectedIsOnline'
  BY <1>5, PresenceReturns DEF ReceiveOwned, Receive
<1>6. ASSUME NEW c \in Conn, HelloRejected(c) PROVE ConnectedIsOnline'
  BY <1>6, PresenceReplies, WaitsForDevice DEF HelloRejected
<1>24. ASSUME NEW c \in Conn, RefusalSent(c) PROVE ConnectedIsOnline'
  BY <1>24, PresenceReplies, WaitsForDevice DEF RefusalSent
<1>7. ASSUME NEW c \in Conn, HelloInstalls(c) PROVE ConnectedIsOnline'
  <2>1. dev[c] \in Device
    BY <1>7, WaitsForDevice DEF HelloInstalls
  <2>2. \A d \in Device : online[d] => online'[d]
    BY <1>7 DEF HelloInstalls, IndInv, TypeOK
  <2>3. QED BY <1>7, <2>1, <2>2, PresenceInstall DEF HelloInstalls, wireVars
<1>8. ASSUME NEW c \in Conn, OldClosed(c) PROVE ConnectedIsOnline'
  <2>1. dev[c] \in Device
    BY <1>8, WaitsForDevice DEF OldClosed, Critical
  <2>2. QED BY <1>8, <2>1, PresenceInstall DEF OldClosed, registryVars, wireVars
<1>9. ASSUME NEW c \in Conn, HelloClosesOld(c) PROVE ConnectedIsOnline'
  <2>1. \A d \in Device : online[d] => online'[d]
    BY <1>9 DEF HelloClosesOld, IndInv, TypeOK
  <2>2. \A x \in Conn : ws'[x] = "open" => ws[x] = "open"
    BY <1>9 DEF HelloClosesOld, IndInv, TypeOK
  <2>3. \A x \in Conn : x # c => pc'[x] = pc[x]
    BY <1>9 DEF HelloClosesOld, IndInv, TypeOK
  <2>4. pc[c] = "helloLock" /\ UNCHANGED <<stopping, device_registry, dev>>
    BY <1>9 DEF HelloClosesOld, serverVars
  <2>5. QED BY <2>1, <2>2, <2>3, <2>4, PresenceKept
<1>10. ASSUME NEW c \in Conn, AckSent(c) PROVE ConnectedIsOnline'
  <2>1. UNCHANGED <<stopping, device_registry, online, dev, ws>>
    BY <1>10 DEF AckSent
  <2>2. \A x \in Conn : pc'[x] = IF x = c THEN "upsert" ELSE pc[x]
    BY <1>10 DEF AckSent, IndInv, TypeOK
  <2>3. QED BY <2>1, <2>2, PresenceKept
<1>11. ASSUME NEW c \in Conn, Registered(c) PROVE ConnectedIsOnline'
  <2>1. UNCHANGED <<stopping, device_registry, ws>>
    BY <1>11 DEF Registered, serverVars, wireVars
  <2>2. \A d \in Device : online'[d] = (d = dev[c] \/ online[d])
    BY <1>11 DEF Registered, IndInv, TypeOK
  <2>3. \A x \in Conn : x # c => pc'[x] = pc[x] /\ dev'[x] = dev[x]
    BY <1>11 DEF Registered, Forget, IndInv, TypeOK
  <2>4. QED BY <2>1, <2>2, <2>3, PresenceKept
<1>12. ASSUME NEW t \in Task, UpdateRefused(t) PROVE ConnectedIsOnline'
  <2>1. dev[t] \in Device
    BY <1>12, WaitsForDevice DEF UpdateRefused
  <2>2. CASE t \in Conn /\ pc' = [pc EXCEPT ![t] = "refuse"]
             /\ UNCHANGED <<device_registry, online, dev>>
    <3>1. \A x \in Conn : x # t => pc'[x] = pc[x]
      BY <2>2 DEF IndInv, TypeOK
    <3>2. pc[t] = "updateLock" /\ UNCHANGED <<stopping, ws>>
      BY <1>12 DEF UpdateRefused
    <3>3. QED BY <2>2, <3>1, <3>2, PresenceKept
  <2>3. CASE CallReturns(t)
    BY <1>12, <2>1, <2>3, PresenceReturns DEF UpdateRefused
  <2>4. QED BY <1>12, <2>2, <2>3 DEF UpdateRefused
<1>13. ASSUME NEW t \in Task, Notified(t) PROVE ConnectedIsOnline'
  <2>1. dev[t] \in Device
    BY <1>13, WaitsForDevice DEF Notified, Critical
  <2>2. QED BY <1>13, <2>1, PresenceReturns DEF Notified
<1>14. ASSUME NEW t \in Task, UpdateApplies(t) PROVE ConnectedIsOnline'
  <2>1. UNCHANGED <<stopping, online, dev, ws>>
    BY <1>14 DEF UpdateApplies, registryVars, wireVars
  <2>2. \A d \in Device : device_registry'[d].ws = device_registry[d].ws
    BY <1>14 DEF UpdateApplies, IndInv, TypeOK, Entry
  <2>3. \A x \in Conn : x # t => pc'[x] = pc[x]
    BY <1>14 DEF UpdateApplies, IndInv, TypeOK
  <2>4. pc[t] = "updateLock"
    BY <1>14 DEF UpdateApplies
  <2>5. QED BY <2>1, <2>2, <2>3, <2>4, PresenceKept
<1>15. ASSUME NEW i \in 1..Len(jobs), PoolCommits(i) PROVE ConnectedIsOnline'
  <2>1. UNCHANGED <<stopping, device_registry, online, dev, ws>>
    BY <1>15 DEF PoolCommits, serverVars, wireVars
  <2>2. \A x \in Conn : pc'[x] \in {pc[x], "upserted"}
    BY <1>15 DEF PoolCommits, IndInv, TypeOK
  <2>3. QED BY <2>1, <2>2, PresenceKept
<1>16. CASE StopBegins \/ StopEnds
  BY <1>16 DEF StopBegins, StopEnds, ConnectedIsOnline
<1>17. ASSUME NEW c \in Conn, Accept(c) PROVE ConnectedIsOnline'
  <2> SUFFICES ASSUME NEW d \in Device, stopping' = "no", device_registry'[d].ws # None,
                      ws'[device_registry'[d].ws] = "open", ~online'[d]
               PROVE  /\ dev'[device_registry'[d].ws] = d
                      /\ pc'[device_registry'[d].ws] \in {"sendAck", "upsert", "upserted"}
    BY DEF ConnectedIsOnline
  <2>1. device_registry' = device_registry /\ online' = online /\ dev' = dev /\ stopping' = stopping
    BY <1>17 DEF Accept, serverVars, registryVars
  <2>2. device_registry[d].ws \in Conn /\ device_registry[d].ws # c
    BY <1>17, <2>1 DEF Accept, IndInv, TypeOK, Entry, Unused
  <2>3. /\ ws'[device_registry[d].ws] = ws[device_registry[d].ws]
        /\ pc'[device_registry[d].ws] = pc[device_registry[d].ws]
    BY <1>17, <2>2 DEF Accept, IndInv, TypeOK
  <2>4. QED BY <2>1, <2>3 DEF ConnectedIsOnline
<1>18. ASSUME NEW t \in Task, NEW d \in Device, pc[t] \in {"recv", "idle"},
              \A x \in Task : x # t => pc'[x] = pc[x] /\ dev'[x] = dev[x],
              UNCHANGED <<stopping, device_registry, online, ws>>
       PROVE  ConnectedIsOnline'
  BY <1>18, PresenceKept
<1>19. ASSUME NEW c \in Conn, NEW d \in Device, NEW r \in Request,
              ReceiveHello(c, d, r) \/ ReceiveUpdate(c, d, r)
       PROVE  ConnectedIsOnline'
  BY <1>19, <1>18 DEF ReceiveHello, ReceiveUpdate, AskUpdate, Receive, registryVars, IndInv, TypeOK
<1>20. ASSUME NEW t \in Caller, NEW d \in Device, NEW r \in Request, CallUpdate(t, d, r)
       PROVE  ConnectedIsOnline'
  BY <1>20, <1>18 DEF CallUpdate, AskUpdate, registryVars, IndInv, TypeOK
<1>21. CASE Progress
  BY <1>21, <1>1, <1>2, <1>6, <1>7, <1>8, <1>9, <1>10, <1>11, <1>12, <1>13, <1>14,
     <1>15, <1>16, <1>24 DEF Progress
<1>22. CASE Environment
  BY <1>22, <1>1, <1>3, <1>4, <1>5, <1>16, <1>17, <1>19, <1>20 DEF Environment
<1>23. QED
  BY <1>21, <1>22 DEF Next

\* While the gateway is not stopping, a device whose entry holds an open socket is
\* online, unless that connection itself is between installing the entry and the
\* return of device_registered: a finalizer that runs late, between _mark_online
\* and the new entry, is made up for by device_registered.
THEOREM ConnectedDevicesAreOnline == Spec => []ConnectedIsOnline
<1>1. Init => ConnectedIsOnline
  BY DEF Init, ConnectedIsOnline, NoEntry
<1>2. IndInv /\ ConnectedIsOnline /\ [Next]_vars => ConnectedIsOnline'
  <2>1. ASSUME ConnectedIsOnline, UNCHANGED vars PROVE ConnectedIsOnline'
    BY <2>1 DEF vars, serverVars, registryVars, taskVars, wireVars, ConnectedIsOnline
  <2>2. QED BY <2>1, PresenceNext
<1>3. QED
  BY <1>1, <1>2, Inductive, PTL DEF Spec

-----------------------------------------------------------------------------
(* The refinement: every step is a step of DeviceOwnership or a stutter.   *)

owner == [d \in Device |-> device_registry[d].ws]
open == {c \in Conn : ws[c] = "open"}
ended == {c \in Conn : ws[c] \in {"closing", "closed"}}

LEMMA AbstractInit == Init => Ownership!Init
BY DEF Init, Ownership!Init, NoEntry

LEMMA AbstractStutter ==
  ASSUME UNCHANGED ws,
         \A d \in Device : device_registry'[d].ws = device_registry[d].ws
  PROVE  UNCHANGED Ownership!vars
BY DEF Ownership!vars

\* Opening or refusing a connection.
LEMMA AbstractAccept ==
  ASSUME IndInv, NEW c \in Conn, Accept(c)
  PROVE  Ownership!Connect(c) \/ Ownership!Refuse(c)
<1>1. ws[c] = "new" /\ ws \in [Conn -> {"new", "open", "closing", "closed"}]
  BY DEF IndInv, TypeOK, Unused, Accept
<1>2. device_registry' = device_registry
  BY DEF Accept, serverVars
<1>3. CASE stopping = "no"
  BY <1>1, <1>2, <1>3 DEF Accept, Ownership!Connect
<1>4. CASE stopping # "no"
  BY <1>1, <1>2, <1>4 DEF Accept, Ownership!Refuse
<1>5. QED
  BY <1>3, <1>4

\* A socket leaves the open state for good: the peer's, the replaced one, or all.
LEMMA AbstractEnd ==
  ASSUME IndInv, NEW cs \in SUBSET Conn,
         \A c \in cs : ws[c] = "open" /\ ws'[c] \in {"closing", "closed"},
         \A c \in Conn \ cs :
           \/ ws'[c] = ws[c]
           \/ ws[c] = "closing" /\ ws'[c] = "closed",
         UNCHANGED device_registry
  PROVE  Ownership!End(cs)
BY DEF Ownership!End

LEMMA AbstractClaim ==
  ASSUME IndInv, NEW c \in Conn, pc[c] # "new", NEW d \in Device, d = dev[c],
         device_registry[d].ws # None => ws[device_registry[d].ws] = "closed",
         Install(c, dev[c]), UNCHANGED ws
  PROVE  Ownership!Claim(c, d)
<1>1. /\ device_registry \in [Device -> Entry]
      /\ ws \in [Conn -> {"new", "open", "closing", "closed"}]
      /\ ws[c] # "new"
  BY DEF IndInv, TypeOK, Unused
<1>2. device_registry[d].ws \in Conn \cup {None}
  BY <1>1 DEF Entry
<1>3. \A x \in Device :
        device_registry'[x].ws = IF x = d THEN c ELSE device_registry[x].ws
  BY <1>1 DEF Install
<1>4. c \in open \cup ended
  BY <1>1 DEF open, ended
<1>5. owner[d] \in ended \cup {None}
  BY <1>2 DEF owner, ended
<1>6. owner' = [owner EXCEPT ![d] = c]
  BY <1>3 DEF owner
<1>7. open' = open /\ ended' = ended
  BY DEF open, ended
<1>8. QED
  BY <1>4, <1>5, <1>6, <1>7 DEF Ownership!Claim, owner, open, ended

LEMMA AbstractFinalize ==
  ASSUME IndInv, NEW c \in Conn, ws[c] = "closed", Finalize(c), UNCHANGED ws
  PROVE  (\E d \in Device : Ownership!Abandon(d)) \/ UNCHANGED Ownership!vars
<1>1. device_registry' = [d \in Device |->
        IF d = device_id[c] /\ Owns(c, d) THEN NoEntry ELSE device_registry[d]]
  BY DEF Finalize
<1>2. CASE device_id[c] \in Device /\ Owns(c, device_id[c])
  <2>1. PICK d \in Device : d = device_id[c] /\ Owns(c, d)
    BY <1>2
  <2>2. owner' = [owner EXCEPT ![d] = None]
    BY <1>1, <2>1 DEF owner, NoEntry
  <2>3. owner[d] \in ended
    BY <2>1 DEF owner, ended, Owns
  <2>4. Ownership!Abandon(d)
    BY <2>2, <2>3 DEF Ownership!Abandon, owner, open, ended
  <2>5. QED BY <2>4
<1>3. CASE ~(device_id[c] \in Device /\ Owns(c, device_id[c]))
  <2>1. \A d \in Device : device_registry'[d].ws = device_registry[d].ws
    BY <1>1, <1>3
  <2>2. QED BY <2>1, AbstractStutter
<1>4. QED
  BY <1>2, <1>3

\* A reply that fails ends the connection; one that succeeds changes no entry.
LEMMA AbstractReplies ==
  ASSUME IndInv, NEW c \in Conn, NEW id, NEW left, Replies(c, id, left), UNCHANGED ws
  PROVE  Ownership!Next \/ UNCHANGED Ownership!vars
<1>1. CASE Returns(c, id, left)
  BY <1>1, AbstractStutter DEF Returns
<1>2. CASE ws[c] = "closed" /\ Finalize(c)
  BY <1>2, AbstractFinalize DEF Ownership!Next
<1>3. QED
  BY <1>1, <1>2 DEF Replies

LEMMA AbstractStep ==
  ASSUME IndInv, Next PROVE Ownership!Next \/ UNCHANGED Ownership!vars
<1>1. ASSUME NEW c \in Conn,
             ConnectionLost(c) \/ CloseCompletes(c)
      PROVE  Ownership!Next \/ UNCHANGED Ownership!vars
  <2>1. /\ ws' = [ws EXCEPT ![c] = "closed"]
        /\ ws[c] \in {"open", "closing"}
        /\ device_registry' = device_registry
        /\ ws \in [Conn -> {"new", "open", "closing", "closed"}]
    BY <1>1 DEF ConnectionLost, CloseCompletes, serverVars, IndInv, TypeOK
  <2>2. PICK cs \in SUBSET Conn : cs = {x \in {c} : ws[x] = "open"}
    OBVIOUS
  <2>3. Ownership!End(cs)
    BY <2>1, <2>2, AbstractEnd
  <2>4. QED BY <2>3 DEF Ownership!Next
<1>2. ASSUME NEW c \in Conn, ConnectionEnds(c)
      PROVE  Ownership!Next \/ UNCHANGED Ownership!vars
  BY <1>2, AbstractFinalize DEF ConnectionEnds, Ownership!Next
<1>3. ASSUME NEW c \in Conn, HelloRejected(c) \/ ReceiveInvalid(c) \/ RefusalSent(c)
      PROVE  Ownership!Next \/ UNCHANGED Ownership!vars
  BY <1>3, AbstractReplies DEF HelloRejected, ReceiveInvalid, RefusalSent
<1>4. ASSUME NEW c \in Conn, NEW d \in Device, ReceiveRefused(c, d)
      PROVE  Ownership!Next \/ UNCHANGED Ownership!vars
  BY <1>4, AbstractReplies DEF ReceiveRefused
<1>5. ASSUME NEW c \in Conn, HelloInstalls(c)
      PROVE  Ownership!Next \/ UNCHANGED Ownership!vars
  <2>1. PICK d \in Device : d = dev[c]
    BY <1>5, WaitsForDevice, TaskFacts DEF HelloInstalls
  <2>2. Ownership!Claim(c, d)
    BY <1>5, <2>1, AbstractClaim DEF HelloInstalls, wireVars
  <2>3. QED BY <2>2 DEF Ownership!Next
<1>6. ASSUME NEW c \in Conn, OldClosed(c)
      PROVE  Ownership!Next \/ UNCHANGED Ownership!vars
  <2>1. PICK d \in Device : d = dev[c]
    BY <1>6, WaitsForDevice, TaskFacts DEF OldClosed, Critical
  <2>2. device_registry[d].ws # None => ws[device_registry[d].ws] = "closed"
    BY <1>6, <2>1 DEF IndInv, OldClosed, ReplacingOld
  <2>3. Ownership!Claim(c, d)
    BY <1>6, <2>1, <2>2, AbstractClaim DEF OldClosed, wireVars
  <2>4. QED BY <2>3 DEF Ownership!Next
<1>7. ASSUME NEW c \in Conn, HelloClosesOld(c)
      PROVE  Ownership!Next \/ UNCHANGED Ownership!vars
  <2> DEFINE old == device_registry[dev[c]].ws
  <2>1. dev[c] \in Device
    BY <1>7, WaitsForDevice, TaskFacts DEF HelloClosesOld
  <2>2. /\ old \in Conn /\ ws[old] \in {"open", "closing"}
        /\ ws' = [ws EXCEPT ![old] = "closing"]
        /\ device_registry' = device_registry
        /\ ws \in [Conn -> {"new", "open", "closing", "closed"}]
    BY SMTT(30), <1>7, <2>1 DEF HelloClosesOld, serverVars, IndInv, TypeOK, Entry, Unused
  <2>3. PICK cs \in SUBSET Conn : cs = {x \in {old} : ws[x] = "open"}
    BY <2>2
  <2>4. Ownership!End(cs)
    BY <2>2, <2>3, AbstractEnd
  <2>5. QED BY <2>4 DEF Ownership!Next
<1>8. ASSUME NEW c \in Conn, AckFails(c)
      PROVE  Ownership!Next \/ UNCHANGED Ownership!vars
  BY <1>8, AbstractFinalize DEF AckFails, Ownership!Next
<1>9. ASSUME NEW c \in Conn, AckSent(c) \/ Registered(c)
      PROVE  Ownership!Next \/ UNCHANGED Ownership!vars
  BY <1>9, AbstractStutter DEF AckSent, Registered, serverVars, wireVars
<1>10. ASSUME NEW t \in Task, UpdateRefused(t) \/ Notified(t)
       PROVE  Ownership!Next \/ UNCHANGED Ownership!vars
  BY <1>10, AbstractStutter DEF UpdateRefused, Notified, Returns, CallReturns
<1>11. ASSUME NEW t \in Task, UpdateApplies(t)
       PROVE  Ownership!Next \/ UNCHANGED Ownership!vars
  <2>1. /\ device_registry \in [Device -> Entry]
        /\ device_registry' =
             [device_registry EXCEPT ![dev[t]].conv = Resolve(conv[t])]
        /\ ws' = ws
    BY <1>11 DEF IndInv, TypeOK, UpdateApplies, wireVars
  <2>2. \A d \in Device : device_registry'[d].ws = device_registry[d].ws
    BY <2>1 DEF Entry
  <2>3. QED BY <2>1, <2>2, AbstractStutter
<1>12. ASSUME NEW i \in 1..Len(jobs), PoolCommits(i)
       PROVE  Ownership!Next \/ UNCHANGED Ownership!vars
  BY <1>12, AbstractStutter DEF PoolCommits, serverVars, wireVars
<1>13. ASSUME StopBegins
       PROVE  Ownership!Next \/ UNCHANGED Ownership!vars
  <2>1. PICK cs \in SUBSET Conn : cs = {c \in Conn : ws[c] = "open"}
    OBVIOUS
  <2>2. Ownership!End(cs)
    BY <1>13, <2>1, AbstractEnd DEF StopBegins
  <2>3. QED BY <2>2 DEF Ownership!Next
<1>14. ASSUME StopEnds
       PROVE  Ownership!Next \/ UNCHANGED Ownership!vars
  BY <1>14, AbstractStutter DEF StopEnds, wireVars
<1>15. ASSUME NEW c \in Conn, Accept(c)
       PROVE  Ownership!Next \/ UNCHANGED Ownership!vars
  BY <1>15, AbstractAccept DEF Ownership!Next
<1>16. ASSUME NEW c \in Conn, NEW d \in Device, ReceiveOwned(c, d)
       PROVE  Ownership!Next \/ UNCHANGED Ownership!vars
  BY <1>16, AbstractStutter DEF ReceiveOwned, Returns
<1>17. ASSUME NEW c \in Conn, NEW d \in Device, NEW r \in Request,
              ReceiveHello(c, d, r) \/ ReceiveUpdate(c, d, r)
       PROVE  Ownership!Next \/ UNCHANGED Ownership!vars
  BY <1>17, AbstractStutter DEF ReceiveHello, ReceiveUpdate, AskUpdate
<1>18. ASSUME NEW t \in Caller, NEW d \in Device, NEW r \in Request,
              CallUpdate(t, d, r)
       PROVE  Ownership!Next \/ UNCHANGED Ownership!vars
  BY <1>18, AbstractStutter DEF CallUpdate, AskUpdate
<1>19. CASE Progress
  BY <1>19, <1>1, <1>2, <1>3, <1>5, <1>6, <1>7, <1>8, <1>9, <1>10, <1>11, <1>12,
     <1>14 DEF Progress
<1>20. CASE Environment
  BY <1>20, <1>1, <1>3, <1>4, <1>13, <1>15, <1>16, <1>17, <1>18 DEF Environment
<1>21. QED
  BY <1>19, <1>20 DEF Next

\* The server implements DeviceOwnership: a device id changes hands only once its
\* former connection can no longer be written to, and is dropped only when its
\* connection is gone.
THEOREM Refinement == Spec => ImplementsOwnership
<1>1. IndInv /\ [Next]_vars => [Ownership!Next]_(Ownership!vars)
  <2>1. ASSUME IndInv, Next PROVE Ownership!Next \/ UNCHANGED Ownership!vars
    BY <2>1, AbstractStep
  <2>2. ASSUME UNCHANGED vars PROVE UNCHANGED Ownership!vars
    BY <2>2, AbstractStutter DEF vars, serverVars, wireVars
  <2>3. QED BY <2>1, <2>2
<1>2. QED
  BY <1>1, AbstractInit, Inductive, PTL DEF Spec, ImplementsOwnership, Ownership!Spec
=============================================================================
