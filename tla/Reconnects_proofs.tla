-------------------------- MODULE Reconnects_proofs --------------------------
(***************************************************************************)
(* What survives a lost connection, at its two ends.                       *)
(*                                                                         *)
(* The gateway (DeviceRegistry), for every set of devices, connections and *)
(* HTTP callers and any size of the pool: the tables of RegistryService    *)
(* and its monitor agree with the connections and the rows, and a device   *)
(* that waits for its former connection gets its state back.               *)
(*                                                                         *)
(* The Android page (PwaClient), for every number of recordings, responses *)
(* and chunks and any use of it: nothing is heard twice, a recording is    *)
(* heard whole, and a response that counts as complete is.                 *)
(***************************************************************************)
EXTENDS DeviceRegistry, PwaClient, SequenceLemmas

LEMMA TaskFacts ==
  /\ Conn \subseteq Task /\ Caller \subseteq Task
  /\ \A t \in Task : t \in Conn \/ t \in Caller
  /\ \A t \in Conn : t \notin Caller
  /\ None \notin Conn /\ None \notin Task
  /\ \A c \in Conn : DeviceOf[c] \in Device
BY TaskAssumption, DeviceOfAssumption DEF Task

\* What a job of each kind holds.
LEMMA JobKinds ==
  ASSUME NEW job \in Job
  PROVE  /\ job.kind \in {"upsert", "state", "beat", "pack", "select", "raise"}
         /\ job.task \in Task /\ job.dev \in Device
         /\ job.kind \in {"upsert", "state", "beat"} => job.task \in Conn
         /\ job.kind \in {"pack", "select", "raise"} => job.task \in Caller
         /\ job.kind = "upsert" => job.row \in Row
         /\ job.kind = "state" => job.state \subseteq Field
         /\ job.kind = "pack" => job.pack \in Pack \cup {None}
         /\ job.kind = "raise" => job.priority \in Nat
<1>1. CASE job \in [kind : {"upsert"}, task : Conn, dev : Device, row : Row]
  BY <1>1, TaskFacts
<1>2. CASE job \in [kind : {"state"}, task : Conn, dev : Device, state : SUBSET Field]
  BY <1>2, TaskFacts
<1>3. CASE job \in [kind : {"beat"}, task : Conn, dev : Device]
  BY <1>3, TaskFacts
<1>4. CASE job \in [kind : {"pack"}, task : Caller, dev : Device, pack : Pack \cup {None}]
  BY <1>4, TaskFacts
<1>5. CASE job \in [kind : {"select"}, task : Caller, dev : Device]
  BY <1>5, TaskFacts
<1>6. CASE job \in [kind : {"raise"}, task : Caller, dev : Device, priority : Nat]
  BY <1>6, TaskFacts
<1> QED BY <1>1, <1>2, <1>3, <1>4, <1>5, <1>6 DEF Job

LEMMA QueueFacts ==
  ASSUME TypeOK
  PROVE  Len(jobs) \in Nat /\ \A i \in 1..Len(jobs) : jobs[i] \in Job
BY LenProperties, ElementOfSeq DEF TypeOK

-----------------------------------------------------------------------------
(* The queue of the pool.                                                  *)

\* Where a task waits for the pool.
Waits == {"upsert", "reporting", "beating", "packing", "raising"}

LEMMA AwaitingWaits == \A job : Awaiting(job) \in Waits
BY DEF Awaiting, Waits

\* A task that awaits nothing moves on: the jobs are as they were.
LEMMA QueueKept ==
  ASSUME IndInv, NEW t \in Task, NEW x, jobs' = jobs, row' = row,
         pc' = [pc EXCEPT ![t] = x], pc[t] \notin Waits
  PROVE  JobsAwaited' /\ PrioritiesBounded'
<1> USE QueueFacts, JobKinds DEF IndInv, RegistryInv
<1>1. \A i \in 1..Len(jobs) : jobs[i].task # t /\ pc'[jobs[i].task] = pc[jobs[i].task]
  BY AwaitingWaits DEF JobsAwaited, TypeOK
<1>2. JobsAwaited'
  BY <1>1 DEF JobsAwaited, Awaiting
<1>3. PrioritiesBounded'
  BY DEF PrioritiesBounded
<1> QED BY <1>2, <1>3

\* A task that awaits nothing queues a job and awaits it.
LEMMA QueueGrows ==
  ASSUME IndInv, NEW t \in Task, NEW job \in Job, jobs' = Append(jobs, job), row' = row,
         pc' = [pc EXCEPT ![t] = Awaiting(job)], pc[t] \notin Waits,
         job.task = t, t \in Conn => job.dev = DeviceOf[t],
         job.kind = "upsert" => /\ job.row.session = t
                                /\ job.row.priority = row[job.dev].priority,
         job.kind # "raise"
  PROVE  jobs' \in Seq(Job) /\ JobsAwaited' /\ PrioritiesBounded'
<1> USE QueueFacts, JobKinds DEF IndInv, RegistryInv
<1>1. /\ jobs' \in Seq(Job) /\ Len(jobs') = Len(jobs) + 1
      /\ \A i \in 1..Len(jobs) : jobs'[i] = jobs[i]
      /\ jobs'[Len(jobs) + 1] = job
  BY AppendProperties DEF TypeOK
<1>2. \A i \in 1..Len(jobs) : jobs[i].task # t /\ pc'[jobs[i].task] = pc[jobs[i].task]
  BY AwaitingWaits DEF JobsAwaited, TypeOK
<1>3. pc'[t] = Awaiting(job)
  BY DEF TypeOK
<1>4. \A i \in 1..Len(jobs') : i \in 1..Len(jobs) \/ i = Len(jobs) + 1
  BY <1>1
<1>5. JobsAwaited'
  <2>1. ASSUME NEW i \in 1..Len(jobs')
        PROVE  /\ pc'[jobs'[i].task] = Awaiting(jobs'[i])
               /\ jobs'[i].task \in Conn => jobs'[i].dev = DeviceOf[jobs'[i].task]
               /\ jobs'[i].kind = "upsert" => jobs'[i].row.session = jobs'[i].task
    <3>1. CASE i \in 1..Len(jobs)
      BY <3>1, <1>1, <1>2 DEF JobsAwaited
    <3>2. CASE i = Len(jobs) + 1
      BY <3>2, <1>1, <1>3
    <3> QED BY <3>1, <3>2, <1>4
  <2>2. ASSUME NEW i \in 1..Len(jobs'), NEW j \in 1..Len(jobs'), jobs'[i].task = jobs'[j].task
        PROVE  i = j
    BY <2>2, <1>1, <1>2, <1>4 DEF JobsAwaited
  <2> QED BY <2>1, <2>2 DEF JobsAwaited, Awaiting
<1>6. PrioritiesBounded'
  <2>1. PICK n \in Nat :
          /\ \A d \in Device : row[d].priority <= n
          /\ \A i \in 1..Len(jobs) : /\ jobs[i].kind = "upsert" => jobs[i].row.priority <= n
                                     /\ jobs[i].kind = "raise" => jobs[i].priority <= n
    BY DEF PrioritiesBounded
  <2>2. \A i \in 1..Len(jobs') : /\ jobs'[i].kind = "upsert" => jobs'[i].row.priority <= n
                                 /\ jobs'[i].kind = "raise" => jobs'[i].priority <= n
    BY <2>1, <1>1, <1>4
  <2> QED BY <2>1, <2>2 DEF PrioritiesBounded
<1> QED BY <1>1, <1>5, <1>6

\* Where the jobs stood that are left after one is taken.
LEMMA JobsLeft ==
  ASSUME TypeOK, NEW i \in 1..Len(jobs), jobs' = RemoveAt(jobs, i)
  PROVE  /\ jobs' \in Seq(Job) /\ Len(jobs') = Len(jobs) - 1
         /\ \A j \in 1..Len(jobs') :
              \E k \in 1..Len(jobs) : k # i /\ k = (IF j < i THEN j ELSE j + 1) /\ jobs'[j] = jobs[k]
<1>1. /\ jobs' \in Seq(Job) /\ Len(jobs') = Len(jobs) - 1
      /\ \A j \in 1..Len(jobs) - 1 : jobs'[j] = IF j < i THEN jobs[j] ELSE jobs[j + 1]
  BY Removed DEF TypeOK
<1>2. ASSUME NEW j \in 1..Len(jobs')
      PROVE  \E k \in 1..Len(jobs) : k # i /\ k = (IF j < i THEN j ELSE j + 1) /\ jobs'[j] = jobs[k]
  <2>1. j \in Int /\ i \in Int /\ Len(jobs) \in Nat
    BY QueueFacts, <1>1
  <2>2. CASE j < i
    BY <2>1, <2>2, <1>1
  <2>3. CASE ~(j < i)
    <3>1. j + 1 \in 1..Len(jobs) /\ j + 1 # i
      BY <2>1, <2>3, <1>1
    <3>2. jobs'[j] = jobs[j + 1]
      BY <2>1, <2>3, <1>1
    <3> QED BY <3>1, <3>2, <2>3
  <2> QED BY <2>2, <2>3
<1> QED BY <1>1, <1>2

\* A job is done, and its task goes on.
LEMMA QueueShrinks ==
  ASSUME IndInv, NEW i \in 1..Len(jobs), jobs' = RemoveAt(jobs, i), NEW x,
         pc' = [pc EXCEPT ![jobs[i].task] = x]
  PROVE  JobsAwaited'
<1> USE QueueFacts, JobKinds DEF IndInv, RegistryInv
<1>1. \A j \in 1..Len(jobs') :
        \E k \in 1..Len(jobs) : k # i /\ k = (IF j < i THEN j ELSE j + 1) /\ jobs'[j] = jobs[k]
  BY JobsLeft
<1>2. \A k \in 1..Len(jobs) : k # i => pc'[jobs[k].task] = pc[jobs[k].task]
  BY DEF JobsAwaited, TypeOK
<1>3. ASSUME NEW j \in 1..Len(jobs')
      PROVE  /\ pc'[jobs'[j].task] = Awaiting(jobs'[j])
             /\ jobs'[j].task \in Conn => jobs'[j].dev = DeviceOf[jobs'[j].task]
             /\ jobs'[j].kind = "upsert" => jobs'[j].row.session = jobs'[j].task
  <2>1. PICK k \in 1..Len(jobs) : k # i /\ jobs'[j] = jobs[k]
    BY <1>1
  <2> QED BY <2>1, <1>2 DEF JobsAwaited
<1>4. ASSUME NEW j \in 1..Len(jobs'), NEW l \in 1..Len(jobs'), jobs'[j].task = jobs'[l].task
      PROVE  j = l
  <2>1. PICK k \in 1..Len(jobs) : k = (IF j < i THEN j ELSE j + 1) /\ jobs'[j] = jobs[k]
    BY <1>1
  <2>2. PICK m \in 1..Len(jobs) : m = (IF l < i THEN l ELSE l + 1) /\ jobs'[l] = jobs[m]
    BY <1>1
  <2>3. k = m
    BY <2>1, <2>2, <1>4 DEF JobsAwaited
  <2>4. j \in Int /\ l \in Int /\ i \in Int
    BY JobsLeft
  <2> QED BY <2>1, <2>2, <2>3, <2>4
<1> QED BY <1>3, <1>4 DEF JobsAwaited, Awaiting

-----------------------------------------------------------------------------
(* The steps of a connection.                                              *)

LEMMA HelloStep == ASSUME IndInv, NEW c \in Conn, Hello(c), UNCHANGED patient PROVE IndInv'
<1> USE TaskFacts DEF IndInv, RegistryInv
<1> DEFINE d == DeviceOf[c]
<1>1. PICK x \in {"ack", "hello"} : pc' = [pc EXCEPT ![c] = x]
  BY DEF Hello
<1>2. /\ online' = [online EXCEPT ![d] = TRUE]
      /\ owner' = owner \/ owner' = [owner EXCEPT ![d] = c]
      /\ pc'[c] \in {"ack", "hello"}
  BY <1>1 DEF Hello, TypeOK
<1>3. UNCHANGED <<heard, count, saved, want, row, jobs, restarts>> /\ pc[c] = "idle"
  BY DEF Hello
<1>4. TypeOK'
  BY <1>1, <1>2, <1>3 DEF TypeOK
<1>5. JobsAwaited' /\ PrioritiesBounded'
  BY <1>1, <1>3, QueueKept DEF Waits
<1>6. HeardIsOnline' /\ OwnerIsServed' /\ OwnersDevice'
  <2>1. HeardIsOnline' /\ OwnersDevice'
    BY <1>2, <1>3 DEF TypeOK, HeardIsOnline, OwnersDevice
  <2>2. ASSUME NEW e \in Device, owner'[e] # None,
               pc'[owner'[e]] \in {"open", "beating", "beaten", "reporting"}
        PROVE  online'[e] /\ e \in heard' /\ Known(e)'
    <3>1. owner'[e] # c
      BY <1>2, <2>2
    <3>2. owner'[e] = owner[e]
      BY <1>2, <3>1 DEF TypeOK
    <3>3. pc'[owner[e]] = pc[owner[e]]
      BY <1>1, <2>2, <3>1, <3>2 DEF TypeOK
    <3> QED BY <1>2, <1>3, <2>2, <3>2, <3>3 DEF TypeOK, OwnerIsServed, Known
  <2> QED BY <2>1, <2>2 DEF OwnerIsServed
<1>7. RegisteredIsKnown' /\ AskedIsNamed'
  BY <1>1, <1>3 DEF TypeOK, RegisteredIsKnown, AskedIsNamed, Known
<1> QED BY <1>4, <1>5, <1>6, <1>7

LEMMA InstallStep == ASSUME IndInv, NEW c \in Conn, Install(c), UNCHANGED patient PROVE IndInv'
<1> USE TaskFacts DEF IndInv, RegistryInv
<1> DEFINE d == DeviceOf[c]
<1>1. /\ pc' = [pc EXCEPT ![c] = "ack"] /\ pc[c] = "hello"
      /\ owner' = [owner EXCEPT ![d] = c]
      /\ UNCHANGED <<online, heard, count, saved, want, row, jobs, restarts>>
  BY DEF Install
<1>2. TypeOK'
  BY <1>1 DEF TypeOK
<1>3. JobsAwaited' /\ PrioritiesBounded'
  BY <1>1, QueueKept DEF Waits
<1>4. HeardIsOnline' /\ OwnersDevice' /\ RegisteredIsKnown' /\ AskedIsNamed'
  BY <1>1 DEF TypeOK, HeardIsOnline, OwnersDevice, RegisteredIsKnown, AskedIsNamed, Known
<1>5. OwnerIsServed'
  BY <1>1 DEF TypeOK, OwnerIsServed, Known
<1> QED BY <1>2, <1>3, <1>4, <1>5

LEMMA AckFailsStep == ASSUME IndInv, NEW c \in Conn, AckFails(c), UNCHANGED patient PROVE IndInv'
<1> USE TaskFacts DEF IndInv, RegistryInv
<1>1. /\ pc' = [pc EXCEPT ![c] = "done"] /\ pc[c] = "ack"
      /\ UNCHANGED <<owner, online, heard, count, saved, want, row, jobs, restarts>>
  BY DEF AckFails, memory
<1>2. TypeOK'
  BY <1>1 DEF TypeOK
<1>3. JobsAwaited' /\ PrioritiesBounded'
  BY <1>1, QueueKept DEF Waits
<1>4. HeardIsOnline' /\ OwnersDevice' /\ RegisteredIsKnown' /\ AskedIsNamed'
  BY <1>1 DEF TypeOK, HeardIsOnline, OwnersDevice, RegisteredIsKnown, AskedIsNamed, Known
<1>5. OwnerIsServed'
  BY <1>1 DEF TypeOK, OwnerIsServed, Known
<1> QED BY <1>2, <1>3, <1>4, <1>5

LEMMA RegisterStep == ASSUME IndInv, NEW c \in Conn, Register(c), UNCHANGED patient PROVE IndInv'
<1> USE TaskFacts DEF IndInv, RegistryInv
<1> DEFINE d == DeviceOf[c]
           job == [kind |-> "upsert", task |-> c, dev |-> d, row |-> Rebuilt(c, d)]
<1>1. /\ pc' = [pc EXCEPT ![c] = "upsert"] /\ pc[c] = "ack"
      /\ saved' = [saved EXCEPT ![d] = {}]
      /\ jobs' = Append(jobs, job)
      /\ UNCHANGED <<owner, online, heard, count, want, row, restarts>>
  BY DEF Register
<1>2. Rebuilt(c, d) \in Row
  BY DEF TypeOK, Rebuilt, Row, Field
<1>3. job \in Job
  BY <1>2 DEF Job
<1>4. job.row.session = c /\ job.row.priority = row[d].priority /\ Awaiting(job) = "upsert"
  BY DEF Rebuilt, Awaiting
<1> HIDE DEF job
<1>5. job.task = c /\ job.dev = d /\ job.kind = "upsert"
  BY DEF job
<1>6. jobs' \in Seq(Job) /\ JobsAwaited' /\ PrioritiesBounded'
  BY <1>1, <1>3, <1>4, <1>5, QueueGrows DEF Waits
<1>7. TypeOK'
  BY <1>1, <1>6 DEF TypeOK
<1>8. HeardIsOnline' /\ OwnersDevice' /\ RegisteredIsKnown' /\ AskedIsNamed'
  BY <1>1 DEF TypeOK, HeardIsOnline, OwnersDevice, RegisteredIsKnown, AskedIsNamed, Known
<1>9. OwnerIsServed'
  BY <1>1 DEF TypeOK, OwnerIsServed, Known
<1> QED BY <1>6, <1>7, <1>8, <1>9

LEMMA RegisteredStep == ASSUME IndInv, NEW c \in Conn, Registered(c), UNCHANGED patient PROVE IndInv'
<1> USE TaskFacts DEF IndInv, RegistryInv
<1> DEFINE d == DeviceOf[c]
<1>1. /\ pc' = [pc EXCEPT ![c] = "open"] /\ pc[c] = "upserted"
      /\ online' = [online EXCEPT ![d] = TRUE] /\ heard' = heard \cup {d}
      /\ UNCHANGED <<owner, count, saved, want, row, jobs, restarts>>
  BY DEF Registered
<1>2. TypeOK'
  BY <1>1 DEF TypeOK
<1>3. JobsAwaited' /\ PrioritiesBounded'
  BY <1>1, QueueKept DEF Waits
<1>4. HeardIsOnline' /\ OwnersDevice' /\ RegisteredIsKnown' /\ AskedIsNamed'
  BY <1>1 DEF TypeOK, HeardIsOnline, OwnersDevice, RegisteredIsKnown, AskedIsNamed, Known
<1>5. OwnerIsServed'
  <2>1. ASSUME NEW e \in Device, owner[e] # None,
               pc'[owner[e]] \in {"open", "beating", "beaten", "reporting"}
        PROVE  online'[e] /\ e \in heard' /\ Known(e)
    <3>1. CASE owner[e] = c
      BY <1>1, <3>1 DEF TypeOK, OwnersDevice, RegisteredIsKnown
    <3>2. CASE owner[e] # c
      BY <1>1, <2>1, <3>2 DEF TypeOK, OwnerIsServed
    <3> QED BY <3>1, <3>2
  <2> QED BY <1>1, <2>1 DEF OwnerIsServed, Known
<1> QED BY <1>2, <1>3, <1>4, <1>5

LEMMA HeartbeatStep == ASSUME IndInv, NEW c \in Conn, Heartbeat(c), UNCHANGED patient PROVE IndInv'
<1> USE TaskFacts DEF IndInv, RegistryInv
<1> DEFINE d == DeviceOf[c]
           job == [kind |-> "beat", task |-> c, dev |-> d]
<1>1. /\ pc' = [pc EXCEPT ![c] = "beating"] /\ pc[c] = "open" /\ owner[d] = c
      /\ heard' = heard \cup {d}
      /\ jobs' = Append(jobs, job)
      /\ UNCHANGED <<owner, online, count, saved, want, row, restarts>>
  BY DEF Heartbeat
<1>2. job \in Job /\ Awaiting(job) = "beating"
  BY DEF Job, Awaiting
<1> HIDE DEF job
<1>3. job.task = c /\ job.dev = d /\ job.kind = "beat"
  BY DEF job
<1>4. jobs' \in Seq(Job) /\ JobsAwaited' /\ PrioritiesBounded'
  BY <1>1, <1>2, <1>3, QueueGrows DEF Waits
<1>5. TypeOK'
  BY <1>1, <1>4 DEF TypeOK
<1>6. online[d] /\ d \in Device
  BY <1>1 DEF OwnerIsServed
<1>7. HeardIsOnline' /\ OwnersDevice' /\ RegisteredIsKnown' /\ AskedIsNamed'
  BY <1>1, <1>6 DEF TypeOK, HeardIsOnline, OwnersDevice, RegisteredIsKnown, AskedIsNamed, Known
<1>8. OwnerIsServed'
  BY <1>1 DEF TypeOK, OwnerIsServed, Known
<1> QED BY <1>4, <1>5, <1>7, <1>8

LEMMA BeatenStep == ASSUME IndInv, NEW c \in Conn, Beaten(c), UNCHANGED patient PROVE IndInv'
<1> USE TaskFacts DEF IndInv, RegistryInv
<1>1. /\ pc' = [pc EXCEPT ![c] = "open"] /\ pc[c] = "beaten"
      /\ UNCHANGED <<owner, online, heard, count, saved, want, row, jobs, restarts>>
  BY DEF Beaten, memory
<1>2. TypeOK'
  BY <1>1 DEF TypeOK
<1>3. JobsAwaited' /\ PrioritiesBounded'
  BY <1>1, QueueKept DEF Waits
<1>4. HeardIsOnline' /\ OwnersDevice' /\ RegisteredIsKnown' /\ AskedIsNamed'
  BY <1>1 DEF TypeOK, HeardIsOnline, OwnersDevice, RegisteredIsKnown, AskedIsNamed, Known
<1>5. OwnerIsServed'
  BY <1>1 DEF TypeOK, OwnerIsServed, Known
<1> QED BY <1>2, <1>3, <1>4, <1>5

LEMMA ReportStep == ASSUME IndInv, NEW c \in Conn, Report(c), UNCHANGED patient PROVE IndInv'
<1> USE TaskFacts DEF IndInv, RegistryInv
<1> DEFINE d == DeviceOf[c]
<1>1. PICK fields \in Reports :
        jobs' = Append(jobs, [kind |-> "state", task |-> c, dev |-> d, state |-> fields])
  BY DEF Report
<1> DEFINE job == [kind |-> "state", task |-> c, dev |-> d, state |-> fields]
<1>2. /\ pc' = [pc EXCEPT ![c] = "reporting"] /\ pc[c] \in {"open", "beaten"}
      /\ UNCHANGED <<owner, online, heard, count, saved, want, row, restarts>>
  BY DEF Report, memory
<1>3. job \in Job /\ Awaiting(job) = "reporting"
  BY DEF Job, Awaiting, Field
<1>4. job.task = c /\ job.dev = d /\ job.kind = "state" /\ jobs' = Append(jobs, job)
  BY <1>1
<1> HIDE DEF job
<1>5. jobs' \in Seq(Job) /\ JobsAwaited' /\ PrioritiesBounded'
  BY <1>2, <1>3, <1>4, QueueGrows DEF Waits
<1>6. TypeOK'
  BY <1>2, <1>5 DEF TypeOK
<1>7. HeardIsOnline' /\ OwnersDevice' /\ RegisteredIsKnown' /\ AskedIsNamed'
  BY <1>2 DEF TypeOK, HeardIsOnline, OwnersDevice, RegisteredIsKnown, AskedIsNamed, Known
<1>8. OwnerIsServed'
  BY <1>2 DEF TypeOK, OwnerIsServed, Known
<1> QED BY <1>5, <1>6, <1>7, <1>8

LEMMA CloseStep == ASSUME IndInv, NEW c \in Conn, Close(c), UNCHANGED patient PROVE IndInv'
<1> USE TaskFacts DEF IndInv, RegistryInv
<1> DEFINE d == DeviceOf[c]
<1>1. /\ pc' = [pc EXCEPT ![c] = "done"] /\ pc[c] = "open"
      /\ UNCHANGED <<want, row, jobs, restarts>>
  BY DEF Close
<1>2. JobsAwaited' /\ PrioritiesBounded'
  BY <1>1, QueueKept DEF Waits
<1>3. RegisteredIsKnown' /\ AskedIsNamed'
  BY <1>1 DEF TypeOK, RegisteredIsKnown, AskedIsNamed, Known
<1>4. TypeOK' /\ HeardIsOnline' /\ OwnerIsServed' /\ OwnersDevice'
  <2>1. CASE owner[d] # c
    <3>1. UNCHANGED <<owner, online, heard, count, saved>>
      BY <2>1 DEF Close, memory
    <3> QED BY <1>1, <3>1 DEF TypeOK, HeardIsOnline, OwnerIsServed, OwnersDevice, Known
  <2>2. CASE owner[d] = c
    <3>1. /\ owner' = [owner EXCEPT ![d] = None]
          /\ Disconnected(d)
      BY <2>2 DEF Close
    <3>2. online[d]
      BY <1>1, <2>2 DEF OwnerIsServed
    <3>3. /\ online' = [online EXCEPT ![d] = FALSE]
          /\ count' = [count EXCEPT ![d] = @ + 1]
          /\ saved' = [saved EXCEPT ![d] = IF row[d].state # {} THEN row[d].state ELSE @]
          /\ heard' = heard \ {d}
      BY <3>1, <3>2 DEF Disconnected
    <3>4. TypeOK'
      BY <1>1, <3>1, <3>3 DEF TypeOK, Row
    <3>5. HeardIsOnline' /\ OwnersDevice'
      BY <3>1, <3>3 DEF TypeOK, HeardIsOnline, OwnersDevice
    <3>6. OwnerIsServed'
      BY <1>1, <3>1, <3>3 DEF TypeOK, OwnerIsServed, Known
    <3> QED BY <3>4, <3>5, <3>6
  <2> QED BY <2>1, <2>2
<1> QED BY <1>2, <1>3, <1>4

-----------------------------------------------------------------------------
(* The steps of an HTTP caller.                                            *)

LEMMA AskForegroundStep ==
  ASSUME IndInv, NEW t \in Caller, NEW d \in Device, AskForeground(t, d), UNCHANGED patient
  PROVE  IndInv'
<1> USE TaskFacts DEF IndInv, RegistryInv
<1>1. /\ pc' = [pc EXCEPT ![t] = "asked"] /\ pc[t] = "idle"
      /\ want' = [want EXCEPT ![t] = d]
      /\ UNCHANGED <<owner, online, heard, count, saved, row, jobs, restarts>>
  BY DEF AskForeground, memory
<1>2. TypeOK'
  BY <1>1 DEF TypeOK
<1>3. JobsAwaited' /\ PrioritiesBounded'
  BY <1>1, QueueKept DEF Waits
<1>4. HeardIsOnline' /\ OwnersDevice' /\ RegisteredIsKnown' /\ AskedIsNamed'
  BY <1>1 DEF TypeOK, HeardIsOnline, OwnersDevice, RegisteredIsKnown, AskedIsNamed, Known
<1>5. OwnerIsServed'
  BY <1>1 DEF TypeOK, OwnerIsServed, Known
<1> QED BY <1>2, <1>3, <1>4, <1>5

LEMMA ServeForegroundStep ==
  ASSUME IndInv, NEW t \in Caller, ServeForeground(t), UNCHANGED patient PROVE IndInv'
<1> USE TaskFacts DEF IndInv, RegistryInv
<1> DEFINE job == [kind |-> "select", task |-> t, dev |-> want[t]]
<1>1. PICK x \in {"raising", "idle"} : pc' = [pc EXCEPT ![t] = x]
  BY DEF ServeForeground
<1>2. /\ want' = [want EXCEPT ![t] = None] /\ pc[t] = "asked"
      /\ UNCHANGED <<owner, online, heard, count, saved, row, restarts>>
  BY DEF ServeForeground, memory
<1>3. want[t] \in Device
  BY <1>2 DEF AskedIsNamed
<1>4. job \in Job /\ Awaiting(job) = "raising"
  BY <1>3 DEF Job, Awaiting
<1>5. job.task = t /\ job.kind = "select"
  OBVIOUS
<1>6. (jobs' = Append(jobs, job) /\ pc' = [pc EXCEPT ![t] = "raising"]) \/ jobs' = jobs
  BY DEF ServeForeground
<1> HIDE DEF job
<1>7. jobs' \in Seq(Job) /\ JobsAwaited' /\ PrioritiesBounded'
  <2>1. CASE jobs' = jobs
    BY <2>1, <1>1, <1>2, QueueKept DEF Waits, TypeOK
  <2>2. CASE jobs' = Append(jobs, job) /\ pc' = [pc EXCEPT ![t] = "raising"]
    BY <2>2, <1>2, <1>4, <1>5, QueueGrows DEF Waits
  <2> QED BY <2>1, <2>2, <1>6
<1>8. TypeOK'
  BY <1>1, <1>2, <1>7 DEF TypeOK
<1>9. HeardIsOnline' /\ OwnersDevice' /\ RegisteredIsKnown' /\ AskedIsNamed'
  BY <1>1, <1>2 DEF TypeOK, HeardIsOnline, OwnersDevice, RegisteredIsKnown, AskedIsNamed, Known
<1>10. OwnerIsServed'
  BY <1>1, <1>2 DEF TypeOK, OwnerIsServed, Known
<1> QED BY <1>7, <1>8, <1>9, <1>10

LEMMA SetPackStep ==
  ASSUME IndInv, NEW t \in Caller, NEW d \in Device, NEW p \in Pack \cup {None},
         SetPack(t, d, p), UNCHANGED patient
  PROVE  IndInv'
<1> USE TaskFacts DEF IndInv, RegistryInv
<1> DEFINE job == [kind |-> "pack", task |-> t, dev |-> d, pack |-> p]
<1>1. /\ pc' = [pc EXCEPT ![t] = "packing"] /\ pc[t] = "idle"
      /\ jobs' = Append(jobs, job)
      /\ UNCHANGED <<owner, online, heard, count, saved, want, row, restarts>>
  BY DEF SetPack, memory
<1>2. job \in Job /\ Awaiting(job) = "packing"
  BY DEF Job, Awaiting
<1>3. job.task = t /\ job.kind = "pack"
  OBVIOUS
<1> HIDE DEF job
<1>4. jobs' \in Seq(Job) /\ JobsAwaited' /\ PrioritiesBounded'
  BY <1>1, <1>2, <1>3, QueueGrows DEF Waits
<1>5. TypeOK'
  BY <1>1, <1>4 DEF TypeOK
<1>6. HeardIsOnline' /\ OwnersDevice' /\ RegisteredIsKnown' /\ AskedIsNamed'
  BY <1>1 DEF TypeOK, HeardIsOnline, OwnersDevice, RegisteredIsKnown, AskedIsNamed, Known
<1>7. OwnerIsServed'
  BY <1>1 DEF TypeOK, OwnerIsServed, Known
<1> QED BY <1>4, <1>5, <1>6, <1>7

-----------------------------------------------------------------------------
(* The steps of the pool.                                                  *)

\* What a job leaves in the row: a row, that of its task if it is an upsert.
LEMMA WrittenRow ==
  ASSUME NEW job \in Job, NEW old \in Row, job.kind # "select"
  PROVE  /\ Written(job, old) \in Row
         /\ job.kind = "upsert" => Written(job, old) = job.row
         /\ job.kind # "upsert" => Written(job, old).session = old.session
         /\ job.kind \notin {"upsert", "state"} => Written(job, old).state = old.state
         /\ job.kind \notin {"upsert", "raise"} => Written(job, old).priority = old.priority
         /\ job.kind = "raise" => Written(job, old).priority = job.priority
<1> USE JobKinds DEF Row
<1>1. CASE job.kind = "upsert"
  BY <1>1 DEF Written
<1>2. CASE job.kind = "state"
  BY <1>2 DEF Written
<1>3. CASE job.kind = "beat"
  BY <1>3 DEF Written
<1>4. CASE job.kind = "pack"
  BY <1>4 DEF Written
<1>5. CASE job.kind = "raise"
  BY <1>5 DEF Written
<1> QED BY <1>1, <1>2, <1>3, <1>4, <1>5

\* Where the task of an executed job stood and stands.
LEMMA TaskOfJob ==
  ASSUME IndInv, NEW i \in 1..Len(jobs), jobs[i].kind # "select"
  PROVE  /\ jobs[i] \in Job
         /\ jobs[i].task \in Conn =>
              /\ jobs[i].dev = DeviceOf[jobs[i].task]
              /\ jobs[i].kind \in {"upsert", "state", "beat"}
              /\ After(jobs[i]) \in {"upserted", "open", "beaten"}
              /\ pc[jobs[i].task] = "upsert" => After(jobs[i]) = "upserted" /\ jobs[i].kind = "upsert"
              /\ pc[jobs[i].task] \in {"upsert", "beating", "reporting"}
         /\ jobs[i].task \in Caller => After(jobs[i]) = "idle"
         /\ jobs[i].kind = "upsert" =>
              /\ jobs[i].row.session = jobs[i].task
              /\ jobs[i].row.session # None
              /\ pc[jobs[i].task] = "upsert"
<1> USE QueueFacts, JobKinds, TaskFacts DEF IndInv, RegistryInv
<1>1. jobs[i] \in Job
  OBVIOUS
<1>2. pc[jobs[i].task] = Awaiting(jobs[i])
  BY DEF JobsAwaited
<1>3. jobs[i].kind = "upsert" => jobs[i].row.session = jobs[i].task
  BY DEF JobsAwaited
<1>4. jobs[i].task \in Conn => jobs[i].dev = DeviceOf[jobs[i].task]
  BY DEF JobsAwaited
<1>5. jobs[i].kind \in {"upsert", "state", "beat", "pack", "raise"}
  BY <1>1
<1>6. CASE jobs[i].kind = "upsert"
  BY <1>1, <1>2, <1>3, <1>4, <1>6 DEF Awaiting, After
<1>7. CASE jobs[i].kind = "state"
  BY <1>1, <1>2, <1>4, <1>7 DEF Awaiting, After
<1>8. CASE jobs[i].kind = "beat"
  BY <1>1, <1>2, <1>4, <1>8 DEF Awaiting, After
<1>9. CASE jobs[i].kind \in {"pack", "raise"}
  BY <1>1, <1>2, <1>9 DEF Awaiting, After
<1> QED BY <1>5, <1>6, <1>7, <1>8, <1>9

LEMMA PoolWritesStep ==
  ASSUME IndInv, NEW i \in 1..PoolWorkers, PoolWrites(i), UNCHANGED patient PROVE IndInv'
<1> USE TaskFacts, QueueFacts DEF IndInv, RegistryInv
<1> DEFINE job == jobs[i]
           c == job.task
           d == job.dev
<1>1. /\ i \in 1..Len(jobs) /\ job.kind # "select"
      /\ row' = [row EXCEPT ![d] = Written(job, row[d])]
      /\ pc' = [pc EXCEPT ![c] = After(job)]
      /\ jobs' = RemoveAt(jobs, i)
      /\ UNCHANGED <<owner, online, heard, count, saved, want, restarts>>
  BY DEF PoolWrites, memory
<1>2. job \in Job /\ c \in Task /\ d \in Device
  BY <1>1, JobKinds
<1>3. /\ row[d] \in Row /\ row'[d] = Written(job, row[d])
      /\ \A e \in Device : e # d => row'[e] = row[e]
  BY <1>1, <1>2 DEF TypeOK
<1>4. \A e \in Device : Known(e) => Known(e)'
  BY <1>1, <1>2, <1>3, WrittenRow, TaskOfJob DEF Known
<1>5. JobsAwaited' /\ jobs' \in Seq(Job)
  BY <1>1, QueueShrinks, JobsLeft
<1>6. PrioritiesBounded'
  <2>1. PICK n \in Nat :
          /\ \A e \in Device : row[e].priority <= n
          /\ \A k \in 1..Len(jobs) : /\ jobs[k].kind = "upsert" => jobs[k].row.priority <= n
                                     /\ jobs[k].kind = "raise" => jobs[k].priority <= n
    BY DEF PrioritiesBounded
  <2>2. row'[d].priority <= n
    BY <1>1, <1>2, <1>3, <2>1, WrittenRow
  <2>3. \A e \in Device : row'[e].priority <= n
    BY <1>3, <2>1, <2>2
  <2>4. \A k \in 1..Len(jobs') : /\ jobs'[k].kind = "upsert" => jobs'[k].row.priority <= n
                                 /\ jobs'[k].kind = "raise" => jobs'[k].priority <= n
    <3> TAKE k \in 1..Len(jobs')
    <3>1. PICK j \in 1..Len(jobs) : jobs'[k] = jobs[j]
      BY <1>1, JobsLeft
    <3> QED BY <2>1, <3>1
  <2> QED BY <2>3, <2>4 DEF PrioritiesBounded
<1>7. TypeOK'
  <2>1. Written(job, row[d]) \in Row
    BY <1>1, <1>2, <1>3, WrittenRow
  <2>2. After(job) \in {"upserted", "open", "beaten", "idle"}
    BY DEF After
  <2> QED BY <1>1, <1>2, <1>5, <2>1, <2>2 DEF TypeOK
<1>8. \A e \in Conn : pc'[e] # pc[e] =>
        /\ e = c /\ pc'[e] \in {"upserted", "open", "beaten"}
        /\ Known(DeviceOf[e])'
        /\ pc[e] \in {"beating", "reporting"} \/ pc'[e] = "upserted"
  <2>1. SUFFICES ASSUME NEW e \in Conn, pc'[e] # pc[e]
                 PROVE  /\ e = c /\ pc'[e] \in {"upserted", "open", "beaten"}
                        /\ Known(DeviceOf[e])'
                        /\ pc[e] \in {"beating", "reporting"} \/ pc'[e] = "upserted"
    OBVIOUS
  <2>2. e = c /\ pc'[e] = After(job)
    BY <1>1, <2>1 DEF TypeOK
  <2>3. /\ pc[e] \in {"upsert", "beating", "reporting"} /\ d = DeviceOf[e]
        /\ pc'[e] \in {"upserted", "open", "beaten"}
        /\ pc[e] = "upsert" => pc'[e] = "upserted" /\ job.kind = "upsert"
    BY <1>1, <2>2, TaskOfJob
  <2>4. CASE pc[e] = "upsert"
    BY <1>1, <1>2, <1>3, <2>2, <2>3, <2>4, WrittenRow, TaskOfJob DEF Known
  <2>5. CASE pc[e] \in {"beating", "reporting"}
    BY <1>4, <2>5, <2>2, <2>3 DEF RegisteredIsKnown
  <2> QED BY <2>2, <2>3, <2>4, <2>5
<1>9. RegisteredIsKnown' /\ HeardIsOnline' /\ OwnersDevice'
  BY <1>1, <1>4, <1>8 DEF RegisteredIsKnown, HeardIsOnline, OwnersDevice
<1>10. AskedIsNamed'
  BY <1>1, <1>2, TaskOfJob DEF AskedIsNamed, TypeOK, After
<1>11. OwnerIsServed'
  <2>1. ASSUME NEW e \in Device, owner[e] # None,
               pc'[owner[e]] \in {"open", "beating", "beaten", "reporting"}
        PROVE  pc[owner[e]] \in {"open", "beating", "beaten", "reporting"}
    BY <2>1, <1>8 DEF TypeOK
  <2> QED BY <1>1, <1>4, <2>1 DEF OwnerIsServed
<1> QED BY <1>5, <1>6, <1>7, <1>9, <1>10, <1>11

\* The rows have a highest priority.
LEMMA HighestIs ==
  ASSUME IndInv, Device # {}
  PROVE  Highest \in Nat
<1>1. PICK n \in Nat : \A d \in Device : row[d].priority <= n
  BY DEF IndInv, PrioritiesBounded
<1> DEFINE P == {row[d].priority : d \in Device}
<1>2. P \subseteq Nat /\ P # {} /\ \A y \in P : y <= n
  BY <1>1 DEF IndInv, RegistryInv, TypeOK, Row
<1>3. Max(P) \in P
  <2> HIDE DEF P
  <2> QED BY <1>2, HighestOf DEF Max
<1> QED BY <1>2, <1>3 DEF Highest

LEMMA PoolSelectsStep ==
  ASSUME IndInv, NEW i \in 1..PoolWorkers, PoolSelects(i), UNCHANGED patient PROVE IndInv'
<1> USE TaskFacts, QueueFacts DEF IndInv, RegistryInv
<1> DEFINE new == [kind |-> "raise", task |-> jobs[i].task, dev |-> jobs[i].dev,
                   priority |-> Highest + 1]
<1>1. /\ i \in 1..Len(jobs) /\ jobs[i].kind = "select"
      /\ jobs' = [jobs EXCEPT ![i] = new]
      /\ UNCHANGED <<owner, online, heard, count, saved, want, pc, row, restarts>>
  BY DEF PoolSelects, memory
<1>2. jobs[i].task \in Caller /\ jobs[i].dev \in Device /\ jobs[i] \in Job
  BY <1>1, JobKinds
<1>3. Highest + 1 \in Nat
  BY <1>2, HighestIs
<1>4. /\ new \in Job /\ Awaiting(new) = Awaiting(jobs[i])
      /\ new.kind = "raise" /\ new.task = jobs[i].task /\ new.priority = Highest + 1
  BY <1>1, <1>2, <1>3 DEF Job, Awaiting
<1> HIDE DEF new
<1>5. /\ jobs' \in Seq(Job) /\ Len(jobs') = Len(jobs)
      /\ \A j \in 1..Len(jobs) : jobs'[j] = IF j = i THEN new ELSE jobs[j]
  BY <1>1, <1>4, ExceptSeq DEF TypeOK
<1>6. JobsAwaited'
  BY <1>1, <1>2, <1>4, <1>5 DEF JobsAwaited, Awaiting
<1>7. PrioritiesBounded'
  <2>1. PICK n \in Nat :
          /\ \A d \in Device : row[d].priority <= n
          /\ \A k \in 1..Len(jobs) : /\ jobs[k].kind = "upsert" => jobs[k].row.priority <= n
                                     /\ jobs[k].kind = "raise" => jobs[k].priority <= n
    BY DEF PrioritiesBounded
  <2>2. PICK m \in Nat : m >= n /\ m >= Highest + 1
    BY <1>3
  <2>3. \A d \in Device : row[d].priority <= m
    BY <2>1, <2>2 DEF TypeOK, Row
  <2>4. \A k \in 1..Len(jobs) : /\ jobs[k].kind = "upsert" => jobs[k].row.priority <= m
                                /\ jobs[k].kind = "raise" => jobs[k].priority <= m
    BY <2>1, <2>2, JobKinds DEF Row
  <2>5. \A k \in 1..Len(jobs') : /\ jobs'[k].kind = "upsert" => jobs'[k].row.priority <= m
                                 /\ jobs'[k].kind = "raise" => jobs'[k].priority <= m
    BY <1>4, <1>5, <2>2, <2>4
  <2> QED BY <1>1, <2>3, <2>5 DEF PrioritiesBounded
<1>8. TypeOK'
  BY <1>1, <1>5 DEF TypeOK
<1>9. HeardIsOnline' /\ OwnersDevice' /\ RegisteredIsKnown' /\ AskedIsNamed' /\ OwnerIsServed'
  BY <1>1 DEF HeardIsOnline, OwnersDevice, RegisteredIsKnown, AskedIsNamed, OwnerIsServed, Known
<1> QED BY <1>6, <1>7, <1>8, <1>9

LEMMA RestartStep == ASSUME IndInv, Restart, UNCHANGED patient PROVE IndInv'
<1> USE TaskFacts DEF IndInv, RegistryInv
<1>1. /\ pc' = [t \in Task |-> IF t \in Conn /\ pc[t] # "idle" THEN "done" ELSE "idle"]
      /\ owner' = [d \in Device |-> None] /\ heard' = {} /\ jobs' = <<>> /\ row' = row
  BY DEF Restart
<1>2. jobs' \in Seq(Job) /\ Len(jobs') = 0
  BY <1>1, EmptySeq
<1>3. TypeOK'
  BY <1>1, <1>2, BoundAssumption DEF TypeOK, Restart
<1>4. JobsAwaited' /\ PrioritiesBounded'
  BY <1>1, <1>2 DEF JobsAwaited, PrioritiesBounded
<1>5. HeardIsOnline' /\ OwnersDevice' /\ RegisteredIsKnown' /\ AskedIsNamed' /\ OwnerIsServed'
  BY <1>1 DEF HeardIsOnline, OwnersDevice, RegisteredIsKnown, AskedIsNamed, OwnerIsServed
<1> QED BY <1>3, <1>4, <1>5

-----------------------------------------------------------------------------
(* The tables agree.                                                       *)

LEMMA IndInvInit == Init => IndInv
<1> SUFFICES ASSUME Init PROVE IndInv
  OBVIOUS
<1> USE TaskFacts DEF Init
<1>1. jobs \in Seq(Job) /\ Len(jobs) = 0
  BY EmptySeq
<1>2. NoRow \in Row
  BY DEF NoRow, Row
<1>3. TypeOK
  BY <1>1, <1>2, BoundAssumption DEF TypeOK
<1>4. JobsAwaited /\ OwnersDevice /\ RegisteredIsKnown /\ AskedIsNamed
  BY <1>1 DEF JobsAwaited, OwnersDevice, RegisteredIsKnown, AskedIsNamed
<1>5. PrioritiesBounded
  BY <1>1 DEF PrioritiesBounded, NoRow
<1>6. HeardIsOnline /\ OwnerIsServed
  BY DEF HeardIsOnline, OwnerIsServed
<1> QED BY <1>3, <1>4, <1>5, <1>6 DEF IndInv, RegistryInv

LEMMA IndInvNext == IndInv /\ [Next]_vars => IndInv'
<1> SUFFICES ASSUME IndInv, [Next]_vars PROVE IndInv'
  OBVIOUS
<1>1. CASE UNCHANGED vars
  BY <1>1 DEF vars, memory, IndInv, RegistryInv, TypeOK, HeardIsOnline, OwnerIsServed, JobsAwaited,
     Awaiting, OwnersDevice, RegisteredIsKnown, AskedIsNamed, PrioritiesBounded, Known
<1>2. CASE Next
  <2> UNCHANGED patient /\ Step
    BY <1>2 DEF Next
  <2>1. CASE \E c \in Conn :
               \/ Hello(c) \/ Install(c) \/ AckFails(c) \/ Register(c) \/ Registered(c)
               \/ Heartbeat(c) \/ Beaten(c) \/ Report(c) \/ Close(c)
    BY <2>1, HelloStep, InstallStep, AckFailsStep, RegisterStep, RegisteredStep, HeartbeatStep,
       BeatenStep, ReportStep, CloseStep
  <2>2. CASE \E t \in Caller :
               \/ \E d \in Device : AskForeground(t, d)
               \/ ServeForeground(t)
               \/ \E d \in Device, p \in Pack \cup {None} : SetPack(t, d, p)
    BY <2>2, AskForegroundStep, ServeForegroundStep, SetPackStep
  <2>3. CASE Pool
    BY <2>3, PoolWritesStep, PoolSelectsStep DEF Pool
  <2>4. CASE Restart
    BY <2>4, RestartStep
  <2> QED BY <2>1, <2>2, <2>3, <2>4 DEF Step
<1> QED BY <1>1, <1>2

\* The invariant of RegistryService, its monitor, the rows and the pool's queue.
THEOREM Inductive == Spec => []IndInv
BY IndInvInit, IndInvNext, PTL DEF Spec

\* Whatever registrations, finalizers and pool jobs overlap: every table has its
\* type, only online devices are watched, and a registered connection's device is
\* online, watched and has a row.
THEOREM TablesAgree == Spec => []RegistryInv
<1>1. IndInv => RegistryInv
  BY DEF IndInv
<1> QED BY <1>1, Inductive, PTL

-----------------------------------------------------------------------------
(* A device that waits for its former connection.                          *)

\* Where a connection has nothing to do with the rows.
Apart == {"idle", "hello", "ack", "done"}

\* The connections stay where the invariant looks, or end.
LEMMA PatientKept ==
  ASSUME IndInv, PatientInv, UNCHANGED patient, NEW c \in Conn, NEW x,
         pc' = [pc EXCEPT ![c] = x], UNCHANGED <<saved, row, restarts>>,
         \A i \in 1..Len(jobs') : jobs'[i].kind = "upsert" => i \in 1..Len(jobs) /\ jobs'[i] = jobs[i],
         pc[c] \notin {"idle", "done"} \/ x \in {"idle", "done"},
         x \in Apart => pc[c] \in Apart,
         UNCHANGED owner,
         pc[c] \in {"idle", "hello", "done"} => x \in {"idle", "hello", "done"}
  PROVE  PatientInv'
<1> USE TaskFacts DEF IndInv, RegistryInv
<1>1. /\ \A e \in Conn : e # c => pc'[e] = pc[e]
      /\ pc'[c] = x
  BY DEF TypeOK
<1> SUFFICES ASSUME patient PROVE OneAtATime' /\ (restarts' = 0 => StateKept')
  BY DEF PatientInv
<1>2. OneAtATime /\ (restarts = 0 => StateKept)
  BY DEF PatientInv
<1>3. OneAtATime'
  <2>1. \A e, f \in Conn : e # f /\ DeviceOf[e] = DeviceOf[f]
           => pc'[e] \in {"idle", "done"} \/ pc'[f] \in {"idle", "done"}
    BY <1>1, <1>2 DEF OneAtATime
  <2>2. \A e \in Conn : pc'[e] \notin {"idle", "hello", "done"} => owner'[DeviceOf[e]] = e
    BY <1>1, <1>2 DEF OneAtATime
  <2> QED BY <2>1, <2>2 DEF OneAtATime
<1>4. ASSUME restarts = 0 PROVE StateKept'
  <2>1. \A d \in Device :
          (\A e \in Conn : DeviceOf[e] = d => pc'[e] \in {"idle", "hello", "ack", "done"})
            => row'[d].state \subseteq saved'[d]
    BY <1>1, <1>2, <1>4 DEF StateKept, Apart
  <2>2. \A i \in 1..Len(jobs') :
          jobs'[i].kind = "upsert" => row'[jobs'[i].dev].state \subseteq jobs'[i].row.state
    BY <1>2, <1>4 DEF StateKept
  <2> QED BY <2>1, <2>2 DEF StateKept
<1> QED BY <1>3, <1>4

\* A job that is no upsert is queued.
LEMMA NoUpsertQueued ==
  ASSUME TypeOK, NEW job, job \in Job, job.kind # "upsert", jobs' = Append(jobs, job)
  PROVE  \A i \in 1..Len(jobs') : jobs'[i].kind = "upsert" => i \in 1..Len(jobs) /\ jobs'[i] = jobs[i]
<1>1. /\ Len(jobs') = Len(jobs) + 1 /\ Len(jobs) \in Nat
      /\ \A i \in 1..Len(jobs) : jobs'[i] = jobs[i]
      /\ jobs'[Len(jobs) + 1] = job
  BY AppendProperties, LenProperties DEF TypeOK
<1> QED BY <1>1

\* The connections and callers that only wait or read.
LEMMA PatientQuiet ==
  ASSUME IndInv, PatientInv, UNCHANGED patient, NEW c \in Conn,
         AckFails(c) \/ Registered(c) \/ Heartbeat(c) \/ Beaten(c) \/ Report(c)
  PROVE  PatientInv'
<1> USE TaskFacts DEF IndInv, RegistryInv
<1>1. CASE AckFails(c)
  BY <1>1, PatientKept DEF AckFails, Apart, memory
<1>2. CASE Registered(c)
  BY <1>2, PatientKept DEF Registered, Apart
<1>3. CASE Heartbeat(c)
  <2> DEFINE job == [kind |-> "beat", task |-> c, dev |-> DeviceOf[c]]
  <2>1. job \in Job /\ job.kind # "upsert" /\ jobs' = Append(jobs, job)
    BY <1>3 DEF Job, Heartbeat
  <2> HIDE DEF job
  <2>2. \A i \in 1..Len(jobs') : jobs'[i].kind = "upsert" => i \in 1..Len(jobs) /\ jobs'[i] = jobs[i]
    BY <2>1, NoUpsertQueued
  <2> QED BY <1>3, <2>2, PatientKept DEF Heartbeat, Apart
<1>4. CASE Beaten(c)
  BY <1>4, PatientKept DEF Beaten, Apart, memory
<1>5. CASE Report(c)
  <2>1. PICK fields \in Reports :
          jobs' = Append(jobs, [kind |-> "state", task |-> c, dev |-> DeviceOf[c], state |-> fields])
    BY <1>5 DEF Report
  <2> DEFINE job == [kind |-> "state", task |-> c, dev |-> DeviceOf[c], state |-> fields]
  <2>2. job \in Job /\ job.kind # "upsert" /\ jobs' = Append(jobs, job)
    BY <2>1 DEF Job, Field
  <2> HIDE DEF job
  <2>3. \A i \in 1..Len(jobs') : jobs'[i].kind = "upsert" => i \in 1..Len(jobs) /\ jobs'[i] = jobs[i]
    BY <2>2, NoUpsertQueued
  <2>4. /\ pc' = [pc EXCEPT ![c] = "reporting"] /\ pc[c] \in {"open", "beaten"}
        /\ UNCHANGED <<owner, saved, row, restarts>>
    BY <1>5 DEF Report, memory
  <2> QED BY <2>3, <2>4, PatientKept DEF Apart
<1> QED BY <1>1, <1>2, <1>3, <1>4, <1>5

\* Before it says hello again a patient device is done with its connections.
LEMMA PatientHello ==
  ASSUME IndInv, PatientInv, UNCHANGED patient, NEW c \in Conn, Hello(c), patient => Waited
  PROVE  PatientInv'
<1> USE TaskFacts DEF IndInv, RegistryInv
<1> DEFINE d == DeviceOf[c]
<1> SUFFICES ASSUME patient PROVE OneAtATime' /\ (restarts' = 0 => StateKept')
  BY DEF PatientInv
<1>1. OneAtATime /\ (restarts = 0 => StateKept)
  BY DEF PatientInv
<1>2. PICK x \in {"ack", "hello"} :
        /\ pc' = [pc EXCEPT ![c] = x]
        /\ x = "hello" => owner' = owner /\ owner[d] # None
        /\ x = "ack" => owner' = [owner EXCEPT ![d] = c] /\ owner[d] = None
  BY DEF Hello
<1>3. UNCHANGED <<saved, row, jobs, restarts>> /\ pc[c] = "idle" /\ LockFree(d)
  BY DEF Hello
<1>4. ASSUME NEW e \in Conn, e # c, DeviceOf[e] = d
      PROVE  pc[e] \in {"idle", "done"} /\ pc'[e] = pc[e]
  <2>1. CASE x = "hello"
    BY <1>2, <1>3, <1>4, <2>1 DEF Waited, TypeOK
  <2>2. CASE x = "ack"
    BY <1>1, <1>2, <1>3, <1>4, <2>2 DEF OneAtATime, LockFree, TypeOK
  <2> QED BY <2>1, <2>2
<1>5. \A e \in Conn : e # c => pc'[e] = pc[e]
  BY <1>2 DEF TypeOK
<1>6. pc'[c] = x
  BY <1>2 DEF TypeOK
<1>7. OneAtATime'
  <2>1. \A e, f \in Conn : e # f /\ DeviceOf[e] = DeviceOf[f]
           => pc'[e] \in {"idle", "done"} \/ pc'[f] \in {"idle", "done"}
    BY <1>1, <1>4, <1>5 DEF OneAtATime
  <2>2. ASSUME NEW e \in Conn, pc'[e] \notin {"idle", "hello", "done"}
        PROVE  owner'[DeviceOf[e]] = e
    <3>1. CASE e = c
      BY <1>2, <1>6, <2>2, <3>1 DEF TypeOK
    <3>2. CASE e # c
      BY <1>1, <1>2, <1>4, <1>5, <2>2, <3>2 DEF TypeOK, OneAtATime
    <3> QED BY <3>1, <3>2
  <2> QED BY <2>1, <2>2 DEF OneAtATime
<1>8. ASSUME restarts = 0 PROVE StateKept'
  BY <1>1, <1>3, <1>5, <1>8 DEF StateKept
<1> QED BY <1>3, <1>7, <1>8

LEMMA PatientInstall ==
  ASSUME IndInv, PatientInv, UNCHANGED patient, NEW c \in Conn, Install(c)
  PROVE  PatientInv'
<1> USE TaskFacts DEF IndInv, RegistryInv
<1> DEFINE d == DeviceOf[c]
<1> SUFFICES ASSUME patient PROVE OneAtATime' /\ (restarts' = 0 => StateKept')
  BY DEF PatientInv
<1>1. OneAtATime /\ (restarts = 0 => StateKept)
  BY DEF PatientInv
<1>2. /\ pc' = [pc EXCEPT ![c] = "ack"] /\ pc[c] = "hello"
      /\ owner' = [owner EXCEPT ![d] = c]
      /\ UNCHANGED <<saved, row, jobs, restarts>>
  BY DEF Install
<1>3. (\A e \in Conn : e # c => pc'[e] = pc[e]) /\ pc'[c] = "ack"
  BY <1>2 DEF TypeOK
<1>4. \A e \in Conn : e # c /\ DeviceOf[e] = d => pc[e] \in {"idle", "done"}
  BY <1>1, <1>2 DEF OneAtATime
<1>5. OneAtATime'
  BY <1>1, <1>2, <1>3, <1>4 DEF OneAtATime, TypeOK
<1>6. ASSUME restarts = 0 PROVE StateKept'
  BY <1>1, <1>2, <1>3, <1>6 DEF StateKept
<1> QED BY <1>2, <1>5, <1>6

\* The fields saved at the disconnect go into the row about to be written.
LEMMA PatientRegister ==
  ASSUME IndInv, PatientInv, UNCHANGED patient, NEW c \in Conn, Register(c)
  PROVE  PatientInv'
<1> USE TaskFacts, QueueFacts DEF IndInv, RegistryInv
<1> DEFINE d == DeviceOf[c]
           job == [kind |-> "upsert", task |-> c, dev |-> d, row |-> Rebuilt(c, d)]
<1> SUFFICES ASSUME patient PROVE OneAtATime' /\ (restarts' = 0 => StateKept')
  BY DEF PatientInv
<1>1. OneAtATime /\ (restarts = 0 => StateKept)
  BY DEF PatientInv
<1>2. /\ pc' = [pc EXCEPT ![c] = "upsert"] /\ pc[c] = "ack"
      /\ saved' = [saved EXCEPT ![d] = {}]
      /\ jobs' = Append(jobs, job)
      /\ UNCHANGED <<owner, row, restarts>>
  BY DEF Register
<1>3. (\A e \in Conn : e # c => pc'[e] = pc[e]) /\ pc'[c] = "upsert"
  BY <1>2 DEF TypeOK
<1>4. OneAtATime'
  BY <1>1, <1>2, <1>3 DEF OneAtATime
<1>5. job.dev = d /\ saved[d] \subseteq job.row.state
  BY DEF Rebuilt
<1>6. job \in Job
  BY DEF Job, TypeOK, Rebuilt, Row, Field
<1> HIDE DEF job
<1>7. /\ Len(jobs') = Len(jobs) + 1
      /\ \A i \in 1..Len(jobs) : jobs'[i] = jobs[i]
      /\ jobs'[Len(jobs) + 1] = job
  BY <1>2, <1>6, AppendProperties DEF TypeOK
<1>8. ASSUME restarts = 0 PROVE StateKept'
  <2>1. \A e \in Conn : DeviceOf[e] = d => pc[e] \in {"idle", "hello", "ack", "done"}
    BY <1>1, <1>2 DEF OneAtATime
  <2>2. row[d].state \subseteq saved[d]
    BY <1>1, <1>8, <2>1 DEF StateKept
  <2>3. ASSUME NEW e \in Device,
               \A f \in Conn : DeviceOf[f] = e => pc'[f] \in {"idle", "hello", "ack", "done"}
        PROVE  row'[e].state \subseteq saved'[e]
    <3>1. e # d /\ saved'[e] = saved[e]
      BY <1>2, <1>3, <2>3 DEF TypeOK
    <3>2. \A f \in Conn : DeviceOf[f] = e => pc[f] \in {"idle", "hello", "ack", "done"}
      BY <1>3, <2>3, <3>1
    <3> QED BY <1>1, <1>2, <1>8, <3>1, <3>2 DEF StateKept
  <2>4. ASSUME NEW i \in 1..Len(jobs'), jobs'[i].kind = "upsert"
        PROVE  row'[jobs'[i].dev].state \subseteq jobs'[i].row.state
    <3>1. CASE i \in 1..Len(jobs)
      BY <1>1, <1>2, <1>7, <1>8, <2>4, <3>1 DEF StateKept
    <3>2. CASE i = Len(jobs) + 1
      BY <1>2, <1>5, <1>7, <2>2, <3>2
    <3> QED BY <1>7, <3>1, <3>2
  <2> QED BY <2>3, <2>4 DEF StateKept
<1> QED BY <1>2, <1>4, <1>8

\* The fields of the row are saved when the connection ends.
LEMMA PatientClose ==
  ASSUME IndInv, PatientInv, UNCHANGED patient, NEW c \in Conn, Close(c)
  PROVE  PatientInv'
<1> USE TaskFacts DEF IndInv, RegistryInv
<1> DEFINE d == DeviceOf[c]
<1> SUFFICES ASSUME patient PROVE OneAtATime' /\ (restarts' = 0 => StateKept')
  BY DEF PatientInv
<1>1. OneAtATime /\ (restarts = 0 => StateKept)
  BY DEF PatientInv
<1>2. /\ pc' = [pc EXCEPT ![c] = "done"] /\ pc[c] = "open"
      /\ UNCHANGED <<row, jobs, restarts>>
  BY DEF Close
<1>3. owner[d] = c
  BY <1>1, <1>2 DEF OneAtATime
<1>4. online[d]
  BY <1>2, <1>3 DEF OwnerIsServed
<1>5. /\ owner' = [owner EXCEPT ![d] = None]
      /\ saved' = [saved EXCEPT ![d] = IF row[d].state # {} THEN row[d].state ELSE @]
  BY <1>3, <1>4 DEF Close, Disconnected
<1>6. (\A e \in Conn : e # c => pc'[e] = pc[e]) /\ pc'[c] = "done"
  BY <1>2 DEF TypeOK
<1>7. \A e \in Conn : e # c /\ DeviceOf[e] = d => pc[e] \in {"idle", "done"}
  BY <1>1, <1>2 DEF OneAtATime
<1>8. OneAtATime'
  BY <1>1, <1>5, <1>6, <1>7 DEF OneAtATime, TypeOK
<1>9. row[d].state \subseteq saved'[d] /\ \A e \in Device : e # d => saved'[e] = saved[e]
  BY <1>5 DEF TypeOK
<1>10. ASSUME restarts = 0 PROVE StateKept'
  BY <1>1, <1>2, <1>6, <1>9, <1>10 DEF StateKept
<1> QED BY <1>2, <1>8, <1>10

LEMMA PatientCaller ==
  ASSUME IndInv, PatientInv, UNCHANGED patient, NEW t \in Caller,
         \/ \E d \in Device : AskForeground(t, d)
         \/ ServeForeground(t)
         \/ \E d \in Device, p \in Pack \cup {None} : SetPack(t, d, p)
  PROVE  PatientInv'
<1> USE TaskFacts DEF IndInv, RegistryInv
<1>1. UNCHANGED <<owner, saved, row, restarts>> /\ \A c \in Conn : pc'[c] = pc[c]
  <2>1. UNCHANGED <<owner, saved, row, restarts>>
    BY DEF AskForeground, ServeForeground, SetPack, memory
  <2>2. \E x \in {"asked", "raising", "idle", "packing"} : pc' = [pc EXCEPT ![t] = x]
    BY DEF AskForeground, ServeForeground, SetPack
  <2> QED BY <2>1, <2>2 DEF TypeOK
<1>2. \A i \in 1..Len(jobs') : jobs'[i].kind = "upsert" => i \in 1..Len(jobs) /\ jobs'[i] = jobs[i]
  <2>1. CASE jobs' = jobs
    BY <2>1
  <2>2. CASE \E job \in Job : job.kind # "upsert" /\ jobs' = Append(jobs, job)
    BY <2>2, NoUpsertQueued
  <2>3. CASE \E d \in Device, p \in Pack \cup {None} : SetPack(t, d, p)
    <3>1. PICK d \in Device, p \in Pack \cup {None} : SetPack(t, d, p)
      BY <2>3
    <3> DEFINE job == [kind |-> "pack", task |-> t, dev |-> d, pack |-> p]
    <3>2. job \in Job /\ job.kind # "upsert" /\ jobs' = Append(jobs, job)
      BY <3>1 DEF Job, SetPack
    <3> QED BY <2>2, <3>2
  <2>4. CASE ServeForeground(t)
    <3> DEFINE job == [kind |-> "select", task |-> t, dev |-> want[t]]
    <3>1. want[t] \in Device
      BY <2>4 DEF ServeForeground, AskedIsNamed
    <3>2. job \in Job /\ job.kind # "upsert" /\ (jobs' = jobs \/ jobs' = Append(jobs, job))
      BY <2>4, <3>1 DEF Job, ServeForeground
    <3> QED BY <2>1, <2>2, <3>2
  <2>5. CASE \E d \in Device : AskForeground(t, d)
    BY <2>1, <2>5 DEF AskForeground
  <2> QED BY <2>3, <2>4, <2>5
<1> QED BY <1>1, <1>2 DEF PatientInv, OneAtATime, StateKept

\* A job that writes a device's state is the only one of the device's connections.
LEMMA PatientPool ==
  ASSUME IndInv, PatientInv, UNCHANGED patient, NEW i \in 1..PoolWorkers, PoolWrites(i)
  PROVE  PatientInv'
<1> USE TaskFacts, QueueFacts DEF IndInv, RegistryInv
<1> DEFINE job == jobs[i]
           c == job.task
           d == job.dev
<1> SUFFICES ASSUME patient PROVE OneAtATime' /\ (restarts' = 0 => StateKept')
  BY DEF PatientInv
<1>1. OneAtATime /\ (restarts = 0 => StateKept)
  BY DEF PatientInv
<1>2. /\ i \in 1..Len(jobs) /\ job.kind # "select"
      /\ row' = [row EXCEPT ![d] = Written(job, row[d])]
      /\ pc' = [pc EXCEPT ![c] = After(job)]
      /\ jobs' = RemoveAt(jobs, i)
      /\ UNCHANGED <<owner, saved, restarts>>
  BY DEF PoolWrites, memory
<1>3. job \in Job /\ c \in Task /\ d \in Device /\ row[d] \in Row
  BY <1>2, JobKinds DEF TypeOK
<1>4. ASSUME NEW e \in Conn
      PROVE  \/ pc'[e] = pc[e]
             \/ /\ e = c /\ DeviceOf[e] = d
                /\ pc[e] \notin Apart /\ pc'[e] \notin Apart
  <2>1. CASE e # c
    BY <1>2, <2>1 DEF TypeOK
  <2>2. CASE e = c
    BY <1>2, <1>3, <2>2, TaskOfJob DEF TypeOK, Apart
  <2> QED BY <2>1, <2>2
<1>5. OneAtATime'
  BY <1>1, <1>2, <1>4 DEF OneAtATime, Apart
<1>6. ASSUME restarts = 0 PROVE StateKept'
  <2>1. \A e \in Device : e # d => row'[e] = row[e]
    BY <1>2, <1>3 DEF TypeOK
  <2>2. ASSUME job.kind \notin {"upsert", "state"} PROVE row'[d].state = row[d].state
    BY <1>2, <1>3, <2>2, WrittenRow DEF TypeOK
  <2>3. ASSUME job.kind \in {"upsert", "state"}
        PROVE  c \in Conn /\ DeviceOf[c] = d /\ pc[c] \notin Apart
    BY <1>2, <1>3, <2>3, TaskOfJob, JobKinds DEF Apart
  <2>4. ASSUME NEW e \in Device,
               \A f \in Conn : DeviceOf[f] = e => pc'[f] \in {"idle", "hello", "ack", "done"}
        PROVE  row'[e].state \subseteq saved'[e]
    <3>1. \A f \in Conn : DeviceOf[f] = e => pc[f] \in {"idle", "hello", "ack", "done"}
      BY <1>4, <2>4 DEF Apart
    <3>2. row[e].state \subseteq saved[e]
      BY <1>1, <1>6, <3>1 DEF StateKept
    <3>3. row'[e].state = row[e].state
      BY <2>1, <2>2, <2>3, <3>1 DEF Apart
    <3> QED BY <1>2, <3>2, <3>3
  <2>5. ASSUME NEW j \in 1..Len(jobs'), jobs'[j].kind = "upsert"
        PROVE  row'[jobs'[j].dev].state \subseteq jobs'[j].row.state
    <3>1. PICK k \in 1..Len(jobs) : k # i /\ jobs'[j] = jobs[k]
      BY <1>2, JobsLeft
    <3>2. row[jobs[k].dev].state \subseteq jobs[k].row.state
      BY <1>1, <1>6, <2>5, <3>1 DEF StateKept
    <3>3. /\ jobs[k].task \in Conn /\ DeviceOf[jobs[k].task] = jobs[k].dev
          /\ pc[jobs[k].task] = "upsert" /\ jobs[k].task # c /\ jobs[k].dev \in Device
      BY <1>2, <2>5, <3>1, TaskOfJob, JobKinds DEF JobsAwaited
    <3>4. CASE jobs[k].dev # d
      BY <2>1, <3>1, <3>2, <3>3, <3>4
    <3>5. CASE jobs[k].dev = d
      <4>1. job.kind \notin {"upsert", "state"}
        BY <1>1, <2>3, <3>3, <3>5 DEF OneAtATime, Apart
      <4> QED BY <2>2, <3>1, <3>2, <3>5, <4>1
    <3> QED BY <3>4, <3>5
  <2> QED BY <2>4, <2>5 DEF StateKept
<1> QED BY <1>2, <1>5, <1>6

LEMMA PatientSelects ==
  ASSUME IndInv, PatientInv, UNCHANGED patient, NEW i \in 1..PoolWorkers, PoolSelects(i)
  PROVE  PatientInv'
<1> USE TaskFacts, QueueFacts DEF IndInv, RegistryInv
<1> DEFINE new == [kind |-> "raise", task |-> jobs[i].task, dev |-> jobs[i].dev,
                   priority |-> Highest + 1]
<1>1. /\ i \in 1..Len(jobs) /\ jobs[i].kind = "select"
      /\ jobs' = [jobs EXCEPT ![i] = new]
      /\ UNCHANGED <<owner, saved, pc, row, restarts>>
  BY DEF PoolSelects, memory
<1>2. new \in Job /\ new.kind # "upsert"
  <2>1. jobs[i].task \in Caller /\ jobs[i].dev \in Device
    BY <1>1, JobKinds
  <2> QED BY <2>1, HighestIs DEF Job
<1> HIDE DEF new
<1>3. /\ Len(jobs') = Len(jobs)
      /\ \A j \in 1..Len(jobs) : jobs'[j] = IF j = i THEN new ELSE jobs[j]
  BY <1>1, <1>2, ExceptSeq DEF TypeOK
<1> QED BY <1>1, <1>2, <1>3 DEF PatientInv, OneAtATime, StateKept

LEMMA PatientInit == Init => PatientInv
BY TaskFacts, EmptySeq DEF Init, PatientInv, OneAtATime, StateKept, NoRow

LEMMA PatientNext == IndInv /\ PatientInv /\ [Next]_vars => PatientInv'
<1> SUFFICES ASSUME IndInv, PatientInv, [Next]_vars PROVE PatientInv'
  OBVIOUS
<1>1. CASE UNCHANGED vars
  BY <1>1 DEF vars, memory, PatientInv, OneAtATime, StateKept
<1>2. CASE Next
  <2> UNCHANGED patient /\ Step /\ (patient => Waited)
    BY <1>2 DEF Next
  <2>1. CASE \E c \in Conn :
               \/ Hello(c) \/ Install(c) \/ AckFails(c) \/ Register(c) \/ Registered(c)
               \/ Heartbeat(c) \/ Beaten(c) \/ Report(c) \/ Close(c)
    BY <2>1, PatientHello, PatientInstall, PatientRegister, PatientQuiet, PatientClose
  <2>2. CASE \E t \in Caller :
               \/ \E d \in Device : AskForeground(t, d)
               \/ ServeForeground(t)
               \/ \E d \in Device, p \in Pack \cup {None} : SetPack(t, d, p)
    BY <2>2, PatientCaller
  <2>3. CASE Pool
    BY <2>3, PatientPool, PatientSelects DEF Pool
  <2>4. CASE Restart
    BY <2>4, TaskFacts, BoundAssumption
       DEF Restart, PatientInv, OneAtATime, IndInv, RegistryInv, TypeOK
  <2> QED BY <2>1, <2>2, <2>3, <2>4 DEF Step
<1> QED BY <1>1, <1>2

\* A new session is the work of an upsert.
LEMMA NewSession ==
  ASSUME IndInv, PatientInv, Next, NEW d \in Device,
         patient, restarts' = 0, row'[d].session # row[d].session
  PROVE  row[d].state \subseteq row'[d].state
<1> USE TaskFacts, QueueFacts DEF IndInv, RegistryInv
<1>1. row' # row
  OBVIOUS
<1>2. PICK i \in 1..PoolWorkers : PoolWrites(i)
  BY <1>1 DEF Next, Step, Pool, Hello, Install, AckFails, Register, Registered, Heartbeat, Beaten,
     Report, Close, AskForeground, ServeForeground, SetPack, PoolSelects, Restart
<1> DEFINE job == jobs[i]
<1>3. /\ i \in 1..Len(jobs) /\ job.kind # "select" /\ restarts = 0
      /\ row' = [row EXCEPT ![job.dev] = Written(job, row[job.dev])]
  BY <1>2 DEF PoolWrites
<1>4. job \in Job
  BY <1>3
<1>5. d = job.dev /\ row[d] \in Row /\ row'[d] = Written(job, row[d])
  BY <1>3, <1>4 DEF TypeOK
<1>6. job.kind = "upsert" /\ row'[d] = job.row
  BY <1>3, <1>4, <1>5, WrittenRow
<1> QED BY <1>3, <1>5, <1>6 DEF PatientInv, StateKept

\* A device that waits for its former connection before it says hello again has
\* one connection at a time, and its old state is saved or about to be written.
THEOREM PatientInductive == Spec => []PatientInv
<1>1. PatientInv /\ IndInv /\ [Next]_vars => PatientInv'
  BY PatientNext
<1> QED BY <1>1, PatientInit, Inductive, PTL DEF Spec

\* State is preserved and restored on reconnect of devices that wait for their
\* former connection to be done with (patient): unless the gateway restarts, the
\* row of a new session has every field of the old session's row.  Nothing is said
\* of a reconnect that overlaps the former session: it does lose fields.
THEOREM StateIsRestored == Spec => StateSurvives
<1>1. IndInv /\ PatientInv /\ [Next]_vars
        => [\A d \in Device :
              patient /\ restarts' = 0 /\ Known(d) /\ row'[d].session # row[d].session
                => row[d].state \subseteq row'[d].state]_vars
  BY NewSession
<1> QED BY <1>1, Inductive, PatientInductive, PTL DEF Spec, StateSurvives

-----------------------------------------------------------------------------
(* The page: its messages.                                                 *)

\* The messages that are pieces of sound.
Sounds == {m \in Message : m.kind = "sound"}

\* What each kind of message holds.
LEMMA MessageKinds ==
  ASSUME NEW m \in Message
  PROVE  /\ m.kind \in {"ack", "start", "finish", "sound"}
         /\ m.kind = "ack" => /\ m \in Answer /\ m.of \in Response
                              /\ m.step \in 0..NumChunks + 1 /\ m.ok \in BOOLEAN
         /\ m.kind = "sound" => m.of \in Stream /\ m.seq \in Nat /\ m.piece \in Nat
         /\ m # Greeting
<1>1. CASE m \in Answer
  BY <1>1 DEF Answer, Greeting
<1>2. CASE m \in [kind : {"start", "finish"}, of : Stream]
  BY <1>2 DEF Greeting
<1>3. CASE m \in [kind : {"sound"}, of : Stream, seq : Nat, piece : Nat]
  BY <1>3 DEF Greeting
<1> QED BY <1>1, <1>2, <1>3 DEF Message

\* Lists of messages.
LEMMA MessageLists ==
  \A w \in Seq(Message) :
    /\ Len(w) \in Nat /\ DOMAIN w = 1..Len(w)
    /\ \A i \in 1..Len(w) : w[i] \in Message
    /\ OnceIn(w, Sounds) <=>
         \A i, j \in DOMAIN w : w[i] = w[j] /\ w[i].kind = "sound" => i = j
<1>1. ASSUME NEW w \in Seq(Message)
      PROVE  /\ Len(w) \in Nat /\ DOMAIN w = 1..Len(w)
             /\ \A i \in 1..Len(w) : w[i] \in Message
  BY LenProperties, ElementOfSeq
<1>2. ASSUME NEW w \in Seq(Message)
      PROVE  OnceIn(w, Sounds) <=>
               \A i, j \in DOMAIN w : w[i] = w[j] /\ w[i].kind = "sound" => i = j
  BY <1>1 DEF OnceIn, Sounds
<1> QED BY <1>1, <1>2

\* Which messages belong to a recording.
LEMMA AboutRecording ==
  ASSUME NEW s \in Nat
  PROVE  /\ Start(s) \in About(s) /\ Finish(s) \in About(s)
         /\ \A n, p \in Nat : Sound(s, n, p) \in About(s)
         /\ \A m \in About(s) : m.kind \in {"start", "finish", "sound"} /\ m.of = s
<1>1. Start(s) \in About(s) /\ Finish(s) \in About(s)
  BY DEF Start, Finish, About
<1>2. \A n, p \in Nat : Sound(s, n, p) \in About(s)
  BY DEF Sound, About
<1>3. ASSUME NEW m \in About(s)
      PROVE  m.kind \in {"start", "finish", "sound"} /\ m.of = s
  <2>1. CASE m \in [kind : {"start", "finish"}, of : {s}]
    BY <2>1
  <2>2. CASE m \in [kind : {"sound"}, of : {s}, seq : Nat, piece : Nat]
    BY <2>2
  <2> QED BY <2>1, <2>2 DEF About
<1> QED BY <1>1, <1>2, <1>3

\* What is said of a recording are messages.
LEMMA RecordingSpoken ==
  ASSUME NEW s \in Stream
  PROVE  /\ Start(s) \in Message /\ Finish(s) \in Message
         /\ \A n, p \in Nat : Sound(s, n, p) \in Message
<1>1. Start(s) \in Message /\ Finish(s) \in Message
  BY DEF Start, Finish, Message
<1>2. \A n, p \in Nat : Sound(s, n, p) \in Message
  BY DEF Sound, Message
<1> QED BY <1>1, <1>2

-----------------------------------------------------------------------------
(* What is heard.                                                          *)

\* What a list of messages does to what has been heard.
LEMMA HeardMore ==
  ASSUME PageTypeOK, NEW ms \in Seq(Message), Hear(ms)
  PROVE  /\ log' \in [Stream -> Seq(Message)]
         /\ step' \in [Response -> 0..NumChunks + 1]
         /\ phase' \in [Response -> {"ready", "waiting", "delivered", "failed"}]
         /\ hellos' = hellos
         /\ first # "none" => first' = first
<1>1. \A s \in Stream : log[s] \o Those(ms, About(s)) \in Seq(Message)
  <2>1. ASSUME NEW s \in Stream
        PROVE  log[s] \o Those(ms, About(s)) \in Seq(Message)
    <3>1. log[s] \in Seq(Message)
      BY DEF PageTypeOK
    <3>2. Those(ms, About(s)) \in Seq(Message)
      BY Kept
    <3> QED BY <3>1, <3>2, ConcatProperties
  <2> QED BY <2>1
<1>2. log' \in [Stream -> Seq(Message)]
  BY <1>1 DEF Hear
<1>3. NumChunks \in Nat
  BY CacheAssumption
<1>4. step' \in [Response -> 0..NumChunks + 1]
  <2>1. ASSUME NEW r \in Response
        PROVE  step[r] \in 0..NumChunks + 1 /\ (step[r] <= NumChunks => step[r] + 1 \in 0..NumChunks + 1)
    <3>1. step[r] \in 0..NumChunks + 1
      BY DEF PageTypeOK
    <3> QED BY ONLY <1>3, <3>1
  <2> QED BY <2>1 DEF Hear
<1>5. phase' \in [Response -> {"ready", "waiting", "delivered", "failed"}]
  BY DEF Hear, PageTypeOK
<1>6. hellos' = hellos
  <2>1. \A i \in 1..Len(ms) : ms[i] \notin {Greeting}
    BY MessageLists, MessageKinds
  <2>2. Those(ms, {Greeting}) = <<>>
    BY <2>1, AllKept
  <2>3. Len(Those(ms, {Greeting})) = 0
    BY <2>2
  <2> QED BY <2>3 DEF Hear, PageTypeOK
<1>7. first # "none" => first' = first
  BY DEF Hear
<1> QED BY <1>2, <1>4, <1>5, <1>6, <1>7

\* Without an answer every delivery stays where it is.
LEMMA NoAnswer ==
  ASSUME PageTypeOK, NEW ms \in Seq(Message), Hear(ms),
         \A i \in 1..Len(ms) : ms[i].kind # "ack"
  PROVE  step' = step /\ phase' = phase
<1>1. \A r, n, ok : \A i \in DOMAIN ms : ms[i] # Ack(r, n, ok)
  BY MessageLists DEF Ack
<1>2. \A r \in Response, ok \in BOOLEAN : ~\E i \in DOMAIN ms : ms[i] = Ack(r, step[r], ok)
  BY <1>1
<1>3. step' = [r \in Response |-> step[r]]
  BY <1>2 DEF Hear
<1>4. phase' = [r \in Response |-> phase[r]]
  BY <1>2 DEF Hear
<1> QED BY <1>3, <1>4 DEF PageTypeOK

\* What is said keeps the types, and tells no hello.
LEMMA SaidTyped ==
  ASSUME PageTypeOK, Greeted, NEW ms \in Seq(Message), Say(ms)
  PROVE  /\ queue' \in Seq(Message)
         /\ log' \in [Stream -> Seq(Message)]
         /\ step' \in [Response -> 0..NumChunks + 1]
         /\ phase' \in [Response -> {"ready", "waiting", "delivered", "failed"}]
         /\ hellos' = hellos /\ first' = first
<1>1. CASE socket = "open" /\ Hear(ms) /\ UNCHANGED queue
  <2>1. first # "none"
    BY <1>1 DEF Greeted
  <2> QED BY <1>1, <2>1, HeardMore DEF PageTypeOK
<1>2. CASE UNCHANGED <<gateway, queue>>
  BY <1>2 DEF gateway, PageTypeOK
<1>3. CASE queue' = queue \o ms /\ UNCHANGED gateway
  <2>1. queue' \in Seq(Message)
    BY <1>3, ConcatProperties DEF PageTypeOK
  <2> QED BY <1>3, <2>1 DEF gateway, PageTypeOK
<1> QED BY <1>1, <1>2, <1>3 DEF Say

\* Newer pieces of sound after older ones.
LEMMA NewerAfter ==
  ASSUME NEW w \in Seq(Message), NEW ms \in Seq(Message), NEW p \in Nat, NEW n \in Nat, n <= p,
         OnceIn(w, Sounds), OnceIn(ms, Sounds),
         \A i \in 1..Len(w) : w[i].kind = "sound" => w[i].piece > p,
         \A i \in 1..Len(ms) : ms[i].kind = "sound" => ms[i].piece \in n + 1..p
  PROVE  /\ w \o ms \in Seq(Message) /\ OnceIn(w \o ms, Sounds)
         /\ \A i \in DOMAIN (w \o ms) :
              (w \o ms)[i].kind = "sound" =>
                \/ (w \o ms)[i].piece \in n + 1..p
                \/ \E j \in 1..Len(w) : (w \o ms)[i] = w[j]
         /\ \A i \in DOMAIN (w \o ms) : (w \o ms)[i].kind = "sound" => (w \o ms)[i].piece > n
<1> DEFINE b == w \o ms
<1>1. /\ b \in Seq(Message) /\ DOMAIN b = 1..Len(w) + Len(ms)
      /\ \A i \in 1..Len(w) + Len(ms) :
              \/ i \in 1..Len(w) /\ b[i] = w[i]
              \/ i - Len(w) \in 1..Len(ms) /\ b[i] = ms[i - Len(w)]
  BY BothLists
<1>2. ASSUME NEW i \in 1..Len(w), NEW j \in 1..Len(ms), w[i] \in Sounds
      PROVE  w[i] # ms[j]
  <2>1. w[i].kind = "sound" /\ w[i].piece > p
    BY <1>2 DEF Sounds
  <2>2. ms[j].kind = "sound" => ~(ms[j].piece > p)
    OBVIOUS
  <2> QED BY <2>1, <2>2
<1>3. OnceIn(b, Sounds)
  BY <1>2, OnceInBoth
<1> HIDE DEF b
<1>4. \A i \in 1..Len(w) : w[i].kind = "sound" => w[i].piece \in Nat
  BY MessageLists, MessageKinds
<1>5. ASSUME NEW i \in DOMAIN b, b[i].kind = "sound"
      PROVE  (b[i].piece \in n + 1..p \/ \E j \in 1..Len(w) : b[i] = w[j]) /\ b[i].piece > n
  <2>1. CASE i \in 1..Len(w) /\ b[i] = w[i]
    BY <1>4, <1>5, <2>1
  <2>2. CASE i - Len(w) \in 1..Len(ms) /\ b[i] = ms[i - Len(w)]
    BY <1>5, <2>2
  <2> QED BY <1>1, <1>5, <2>1, <2>2
<1> QED BY <1>1, <1>3, <1>5 DEF b

\* What is kept of a list of messages for a recording.
LEMMA KeptSounds ==
  ASSUME NEW ms \in Seq(Message), NEW S
  PROVE  /\ Those(ms, S) \in Seq(Message)
         /\ OnceIn(ms, Sounds) => OnceIn(Those(ms, S), Sounds)
         /\ \A i \in 1..Len(Those(ms, S)) :
              Those(ms, S)[i] \in S /\ \E j \in 1..Len(ms) : Those(ms, S)[i] = ms[j]
<1> DEFINE k == Those(ms, S)
<1>1. k \in Seq(Message) /\ ToSet(k) = ToSet(ms) \cap S
      /\ (OnceIn(ms, Sounds) => OnceIn(k, Sounds))
  BY KeptOnce
<1> HIDE DEF k
<1>2. DOMAIN k = 1..Len(k) /\ DOMAIN ms = 1..Len(ms)
  BY <1>1, MessageLists
<1>3. ASSUME NEW i \in 1..Len(k)
      PROVE  k[i] \in S /\ \E j \in 1..Len(ms) : k[i] = ms[j]
  <2>1. k[i] \in ToSet(k)
    BY <1>2 DEF ToSet
  <2>2. k[i] \in ToSet(ms) /\ k[i] \in S
    BY <1>1, <2>1
  <2> QED BY <1>2, <2>2 DEF ToSet
<1> QED BY <1>1, <1>3 DEF k

\* What is said keeps every piece of sound single, if it is new.
LEMMA SaidStaysOnce ==
  ASSUME PageTypeOK, HeardOnce, SaidOnce, NEW ms \in Seq(Message), Say(ms),
         OnceIn(ms, Sounds), Stream' = Stream,
         use'.pieces \in Nat, use'.pieces <= use.pieces,
         \A i \in 1..Len(ms) : ms[i].kind = "sound" => ms[i].piece \in use'.pieces + 1..use.pieces
  PROVE  HeardOnce' /\ SaidOnce'
<1> DEFINE p == use.pieces
           n == use'.pieces
           Old(w) == \A i \in DOMAIN w : w[i].kind = "sound" => w[i].piece > p
           New(w) == \A i \in DOMAIN w : w[i].kind = "sound" => w[i].piece > n
<1>1. p \in Nat /\ n \in Nat /\ n <= p /\ queue \in Seq(Message)
      /\ \A s \in Stream : log[s] \in Seq(Message)
  BY DEF PageTypeOK
<1>2. OnceIn(queue, Sounds) /\ Old(queue)
  BY <1>1, MessageLists DEF SaidOnce
<1>3. \A s \in Stream :
        /\ OnceIn(log[s], Sounds) /\ Old(log[s])
        /\ \A i \in DOMAIN log[s], j \in DOMAIN queue :
             log[s][i].kind = "sound" => queue[j] # log[s][i]
  BY <1>1, MessageLists DEF SaidOnce, HeardOnce
<1>4. \A i \in 1..Len(ms) : ms[i].kind = "sound" => ms[i].piece \in n + 1..p
  OBVIOUS
<1>5. \A w \in Seq(Message) : Old(w) => New(w)
  <2>1. ASSUME NEW w \in Seq(Message), Old(w), NEW i \in DOMAIN w, w[i].kind = "sound"
        PROVE  w[i].piece > n
    <3>1. w[i].piece \in Nat /\ w[i].piece > p
      BY <2>1, MessageLists, MessageKinds
    <3> QED BY <1>1, <3>1
  <2> QED BY <2>1
<1>6. ASSUME queue' \in Seq(Message), OnceIn(queue', Sounds), New(queue'),
             \A s \in Stream :
               /\ log'[s] \in Seq(Message) /\ OnceIn(log'[s], Sounds) /\ New(log'[s])
               /\ \A i \in DOMAIN log'[s], j \in DOMAIN queue' :
                    log'[s][i].kind = "sound" => queue'[j] # log'[s][i]
      PROVE  HeardOnce' /\ SaidOnce'
  <2>1. HeardOnce'
    BY <1>6, MessageLists DEF HeardOnce
  <2>2. \A i, j \in DOMAIN queue' : queue'[i] = queue'[j] /\ queue'[i].kind = "sound" => i = j
    BY <1>6, MessageLists
  <2>3. SaidOnce'
    BY <1>6, <2>2 DEF SaidOnce
  <2> QED BY <2>1, <2>3
<1>7. CASE socket = "open" /\ Hear(ms) /\ UNCHANGED queue
  <2>1. New(queue') /\ OnceIn(queue', Sounds) /\ queue' \in Seq(Message)
    BY <1>1, <1>2, <1>5, <1>7
  <2>2. ASSUME NEW s \in Stream
        PROVE  /\ log'[s] \in Seq(Message) /\ OnceIn(log'[s], Sounds) /\ New(log'[s])
               /\ \A i \in DOMAIN log'[s], j \in DOMAIN queue' :
                    log'[s][i].kind = "sound" => queue'[j] # log'[s][i]
    <3> DEFINE w == log[s]
               k == Those(ms, About(s))
    <3>1. log'[s] = w \o k
      BY <1>7 DEF Hear
    <3>2. /\ k \in Seq(Message) /\ OnceIn(k, Sounds)
          /\ \A i \in 1..Len(k) : \E j \in 1..Len(ms) : k[i] = ms[j]
      BY KeptSounds
    <3> HIDE DEF k
    <3>3. \A i \in 1..Len(k) : k[i].kind = "sound" => k[i].piece \in n + 1..p
      BY <1>4, <3>2
    <3>4. w \in Seq(Message) /\ OnceIn(w, Sounds) /\ Old(w) /\ DOMAIN w = 1..Len(w)
      BY <1>1, <1>3, MessageLists
    <3>5. \A i \in DOMAIN w, j \in DOMAIN queue : w[i].kind = "sound" => queue[j] # w[i]
      BY <1>3
    <3> DEFINE b == w \o k
    <3> HIDE DEF w, p, n
    <3>6. /\ b \in Seq(Message) /\ OnceIn(b, Sounds)
          /\ \A i \in DOMAIN b :
               b[i].kind = "sound" =>
                 \/ b[i].piece \in n + 1..p
                 \/ \E j \in 1..Len(w) : b[i] = w[j]
          /\ New(b)
      BY <1>1, <3>2, <3>3, <3>4, NewerAfter
    <3> HIDE DEF b
    <3>7. ASSUME NEW i \in DOMAIN b, NEW j \in DOMAIN queue, b[i].kind = "sound"
          PROVE  queue[j] # b[i]
      <4>1. CASE b[i].piece \in n + 1..p
        <5>1. queue[j].kind = "sound" => queue[j].piece > p
          BY <1>2
        <5>2. ~(b[i].piece > p)
          BY <1>1, <4>1
        <5> QED BY <3>7, <5>1, <5>2
      <4>2. CASE \E h \in 1..Len(w) : b[i] = w[h]
        BY <3>4, <3>5, <3>7, <4>2
      <4> QED BY <3>6, <3>7, <4>1, <4>2
    <3>8. log'[s] = b
      BY <3>1 DEF b
    <3> QED BY <1>7, <3>6, <3>7, <3>8
  <2> QED BY <1>6, <2>1, <2>2
<1>8. CASE UNCHANGED <<gateway, queue>>
  <2>1. log' = log /\ queue' = queue
    BY <1>8 DEF gateway
  <2> QED BY <1>1, <1>2, <1>3, <1>5, <1>6, <2>1
<1>9. CASE queue' = queue \o ms /\ UNCHANGED gateway
  <2>1. log' = log
    BY <1>9 DEF gateway
  <2> DEFINE w == queue
             b == w \o ms
  <2>2. w \in Seq(Message) /\ OnceIn(w, Sounds) /\ Old(w) /\ DOMAIN w = 1..Len(w)
    BY <1>1, <1>2, MessageLists
  <2> HIDE DEF w, p, n
  <2>3. /\ b \in Seq(Message) /\ OnceIn(b, Sounds)
        /\ \A i \in DOMAIN b :
             b[i].kind = "sound" =>
               \/ b[i].piece \in n + 1..p
               \/ \E j \in 1..Len(w) : b[i] = w[j]
        /\ New(b)
    BY <1>1, <1>4, <2>2, NewerAfter
  <2> HIDE DEF b
  <2>4. ASSUME NEW s \in Stream, NEW i \in DOMAIN log[s], NEW j \in DOMAIN b, log[s][i].kind = "sound"
        PROVE  b[j] # log[s][i]
    <3>1. log[s][i].piece > p
      BY <1>3, <2>4
    <3>2. CASE b[j].piece \in n + 1..p
      <4>1. ~(b[j].piece > p)
        BY <1>1, <3>2
      <4> QED BY <3>1, <4>1
    <3>3. CASE \E h \in 1..Len(w) : b[j] = w[h]
      BY <1>3, <2>2, <2>4, <3>3 DEF w
    <3>4. CASE b[j].kind # "sound"
      BY <2>4, <3>4
    <3> QED BY <2>3, <2>4, <3>2, <3>3, <3>4
  <2>5. queue' = b
    BY <1>9 DEF b, w
  <2>6. \A s \in Stream : log'[s] \in Seq(Message) /\ OnceIn(log'[s], Sounds) /\ New(log'[s])
    BY <1>1, <1>3, <1>5, <2>1
  <2> QED BY <1>6, <2>1, <2>3, <2>4, <2>5, <2>6
<1> QED BY <1>7, <1>8, <1>9 DEF Say

\* One message that is said is heard, lost or kept.
LEMMA SaidOne ==
  ASSUME PageTypeOK, NEW m \in Message, Say(<<m>>)
  PROVE  \/ /\ socket = "open" /\ queue' = queue
            /\ \A s \in Stream : log'[s] = IF m \in About(s) THEN Append(log[s], m) ELSE log[s]
         \/ socket = "dead" /\ queue' = queue /\ log' = log
         \/ /\ socket \notin {"open", "dead"} /\ log' = log
            /\ queue' = Append(queue, m)
            /\ \A s \in Stream :
                 Those(queue', About(s)) = IF m \in About(s) THEN Append(Those(queue, About(s)), m)
                                                             ELSE Those(queue, About(s))
<1> DEFINE ms == <<m>>
<1>1. CASE socket = "open" /\ Hear(ms) /\ UNCHANGED queue
  <2>1. ASSUME NEW s \in Stream
        PROVE  log'[s] = IF m \in About(s) THEN Append(log[s], m) ELSE log[s]
    <3>1. log'[s] = log[s] \o Those(ms, About(s))
      BY <1>1 DEF Hear
    <3>2. log[s] \in Seq(Message)
      BY DEF PageTypeOK
    <3>3. CASE m \in About(s)
      <4>1. Those(ms, About(s)) = ms
        BY <3>3, Single
      <4>2. Append(log[s], m) = log[s] \o ms
        BY <3>2, AppendIsConcat
      <4> QED BY <3>1, <3>3, <4>1, <4>2
    <3>4. CASE m \notin About(s)
      <4>1. Those(ms, About(s)) = <<>>
        BY <3>4, Single
      <4>2. log[s] \o <<>> = log[s]
        BY <3>2, ConcatEmptySeq
      <4> QED BY <3>1, <3>4, <4>1, <4>2
    <3> QED BY <3>3, <3>4
  <2> QED BY <1>1, <2>1
<1>2. CASE socket = "dead" /\ UNCHANGED <<gateway, queue>>
  BY <1>2 DEF gateway
<1>3. CASE socket \notin {"open", "dead"} /\ queue' = queue \o ms /\ UNCHANGED gateway
  <2>1. queue \in Seq(Message)
    BY DEF PageTypeOK
  <2>2. queue' = Append(queue, m)
    BY <1>3, <2>1, AppendIsConcat
  <2>3. \A s \in Stream :
          Those(queue', About(s)) = IF m \in About(s) THEN Append(Those(queue, About(s)), m)
                                                      ELSE Those(queue, About(s))
    BY <2>1, <2>2, KeptNext
  <2> QED BY <1>3, <2>2, <2>3 DEF gateway
<1> QED BY <1>1, <1>2, <1>3 DEF Say

-----------------------------------------------------------------------------
(* Recordings and deliveries that a step does not touch.                   *)

\* What is remembered of a step.
LEMMA Remembered ==
  ASSUME PageTypeOK, Remember, use'.streams = use.streams, rec'.stream \in 0..use.streams
  PROVE  /\ Stream' = Stream /\ Message' = Message /\ spoilt' \subseteq Stream
         /\ spoilt \subseteq spoilt'
         /\ \A s \in Stream \ spoilt' :
              /\ s \notin spoilt
              /\ s = rec.stream \/ s = rec'.stream =>
                   ~(live' + closing' > 1) /\ (rec.on => socket' = socket)
<1>1. Stream' = Stream
  BY DEF Stream
<1>2. Message' = Message
  BY <1>1 DEF Message, Answer
<1>3. spoilt' \subseteq Stream /\ spoilt \subseteq spoilt'
  BY DEF Remember, PageTypeOK
<1>4. \A s \in Stream \ spoilt' :
        /\ s \notin spoilt
        /\ s = rec.stream \/ s = rec'.stream =>
             ~(live' + closing' > 1) /\ (rec.on => socket' = socket)
  BY DEF Remember
<1> QED BY <1>1, <1>2, <1>3, <1>4

\* A step that leaves recording, microphones and button as they are.
LEMMA CalmStays ==
  ASSUME Calm, spoilt \subseteq spoilt',
         rec' = rec, live' = live, closing' = closing, astray' = astray, ptt => ptt'
  PROVE  Calm'
BY DEF Calm

\* A recording that is to come or is over stays as it is.
LEMMA AtRest ==
  ASSUME PageTypeOK, NEW s \in Stream, Recorded(s), log'[s] = log[s],
         Those(queue', About(s)) = Those(queue, About(s)),
         \/ s > rec.stream /\ s > rec'.stream
         \/ /\ s < rec.stream \/ (s = rec.stream /\ ~rec.on)
            /\ s < rec'.stream \/ (s = rec'.stream /\ ~rec'.on),
         rec'.stream \in Nat
  PROVE  Recorded(s)'
<1> DEFINE sent == log[s]
           kept == Those(queue, About(s))
<1>1. s \in Int /\ rec.stream \in Int /\ rec'.stream \in Int
  BY DEF PageTypeOK, Stream
<1>2. CASE s > rec.stream /\ s > rec'.stream
  <2>1. sent = <<>> /\ kept = <<>>
    BY <1>2 DEF Recorded
  <2> QED BY <1>1, <1>2, <2>1 DEF Recorded
<1>3. CASE /\ s < rec.stream \/ (s = rec.stream /\ ~rec.on)
           /\ s < rec'.stream \/ (s = rec'.stream /\ ~rec'.on)
  <2>1. (sent = <<>> \/ kept = <<>>) /\ \A w \in {sent, kept} : w = <<>> \/ Whole(w, s)
    BY <1>3 DEF Recorded
  <2> QED BY <1>1, <1>3, <2>1 DEF Recorded
<1> QED BY <1>2, <1>3

\* So does one that goes on while nothing is said of it.
LEMMA NothingSaid ==
  ASSUME PageTypeOK, NEW s \in Stream, Recorded(s), log'[s] = log[s],
         Those(queue', About(s)) = Those(queue, About(s)),
         socket' = socket, use'.pieces = use.pieces, rec'.stream = rec.stream,
         rec'.on = rec.on, rec'.seq = rec.seq
  PROVE  Recorded(s)'
BY DEF Recorded, Going

\* What is in the cache and under way to it.
LEMMA CachedOnes ==
  ASSUME PageTypeOK
  PROVE  /\ Len(cache) \in Nat /\ DOMAIN cache = 1..Len(cache)
         /\ \A i \in DOMAIN cache :
              cache[i] \in [id : Response, chunks : SUBSET (1..NumChunks), complete : BOOLEAN]
         /\ \A i \in DOMAIN cache : cache[i].id \in Response
         /\ Len(inbox) \in Nat /\ DOMAIN inbox = 1..Len(inbox)
         /\ \A i \in DOMAIN inbox : inbox[i] \in [of : Response, step : 0..NumChunks + 1]
<1> DEFINE C == [id : Response, chunks : SUBSET (1..NumChunks), complete : BOOLEAN]
           B == [of : Response, step : 0..NumChunks + 1]
<1>1. cache \in Seq(C) /\ inbox \in Seq(B)
  BY DEF PageTypeOK
<1>2. \A e \in C : e.id \in Response
  OBVIOUS
<1> HIDE DEF C, B
<1>3. Len(cache) \in Nat /\ DOMAIN cache = 1..Len(cache) /\ \A i \in 1..Len(cache) : cache[i] \in C
  BY <1>1, LenProperties, ElementOfSeq
<1>4. Len(inbox) \in Nat /\ DOMAIN inbox = 1..Len(inbox) /\ \A i \in 1..Len(inbox) : inbox[i] \in B
  BY <1>1, LenProperties, ElementOfSeq
<1> QED BY <1>2, <1>3, <1>4 DEF C, B

\* What is cached stays, if every delivery stands as it must with it.
LEMMA CacheStays ==
  ASSUME PageTypeOK, CacheFollows, cache' = cache,
         \A r \in Response : \A m \in 0..NumChunks : Stands(r, m) => Stands(r, m)'
  PROVE  CacheFollows'
<1>1. ASSUME NEW i \in DOMAIN cache
      PROVE  \E m \in 0..NumChunks : Holds(cache[i], m) /\ Stands(cache[i].id, m)'
  <2>1. PICK m \in 0..NumChunks : Holds(cache[i], m) /\ Stands(cache[i].id, m)
    BY DEF CacheFollows
  <2>2. PICK r \in Response : r = cache[i].id /\ r = cache'[i].id
    BY CachedOnes
  <2>3. Stands(r, m)'
    BY <2>1, <2>2
  <2>4. Stands(cache[i].id, m)'
    BY <2>2, <2>3 DEF Stands, Handled
  <2> QED BY <2>1, <2>4
<1> QED BY <1>1 DEF CacheFollows, Holds

\* The deliveries are where they were, and no answer joins the queue.
LEMMA DeliveriesStay ==
  ASSUME PageTypeOK, Awaits, CacheFollows, inbox' = inbox, step' = step, phase' = phase, cache' = cache,
         \A j \in DOMAIN queue' :
           queue'[j].kind = "ack" => \E i \in DOMAIN queue : queue[i] = queue'[j]
  PROVE  Awaits' /\ CacheFollows'
<1>1. Due' = Due
  BY DEF Due
<1>2. Awaits'
  BY <1>1 DEF Awaits
<1>3. ASSUME NEW r \in Response, NEW m \in 0..NumChunks, Stands(r, m)
      PROVE  Stands(r, m)'
  <2>1. Handled(r)' = Handled(r)
    BY <1>1 DEF Handled
  <2>2. ASSUME NEW j \in DOMAIN queue', queue'[j] = Ack(r, step[r], TRUE), step[r] <= NumChunks
        PROVE  m = step[r]
    <3>1. queue'[j].kind = "ack"
      BY <2>2 DEF Ack
    <3> QED BY <1>3, <2>2, <3>1 DEF Stands
  <2> QED BY <1>3, <2>1, <2>2 DEF Stands
<1>4. CacheFollows'
  BY <1>3, CacheStays
<1> QED BY <1>2, <1>4

-----------------------------------------------------------------------------
(* The connection's steps keep the invariant.                              *)

\* What is heard and queued of sound stays as it is.
LEMMA SoundStays ==
  ASSUME HeardOnce, SaidOnce, log' = log, queue' = queue, Stream' = Stream, use'.pieces = use.pieces
  PROVE  HeardOnce' /\ SaidOnce'
BY DEF HeardOnce, SaidOnce

\* A connection that is up says hello before all else.
LEMMA OpenKeeps ==
  ASSUME PageInd, Open, Remember
  PROVE  PageInd'
<1> USE DEF PageInd
<1>1. /\ socket = "connecting" /\ socket' = "open" /\ Hear(<<Greeting>>)
      /\ use' = use /\ connected' = connected /\ timer' = timer /\ queue' = queue /\ inbox' = inbox
      /\ ptt' = ptt /\ asking' = asking /\ rec' = rec /\ closing' = closing /\ live' = live
      /\ astray' = astray /\ cache' = cache /\ latest' = latest
  BY DEF Open, talk, audio
<1>2. /\ Stream' = Stream /\ Message' = Message /\ spoilt' \subseteq Stream /\ spoilt \subseteq spoilt'
      /\ \A s \in Stream \ spoilt' : s \notin spoilt /\ (s = rec.stream => ~rec.on)
  <2>1. use'.streams = use.streams /\ rec'.stream \in 0..use.streams
    BY <1>1 DEF PageTypeOK
  <2> QED BY <1>1, <2>1, Remembered
<1> DEFINE ms == <<Greeting>>
           g == Greeting
<1>3. Len(ms) = 1 /\ ms[1] = g /\ DOMAIN ms = 1..1 /\ Head(ms) = g /\ ms # <<>>
  OBVIOUS
<1>4. log' = log
  <2>1. ASSUME NEW s \in Stream
        PROVE  log[s] \o Those(ms, About(s)) = log[s]
    <3>1. g \notin About(s)
      BY AboutRecording DEF Stream, Greeting
    <3>2. g \in {g}
      OBVIOUS
    <3> HIDE DEF g
    <3>3. Those(<<g>>, About(s)) = <<>>
      BY <3>1, <3>2, Single
    <3>4. log[s] \in Seq(Message)
      BY DEF PageTypeOK
    <3>5. log[s] \o <<>> = log[s]
      BY <3>4, ConcatEmptySeq
    <3> QED BY <3>3, <3>5 DEF g
  <2>2. log' = [s \in Stream |-> log[s]]
    BY <1>1, <2>1 DEF Hear
  <2> QED BY <2>2 DEF PageTypeOK
<1>5. step' = step /\ phase' = phase
  <2>1. \A r, n, ok : \A i \in DOMAIN ms : ms[i] # Ack(r, n, ok)
    BY <1>3 DEF Ack, Greeting
  <2>2. \A r \in Response, ok \in BOOLEAN : ~\E i \in DOMAIN ms : ms[i] = Ack(r, step[r], ok)
    BY <2>1
  <2>3. step' = [r \in Response |-> step[r]]
    BY <1>1, <2>2 DEF Hear
  <2>4. phase' = [r \in Response |-> phase[r]]
    BY <1>1, <2>2 DEF Hear
  <2> QED BY <2>3, <2>4 DEF PageTypeOK
<1>6. first' = "hello" /\ hellos' = 1
  <2>1. first = "none" /\ hellos = 0
    BY <1>1 DEF Greeted
  <2>2. g \in {g}
    OBVIOUS
  <2> HIDE DEF g
  <2>3. Those(<<g>>, {g}) = <<g>>
    BY <2>2, Single
  <2>4. Len(Those(<<g>>, {g})) = 1
    BY <2>3
  <2>5. hellos' = 1
    BY <1>1, <2>1, <2>4 DEF Hear, g
  <2>6. g.kind = "hello"
    BY DEF g, Greeting
  <2>7. first' = g.kind
    BY <1>1, <1>3, <2>1 DEF Hear, g
  <2> QED BY <2>5, <2>6, <2>7
<1>7. PageTypeOK'
  BY <1>1, <1>2, <1>4, <1>5, <1>6 DEF PageTypeOK
<1>8. HelloOpens' /\ Greeted'
  BY <1>1, <1>6 DEF HelloOpens, Greeted
<1>9. HeardOnce' /\ SaidOnce'
  BY <1>1, <1>2, <1>4, SoundStays
<1>10. Room' /\ Calm'
  BY <1>1, <1>2, CalmStays DEF Room
<1>11. Awaits' /\ CacheFollows'
  BY <1>1, <1>5, DeliveriesStay
<1>12. ASSUME NEW s \in Stream \ spoilt'
       PROVE  Recorded(s)'
  <2>1. Recorded(s) /\ s \in Stream /\ ~(s = rec.stream /\ rec.on) /\ s \in Nat /\ rec.stream \in Nat
    BY <1>2, <1>12 DEF PageTypeOK, Stream
  <2> QED BY <1>1, <1>4, <2>1, AtRest
<1> QED BY <1>2, <1>7, <1>8, <1>9, <1>10, <1>11, <1>12

\* The bounds of how the page is used.
Used == [presses : Nat, streams : Nat, pieces : Nat, breaks : Nat, reloads : Nat,
         responses : SUBSET Response]

LEMMA UseCounted ==
  ASSUME PageTypeOK
  PROVE  /\ use.presses \in Nat /\ use.streams \in Nat /\ use.pieces \in Nat
         /\ use.breaks \in Nat /\ use.reloads \in Nat
         /\ \A n \in Nat :
              /\ [use EXCEPT !.presses = n] \in Used /\ [use EXCEPT !.pieces = n] \in Used
              /\ [use EXCEPT !.breaks = n] \in Used /\ [use EXCEPT !.reloads = n] \in Used
<1>1. use \in Used
  BY DEF PageTypeOK, Used
<1> QED BY ONLY <1>1 DEF Used

\* Commands under way to the page are lost with the connection.
LEMMA CommandsLost ==
  ASSUME PageTypeOK, Awaits, CacheFollows, inbox' = <<>>, step' = step, phase' = phase,
         cache' = cache, queue' = queue
  PROVE  Awaits' /\ CacheFollows'
<1>1. Due' = {}
  BY DEF Due
<1>2. Awaits'
  BY <1>1 DEF Awaits
<1>3. \A r \in Response : \A m \in 0..NumChunks : Stands(r, m) => Stands(r, m)'
  BY <1>1 DEF Stands, Handled
<1>4. CacheFollows'
  BY <1>3, CacheStays
<1> QED BY <1>2, <1>4

\* A step of the connection alone spoils the recording that is on.
LEMMA LinkStep ==
  ASSUME PageInd, Remember, UNCHANGED <<queue, talk, audio, step, phase, log>>,
         use'.presses = use.presses, use'.streams = use.streams, use'.pieces = use.pieces,
         socket' # socket, inbox' = inbox \/ inbox' = <<>>,
         PageTypeOK', HelloOpens', Greeted'
  PROVE  PageInd'
<1> USE DEF PageInd
<1>1. /\ queue' = queue /\ log' = log /\ step' = step /\ phase' = phase
      /\ ptt' = ptt /\ asking' = asking /\ rec' = rec /\ closing' = closing /\ live' = live
      /\ astray' = astray /\ cache' = cache /\ latest' = latest
  BY DEF talk, audio
<1>2. /\ Stream' = Stream /\ spoilt \subseteq spoilt'
      /\ \A s \in Stream \ spoilt' : s \notin spoilt /\ (s = rec.stream => ~rec.on)
  <2>1. rec'.stream \in 0..use.streams
    BY <1>1 DEF PageTypeOK
  <2> QED BY <1>1, <2>1, Remembered
<1>3. HeardOnce' /\ SaidOnce'
  BY <1>1, <1>2, SoundStays
<1>4. Room' /\ Calm'
  BY <1>1, <1>2, CalmStays DEF Room
<1>5. Awaits' /\ CacheFollows'
  BY <1>1, DeliveriesStay, CommandsLost
<1>6. ASSUME NEW s \in Stream \ spoilt'
       PROVE  Recorded(s)'
  <2>1. Recorded(s) /\ s \in Stream /\ ~(s = rec.stream /\ rec.on) /\ s \in Nat /\ rec.stream \in Nat
    BY <1>2, <1>6 DEF PageTypeOK, Stream
  <2> QED BY <1>1, <2>1, AtRest
<1> QED BY <1>2, <1>3, <1>4, <1>5, <1>6

\* The connection breaks.
LEMMA BreakKeeps ==
  ASSUME PageInd, Break, Remember
  PROVE  PageInd'
<1> USE DEF PageInd
<1>1. /\ socket = "open" /\ socket' = "dead" /\ use.breaks > 0
      /\ use' = [use EXCEPT !.breaks = @ - 1]
      /\ connected' = connected /\ timer' = timer /\ queue' = queue /\ inbox' = inbox
      /\ ptt' = ptt /\ asking' = asking /\ rec' = rec /\ closing' = closing /\ live' = live
      /\ astray' = astray /\ cache' = cache /\ latest' = latest
      /\ step' = step /\ phase' = phase /\ log' = log /\ first' = first /\ hellos' = hellos
  BY DEF Break, talk, audio, gateway
<1>2. /\ use' \in Used
      /\ use'.presses = use.presses /\ use'.streams = use.streams /\ use'.pieces = use.pieces
  <2>1. use.breaks - 1 \in Nat /\ use' = [use EXCEPT !.breaks = use.breaks - 1]
    BY <1>1, UseCounted
  <2>2. use' \in Used
    BY <2>1, UseCounted
  <2>3. use \in Used
    BY DEF PageTypeOK, Used
  <2>4. use'.presses = use.presses /\ use'.streams = use.streams /\ use'.pieces = use.pieces
    BY ONLY <2>1, <2>3 DEF Used
  <2> QED BY <2>2, <2>4
<1>3. Stream' = Stream /\ Message' = Message /\ spoilt' \subseteq Stream
  <2>1. rec'.stream \in 0..use.streams
    BY <1>1 DEF PageTypeOK
  <2> QED BY <1>2, <2>1, Remembered
<1>4. PageTypeOK'
  <2> DEFINE u == use'
  <2>1. u \in Used
    BY <1>2
  <2>2. /\ connected' \in BOOLEAN /\ timer' \in BOOLEAN /\ queue' \in Seq(Message)
        /\ rec' \in [on : BOOLEAN, stream : 0..use'.streams, seq : Nat, open : BOOLEAN]
        /\ log' \in [Stream -> Seq(Message)]
    BY <1>1, <1>2 DEF PageTypeOK
  <2> HIDE DEF u
  <2> QED BY <1>1, <1>3, <2>1, <2>2 DEF PageTypeOK, Used, u
<1>5. HelloOpens' /\ Greeted'
  BY <1>1 DEF HelloOpens, Greeted
<1> QED BY <1>1, <1>2, <1>4, <1>5, LinkStep DEF talk, audio

\* The close frame of the gateway arrives.
LEMMA BeginCloseKeeps ==
  ASSUME PageInd, BeginClose, Remember
  PROVE  PageInd'
<1> USE DEF PageInd
<1>1. /\ socket = "dead" /\ socket' = "closing" /\ use' = use
      /\ connected' = connected /\ timer' = timer /\ queue' = queue /\ inbox' = inbox
      /\ ptt' = ptt /\ asking' = asking /\ rec' = rec /\ closing' = closing /\ live' = live
      /\ astray' = astray /\ cache' = cache /\ latest' = latest
      /\ step' = step /\ phase' = phase /\ log' = log /\ first' = first /\ hellos' = hellos
  BY DEF BeginClose, talk, audio, gateway
<1>2. Stream' = Stream /\ Message' = Message /\ spoilt' \subseteq Stream
  <2>1. use'.streams = use.streams /\ rec'.stream \in 0..use.streams
    BY <1>1 DEF PageTypeOK
  <2> QED BY <2>1, Remembered
<1>3. PageTypeOK'
  BY <1>1, <1>2 DEF PageTypeOK
<1>4. HelloOpens' /\ Greeted'
  BY <1>1 DEF HelloOpens, Greeted
<1> QED BY <1>1, <1>3, <1>4, LinkStep DEF talk, audio

\* The socket tells that it is closed.
LEMMA OnCloseKeeps ==
  ASSUME PageInd, OnClose, Remember
  PROVE  PageInd'
<1> USE DEF PageInd
<1>1. /\ socket \in {"connecting", "dead", "closing"} /\ socket' = "closed" /\ use' = use
      /\ connected' = FALSE /\ timer' = TRUE /\ queue' = queue /\ inbox' = <<>>
      /\ ptt' = ptt /\ asking' = asking /\ rec' = rec /\ closing' = closing /\ live' = live
      /\ astray' = astray /\ cache' = cache /\ latest' = latest
      /\ step' = step /\ phase' = phase /\ log' = log /\ first' = first /\ hellos' = hellos
  BY DEF OnClose, talk, audio, gateway
<1>2. Stream' = Stream /\ Message' = Message /\ spoilt' \subseteq Stream
  <2>1. use'.streams = use.streams /\ rec'.stream \in 0..use.streams
    BY <1>1 DEF PageTypeOK
  <2> QED BY <2>1, Remembered
<1>3. PageTypeOK'
  <2>1. inbox' \in Seq([of : Response, step : 0..NumChunks + 1])
    BY <1>1
  <2>2. /\ socket' = "closed" /\ connected' \in BOOLEAN /\ timer' = TRUE /\ hellos' = hellos
        /\ connected' \in BOOLEAN
    BY <1>1
  <2>3. /\ use' = use /\ queue' = queue
        /\ ptt' = ptt /\ asking' = asking /\ rec' = rec /\ closing' = closing /\ live' = live
        /\ astray' = astray /\ cache' = cache /\ latest' = latest
        /\ step' = step /\ phase' = phase /\ log' = log
    BY <1>1
  <2> QED BY ONLY PageTypeOK, <1>2, <2>1, <2>2, <2>3 DEF PageTypeOK
<1>4. HelloOpens' /\ Greeted'
  BY <1>1 DEF HelloOpens, Greeted
<1> QED BY <1>1, <1>3, <1>4, LinkStep DEF talk, audio

\* The timer connects again.
LEMMA ReconnectKeeps ==
  ASSUME PageInd, Reconnect, Remember
  PROVE  PageInd'
<1> USE DEF PageInd
<1>1. /\ timer /\ timer' = FALSE /\ socket' = "connecting" /\ use' = use
      /\ connected' = connected /\ queue' = queue /\ inbox' = inbox
      /\ ptt' = ptt /\ asking' = asking /\ rec' = rec /\ closing' = closing /\ live' = live
      /\ astray' = astray /\ cache' = cache /\ latest' = latest
      /\ step' = step /\ phase' = phase /\ log' = log /\ first' = "none" /\ hellos' = 0
  BY DEF Reconnect, talk, audio
<1>2. Stream' = Stream /\ Message' = Message /\ spoilt' \subseteq Stream
  <2>1. use'.streams = use.streams /\ rec'.stream \in 0..use.streams
    BY <1>1 DEF PageTypeOK
  <2> QED BY <2>1, Remembered
<1>3. PageTypeOK'
  BY <1>1, <1>2 DEF PageTypeOK
<1>4. HelloOpens' /\ Greeted' /\ socket' # socket
  BY <1>1 DEF HelloOpens, Greeted, PageTypeOK
<1> QED BY <1>1, <1>3, <1>4, LinkStep DEF talk, audio

\* The page is loaded again: what it knew and held is gone.
LEMMA ReloadKeeps ==
  ASSUME PageInd, Reload, Remember
  PROVE  PageInd'
<1> USE DEF PageInd
<1>1. /\ use.reloads > 0 /\ use' = [use EXCEPT !.reloads = @ - 1]
      /\ socket' = "connecting" /\ connected' = FALSE /\ timer' = FALSE /\ queue' = <<>>
      /\ ptt' = FALSE /\ asking' = 0 /\ closing' = 0 /\ live' = 0 /\ astray' = FALSE
      /\ rec' = [Off EXCEPT !.stream = rec.stream]
      /\ cache' = <<>> /\ latest' = "none" /\ inbox' = <<>>
      /\ first' = "none" /\ hellos' = 0
      /\ step' = step /\ phase' = phase /\ log' = log
  BY DEF Reload
<1>2. /\ use' \in Used /\ use'.responses = use.responses
      /\ use'.presses = use.presses /\ use'.streams = use.streams /\ use'.pieces = use.pieces
  <2>1. use.reloads - 1 \in Nat /\ use' = [use EXCEPT !.reloads = use.reloads - 1]
    BY <1>1, UseCounted
  <2>2. use' \in Used
    BY <2>1, UseCounted
  <2>3. use \in Used
    BY DEF PageTypeOK, Used
  <2>4. /\ use'.presses = use.presses /\ use'.streams = use.streams /\ use'.pieces = use.pieces
        /\ use'.responses = use.responses
    BY ONLY <2>1, <2>3 DEF Used
  <2> QED BY <2>2, <2>4
<1>3. rec'.stream = rec.stream /\ ~rec'.on /\ rec'.seq = 0 /\ ~rec'.open /\ rec'.stream \in 0..use.streams
      /\ rec' \in [on : BOOLEAN, stream : 0..use'.streams, seq : Nat, open : BOOLEAN]
  BY <1>1, <1>2 DEF PageTypeOK, Off
<1>4. /\ Stream' = Stream /\ Message' = Message /\ spoilt' \subseteq Stream /\ spoilt \subseteq spoilt'
      /\ \A s \in Stream \ spoilt' :
           s \notin spoilt /\ (s = rec.stream => (rec.on => socket' = socket))
  BY <1>2, <1>3, Remembered
<1>5. PageTypeOK'
  <2> DEFINE u == use'
             C == [id : Response, chunks : SUBSET (1..NumChunks), complete : BOOLEAN]
             B == [of : Response, step : 0..NumChunks + 1]
             q == queue'
             c == cache'
             i == inbox'
  <2>1. q \in Seq(Message) /\ i \in Seq(B) /\ c \in Seq(C) /\ Len(c) = 0
    BY <1>1
  <2>2. u \in Used
    BY <1>2
  <2>3. MaxResponses \in Nat /\ step \in [Response -> 0..NumChunks + 1]
        /\ phase \in [Response -> {"ready", "waiting", "delivered", "failed"}]
        /\ log \in [Stream -> Seq(Message)]
    BY CacheAssumption DEF PageTypeOK
  <2>4. /\ socket' = "connecting" /\ ~timer' /\ timer' \in BOOLEAN /\ connected' \in BOOLEAN
        /\ ptt' \in BOOLEAN /\ asking' = 0 /\ closing' = 0 /\ live' = 0 /\ astray' \in BOOLEAN
        /\ latest' = "none" /\ hellos' = 0 /\ step' = step /\ phase' = phase /\ log' = log
    BY <1>1
  <2> HIDE DEF u, q, c, i
  <2> QED BY ONLY <1>3, <1>4, <2>1, <2>2, <2>3, <2>4 DEF PageTypeOK, Used, u, q, c, i
<1>6. HelloOpens' /\ Greeted'
  BY <1>1 DEF HelloOpens, Greeted
<1>7. HeardOnce'
  BY <1>1, <1>4 DEF HeardOnce
<1>8. SaidOnce'
  <2>1. \A s \in Stream : \A i \in DOMAIN log[s] : log[s][i].kind = "sound" => log[s][i].piece > use.pieces
    BY DEF SaidOnce
  <2> QED BY <1>1, <1>2, <1>4, <2>1 DEF SaidOnce
<1>9. Room' /\ Calm'
  <2>1. /\ use.presses \in Nat /\ use.streams \in Nat /\ rec.stream \in Int /\ asking \in Nat
        /\ rec.stream + asking + use.presses <= use.streams
    BY UseCounted DEF Room, PageTypeOK
  <2>2. Room'
    BY <1>1, <1>2, <1>3, <2>1 DEF Room
  <2>3. Calm'
    BY <1>1, <1>3 DEF Calm
  <2> QED BY <2>2, <2>3
<1>10. Awaits' /\ CacheFollows'
  BY <1>1 DEF Awaits, CacheFollows
<1>11. ASSUME NEW s \in Stream \ spoilt'
       PROVE  Recorded(s)'
  <2>1. Recorded(s) /\ s \in Nat /\ rec.stream \in Nat
    BY <1>4, <1>11 DEF PageTypeOK, Stream
  <2>2. Those(queue', About(s)) = <<>>
    <3>1. Len(queue') = 0
      BY <1>1
    <3> QED BY <3>1, NothingKept
  <2>3. log[s] = <<>> \/ Whole(log[s], s)
    <3>1. CASE s > rec.stream
      BY <2>1, <3>1 DEF Recorded
    <3>2. CASE s < rec.stream \/ (s = rec.stream /\ ~rec.on)
      BY <2>1, <3>2 DEF Recorded
    <3>3. CASE s = rec.stream /\ rec.on
      <4>1. socket = "connecting"
        BY <1>1, <1>4, <1>11, <3>3
      <4> QED BY <2>1, <3>3, <4>1 DEF Recorded
    <3> QED BY <2>1, <3>1, <3>2, <3>3
  <2>4. s > rec.stream => log[s] = <<>>
    BY <2>1 DEF Recorded
  <2> QED BY <1>1, <1>3, <2>1, <2>2, <2>3, <2>4 DEF Recorded
<1> QED BY <1>4, <1>5, <1>6, <1>7, <1>8, <1>9, <1>10, <1>11

-----------------------------------------------------------------------------
(* Answers to the deliveries.                                              *)

\* A list of messages answers the command a delivery has come to, with yes or no.
Answers(ms, r, ok) == \E i \in DOMAIN ms : ms[i] = Ack(r, step[r], ok)

\* What an answer does to the delivery.
LEMMA Answered ==
  ASSUME PageTypeOK, NEW ms \in Seq(Message), Hear(ms), NEW r \in Response
  PROVE  /\ phase[r] = "waiting" /\ Answers(ms, r, TRUE) /\ step[r] <= NumChunks =>
              step'[r] = step[r] + 1 /\ phase'[r] = "ready"
         /\ phase[r] = "waiting" /\ Answers(ms, r, TRUE) /\ step[r] = NumChunks + 1 =>
              step'[r] = step[r] /\ phase'[r] = "delivered"
         /\ phase[r] = "waiting" /\ Answers(ms, r, FALSE) /\ ~Answers(ms, r, TRUE) =>
              step'[r] = step[r] /\ phase'[r] = "failed"
         /\ phase[r] # "waiting" \/ (~Answers(ms, r, FALSE) /\ ~Answers(ms, r, TRUE)) =>
              step'[r] = step[r] /\ phase'[r] = phase[r]
<1>1. step[r] \in 0..NumChunks + 1 /\ NumChunks \in Nat
  BY CacheAssumption DEF PageTypeOK
<1> DEFINE yes == \E i \in DOMAIN ms : ms[i] = Ack(r, step[r], TRUE)
           no == \E i \in DOMAIN ms : ms[i] = Ack(r, step[r], FALSE)
           due == phase[r] = "waiting" /\ (yes \/ no)
<1>2. step'[r] = IF due /\ yes /\ step[r] <= NumChunks THEN step[r] + 1 ELSE step[r]
  BY DEF Hear
<1>3. /\ ~due => phase'[r] = phase[r]
      /\ due /\ ~yes => phase'[r] = "failed"
      /\ due /\ yes => phase'[r] = IF step[r] = NumChunks + 1 THEN "delivered" ELSE "ready"
  BY DEF Hear
<1> HIDE DEF yes, no, due
<1>4. phase[r] = "waiting" /\ yes /\ step[r] <= NumChunks =>
        step'[r] = step[r] + 1 /\ phase'[r] = "ready"
  BY <1>1, <1>2, <1>3 DEF due
<1>5. phase[r] = "waiting" /\ yes /\ step[r] = NumChunks + 1 =>
        step'[r] = step[r] /\ phase'[r] = "delivered"
  BY <1>1, <1>2, <1>3 DEF due
<1>6. phase[r] = "waiting" /\ no /\ ~yes => step'[r] = step[r] /\ phase'[r] = "failed"
  BY <1>1, <1>2, <1>3 DEF due
<1>7. phase[r] # "waiting" \/ (~no /\ ~yes) => step'[r] = step[r] /\ phase'[r] = phase[r]
  BY <1>1, <1>2, <1>3 DEF due
<1> QED BY <1>4, <1>5, <1>6, <1>7 DEF Answers, yes, no

\* hello_ack: the gateway hears what was queued.
LEMMA QueueHeardKeeps ==
  ASSUME PageInd, HelloAck, Remember, socket = "open"
  PROVE  PageInd'
<1> USE DEF PageInd
<1>1. /\ socket = "open" /\ ~connected /\ connected' = TRUE /\ Hear(queue) /\ queue' = <<>>
      /\ use' = use /\ socket' = socket /\ timer' = timer /\ inbox' = inbox
      /\ ptt' = ptt /\ asking' = asking /\ rec' = rec /\ closing' = closing /\ live' = live
      /\ astray' = astray /\ cache' = cache /\ latest' = latest
  BY DEF HelloAck, talk, audio
<1>2. /\ Stream' = Stream /\ Message' = Message /\ spoilt' \subseteq Stream /\ spoilt \subseteq spoilt'
      /\ \A s \in Stream \ spoilt' : s \notin spoilt
  <2>1. use'.streams = use.streams /\ rec'.stream \in 0..use.streams
    BY <1>1 DEF PageTypeOK
  <2> QED BY <1>1, <2>1, Remembered
<1>3. queue \in Seq(Message) /\ first # "none"
  BY <1>1 DEF PageTypeOK, Greeted
<1>4. /\ log' \in [Stream -> Seq(Message)]
      /\ step' \in [Response -> 0..NumChunks + 1]
      /\ phase' \in [Response -> {"ready", "waiting", "delivered", "failed"}]
      /\ hellos' = hellos /\ first' = first
  BY <1>1, <1>3, HeardMore
<1>5. PageTypeOK'
  <2>1. queue' \in Seq(Message)
    BY <1>1
  <2>2. /\ socket' = socket /\ timer' = timer /\ connected' \in BOOLEAN /\ use' = use /\ inbox' = inbox
        /\ ptt' = ptt /\ asking' = asking /\ rec' = rec /\ closing' = closing /\ live' = live
        /\ astray' = astray /\ cache' = cache /\ latest' = latest
    BY <1>1
  <2> QED BY ONLY PageTypeOK, <1>2, <1>4, <2>1, <2>2 DEF PageTypeOK
<1>6. HelloOpens' /\ Greeted'
  BY <1>1, <1>4 DEF HelloOpens, Greeted
<1>7. Room' /\ Calm'
  BY <1>1, <1>2, CalmStays DEF Room
<1>8. HeardOnce' /\ SaidOnce'
  <2>1. ASSUME NEW s \in Stream
        PROVE  /\ log'[s] \in Seq(Message) /\ OnceIn(log'[s], Sounds)
               /\ \A i \in 1..Len(log'[s]) : log'[s][i].kind = "sound" => log'[s][i].piece > use.pieces
    <3> DEFINE w == log[s]
               k == Those(queue, About(s))
               b == w \o k
    <3>1. log'[s] = b
      BY <1>1 DEF Hear
    <3>2. /\ w \in Seq(Message) /\ OnceIn(w, Sounds) /\ DOMAIN w = 1..Len(w)
          /\ \A i \in 1..Len(w) : w[i].kind = "sound" => w[i].piece > use.pieces
    <4>1. w \in Seq(Message)
      BY DEF PageTypeOK
    <4> QED BY <4>1, MessageLists DEF HeardOnce, SaidOnce
    <3>3. OnceIn(queue, Sounds) /\ DOMAIN queue = 1..Len(queue)
      BY <1>3, MessageLists DEF SaidOnce
    <3>4. /\ k \in Seq(Message) /\ OnceIn(k, Sounds)
          /\ \A i \in 1..Len(k) : \E j \in 1..Len(queue) : k[i] = queue[j]
      BY <1>3, <3>3, KeptSounds
    <3>5. /\ \A i \in 1..Len(queue) : queue[i].kind = "sound" => queue[i].piece > use.pieces
          /\ \A i \in 1..Len(w), j \in 1..Len(queue) : w[i].kind = "sound" => w[i] # queue[j]
      BY <3>2, <3>3 DEF SaidOnce
    <3> HIDE DEF w, k
    <3>6. \A i \in 1..Len(w), j \in 1..Len(k) : w[i] \in Sounds => w[i] # k[j]
      BY <3>4, <3>5 DEF Sounds
    <3>7. OnceIn(b, Sounds)
      BY <3>2, <3>4, <3>6, OnceInBoth
    <3>8. /\ b \in Seq(Message) /\ Len(b) = Len(w) + Len(k)
          /\ \A i \in 1..Len(w) + Len(k) :
              \/ i \in 1..Len(w) /\ b[i] = w[i]
              \/ i - Len(w) \in 1..Len(k) /\ b[i] = k[i - Len(w)]
      BY <3>2, <3>4, BothLists
    <3> HIDE DEF b
    <3>9. ASSUME NEW i \in 1..Len(b), b[i].kind = "sound"
          PROVE  b[i].piece > use.pieces
      <4>1. CASE i \in 1..Len(w) /\ b[i] = w[i]
        BY <3>2, <3>9, <4>1
      <4>2. CASE i - Len(w) \in 1..Len(k) /\ b[i] = k[i - Len(w)]
        <5>1. PICK j \in 1..Len(queue) : b[i] = queue[j]
          BY <3>4, <4>2
        <5> QED BY <3>5, <3>9, <5>1
      <4> QED BY <3>8, <4>1, <4>2
    <3> QED BY <3>1, <3>7, <3>8, <3>9
  <2>2. \A s \in Stream :
          /\ DOMAIN log'[s] = 1..Len(log'[s])
          /\ \A i, j \in DOMAIN log'[s] : log'[s][i] = log'[s][j] /\ log'[s][i].kind = "sound" => i = j
    BY <2>1, MessageLists
  <2>3. HeardOnce'
    BY <1>2, <2>2 DEF HeardOnce
  <2>4. SaidOnce'
    <3>1. DOMAIN queue' = {}
      BY <1>1
    <3> QED BY <1>1, <1>2, <2>1, <2>2, <3>1 DEF SaidOnce
  <2> QED BY <2>3, <2>4
<1>9. ASSUME NEW r \in Due
      PROVE  step'[r] = step[r] /\ phase'[r] = phase[r]
  <2>1. r \in Response
    BY CachedOnes DEF Due
  <2>2. \A ok \in BOOLEAN : ~Answers(queue, r, ok)
    <3>1. ASSUME NEW ok \in BOOLEAN, NEW i \in DOMAIN queue, queue[i] = Ack(r, step[r], ok)
          PROVE  FALSE
      <4>1. queue[i].kind = "ack" /\ queue[i].of = r /\ queue[i].step = step[r]
        BY <3>1 DEF Ack
      <4>2. queue[i].step < step[r]
        BY <1>9, <4>1 DEF Awaits
      <4>3. step[r] \in Nat
        BY <2>1, CacheAssumption DEF PageTypeOK
      <4> QED BY <4>1, <4>2, <4>3
    <3> QED BY <3>1 DEF Answers
  <2> QED BY <1>1, <1>3, <2>1, <2>2, Answered
<1>10. Due' = Due
  BY <1>1 DEF Due
<1>11. Awaits'
  <2>1. ASSUME NEW i \in DOMAIN inbox
        PROVE  LET r == inbox[i].of IN
               /\ inbox[i].step = step'[r] /\ phase'[r] \in {"waiting", "failed"}
               /\ \A j \in DOMAIN inbox : inbox[j].of = r => i = j
    <3>1. inbox[i].of \in Due
      BY DEF Due
    <3> QED BY <1>9, <3>1 DEF Awaits
  <2>2. DOMAIN queue' = {}
    BY <1>1
  <2> QED BY <1>1, <2>1, <2>2 DEF Awaits
<1>12. CacheFollows'
  <2>1. ASSUME NEW r \in Response, NEW m \in 0..NumChunks, Stands(r, m)
        PROVE  Stands(r, m)'
    <3>1. m + 1 = step'[r] \/ (m = step'[r] /\ phase'[r] # "ready" /\ r \notin Due)
      <4>1. /\ m + 1 = step[r] \/ (m = step[r] /\ phase[r] # "ready" /\ r \notin Due)
            /\ Answers(queue, r, TRUE) /\ step[r] <= NumChunks => m = step[r]
        BY <2>1 DEF Stands, Handled, Answers
      <4>2. step[r] \in 0..NumChunks + 1 /\ NumChunks \in Nat
        BY CacheAssumption DEF PageTypeOK
      <4>3. CASE phase[r] = "waiting" /\ Answers(queue, r, TRUE) /\ step[r] <= NumChunks
        BY <1>1, <1>3, <4>1, <4>2, <4>3, Answered
      <4>4. CASE phase[r] = "waiting" /\ Answers(queue, r, TRUE) /\ step[r] = NumChunks + 1
        BY <1>1, <1>3, <4>1, <4>2, <4>4, Answered
      <4>5. CASE phase[r] = "waiting" /\ Answers(queue, r, FALSE) /\ ~Answers(queue, r, TRUE)
        BY <1>1, <1>3, <4>1, <4>2, <4>5, Answered
      <4>6. CASE phase[r] # "waiting" \/ (~Answers(queue, r, FALSE) /\ ~Answers(queue, r, TRUE))
        BY <1>1, <1>3, <4>1, <4>2, <4>6, Answered
      <4>7. step[r] <= NumChunks \/ step[r] = NumChunks + 1
        BY <4>2
      <4> QED BY ONLY <4>3, <4>4, <4>5, <4>6, <4>7
    <3>2. DOMAIN queue' = {}
      BY <1>1
    <3> QED BY <1>10, <3>1, <3>2 DEF Stands, Handled
  <2> QED BY <1>1, <2>1, CacheStays
<1>13. ASSUME NEW s \in Stream \ spoilt'
       PROVE  Recorded(s)'
  <2> DEFINE w == log[s]
             k == Those(queue, About(s))
             b == log'[s]
  <2>1. Recorded(s) /\ s \in Nat /\ rec.stream \in Nat
    BY <1>2, <1>13 DEF PageTypeOK, Stream
  <2>2. b = w \o k /\ w \in Seq(Message) /\ k \in Seq(Message)
    BY <1>1, <1>3, KeptSounds DEF Hear, PageTypeOK
  <2>3. Those(queue', About(s)) = <<>>
    <3>1. Len(queue') = 0
      BY <1>1
    <3> QED BY <3>1, NothingKept
  <2>4. w = <<>> \/ k = <<>>
    BY <2>1 DEF Recorded
  <2> HIDE DEF w, k, b
  <2>5. (w = <<>> => b = k) /\ (k = <<>> => b = w)
    BY <2>2, ConcatEmptySeq
  <2>6. s > rec.stream => b = <<>>
    BY <2>1, <2>5 DEF Recorded, w, k
  <2>7. s < rec.stream \/ (s = rec.stream /\ ~rec.on) => b = <<>> \/ Whole(b, s)
    BY <2>1, <2>4, <2>5 DEF Recorded, w, k
  <2>8. s = rec.stream /\ rec.on => b # <<>> /\ Going(b, s)
    <3>1. s = rec.stream /\ rec.on => k = <<>> /\ w # <<>> /\ Going(w, s)
      BY <1>1, <2>1 DEF Recorded, w, k
    <3> QED BY <2>5, <3>1
  <2>9. s = rec.stream /\ rec.on => Going(log[s], s)'
    BY <1>1, <2>8 DEF Going, b
  <2> QED BY <1>1, <2>1, <2>3, <2>6, <2>7, <2>8, <2>9 DEF Recorded, b
<1> QED BY <1>2, <1>5, <1>6, <1>7, <1>8, <1>11, <1>12, <1>13

\* hello_ack, and the peer is gone: what was queued is lost.
LEMMA QueueLostKeeps ==
  ASSUME PageInd, HelloAck, Remember, socket = "dead"
  PROVE  PageInd'
<1> USE DEF PageInd
<1>1. /\ connected' = TRUE /\ queue' = <<>>
      /\ use' = use /\ socket' = socket /\ timer' = timer /\ inbox' = inbox
      /\ ptt' = ptt /\ asking' = asking /\ rec' = rec /\ closing' = closing /\ live' = live
      /\ astray' = astray /\ cache' = cache /\ latest' = latest
      /\ step' = step /\ phase' = phase /\ log' = log /\ first' = first /\ hellos' = hellos
  BY DEF HelloAck, talk, audio, gateway
<1>2. /\ Stream' = Stream /\ Message' = Message /\ spoilt' \subseteq Stream /\ spoilt \subseteq spoilt'
      /\ \A s \in Stream \ spoilt' : s \notin spoilt
  <2>1. use'.streams = use.streams /\ rec'.stream \in 0..use.streams
    BY <1>1 DEF PageTypeOK
  <2> QED BY <1>1, <2>1, Remembered
<1>3. DOMAIN queue' = {} /\ queue' \in Seq(Message)
  BY <1>1
<1>4. PageTypeOK'
  <2>1. /\ socket' = socket /\ timer' = timer /\ connected' \in BOOLEAN /\ use' = use /\ inbox' = inbox
        /\ ptt' = ptt /\ asking' = asking /\ rec' = rec /\ closing' = closing /\ live' = live
        /\ astray' = astray /\ cache' = cache /\ latest' = latest
        /\ step' = step /\ phase' = phase /\ log' = log /\ hellos' = hellos
    BY <1>1
  <2> QED BY ONLY PageTypeOK, <1>2, <1>3, <2>1 DEF PageTypeOK
<1>5. HelloOpens' /\ Greeted'
  BY <1>1 DEF HelloOpens, Greeted
<1>6. HeardOnce' /\ SaidOnce'
  BY <1>1, <1>2, <1>3 DEF HeardOnce, SaidOnce
<1>7. Room' /\ Calm'
  BY <1>1, <1>2, CalmStays DEF Room
<1>8. Awaits' /\ CacheFollows'
  BY <1>1, <1>3, DeliveriesStay
<1>9. ASSUME NEW s \in Stream \ spoilt'
      PROVE  Recorded(s)'
  <2>1. Recorded(s)
    BY <1>2, <1>9
  <2>2. Those(queue', About(s)) = <<>>
    <3>1. Len(queue') = 0
      BY <1>1
    <3> QED BY <3>1, NothingKept
  <2> QED BY <1>1, <2>1, <2>2 DEF Recorded
<1> QED BY <1>2, <1>4, <1>5, <1>6, <1>7, <1>8, <1>9

\* hello_ack, with a peer or without.
LEMMA HelloAckKeeps ==
  ASSUME PageInd, HelloAck, Remember
  PROVE  PageInd'
<1>1. socket \in {"open", "dead"}
  BY DEF HelloAck
<1> QED BY <1>1, QueueHeardKeeps, QueueLostKeeps

-----------------------------------------------------------------------------
(* Hold to talk keeps the invariant.                                       *)

\* A step at the button, of which nothing is said.
LEMMA ButtonStep ==
  ASSUME PageInd, Remember, UNCHANGED <<link, audio, inbox, gateway>>,
         use'.streams = use.streams, use'.pieces = use.pieces,
         rec'.stream = rec.stream, rec'.on = rec.on, rec'.seq = rec.seq,
         PageTypeOK', Room', Calm'
  PROVE  PageInd'
<1> USE DEF PageInd
<1>1. /\ queue' = queue /\ log' = log /\ step' = step /\ phase' = phase /\ cache' = cache
      /\ inbox' = inbox /\ socket' = socket /\ first' = first /\ hellos' = hellos
  BY DEF link, audio, gateway
<1>2. /\ Stream' = Stream /\ spoilt \subseteq spoilt' /\ \A s \in Stream \ spoilt' : s \notin spoilt
  <2>1. rec'.stream \in 0..use.streams
    BY DEF PageTypeOK
  <2> QED BY <2>1, Remembered
<1>3. HeardOnce' /\ SaidOnce'
  BY <1>1, <1>2, SoundStays
<1>4. HelloOpens' /\ Greeted'
  BY <1>1 DEF HelloOpens, Greeted
<1>5. Awaits' /\ CacheFollows'
  BY <1>1, DeliveriesStay
<1>6. ASSUME NEW s \in Stream \ spoilt'
      PROVE  Recorded(s)'
  BY <1>1, <1>2, <1>6, NothingSaid
<1> QED BY <1>2, <1>3, <1>4, <1>5, <1>6

\* What the types are of after a step at the button.
LEMMA ButtonTypes ==
  ASSUME PageTypeOK, UNCHANGED <<link, audio, inbox, gateway>>, Stream' = Stream, Message' = Message,
         spoilt' \subseteq Stream, use' \in Used,
         rec' \in [on : BOOLEAN, stream : 0..use'.streams, seq : Nat, open : BOOLEAN],
         ptt' \in BOOLEAN, asking' \in Nat, closing' \in Nat, live' \in Nat, astray' \in BOOLEAN
  PROVE  PageTypeOK'
<1> DEFINE u == use'
           R == [on : BOOLEAN, stream : 0..u.streams, seq : Nat, open : BOOLEAN]
<1>1. /\ queue' = queue /\ log' = log /\ step' = step /\ phase' = phase /\ cache' = cache
      /\ latest' = latest /\ timer' = timer /\ connected' = connected
      /\ inbox' = inbox /\ socket' = socket /\ first' = first /\ hellos' = hellos
  BY DEF link, audio, gateway
<1>2. u \in Used /\ rec' \in R
  OBVIOUS
<1> HIDE DEF u
<1> QED BY <1>1, <1>2 DEF PageTypeOK, Used, u

\* The button goes down.
LEMMA PressKeeps ==
  ASSUME PageInd, Press, Remember
  PROVE  PageInd'
<1> USE DEF PageInd
<1>1. /\ use.presses > 0 /\ use' = [use EXCEPT !.presses = @ - 1] /\ ptt' = TRUE
      /\ asking' = IF rec.on THEN asking ELSE asking + 1
      /\ rec' = rec /\ closing' = closing /\ live' = live /\ astray' = astray
      /\ UNCHANGED <<link, audio, inbox, gateway>>
  BY DEF Press
<1>2. /\ use' \in Used /\ use'.presses = use.presses - 1
      /\ use'.streams = use.streams /\ use'.pieces = use.pieces
  <2>1. use.presses - 1 \in Nat /\ use' = [use EXCEPT !.presses = use.presses - 1]
    BY <1>1, UseCounted
  <2>2. use' \in Used
    BY <2>1, UseCounted
  <2>3. use \in Used
    BY DEF PageTypeOK, Used
  <2>4. /\ use'.presses = use.presses - 1
        /\ use'.streams = use.streams /\ use'.pieces = use.pieces
    BY ONLY <2>1, <2>3 DEF Used
  <2> QED BY <2>2, <2>4
<1>3. Stream' = Stream /\ Message' = Message /\ spoilt' \subseteq Stream /\ spoilt \subseteq spoilt'
  <2>1. rec'.stream \in 0..use.streams
    BY <1>1 DEF PageTypeOK
  <2> QED BY <1>2, <2>1, Remembered
<1>4. /\ asking \in Nat /\ use.presses \in Nat /\ use.streams \in Nat /\ rec.stream \in Nat
      /\ live \in Nat /\ closing \in Nat /\ rec.on \in BOOLEAN
  BY UseCounted DEF PageTypeOK
<1>5. PageTypeOK'
  <2>1. /\ rec' \in [on : BOOLEAN, stream : 0..use'.streams, seq : Nat, open : BOOLEAN]
        /\ ptt' \in BOOLEAN /\ closing' \in Nat /\ live' \in Nat /\ astray' \in BOOLEAN
    BY <1>1, <1>2 DEF PageTypeOK
  <2>2. asking' \in Nat
    BY <1>1, <1>4
  <2> QED BY <1>1, <1>2, <1>3, <2>1, <2>2, ButtonTypes
<1>6. Room'
  BY <1>1, <1>2, <1>4 DEF Room
<1>7. Calm'
  BY <1>1, <1>3, CalmStays
<1> QED BY <1>1, <1>2, <1>5, <1>6, <1>7, ButtonStep

\* There is no microphone.
LEMMA RefusedKeeps ==
  ASSUME PageInd, Refused, Remember
  PROVE  PageInd'
<1> USE DEF PageInd
<1>1. /\ asking > 0 /\ asking' = asking - 1 /\ use' = use
      /\ ptt' = ptt /\ rec' = rec /\ closing' = closing /\ live' = live /\ astray' = astray
      /\ UNCHANGED <<link, audio, inbox, gateway>>
  BY DEF Refused
<1>2. Stream' = Stream /\ Message' = Message /\ spoilt' \subseteq Stream /\ spoilt \subseteq spoilt'
  <2>1. use'.streams = use.streams /\ rec'.stream \in 0..use.streams
    BY <1>1 DEF PageTypeOK
  <2> QED BY <2>1, Remembered
<1>3. /\ asking \in Nat /\ use.presses \in Nat /\ use.streams \in Nat /\ rec.stream \in Nat
      /\ live \in Nat /\ closing \in Nat /\ rec.on \in BOOLEAN /\ astray \in BOOLEAN
  BY UseCounted DEF PageTypeOK
<1>4. PageTypeOK'
  <2>1. /\ rec' \in [on : BOOLEAN, stream : 0..use'.streams, seq : Nat, open : BOOLEAN]
        /\ ptt' \in BOOLEAN /\ closing' \in Nat /\ live' \in Nat /\ astray' \in BOOLEAN
        /\ use' \in Used
    BY <1>1 DEF PageTypeOK, Used
  <2>2. asking' \in Nat
    BY <1>1, <1>3
  <2> QED BY <1>1, <1>2, <2>1, <2>2, ButtonTypes
<1>5. Room'
  BY <1>1, <1>3 DEF Room
<1>6. Calm'
  BY <1>1, <1>2, CalmStays
<1> QED BY <1>1, <1>4, <1>5, <1>6, ButtonStep

\* The button goes up.
LEMMA ReleaseKeeps ==
  ASSUME PageInd, Release, Remember
  PROVE  PageInd'
<1> USE DEF PageInd
<1>1. /\ ptt /\ ptt' = FALSE /\ astray' = (astray /\ live' > 0) /\ use' = use /\ asking' = asking
      /\ UNCHANGED <<link, audio, inbox, gateway>>
  BY DEF Release
<1>2. \/ /\ rec.on /\ rec.open /\ rec' = [rec EXCEPT !.open = FALSE]
         /\ closing' = closing + 1 /\ live' = live - 1
      \/ ~(rec.on /\ rec.open) /\ rec' = rec /\ closing' = closing /\ live' = live
  BY DEF Release
<1>3. /\ asking \in Nat /\ use.presses \in Nat /\ use.streams \in Nat /\ rec.stream \in Nat
      /\ live \in Nat /\ closing \in Nat /\ rec.stream \in 0..use.streams
      /\ rec \in [on : BOOLEAN, stream : 0..use.streams, seq : Nat, open : BOOLEAN]
      /\ rec.on \in BOOLEAN /\ rec.open \in BOOLEAN /\ astray \in BOOLEAN /\ astray' \in BOOLEAN
  BY <1>1, UseCounted DEF PageTypeOK
<1>4. /\ rec' \in [on : BOOLEAN, stream : 0..use.streams, seq : Nat, open : BOOLEAN]
      /\ rec'.stream = rec.stream /\ rec'.on = rec.on /\ rec'.seq = rec.seq
      /\ rec'.open <=> rec.open /\ ~rec.on
  <2>1. CASE rec.on /\ rec.open /\ rec' = [rec EXCEPT !.open = FALSE]
    BY <1>3, <2>1
  <2>2. CASE ~(rec.on /\ rec.open) /\ rec' = rec
    BY <1>3, <2>2
  <2> QED BY <1>2, <2>1, <2>2
<1>5. Stream' = Stream /\ Message' = Message /\ spoilt' \subseteq Stream /\ spoilt \subseteq spoilt'
  BY <1>1, <1>3, <1>4, Remembered
<1>6. live' \in Nat /\ closing' \in Nat /\ live' + closing' = live + closing
  BY <1>2, <1>3 DEF Room
<1>7. PageTypeOK'
  <2>1. /\ ptt' \in BOOLEAN /\ asking' \in Nat /\ astray' \in BOOLEAN /\ use' \in Used
        /\ rec' \in [on : BOOLEAN, stream : 0..use'.streams, seq : Nat, open : BOOLEAN]
    BY <1>1, <1>3, <1>4 DEF PageTypeOK, Used
  <2> QED BY <1>1, <1>5, <1>6, <2>1, ButtonTypes
<1>8. Room'
  BY <1>1, <1>2, <1>3, <1>4, <1>6 DEF Room
<1>9. Calm'
  <2>1. rec'.on => live' + closing' > 0
    BY <1>4, <1>6 DEF Calm
  <2>2. ASSUME rec'.stream \notin spoilt'
        PROVE  /\ live' + closing' = IF rec'.on THEN 1 ELSE 0
               /\ rec'.on => (rec'.open <=> live' = 1)
    <3>1. /\ live + closing = IF rec.on THEN 1 ELSE 0
          /\ rec.on => (rec.open <=> live = 1)
      BY <1>4, <1>5, <2>2 DEF Calm
    <3>2. live' + closing' = IF rec'.on THEN 1 ELSE 0
      BY <1>4, <1>6, <3>1
    <3>3. rec'.on => (rec'.open <=> live' = 1)
      BY <1>2, <1>3, <1>4, <3>1
    <3> QED BY <3>2, <3>3
  <2>3. live' > 0 => astray'
    <3>1. live > 0 => astray \/ (rec.on /\ rec.open /\ live = 1)
      BY DEF Calm
    <3> QED BY <1>1, <1>2, <1>3, <3>1
  <2> QED BY <2>1, <2>2, <2>3 DEF Calm
<1> QED BY <1>1, <1>4, <1>7, <1>8, <1>9, ButtonStep

\* A step of the recorder says something of a recording.
LEMMA RecorderStep ==
  ASSUME PageTypeOK, HelloOpens, Greeted, Awaits, CacheFollows,
         Stream' = Stream, Message' = Message, spoilt' \subseteq Stream,
         NEW ms \in Seq(Message), Say(ms), \A i \in 1..Len(ms) : ms[i].kind # "ack",
         UNCHANGED <<socket, connected, timer, audio, inbox>>, use' \in Used,
         rec' \in [on : BOOLEAN, stream : 0..use'.streams, seq : Nat, open : BOOLEAN],
         ptt' \in BOOLEAN, asking' \in Nat, closing' \in Nat, live' \in Nat, astray' \in BOOLEAN
  PROVE  PageTypeOK' /\ HelloOpens' /\ Greeted' /\ Awaits' /\ CacheFollows'
<1> DEFINE u == use'
           R == [on : BOOLEAN, stream : 0..u.streams, seq : Nat, open : BOOLEAN]
<1>1. /\ cache' = cache /\ latest' = latest /\ timer' = timer /\ connected' = connected
      /\ inbox' = inbox /\ socket' = socket
  BY DEF audio
<1>2. u \in Used /\ rec' \in R
  OBVIOUS
<1>3. /\ queue' \in Seq(Message)
      /\ log' \in [Stream -> Seq(Message)]
      /\ step' \in [Response -> 0..NumChunks + 1]
      /\ phase' \in [Response -> {"ready", "waiting", "delivered", "failed"}]
      /\ hellos' = hellos /\ first' = first
  BY SaidTyped
<1>4. PageTypeOK'
  <2>1. /\ ptt' \in BOOLEAN /\ asking' \in Nat /\ closing' \in Nat /\ live' \in Nat /\ astray' \in BOOLEAN
        /\ Stream' = Stream /\ Message' = Message /\ spoilt' \subseteq Stream
    OBVIOUS
  <2>2. /\ socket \in {"connecting", "open", "dead", "closing", "closed"}
        /\ connected \in BOOLEAN /\ timer \in BOOLEAN /\ (timer <=> socket = "closed")
        /\ cache \in Seq([id : Response, chunks : SUBSET (1..NumChunks), complete : BOOLEAN])
        /\ Len(cache) <= MaxResponses /\ latest \in Response \cup {"none"}
        /\ inbox \in Seq([of : Response, step : 0..NumChunks + 1]) /\ hellos \in Nat
    BY DEF PageTypeOK
  <2> HIDE DEF u
  <2> QED BY ONLY <1>1, <1>2, <1>3, <2>1, <2>2 DEF PageTypeOK, Used, u
<1>5. HelloOpens' /\ Greeted'
  BY <1>1, <1>3 DEF HelloOpens, Greeted
<1>6. /\ step' = step /\ phase' = phase
      /\ \A j \in DOMAIN queue' :
           queue'[j].kind = "ack" => \E i \in DOMAIN queue : queue[i] = queue'[j]
  <2>1. CASE socket = "open" /\ Hear(ms) /\ UNCHANGED queue
    BY <2>1, NoAnswer
  <2>2. CASE UNCHANGED <<gateway, queue>>
    BY <2>2 DEF gateway
  <2>3. CASE queue' = queue \o ms /\ UNCHANGED gateway
    <3>1. step' = step /\ phase' = phase
      BY <2>3 DEF gateway
    <3> DEFINE q == queue
               b == q \o ms
    <3>2. q \in Seq(Message)
      BY DEF PageTypeOK
    <3>3. DOMAIN q = 1..Len(q)
      BY <3>2, MessageLists
    <3> HIDE DEF q
    <3>4. /\ DOMAIN b = 1..Len(q) + Len(ms)
          /\ \A i \in 1..Len(q) + Len(ms) :
              \/ i \in 1..Len(q) /\ b[i] = q[i]
              \/ i - Len(q) \in 1..Len(ms) /\ b[i] = ms[i - Len(q)]
      BY <3>2, BothLists
    <3> HIDE DEF b
    <3>5. ASSUME NEW j \in DOMAIN b, b[j].kind = "ack"
          PROVE  \E i \in DOMAIN q : q[i] = b[j]
      <4>1. CASE j \in 1..Len(q) /\ b[j] = q[j]
        BY <3>3, <4>1
      <4>2. CASE j - Len(q) \in 1..Len(ms) /\ b[j] = ms[j - Len(q)]
        BY <3>5, <4>2
      <4> QED BY <3>4, <3>5, <4>1, <4>2
    <3> QED BY <2>3, <3>1, <3>5 DEF b, q
  <2> QED BY <2>1, <2>2, <2>3 DEF Say
<1>7. Awaits' /\ CacheFollows'
  BY <1>1, <1>6, DeliveriesStay
<1> QED BY <1>4, <1>5, <1>7

\* A microphone is granted: a recording starts.
LEMMA GrantedKeeps ==
  ASSUME PageInd, Granted, Remember
  PROVE  PageInd'
<1> USE DEF PageInd
<1> DEFINE n == rec.stream + 1
           m == Start(n)
           ms == <<m>>
<1>1. /\ asking > 0 /\ asking' = asking - 1
      /\ rec' = [on |-> TRUE, stream |-> n, seq |-> 0, open |-> TRUE] /\ Say(ms)
      /\ live' = live + 1
      /\ use' = use /\ socket' = socket /\ ptt' = ptt /\ closing' = closing
      /\ astray' = (astray \/ ~ptt \/ live + closing > 0)
      /\ UNCHANGED <<socket, connected, timer, audio, inbox>>
  BY DEF Granted
<1>2. /\ asking \in Nat /\ use.presses \in Nat /\ use.streams \in Nat /\ use.pieces \in Nat
      /\ rec.stream \in Nat
      /\ live \in Nat /\ closing \in Nat /\ rec.on \in BOOLEAN /\ astray \in BOOLEAN /\ ptt \in BOOLEAN
  BY UseCounted DEF PageTypeOK
<1>3. n \in Stream /\ n \in 0..use.streams /\ n \in Nat
  BY <1>1, <1>2 DEF Room, Stream
<1>4. /\ rec'.stream = n /\ rec'.on = TRUE /\ rec'.seq = 0 /\ rec'.open = TRUE
      /\ rec' \in [on : BOOLEAN, stream : 0..use'.streams, seq : Nat, open : BOOLEAN]
  BY <1>1, <1>3
<1>5. /\ Stream' = Stream /\ Message' = Message /\ spoilt' \subseteq Stream /\ spoilt \subseteq spoilt'
      /\ \A s \in Stream \ spoilt' :
           s \notin spoilt /\ (s = rec.stream \/ s = n => ~(live' + closing' > 1))
  BY <1>1, <1>3, <1>4, Remembered
<1>6. m \in Message /\ m.kind = "start"
  BY <1>3, RecordingSpoken DEF Start
<1> HIDE DEF m
<1>7. ms \in Seq(Message) /\ Len(ms) = 1 /\ ms[1] = m
  BY <1>6, Single
<1>8. PageTypeOK' /\ HelloOpens' /\ Greeted' /\ Awaits' /\ CacheFollows'
  <2>1. \A i \in 1..Len(ms) : ms[i].kind # "ack"
    BY <1>6, <1>7
  <2>2. /\ use' \in Used /\ ptt' \in BOOLEAN /\ asking' \in Nat /\ closing' \in Nat
        /\ live' \in Nat /\ astray' \in BOOLEAN
    BY <1>1, <1>2 DEF PageTypeOK, Used
  <2> HIDE DEF ms
  <2> QED BY ONLY PageInd, <1>1, <1>4, <1>5, <1>7, <2>1, <2>2, RecorderStep
<1>9. HeardOnce' /\ SaidOnce'
  <2>1. \A i \in 1..Len(ms) : ms[i].kind = "sound" => ms[i].piece \in use'.pieces + 1..use.pieces
    BY <1>6, <1>7
  <2>2. OnceIn(ms, Sounds)
    BY <1>7 DEF OnceIn
  <2>3. use'.pieces \in Nat /\ use'.pieces <= use.pieces
    BY <1>1, <1>2
  <2> HIDE DEF ms
  <2> QED BY <1>1, <1>5, <1>7, <2>1, <2>2, <2>3, SaidStaysOnce
<1>10. Room'
  BY <1>1, <1>2, <1>3, <1>4 DEF Room
<1>11. Calm'
  <2>1. n \notin spoilt' => live = 0 /\ closing = 0
    BY <1>1, <1>2, <1>3, <1>5
  <2>2. rec'.on => live' + closing' > 0
    BY <1>1, <1>2
  <2>3. n \notin spoilt' =>
          /\ live' + closing' = IF rec'.on THEN 1 ELSE 0
          /\ rec'.on => (rec'.open <=> live' = 1)
    BY <1>1, <1>2, <1>4, <2>1
  <2>4. ~astray' => live' = 1 /\ closing' = 0 /\ ptt'
    <3>1. astray' = (astray \/ ~ptt \/ live + closing > 0) /\ ptt' = ptt
      BY <1>1
    <3>2. ~astray' => ptt' /\ ~(live + closing > 0)
      BY ONLY <3>1, Zenon
    <3> QED BY <1>1, <1>2, <3>2
  <2> QED BY <1>4, <2>2, <2>3, <2>4 DEF Calm
<1>12. ASSUME NEW s \in Stream \ spoilt'
       PROVE  Recorded(s)'
  <2> DEFINE w == log[s]
             k == Those(queue, About(s))
             w1 == log'[s]
             k1 == Those(queue', About(s))
             A == About(s)
  <2>1. Recorded(s) /\ s \in Stream /\ s \in Nat
    BY <1>5, <1>12 DEF Stream
  <2>2. \/ /\ socket = "open" /\ queue' = queue
           /\ w1 = IF m \in A THEN Append(w, m) ELSE w
        \/ socket = "dead" /\ queue' = queue /\ log' = log
        \/ /\ socket \notin {"open", "dead"} /\ log' = log
           /\ k1 = IF m \in A THEN Append(k, m) ELSE k
    BY <1>1, <1>6, <2>1, SaidOne
  <2>3. CASE s # n
    <3>1. m \notin A
      BY <1>3, <2>1, <2>3, AboutRecording DEF m, Start
    <3>2. w1 = w /\ k1 = k
      BY <2>2, <3>1
    <3>3. s = rec.stream => ~rec.on
      <4>1. rec.on => live' + closing' > 1
        BY <1>1, <1>2 DEF Calm
      <4> QED BY <1>5, <1>12, <4>1
    <3>4. \/ s > rec.stream /\ s > rec'.stream
          \/ s < rec.stream /\ s < rec'.stream
          \/ s = rec.stream /\ ~rec.on /\ s < rec'.stream
      BY <1>2, <1>4, <2>1, <2>3, <3>3
    <3> QED BY <1>3, <1>4, <2>1, <3>2, <3>4, AtRest
  <2>4. CASE s = n
    <3>1. w = <<>> /\ k = <<>>
      BY <1>2, <2>1, <2>4 DEF Recorded
    <3>2. m \in A /\ m = Start(s)
      BY <1>3, <2>4, AboutRecording DEF m
    <3>3. Append(<<>>, m) = ms
      OBVIOUS
    <3> HIDE DEF ms
    <3>4. PICK e \in Seq(Message) : e = ms /\ Len(e) = 1 /\ e[1] = Start(s)
      BY <1>7, <3>2
    <3>5. e # <<>>
      <4>1. SUFFICES ASSUME e = <<>> PROVE FALSE
        OBVIOUS
      <4>2. Len(e) = 0
        BY ONLY <4>1
      <4> QED BY ONLY <3>4, <4>2
    <3>6. Going(e, s)'
      BY <1>4, <3>4 DEF Going
    <3>7. \/ socket = "open" /\ w1 = e /\ k1 = <<>>
          \/ socket = "dead" /\ w1 = <<>> /\ k1 = <<>>
          \/ socket \notin {"open", "dead"} /\ w1 = <<>> /\ k1 = e
      BY <2>2, <3>1, <3>2, <3>3, <3>4
    <3> HIDE DEF w, k, A
    <3>8. \/ socket' = "open" /\ log'[s] = e /\ Those(queue', About(s)) = <<>>
          \/ socket' = "dead" /\ log'[s] = <<>> /\ Those(queue', About(s)) = <<>>
          \/ socket' \notin {"open", "dead"} /\ log'[s] = <<>> /\ Those(queue', About(s)) = e
      BY <1>1, <3>7
    <3>9. s = rec'.stream /\ rec'.on /\ ~(s > rec'.stream) /\ ~(s < rec'.stream)
      BY <1>3, <1>4, <2>4
    <3>10. (log'[s] = e => Going(log[s], s)') /\ (Those(queue', About(s)) = e => Going(Those(queue, About(s)), s)')
      BY <3>6 DEF Going
    <3> QED BY <3>5, <3>8, <3>9, <3>10 DEF Recorded
  <2> QED BY <2>3, <2>4
<1> QED BY <1>5, <1>8, <1>9, <1>10, <1>11, <1>12

\* What is said of one recording changes nothing of another.
LEMMA SaidOfOthers ==
  ASSUME PageTypeOK, NEW ms \in Seq(Message), Say(ms), NEW s \in Stream,
         \A i \in 1..Len(ms) : ms[i] \notin About(s)
  PROVE  log'[s] = log[s] /\ Those(queue', About(s)) = Those(queue, About(s))
<1>1. Those(ms, About(s)) = <<>>
  BY AllKept
<1>2. log[s] \in Seq(Message) /\ queue \in Seq(Message)
  BY DEF PageTypeOK
<1>3. CASE socket = "open" /\ Hear(ms) /\ UNCHANGED queue
  <2>1. log'[s] = log[s] \o Those(ms, About(s))
    BY <1>3 DEF Hear
  <2>2. log[s] \o <<>> = log[s]
    BY <1>2, ConcatEmptySeq
  <2> QED BY <1>1, <1>3, <2>1, <2>2
<1>4. CASE UNCHANGED <<gateway, queue>>
  BY <1>4 DEF gateway
<1>5. CASE queue' = queue \o ms /\ UNCHANGED gateway
  <2> DEFINE k == Those(queue, About(s))
  <2>1. Those(queue', About(s)) = k \o Those(ms, About(s))
    BY <1>2, <1>5, KeptOfBoth
  <2>2. k \in Seq(Message)
    BY <1>2, Kept
  <2>3. k \o <<>> = k
    <3> HIDE DEF k
    <3> QED BY <2>2, ConcatEmptySeq
  <2> QED BY <1>1, <1>5, <2>1, <2>3 DEF gateway
<1> QED BY <1>3, <1>4, <1>5 DEF Say

\* The next piece of sound of a recording.
LEMMA GoesOn ==
  ASSUME NEW s \in Stream, NEW w \in Seq(Message), Going(w, s), NEW e,
         e = Append(w, Sound(s, rec.seq, use.pieces)),
         rec.seq \in Nat, use.pieces \in Nat, use.pieces > 0,
         rec'.seq = rec.seq + 1, use'.pieces = use.pieces - 1
  PROVE  Going(e, s)' /\ e # <<>>
<1> DEFINE m == Sound(s, rec.seq, use.pieces)
<1>1. m \in Message
  BY RecordingSpoken
<1>2. e = Append(w, m)
  OBVIOUS
<1> HIDE DEF m
<1>3. /\ e \in Seq(Message) /\ Len(e) = Len(w) + 1 /\ Len(w) \in Nat
      /\ e[Len(w) + 1] = m /\ e # <<>> /\ \A i \in 1..Len(w) : e[i] = w[i]
  BY <1>1, <1>2, Joined
<1>4. Len(w) = rec.seq + 1 /\ w[1] = Start(s)
  BY DEF Going
<1>5. Len(e) = rec'.seq + 1 /\ e[1] = Start(s)
  BY <1>3, <1>4
<1>6. ASSUME NEW i \in 2..Len(e)
      PROVE  e[i] = Sound(s, i - 2, use'.pieces + rec'.seq - (i - 2))
  <2>1. use'.pieces + rec'.seq - (i - 2) = use.pieces + rec.seq - (i - 2)
    BY <1>3
  <2>2. CASE i \in 2..Len(w)
    <3>1. w[i] = Sound(s, i - 2, use.pieces + rec.seq - (i - 2))
      BY <2>2 DEF Going
    <3> QED BY <1>3, <2>1, <2>2, <3>1
  <2>3. CASE i = Len(w) + 1
    <3>0. rec.seq \in Int /\ use.pieces \in Int /\ i = (rec.seq + 1) + 1
      BY <1>4, <2>3
    <3>1. i - 2 = rec.seq /\ use.pieces + rec.seq - (i - 2) = use.pieces
      BY ONLY <3>0, SMTT(30)
    <3> QED BY <1>3, <2>1, <2>3, <3>1 DEF m
  <2> QED BY <1>3, <2>2, <2>3
<1> QED BY <1>3, <1>5, <1>6 DEF Going

\* With its end a recording is whole.
LEMMA EndsWhole ==
  ASSUME NEW s \in Stream, NEW w \in Seq(Message), Going(w, s), rec.seq \in Nat, use.pieces \in Nat
  PROVE  Whole(Append(w, Finish(s)), s)
<1> DEFINE m == Finish(s)
           e == Append(w, m)
<1>1. m \in Message
  BY RecordingSpoken
<1> HIDE DEF m
<1>2. /\ e \in Seq(Message) /\ Len(e) = Len(w) + 1 /\ Len(w) \in Nat
      /\ e[Len(w) + 1] = m /\ \A i \in 1..Len(w) : e[i] = w[i]
  BY <1>1, Joined
<1> HIDE DEF e
<1>3. Len(w) = rec.seq + 1 /\ w[1] = Start(s)
  BY DEF Going
<1>4. Len(e) > 1 /\ e[1] = Start(s) /\ e[Len(e)] = m
  BY <1>2, <1>3
<1>5. ASSUME NEW i \in 2..Len(e) - 1
      PROVE  e[i] = Sound(s, i - 2, e[2].piece - (i - 2))
  <2>1. i \in 2..Len(w) /\ 2 \in 2..Len(w) /\ e[i] = w[i] /\ e[2] = w[2]
    <3>1. i \in Int /\ 2 <= i /\ i <= Len(w) /\ Len(w) \in Nat
      BY ONLY <1>2, <1>5
    <3>2. i \in 1..Len(w) /\ 2 \in 1..Len(w) /\ i \in 2..Len(w) /\ 2 \in 2..Len(w)
      BY ONLY <3>1
    <3> QED BY <1>2, <3>2
  <2>2. w[2] = Sound(s, 0, use.pieces + rec.seq)
    <3>1. w[2] = Sound(s, 2 - 2, use.pieces + rec.seq - (2 - 2))
      BY <2>1 DEF Going
    <3>2. 2 - 2 = 0 /\ use.pieces + rec.seq - (2 - 2) = use.pieces + rec.seq
      OBVIOUS
    <3> QED BY <3>1, <3>2
  <2>3. w[2].piece = use.pieces + rec.seq
    BY <2>2 DEF Sound
  <2>4. w[i] = Sound(s, i - 2, use.pieces + rec.seq - (i - 2))
    BY <2>1 DEF Going
  <2> QED BY <2>1, <2>3, <2>4
<1>6. Whole(e, s)
  BY <1>4, <1>5 DEF Whole, m
<1> QED BY <1>6 DEF e, m

\* Sound arrives at the processors that still push.
LEMMA SpeakKeeps ==
  ASSUME PageInd, Speak, Remember
  PROVE  PageInd'
<1> USE DEF PageInd
<1> DEFINE n == IF live > 0 THEN live ELSE 1
           r == rec.stream
           q == rec.seq
           p == use.pieces
           ms == [i \in 1..n |-> Sound(r, q + i - 1, p)]
<1>1. /\ rec.on /\ p > 0 /\ live + closing > 0 /\ Say(ms)
      /\ use' = [use EXCEPT !.pieces = @ - 1] /\ rec' = [rec EXCEPT !.seq = @ + n]
      /\ socket' = socket /\ ptt' = ptt /\ asking' = asking /\ closing' = closing /\ live' = live
      /\ astray' = astray /\ UNCHANGED <<socket, connected, timer, audio, inbox>>
  BY DEF Speak
<1>2. /\ asking \in Nat /\ use.presses \in Nat /\ use.streams \in Nat /\ p \in Nat
      /\ r \in Nat /\ q \in Nat /\ live \in Nat /\ closing \in Nat /\ n \in Nat \ {0}
      /\ rec \in [on : BOOLEAN, stream : 0..use.streams, seq : Nat, open : BOOLEAN]
      /\ rec.on \in BOOLEAN /\ rec.open \in BOOLEAN /\ astray \in BOOLEAN
  BY UseCounted DEF PageTypeOK
<1>3. r \in Stream /\ r \in 0..use.streams
  BY <1>1, <1>2 DEF Room, Stream
<1>4. /\ use' \in Used /\ use'.pieces = p - 1
      /\ use'.streams = use.streams /\ use'.presses = use.presses
  <2>1. use.pieces - 1 \in Nat /\ use' = [use EXCEPT !.pieces = use.pieces - 1]
    BY <1>1, <1>2
  <2>2. use' \in Used
    BY <2>1, UseCounted
  <2>3. use \in Used
    BY DEF PageTypeOK, Used
  <2>4. /\ use'.pieces = use.pieces - 1
        /\ use'.streams = use.streams /\ use'.presses = use.presses
    BY ONLY <2>1, <2>3 DEF Used
  <2> QED BY <2>2, <2>4
<1> HIDE DEF n
<1>5. /\ rec' \in [on : BOOLEAN, stream : 0..use.streams, seq : Nat, open : BOOLEAN]
      /\ rec'.stream = r /\ rec'.on = rec.on /\ rec'.seq = q + n /\ rec'.open = rec.open
  <2>1. rec' = [rec EXCEPT !.seq = q + n] /\ q + n \in Nat
    BY <1>1, <1>2
  <2> QED BY ONLY <2>1, <1>2
<1>6. /\ Stream' = Stream /\ Message' = Message /\ spoilt' \subseteq Stream /\ spoilt \subseteq spoilt'
      /\ \A s \in Stream \ spoilt' : s \notin spoilt
  BY <1>1, <1>3, <1>4, <1>5, Remembered
<1>7. /\ ms \in Seq(Message) /\ Len(ms) = n
      /\ \A i \in 1..n : ms[i] = Sound(r, q + i - 1, p) /\ q + i - 1 \in Nat
  <2>1. \A i \in 1..n : q + i - 1 \in Nat
    BY <1>2
  <2>2. \A i \in 1..n : Sound(r, q + i - 1, p) \in Message
    BY <1>2, <1>3, <2>1, RecordingSpoken
  <2>3. ms \in [1..n -> Message] /\ n \in Nat
    BY <1>2, <2>2
  <2>4. ms \in Seq(Message) /\ Len(ms) = n
    <3> HIDE DEF ms
    <3> QED BY <2>3, LenProperties
  <2> QED BY <2>1, <2>4
<1> HIDE DEF ms
<1>8. PageTypeOK' /\ HelloOpens' /\ Greeted' /\ Awaits' /\ CacheFollows'
  <2>1. \A i \in 1..Len(ms) : ms[i].kind # "ack"
    BY <1>7 DEF Sound
  <2>2. /\ ptt' \in BOOLEAN /\ asking' \in Nat /\ closing' \in Nat
        /\ live' \in Nat /\ astray' \in BOOLEAN
        /\ rec' \in [on : BOOLEAN, stream : 0..use'.streams, seq : Nat, open : BOOLEAN]
    BY <1>1, <1>2, <1>4, <1>5 DEF PageTypeOK
  <2> QED BY ONLY PageInd, <1>1, <1>4, <1>6, <1>7, <2>1, <2>2, RecorderStep
<1>9. HeardOnce' /\ SaidOnce'
  <2>1. p \in (p - 1) + 1..p
    BY <1>2
  <2>2. \A i \in 1..Len(ms) : ms[i].kind = "sound" => ms[i].piece \in use'.pieces + 1..use.pieces
    BY <1>4, <1>7, <2>1 DEF Sound
  <2>3. OnceIn(ms, Sounds)
    <3>1. ASSUME NEW i \in 1..n, NEW j \in 1..n, ms[i] = ms[j]
          PROVE  i = j
      <4>1. ms[i].seq = q + i - 1 /\ ms[j].seq = q + j - 1
        BY <1>7 DEF Sound
      <4>2. q + i - 1 = q + j - 1 /\ i \in Int /\ j \in Int /\ q \in Int
        BY <1>2, <3>1, <4>1
      <4> QED BY ONLY <4>2
    <3> QED BY <1>7, <3>1 DEF OnceIn
  <2>4. use'.pieces \in Nat /\ use'.pieces <= use.pieces
    BY <1>1, <1>2, <1>4
  <2> QED BY <1>1, <1>6, <1>7, <2>2, <2>3, <2>4, SaidStaysOnce
<1>10. Room'
  BY <1>1, <1>2, <1>4, <1>5 DEF Room
<1>11. Calm'
  <2>1. spoilt \subseteq spoilt'
    BY <1>6
  <2> HIDE DEF ms
  <2> QED BY ONLY Calm, <1>1, <1>5, <2>1 DEF Calm
<1>12. ASSUME NEW s \in Stream \ spoilt'
       PROVE  Recorded(s)'
  <2>1. Recorded(s) /\ s \in Stream /\ s \in Nat
    BY <1>6, <1>12 DEF Stream
  <2>2. CASE s # r
    <3>1. \A i \in 1..Len(ms) : ms[i] \notin About(s)
      <4>1. \A i \in 1..n : ms[i].of = r
        BY <1>7 DEF Sound
      <4>2. \A m \in About(s) : m.of = s
        BY <2>1, AboutRecording
      <4> QED BY ONLY <1>7, <2>2, <4>1, <4>2
    <3>2. log'[s] = log[s] /\ Those(queue', About(s)) = Those(queue, About(s))
      BY <1>1, <1>7, <2>1, <3>1, SaidOfOthers
    <3>3. s > r \/ s < r
      BY <1>2, <2>1, <2>2
    <3> QED BY <1>2, <1>5, <2>1, <3>2, <3>3, AtRest
  <2>3. CASE s = r
    <3> DEFINE w == log[s]
               k == Those(queue, About(s))
    <3>1. n = 1
      <4>1. live + closing = 1
        BY <1>1, <1>2, <1>6, <1>12, <2>3 DEF Calm
      <4>2. live = 0 \/ live = 1
        BY <1>2, <4>1
      <4> QED BY <4>2 DEF n
    <3>2. PICK m \in Message : m = Sound(r, q, p)
      BY <1>2, <1>3, RecordingSpoken
    <3>3. ms = <<m>>
      <4> DEFINE e == <<m>>
      <4>1. e \in Seq(Message) /\ Len(e) = 1 /\ e[1] = m
        BY Single
      <4>2. ms[1] = m
        <5>1. q + 1 - 1 = q
          BY <1>2
        <5>2. ms[1] = Sound(r, q + 1 - 1, p)
          BY <1>7, <3>1
        <5> QED BY <3>2, <5>1, <5>2
      <4> HIDE DEF e
      <4>3. Len(ms) = Len(e) /\ \A i \in 1..Len(ms) : ms[i] = e[i]
        BY <1>7, <3>1, <4>1, <4>2
      <4>4. ms = e
        BY <1>7, <4>1, <4>3, SeqEqual
      <4> QED BY <4>4 DEF e
    <3>4. m \in About(s)
      BY <1>2, <2>1, <2>3, <3>2, AboutRecording
    <3>5. \/ socket = "open" /\ queue' = queue /\ log'[s] = Append(w, m)
          \/ socket = "dead" /\ queue' = queue /\ log' = log
          \/ /\ socket \notin {"open", "dead"} /\ log' = log
             /\ Those(queue', About(s)) = Append(k, m)
      BY <1>1, <2>1, <3>2, <3>3, <3>4, SaidOne
    <3>6. /\ w = <<>> \/ (socket = "open" /\ Going(w, s))
          /\ k = <<>> \/ (socket \notin {"open", "dead"} /\ Going(k, s))
          /\ socket # "dead" => w # <<>> \/ k # <<>>
          /\ w = <<>> \/ k = <<>>
      BY <1>1, <2>1, <2>3 DEF Recorded
    <3>7. w \in Seq(Message) /\ k \in Seq(Message)
      BY Kept DEF PageTypeOK
    <3>8. rec'.seq = rec.seq + 1 /\ s = rec'.stream /\ rec'.on /\ ~(s > rec'.stream) /\ ~(s < rec'.stream)
      BY <1>1, <1>2, <1>5, <2>3, <3>1
    <3>9. CASE socket = "open" /\ queue' = queue /\ log'[s] = Append(w, m)
      <4>1. w # <<>> /\ Going(w, s) /\ k = <<>>
        BY <3>6, <3>9
      <4>2. PICK e : e = Append(w, Sound(s, rec.seq, use.pieces))
        OBVIOUS
      <4>3. Going(e, s)' /\ e # <<>>
        BY <1>1, <1>2, <1>4, <2>1, <3>7, <3>8, <4>1, <4>2, GoesOn
      <4>4. log'[s] = e /\ Those(queue', About(s)) = <<>> /\ socket' = "open"
        BY <1>1, <2>3, <3>2, <3>9, <4>1, <4>2
      <4>5. Going(log[s], s)'
        BY <4>3, <4>4 DEF Going
      <4> QED BY <3>8, <4>3, <4>4, <4>5 DEF Recorded
    <3>10. CASE socket = "dead" /\ queue' = queue /\ log' = log
      <4>1. w = <<>> /\ k = <<>>
        BY <3>6, <3>10
      <4> QED BY <1>1, <3>8, <3>10, <4>1 DEF Recorded
    <3>11. CASE /\ socket \notin {"open", "dead"} /\ log' = log
                /\ Those(queue', About(s)) = Append(k, m)
      <4>1. k # <<>> /\ Going(k, s) /\ w = <<>>
        BY <3>6, <3>11
      <4>2. PICK e : e = Append(k, Sound(s, rec.seq, use.pieces))
        OBVIOUS
      <4>3. Going(e, s)' /\ e # <<>>
        BY <1>1, <1>2, <1>4, <2>1, <3>7, <3>8, <4>1, <4>2, GoesOn
      <4>4. log'[s] = <<>> /\ Those(queue', About(s)) = e /\ socket' \notin {"open", "dead"}
        BY <1>1, <2>3, <3>2, <3>11, <4>1, <4>2
      <4>5. Going(Those(queue, About(s)), s)'
        BY <4>3, <4>4 DEF Going
      <4> QED BY <3>8, <4>3, <4>4, <4>5 DEF Recorded
    <3> QED BY <3>5, <3>9, <3>10, <3>11
  <2> QED BY <2>2, <2>3
<1> QED BY <1>6, <1>8, <1>9, <1>10, <1>11, <1>12

\* The context is closed: the recording ends.
LEMMA StoppedKeeps ==
  ASSUME PageInd, Stopped, Remember
  PROVE  PageInd'
<1> USE DEF PageInd
<1> DEFINE r == rec.stream
           f == Finish(r)
           ms == <<f>>
<1>1. /\ closing > 0 /\ closing' = closing - 1 /\ rec' = [rec EXCEPT !.on = FALSE] /\ Say(ms)
      /\ use' = use /\ socket' = socket /\ ptt' = ptt /\ asking' = asking /\ live' = live
      /\ astray' = astray /\ UNCHANGED <<socket, connected, timer, audio, inbox>>
  BY DEF Stopped
<1>2. /\ asking \in Nat /\ use.presses \in Nat /\ use.streams \in Nat /\ use.pieces \in Nat
      /\ r \in Nat /\ rec.seq \in Nat /\ live \in Nat /\ closing \in Nat
      /\ rec \in [on : BOOLEAN, stream : 0..use.streams, seq : Nat, open : BOOLEAN]
      /\ rec.on \in BOOLEAN /\ rec.open \in BOOLEAN /\ astray \in BOOLEAN
  BY UseCounted DEF PageTypeOK
<1>3. r \in Stream /\ r \in 0..use.streams
  BY <1>1, <1>2 DEF Room, Stream
<1>4. /\ rec' \in [on : BOOLEAN, stream : 0..use.streams, seq : Nat, open : BOOLEAN]
      /\ rec'.stream = r /\ ~rec'.on /\ rec'.seq = rec.seq /\ rec'.open = rec.open
  <2>1. rec' = [rec EXCEPT !.on = FALSE]
    BY <1>1
  <2> QED BY ONLY <2>1, <1>2
<1>5. /\ Stream' = Stream /\ Message' = Message /\ spoilt' \subseteq Stream /\ spoilt \subseteq spoilt'
      /\ \A s \in Stream \ spoilt' : s \notin spoilt
  BY <1>1, <1>3, <1>4, Remembered
<1>6. f \in Message /\ f.kind = "finish" /\ f.of = r
  BY <1>3, RecordingSpoken DEF Finish
<1>7. PICK m \in Message : m = f /\ m.kind = "finish" /\ m.of = r
  BY <1>6
<1>8. ms \in Seq(Message) /\ Len(ms) = 1 /\ ms[1] = m /\ ms = <<m>>
  BY <1>7, Single
<1> HIDE DEF ms, f
<1>9. PageTypeOK' /\ HelloOpens' /\ Greeted' /\ Awaits' /\ CacheFollows'
  <2>1. \A i \in 1..Len(ms) : ms[i].kind # "ack"
    BY <1>7, <1>8
  <2>2. asking' \in Nat /\ closing' \in Nat /\ live' \in Nat /\ astray' \in BOOLEAN
    BY <1>1, <1>2
  <2>3. use' \in Used /\ ptt' \in BOOLEAN
    BY <1>1 DEF PageTypeOK, Used
  <2>4. rec' \in [on : BOOLEAN, stream : 0..use'.streams, seq : Nat, open : BOOLEAN]
    BY <1>1, <1>4
  <2> QED BY ONLY PageInd, <1>1, <1>5, <1>8, <2>1, <2>2, <2>3, <2>4, RecorderStep
<1>10. HeardOnce' /\ SaidOnce'
  <2>1. \A i \in 1..Len(ms) : ms[i].kind = "sound" => ms[i].piece \in use'.pieces + 1..use.pieces
    BY <1>7, <1>8
  <2>2. OnceIn(ms, Sounds)
    BY <1>8 DEF OnceIn
  <2>3. use'.pieces \in Nat /\ use'.pieces <= use.pieces
    BY <1>1, <1>2
  <2> QED BY <1>1, <1>5, <1>8, <2>1, <2>2, <2>3, SaidStaysOnce
<1>11. Room'
  BY <1>1, <1>2, <1>4 DEF Room
<1>12. Calm'
  <2>1. r \notin spoilt' => rec.on /\ live + closing = 1
    BY <1>1, <1>2, <1>5 DEF Calm
  <2>2. r \notin spoilt' => live' + closing' = 0
    BY <1>1, <1>2, <2>1
  <2>3. live' > 0 => astray'
    BY <1>1, <1>2 DEF Calm
  <2> QED BY <1>4, <2>2, <2>3 DEF Calm
<1>13. ASSUME NEW s \in Stream \ spoilt'
       PROVE  Recorded(s)'
  <2>1. Recorded(s) /\ s \in Stream /\ s \in Nat
    BY <1>5, <1>13 DEF Stream
  <2>2. CASE s # r
    <3>1. \A i \in 1..Len(ms) : ms[i] \notin About(s)
      <4>1. \A i \in 1..Len(ms) : ms[i].of = r
        BY <1>7, <1>8
      <4>2. \A a \in About(s) : a.of = s
        BY <2>1, AboutRecording
      <4> QED BY ONLY <2>2, <4>1, <4>2
    <3>2. log'[s] = log[s] /\ Those(queue', About(s)) = Those(queue, About(s))
      BY <1>1, <1>8, <2>1, <3>1, SaidOfOthers
    <3>3. s > r \/ s < r
      BY <1>2, <2>1, <2>2
    <3> QED BY <1>2, <1>4, <2>1, <3>2, <3>3, AtRest
  <2>3. CASE s = r
    <3> DEFINE w == log[s]
               k == Those(queue, About(s))
    <3>1. rec.on
      BY <1>1, <1>2, <1>5, <1>13, <2>3 DEF Calm
    <3>2. m \in About(s) /\ m = Finish(s)
      BY <1>7, <2>1, <2>3, AboutRecording DEF f
    <3>3. \/ socket = "open" /\ queue' = queue /\ log'[s] = Append(w, m)
          \/ socket = "dead" /\ queue' = queue /\ log' = log
          \/ /\ socket \notin {"open", "dead"} /\ log' = log
             /\ Those(queue', About(s)) = Append(k, m)
      BY <1>1, <1>8, <2>1, <3>2, SaidOne
    <3>4. /\ w = <<>> \/ (socket = "open" /\ Going(w, s))
          /\ k = <<>> \/ (socket \notin {"open", "dead"} /\ Going(k, s))
          /\ socket # "dead" => w # <<>> \/ k # <<>>
          /\ w = <<>> \/ k = <<>>
      BY <2>1, <2>3, <3>1 DEF Recorded
    <3>5. w \in Seq(Message) /\ k \in Seq(Message)
      BY Kept DEF PageTypeOK
    <3>6. s = rec'.stream /\ ~rec'.on /\ ~(s > rec'.stream)
      BY <1>2, <1>4, <2>3
    <3>7. CASE socket = "open" /\ queue' = queue /\ log'[s] = Append(w, m)
      <4>1. w # <<>> /\ Going(w, s) /\ k = <<>>
        BY <3>4, <3>7
      <4>2. Whole(log'[s], s)
        BY <1>2, <2>1, <3>2, <3>5, <3>7, <4>1, EndsWhole
      <4> QED BY <3>6, <3>7, <4>1, <4>2 DEF Recorded
    <3>8. CASE socket = "dead" /\ queue' = queue /\ log' = log
      <4>1. w = <<>> /\ k = <<>>
        BY <3>4, <3>8
      <4> QED BY <3>6, <3>8, <4>1 DEF Recorded
    <3>9. CASE /\ socket \notin {"open", "dead"} /\ log' = log
               /\ Those(queue', About(s)) = Append(k, m)
      <4>1. k # <<>> /\ Going(k, s) /\ w = <<>>
        BY <3>4, <3>9
      <4>2. Whole(Those(queue', About(s)), s)
        BY <1>2, <2>1, <3>2, <3>5, <3>9, <4>1, EndsWhole
      <4> QED BY <3>6, <3>9, <4>1, <4>2 DEF Recorded
    <3> QED BY <3>3, <3>7, <3>8, <3>9
  <2> QED BY <2>2, <2>3
<1> QED BY <1>5, <1>9, <1>10, <1>11, <1>12, <1>13

-----------------------------------------------------------------------------
(* The cache.                                                              *)

\* What the cache holds of a response.
Cached == [id : Response, chunks : SUBSET (1..NumChunks), complete : BOOLEAN]

\* No response is cached twice, and what is cached of the others than r was before.
Renewed(c, r) ==
  /\ c \in Seq(Cached) /\ Len(c) <= MaxResponses
  /\ \A i, j \in DOMAIN c : c[i].id = c[j].id => i = j
  /\ \A i \in DOMAIN c : c[i].id # r => \E j \in DOMAIN cache : cache[j] = c[i]

LEMMA CachedTypes ==
  ASSUME PageTypeOK
  PROVE  /\ cache \in Seq(Cached) /\ Len(cache) \in Nat /\ DOMAIN cache = 1..Len(cache)
         /\ Len(cache) <= MaxResponses
         /\ \A i \in 1..Len(cache) : cache[i] \in Cached
         /\ \A e \in Cached : e.id \in Response /\ e.chunks \subseteq 1..NumChunks /\ e.complete \in BOOLEAN
<1>1. cache \in Seq(Cached) /\ Len(cache) <= MaxResponses
  BY DEF PageTypeOK, Cached
<1>2. \A e \in Cached : e.id \in Response /\ e.chunks \subseteq 1..NumChunks /\ e.complete \in BOOLEAN
  BY DEF Cached
<1> QED BY <1>1, <1>2, LenProperties, ElementOfSeq

\* Without a change.
LEMMA RenewedByNothing ==
  ASSUME PageTypeOK, CacheFollows, NEW r
  PROVE  Renewed(cache, r)
BY CachedTypes DEF Renewed, CacheFollows

\* An entry is replaced.
LEMMA RenewedByUpdate ==
  ASSUME PageTypeOK, CacheFollows, NEW r \in Response, NEW e \in Cached, e.id = r
  PROVE  /\ Renewed(Update(r, e), r)
         /\ Len(Update(r, e)) = Len(cache)
         /\ \A i \in DOMAIN Update(r, e) : Update(r, e)[i].id = r => Update(r, e)[i] = e
<1> DEFINE c == [i \in DOMAIN cache |-> IF cache[i].id = r THEN e ELSE cache[i]]
<1>1. Update(r, e) = c
  BY DEF Update
<1>2. /\ Len(cache) \in Nat /\ DOMAIN cache = 1..Len(cache) /\ Len(cache) <= MaxResponses
      /\ \A i \in 1..Len(cache) : cache[i] \in Cached
  BY CachedTypes
<1>3. c \in [1..Len(cache) -> Cached]
  BY <1>2
<1>4. \A i \in 1..Len(cache) : c[i] = IF cache[i].id = r THEN e ELSE cache[i]
  BY <1>2
<1> HIDE DEF c
<1>5. c \in Seq(Cached) /\ Len(c) = Len(cache) /\ DOMAIN c = 1..Len(cache)
  BY <1>2, <1>3, LenProperties
<1>6. \A i \in 1..Len(cache) : c[i].id = cache[i].id
  BY <1>4
<1>7. \A i, j \in DOMAIN c : c[i].id = c[j].id => i = j
  BY <1>2, <1>5, <1>6 DEF CacheFollows
<1>8. \A i \in DOMAIN c : c[i].id # r => \E j \in DOMAIN cache : cache[j] = c[i]
  BY <1>2, <1>4, <1>5, <1>6
<1>9. \A i \in DOMAIN c : c[i].id = r => c[i] = e
  BY <1>4, <1>5, <1>6
<1> QED BY <1>1, <1>2, <1>5, <1>7, <1>8, <1>9 DEF Renewed

\* An entry is begun: in its place, or as the newest, for which the oldest may go.
LEMMA RenewedByBegin ==
  ASSUME PageTypeOK, CacheFollows, NEW r \in Response
  PROVE  /\ Renewed(Begin(r), r)
         /\ \A i \in DOMAIN Begin(r) :
              Begin(r)[i].id = r => Begin(r)[i] = [id |-> r, chunks |-> {}, complete |-> FALSE]
<1> DEFINE e == [id |-> r, chunks |-> {}, complete |-> FALSE]
           c == IF r \in Ids THEN Update(r, e) ELSE Append(cache, e)
<1>1. Begin(r) = IF Len(c) > MaxResponses THEN Tail(c) ELSE c
  BY DEF Begin, Update
<1>2. e \in Cached /\ e.id = r
  BY DEF Cached
<1>6. (r \in Ids => c = Update(r, e)) /\ (r \notin Ids => c = Append(cache, e))
  OBVIOUS
<1> HIDE DEF e, c
<1>3. /\ cache \in Seq(Cached) /\ Len(cache) \in Nat /\ DOMAIN cache = 1..Len(cache)
      /\ Len(cache) <= MaxResponses /\ MaxResponses \in Nat \ {0}
  BY CachedTypes, CacheAssumption
<1>4. CASE r \in Ids
  <2>1. /\ c = Update(r, e) /\ Len(c) = Len(cache) /\ Renewed(c, r)
        /\ \A i \in DOMAIN c : c[i].id = r => c[i] = e
    BY <1>2, <1>4, <1>6, RenewedByUpdate
  <2>2. Begin(r) = c
    <3>1. ~(Len(c) > MaxResponses)
      BY ONLY <1>3, <2>1
    <3> QED BY ONLY <1>1, <3>1
  <2> QED BY <2>1, <2>2 DEF e
<1>5. CASE r \notin Ids
  <2> DEFINE a == Append(cache, e)
             n == Len(cache)
  <2>1. c = a
    BY <1>5, <1>6
  <2>2. /\ a \in Seq(Cached) /\ Len(a) = n + 1 /\ DOMAIN a = 1..n + 1
        /\ a[n + 1] = e /\ a # <<>> /\ \A i \in 1..n : a[i] = cache[i]
    BY <1>2, <1>3, Joined
  <2> HIDE DEF a
  <2>3. \A i \in 1..n : cache[i].id # r
    BY <1>3, <1>5 DEF Ids
  <2>4. \A i, j \in 1..n : cache[i].id = cache[j].id => i = j
    BY <1>3 DEF CacheFollows
  <2>5. \A i \in 1..n + 1 : i = n + 1 \/ i \in 1..n
    BY <1>3
  <2>6. \A i, j \in 1..n + 1 : a[i].id = a[j].id => i = j
    BY <1>2, <2>2, <2>3, <2>4, <2>5
  <2>7. \A i \in 1..n + 1 :
          (a[i].id # r => \E j \in 1..n : cache[j] = a[i]) /\ (a[i].id = r => a[i] = e)
    BY <1>2, <2>2, <2>3, <2>5
  <2>8. CASE n + 1 <= MaxResponses
    <3>1. Begin(r) = a
      <4>1. ~(n + 1 > MaxResponses)
        BY ONLY <1>3, <2>8
      <4> QED BY ONLY <1>1, <2>1, <2>2, <4>1
    <3>2. Renewed(a, r)
      BY <1>3, <2>2, <2>6, <2>7, <2>8 DEF Renewed
    <3> QED BY <2>2, <2>7, <3>1, <3>2 DEF e
  <2>9. CASE ~(n + 1 <= MaxResponses)
    <3> DEFINE b == Tail(a)
    <3>1. Begin(r) = b
      <4>1. n + 1 > MaxResponses
        BY ONLY <1>3, <2>9
      <4> QED BY ONLY <1>1, <2>1, <2>2, <4>1
    <3>2. b \in Seq(Cached) /\ Len(b) = n /\ DOMAIN b = 1..n /\ \A i \in 1..n : b[i] = a[i + 1]
      BY <1>3, <2>2, FirstTaken
    <3> HIDE DEF b
    <3>3. \A i \in 1..n : i + 1 \in 1..n + 1
      BY <1>3
    <3>4. ASSUME NEW i \in 1..n, NEW j \in 1..n, b[i].id = b[j].id
          PROVE  i = j
      <4>1. i + 1 = j + 1
        BY <2>6, <3>2, <3>3, <3>4
      <4> QED BY ONLY <4>1, n \in Nat, i \in 1..n, j \in 1..n
    <3>5. \A i \in 1..n :
            (b[i].id # r => \E j \in 1..n : cache[j] = b[i]) /\ (b[i].id = r => b[i] = e)
      BY <2>7, <3>2, <3>3
    <3>6. Renewed(b, r)
      BY <1>3, <3>2, <3>4, <3>5 DEF Renewed
    <3> QED BY <3>1, <3>2, <3>5, <3>6 DEF e
  <2> QED BY <2>8, <2>9
<1> QED BY <1>4, <1>5

-----------------------------------------------------------------------------
(* The deliveries' steps keep the invariant.                               *)

\* A step of a delivery, which says nothing of a recording.
LEMMA DeliveryStep ==
  ASSUME PageInd, Remember, UNCHANGED <<use, socket, talk, first, hellos>>,
         \A s \in Stream : log'[s] = log[s] /\ Those(queue', About(s)) = Those(queue, About(s)),
         PageTypeOK', HeardOnce', SaidOnce', Awaits', CacheFollows'
  PROVE  PageInd'
<1> USE DEF PageInd
<1>1. /\ use' = use /\ socket' = socket /\ first' = first /\ hellos' = hellos
      /\ ptt' = ptt /\ asking' = asking /\ rec' = rec /\ closing' = closing /\ live' = live
      /\ astray' = astray
  BY DEF talk
<1>2. /\ Stream' = Stream /\ spoilt \subseteq spoilt' /\ \A s \in Stream \ spoilt' : s \notin spoilt
  <2>1. use'.streams = use.streams /\ rec'.stream \in 0..use.streams
    BY <1>1 DEF PageTypeOK
  <2> QED BY <2>1, Remembered
<1>3. HelloOpens' /\ Greeted'
  BY <1>1 DEF HelloOpens, Greeted
<1>4. Room' /\ Calm'
  BY <1>1, <1>2, CalmStays DEF Room
<1>5. ASSUME NEW s \in Stream \ spoilt'
      PROVE  Recorded(s)'
  BY <1>1, <1>2, <1>5, NothingSaid
<1> QED BY <1>2, <1>3, <1>4, <1>5

\* A delivery is given up.
LEMMA GatewayGivesUpKeeps ==
  ASSUME PageInd, NEW r \in Response, GatewayGivesUp(r), Remember
  PROVE  PageInd'
<1> USE DEF PageInd
<1>1. /\ phase[r] = "waiting" /\ phase' = [phase EXCEPT ![r] = "failed"]
      /\ use' = use /\ socket' = socket /\ connected' = connected /\ timer' = timer /\ queue' = queue
      /\ UNCHANGED talk /\ cache' = cache /\ latest' = latest /\ inbox' = inbox /\ step' = step
      /\ log' = log /\ first' = first /\ hellos' = hellos
  BY DEF GatewayGivesUp, link, audio
<1>2. /\ phase' \in [Response -> {"ready", "waiting", "delivered", "failed"}]
      /\ phase'[r] = "failed" /\ \A q \in Response : q # r => phase'[q] = phase[q]
  BY <1>1 DEF PageTypeOK
<1>3. Stream' = Stream /\ Message' = Message /\ spoilt' \subseteq Stream
  <2>1. use'.streams = use.streams /\ rec'.stream \in 0..use.streams
    BY <1>1 DEF PageTypeOK, talk
  <2> QED BY <2>1, Remembered
<1>4. PageTypeOK'
  BY <1>1, <1>2, <1>3 DEF PageTypeOK, talk
<1>5. HeardOnce' /\ SaidOnce'
  BY <1>1, <1>3, SoundStays
<1>6. Due' = Due
  BY <1>1 DEF Due
<1>7. \A q \in Response :
        /\ phase[q] \in {"waiting", "failed"} => phase'[q] \in {"waiting", "failed"}
        /\ phase'[q] = "ready" <=> phase[q] = "ready"
  BY <1>1, <1>2
<1>8. Awaits'
  <2>1. ASSUME NEW i \in DOMAIN queue, queue[i].kind = "ack"
        PROVE  queue[i].of \in Response
    BY <2>1, MessageLists, MessageKinds DEF PageTypeOK
  <2>2. \A i \in DOMAIN inbox : inbox[i].of \in Response
    BY CachedOnes
  <2> QED BY <1>1, <1>6, <1>7, <2>1, <2>2 DEF Awaits
<1>9. CacheFollows'
  <2>1. \A q \in Response : \A m \in 0..NumChunks : Stands(q, m) => Stands(q, m)'
    BY <1>1, <1>6, <1>7 DEF Stands, Handled
  <2> QED BY <1>1, <2>1, CacheStays
<1> QED BY <1>1, <1>4, <1>5, <1>8, <1>9, DeliveryStep

\* The next command of a delivery is sent.
LEMMA GatewaySendsKeeps ==
  ASSUME PageInd, NEW r \in Response, GatewaySends(r), Remember
  PROVE  PageInd'
<1> USE DEF PageInd
<1> DEFINE e == [of |-> r, step |-> step[r]]
           B == [of : Response, step : 0..NumChunks + 1]
           n == Len(inbox)
<1>1. /\ phase[r] = "ready" /\ phase' = [phase EXCEPT ![r] = "waiting"] /\ inbox' = Append(inbox, e)
      /\ use' = use /\ socket' = socket /\ connected' = connected /\ timer' = timer /\ queue' = queue
      /\ UNCHANGED talk /\ cache' = cache /\ latest' = latest /\ step' = step
      /\ log' = log /\ first' = first /\ hellos' = hellos
  BY DEF GatewaySends, link, audio
<1>2. /\ phase' \in [Response -> {"ready", "waiting", "delivered", "failed"}]
      /\ phase'[r] = "waiting" /\ \A q \in Response : q # r => phase'[q] = phase[q]
  BY <1>1 DEF PageTypeOK
<1>3. Stream' = Stream /\ Message' = Message /\ spoilt' \subseteq Stream
  <2>1. use'.streams = use.streams /\ rec'.stream \in 0..use.streams
    BY <1>1 DEF PageTypeOK, talk
  <2> QED BY <2>1, Remembered
<1>4. e \in B /\ inbox \in Seq(B) /\ e.of = r /\ e.step = step[r]
  BY DEF PageTypeOK
<1> HIDE DEF B, e
<1>5. /\ inbox' \in Seq(B) /\ n \in Nat /\ DOMAIN inbox = 1..n /\ DOMAIN inbox' = 1..n + 1
      /\ inbox'[n + 1] = e /\ \A i \in 1..n : inbox'[i] = inbox[i]
  BY <1>1, <1>4, Joined
<1> HIDE DEF n
<1>6. PageTypeOK'
  BY <1>1, <1>2, <1>3, <1>5 DEF PageTypeOK, talk, B
<1>7. HeardOnce' /\ SaidOnce'
  BY <1>1, <1>3, SoundStays
<1>8. \A i \in 1..n : inbox[i].of \in Response /\ inbox[i].of # r
  <2>1. \A i \in 1..n : inbox[i].of \in Response
    BY <1>5, CachedOnes
  <2>2. \A i \in 1..n : phase[inbox[i].of] \in {"waiting", "failed"}
    BY <1>5 DEF Awaits
  <2> QED BY <1>1, <2>1, <2>2
<1>9. r \notin Due /\ Due' = Due \cup {r}
  <2>1. r \notin Due
    BY <1>5, <1>8 DEF Due
  <2>2. \A i \in 1..n + 1 : i = n + 1 \/ i \in 1..n
    BY <1>5
  <2>3. \A i \in 1..n : i \in 1..n + 1
    BY <1>5
  <2>4. Due' = {inbox'[i].of : i \in DOMAIN inbox'}
    BY DEF Due
  <2>5. \A q : q \in Due' <=> q \in Due \/ q = r
    <3>1. \A q : q \in Due' <=> \E i \in 1..n + 1 : inbox'[i].of = q
      BY <1>5, <2>4
    <3>2. \A q : q \in Due <=> \E i \in 1..n : inbox[i].of = q
      BY <1>5 DEF Due
    <3>3. n + 1 \in 1..n + 1
      BY <1>5
    <3> QED BY <1>4, <1>5, <2>2, <2>3, <3>1, <3>2, <3>3
  <2> QED BY <2>1, <2>5
<1>10. Awaits'
  <2>1. ASSUME NEW i \in 1..n
        PROVE  /\ inbox'[i].step = step[inbox'[i].of]
               /\ phase'[inbox'[i].of] \in {"waiting", "failed"} /\ inbox'[i].of # r
               /\ \A j \in 1..n : inbox'[j].of = inbox'[i].of => i = j
    BY <1>2, <1>5, <1>8 DEF Awaits
  <2>2. ASSUME NEW i \in DOMAIN inbox'
        PROVE  /\ inbox'[i].step = step'[inbox'[i].of]
               /\ phase'[inbox'[i].of] \in {"waiting", "failed"}
               /\ \A j \in DOMAIN inbox' : inbox'[j].of = inbox'[i].of => i = j
    <3>1. \A j \in 1..n + 1 : j = n + 1 \/ j \in 1..n
      BY <1>5
    <3>2. CASE i \in 1..n
      <4>1. \A j \in 1..n + 1 : inbox'[j].of = inbox'[i].of => i = j
        BY <1>4, <1>5, <2>1, <3>1, <3>2
      <4> QED BY <1>1, <1>5, <2>1, <3>2, <4>1
    <3>3. CASE i = n + 1
      <4>1. \A j \in 1..n + 1 : inbox'[j].of = r => j = n + 1
        BY <2>1, <3>1
      <4> QED BY <1>1, <1>2, <1>4, <1>5, <3>3, <4>1
    <3> QED BY <1>5, <2>2, <3>1, <3>2, <3>3
  <2>3. ASSUME NEW i \in DOMAIN queue, queue[i].kind = "ack"
        PROVE  LET q == queue[i].of IN
               /\ queue[i].step <= step[q]
               /\ phase'[q] = "ready" \/ q \in Due' => queue[i].step < step[q]
    <3>1. PICK q \in Response : queue[i].of = q
      BY <2>3, MessageLists, MessageKinds DEF PageTypeOK
    <3>2. queue[i].step <= step[q] /\ (phase[q] = "ready" \/ q \in Due => queue[i].step < step[q])
      BY <2>3, <3>1 DEF Awaits
    <3>3. phase'[q] = "ready" \/ q \in Due' => phase[q] = "ready" \/ q \in Due
      BY <1>1, <1>2, <1>9
    <3> QED BY <3>1, <3>2, <3>3
  <2> QED BY <1>1, <2>2, <2>3 DEF Awaits
<1>11. CacheFollows'
  <2>1. ASSUME NEW q \in Response, Handled(q)
        PROVE  Handled(q)'
    BY <1>1, <1>2, <1>9, <2>1 DEF Handled
  <2>2. \A q \in Response : \A m \in 0..NumChunks : Stands(q, m) => Stands(q, m)'
    BY <1>1, <2>1 DEF Stands
  <2> QED BY <1>1, <2>2, CacheStays
<1> QED BY <1>1, <1>6, <1>7, <1>10, <1>11, DeliveryStep

\* What is cached of a response whose next command is under way: all before that.
LEMMA OwnEntry ==
  ASSUME PageTypeOK, CacheFollows, NEW r \in Due
  PROVE  /\ r \in Response /\ step[r] \in 0..NumChunks + 1 /\ NumChunks \in Nat \ {0}
         /\ \A i \in DOMAIN cache : cache[i].id = r => step[r] > 0 /\ Holds(cache[i], step[r] - 1)
         /\ r \in Ids => /\ Entry(r) \in Cached /\ Entry(r).id = r
                         /\ step[r] > 0 /\ Holds(Entry(r), step[r] - 1)
<1>1. r \in Response
  BY CachedOnes DEF Due
<1>2. step[r] \in 0..NumChunks + 1 /\ NumChunks \in Nat \ {0}
  BY <1>1, CacheAssumption DEF PageTypeOK
<1>3. ASSUME NEW i \in DOMAIN cache, cache[i].id = r
      PROVE  step[r] > 0 /\ Holds(cache[i], step[r] - 1)
  <2>1. PICK m \in 0..NumChunks : Holds(cache[i], m) /\ Stands(cache[i].id, m)
    BY DEF CacheFollows
  <2>2. Stands(r, m)
    BY <1>3, <2>1
  <2>3. m + 1 = step[r]
    BY <2>2 DEF Stands, Handled
  <2>4. m = step[r] - 1 /\ step[r] > 0
    BY ONLY m \in 0..NumChunks, <1>2, <2>3
  <2> QED BY <2>1, <2>4
<1>4. r \in Ids => \E i \in DOMAIN cache : Entry(r) = cache[i] /\ cache[i].id = r
  <2>1. r \in Ids => \E i \in DOMAIN cache : cache[i].id = r
    BY DEF Ids
  <2> QED BY <2>1 DEF Entry
<1>5. r \in Ids => /\ Entry(r) \in Cached /\ Entry(r).id = r
                   /\ step[r] > 0 /\ Holds(Entry(r), step[r] - 1)
  BY <1>3, <1>4, CachedTypes
<1> QED BY <1>1, <1>2, <1>3, <1>5

\* What a command to the cache does to it, if the cache takes it or not.
Commanded(r, ok) ==
  LET n == step[r] IN
  CASE ~ok -> cache
    [] ok /\ n = 0 -> Begin(r)
    [] ok /\ n \in 1..NumChunks -> Update(r, [Entry(r) EXCEPT !.chunks = @ \cup {n}])
    [] ok /\ n > NumChunks -> Update(r, [Entry(r) EXCEPT !.complete = TRUE])

\* The last chunk that is cached after the command.
Reaches(r, ok) == IF ok /\ step[r] <= NumChunks THEN step[r] ELSE step[r] - 1

\* It leaves the other responses alone, and its own is cached up to the command.
LEMMA CommandRenews ==
  ASSUME PageTypeOK, CacheFollows, NEW r \in Due, NEW ok \in BOOLEAN,
         ok => step[r] = 0 \/ r \in Ids, step[r] = 0 => ok
  PROVE  /\ Renewed(Commanded(r, ok), r)
         /\ Reaches(r, ok) \in 0..NumChunks
         /\ \A i \in DOMAIN Commanded(r, ok) :
              Commanded(r, ok)[i].id = r => Holds(Commanded(r, ok)[i], Reaches(r, ok))
<1> DEFINE n == step[r]
           e == Entry(r)
<1>1. /\ r \in Response /\ n \in 0..NumChunks + 1 /\ NumChunks \in Nat \ {0}
      /\ \A i \in DOMAIN cache : cache[i].id = r => n > 0 /\ Holds(cache[i], n - 1)
      /\ r \in Ids => e \in Cached /\ e.id = r /\ n > 0 /\ Holds(e, n - 1)
  BY OwnEntry
<1>2. /\ ~ok => Commanded(r, ok) = cache
      /\ ok /\ n = 0 => Commanded(r, ok) = Begin(r)
      /\ ok /\ n \in 1..NumChunks => Commanded(r, ok) = Update(r, [e EXCEPT !.chunks = @ \cup {n}])
      /\ ok /\ n > NumChunks => Commanded(r, ok) = Update(r, [e EXCEPT !.complete = TRUE])
  BY <1>1 DEF Commanded
<1>3. Reaches(r, ok) = IF ok /\ n <= NumChunks THEN n ELSE n - 1
  BY DEF Reaches
<1> DEFINE c == Commanded(r, ok)
           m == Reaches(r, ok)
<1> HIDE DEF n, e, c, m
<1>4. m \in 0..NumChunks
  <2>1. ok \/ n # 0
    BY DEF n
  <2>2. m = IF ok /\ n <= NumChunks THEN n ELSE n - 1
    BY <1>3 DEF m
  <2> QED BY ONLY <1>1, <2>1, <2>2
<1>5. CASE ~ok
  <2>1. c = cache /\ m = n - 1
    BY <1>2, <1>3, <1>5 DEF c, m
  <2> QED BY <1>1, <1>4, <2>1, RenewedByNothing DEF c, m
<1>6. CASE ok /\ n = 0
  <2>1. c = Begin(r)
    BY ONLY <1>2, <1>6 DEF c
  <2>5. m = 0
    BY ONLY <1>1, <1>3, <1>6 DEF m
  <2> DEFINE f == [id |-> r, chunks |-> {}, complete |-> FALSE]
  <2>2. f.chunks = 1..0 /\ ~f.complete
    OBVIOUS
  <2>3. Holds(f, 0)
    BY <2>2 DEF Holds
  <2>4. Renewed(Begin(r), r) /\ \A i \in DOMAIN Begin(r) : Begin(r)[i].id = r => Begin(r)[i] = f
    BY <1>1, RenewedByBegin
  <2> HIDE DEF f
  <2> QED BY <1>4, <2>1, <2>3, <2>4, <2>5 DEF c, m
<1>7. CASE ok /\ n # 0
  <2>1. e \in Cached /\ e.id = r /\ n > 0 /\ Holds(e, n - 1)
    BY <1>1, <1>7 DEF n
  <2>2. e.chunks = 1..n - 1 /\ (e.complete => n - 1 = NumChunks) /\ e.complete \in BOOLEAN
    BY <2>1 DEF Holds, Cached
  <2>3. ASSUME NEW f \in Cached, f.id = r, c = Update(r, f), Holds(f, m)
        PROVE  Renewed(c, r) /\ \A i \in DOMAIN c : c[i].id = r => Holds(c[i], m)
    <3>1. /\ Renewed(Update(r, f), r)
          /\ \A i \in DOMAIN Update(r, f) : Update(r, f)[i].id = r => Update(r, f)[i] = f
      BY <1>1, <2>3, RenewedByUpdate
    <3> QED BY <2>3, <3>1
  <2>4. CASE n <= NumChunks
    <3> DEFINE f == [e EXCEPT !.chunks = @ \cup {n}]
    <3>1. n \in 1..NumChunks /\ n # NumChunks + 1
      BY <1>1, <2>1, <2>4
    <3>2. c = Update(r, f) /\ m = n
      BY <1>2, <1>3, <1>7, <2>4, <3>1 DEF c, m
    <3>3. f \in Cached /\ f.id = r /\ f.chunks = e.chunks \cup {n} /\ f.complete = e.complete
      BY ONLY <2>1, <3>1 DEF Cached
    <3>4. e.chunks \cup {n} = 1..n
      BY ONLY <1>1, <2>2, <3>1
    <3>5. ~e.complete
      BY <1>1, <2>2, <3>1
    <3> HIDE DEF f
    <3>6. Holds(f, m)
      BY <3>2, <3>3, <3>4, <3>5 DEF Holds
    <3> QED BY <1>4, <2>3, <3>2, <3>3, <3>6 DEF c, m
  <2>5. CASE ~(n <= NumChunks)
    <3> DEFINE f == [e EXCEPT !.complete = TRUE]
    <3>1. n = NumChunks + 1 /\ n > NumChunks /\ n - 1 = NumChunks
      BY <1>1, <2>5
    <3>2. c = Update(r, f) /\ m = NumChunks
      BY <1>2, <1>3, <1>7, <2>5, <3>1 DEF c, m
    <3>3. f \in Cached /\ f.id = r /\ f.chunks = e.chunks
      BY ONLY <2>1 DEF Cached
    <3> HIDE DEF f
    <3>4. Holds(f, m)
      BY <2>2, <3>1, <3>2, <3>3 DEF Holds
    <3> QED BY <1>4, <2>3, <3>2, <3>3, <3>4 DEF c, m
  <2> QED BY <2>4, <2>5
<1> QED BY <1>5, <1>6, <1>7

\* The page answers a command: the answer is heard and taken, or not taken, lost or kept.
LEMMA Acknowledged ==
  ASSUME PageTypeOK, NEW r \in Response, NEW ok \in BOOLEAN, phase[r] # "ready",
         Say(<<Ack(r, step[r], ok)>>)
  PROVE  /\ \A q \in Response : q # r => step'[q] = step[q] /\ phase'[q] = phase[q]
         /\ \/ step'[r] = step[r] /\ phase'[r] # "ready"
            \/ /\ ok /\ step[r] <= NumChunks /\ step'[r] = step[r] + 1 /\ phase'[r] = "ready"
               /\ queue' = queue
         /\ queue' = queue \/ queue' = Append(queue, Ack(r, step[r], ok))
<1> DEFINE a == Ack(r, step[r], ok)
           ms == <<a>>
<1>1. step[r] \in 0..NumChunks + 1 /\ NumChunks \in Nat
  BY CacheAssumption DEF PageTypeOK
<1>2. a \in Message
  BY <1>1 DEF Ack, Message, Answer
<1>3. ASSUME NEW q \in Response, NEW b \in BOOLEAN
      PROVE  Answers(ms, q, b) <=> (q = r /\ b = ok)
  <2>1. Answers(ms, q, b) <=> a = Ack(q, step[q], b)
    <3>1. DOMAIN ms = {1} /\ ms[1] = a
      OBVIOUS
    <3> HIDE DEF ms
    <3> QED BY <3>1 DEF Answers
  <2>2. a = Ack(q, step[q], b) <=> (q = r /\ b = ok)
    <3>1. a.of = r /\ a.ok = ok /\ Ack(q, step[q], b).of = q /\ Ack(q, step[q], b).ok = b
      BY DEF Ack
    <3> QED BY <3>1
  <2> QED BY <2>1, <2>2
<1>4. ms \in Seq(Message)
  BY <1>2
<1>5. CASE socket = "open" /\ Hear(ms) /\ UNCHANGED queue
  <2>1. \A q \in Response : q # r => step'[q] = step[q] /\ phase'[q] = phase[q]
    BY <1>3, <1>4, <1>5, Answered
  <2>2. \/ step'[r] = step[r] /\ phase'[r] # "ready"
        \/ ok /\ step[r] <= NumChunks /\ step'[r] = step[r] + 1 /\ phase'[r] = "ready"
    <3> HIDE DEF ms
    <3>1. Answers(ms, r, ok) /\ ~Answers(ms, r, ~ok)
      BY <1>3
    <3>2. CASE phase[r] # "waiting"
      BY <1>4, <1>5, <3>2, Answered
    <3>3. CASE phase[r] = "waiting" /\ ok /\ step[r] <= NumChunks
      BY <1>3, <1>4, <1>5, <3>3, Answered
    <3>4. CASE phase[r] = "waiting" /\ ok /\ ~(step[r] <= NumChunks)
      <4>1. step[r] = NumChunks + 1
        BY <1>1, <3>4
      <4> QED BY <1>3, <1>4, <1>5, <3>4, <4>1, Answered
    <3>5. CASE phase[r] = "waiting" /\ ~ok
      BY <1>3, <1>4, <1>5, <3>5, Answered
    <3> QED BY <3>2, <3>3, <3>4, <3>5
  <2> QED BY <1>5, <2>1, <2>2
<1>6. CASE UNCHANGED <<gateway, queue>>
  BY <1>6 DEF gateway
<1>7. CASE queue' = queue \o ms /\ UNCHANGED gateway
  <2>1. queue' = Append(queue, a)
    <3>1. queue \in Seq(Message)
      BY DEF PageTypeOK
    <3> QED BY <1>2, <1>7, <3>1, AppendIsConcat
  <2> QED BY <1>7, <2>1 DEF gateway
<1> QED BY <1>5, <1>6, <1>7 DEF Say

\* The page takes the first command that is under way, and answers it.
LEMMA CommandKeeps ==
  ASSUME PageInd, Remember, NEW r \in Response, NEW n \in 0..NumChunks + 1, NEW ok \in BOOLEAN,
         inbox # <<>>, Head(inbox).of = r, Head(inbox).step = n, inbox' = Tail(inbox),
         UNCHANGED <<use, socket, connected, timer, talk>>, latest' \in Response \cup {"none"},
         ok => n = 0 \/ r \in Ids, n = 0 => ok, cache' = Commanded(r, ok), Say(<<Ack(r, n, ok)>>)
  PROVE  PageInd'
<1> USE DEF PageInd
<1> DEFINE B == [of : Response, step : 0..NumChunks + 1]
           k == Len(inbox)
<1>1. /\ inbox' = Tail(inbox) /\ UNCHANGED talk
      /\ use' = use /\ socket' = socket /\ connected' = connected /\ timer' = timer
  OBVIOUS
<1>2. /\ inbox \in Seq(B) /\ Head(inbox) = inbox[1]
      /\ Tail(inbox) \in Seq(B) /\ k \in Nat \ {0} /\ DOMAIN inbox = 1..k /\ DOMAIN Tail(inbox) = 1..k - 1
      /\ \A i \in 1..k - 1 : Tail(inbox)[i] = inbox[i + 1]
  <2>1. inbox \in Seq(B)
    BY DEF PageTypeOK
  <2> HIDE DEF B
  <2> QED BY <2>1, FirstTaken
<1>3. r \in Due /\ n = step[r] /\ phase[r] \in {"waiting", "failed"} /\ phase[r] # "ready"
  <2>1. 1 \in DOMAIN inbox
    BY <1>2
  <2>2. r = inbox[1].of /\ n = inbox[1].step
    BY <1>2
  <2>3. r \in Due
    BY <2>1, <2>2 DEF Due
  <2> QED BY <2>1, <2>2, <2>3 DEF Awaits
<1>4. NumChunks \in Nat /\ n \in Nat
  BY CacheAssumption
<1> HIDE DEF B, k
<1> DEFINE a == Ack(r, n, ok)
           m == IF ok /\ n <= NumChunks THEN n ELSE n - 1
<1>7. /\ a \in Message /\ a.kind = "ack" /\ a.of = r /\ a.step = n /\ a.ok = ok
  BY DEF Ack, Message, Answer
<1>8. /\ \A q \in Response : q # r => step'[q] = step[q] /\ phase'[q] = phase[q]
      /\ \/ step'[r] = n /\ phase'[r] # "ready"
         \/ ok /\ n <= NumChunks /\ step'[r] = n + 1 /\ phase'[r] = "ready" /\ queue' = queue
      /\ queue' = queue \/ queue' = Append(queue, a)
  <2>1. Say(<<Ack(r, step[r], ok)>>)
    BY <1>3
  <2> QED BY <1>3, <2>1, Acknowledged
<1>9. /\ Renewed(cache', r) /\ m \in 0..NumChunks
      /\ \A i \in DOMAIN cache' : cache'[i].id = r => Holds(cache'[i], m)
  <2>1. (ok => step[r] = 0 \/ r \in Ids) /\ (step[r] = 0 => ok)
    BY <1>3
  <2>2. m = Reaches(r, ok)
    BY <1>3 DEF Reaches
  <2> HIDE DEF m
  <2> QED BY <1>3, <2>1, <2>2, CommandRenews
<1>10. m = IF ok /\ n <= NumChunks THEN n ELSE n - 1
  OBVIOUS
<1> DEFINE ms == <<a>>
<1>11. ms \in Seq(Message) /\ Len(ms) = 1 /\ ms[1] = a /\ Say(ms)
  BY <1>7
<1> HIDE DEF a, m, ms
<1>12. Stream' = Stream /\ Message' = Message /\ spoilt' \subseteq Stream
  <2>1. use'.streams = use.streams /\ rec'.stream \in 0..use.streams
    BY <1>1 DEF PageTypeOK, talk
  <2> QED BY <2>1, Remembered
<1>13. /\ queue' \in Seq(Message)
       /\ log' \in [Stream -> Seq(Message)]
       /\ step' \in [Response -> 0..NumChunks + 1]
       /\ phase' \in [Response -> {"ready", "waiting", "delivered", "failed"}]
       /\ hellos' = hellos /\ first' = first
  BY <1>11, SaidTyped
<1>14. PageTypeOK'
  <2>1. /\ use' = use /\ socket' = socket /\ connected' = connected /\ timer' = timer
        /\ ptt' = ptt /\ asking' = asking /\ rec' = rec /\ closing' = closing /\ live' = live
        /\ astray' = astray
    BY <1>1 DEF talk
  <2>2. /\ inbox' \in Seq([of : Response, step : 0..NumChunks + 1])
        /\ latest' \in Response \cup {"none"}
    BY <1>1, <1>2 DEF B
  <2>3. /\ cache' \in Seq([id : Response, chunks : SUBSET (1..NumChunks), complete : BOOLEAN])
        /\ Len(cache') <= MaxResponses
    BY <1>9 DEF Renewed, Cached
  <2> QED BY ONLY PageTypeOK, <1>12, <1>13, <2>1, <2>2, <2>3 DEF PageTypeOK
<1>15. \A i \in 1..Len(ms) : ms[i].kind = "ack"
  BY <1>7, <1>11
<1>16. HeardOnce' /\ SaidOnce'
  <2>1. OnceIn(ms, Sounds)
    BY <1>11 DEF OnceIn
  <2>2. \A i \in 1..Len(ms) : ms[i].kind # "sound"
    BY <1>15
  <2>3. use'.pieces \in Nat /\ use'.pieces <= use.pieces
    BY <1>1, UseCounted
  <2> QED BY <1>11, <1>12, <2>1, <2>2, <2>3, SaidStaysOnce
<1>17. ASSUME NEW s \in Stream
       PROVE  log'[s] = log[s] /\ Those(queue', About(s)) = Those(queue, About(s))
  <2>1. \A i \in 1..Len(ms) : ms[i] \notin About(s)
    <3>1. s \in Nat
      BY DEF Stream
    <3>2. \A e \in About(s) : e.kind # "ack"
      BY <3>1, AboutRecording
    <3> QED BY <1>15, <3>2
  <2> QED BY <1>11, <2>1, SaidOfOthers
<1>18. \A i \in 1..k : inbox[i].of \in Response /\ (inbox[i].of = r => i = 1)
  <2>1. \A i \in 1..k : inbox[i].of \in Response
    BY <1>2, CachedOnes
  <2>2. 1 \in 1..k /\ inbox[1].of = r
    BY <1>2
  <2> QED BY <1>2, <2>1, <2>2 DEF Awaits
<1>19. Due' = Due \ {r}
  <2>1. \A q : q \in Due' <=> \E i \in 1..k - 1 : inbox[i + 1].of = q
    <3>1. Due' = {inbox'[i].of : i \in DOMAIN inbox'}
      BY DEF Due
    <3>2. \A q : q \in Due' <=> \E i \in 1..k - 1 : inbox'[i].of = q
      BY <1>1, <1>2, <3>1
    <3> QED BY <1>1, <1>2, <3>2
  <2>2. \A q : q \in Due <=> \E i \in 1..k : inbox[i].of = q
    BY <1>2 DEF Due
  <2>3. \A i \in 1..k - 1 : i + 1 \in 1..k /\ i + 1 # 1
    BY <1>2
  <2>4. \A i \in 1..k : i # 1 => i - 1 \in 1..k - 1 /\ (i - 1) + 1 = i
    BY <1>2
  <2>5. ASSUME NEW q
        PROVE  q \in Due' <=> q \in Due /\ q # r
    <3>1. ASSUME q \in Due' PROVE q \in Due /\ q # r
      BY <1>18, <2>1, <2>2, <2>3, <3>1
    <3>2. ASSUME q \in Due, q # r PROVE q \in Due'
      <4>1. PICK i \in 1..k : inbox[i].of = q
        BY <2>2, <3>2
      <4>2. i # 1
        BY <1>2, <3>2, <4>1
      <4>3. i - 1 \in 1..k - 1 /\ inbox[(i - 1) + 1].of = q
        BY <2>4, <4>1, <4>2
      <4> QED BY <2>1, <4>3
    <3> QED BY <3>1, <3>2
  <2> QED BY <2>5
<1>20. ASSUME NEW j \in DOMAIN queue'
       PROVE  /\ queue'[j] \in Message
              /\ (\E i \in DOMAIN queue : queue[i] = queue'[j]) \/ (queue'[j] = a /\ queue' # queue)
  <2>1. queue \in Seq(Message) /\ queue'[j] \in Message
    BY <1>13, <1>20, MessageLists DEF PageTypeOK
  <2>2. CASE queue' = queue
    BY <1>20, <2>1, <2>2
  <2>3. CASE queue' = Append(queue, a) /\ queue' # queue
    <3> DEFINE q == Append(queue, a)
    <3>1. /\ DOMAIN queue = 1..Len(queue) /\ DOMAIN q = 1..Len(queue) + 1 /\ Len(queue) \in Nat
          /\ q[Len(queue) + 1] = a /\ \A i \in 1..Len(queue) : q[i] = queue[i]
      BY <1>7, <2>1, Joined
    <3> HIDE DEF q
    <3>2. queue' = q
      BY <2>3 DEF q
    <3>3. j = Len(queue) + 1 \/ j \in 1..Len(queue)
      BY <1>20, <3>1, <3>2
    <3> QED BY <2>1, <2>3, <3>1, <3>2, <3>3
  <2> QED BY <1>8, <2>2, <2>3
<1>21. ASSUME NEW j \in DOMAIN queue, queue[j].kind = "ack", queue[j].of = r
       PROVE  queue[j].step < n /\ queue[j].step \in Nat
  <2>1. queue[j].step < step[r]
    BY <1>3, <1>21 DEF Awaits
  <2>2. queue[j].step \in 0..NumChunks + 1
    <3>1. queue[j] \in Message
      BY MessageLists DEF PageTypeOK
    <3> QED BY ONLY <1>21, <3>1, MessageKinds
  <2> QED BY <1>3, <1>4, <2>1, <2>2
<1>22. Awaits'
  <2>1. ASSUME NEW i \in DOMAIN inbox'
        PROVE  /\ inbox'[i].step = step'[inbox'[i].of]
               /\ phase'[inbox'[i].of] \in {"waiting", "failed"}
               /\ \A j \in DOMAIN inbox' : inbox'[j].of = inbox'[i].of => i = j
    <3>1. DOMAIN inbox' = 1..k - 1 /\ \A j \in 1..k - 1 : inbox'[j] = inbox[j + 1] /\ j + 1 \in 1..k /\ j + 1 # 1
      BY <1>1, <1>2
    <3>2. inbox'[i] = inbox[i + 1] /\ i + 1 \in 1..k
      BY <2>1, <3>1
    <3>3. PICK q \in Response : q = inbox[i + 1].of /\ q # r
      BY <1>18, <2>1, <3>1
    <3>4. /\ inbox[i + 1].step = step[q] /\ phase[q] \in {"waiting", "failed"}
          /\ \A j \in 1..k : inbox[j].of = q => i + 1 = j
      BY <1>2, <3>2, <3>3 DEF Awaits
    <3>5. \A j \in DOMAIN inbox' : inbox'[j].of = q => i = j
      <4>1. ASSUME NEW j \in DOMAIN inbox', inbox'[j].of = q PROVE i = j
        <5>1. i + 1 = j + 1
          BY <3>1, <3>4, <4>1
        <5> QED BY <1>2, <2>1, <3>1, <4>1, <5>1
      <4> QED BY <4>1
    <3>6. step'[q] = step[q] /\ phase'[q] = phase[q]
      BY <1>8, <3>3
    <3> QED BY <3>2, <3>3, <3>4, <3>5, <3>6
  <2>2. ASSUME NEW j \in DOMAIN queue', queue'[j].kind = "ack"
        PROVE  LET q == queue'[j].of IN
               /\ queue'[j].step <= step'[q]
               /\ phase'[q] = "ready" \/ q \in Due' => queue'[j].step < step'[q]
    <3>1. PICK q \in Response : q = queue'[j].of
      BY <1>20, <2>2, MessageKinds
    <3>2. CASE queue'[j] = a /\ queue' # queue
      <4>1. q = r /\ queue'[j].step = n
        BY <1>7, <3>1, <3>2
      <4>2. step'[r] = n /\ phase'[r] # "ready"
        BY <1>8, <3>2
      <4>3. r \notin Due'
        BY <1>19
      <4> QED BY <1>4, <3>1, <4>1, <4>2, <4>3
    <3>3. CASE \E i \in DOMAIN queue : queue[i] = queue'[j]
      <4>1. PICK i \in DOMAIN queue : queue[i] = queue'[j]
        BY <3>3
      <4>2. CASE q # r
        <5>1. queue[i].step <= step[q] /\ (phase[q] = "ready" \/ q \in Due => queue[i].step < step[q])
          BY <2>2, <3>1, <4>1 DEF Awaits
        <5> QED BY <1>8, <1>19, <3>1, <4>1, <4>2, <5>1
      <4>3. CASE q = r
        <5>1. queue[i].step < n /\ queue[i].step \in Nat
          BY <1>21, <2>2, <3>1, <4>1, <4>3
        <5>2. step'[r] = n \/ step'[r] = n + 1
          BY <1>8
        <5>3. queue[i].step < step'[r] /\ queue[i].step <= step'[r]
          BY ONLY <1>4, <5>1, <5>2
        <5> QED BY <3>1, <4>1, <4>3, <5>3
      <4> QED BY <4>2, <4>3
    <3> QED BY <1>20, <2>2, <3>2, <3>3
  <2> QED BY <2>1, <2>2 DEF Awaits
<1>23. Stands(r, m)'
  <2>1. CASE ok /\ n <= NumChunks /\ step'[r] = n + 1 /\ phase'[r] = "ready" /\ queue' = queue
    <3>1. m = n
      BY <1>10, <2>1
    <3>2. \A j \in DOMAIN queue' : queue'[j] # Ack(r, n + 1, TRUE)
      <4>1. ASSUME NEW j \in DOMAIN queue, queue[j] = Ack(r, n + 1, TRUE) PROVE FALSE
        <5>1. queue[j].kind = "ack" /\ queue[j].of = r /\ queue[j].step = n + 1
          BY <4>1 DEF Ack
        <5> QED BY <1>4, <1>21, <5>1
      <4> QED BY <2>1, <4>1
    <3> QED BY <2>1, <3>1, <3>2 DEF Stands
  <2>2. CASE step'[r] = n /\ phase'[r] # "ready"
    <3>1. Handled(r)'
      BY <1>19, <2>2 DEF Handled
    <3>2. m = n \/ m + 1 = n
      BY <1>4, <1>10
    <3>3. ASSUME NEW j \in DOMAIN queue', queue'[j] = Ack(r, n, TRUE), n <= NumChunks
          PROVE  m = n
      <4>1. queue'[j].kind = "ack" /\ queue'[j].of = r /\ queue'[j].step = n /\ queue'[j].ok = TRUE
        BY <3>3 DEF Ack
      <4>2. CASE queue'[j] = a
        BY <1>7, <1>10, <3>3, <4>1, <4>2
      <4>3. CASE \E i \in DOMAIN queue : queue[i] = queue'[j]
        BY <1>4, <1>21, <4>1, <4>3
      <4> QED BY <1>20, <3>3, <4>2, <4>3
    <3> QED BY <2>2, <3>1, <3>2, <3>3 DEF Stands
  <2> QED BY <1>8, <2>1, <2>2
<1>24. ASSUME NEW q \in Response, q # r, NEW h \in 0..NumChunks, Stands(q, h)
       PROVE  Stands(q, h)'
  <2>1. step'[q] = step[q] /\ phase'[q] = phase[q] /\ (q \in Due' <=> q \in Due)
    BY <1>8, <1>19, <1>24
  <2>2. \A j \in DOMAIN queue' : queue'[j] = Ack(q, step[q], TRUE) =>
          \E i \in DOMAIN queue : queue[i] = queue'[j]
    <3>1. a # Ack(q, step[q], TRUE)
      <4>1. Ack(q, step[q], TRUE).of = q
        BY DEF Ack
      <4> QED BY <1>7, <1>24, <4>1
    <3> QED BY <1>20, <3>1
  <2> QED BY <1>24, <2>1, <2>2 DEF Stands, Handled
<1>25. CacheFollows'
  <2>1. \A i, j \in DOMAIN cache' : cache'[i].id = cache'[j].id => i = j
    BY <1>9 DEF Renewed
  <2>2. ASSUME NEW i \in DOMAIN cache'
        PROVE  \E h \in 0..NumChunks : (Holds(cache[i], h) /\ Stands(cache[i].id, h))'
    <3>1. CASE cache'[i].id = r
      <4>1. Holds(cache'[i], m) /\ Stands(r, m)'
        BY <1>9, <1>23, <2>2, <3>1
      <4>2. PICK h \in 0..NumChunks : h = m
        BY <1>9
      <4>3. (Holds(cache[i], h) /\ Stands(cache[i].id, h))'
        BY <3>1, <4>1, <4>2 DEF Holds, Stands, Handled
      <4> QED BY <4>3
    <3>2. CASE cache'[i].id # r
      <4>1. PICK j \in DOMAIN cache : cache[j] = cache'[i]
        BY <1>9, <2>2, <3>2 DEF Renewed
      <4>2. PICK h \in 0..NumChunks : Holds(cache[j], h) /\ Stands(cache[j].id, h)
        BY DEF CacheFollows
      <4>3. PICK q \in Response : q = cache[j].id /\ q # r
        BY <3>2, <4>1, CachedOnes
      <4>4. Stands(q, h)'
        BY <1>24, <4>2, <4>3
      <4>5. (Holds(cache[i], h) /\ Stands(cache[i].id, h))'
        BY <4>1, <4>2, <4>3, <4>4 DEF Holds, Stands, Handled
      <4> QED BY <4>5
    <3> QED BY <3>1, <3>2
  <2> QED BY <2>1, <2>2 DEF CacheFollows
<1>26. UNCHANGED <<use, socket, talk, first, hellos>>
  BY <1>1, <1>13
<1> QED BY <1>14, <1>16, <1>17, <1>22, <1>25, <1>26, DeliveryStep

\* The command listener of the page.
LEMMA HandleCommandKeeps ==
  ASSUME PageInd, HandleCommand, Remember
  PROVE  PageInd'
<1> DEFINE B == [of : Response, step : 0..NumChunks + 1]
<1>1. inbox \in Seq(B) /\ inbox # <<>> /\ latest \in Response \cup {"none"}
  BY DEF HandleCommand, PageInd, PageTypeOK
<1>2. Head(inbox) \in B /\ 1 \in DOMAIN inbox /\ Head(inbox) = inbox[1]
  <2> HIDE DEF B
  <2> QED BY <1>1, FirstTaken
<1>3. PICK r \in Response, n \in 0..NumChunks + 1 : Head(inbox).of = r /\ Head(inbox).step = n
  BY <1>2
<1>4. n = step[r]
  BY <1>2, <1>3 DEF PageInd, Awaits
<1>5. PICK ok \in BOOLEAN : ok = (n = 0 \/ (r \in Ids /\ (n <= NumChunks \/ Gapless(Entry(r).chunks))))
  OBVIOUS
<1>6. (ok => n = 0 \/ r \in Ids) /\ (n = 0 => ok)
  BY <1>5
<1>7. cache' = Commanded(r, ok)
  BY <1>3, <1>4, <1>5 DEF HandleCommand, Commanded
<1>8. /\ latest' \in Response \cup {"none"} /\ inbox' = Tail(inbox)
      /\ UNCHANGED <<use, socket, connected, timer, talk>> /\ Say(<<Ack(r, n, ok)>>)
  BY <1>1, <1>3, <1>5 DEF HandleCommand
<1> QED BY <1>1, <1>3, <1>6, <1>7, <1>8, CommandKeeps

-----------------------------------------------------------------------------
(* The page's theorems.                                                    *)

\* The page is loaded.
LEMMA PageStarts == PageInit => PageInd
<1> SUFFICES ASSUME PageInit PROVE PageInd
  OBVIOUS
<1>1. /\ socket = "connecting" /\ connected = FALSE /\ timer = FALSE /\ queue = <<>>
      /\ ptt = FALSE /\ asking = 0 /\ rec = Off /\ closing = 0 /\ live = 0
      /\ cache = <<>> /\ latest = "none" /\ inbox = <<>>
      /\ step = [r \in Response |-> 0] /\ phase = [r \in Response |-> "ready"]
      /\ log = [s \in Stream |-> <<>>]
      /\ first = "none" /\ hellos = 0 /\ astray = FALSE /\ spoilt = {}
  BY DEF PageInit
<1>2. use \in Used /\ use.presses = use.streams /\ use.streams \in Nat /\ use.presses \in Nat
  <2>1. PICK u \in Usage :
          use = [presses |-> u.presses, streams |-> u.presses, pieces |-> u.pieces,
                 breaks |-> u.breaks, reloads |-> u.reloads, responses |-> u.responses]
    BY DEF PageInit
  <2>2. /\ u.presses \in Nat /\ u.pieces \in Nat /\ u.breaks \in Nat /\ u.reloads \in Nat
        /\ u.responses \in SUBSET Response
    BY UsageAssumption
  <2> QED BY ONLY <2>1, <2>2 DEF Used
<1>3. rec.stream = 0 /\ ~rec.on /\ ~rec.open /\ rec.seq = 0
      /\ rec \in [on : BOOLEAN, stream : 0..use.streams, seq : Nat, open : BOOLEAN]
  BY <1>1, <1>2 DEF Off
<1>4. NumChunks \in Nat /\ MaxResponses \in Nat
  BY CacheAssumption
<1>5. Len(queue) = 0 /\ DOMAIN queue = {} /\ Len(cache) = 0 /\ DOMAIN cache = {} /\ DOMAIN inbox = {}
  BY <1>1
<1>6. \A s \in Stream : log[s] = <<>> /\ DOMAIN log[s] = {}
  BY <1>1
<1>7. PageTypeOK
  <2>1. /\ queue \in Seq(Message)
        /\ cache \in Seq([id : Response, chunks : SUBSET (1..NumChunks), complete : BOOLEAN])
        /\ inbox \in Seq([of : Response, step : 0..NumChunks + 1])
    BY <1>1
  <2>2. log \in [Stream -> Seq(Message)]
    BY <1>1
  <2>3. step \in [Response -> 0..NumChunks + 1]
        /\ phase \in [Response -> {"ready", "waiting", "delivered", "failed"}]
    BY <1>1, <1>4
  <2>4. Len(cache) <= MaxResponses
    BY ONLY <1>4, <1>5
  <2>5. rec \in [on : BOOLEAN, stream : 0..use.streams, seq : Nat, open : BOOLEAN]
    BY <1>3
  <2>6. latest \in Response \cup {"none"} /\ spoilt \subseteq Stream /\ (timer <=> socket = "closed")
    BY <1>1
  <2>7. /\ socket = "connecting" /\ connected = FALSE /\ timer = FALSE /\ ptt = FALSE
        /\ asking = 0 /\ closing = 0 /\ live = 0 /\ hellos = 0 /\ astray = FALSE
    BY <1>1
  <2> QED BY ONLY <1>2, <2>1, <2>2, <2>3, <2>4, <2>5, <2>6, <2>7 DEF PageTypeOK, Used
<1>8. HelloOpens /\ HeardOnce /\ Greeted
  BY <1>1, <1>6 DEF HelloOpens, HeardOnce, Greeted
<1>9. Room /\ Calm
  BY <1>1, <1>2, <1>3 DEF Room, Calm
<1>10. SaidOnce
  BY <1>5, <1>6 DEF SaidOnce
<1>11. Awaits /\ CacheFollows
  BY <1>1, <1>5 DEF Awaits, CacheFollows
<1>12. ASSUME NEW s \in Stream
       PROVE  Recorded(s)
  <2>1. log[s] = <<>> /\ Those(queue, About(s)) = <<>>
    BY <1>5, <1>6, NothingKept
  <2>2. s > rec.stream /\ ~(s = rec.stream) /\ ~(s < rec.stream)
    BY <1>3 DEF Stream
  <2> QED BY <2>1, <2>2 DEF Recorded
<1> QED BY <1>7, <1>8, <1>9, <1>10, <1>11, <1>12 DEF PageInd

\* Nothing happens.
LEMMA PageStutters == PageInd /\ UNCHANGED page => PageInd'
<1> SUFFICES ASSUME PageInd, UNCHANGED page PROVE PageInd'
  OBVIOUS
<1>1. UNCHANGED <<link, talk, audio, inbox, gateway>> /\ use' = use /\ spoilt' = spoilt
  BY DEF page
<1>2. /\ queue' = queue /\ log' = log /\ step' = step /\ phase' = phase /\ cache' = cache
      /\ latest' = latest /\ timer' = timer /\ connected' = connected
      /\ inbox' = inbox /\ socket' = socket /\ first' = first /\ hellos' = hellos
      /\ ptt' = ptt /\ asking' = asking /\ rec' = rec /\ closing' = closing /\ live' = live
      /\ astray' = astray
  BY <1>1 DEF link, talk, audio, gateway
<1>3. Stream' = Stream /\ Message' = Message
  BY <1>1 DEF Stream, Message
<1>4. PageTypeOK' /\ HelloOpens' /\ Room' /\ Greeted' /\ Calm'
  BY SMTT(30), <1>1, <1>2, <1>3 DEF PageInd, PageTypeOK, HelloOpens, Room, Greeted, Calm
<1>5. HeardOnce' /\ SaidOnce'
  BY <1>1, <1>2, <1>3, SoundStays DEF PageInd
<1>6. Awaits' /\ CacheFollows'
  BY <1>2, DeliveriesStay DEF PageInd
<1>7. \A s \in Stream \ spoilt : Recorded(s)'
  BY <1>1, <1>2, NothingSaid DEF PageInd
<1> QED BY <1>1, <1>3, <1>4, <1>5, <1>6, <1>7 DEF PageInd

\* The invariant of the page, in every reachable state.
THEOREM PageIndHolds == PageSpec => []PageInd
<1>1. PageInd /\ PageNext => PageInd'
  <2> SUFFICES ASSUME PageInd, PageNext PROVE PageInd'
    OBVIOUS
  <2>1. Remember
    BY DEF PageNext
  <2>2. CASE Connection
    BY <2>1, <2>2, OpenKeeps, HelloAckKeeps, BreakKeeps, BeginCloseKeeps, OnCloseKeeps,
       ReconnectKeeps, ReloadKeeps DEF Connection
  <2>3. CASE Talking
    BY <2>1, <2>3, PressKeeps, GrantedKeeps, RefusedKeeps, SpeakKeeps, ReleaseKeeps, StoppedKeeps
       DEF Talking
  <2>4. CASE Delivery
    BY <2>1, <2>4, HandleCommandKeeps, GatewaySendsKeeps, GatewayGivesUpKeeps DEF Delivery
  <2> QED BY <2>2, <2>3, <2>4 DEF PageNext
<1>2. PageInd /\ [PageNext]_page => PageInd'
  BY <1>1, PageStutters
<1> QED BY <1>2, PageStarts, PTL DEF PageSpec

\* Through breaks, reconnects and reloads a connection says hello first and once, no
\* piece of sound is heard twice, and a response that counts as complete is (the _send
\* and _onOpen of datp/client.js; audio/cache.js).
THEOREM PageCorrect == PageSpec => []PageInv
<1>1. PageInd => PageInv
  <2> SUFFICES ASSUME PageInd PROVE PageInv
    OBVIOUS
  <2>1. ASSUME NEW i \in DOMAIN cache, cache[i].complete
        PROVE  cache[i].chunks = 1..NumChunks
    BY <2>1 DEF PageInd, CacheFollows, Holds
  <2> QED BY <2>1 DEF PageInd, PageInv, CacheSound
<1> QED BY <1>1, PageIndHolds, PTL

\* A recording whose end the gateway hears, made while the connection stayed as it was
\* and no other microphone of the page was open or being closed, is heard whole and in
\* order (start, pushSamples and stop of audio/recorder.js, through the queue of
\* datp/client.js).  The button may be released before a microphone is granted.
THEOREM RecordingsWhole == PageSpec => []HeardWhole
<1>1. PageInd => HeardWhole
  <2> SUFFICES ASSUME PageInd, NEW s \in Stream \ spoilt, NEW i \in 1..Len(log[s]),
                      log[s][i].kind = "finish"
               PROVE  /\ log[s][1] = Start(s) /\ log[s][Len(log[s])] = Finish(s)
                      /\ \A j \in 2..Len(log[s]) - 1 :
                           /\ log[s][j].kind = "sound" /\ log[s][j].seq = j - 2
                           /\ log[s][j].piece = log[s][2].piece - (j - 2)
    BY DEF HeardWhole
  <2> DEFINE w == log[s]
  <2>1. Recorded(s) /\ s \in Nat /\ rec.stream \in Nat /\ w \in Seq(Message)
    <3>1. Recorded(s) /\ PageTypeOK /\ s \in Stream
      BY DEF PageInd
    <3>2. log[s] \in Seq(Message)
      BY ONLY <3>1 DEF PageTypeOK
    <3>3. s \in Nat
      BY ONLY <3>1 DEF Stream
    <3>4. rec.stream \in Nat
      <4>1. rec \in [on : BOOLEAN, stream : 0..use.streams, seq : Nat, open : BOOLEAN]
        BY ONLY <3>1 DEF PageTypeOK
      <4> QED BY ONLY <4>1
    <3> QED BY <3>1, <3>2, <3>3, <3>4
  <2>2. w # <<>> /\ Len(w) \in Nat
    BY <2>1, LenProperties, EmptySeq
  <2>3. ~Going(w, s)
    <3>1. ASSUME Going(w, s) PROVE FALSE
      <4>1. i = 1 \/ i \in 2..Len(w)
        BY <2>2
      <4>2. w[1] = Start(s) /\ \A j \in 2..Len(w) : w[j] = Sound(s, j - 2, use.pieces + rec.seq - (j - 2))
        BY <3>1 DEF Going
      <4>3. Start(s).kind = "start" /\ \A n, p : Sound(s, n, p).kind = "sound"
        BY DEF Start, Sound
      <4> QED BY <4>1, <4>2, <4>3
    <3> QED BY <3>1
  <2>4. s < rec.stream \/ (s = rec.stream /\ ~rec.on)
    <3>1. s > rec.stream => FALSE
      BY <2>1, <2>2 DEF Recorded
    <3>2. s = rec.stream /\ rec.on => FALSE
      BY <2>1, <2>2, <2>3 DEF Recorded
    <3> QED BY <2>1, <3>1, <3>2
  <2>5. Whole(w, s)
    BY <2>1, <2>2, <2>4 DEF Recorded
  <2> HIDE DEF w
  <2>6. /\ w[1] = Start(s) /\ w[Len(w)] = Finish(s)
        /\ \A j \in 2..Len(w) - 1 : w[j] = Sound(s, j - 2, w[2].piece - (j - 2))
    BY <2>5 DEF Whole
  <2>7. \A n, p : Sound(s, n, p).kind = "sound" /\ Sound(s, n, p).seq = n /\ Sound(s, n, p).piece = p
    BY DEF Sound
  <2>8. \A j \in 2..Len(w) - 1 :
          w[j].kind = "sound" /\ w[j].seq = j - 2 /\ w[j].piece = w[2].piece - (j - 2)
    BY <2>6, <2>7
  <2> QED BY <2>6, <2>8 DEF w
<1> QED BY <1>1, PageIndHolds, PTL
=============================================================================
