---------------------------- MODULE DeviceRegistry ----------------------------
(***************************************************************************)
(* What the gateway remembers of its devices: RegistryService              *)
(* (registry/service.py), the tables of ReconnectionManager and            *)
(* HeartbeatMonitor it feeds, and the rows of DeviceStore, which two pool  *)
(* threads write.  Its callers are the WebSocket server (datp/server.py)   *)
(* and the HTTP API (api/__init__.py); DatpServer models the former in     *)
(* detail, here a connection says hello once and then sends valid frames.  *)
(*                                                                         *)
(* A task is atomic between two awaits.  A pool job is atomic but for the  *)
(* one that reads before it writes.                                        *)
(***************************************************************************)
EXTENDS Naturals, Sequences, SequencesExt, FiniteSetsExt

CONSTANTS
  Device,
  Conn,          \* connections, each for one device
  DeviceOf,      \* connection -> device
  Caller,        \* HTTP handlers
  Pack,          \* character packs
  HelloState,    \* the fields of its state a device sends with hello
  Reports,       \* the sets of fields a later report may hold
  None,
  PoolWorkers,   \* threads of DeviceStore._executor
  MaxPriority,   \* bound: no foreground request beyond this priority
  MaxRestarts    \* bound: crashes of the gateway

Task == Conn \cup Caller
Field == HelloState \cup UNION Reports

ASSUME TaskAssumption == Conn \cap Caller = {} /\ None \notin Task \cup Pack
ASSUME DeviceOfAssumption == DeviceOf \in [Conn -> Device]
ASSUME PoolAssumption == PoolWorkers \in Nat \ {0}
ASSUME BoundAssumption == MaxPriority \in Nat /\ MaxRestarts \in Nat

VARIABLES
  owner,      \* DATPServer.device_registry: device -> its connection
  online,     \* RegistryService._online
  heard,      \* keys of HeartbeatMonitor._heartbeats
  count,      \* ReconnectionManager._reconnect_counts
  saved,      \* ReconnectionManager._saved_states: device -> fields
  pc,         \* where each connection and each caller is
  want,       \* caller -> the device it asks about
  row,        \* the devices table; a device without a row has session None
  jobs,       \* queue of the pool, running jobs first
  restarts,
  patient     \* does a device wait for its former connection to end?

memory == <<owner, online, heard, count, saved>>
vars == <<memory, pc, want, row, jobs, restarts, patient>>

NoRow == [session |-> None, state |-> {}, pack |-> None, priority |-> 0, count |-> 0]

Row == [session : Conn \cup {None}, state : SUBSET Field, pack : Pack \cup {None},
        priority : Nat, count : Nat]

Job == [kind : {"upsert"}, task : Conn, dev : Device, row : Row]
         \cup [kind : {"state"}, task : Conn, dev : Device, state : SUBSET Field]
         \cup [kind : {"beat"}, task : Conn, dev : Device]
         \cup [kind : {"pack"}, task : Caller, dev : Device, pack : Pack \cup {None}]
         \cup [kind : {"select"}, task : Caller, dev : Device]
         \cup [kind : {"raise"}, task : Caller, dev : Device, priority : Nat]

TypeOK ==
  /\ owner \in [Device -> Conn \cup {None}]
  /\ online \in [Device -> BOOLEAN]
  /\ heard \in SUBSET Device
  /\ count \in [Device -> Nat]
  /\ saved \in [Device -> SUBSET Field]
  /\ pc \in [Task -> {"idle", "hello", "ack", "upsert", "upserted", "open",
                      "beating", "beaten", "reporting", "done", "asked", "raising", "packing"}]
  /\ want \in [Caller -> Device \cup {None}]
  /\ row \in [Device -> Row]
  /\ jobs \in Seq(Job)
  /\ restarts \in 0..MaxRestarts
  /\ patient \in BOOLEAN

Init ==
  /\ owner = [d \in Device |-> None]
  /\ online = [d \in Device |-> FALSE]
  /\ heard = {}
  /\ count = [d \in Device |-> 0]
  /\ saved = [d \in Device |-> {}]
  /\ pc = [t \in Task |-> "idle"]
  /\ want = [t \in Caller |-> None]
  /\ row = [d \in Device |-> NoRow]
  /\ jobs = <<>>
  /\ restarts = 0
  /\ patient \in BOOLEAN

Known(d) == row[d].session # None

-----------------------------------------------------------------------------
(* The WebSocket server.                                                   *)

LockFree(d) == \A c \in Conn : DeviceOf[c] = d => pc[c] \notin {"hello", "ack"}

\* _mark_online under the device's lock; then the old socket is closed, if any.
Hello(c) ==
  LET d == DeviceOf[c] IN
  /\ pc[c] = "idle"
  /\ LockFree(d)
  /\ online' = [online EXCEPT ![d] = TRUE]
  /\ IF owner[d] = None
     THEN owner' = [owner EXCEPT ![d] = c] /\ pc' = [pc EXCEPT ![c] = "ack"]
     ELSE pc' = [pc EXCEPT ![c] = "hello"] /\ UNCHANGED owner
  /\ UNCHANGED <<heard, count, saved, want, row, jobs, restarts>>

\* The old connection's task may or may not have ended meanwhile.
Install(c) ==
  /\ pc[c] = "hello"
  /\ owner' = [owner EXCEPT ![DeviceOf[c]] = c]
  /\ pc' = [pc EXCEPT ![c] = "ack"]
  /\ UNCHANGED <<online, heard, count, saved, want, row, jobs, restarts>>

\* The hello_ack cannot be sent: the task ends before it knows its device_id.
AckFails(c) ==
  /\ pc[c] = "ack"
  /\ pc' = [pc EXCEPT ![c] = "done"]
  /\ UNCHANGED <<memory, want, row, jobs, restarts>>

\* Mutated: the state saved at the disconnect is not merged.
RebuiltAfresh(c, d) ==
  [session |-> c,
   state |-> HelloState,
   pack |-> None,
   priority |-> row[d].priority,
   count |-> IF Known(d) THEN count[d] ELSE 0]

\* The row device_registered writes: rebuilt from the row it reads, the fields
\* saved at the last disconnect and those of the hello.
Rebuilt(c, d) ==
  [session |-> c,
   state |-> saved[d] \cup HelloState,
   pack |-> None,
   priority |-> row[d].priority,
   count |-> IF Known(d) THEN count[d] ELSE 0]

\* hello_ack is out and the lock released: device_registered, up to its await.
Register(c) ==
  LET d == DeviceOf[c] IN
  /\ pc[c] = "ack"
  /\ saved' = [saved EXCEPT ![d] = {}]
  /\ jobs' = Append(jobs, [kind |-> "upsert", task |-> c, dev |-> d,
                           row |-> Rebuilt(c, d)])
  /\ pc' = [pc EXCEPT ![c] = "upsert"]
  /\ UNCHANGED <<owner, online, heard, count, want, row, restarts>>

\* device_registered after the upsert: online, and a first heartbeat.
Registered(c) ==
  LET d == DeviceOf[c] IN
  /\ pc[c] = "upserted"
  /\ online' = [online EXCEPT ![d] = TRUE]
  /\ heard' = heard \cup {d}
  /\ pc' = [pc EXCEPT ![c] = "open"]
  /\ UNCHANGED <<owner, count, saved, want, row, jobs, restarts>>

\* A heartbeat, or a state report that is one too, of the connection that owns
\* the device.
Heartbeat(c) ==
  LET d == DeviceOf[c] IN
  /\ pc[c] = "open"
  /\ owner[d] = c
  /\ heard' = heard \cup {d}
  /\ jobs' = Append(jobs, [kind |-> "beat", task |-> c, dev |-> d])
  /\ pc' = [pc EXCEPT ![c] = "beating"]
  /\ UNCHANGED <<owner, online, count, saved, want, row, restarts>>

\* A heartbeat that was no report ends here.
Beaten(c) ==
  /\ pc[c] = "beaten"
  /\ pc' = [pc EXCEPT ![c] = "open"]
  /\ UNCHANGED <<memory, want, row, jobs, restarts>>

\* A state report is written, whoever owns the device since the heartbeat in it
\* was recorded.
Report(c) ==
  LET d == DeviceOf[c] IN
  /\ \/ pc[c] = "open" /\ owner[d] = c
     \/ pc[c] = "beaten"
  /\ \E fields \in Reports :
       jobs' = Append(jobs, [kind |-> "state", task |-> c, dev |-> d,
                             state |-> fields])
  /\ pc' = [pc EXCEPT ![c] = "reporting"]
  /\ UNCHANGED <<memory, want, row, restarts>>

\* device_disconnected: a no-op for a device that is offline already.
Disconnected(d) ==
  IF online[d]
  THEN /\ online' = [online EXCEPT ![d] = FALSE]
       /\ count' = [count EXCEPT ![d] = @ + 1]
       /\ saved' = [saved EXCEPT ![d] = IF row[d].state # {} THEN row[d].state ELSE @]
       /\ heard' = heard \ {d}
  ELSE UNCHANGED <<online, count, saved, heard>>

\* Mutated: the finalizer asks whether the device is online, not whose it is.
CloseUnowned(c) ==
  LET d == DeviceOf[c] IN
  /\ pc[c] = "open"
  /\ owner' = [owner EXCEPT ![d] = IF @ = c THEN None ELSE @]
  /\ Disconnected(d)
  /\ pc' = [pc EXCEPT ![c] = "done"]
  /\ UNCHANGED <<want, row, jobs, restarts>>

\* The connection ends: the finally block cleans up if the device is still its.
Close(c) ==
  LET d == DeviceOf[c] IN
  /\ pc[c] = "open"
  /\ IF owner[d] = c
     THEN owner' = [owner EXCEPT ![d] = None] /\ Disconnected(d)
     ELSE UNCHANGED memory
  /\ pc' = [pc EXCEPT ![c] = "done"]
  /\ UNCHANGED <<want, row, jobs, restarts>>

-----------------------------------------------------------------------------
(* The HTTP API.                                                           *)

\* POST .../foreground for a connected device, up to the read of its row.
AskForeground(t, d) ==
  /\ pc[t] = "idle"
  /\ owner[d] # None
  /\ \A e \in Device : row[e].priority < MaxPriority
  /\ want' = [want EXCEPT ![t] = d]
  /\ pc' = [pc EXCEPT ![t] = "asked"]
  /\ UNCHANGED <<memory, row, jobs, restarts>>

\* set_foreground_device after the read (rows never vanish): refused if the
\* device has no row or is offline by now.
ServeForeground(t) ==
  /\ pc[t] = "asked"
  /\ want' = [want EXCEPT ![t] = None]
  /\ IF Known(want[t]) /\ online[want[t]]
     THEN /\ jobs' = Append(jobs, [kind |-> "select", task |-> t, dev |-> want[t]])
          /\ pc' = [pc EXCEPT ![t] = "raising"]
     ELSE /\ pc' = [pc EXCEPT ![t] = "idle"]
          /\ UNCHANGED jobs
  /\ UNCHANGED <<memory, row, restarts>>

\* POST .../character: assigns a pack, or clears it.
SetPack(t, d, p) ==
  /\ pc[t] = "idle"
  /\ Known(d)
  /\ jobs' = Append(jobs, [kind |-> "pack", task |-> t, dev |-> d, pack |-> p])
  /\ pc' = [pc EXCEPT ![t] = "packing"]
  /\ UNCHANGED <<memory, want, row, restarts>>

-----------------------------------------------------------------------------
(* The pool.                                                               *)

Highest == Max({row[d].priority : d \in Device})

Written(job, old) ==
  CASE job.kind = "upsert" -> job.row
    [] job.kind = "state"  -> [old EXCEPT !.state = job.state]
    [] job.kind = "beat"   -> old
    [] job.kind = "pack"   -> [old EXCEPT !.pack = job.pack]
    [] job.kind = "raise"  -> [old EXCEPT !.priority = job.priority]

\* Where the task that awaits the job goes on.
After(job) ==
  CASE job.kind = "upsert" -> "upserted"
    [] job.kind = "state"  -> "open"
    [] job.kind = "beat"   -> "beaten"
    [] OTHER               -> "idle"

\* A thread executes one of the oldest jobs, and its task resumes.
PoolWrites(i) ==
  /\ i \in 1..Len(jobs)
  /\ i <= PoolWorkers
  /\ jobs[i].kind # "select"
  /\ row' = [row EXCEPT ![jobs[i].dev] = Written(jobs[i], @)]
  /\ pc' = [pc EXCEPT ![jobs[i].task] = After(jobs[i])]
  /\ jobs' = RemoveAt(jobs, i)
  /\ UNCHANGED <<memory, want, restarts>>

\* Mutated: the thread gives up and nobody tells the task that waits.
PoolGivesUp(i) ==
  /\ i \in 1..Len(jobs)
  /\ i <= PoolWorkers
  /\ jobs[i].kind = "select"
  /\ jobs' = RemoveAt(jobs, i)
  /\ UNCHANGED <<memory, pc, want, row, restarts>>

\* Raising a device to the foreground first selects the highest priority.
PoolSelects(i) ==
  /\ i \in 1..Len(jobs)
  /\ i <= PoolWorkers
  /\ jobs[i].kind = "select"
  /\ jobs' = [jobs EXCEPT ![i] = [kind |-> "raise", task |-> @.task, dev |-> @.dev,
                                  priority |-> Highest + 1]]
  /\ UNCHANGED <<memory, pc, want, row, restarts>>

\* The gateway dies and starts again: the rows are all that is left.
Restart ==
  /\ restarts < MaxRestarts
  /\ restarts' = restarts + 1
  /\ owner' = [d \in Device |-> None]
  /\ online' = [d \in Device |-> FALSE]
  /\ heard' = {}
  /\ count' = [d \in Device |-> 0]
  /\ saved' = [d \in Device |-> {}]
  /\ pc' = [t \in Task |-> IF t \in Conn /\ pc[t] # "idle" THEN "done" ELSE "idle"]
  /\ want' = [t \in Caller |-> None]
  /\ jobs' = <<>>
  /\ UNCHANGED row

-----------------------------------------------------------------------------
Pool == \E i \in 1..PoolWorkers : PoolWrites(i) \/ PoolSelects(i)

\* A patient device says hello again only after its former connection is done with.
Waited ==
  \A c, e \in Conn :
    pc[c] = "idle" /\ pc'[c] = "hello" /\ e # c /\ DeviceOf[e] = DeviceOf[c]
      => pc[e] \in {"idle", "done"}

Step ==
  \/ \E c \in Conn :
       \/ Hello(c) \/ Install(c) \/ AckFails(c) \/ Register(c) \/ Registered(c)
       \/ Heartbeat(c) \/ Beaten(c) \/ Report(c) \/ Close(c)
  \/ \E t \in Caller :
       \/ \E d \in Device : AskForeground(t, d)
       \/ ServeForeground(t)
       \/ \E d \in Device, p \in Pack \cup {None} : SetPack(t, d, p)
  \/ Pool
  \/ Restart

Next ==
  /\ Step
  /\ patient => Waited
  /\ UNCHANGED patient

Spec == Init /\ [][Next]_vars

\* The loop runs ready tasks, and the pool its oldest job.
Fairness ==
  /\ WF_vars((PoolWrites(1) \/ PoolSelects(1)) /\ UNCHANGED patient)
  /\ \A c \in Conn :
       /\ WF_vars(Registered(c) /\ UNCHANGED patient)
       /\ WF_vars((Beaten(c) \/ Report(c)) /\ UNCHANGED patient)
  /\ \A t \in Caller : WF_vars(ServeForeground(t) /\ UNCHANGED patient)

FairSpec == Spec /\ Fairness

-----------------------------------------------------------------------------
(* Safety.                                                                 *)

\* Only devices that are online are watched for heartbeats, however registrations
\* and disconnects of one device overlap.
HeardIsOnline == \A d \in heard : online[d]

\* A device whose connection is registered is online, watched and has a row,
\* whatever finalizers and registrations of its older connections do late.
OwnerIsServed ==
  \A d \in Device :
    owner[d] # None /\ pc[owner[d]] \in {"open", "beating", "beaten", "reporting"}
      => online[d] /\ d \in heard /\ Known(d)

\* The tables of RegistryService, the monitor and the rows agree: they have their
\* types, who is watched is online, and who owns a device is served.
RegistryInv == TypeOK /\ HeardIsOnline /\ OwnerIsServed

\* "State is preserved and restored on reconnect", of patient devices only: where
\* devices say hello again only once their former connection is done with (no
\* handler of it runs any more), and the gateway did not restart, the row of a new
\* session has every field of the row it replaces.  A device that reconnects
\* while its former connection is still open gets a row without those fields.
StateSurvives ==
  [][\A d \in Device :
       patient /\ restarts' = 0 /\ Known(d) /\ row'[d].session # row[d].session
         => row[d].state \subseteq row'[d].state]_vars

-----------------------------------------------------------------------------
(* The inductive invariants behind them.                                   *)

\* Where the task stands that awaits a job.
Awaiting(job) ==
  CASE job.kind = "upsert" -> "upsert"
    [] job.kind = "state"  -> "reporting"
    [] job.kind = "beat"   -> "beating"
    [] job.kind = "pack"   -> "packing"
    [] OTHER               -> "raising"

\* Every job is awaited by its task, about the task's own device, and a task
\* awaits one job.
JobsAwaited ==
  /\ \A i \in 1..Len(jobs) :
       /\ pc[jobs[i].task] = Awaiting(jobs[i])
       /\ jobs[i].task \in Conn => jobs[i].dev = DeviceOf[jobs[i].task]
       /\ jobs[i].kind = "upsert" => jobs[i].row.session = jobs[i].task
  /\ \A i, j \in 1..Len(jobs) : jobs[i].task = jobs[j].task => i = j

OwnersDevice == \A d \in Device : owner[d] # None => DeviceOf[owner[d]] = d

\* A connection beyond its upsert has left a row.
RegisteredIsKnown ==
  \A c \in Conn :
    pc[c] \in {"upserted", "open", "beating", "beaten", "reporting"} => Known(DeviceOf[c])

AskedIsNamed == \A t \in Caller : pc[t] = "asked" => want[t] \in Device

\* The priorities have an upper bound, so there is a highest.
PrioritiesBounded ==
  \E n \in Nat :
    /\ \A d \in Device : row[d].priority <= n
    /\ \A i \in 1..Len(jobs) :
         /\ jobs[i].kind = "upsert" => jobs[i].row.priority <= n
         /\ jobs[i].kind = "raise" => jobs[i].priority <= n

IndInv ==
  RegistryInv /\ JobsAwaited /\ OwnersDevice /\ RegisteredIsKnown /\ AskedIsNamed
    /\ PrioritiesBounded

\* A device that waits has one connection at a time, which owns it.
OneAtATime ==
  /\ \A c, e \in Conn :
       c # e /\ DeviceOf[c] = DeviceOf[e] => pc[c] \in {"idle", "done"} \/ pc[e] \in {"idle", "done"}
  /\ \A c \in Conn : pc[c] \notin {"idle", "hello", "done"} => owner[DeviceOf[c]] = c

\* Between two registrations the old row's fields are saved; then they are in
\* the row that is about to be written.
StateKept ==
  /\ \A d \in Device :
       (\A c \in Conn : DeviceOf[c] = d => pc[c] \in {"idle", "hello", "ack", "done"})
         => row[d].state \subseteq saved[d]
  /\ \A i \in 1..Len(jobs) :
       jobs[i].kind = "upsert" => row[jobs[i].dev].state \subseteq jobs[i].row.state

PatientInv == patient => OneAtATime /\ (restarts = 0 => StateKept)

-----------------------------------------------------------------------------
(* Liveness.                                                               *)

\* What awaits the pool goes on: a registration, a report, a request.
TasksReturn ==
  \A t \in Task :
    pc[t] \in {"upsert", "upserted", "beating", "beaten", "reporting", "asked", "raising", "packing"}
      ~> pc[t] \in {"open", "idle", "done"}

=============================================================================
