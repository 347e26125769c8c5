------------------------------ MODULE Attention ------------------------------
(***************************************************************************)
(* Which device the user attends to (AttentionPolicy in                    *)
(* attention/policy.py): one device at a time, taken by priority, with a   *)
(* queue of the devices that were denied it.  A call is one step: the      *)
(* policy does not yield.                                                  *)
(***************************************************************************)
EXTENDS Devices, Integers, Sequences, SequencesExt

CONSTANTS
  Priority,   \* the priorities callers ask for
  Nobody,
  Config      \* the configurations to look at

ASSUME PriorityAssumption == Priority \subseteq Int /\ Nobody \notin Priority
ASSUME DeviceAssumption == Nobody \notin Device
ASSUME ConfigAssumption ==
  Config \subseteq [require_explicit_release : BOOLEAN, enable_priority : BOOLEAN,
                    auto_release : BOOLEAN, default_priority : Priority]

VARIABLES
  config,           \* _config
  current,          \* _current_attention
  attention_queue,  \* _attention_queue
  priority,         \* _device_attention: the priority of a device it knows, or Nobody
  active,           \* the devices whose state is ATTENTION_ACTIVE
  timed,            \* the devices whose state has an auto-release time
  quiet             \* of these, those with no activity for that time

states == <<priority, active, timed, quiet>>
attention == <<config, current, attention_queue, states>>

AttentionTypeOK ==
  /\ config \in Config
  /\ current \in Device \cup {Nobody}
  /\ attention_queue \in Seq(Device)
  /\ priority \in [Device -> Priority \cup {Nobody}]
  /\ active \subseteq Device /\ timed \subseteq Device /\ quiet \subseteq timed

Known(d) == priority[d] # Nobody

AttentionInit ==
  /\ config \in Config
  /\ current = Nobody
  /\ attention_queue = <<>>
  /\ priority = [d \in Device |-> Nobody]
  /\ active = {} /\ timed = {} /\ quiet = {}

-----------------------------------------------------------------------------
(* The queue.                                                              *)

Without(q, d) == RemoveFirst(q, d)

\* _queue_for_attention: before the first device that is known with less priority.
Queued(q, d, p) ==
  LET waiting == Without(q, d)
      less == {i \in DOMAIN waiting : Known(waiting[i]) /\ priority[waiting[i]] < p}
      place == IF less = {} THEN Len(waiting) + 1
               ELSE CHOOSE i \in less : \A j \in less : i <= j
  IN InsertAt(waiting, place, d)

-----------------------------------------------------------------------------
(* Taking attention, and letting go of it.                                 *)

Asked(p) == IF p = Nobody THEN config.default_priority ELSE p

\* The state of d becomes active; it keeps its priority unless one is asked for.
Grant(d, p, withTime) ==
  /\ current' = d
  /\ priority' = [priority EXCEPT ![d] = IF p # Nobody \/ ~Known(d) THEN Asked(p) ELSE @]
  /\ active' = (active \ {current}) \cup {d}
  /\ timed' = IF withTime THEN timed \cup {d} ELSE timed \ {d}
  /\ quiet' = quiet \ {d}

Taken(d) == current \notin {Nobody, d}
Outranked(p) == config.enable_priority /\ priority[current] > Asked(p)

\* acquire_attention is granted: nobody else has it, or it is taken away.
Acquire(d, p, withTime) ==
  /\ Taken(d) => ~Outranked(p) /\ ~config.require_explicit_release
  /\ Grant(d, p, withTime)
  /\ UNCHANGED <<config, attention_queue>>

\* It is denied, and the device queued.  (One that may not take it over, whatever
\* the priorities, is turned away and nothing changes.)
Denied(d, p) ==
  /\ Taken(d) /\ Outranked(p)
  /\ attention_queue' = Queued(attention_queue, d, Asked(p))
  /\ UNCHANGED <<config, current, states>>

\* Mutated: only the first of the queue is looked at.
LetGoOnce ==
  /\ IF attention_queue # <<>> /\ Known(Head(attention_queue))
     THEN Grant(Head(attention_queue), Nobody, FALSE)
     ELSE /\ current' = Nobody /\ active' = active \ {current}
          /\ UNCHANGED <<priority, timed, quiet>>
  /\ attention_queue' = IF attention_queue = <<>> THEN <<>> ELSE Tail(attention_queue)
  /\ UNCHANGED config

\* _release_current_attention: the first device of the queue that is known gets it.
\* Those before it are dropped.
LetGo ==
  LET known == {i \in DOMAIN attention_queue : Known(attention_queue[i])}
      next == CHOOSE i \in known : \A j \in known : i <= j
  IN /\ IF known = {}
        THEN /\ current' = Nobody /\ active' = active \ {current}
             /\ attention_queue' = <<>>
             /\ UNCHANGED <<priority, timed, quiet>>
        ELSE /\ Grant(attention_queue[next], Nobody, FALSE)
             /\ attention_queue' = SubSeq(attention_queue, next + 1, Len(attention_queue))
     /\ UNCHANGED config

\* release_attention, handle_device_offline.
Release(d) == current = d /\ LetGo

\* check_timeouts.
CheckTimeouts ==
  /\ config.auto_release
  /\ current \in quiet
  /\ LetGo

RecordActivity(d) ==
  /\ Known(d)
  /\ quiet' = quiet \ {d}
  /\ UNCHANGED <<config, current, attention_queue, priority, active, timed>>

\* set_priority: a device that waits is queued anew, or no longer.
SetPriority(d, p) ==
  /\ priority' = [priority EXCEPT ![d] = p]
  /\ attention_queue' =
       IF ~Contains(attention_queue, d) THEN attention_queue
       ELSE IF p > 0 THEN Queued(attention_queue, d, p)
       ELSE Without(attention_queue, d)
  /\ UNCHANGED <<config, current, active, timed, quiet>>

\* Time passes: the time of d is up.
TimePasses(d) ==
  /\ d \in timed \ quiet
  /\ quiet' = quiet \cup {d}
  /\ UNCHANGED <<config, current, attention_queue, priority, active, timed>>

-----------------------------------------------------------------------------
AttentionNext ==
  \/ \E d \in Device :
       \/ Release(d) \/ RecordActivity(d) \/ TimePasses(d)
       \/ \E p \in Priority : SetPriority(d, p)
       \/ \E p \in Priority \cup {Nobody} :
            Denied(d, p) \/ \E withTime \in BOOLEAN : Acquire(d, p, withTime)
  \/ CheckTimeouts

AttentionSpec == AttentionInit /\ [][AttentionNext]_attention

-----------------------------------------------------------------------------
(* Properties.                                                             *)

\* The device that has attention, and no other, is active, and the policy knows it:
\* through every take-over, release, queue and timeout.
OneAttended ==
  /\ active = {current} \ {Nobody}
  /\ current # Nobody => Known(current)

\* Nobody waits for attention that nobody has.
NoIdleWait == current = Nobody => attention_queue = <<>>

\* A device waits once, however often it is denied and its priority set.
WaitsOnce == IsInjective(attention_queue)

\* What a call finds and leaves: every variable has its type, the states of the
\* devices agree with who has attention, nobody waits idly, and nobody twice.
AttentionInv == AttentionTypeOK /\ OneAttended /\ NoIdleWait /\ WaitsOnce
=============================================================================
