--------------------------- MODULE VoiceTurn_proofs ---------------------------
(***************************************************************************)
(* That what arrives of a recording reaches the recognizer once and whole, *)
(* that the words of its answer, and of the answer to a text that was      *)
(* typed, go to the device that asked, what the subscribers of the event   *)
(* bus keep meanwhile, and that the loudspeakers, and the screens but for  *)
(* lost commands, get every word of an agent once and in order: for any    *)
(* number of devices, recordings, frames, questions, backends, words and   *)
(* failures.                                                               *)
(***************************************************************************)
EXTENDS VoiceTurn, SequenceLemmas

-----------------------------------------------------------------------------
(* The recordings.                                                          *)

\* A frame that comes is of its recording, and new.
LEMMA FrameIs ==
  ASSUME NEW r \in StreamId, NEW f \in FramesOf(r), UploadTypeOK, Comes(f)
  PROVE  /\ f \in Frame /\ f.id = r /\ f \notin arrived
         /\ arrived' = arrived \cup {f} /\ arrived' \subseteq Frame
         /\ repeats' \in 0..MaxRepeats
         /\ \A s : Ended(s)' <=> Ended(s) \/ (s = r /\ IsEnd(f))
<1>1. ChunkCount[r] \in Nat /\ MaxRepeats \in Nat
  BY UploadAssumption
<1>2. f \in Frame /\ f.id = r
  BY <1>1 DEF FramesOf, Frame
<1>3. /\ f \notin arrived /\ arrived' = arrived \cup {f}
      /\ repeats' = IF f.copy > 0 THEN repeats + 1 ELSE repeats
      /\ f.copy > 0 => repeats < MaxRepeats
  BY DEF Comes
<1>4. repeats' \in 0..MaxRepeats
  BY <1>1, <1>3 DEF UploadTypeOK
<1> QED BY <1>2, <1>3, <1>4 DEF Ended, UploadTypeOK

-----------------------------------------------------------------------------
(* The invariant, action by action.                                        *)

\* A chunk that comes keeps the invariant.
LEMMA ChunkKeeps ==
  ASSUME UploadInd, NEW r \in StreamId, NEW f \in FramesOf(r),
         NEW x \in {"good", "short", "bad"}, ChunkArrives(f, x)
  PROVE  UploadInd'
<1> DEFINE was == streams[r]
           same == {g \in was : g.seq = f.seq}
<1>1. UploadTypeOK /\ ChunkOnce /\ NothingCut /\ BufferTaken /\ Placed /\ ByAnEnd
  BY DEF UploadInd, UploadInv
<1>2. /\ Comes(f) /\ ~IsEnd(f)
      /\ x # "good" => bad < MaxBad
      /\ bad' = IF x = "good" THEN bad ELSE bad + 1
      /\ BufferChunk(f, x)
      /\ late' = IF Ended(f.id) THEN late \cup {f.id} ELSE late
      /\ UNCHANGED <<tasks, jobs, transcripts, failed>>
  BY DEF ChunkArrives
<1>3. /\ f \in Frame /\ f.id = r /\ f \notin arrived
      /\ arrived' = arrived \cup {f} /\ arrived' \subseteq Frame
      /\ repeats' \in 0..MaxRepeats
      /\ \A s : Ended(s)' <=> Ended(s)
  BY <1>1, <1>2, FrameIs
<1>4. /\ known' = known \cup {r}
      /\ streams' = [streams EXCEPT ![r] = IF x = "good" THEN (was \ same) \cup {f}
                                           ELSE IF x = "short" THEN was \ same ELSE was]
      /\ replaced' = IF x = "bad" THEN replaced ELSE replaced \cup same
      /\ useless' = IF x = "good" THEN useless ELSE useless \cup {f}
  BY <1>2, <1>3 DEF BufferChunk
<1>5. was \subseteq Frame /\ streams \in [StreamId -> SUBSET Frame]
  BY <1>1 DEF UploadTypeOK
<1>6. /\ streams' \in [StreamId -> SUBSET Frame]
      /\ \A s \in StreamId \ {r} : streams'[s] = streams[s]
      /\ streams'[r] = IF x = "good" THEN (was \ same) \cup {f}
                       ELSE IF x = "short" THEN was \ same ELSE was
  BY <1>3, <1>4, <1>5
<1>7. Recognitions' = Recognitions /\ Scheduled' = Scheduled
  BY <1>2 DEF Recognitions, Scheduled
<1>8. /\ \A g \in was : g \in arrived /\ g.id = r
      /\ OneOfEach(was)
  BY <1>1 DEF Placed
<1>9. \A j \in Recognitions : f \notin j.audio
  BY <1>1, <1>3 DEF Placed
<1>10. late \subseteq late' /\ late' \subseteq StreamId /\ (Ended(r) => r \in late')
  BY <1>1, <1>2, <1>3 DEF UploadTypeOK
<1>11. UploadTypeOK'
  <2>1. useless' \subseteq Frame /\ replaced' \subseteq Frame /\ known' \subseteq StreamId
    BY <1>1, <1>3, <1>4, <1>5 DEF UploadTypeOK
  <2>2. bad' \in 0..MaxBad
    BY <1>1, <1>2, UploadAssumption DEF UploadTypeOK
  <2> QED BY <1>1, <1>2, <1>3, <1>6, <1>10, <2>1, <2>2 DEF UploadTypeOK
<1>12. \A j \in Recognitions : j.id \in StreamId
  BY <1>1 DEF UploadTypeOK, Recognitions, Job
<1> HIDE DEF was
<1>13. ChunkOnce'
  <2>1. ASSUME NEW j \in Recognitions
        PROVE  streams'[j.id] \cap j.audio = {}
    <3>1. streams[j.id] \cap j.audio = {}
      BY <1>1 DEF ChunkOnce
    <3>2. CASE j.id # r
      BY <1>6, <1>12, <3>1, <3>2
    <3>3. CASE j.id = r
      BY <1>6, <1>9, <3>1, <3>3 DEF was
    <3> QED BY <3>2, <3>3
  <2> QED BY <1>1, <1>2, <1>7, <2>1 DEF ChunkOnce
<1>14. NothingCut'
  <2>1. ASSUME NEW h \in arrived' \ useless', ~IsEnd(h)
        PROVE  \/ h \in streams'[h.id]
               \/ \E j \in Recognitions : h \in j.audio /\ j.id = h.id
               \/ h \in replaced' /\ \E g \in arrived' \ {h} : g.id = h.id /\ g.seq = h.seq
    <3>1. CASE h = f
      BY <1>3, <1>4, <1>6, <3>1
    <3>2. CASE h # f
      <4>1. h \in arrived \ useless /\ h \in Frame
        BY <1>1, <1>3, <1>4, <2>1, <3>2 DEF UploadTypeOK
      <4>2. \/ h \in streams[h.id]
            \/ \E j \in Recognitions : h \in j.audio /\ j.id = h.id
            \/ h \in replaced /\ \E g \in arrived \ {h} : g.id = h.id /\ g.seq = h.seq
        BY <1>1, <2>1, <4>1 DEF NothingCut
      <4>3. CASE h \in streams[h.id]
        <5>1. CASE h.id # r
          BY <1>6, <4>1, <4>3, <5>1 DEF Frame
        <5>2. CASE h.id = r /\ h \in same
          <6>1. h.seq = f.seq /\ f \in arrived' \ {h} /\ f.id = h.id
            BY <1>3, <3>2, <5>2
          <6>2. CASE x = "bad"
            BY <1>6, <4>3, <5>2, <6>2 DEF was
          <6>3. CASE x # "bad"
            BY <1>4, <5>2, <6>1, <6>3
          <6> QED BY <6>2, <6>3
        <5>3. CASE h.id = r /\ h \notin same
          BY <1>6, <4>3, <5>3 DEF was
        <5> QED BY <5>1, <5>2, <5>3
      <4>4. CASE h \in replaced /\ \E g \in arrived \ {h} : g.id = h.id /\ g.seq = h.seq
        BY <1>3, <1>4, <4>4
      <4> QED BY <4>2, <4>3, <4>4
    <3> QED BY <3>1, <3>2
  <2>2. /\ \A j \in Recognitions : j.device = Recorder[j.id]
        /\ \A j, k \in Recognitions : j # k /\ j.id = k.id => j.id \in late'
    BY <1>1, <1>10 DEF NothingCut
  <2> QED BY <1>7, <2>1, <2>2 DEF NothingCut, IsEnd
<1>15. BufferTaken'
  <2> SUFFICES ASSUME NEW s \in known', Ended(s)'
               PROVE  s \in Scheduled \cup late'
    BY <1>7 DEF BufferTaken
  <2>1. Ended(s)
    BY <1>3
  <2>2. s \in known \/ s = r
    BY <1>4
  <2> QED BY <1>1, <1>10, <2>1, <2>2 DEF BufferTaken
<1>16. Placed'
  <2>1. ASSUME NEW s \in StreamId
        PROVE  /\ streams'[s] # {} => s \in known'
               /\ OneOfEach(streams'[s])
               /\ \A g \in streams'[s] : g \in arrived' /\ g.id = s
    <3>1. CASE s # r
      BY <1>1, <1>3, <1>4, <1>6, <3>1 DEF Placed
    <3>2. CASE s = r
      <4>1. OneOfEach(streams'[r])
        BY <1>6, <1>8 DEF OneOfEach
      <4> QED BY <1>3, <1>4, <1>6, <1>8, <3>2, <4>1
    <3> QED BY <3>1, <3>2
  <2> QED BY <1>1, <1>3, <1>7, <2>1 DEF Placed, OneOfEach
<1>17. ByAnEnd'
  <2>1. \A i \in DOMAIN tasks :
          /\ tasks[i].device = Recorder[tasks[i].id]
          /\ \E g \in arrived' : g.id = tasks[i].id /\ IsEnd(g)
    BY <1>1, <1>3 DEF ByAnEnd, Ended
  <2>2. ASSUME NEW j \in Recognitions
        PROVE  Ended(j.id)' /\ (j.id \in known' => j.id \in late')
    BY <1>1, <1>3, <1>4, <1>10 DEF ByAnEnd
  <2> QED BY <1>2, <1>7, <2>1, <2>2 DEF ByAnEnd, Ended
<1> QED BY <1>11, <1>13, <1>14, <1>15, <1>16, <1>17 DEF UploadInd, UploadInv

\* The end of a recording keeps the invariant, also when it comes again.
LEMMA FinishKeeps ==
  ASSUME UploadInd, NEW r \in StreamId, NEW f \in FramesOf(r), FinishArrives(f)
  PROVE  UploadInd'
<1> DEFINE T == [device : Device, id : StreamId]
           t == [device |-> Recorder[r], id |-> r]
           n == Len(tasks)
<1>1. UploadTypeOK /\ ChunkOnce /\ NothingCut /\ BufferTaken /\ Placed /\ ByAnEnd
  BY DEF UploadInd, UploadInv
<1>2. /\ Comes(f) /\ IsEnd(f)
      /\ tasks' = Append(tasks, [device |-> Recorder[f.id], id |-> f.id])
      /\ UNCHANGED <<streams, known, jobs, transcripts, failed, useless, replaced, late, bad>>
  BY DEF FinishArrives, history
<1>3. /\ f \in Frame /\ f.id = r /\ f \notin arrived
      /\ arrived' = arrived \cup {f} /\ arrived' \subseteq Frame
      /\ repeats' \in 0..MaxRepeats
      /\ \A s : Ended(s)' <=> Ended(s) \/ s = r
  BY <1>1, <1>2, FrameIs
<1>4. /\ tasks' \in Seq(T) /\ DOMAIN tasks = 1..n /\ DOMAIN tasks' = 1..n + 1 /\ n \in Nat
      /\ tasks'[n + 1] = t
      /\ \A i \in 1..n : tasks'[i] = tasks[i]
  <2>1. tasks \in Seq(T) /\ t \in T
    BY <1>1, RecorderAssumption DEF UploadTypeOK
  <2>2. tasks' = Append(tasks, t)
    BY <1>2, <1>3
  <2> HIDE DEF T, t
  <2> QED BY <2>1, <2>2, Joined
<1>5. t.device = Recorder[r] /\ t.id = r
  OBVIOUS
<1> HIDE DEF n, t
<1>6. \A i \in DOMAIN tasks' : (i \in DOMAIN tasks /\ tasks'[i] = tasks[i]) \/ tasks'[i] = t
  BY <1>4
<1>7. Recognitions' = Recognitions /\ Scheduled' = Scheduled \cup {r}
  <2>1. Scheduled \subseteq Scheduled'
    BY <1>4 DEF Scheduled
  <2>2. r \in Scheduled'
    BY <1>4, <1>5 DEF Scheduled
  <2>3. Scheduled' \subseteq Scheduled \cup {r}
    BY <1>5, <1>6 DEF Scheduled
  <2> QED BY <1>2, <2>1, <2>2, <2>3 DEF Recognitions
<1>8. UploadTypeOK'
  BY <1>1, <1>2, <1>3, <1>4 DEF UploadTypeOK
<1>9. ChunkOnce'
  BY <1>1, <1>2, <1>7 DEF ChunkOnce
<1>10. NothingCut'
  <2>1. ASSUME NEW h \in arrived' \ useless, ~IsEnd(h)
        PROVE  \/ h \in streams[h.id]
               \/ \E j \in Recognitions : h \in j.audio /\ j.id = h.id
               \/ h \in replaced /\ \E g \in arrived' \ {h} : g.id = h.id /\ g.seq = h.seq
    BY <1>1, <1>2, <1>3, <2>1 DEF NothingCut
  <2> QED BY <1>1, <1>2, <1>7, <2>1 DEF NothingCut, IsEnd
<1>11. BufferTaken'
  BY <1>1, <1>2, <1>3, <1>7 DEF BufferTaken
<1>12. Placed'
  BY <1>1, <1>2, <1>3, <1>7 DEF Placed, OneOfEach
<1>13. ByAnEnd'
  <2>1. \A i \in DOMAIN tasks' :
          /\ tasks'[i].device = Recorder[tasks'[i].id]
          /\ \E g \in arrived' : g.id = tasks'[i].id /\ IsEnd(g)
    BY <1>1, <1>2, <1>3, <1>5, <1>6 DEF ByAnEnd, Ended
  <2>2. \A k \in Recognitions : Ended(k.id)' /\ (k.id \in known => k.id \in late)
    BY <1>1, <1>3 DEF ByAnEnd
  <2> QED BY <1>2, <1>7, <2>1, <2>2 DEF ByAnEnd, Ended
<1> QED BY <1>8, <1>9, <1>10, <1>11, <1>12, <1>13 DEF UploadInd, UploadInv

\* Taking a buffer to the recognizer keeps the invariant.
LEMMA TranscribeKeeps ==
  ASSUME UploadInd, Transcribe
  PROVE  UploadInd'
<1> DEFINE T == [device : Device, id : StreamId]
           t == Head(tasks)
           r == t.id
           n == Len(tasks) - 1
           a == streams[r]
           J == [device |-> t.device, id |-> r, audio |-> a]
<1>1. UploadTypeOK /\ ChunkOnce /\ NothingCut /\ BufferTaken /\ Placed /\ ByAnEnd
  BY DEF UploadInd, UploadInv
<1>2. /\ tasks # <<>> /\ tasks' = Tail(tasks) /\ Take(r)
      /\ jobs' = IF r \in known /\ a # {} THEN jobs \cup {J} ELSE jobs
      /\ UNCHANGED <<arrived, transcripts, failed, useless, replaced, late, repeats, bad>>
  BY DEF Transcribe, history
<1>3. /\ t \in T /\ t = tasks[1] /\ n \in Nat
      /\ tasks' \in Seq(T) /\ DOMAIN tasks = 1..n + 1 /\ DOMAIN tasks' = 1..n
      /\ \A i \in 1..n : tasks'[i] = tasks[i + 1]
  <2>1. tasks \in Seq(T)
    BY <1>1 DEF UploadTypeOK
  <2> HIDE DEF T
  <2> QED BY <1>2, <2>1, FirstTaken
<1> HIDE DEF t, n
<1>4. r \in StreamId /\ t.device \in Device
  BY <1>3
<1>5. t.device = Recorder[r] /\ Ended(r)
  <2>1. 1 \in DOMAIN tasks
    BY <1>3
  <2> QED BY <1>1, <1>3, <2>1 DEF ByAnEnd
<1> HIDE DEF r
<1>6. \A i \in DOMAIN tasks' : i + 1 \in DOMAIN tasks /\ tasks'[i] = tasks[i + 1]
  BY <1>3
<1>7. Scheduled \subseteq Scheduled' \cup {r}
  <2> SUFFICES ASSUME NEW i \in DOMAIN tasks, tasks[i].id # r
               PROVE  tasks[i].id \in Scheduled'
    BY DEF Scheduled
  <2>1. i # 1
    BY <1>3 DEF r
  <2>2. i - 1 \in DOMAIN tasks' /\ tasks'[i - 1] = tasks[i]
    BY <1>3, <2>1
  <2> QED BY <2>2 DEF Scheduled
<1>8. /\ known' = known \ {r}
      /\ streams' \in [StreamId -> SUBSET Frame]
      /\ \A s \in StreamId \ {r} : streams'[s] = streams[s]
      /\ streams'[r] = {}
  <2>1. streams \in [StreamId -> SUBSET Frame]
    BY <1>1 DEF UploadTypeOK
  <2>2. streams' = [streams EXCEPT ![r] = {}] /\ known' = known \ {r}
    BY <1>2 DEF Take
  <2> QED BY <1>4, <2>1, <2>2
<1>9. /\ J \in Job /\ J.id = r /\ J.audio = a /\ J.device = t.device
      /\ \A g \in a : g \in arrived /\ g.id = r
      /\ OneOfEach(a) /\ (a # {} => r \in known)
  <2>1. a \subseteq Frame
    BY <1>1, <1>4 DEF UploadTypeOK
  <2>2. /\ \A g \in a : g \in arrived /\ g.id = r
        /\ OneOfEach(a) /\ (a # {} => r \in known)
    BY <1>1, <1>4 DEF Placed
  <2> QED BY <1>4, <2>1, <2>2 DEF Job
<1>10. UploadTypeOK'
  BY <1>1, <1>2, <1>3, <1>8, <1>9 DEF UploadTypeOK
<1>11. \A j \in Recognitions : j.id \in StreamId
  BY <1>1 DEF UploadTypeOK, Recognitions, Job
<1> HIDE DEF J
<1>12. Recognitions' = IF a # {} THEN Recognitions \cup {J} ELSE Recognitions
  BY <1>2, <1>9 DEF Recognitions
<1>13. \A j \in Recognitions : j.id = r => j.audio \cap a = {}
  BY <1>1 DEF ChunkOnce
<1>14. \A j \in Recognitions : \A g \in j.audio : g.id = j.id
  BY <1>1 DEF Placed
<1>15. ASSUME a # {}
       PROVE  \A j \in Recognitions : j # J /\ j.audio \cap J.audio = {} /\ (j.id = r => r \in late)
  <2> SUFFICES ASSUME NEW j \in Recognitions
               PROVE  j # J /\ j.audio \cap J.audio = {} /\ (j.id = r => r \in late)
    OBVIOUS
  <2>1. j.audio \cap a = {}
    BY <1>9, <1>13, <1>14
  <2>2. j.id = r => r \in late
    BY <1>1, <1>9, <1>15 DEF ByAnEnd
  <2> QED BY <1>9, <1>15, <2>1, <2>2
<1> HIDE DEF a
<1>16. ASSUME NEW j \in Recognitions'
       PROVE  j \in Recognitions \/ (a # {} /\ j = J)
  BY <1>12
<1>17. ChunkOnce'
  <2>1. ASSUME NEW j \in Recognitions', NEW k \in Recognitions', j # k
        PROVE  j.audio \cap k.audio = {}
    <3>1. CASE j \in Recognitions /\ k \in Recognitions
      BY <1>1, <2>1, <3>1 DEF ChunkOnce
    <3>2. CASE a # {} /\ j = J
      BY <1>15, <1>16, <2>1, <3>2
    <3>3. CASE a # {} /\ k = J
      BY <1>15, <1>16, <2>1, <3>3
    <3> QED BY <1>16, <3>1, <3>2, <3>3
  <2>2. ASSUME NEW j \in Recognitions'
        PROVE  streams'[j.id] \cap j.audio = {} /\ OneOfEach(j.audio)
    <3>1. CASE j \in Recognitions
      BY <1>1, <1>8, <1>11, <3>1 DEF ChunkOnce
    <3>2. CASE j = J
      BY <1>8, <1>9, <3>2
    <3> QED BY <1>16, <3>1, <3>2
  <2>3. jobs' \cap (transcripts \cup failed) = {} /\ transcripts \cap failed = {}
    <3>1. CASE a # {}
      BY <1>1, <1>2, <1>15, <3>1 DEF ChunkOnce, Recognitions
    <3>2. CASE a = {}
      BY <1>1, <1>2, <3>2 DEF ChunkOnce
    <3> QED BY <3>1, <3>2
  <2> QED BY <1>2, <2>1, <2>2, <2>3 DEF ChunkOnce, OneOfEach
<1>18. NothingCut'
  <2>1. ASSUME NEW h \in arrived \ useless, ~IsEnd(h)
        PROVE  \/ h \in streams'[h.id]
               \/ \E j \in Recognitions' : h \in j.audio /\ j.id = h.id
               \/ h \in replaced /\ \E g \in arrived \ {h} : g.id = h.id /\ g.seq = h.seq
    <3>1. h.id \in StreamId
      BY <1>1 DEF UploadTypeOK, Frame
    <3>2. \/ h \in streams[h.id]
          \/ \E j \in Recognitions : h \in j.audio /\ j.id = h.id
          \/ h \in replaced /\ \E g \in arrived \ {h} : g.id = h.id /\ g.seq = h.seq
      BY <1>1, <2>1 DEF NothingCut
    <3>3. CASE h \in streams[h.id] /\ h.id # r
      BY <1>8, <3>1, <3>3
    <3>4. CASE h \in streams[h.id] /\ h.id = r
      <4>1. h \in a /\ J \in Recognitions' /\ J.audio = a /\ J.id = r
        BY <1>9, <1>12, <3>4 DEF a
      <4> QED BY <3>4, <4>1
    <3> QED BY <1>12, <3>2, <3>3, <3>4
  <2>2. ASSUME NEW j \in Recognitions'
        PROVE  j.device = Recorder[j.id]
    BY <1>1, <1>5, <1>9, <1>16 DEF NothingCut
  <2>3. ASSUME NEW j \in Recognitions', NEW k \in Recognitions', j # k, j.id = k.id
        PROVE  j.id \in late
    <3>1. CASE j \in Recognitions /\ k \in Recognitions
      BY <1>1, <2>3, <3>1 DEF NothingCut
    <3>2. CASE a # {} /\ (j = J \/ k = J)
      BY <1>9, <1>15, <1>16, <2>3, <3>2
    <3> QED BY <1>16, <3>1, <3>2
  <2> QED BY <1>2, <2>1, <2>2, <2>3 DEF NothingCut
<1>19. BufferTaken'
  <2>1. \A s : Ended(s)' <=> Ended(s)
    BY <1>2 DEF Ended
  <2> QED BY <1>1, <1>2, <1>7, <1>8, <2>1 DEF BufferTaken
<1>20. Placed'
  <2>1. ASSUME NEW s \in StreamId
        PROVE  /\ streams'[s] # {} => s \in known'
               /\ OneOfEach(streams'[s])
               /\ \A g \in streams'[s] : g \in arrived /\ g.id = s
    <3>1. CASE s # r
      BY <1>1, <1>8, <3>1 DEF Placed
    <3>2. CASE s = r
      BY <1>8, <3>2 DEF OneOfEach
    <3> QED BY <3>1, <3>2
  <2>2. ASSUME NEW j \in Recognitions'
        PROVE  j.audio # {} /\ \A g \in j.audio : g \in arrived /\ g.id = j.id
    BY <1>1, <1>9, <1>16 DEF Placed
  <2> QED BY <1>2, <2>1, <2>2 DEF Placed, OneOfEach
<1>21. ByAnEnd'
  <2>1. \A s : Ended(s)' <=> Ended(s)
    BY <1>2 DEF Ended
  <2>2. \A i \in DOMAIN tasks' :
          /\ tasks'[i].device = Recorder[tasks'[i].id]
          /\ \E g \in arrived : g.id = tasks'[i].id /\ IsEnd(g)
    BY <1>1, <1>6 DEF ByAnEnd, Ended
  <2>3. ASSUME NEW j \in Recognitions'
        PROVE  Ended(j.id)' /\ (j.id \in known' => j.id \in late)
    BY <1>1, <1>5, <1>8, <1>9, <1>16, <2>1 DEF ByAnEnd
  <2> QED BY <1>2, <2>2, <2>3 DEF ByAnEnd, Ended
<1> QED BY <1>10, <1>17, <1>18, <1>19, <1>20, <1>21 DEF UploadInd, UploadInv

\* A recognizer that returns or raises keeps the invariant.
LEMMA RecognizedKeeps ==
  ASSUME UploadInd, NEW j \in jobs, NEW x \in Outcome, Recognized(j, x)
  PROVE  UploadInd'
<1>1. UploadTypeOK /\ ChunkOnce /\ NothingCut /\ BufferTaken /\ Placed /\ ByAnEnd
  BY DEF UploadInd, UploadInv
<1>2. /\ jobs' = jobs \ {j}
      /\ \/ transcripts' = transcripts \cup {j} /\ failed' = failed
         \/ transcripts' = transcripts /\ failed' = failed \cup {j}
      /\ UNCHANGED <<arrived, streams, known, tasks, useless, replaced, late, repeats, bad>>
  BY DEF Recognized
<1>3. j \in Job
  BY <1>1 DEF UploadTypeOK
<1>4. Recognitions' = Recognitions /\ Scheduled' = Scheduled /\ \A s : Ended(s)' <=> Ended(s)
  BY <1>2 DEF Recognitions, Scheduled, Ended
<1>5. UploadTypeOK'
  BY <1>1, <1>2, <1>3 DEF UploadTypeOK
<1>6. jobs' \cap (transcripts' \cup failed') = {} /\ transcripts' \cap failed' = {}
  BY <1>1, <1>2 DEF ChunkOnce
<1>7. ChunkOnce'
  BY <1>1, <1>2, <1>4, <1>6 DEF ChunkOnce, OneOfEach
<1>8. NothingCut' /\ BufferTaken'
  BY <1>1, <1>2, <1>4 DEF NothingCut, BufferTaken, IsEnd
<1>9. Placed' /\ ByAnEnd'
  BY <1>1, <1>2, <1>4 DEF Placed, ByAnEnd, OneOfEach
<1> QED BY <1>5, <1>7, <1>8, <1>9 DEF UploadInd, UploadInv

\* A step of the agents leaves the recordings alone.
LEMMA OthersKeep ==
  ASSUME UploadInd, UNCHANGED upload
  PROVE  UploadInd'
<1>1. UNCHANGED <<arrived, streams, known, tasks, jobs, transcripts, failed, useless, replaced, late, repeats, bad>>
  BY DEF upload, history
<1>2. Recognitions' = Recognitions /\ Scheduled' = Scheduled /\ \A s : Ended(s)' <=> Ended(s)
  BY <1>1 DEF Recognitions, Scheduled, Ended
<1>3. UploadTypeOK' /\ ChunkOnce'
  BY <1>1, <1>2 DEF UploadInd, UploadInv, UploadTypeOK, ChunkOnce, OneOfEach
<1>4. NothingCut' /\ BufferTaken'
  BY <1>1, <1>2 DEF UploadInd, UploadInv, NothingCut, BufferTaken, IsEnd
<1>5. Placed' /\ ByAnEnd'
  BY <1>1, <1>2 DEF UploadInd, Placed, ByAnEnd, OneOfEach
<1> QED BY <1>3, <1>4, <1>5 DEF UploadInd, UploadInv

\* The invariant holds before anything is recorded.
LEMMA UploadStart ==
  ASSUME UploadInit
  PROVE  UploadInd
<1>1. Recognitions = {}
  BY DEF UploadInit, Recognitions
<1>2. UploadTypeOK
  BY UploadAssumption DEF UploadInit, UploadTypeOK
<1>3. ChunkOnce /\ NothingCut /\ BufferTaken
  BY <1>1 DEF UploadInit, ChunkOnce, NothingCut, BufferTaken
<1>4. Placed /\ ByAnEnd
  BY <1>1 DEF UploadInit, Placed, ByAnEnd, OneOfEach
<1> QED BY <1>2, <1>3, <1>4 DEF UploadInd, UploadInv

\* Every step of a recording keeps the invariant.
LEMMA UploadStep ==
  ASSUME UploadInd, UploadNext
  PROVE  UploadInd'
<1>1. ASSUME NEW r \in StreamId, NEW f \in FramesOf(r), FinishArrives(f)
      PROVE  UploadInd'
  BY <1>1, FinishKeeps
<1>2. ASSUME NEW r \in StreamId, NEW f \in FramesOf(r), NEW x \in {"good", "short", "bad"}, ChunkArrives(f, x)
      PROVE  UploadInd'
  BY <1>2, ChunkKeeps
<1>3. ASSUME Transcribe
      PROVE  UploadInd'
  BY <1>3, TranscribeKeeps
<1>4. ASSUME NEW j \in jobs, NEW x \in Outcome, Recognized(j, x)
      PROVE  UploadInd'
  BY <1>4, RecognizedKeeps
<1> QED BY <1>1, <1>2, <1>3, <1>4 DEF UploadNext, Buffering

\* A recording keeps its invariant beside the agents that answer it.
THEOREM UploadInductive == VoiceSpec => []UploadInd
<1>1. VoiceInit => UploadInd
  BY UploadStart DEF VoiceInit
<1>2. UploadInd /\ [VoiceNext]_all => UploadInd'
  <2> SUFFICES ASSUME UploadInd, [VoiceNext]_all
               PROVE  UploadInd'
    OBVIOUS
  <2>1. CASE UNCHANGED all
    BY <2>1, OthersKeep DEF all
  <2>2. CASE Buffering
    BY <2>2, UploadStep DEF UploadNext
  <2>3. CASE HeardElsewhere
    BY <2>3, UploadStep DEF HeardElsewhere, UploadNext
  <2>4. CASE Heard
    BY <2>4, UploadStep DEF Heard, UploadNext, Outcome
  <2>5. CASE UNCHANGED upload
    BY <2>5, OthersKeep
  <2> QED BY <2>1, <2>2, <2>3, <2>4, <2>5 DEF VoiceNext
<1> QED BY <1>1, <1>2, PTL DEF VoiceSpec

\* No sound is recognized twice, no chunk that arrived is cut unless a copy of it
\* took its place, and no buffer is forgotten, whatever order frames come in and
\* however often: for any number of devices, recordings and frames.
THEOREM RecordedOnce == VoiceSpec => []UploadInv
<1>1. UploadInd => UploadInv
  BY DEF UploadInd
<1> QED BY <1>1, UploadInductive, PTL

-----------------------------------------------------------------------------
(* The texts of the agents.                                                *)

\* What the constants of the turns are assumed to be.
LEMMA Questions ==
  /\ DeviceOf \in [Turn -> Device] /\ ReplyLen \in [Turn -> Nat \ {0}] /\ Spoken \subseteq Turn
  /\ \A t \in Spoken : \A u \in Turn \ {t} : KeyOf[t] # KeyOf[u]
  /\ \A t \in Turn : KeyOf[t] \in Key
  /\ None \notin Turn /\ Backend \subseteq BackendName
  /\ MaxRecords \in Nat \ {0} /\ MaxAsked \in Nat /\ MaxIdle \in Nat /\ MaxFaults \in Nat
BY TurnAssumption, BackendAssumption, BoundAssumption DEF Key

\* A text is a sequence of words.
LEMMA ReplyTyped ==
  ASSUME NEW t \in Turn, NEW n \in 0..ReplyLen[t]
  PROVE  /\ Reply(t, n) \in Seq(Word)
         /\ n \in Nat /\ (n > 0 => Reply(t, n) # <<>> /\ <<<<t, n>>>> \in Seq(Word))
<1>1. ReplyLen[t] \in Nat /\ n \in Nat
  BY Questions
<1>2. \A i \in 1..ReplyLen[t] : <<t, i>> \in Word
  BY DEF Word, WordsOf
<1>3. \A i \in 1..n : <<t, i>> \in Word
  BY <1>1, <1>2
<1>4. Reply(t, n) \in [1..n -> Word]
  BY <1>3 DEF Reply
<1>5. Reply(t, n) \in Seq(Word) /\ Len(Reply(t, n)) = n
  BY <1>1, <1>4
<1>6. n > 0 => <<t, n>> \in Word
  BY <1>1, <1>3
<1> QED BY <1>1, <1>5, <1>6, EmptySeq

\* What is left of a text is a text.
LEMMA RemainingTyped ==
  ASSUME NEW done \in Seq(Word), NEW text \in Seq(Word)
  PROVE  Remaining(done, text) \in Seq(Word)
<1>1. CASE IsPrefix(done, text)
  <2>1. Len(done) \in Nat /\ Len(text) \in Nat /\ Len(done) <= Len(text)
    BY <1>1, LenProperties DEF IsPrefix
  <2>2. SubSeq(text, Len(done) + 1, Len(text)) \in Seq(Word)
    BY <2>1, PartOf
  <2> QED BY <2>2 DEF Remaining
<1>2. CASE ~IsPrefix(done, text)
  BY <1>2 DEF Remaining
<1> QED BY <1>1, <1>2

\* A text that grows is a text, and not an empty one.
LEMMA ExtendedTyped ==
  ASSUME NEW done \in Seq(Word), NEW text \in Seq(Word), text # <<>>
  PROVE  Extended(done, text) \in Seq(Word) /\ Extended(done, text) # <<>>
<1>1. done \o text \in Seq(Word) /\ done \o text # <<>>
  BY ConcatProperties, ConcatEqualIffEmpty
<1> QED BY <1>1 DEF Extended

\* The last delta of an event ends the stream, or the event has no delta.
Shut(chunks) == LET D == Deltas(chunks) IN D # <<>> /\ D[Len(D)].final

\* An event without a delta.
Quiet(chunks) == Deltas(chunks) = <<>>

\* Chunks of which two at most are deltas.
Chunked(chunks) ==
  /\ chunks \in Seq(ChunkType) /\ Deltas(chunks) \in Seq(ChunkType)
  /\ Len(Deltas(chunks)) \in 0..2

\* Chunks that are all deltas, of which one event has two at most.
LEMMA AllDeltas ==
  ASSUME NEW x \in Seq(ChunkType), Deltas(x) = x, Len(x) \in 0..2
  PROVE  Chunked(x)
<1> DEFINE D == Deltas(x)
<1>1. D = x
  OBVIOUS
<1> HIDE DEF D
<1>2. D \in Seq(ChunkType) /\ Len(D) \in 0..2
  BY <1>1
<1> QED BY <1>2 DEF Chunked, D

\* An event yields nothing.
LEMMA YieldsNone ==
  Chunked(<<>>) /\ Quiet(<<>>) /\ ~Shut(<<>>)
<1>1. Deltas(<<>>) = <<>>
  BY DEF Deltas
<1>2. <<>> \in Seq(ChunkType) /\ Len(<<>>) = 0
  BY EmptySeq
<1>3. Chunked(<<>>)
  <2> DEFINE n == <<>>
  <2>1. n \in Seq(ChunkType) /\ Deltas(n) = n /\ Len(n) \in 0..2
    BY <1>1, <1>2
  <2> HIDE DEF n
  <2>2. Chunked(n)
    BY <2>1, AllDeltas
  <2> QED BY <2>2 DEF n
<1>4. Quiet(<<>>)
  BY <1>1 DEF Quiet
<1>5. ~Shut(<<>>)
  BY <1>1 DEF Shut
<1> QED BY <1>3, <1>4, <1>5

\* An event yields a note on progress.
LEMMA YieldsNote ==
  Chunked(<<Working>>) /\ Quiet(<<Working>>)
<1>1. Deltas(<<Working>>) = <<>>
  BY DEF Deltas
<1>2. Working \in ChunkType
  BY EmptySeq DEF Working, ChunkType
<1>3. <<Working>> \in Seq(ChunkType)
  BY <1>2
<1> QED BY <1>1, <1>3, EmptySeq DEF Chunked, Quiet

\* An event yields a text.
LEMMA YieldsOne ==
  ASSUME NEW x \in Seq(Word), NEW f \in BOOLEAN
  PROVE  /\ Chunked(<<Chunk(x, f)>>) /\ ~Quiet(<<Chunk(x, f)>>)
         /\ Shut(<<Chunk(x, f)>>) <=> f
<1> DEFINE c == Chunk(x, f)
<1>1. c \in ChunkType /\ c.final = f /\ c.progress = FALSE
  BY DEF Chunk, ChunkType
<1>2. Working.progress = TRUE
  BY DEF Working
<1> HIDE DEF c
<1>3. <<c>> # <<Working>>
  BY <1>1, <1>2
<1>4. Deltas(<<c>>) = <<c>>
  BY <1>3 DEF Deltas
<1>5. <<c>> \in Seq(ChunkType) /\ Len(<<c>>) = 1 /\ <<c>>[1] = c /\ <<c>> # <<>>
  BY <1>1
<1>8. Chunked(<<c>>)
  <2> DEFINE n == <<c>>
  <2>1. n \in Seq(ChunkType) /\ Deltas(n) = n /\ Len(n) \in 0..2
    BY <1>4, <1>5
  <2> HIDE DEF n
  <2>2. Chunked(n)
    BY <2>1, AllDeltas
  <2> QED BY <2>2 DEF n
<1>6. Chunked(<<c>>) /\ ~Quiet(<<c>>)
  BY <1>4, <1>5, <1>8 DEF Quiet
<1>7. Shut(<<c>>) <=> f
  BY <1>1, <1>4, <1>5 DEF Shut
<1> QED BY <1>6, <1>7 DEF c

\* An event yields what is left of a text, if anything is.
LEMMA YieldsRest ==
  ASSUME NEW x \in Seq(Word), NEW f \in BOOLEAN
  PROVE  LET n == NonEmpty(x, f) IN
         /\ Chunked(n) /\ (Quiet(n) <=> x = <<>>) /\ (Shut(n) <=> x # <<>> /\ f)
<1>1. CASE x = <<>>
  BY <1>1, YieldsNone DEF NonEmpty
<1>2. CASE x # <<>>
  BY <1>2, YieldsOne DEF NonEmpty
<1> QED BY <1>1, <1>2

\* An event yields two deltas.
LEMMA YieldsTwo ==
  ASSUME NEW c \in ChunkType, NEW e \in ChunkType
  PROVE  /\ Chunked(Append(<<c>>, e))
         /\ e.final => Shut(Append(<<c>>, e))
<1> DEFINE T == ChunkType
           one == <<c>>
           n == Append(one, e)
<1>1. one \in Seq(T) /\ Len(one) = 1 /\ e \in T
  OBVIOUS
<1> HIDE DEF one, T
<1>2. /\ n \in Seq(T) /\ Len(n) = Len(one) + 1
      /\ n[Len(one) + 1] = e
  BY ZenonT(60), <1>1, AppendProperties
<1>3. Len(n) = 2 /\ n[2] = e /\ n # <<>>
  BY <1>1, <1>2, EmptySeq
<1> HIDE DEF n
<1>7. Len(<<Working>>) = 1
  OBVIOUS
<1>4. Deltas(n) = n
  BY <1>7, <1>3 DEF Deltas
<1>5. Chunked(n)
  BY <1>2, <1>3, <1>4, AllDeltas DEF T
<1>6. e.final => Shut(n)
  BY <1>2, <1>3, <1>4 DEF Shut
<1> QED BY <1>5, <1>6 DEF n, one

\* An event yields the rest of a text and the end of the stream.
LEMMA YieldsEnd ==
  ASSUME NEW x \in Seq(Word)
  PROVE  LET n == Append(NonEmpty(x, TRUE), Chunk(<<>>, TRUE)) IN Chunked(n) /\ Shut(n)
<1> DEFINE e == Chunk(<<>>, TRUE)
           c == Chunk(x, TRUE)
<1>1. <<>> \in Seq(Word)
  BY EmptySeq
<1>2. e \in ChunkType /\ e.final = TRUE
  BY <1>1 DEF Chunk, ChunkType
<1>3. CASE x = <<>>
  <2>1. Append(NonEmpty(x, TRUE), e) = <<e>>
    BY <1>3 DEF NonEmpty
  <2> QED BY <2>1, <1>1, YieldsOne
<1>4. CASE x # <<>>
  <2>1. c \in ChunkType
    BY DEF Chunk, ChunkType
  <2>2. NonEmpty(x, TRUE) = <<c>>
    BY <1>4 DEF NonEmpty
  <2> HIDE DEF c, e
  <2> QED BY <1>2, <2>1, <2>2, YieldsTwo DEF e
<1> QED BY <1>3, <1>4 DEF e

-----------------------------------------------------------------------------
(* The backends.                                                            *)

\* What an event makes a generator yield: with its last event it closes the
\* stream it opened, or has not opened one.
Contract(b, g, y) ==
  /\ y.gen \in Gen /\ y.end \in {"on", "done", "fail", "crash"} /\ Chunked(y.chunks)
  /\ b # "openclaw" /\ y.end = "on" =>
       \/ Shut(y.chunks) \/ WillClose(b, y.gen)
       \/ Quiet(y.chunks) /\ ~WillClose(b, g)
  /\ b \notin {"openclaw", "cli"} /\ y.end = "done" =>
       Shut(y.chunks) \/ (Quiet(y.chunks) /\ ~WillClose(b, g))

\* An event of an agent: its text, and none when it should have one.
EventOf(b, e) ==
  /\ e.kind \in Kinds(b) \ {"fail", "crash"} /\ e.text \in Seq(Word)
  /\ e.kind \in {"delta", "snapshot"} => e.text # <<>>

\* A Pi process keeps the contract: its text is what its end will close.
LEMMA PiContract ==
  ASSUME NEW g \in Gen, NEW e, EventOf("pi", e)
  PROVE  Contract("pi", g, PiStep(g, e))
<1> DEFINE y == PiStep(g, e)
           r == Remaining(g.sent, e.text)
<1>1. /\ g.sent \in Seq(Word) /\ g.text \in Seq(Word) /\ g.told \in BOOLEAN
      /\ e.text \in Seq(Word)
      /\ e.kind \in {"delta", "snapshot", "end", "blank end", "progress", "eof"}
      /\ e.kind \in {"delta", "snapshot"} => e.text # <<>>
  BY DEF Gen, EventOf, Kinds
<1>2. r \in Seq(Word)
  BY <1>1, RemainingTyped
<1> HIDE DEF r
<1>3. CASE e.kind = "delta"
  <2> DEFINE to == Extended(g.sent, e.text)
  <2>1. to \in Seq(Word) /\ to # <<>>
    BY <1>1, <1>3, ExtendedTyped
  <2>2. y = Yield([g EXCEPT !.sent = to, !.text = to], NonEmpty(r, FALSE), "on")
    BY <1>3 DEF PiStep, r
  <2> HIDE DEF to, y
  <2>3. y.gen = [g EXCEPT !.sent = to, !.text = to] /\ y.chunks = NonEmpty(r, FALSE) /\ y.end = "on"
    BY <2>2 DEF Yield
  <2>4. y.gen \in Gen /\ y.gen.text = to
    BY <1>1, <2>1, <2>3 DEF Gen
  <2>5. Chunked(y.chunks)
    BY <1>2, <2>3, YieldsRest
  <2>6. WillClose("pi", y.gen)
    BY <2>1, <2>4 DEF WillClose
  <2> QED BY <2>3, <2>4, <2>5, <2>6 DEF Contract, y
<1>4. CASE e.kind = "snapshot"
  <2>2. y = Yield([g EXCEPT !.sent = e.text, !.text = e.text], NonEmpty(r, FALSE), "on")
    BY <1>4 DEF PiStep, r
  <2> HIDE DEF y
  <2>3. y.gen = [g EXCEPT !.sent = e.text, !.text = e.text] /\ y.chunks = NonEmpty(r, FALSE) /\ y.end = "on"
    BY <2>2 DEF Yield
  <2>4. y.gen \in Gen /\ y.gen.text = e.text
    BY <1>1, <2>3 DEF Gen
  <2>5. Chunked(y.chunks)
    BY <1>2, <2>3, YieldsRest
  <2>6. WillClose("pi", y.gen)
    BY <1>1, <1>4, <2>4 DEF WillClose
  <2> QED BY <2>3, <2>4, <2>5, <2>6 DEF Contract, y
<1>5. CASE e.kind = "end"
  <2>2. y = Yield([sent |-> e.text, text |-> e.text, told |-> TRUE],
                        Append(NonEmpty(r, TRUE), Chunk(<<>>, TRUE)), "done")
    BY <1>5 DEF PiStep, r
  <2> HIDE DEF y
  <2>1. y.gen = [sent |-> e.text, text |-> e.text, told |-> TRUE]
    BY <2>2 DEF Yield
  <2>3. y.chunks = Append(NonEmpty(r, TRUE), Chunk(<<>>, TRUE)) /\ y.end = "done"
    BY <2>2 DEF Yield
  <2>4. y.gen \in Gen
    <3>1. [sent |-> e.text, text |-> e.text, told |-> TRUE] \in Gen
      BY <1>1 DEF Gen
    <3> QED BY <2>1, <3>1
  <2>5. Chunked(y.chunks) /\ Shut(y.chunks)
    BY <1>2, <2>3, YieldsEnd
  <2> QED BY <2>3, <2>4, <2>5 DEF Contract, y
<1>6. CASE e.kind = "blank end" /\ g.sent # <<>>
  <2>2. y = Yield([g EXCEPT !.told = TRUE], <<Chunk(<<>>, TRUE)>>, "done")
    BY <1>6 DEF PiStep
  <2> HIDE DEF y
  <2>3. y.gen = [g EXCEPT !.told = TRUE] /\ y.chunks = <<Chunk(<<>>, TRUE)>> /\ y.end = "done"
    BY <2>2 DEF Yield
  <2>4. y.gen \in Gen
    BY <1>1, <2>3 DEF Gen
  <2>5. Chunked(y.chunks) /\ Shut(y.chunks)
    BY <2>3, YieldsOne, EmptySeq
  <2> QED BY <2>3, <2>4, <2>5 DEF Contract, y
<1>7. CASE e.kind = "blank end" /\ g.sent = <<>>
  <2>2. y = Yield(g, <<>>, "on")
    BY <1>7 DEF PiStep
  <2> HIDE DEF y
  <2>3. y.gen = g /\ y.chunks = <<>> /\ y.end = "on"
    BY <2>2 DEF Yield
  <2> QED BY <2>3, YieldsNone DEF Contract, y
<1>8. CASE e.kind = "progress"
  <2>2. y = Yield(g, <<Working>>, "on")
    BY <1>8 DEF PiStep
  <2> HIDE DEF y
  <2>3. y.gen = g /\ y.chunks = <<Working>> /\ y.end = "on"
    BY <2>2 DEF Yield
  <2> QED BY <2>3, YieldsNote DEF Contract, y
<1>9. CASE e.kind = "eof"
  <2>2. y = Yield(g, NonEmpty(g.text, TRUE), "done")
    BY <1>9 DEF PiStep
  <2> HIDE DEF y
  <2>3. y.gen = g /\ y.chunks = NonEmpty(g.text, TRUE) /\ y.end = "done"
    BY <2>2 DEF Yield
  <2>4. Chunked(y.chunks) /\ (Quiet(y.chunks) <=> g.text = <<>>) /\ (Shut(y.chunks) <=> g.text # <<>>)
    BY <1>1, <2>3, YieldsRest
  <2>5. WillClose("pi", g) <=> g.text # <<>>
    BY DEF WillClose
  <2> QED BY <2>3, <2>4, <2>5 DEF Contract, y
<1> QED BY <1>1, <1>3, <1>4, <1>5, <1>6, <1>7, <1>8, <1>9

\* OpenClaw keeps it, of which only the types are asked.
LEMMA OpenClawContract ==
  ASSUME NEW g \in Gen, NEW e, EventOf("openclaw", e)
  PROVE  Contract("openclaw", g, OpenClawStep(g, e))
<1> DEFINE y == OpenClawStep(g, e)
           r == Remaining(g.sent, e.text)
<1>1. /\ g.sent \in Seq(Word) /\ g.text \in Seq(Word) /\ g.told \in BOOLEAN
      /\ e.text \in Seq(Word) /\ <<>> \in Seq(Word)
      /\ e.kind \in {"delta", "snapshot", "progress", "accepted", "end"}
      /\ e.kind \in {"delta", "snapshot"} => e.text # <<>>
  BY EmptySeq DEF Gen, EventOf, Kinds
<1>2. r \in Seq(Word) /\ g.sent \o r \in Seq(Word)
  <2>1. r \in Seq(Word)
    BY <1>1, RemainingTyped
  <2> HIDE DEF r
  <2> QED BY <2>1, <1>1, ConcatProperties
<1> HIDE DEF r
<1>3. CASE e.kind \in {"delta", "snapshot"} /\ r = <<>>
  <2>2. y = Yield(g, <<>>, "fail")
    BY <1>3 DEF OpenClawStep, r
  <2> HIDE DEF y
  <2>1. y.gen = g
    BY <2>2 DEF Yield
  <2>3. y.chunks = <<>> /\ y.end = "fail"
    BY <2>2 DEF Yield
  <2>4. y.gen \in Gen
    BY <1>1, <2>1 DEF Gen
  <2>5. Chunked(y.chunks) /\ Quiet(y.chunks)
    BY <1>1, <2>3, YieldsNone
  <2> QED BY <2>1, <2>3, <2>4, <2>5 DEF Contract, y
<1>4. CASE e.kind \in {"delta", "snapshot"} /\ r # <<>>
  <2>2. y = Yield([g EXCEPT !.sent = @ \o r], <<Chunk(r, FALSE)>>, "on")
    BY <1>4 DEF OpenClawStep, r
  <2> HIDE DEF y
  <2>1. y.gen = [g EXCEPT !.sent = @ \o r]
    BY <2>2 DEF Yield
  <2>3. y.chunks = <<Chunk(r, FALSE)>> /\ y.end = "on"
    BY <2>2 DEF Yield
  <2>4. y.gen \in Gen
    BY <1>1, <1>2, <2>1 DEF Gen
  <2>5. Chunked(y.chunks)
    BY <1>2, <2>3, YieldsOne
  <2> QED BY <2>1, <2>3, <2>4, <2>5 DEF Contract, y
<1>5. CASE e.kind = "progress"
  <2>2. y = Yield(g, <<>>, "fail")
    BY <1>5 DEF OpenClawStep
  <2> HIDE DEF y
  <2>1. y.gen = g
    BY <2>2 DEF Yield
  <2>3. y.chunks = <<>> /\ y.end = "fail"
    BY <2>2 DEF Yield
  <2>4. y.gen \in Gen
    BY <1>1, <2>1 DEF Gen
  <2>5. Chunked(y.chunks) /\ Quiet(y.chunks)
    BY <1>1, <2>3, YieldsNone
  <2> QED BY <2>1, <2>3, <2>4, <2>5 DEF Contract, y
<1>6. CASE e.kind = "accepted"
  <2>2. y = Yield(g, <<>>, "on")
    BY <1>6 DEF OpenClawStep
  <2> HIDE DEF y
  <2>1. y.gen = g
    BY <2>2 DEF Yield
  <2>3. y.chunks = <<>> /\ y.end = "on"
    BY <2>2 DEF Yield
  <2>4. y.gen \in Gen
    BY <1>1, <2>1 DEF Gen
  <2>5. Chunked(y.chunks) /\ Quiet(y.chunks)
    BY <1>1, <2>3, YieldsNone
  <2> QED BY <2>1, <2>3, <2>4, <2>5 DEF Contract, y
<1>7. CASE e.kind = "end"
  <2>2. y = Yield(g, NonEmpty(r, TRUE), "done")
    BY <1>7 DEF OpenClawStep, r
  <2> HIDE DEF y
  <2>1. y.gen = g
    BY <2>2 DEF Yield
  <2>3. y.chunks = NonEmpty(r, TRUE) /\ y.end = "done"
    BY <2>2 DEF Yield
  <2>4. y.gen \in Gen
    BY <1>1, <2>1 DEF Gen
  <2>5. Chunked(y.chunks)
    BY <1>2, <2>3, YieldsRest
  <2> QED BY <2>1, <2>3, <2>4, <2>5 DEF Contract, y
<1> QED BY <1>1, <1>3, <1>4, <1>5, <1>6, <1>7

\* Hermes keeps it: once it said something its stream ends with a final chunk.
LEMMA HermesContract ==
  ASSUME NEW g \in Gen, NEW e, EventOf("hermes", e)
  PROVE  Contract("hermes", g, HermesStep(g, e))
<1> DEFINE y == HermesStep(g, e)
<1>1. /\ g.sent \in Seq(Word) /\ g.text \in Seq(Word) /\ g.told \in BOOLEAN
      /\ e.text \in Seq(Word) /\ <<>> \in Seq(Word)
      /\ e.kind \in {"delta", "blank end", "eof"}
      /\ e.kind \in {"delta", "snapshot"} => e.text # <<>>
  BY EmptySeq DEF Gen, EventOf, Kinds
<1>3. CASE e.kind = "delta"
  <2>2. y = Yield([g EXCEPT !.told = TRUE], <<Chunk(e.text, FALSE)>>, "on")
    BY <1>3 DEF HermesStep
  <2> HIDE DEF y
  <2>1. y.gen = [g EXCEPT !.told = TRUE]
    BY <2>2 DEF Yield
  <2>3. y.chunks = <<Chunk(e.text, FALSE)>> /\ y.end = "on"
    BY <2>2 DEF Yield
  <2>4. y.gen \in Gen
    BY <1>1, <2>1 DEF Gen
  <2>5. Chunked(y.chunks)
    BY <1>1, <2>3, YieldsOne
  <2>6. WillClose("hermes", y.gen)
    BY <1>1, <2>1 DEF WillClose, Gen
  <2> QED BY <2>1, <2>3, <2>4, <2>5, <2>6 DEF Contract, y
<1>4. CASE e.kind = "blank end"
  <2>2. y = Yield(g, <<Chunk(<<>>, TRUE)>>, "on")
    BY <1>4 DEF HermesStep
  <2> HIDE DEF y
  <2>1. y.gen = g
    BY <2>2 DEF Yield
  <2>3. y.chunks = <<Chunk(<<>>, TRUE)>> /\ y.end = "on"
    BY <2>2 DEF Yield
  <2>4. y.gen \in Gen
    BY <1>1, <2>1 DEF Gen
  <2>5. Chunked(y.chunks) /\ Shut(y.chunks)
    BY <1>1, <2>3, YieldsOne
  <2> QED BY <2>1, <2>3, <2>4, <2>5 DEF Contract, y
<1>5. CASE e.kind = "eof" /\ g.told
  <2>2. y = Yield(g, <<Chunk(<<>>, TRUE)>>, "done")
    BY <1>5 DEF HermesStep
  <2> HIDE DEF y
  <2>1. y.gen = g
    BY <2>2 DEF Yield
  <2>3. y.chunks = <<Chunk(<<>>, TRUE)>> /\ y.end = "done"
    BY <2>2 DEF Yield
  <2>4. y.gen \in Gen
    BY <1>1, <2>1 DEF Gen
  <2>5. Chunked(y.chunks) /\ Shut(y.chunks)
    BY <1>1, <2>3, YieldsOne
  <2> QED BY <2>1, <2>3, <2>4, <2>5 DEF Contract, y
<1>6. CASE e.kind = "eof" /\ ~g.told
  <2>2. y = Yield(g, <<>>, "done")
    BY <1>6 DEF HermesStep
  <2> HIDE DEF y
  <2>1. y.gen = g
    BY <2>2 DEF Yield
  <2>3. y.chunks = <<>> /\ y.end = "done"
    BY <2>2 DEF Yield
  <2>4. y.gen \in Gen
    BY <1>1, <2>1 DEF Gen
  <2>5. Chunked(y.chunks) /\ Quiet(y.chunks)
    BY <1>1, <2>3, YieldsNone
  <2>6. ~WillClose("hermes", g)
    BY <1>6 DEF WillClose
  <2> QED BY <2>1, <2>3, <2>4, <2>5, <2>6 DEF Contract, y
<1> QED BY <1>1, <1>3, <1>4, <1>5, <1>6

\* PiClaw keeps it, also when its last message comes before the end of its stream.
LEMMA PiClawContract ==
  ASSUME NEW g \in Gen, NEW e, EventOf("piclaw", e)
  PROVE  Contract("piclaw", g, PiClawStep(g, e))
<1> DEFINE y == PiClawStep(g, e)
           r == Remaining(g.sent, e.text)
<1>1. /\ g.sent \in Seq(Word) /\ g.text \in Seq(Word) /\ g.told \in BOOLEAN
      /\ e.text \in Seq(Word) /\ <<>> \in Seq(Word)
      /\ e.kind \in {"delta", "progress", "end", "eof"}
      /\ e.kind \in {"delta", "snapshot"} => e.text # <<>>
  BY EmptySeq DEF Gen, EventOf, Kinds
<1>2. r \in Seq(Word) /\ g.sent \o r \in Seq(Word)
  <2>1. r \in Seq(Word)
    BY <1>1, RemainingTyped
  <2> HIDE DEF r
  <2> QED BY <2>1, <1>1, ConcatProperties
<1> HIDE DEF r
<1>8. g.sent \o e.text \in Seq(Word)
  BY <1>1, ConcatProperties
<1>3. CASE e.kind = "delta"
  <2>2. y = Yield([g EXCEPT !.sent = @ \o e.text, !.told = TRUE], <<Chunk(e.text, FALSE)>>, "on")
    BY <1>3 DEF PiClawStep
  <2> HIDE DEF y
  <2>1. y.gen = [g EXCEPT !.sent = @ \o e.text, !.told = TRUE]
    BY <2>2 DEF Yield
  <2>3. y.chunks = <<Chunk(e.text, FALSE)>> /\ y.end = "on"
    BY <2>2 DEF Yield
  <2>4. y.gen \in Gen
    BY <1>1, <1>8, <2>1 DEF Gen
  <2>5. Chunked(y.chunks)
    BY <1>1, <2>3, YieldsOne
  <2>6. WillClose("piclaw", y.gen)
    BY <1>1, <2>1 DEF WillClose, Gen
  <2> QED BY <2>1, <2>3, <2>4, <2>5, <2>6 DEF Contract, y
<1>4. CASE e.kind = "progress"
  <2>2. y = Yield(g, <<Working>>, "on")
    BY <1>4 DEF PiClawStep
  <2> HIDE DEF y
  <2>1. y.gen = g
    BY <2>2 DEF Yield
  <2>3. y.chunks = <<Working>> /\ y.end = "on"
    BY <2>2 DEF Yield
  <2>4. y.gen \in Gen
    BY <1>1, <2>1 DEF Gen
  <2>5. Chunked(y.chunks) /\ Quiet(y.chunks)
    BY <1>1, <2>3, YieldsNote
  <2> QED BY <2>1, <2>3, <2>4, <2>5 DEF Contract, y
<1>5. CASE e.kind = "end"
  <2>2. y = Yield([g EXCEPT !.sent = @ \o r, !.told = @ \/ r # <<>>], <<Chunk(r, TRUE)>>, "on")
    BY <1>5 DEF PiClawStep, r
  <2> HIDE DEF y
  <2>1. y.gen = [g EXCEPT !.sent = @ \o r, !.told = @ \/ r # <<>>]
    BY <2>2 DEF Yield
  <2>3. y.chunks = <<Chunk(r, TRUE)>> /\ y.end = "on"
    BY <2>2 DEF Yield
  <2>4. y.gen \in Gen
    BY <1>1, <1>2, <2>1 DEF Gen
  <2>5. Chunked(y.chunks) /\ Shut(y.chunks)
    BY <1>2, <2>3, YieldsOne
  <2> QED BY <2>1, <2>3, <2>4, <2>5 DEF Contract, y
<1>6. CASE e.kind = "eof" /\ g.told
  <2>2. y = Yield(g, <<Chunk(<<>>, TRUE)>>, "done")
    BY <1>6 DEF PiClawStep
  <2> HIDE DEF y
  <2>1. y.gen = g
    BY <2>2 DEF Yield
  <2>3. y.chunks = <<Chunk(<<>>, TRUE)>> /\ y.end = "done"
    BY <2>2 DEF Yield
  <2>4. y.gen \in Gen
    BY <1>1, <2>1 DEF Gen
  <2>5. Chunked(y.chunks) /\ Shut(y.chunks)
    BY <1>1, <2>3, YieldsOne
  <2> QED BY <2>1, <2>3, <2>4, <2>5 DEF Contract, y
<1>7. CASE e.kind = "eof" /\ ~g.told
  <2>2. y = Yield(g, <<>>, "done")
    BY <1>7 DEF PiClawStep
  <2> HIDE DEF y
  <2>1. y.gen = g
    BY <2>2 DEF Yield
  <2>3. y.chunks = <<>> /\ y.end = "done"
    BY <2>2 DEF Yield
  <2>4. y.gen \in Gen
    BY <1>1, <2>1 DEF Gen
  <2>5. Chunked(y.chunks) /\ Quiet(y.chunks)
    BY <1>1, <2>3, YieldsNone
  <2>6. ~WillClose("piclaw", g)
    BY <1>7 DEF WillClose
  <2> QED BY <2>1, <2>3, <2>4, <2>5, <2>6 DEF Contract, y
<1> QED BY <1>1, <1>3, <1>4, <1>5, <1>6, <1>7

\* The stub says its reply as one final chunk.
LEMMA StubContract ==
  ASSUME NEW g \in Gen, NEW e, EventOf("stub", e)
  PROVE  Contract("stub", g, StubStep(g, e))
<1> DEFINE y == StubStep(g, e)
<1>1. /\ g.sent \in Seq(Word) /\ g.text \in Seq(Word) /\ g.told \in BOOLEAN
      /\ e.text \in Seq(Word) /\ <<>> \in Seq(Word)
      /\ e.kind \in {"end"}
      /\ e.kind \in {"delta", "snapshot"} => e.text # <<>>
  BY EmptySeq DEF Gen, EventOf, Kinds
<1>2. y = Yield(g, <<Chunk(e.text, TRUE)>>, "done")
  BY DEF StubStep
<1> HIDE DEF y
<1>3. y.gen = g
  BY <1>2 DEF Yield
<1>4. y.chunks = <<Chunk(e.text, TRUE)>> /\ y.end = "done"
  BY <1>2 DEF Yield
<1>5. y.gen \in Gen
  BY <1>1, <1>3 DEF Gen
<1>6. Chunked(y.chunks) /\ Shut(y.chunks)
  BY <1>1, <1>4, YieldsOne
<1> QED BY <1>4, <1>5, <1>6 DEF Contract, y

\* A program that is run to its end says nothing before.
LEMMA CliContract ==
  ASSUME NEW g \in Gen, NEW e, EventOf("cli", e)
  PROVE  Contract("cli", g, CliStep(g, e))
<1> DEFINE y == CliStep(g, e)
<1>1. /\ g.sent \in Seq(Word) /\ g.text \in Seq(Word) /\ g.told \in BOOLEAN
      /\ e.text \in Seq(Word) /\ <<>> \in Seq(Word)
      /\ e.kind \in {"end"}
      /\ e.kind \in {"delta", "snapshot"} => e.text # <<>>
  BY EmptySeq DEF Gen, EventOf, Kinds
<1>2. y = Yield([g EXCEPT !.text = e.text], <<>>, "done")
  BY DEF CliStep
<1> HIDE DEF y
<1>3. y.gen = [g EXCEPT !.text = e.text]
  BY <1>2 DEF Yield
<1>4. y.chunks = <<>> /\ y.end = "done"
  BY <1>2 DEF Yield
<1>5. y.gen \in Gen
  BY <1>1, <1>3 DEF Gen
<1>6. Chunked(y.chunks)
  BY <1>1, <1>4, YieldsNone
<1> QED BY <1>4, <1>5, <1>6 DEF Contract, y

\* Every backend keeps the contract, an agent that fails included.
LEMMA BackendContract ==
  ASSUME NEW b \in Backend, NEW g \in Gen, NEW e,
         EventOf(b, e) \/ e.kind \in {"fail", "crash"}
  PROVE  Contract(b, g, BackendStep(b, g, e))
<1> DEFINE y == BackendStep(b, g, e)
<1>1. CASE e.kind \in {"fail", "crash"}
  <2>1. y = Yield(g, <<>>, e.kind)
    BY <1>1 DEF BackendStep
  <2> HIDE DEF y
  <2>2. y.gen = g /\ y.chunks = <<>> /\ y.end = e.kind
    BY <2>1 DEF Yield
  <2> QED BY <1>1, <2>2, YieldsNone DEF Contract, y
<1>2. CASE EventOf(b, e) /\ e.kind \notin {"fail", "crash"}
  <2>1. b \in {"pi", "stub", "openclaw", "hermes", "piclaw", "cli"}
    BY Questions DEF BackendName
  <2>2. CASE b = "pi"
    BY <1>2, <2>2, PiContract DEF BackendStep
  <2>3. CASE b = "openclaw"
    BY <1>2, <2>3, OpenClawContract DEF BackendStep
  <2>4. CASE b = "hermes"
    BY <1>2, <2>4, HermesContract DEF BackendStep
  <2>5. CASE b = "piclaw"
    BY <1>2, <2>5, PiClawContract DEF BackendStep
  <2>6. CASE b = "stub"
    BY <1>2, <2>6, StubContract DEF BackendStep
  <2>7. CASE b = "cli"
    BY <1>2, <2>7, CliContract DEF BackendStep
  <2> QED BY <2>1, <2>2, <2>3, <2>4, <2>5, <2>6, <2>7
<1> QED BY <1>1, <1>2 DEF EventOf

-----------------------------------------------------------------------------
(* The subscribers of the bus.                                              *)

\* The answer goes on as a text.
LEMMA AccumulateTyped ==
  ASSUME NEW text \in Seq(Word), NEW c \in ChunkType
  PROVE  Accumulate(text, c) \in Seq(Word)
<1>1. c.text \in Seq(Word)
  BY DEF ChunkType
<1>2. text \o c.text \in Seq(Word)
  BY <1>1, ConcatProperties
<1> QED BY <1>1, <1>2 DEF Accumulate

\* The deltas of an event, none, one or two of them.
LEMMA DeltasAre ==
  ASSUME NEW chunks, Chunked(chunks)
  PROVE  LET D == Deltas(chunks) IN
         \/ Len(D) = 0 /\ Quiet(chunks) /\ ~Shut(chunks)
         \/ Len(D) = 1 /\ D[1] \in ChunkType /\ ~Quiet(chunks) /\ (Shut(chunks) <=> D[1].final)
         \/ /\ Len(D) = 2 /\ D[1] \in ChunkType /\ D[2] \in ChunkType
            /\ ~Quiet(chunks) /\ (Shut(chunks) <=> D[2].final)
<1> DEFINE D == Deltas(chunks)
<1>1. D \in Seq(ChunkType) /\ Len(D) \in 0..2
  BY DEF Chunked
<1>2. (Quiet(chunks) <=> D = <<>>) /\ (Shut(chunks) <=> D # <<>> /\ D[Len(D)].final)
  BY DEF Quiet, Shut
<1> HIDE DEF D
<1>3. D = <<>> <=> Len(D) = 0
  BY <1>1, EmptySeq
<1>4. \A i \in 1..Len(D) : D[i] \in ChunkType
  BY <1>1, ElementOfSeq
<1>5. CASE Len(D) = 0
  <2>1. D = <<>>
    BY <1>3, <1>5
  <2>2. Quiet(chunks) /\ ~Shut(chunks)
    BY <1>2, <2>1
  <2> QED BY <1>5, <2>2 DEF D
<1>6. CASE Len(D) = 1
  BY <1>2, <1>3, <1>4, <1>6 DEF D
<1>7. CASE Len(D) = 2
  <2>1. D[1] \in ChunkType /\ D[2] \in ChunkType
    BY <1>4, <1>7
  <2>2. ~Quiet(chunks)
    BY <1>2, <1>3, <1>7
  <2>3. Shut(chunks) <=> D[2].final
    BY <1>2, <1>3, <1>7
  <2> QED BY <1>7, <2>1, <2>2, <2>3 DEF D
<1> QED BY <1>1, <1>5, <1>6, <1>7

\* The answer a subscriber keeps is a text.
LEMMA AnswerTyped ==
  ASSUME NEW text \in Seq(Word), NEW chunks, Chunked(chunks)
  PROVE  Each(Accumulate, text, Deltas(chunks)) \in Seq(Word)
<1> DEFINE D == Deltas(chunks)
<1>1. CASE Len(D) = 0
  BY <1>1 DEF Each
<1>2. CASE Len(D) = 1 /\ D[1] \in ChunkType
  <2>1. Each(Accumulate, text, D) = Accumulate(text, D[1])
    BY <1>2 DEF Each
  <2> QED BY <1>2, <2>1, AccumulateTyped
<1>3. CASE Len(D) = 2 /\ D[1] \in ChunkType /\ D[2] \in ChunkType
  <2>1. Each(Accumulate, text, D) = Accumulate(Accumulate(text, D[1]), D[2])
    BY <1>3 DEF Each
  <2> QED BY <1>3, <2>1, AccumulateTyped
<1> QED BY <1>1, <1>2, <1>3, DeltasAre

\* The last boundary of a text exists.
LEMMA BoundaryIs ==
  ASSUME NEW text \in Seq(Word)
  PROVE  Boundary(text) \in 0..Len(text)
<1> DEFINE Ok(i) == (i > 0 => text[i] \in Stop) /\ \A j \in (i + 1)..Len(text) : text[j] \notin Stop
           T == {j \in 1..Len(text) : text[j] \in Stop}
<1>1. Len(text) \in Nat
  BY LenProperties
<1>2. CASE T = {}
  <2>1. Ok(0) /\ 0 \in 0..Len(text)
    BY <1>1, <1>2
  <2> QED BY <2>1 DEF Boundary
<1>3. CASE T # {}
  <2> DEFINE m == CHOOSE x \in T : \A y \in T : x >= y
  <2>1. T \subseteq Nat /\ \A y \in T : y <= Len(text)
    BY <1>1
  <2>2. m \in T /\ \A y \in T : m >= y
    <3> HIDE DEF T
    <3> QED BY ONLY <1>1, <1>3, <2>1, HighestOf
  <2> HIDE DEF m
  <2>3. Ok(m) /\ m \in 0..Len(text)
    BY <1>1, <2>2
  <2> QED BY <2>3 DEF Boundary
<1> QED BY <1>2, <1>3

\* What a segmenter keeps.
SpeechType == [buffer : Seq(Word), spoken : Seq(Word), open : BOOLEAN]

\* A segmenter goes on as one, closed by a final delta and open after any other.
LEMMA PushTyped ==
  ASSUME NEW s \in SpeechType, NEW c \in ChunkType
  PROVE  Push(s, c) \in SpeechType /\ Push(s, c).open = ~c.final
<1> DEFINE text == s.buffer \o c.text
           ready == IF c.final THEN Len(text) ELSE Boundary(text)
           rest == SubSeq(text, ready + 1, Len(text))
           said1 == s.spoken \o SubSeq(text, 1, ready)
<1>1. /\ s.buffer \in Seq(Word) /\ s.spoken \in Seq(Word)
      /\ c.text \in Seq(Word) /\ c.final \in BOOLEAN
  BY DEF SpeechType, ChunkType
<1>2. text \in Seq(Word)
  BY <1>1, ConcatProperties
<1> HIDE DEF text
<1>3. Len(text) \in Nat /\ ready \in 0..Len(text)
  BY <1>2, BoundaryIs, LenProperties
<1> HIDE DEF ready
<1>4. rest \in Seq(Word) /\ SubSeq(text, 1, ready) \in Seq(Word)
  <2>1. ready + 1 \in 1..Len(text) + 1 /\ 1 \in 1..Len(text) + 1 /\ Len(text) \in 0..Len(text)
    BY <1>3
  <2> QED BY <1>2, <1>3, <2>1, PartOf
<1>5. said1 \in Seq(Word)
  BY <1>1, <1>4, ConcatProperties
<1>6. Push(s, c) = [buffer |-> rest, spoken |-> said1, open |-> ~c.final]
  BY DEF Push, text, ready
<1> HIDE DEF rest, said1
<1> QED BY <1>1, <1>4, <1>5, <1>6 DEF SpeechType

\* A segmenter that heard a final delta last is closed.
LEMMA SpeechTyped ==
  ASSUME NEW s \in SpeechType, NEW chunks, Chunked(chunks)
  PROVE  LET n == Each(Push, s, Deltas(chunks)) IN
         n \in SpeechType /\ n.open = IF Quiet(chunks) THEN s.open ELSE ~Shut(chunks)
<1> DEFINE D == Deltas(chunks)
           n == Each(Push, s, D)
<1>1. CASE Len(D) = 0 /\ Quiet(chunks)
  BY <1>1 DEF Each
<1>2. CASE Len(D) = 1 /\ D[1] \in ChunkType /\ ~Quiet(chunks) /\ (Shut(chunks) <=> D[1].final)
  <2>1. n = Push(s, D[1])
    BY <1>2 DEF Each
  <2>2. D[1].final \in BOOLEAN /\ Shut(chunks) \in BOOLEAN
    BY <1>2 DEF ChunkType, Shut
  <2> QED BY <1>2, <2>1, <2>2, PushTyped
<1>3. CASE /\ Len(D) = 2 /\ D[1] \in ChunkType /\ D[2] \in ChunkType
           /\ ~Quiet(chunks) /\ (Shut(chunks) <=> D[2].final)
  <2>1. n = Push(Push(s, D[1]), D[2])
    BY <1>3 DEF Each
  <2>2. D[2].final \in BOOLEAN /\ Shut(chunks) \in BOOLEAN
    BY <1>3 DEF ChunkType, Shut
  <2>3. Push(s, D[1]) \in SpeechType
    BY <1>3, PushTyped
  <2> QED BY <1>3, <2>1, <2>2, <2>3, PushTyped
<1> QED BY <1>1, <1>2, <1>3, DeltasAre

\* The state a segmenter has for a turn.
LEMMA SpeechIs ==
  ASSUME TypeOK, NEW t \in Turn
  PROVE  /\ Stream(t) \in Device \X Key
         /\ Speech(t) \in SpeechType /\ (Speech(t).open <=> Stream(t) \in open)
<1>1. Stream(t) \in Device \X Key
  BY Questions DEF Stream
<1>2. buffer[Stream(t)] \in Seq(Word) /\ spoken[Stream(t)] \in Seq(Word)
  BY <1>1 DEF TypeOK
<1> DEFINE b == buffer[Stream(t)]
           s == spoken[Stream(t)]
           o == Stream(t) \in open
<1>3. Speech(t) = [buffer |-> b, spoken |-> s, open |-> o]
  BY DEF Speech
<1>4. o \in BOOLEAN /\ b \in Seq(Word) /\ s \in Seq(Word)
  BY <1>2
<1>5. [buffer |-> b, spoken |-> s, open |-> o] \in SpeechType
  <2> HIDE DEF b, s, o
  <2> QED BY <1>4 DEF SpeechType
<1>6. [buffer |-> b, spoken |-> s, open |-> o].open = o
  <2> HIDE DEF b, s, o
  <2> QED OBVIOUS
<1> QED BY <1>1, <1>3, <1>5, <1>6

\* The state a segmenter is given for a turn, and no other stream is touched.
LEMMA SpeaksIs ==
  ASSUME TypeOK, NEW t \in Turn, NEW s \in SpeechType, Speaks(t, s)
  PROVE  /\ buffer' \in [Device \X Key -> Seq(Word)]
         /\ spoken' \in [Device \X Key -> Seq(Word)]
         /\ open' \subseteq Device \X Key
         /\ open' = IF s.open THEN open \cup {Stream(t)} ELSE open \ {Stream(t)}
<1>1. Stream(t) \in Device \X Key
  BY SpeechIs
<1>2. s.buffer \in Seq(Word) /\ s.spoken \in Seq(Word)
  BY DEF SpeechType
<1>3. /\ buffer \in [Device \X Key -> Seq(Word)]
      /\ spoken \in [Device \X Key -> Seq(Word)]
      /\ open \subseteq Device \X Key
  BY DEF TypeOK
<1>4. /\ buffer' = [buffer EXCEPT ![Stream(t)] = s.buffer]
      /\ spoken' = [spoken EXCEPT ![Stream(t)] = s.spoken]
      /\ open' = IF s.open THEN open \cup {Stream(t)} ELSE open \ {Stream(t)}
  BY DEF Speaks
<1>5. open' \subseteq Device \X Key
  BY <1>1, <1>3, <1>4
<1> QED BY <1>1, <1>2, <1>3, <1>4, <1>5

\* The deliveries of an event are of the turn that hears it.
LEMMA DeliveriesAre ==
  ASSUME NEW t \in Turn, NEW chunks, Chunked(chunks)
  PROVE  /\ Deliveries(t, chunks) \in Seq(Message)
         /\ \A i \in 1..Len(Deliveries(t, chunks)) : Deliveries(t, chunks)[i].turn = t
<1> DEFINE new == IF t \in working THEN Deltas(chunks) ELSE chunks
           M(i) == [turn |-> t, text |-> new[i].text, final |-> new[i].final, progress |-> new[i].progress]
           ds == [i \in DOMAIN new |-> M(i)]
<1>1. new \in Seq(ChunkType)
  BY DEF Chunked
<1>2. ds = Deliveries(t, chunks)
  BY DEF Deliveries
<1> HIDE DEF new
<1>3. Len(new) \in Nat /\ DOMAIN new = 1..Len(new) /\ \A i \in 1..Len(new) : new[i] \in ChunkType
  BY <1>1, ElementOfSeq, LenProperties
<1>4. \A i \in 1..Len(new) : M(i) \in Message /\ M(i).turn = t
  BY <1>3 DEF Message, ChunkType
<1> HIDE DEF M
<1>5. ds \in [1..Len(new) -> Message]
  BY <1>3, <1>4
<1>6. \A i \in 1..Len(new) : ds[i].turn = t
  BY <1>3, <1>4
<1> HIDE DEF ds
<1>7. ds \in Seq(Message) /\ Len(ds) = Len(new)
  BY <1>3, <1>5
<1> QED BY <1>2, <1>6, <1>7

\* What an event puts into the queue of a screen was asked on that screen.
LEMMA QueuesIs ==
  ASSUME TypeOK, OwnScreen, NEW t \in Turn, NEW chunks, Chunked(chunks), Queues(t, chunks)
  PROVE  working' \subseteq Turn /\ pending' \in [Device -> Seq(Message)] /\ OwnScreen'
<1> DEFINE d == DeviceOf[t]
           ds == Deliveries(t, chunks)
           old == pending[d]
<1>1. d \in Device /\ pending \in [Device -> Seq(Message)] /\ old \in Seq(Message)
  BY Questions DEF TypeOK
<1>2. pending' = [pending EXCEPT ![d] = old \o ds]
  BY <1>1 DEF Queues
<1>3. working' \subseteq Turn
  BY DEF Queues, TypeOK
<1>4. ds \in Seq(Message) /\ \A i \in 1..Len(ds) : ds[i].turn = t
  BY DeliveriesAre
<1>5. \A i \in 1..Len(old) : DeviceOf[old[i].turn] = d
  BY <1>1, LenProperties DEF OwnScreen
<1> HIDE DEF ds, old
<1>6. /\ old \o ds \in Seq(Message) /\ Len(old \o ds) = Len(old) + Len(ds)
      /\ \A i \in 1..Len(old) + Len(ds) : (old \o ds)[i] = IF i <= Len(old) THEN old[i] ELSE ds[i - Len(old)]
      /\ Len(old) \in Nat /\ Len(ds) \in Nat
  BY <1>1, <1>4, ConcatProperties, LenProperties
<1>7. DOMAIN (old \o ds) = 1..Len(old) + Len(ds)
  BY <1>6, LenProperties
<1>8. \A i \in DOMAIN (old \o ds) : DeviceOf[(old \o ds)[i].turn] = d
  <2> SUFFICES ASSUME NEW i \in DOMAIN (old \o ds)
               PROVE  DeviceOf[(old \o ds)[i].turn] = d
    OBVIOUS
  <2>1. CASE i <= Len(old)
    BY <2>1, <1>5, <1>6, <1>7
  <2>2. CASE i > Len(old)
    <3>1. i - Len(old) \in 1..Len(ds)
      BY <2>2, <1>6, <1>7
    <3> QED BY <3>1, <2>2, <1>4, <1>6, <1>7
  <2> QED BY <2>1, <2>2, <1>6, <1>7
<1>9. pending' \in [Device -> Seq(Message)]
  BY <1>1, <1>2, <1>6
<1>10. OwnScreen'
  <2> SUFFICES ASSUME NEW c \in Device, NEW i \in DOMAIN pending'[c]
               PROVE  DeviceOf[pending'[c][i].turn] = c
    BY DEF OwnScreen
  <2>1. CASE c = d
    BY <2>1, <1>1, <1>2, <1>8
  <2>2. CASE c # d
    BY <2>2, <1>1, <1>2 DEF OwnScreen
  <2> QED BY <2>1, <2>2
<1> QED BY <1>3, <1>9, <1>10

\* What all of them keep of an event.
LEMMA HearsIs ==
  ASSUME TypeOK, OwnScreen, NEW t \in Turn, NEW chunks, Chunked(chunks), Hears(t, chunks)
  PROVE  /\ reply' \in [Turn -> Seq(Word)]
         /\ working' \subseteq Turn /\ pending' \in [Device -> Seq(Message)] /\ OwnScreen'
         /\ buffer' \in [Device \X Key -> Seq(Word)]
         /\ spoken' \in [Device \X Key -> Seq(Word)]
         /\ open' \subseteq Device \X Key
         /\ open' \subseteq open \cup {Stream(t)}
         /\ Quiet(chunks) => open' = open
         /\ Shut(chunks) => Stream(t) \notin open'
<1> DEFINE s == Each(Push, Speech(t), Deltas(chunks))
           a == Each(Accumulate, reply[t], Deltas(chunks))
<1>1. Queues(t, chunks) /\ Speaks(t, s) /\ reply' = [reply EXCEPT ![t] = a]
  BY DEF Hears
<1>2. s \in SpeechType /\ s.open = IF Quiet(chunks) THEN Speech(t).open ELSE ~Shut(chunks)
  BY SpeechIs, SpeechTyped
<1>3. reply \in [Turn -> Seq(Word)] /\ reply[t] \in Seq(Word)
  BY DEF TypeOK
<1>4. a \in Seq(Word)
  BY <1>3, AnswerTyped
<1> HIDE DEF s, a
<1>5. reply' \in [Turn -> Seq(Word)]
  BY <1>1, <1>3, <1>4
<1>6. working' \subseteq Turn /\ pending' \in [Device -> Seq(Message)] /\ OwnScreen'
  BY <1>1, QueuesIs
<1>7. /\ buffer' \in [Device \X Key -> Seq(Word)]
      /\ spoken' \in [Device \X Key -> Seq(Word)]
      /\ open' \subseteq Device \X Key
      /\ open' = IF s.open THEN open \cup {Stream(t)} ELSE open \ {Stream(t)}
  BY <1>1, <1>2, SpeaksIs
<1>8. Quiet(chunks) => open' = open
  BY <1>2, <1>7, SpeechIs
<1>9. Shut(chunks) => ~Quiet(chunks)
  BY DEF Shut, Quiet
<1>10. Shut(chunks) => Stream(t) \notin open'
  BY <1>2, <1>7, <1>9
<1> QED BY <1>5, <1>6, <1>7, <1>8, <1>10

-----------------------------------------------------------------------------
(* The list of transcripts.                                                 *)

\* A record is of turns that were asked.
FiledAs(r, asked) ==
  /\ r.heard # None \/ r.by # None
  /\ r.heard # None => r.heard \in Spoken
  /\ \A t \in {r.heard, r.by} \ {None} : t \in asked /\ r.device = DeviceOf[t] /\ r.key = KeyOf[t]

\* A list of such records, one for a conversation.
Filed(rs, asked) ==
  /\ rs \in Seq(RecordType)
  /\ \A i \in 1..Len(rs) : FiledAs(rs[i], asked)
  /\ \A i, j \in 1..Len(rs) : rs[i].device = rs[j].device /\ rs[i].key = rs[j].key => i = j

\* Under a recording stands its own answer: no other turn has its key.
LEMMA OneKey ==
  ASSUME NEW r \in RecordType, NEW asked, FiledAs(r, asked), r.heard # None, r.by # None
  PROVE  r.by = r.heard
<1>1. r.heard \in Turn /\ r.by \in Turn /\ r.heard \in Spoken
  BY DEF RecordType, FiledAs
<1>2. KeyOf[r.heard] = r.key /\ KeyOf[r.by] = r.key
  BY DEF FiledAs
<1> QED BY <1>1, <1>2, Questions

\* A list stays filed when more turns are asked.
LEMMA FiledLater ==
  ASSUME NEW rs, NEW asked, NEW more, asked \subseteq more, Filed(rs, asked)
  PROVE  Filed(rs, more)
<1>1. \A i \in 1..Len(rs) : FiledAs(rs[i], asked) => FiledAs(rs[i], more)
  BY DEF FiledAs
<1> QED BY <1>1 DEF Filed

\* The record of a turn.
LEMMA RecordIs ==
  ASSUME NEW t \in Turn, NEW heard \in {t, None}, NEW by \in {t, None}, heard # None \/ by # None,
         heard # None => t \in Spoken, NEW text \in Seq(Word), NEW asked, t \in asked
  PROVE  LET r == Record(t, heard, by, text) IN
         r \in RecordType /\ FiledAs(r, asked) /\ r.device = DeviceOf[t] /\ r.key = KeyOf[t]
<1>1. DeviceOf[t] \in Device /\ KeyOf[t] \in Key
  BY Questions
<1> QED BY <1>1 DEF Record, RecordType, FiledAs

\* A record put behind a list in which its conversation has none.
LEMMA FiledNew ==
  ASSUME NEW rs, NEW asked, Filed(rs, asked), NEW r \in RecordType, FiledAs(r, asked),
         \A i \in 1..Len(rs) : ~(rs[i].device = r.device /\ rs[i].key = r.key)
  PROVE  Filed(Append(rs, r), asked)
<1> DEFINE longer == Append(rs, r)
<1>1. rs \in Seq(RecordType)
  BY DEF Filed
<1>2. /\ longer \in Seq(RecordType) /\ Len(longer) = Len(rs) + 1 /\ Len(rs) \in Nat
      /\ longer[Len(rs) + 1] = r /\ \A i \in 1..Len(rs) : longer[i] = rs[i]
  BY <1>1, Joined
<1> HIDE DEF longer
<1>3. \A i \in 1..Len(longer) : i \in 1..Len(rs) \/ i = Len(rs) + 1
  BY <1>2
<1>4. \A i \in 1..Len(longer) : FiledAs(longer[i], asked)
  BY <1>2, <1>3 DEF Filed
<1>5. \A i, j \in 1..Len(longer) : longer[i].device = longer[j].device /\ longer[i].key = longer[j].key => i = j
  BY <1>2, <1>3 DEF Filed
<1> QED BY <1>2, <1>4, <1>5 DEF Filed, longer

\* The last records of a list.
LEMMA FiledLast ==
  ASSUME NEW rs, NEW asked, Filed(rs, asked), NEW m \in 1..Len(rs) + 1
  PROVE  Filed(SubSeq(rs, m, Len(rs)), asked)
<1> DEFINE n == Len(rs)
           some == SubSeq(rs, m, n)
<1>1. rs \in Seq(RecordType) /\ n \in Nat /\ n \in 0..n
  BY LenProperties DEF Filed
<1>2. /\ some \in Seq(RecordType) /\ Len(some) = IF m <= n THEN n - m + 1 ELSE 0
      /\ \A i \in 1..n - m + 1 : some[i] = rs[m + i - 1]
  BY <1>1, PartOf
<1> HIDE DEF some
<1>3. \A i \in 1..Len(some) : m + i - 1 \in 1..n /\ some[i] = rs[m + i - 1]
  BY <1>1, <1>2
<1>4. \A i \in 1..Len(some) : FiledAs(some[i], asked)
  BY <1>1, <1>3 DEF Filed
<1>5. \A i, j \in 1..Len(some) : m + i - 1 = m + j - 1 => i = j
  BY <1>1, <1>2
<1>6. \A i, j \in 1..Len(some) : some[i].device = some[j].device /\ some[i].key = some[j].key => i = j
  <2> SUFFICES ASSUME NEW i \in 1..Len(some), NEW j \in 1..Len(some),
                      some[i].device = some[j].device, some[i].key = some[j].key
               PROVE  i = j
    OBVIOUS
  <2> DEFINE a == m + i - 1
             b == m + j - 1
  <2>1. a \in 1..n /\ b \in 1..n /\ some[i] = rs[a] /\ some[j] = rs[b] /\ (a = b => i = j)
    BY <1>3, <1>5
  <2> HIDE DEF a, b
  <2>2. a = b
    BY <2>1 DEF Filed
  <2> QED BY <2>1, <2>2
<1> QED BY <1>2, <1>4, <1>6 DEF Filed, some

\* An answer put into the record of its conversation.
LEMMA FiledAnswer ==
  ASSUME NEW rs, NEW asked, Filed(rs, asked), NEW t \in Turn, t \in asked, NEW text \in Seq(Word),
         NEW m \in 1..Len(rs), rs[m].device = DeviceOf[t], rs[m].key = KeyOf[t]
  PROVE  Filed([rs EXCEPT ![m] = [@ EXCEPT !.by = t, !.text = text]], asked)
<1> DEFINE r == [rs[m] EXCEPT !.by = t, !.text = text]
           new == [rs EXCEPT ![m] = r]
<1>1. rs \in Seq(RecordType) /\ rs[m] \in RecordType
  BY ElementOfSeq DEF Filed
<1>2. /\ r \in RecordType /\ r.by = t /\ r.heard = rs[m].heard
      /\ r.device = rs[m].device /\ r.key = rs[m].key
  BY <1>1 DEF RecordType
<1>3. FiledAs(r, asked)
  <2>1. FiledAs(rs[m], asked)
    BY DEF Filed
  <2>2. t # None
    BY Questions
  <2> HIDE DEF r
  <2> QED BY <1>2, <2>1, <2>2 DEF FiledAs
<1> HIDE DEF r
<1>4. new \in Seq(RecordType) /\ Len(new) = Len(rs) /\ \A i \in 1..Len(rs) : new[i] = IF i = m THEN r ELSE rs[i]
  BY <1>1, <1>2, ExceptSeq
<1> HIDE DEF new
<1>5. \A i \in 1..Len(new) : FiledAs(new[i], asked)
  BY <1>3, <1>4 DEF Filed
<1>6. \A i \in 1..Len(new) : new[i].device = rs[i].device /\ new[i].key = rs[i].key
  BY <1>2, <1>4
<1>7. \A i, j \in 1..Len(new) : new[i].device = new[j].device /\ new[i].key = new[j].key => i = j
  BY <1>4, <1>6 DEF Filed
<1> QED BY <1>4, <1>5, <1>7 DEF Filed, new, r

-----------------------------------------------------------------------------

\* The turns that were asked.
Asked == {t \in Turn : stage[t] # "new"}

\* What the two say of the list of transcripts.
LEMMA FiledIs ==
  TypeOK => (Filed(records, Asked) <=> RecordsFrom /\ RecordsMatch)
<1> SUFFICES ASSUME TypeOK PROVE Filed(records, Asked) <=> RecordsFrom /\ RecordsMatch
  OBVIOUS
<1>1. /\ records \in Seq(RecordType) /\ DOMAIN records = 1..Len(records)
      /\ \A i \in 1..Len(records) : records[i] \in RecordType
  BY LenProperties, ElementOfSeq DEF TypeOK
<1>2. \A r \in RecordType : {r.heard, r.by} \ {None} \subseteq Turn
  BY DEF RecordType
<1>3. RecordsFrom <=> \A i \in 1..Len(records) : FiledAs(records[i], Asked)
  BY <1>1, <1>2 DEF RecordsFrom, FiledAs, Asked
<1>4. \A i \in 1..Len(records) : FiledAs(records[i], Asked) =>
        (records[i].heard # None /\ records[i].by # None => records[i].by = records[i].heard)
  BY <1>1, OneKey
<1> QED BY <1>1, <1>3, <1>4 DEF RecordsMatch, Filed

\* A recording that starts its turn has no record yet.
LEMMA TranscribedKeeps ==
  ASSUME TypeOK, NEW t \in Spoken, Filed(records, Asked), t \notin Asked, NEW more, Asked \subseteq more, t \in more
  PROVE  Filed(Transcribed(t), more)
<1>1. t \in Turn /\ t # None
  BY Questions
<1> DEFINE r == Record(t, t, None, <<>>)
           longer == Append(records, r)
<1>2. r \in RecordType /\ FiledAs(r, more) /\ r.device = DeviceOf[t] /\ r.key = KeyOf[t]
  <2>1. <<>> \in Seq(Word)
    BY EmptySeq
  <2> QED BY <1>1, <2>1, RecordIs
<1>3. Filed(records, more)
  BY FiledLater
<1>4. \A i \in 1..Len(records) : records[i].key # KeyOf[t]
  <2> SUFFICES ASSUME NEW i \in 1..Len(records), records[i].key = KeyOf[t] PROVE FALSE
    OBVIOUS
  <2>1. records[i] \in RecordType /\ FiledAs(records[i], Asked)
    BY ElementOfSeq DEF Filed
  <2>2. PICK u \in {records[i].heard, records[i].by} : u # None
    BY <2>1 DEF FiledAs
  <2>3. u \in Turn /\ u \in Asked /\ KeyOf[u] = KeyOf[t]
    BY <2>1, <2>2 DEF FiledAs, RecordType
  <2> QED BY <2>3, Questions
<1> HIDE DEF r
<1>5. Filed(longer, more)
  BY <1>2, <1>3, <1>4, FiledNew
<1>6. Transcribed(t) = SubSeq(longer, Len(longer) - Min({MaxRecords, Len(longer)}) + 1, Len(longer))
  BY DEF Transcribed, r
<1> HIDE DEF longer
<1>7. Len(longer) \in Nat
  BY <1>5, LenProperties DEF Filed
<1>8. Min({MaxRecords, Len(longer)}) \in 0..Len(longer)
  <2> DEFINE n == Len(longer)
  <2> HIDE DEF n
  <2>1. n \in Nat /\ MaxRecords \in Nat
    BY <1>7, Questions DEF n
  <2>2. \E x \in {MaxRecords, n} : \A y \in {MaxRecords, n} : x <= y
    BY <2>1
  <2>3. /\ Min({MaxRecords, n}) \in {MaxRecords, n}
        /\ \A y \in {MaxRecords, n} : Min({MaxRecords, n}) <= y
    BY <2>2 DEF Min
  <2> QED BY <2>1, <2>3 DEF n
<1>9. Len(longer) - Min({MaxRecords, Len(longer)}) + 1 \in 1..Len(longer) + 1
  BY <1>7, <1>8
<1> QED BY <1>5, <1>6, <1>9, FiledLast

\* An answer is put under its question.
LEMMA AnsweredKeeps ==
  ASSUME TypeOK, NEW t \in Turn, Filed(records, Asked), t \in Asked, NEW text \in Seq(Word)
  PROVE  Filed(Answered(t, text), Asked)
<1>0. records \in Seq(RecordType) /\ DOMAIN records = 1..Len(records) /\ Len(records) \in Nat /\ t # None
  BY Questions, LenProperties DEF Filed
<1>1. CASE text = <<>>
  BY <1>1 DEF Answered
<1>2. CASE text # <<>> /\ Matching(t) # {}
  <2> DEFINE M == Matching(t)
             m == Max(M)
  <2>1. M \subseteq Nat /\ M \subseteq 1..Len(records) /\ \A i \in M : i <= Len(records)
    BY <1>0 DEF Matching
  <2>2. m \in M
    <3> HIDE DEF M
    <3>1. LET x == CHOOSE x \in M : \A y \in M : x >= y IN x \in M
      BY <1>0, <1>2, <2>1, HighestOf DEF M
    <3> QED BY <3>1 DEF Max
  <2>3. m \in 1..Len(records) /\ records[m].device = DeviceOf[t] /\ records[m].key = KeyOf[t]
    BY <2>1, <2>2 DEF Matching
  <2>4. Answered(t, text) = [records EXCEPT ![m] = [@ EXCEPT !.by = t, !.text = text]]
    BY <1>2 DEF Answered
  <2> HIDE DEF m, M
  <2>5. Filed([records EXCEPT ![m] = [@ EXCEPT !.by = t, !.text = text]], Asked)
    <3> DEFINE rs == records
               asked == Asked
    <3>1. Filed(rs, asked) /\ t \in asked /\ m \in 1..Len(rs) /\ rs[m].device = DeviceOf[t] /\ rs[m].key = KeyOf[t]
      BY <2>3
    <3> HIDE DEF rs, asked
    <3>2. Filed([rs EXCEPT ![m] = [@ EXCEPT !.by = t, !.text = text]], asked)
      BY <3>1, FiledAnswer
    <3> QED BY <3>2 DEF rs, asked
  <2> QED BY <2>4, <2>5
<1>3. CASE text # <<>> /\ Matching(t) = {}
  <2> DEFINE h == IF t \in Spoken THEN t ELSE None
             r == Record(t, h, t, text)
  <2>1. Answered(t, text) = Append(records, r)
    BY <1>3 DEF Answered
  <2>2. r \in RecordType /\ FiledAs(r, Asked) /\ r.device = DeviceOf[t] /\ r.key = KeyOf[t]
    <3>1. h \in {t, None} /\ (h # None => t \in Spoken)
      OBVIOUS
    <3> HIDE DEF h
    <3> QED BY <1>0, <3>1, RecordIs
  <2>3. \A i \in 1..Len(records) : ~(records[i].device = DeviceOf[t] /\ records[i].key = KeyOf[t])
    BY <1>0, <1>3 DEF Matching
  <2> HIDE DEF r
  <2> QED BY <2>1, <2>2, <2>3, FiledNew
<1> QED BY <1>1, <1>2, <1>3

-----------------------------------------------------------------------------
(* The steps of a turn.                                                     *)

\* A turn that may leave its segmenter open.
Holds(t) ==
  \/ stage[t] \in {"erring", "failed", "crashed"}
  \/ BackendFor(t) = "openclaw" /\ stage[t] \in {"running", "answered"}
  \/ stage[t] = "running" /\ WillClose(BackendFor(t), gen[t])

\* An open segmenter is of such a turn.
LEMMA OpenedIs ==
  Opened <=> \A k \in open : \E t \in Turn : Stream(t) = k /\ Holds(t)
BY DEF Opened, Holds

\* The list of transcripts after a step.
LEMMA FiledNext ==
  TypeOK' => (Filed(records, Asked)' <=> RecordsFrom' /\ RecordsMatch')
BY FiledIs, PTL

\* The backend of a turn is one of the catalog.
LEMMA BackendIs ==
  ASSUME TypeOK, NEW t \in Turn
  PROVE  BackendFor(t) \in Backend
BY Questions DEF TypeOK, BackendFor

\* A question is asked.
LEMMA AskKeeps ==
  ASSUME AgentInd, NEW t \in Turn, Ask(t)
  PROVE  AgentInd'
<1>1. TypeOK /\ Filed(records, Asked) /\ stage \in [Turn -> Stage] /\ stage[t] = "new"
  BY FiledIs DEF AgentInd, TypeOK, Ask
<1>2. /\ stage' = [stage EXCEPT ![t] = "running"]
      /\ records' = IF t \in Spoken THEN Transcribed(t) ELSE records
      /\ UNCHANGED <<conversation, said, idle, gen, reply, working, pending, counter, issued, shown, expected, missed>>
      /\ UNCHANGED <<buffer, open, spoken, faults>>
  BY DEF Ask, screen, speech
<1>3. stage' \in [Turn -> Stage] /\ \A u \in Turn : stage'[u] = IF u = t THEN "running" ELSE stage[u]
  BY <1>1, <1>2 DEF Stage
<1>4. Asked' = Asked \cup {t} /\ t \notin Asked
  BY <1>1, <1>3 DEF Asked
<1>5. Filed(records', Asked')
  <2>1. CASE t \in Spoken
    BY <2>1, <1>1, <1>2, <1>4, TranscribedKeeps
  <2>2. CASE t \notin Spoken
    BY <2>2, <1>1, <1>2, <1>4, FiledLater
  <2> QED BY <2>1, <2>2
<1>6. records' \in Seq(RecordType)
  BY <1>5 DEF Filed
<1>7. TypeOK'
  BY <1>1, <1>2, <1>3, <1>6 DEF TypeOK
<1>8. Opened'
  <2>1. \A u \in Turn : Holds(u) => Holds(u)'
    BY <1>1, <1>2, <1>3 DEF Holds, BackendFor
  <2>2. \A k \in open : \E u \in Turn : Stream(u) = k /\ Holds(u)
    BY OpenedIs DEF AgentInd
  <2>3. \A k \in open' : \E u \in Turn : Stream(u) = k /\ Holds(u)'
    BY <1>2, <2>1, <2>2
  <2> QED BY <2>3 DEF Opened, Holds
<1>9. RecordsFrom' /\ RecordsMatch'
  BY <1>5, <1>7, FiledNext
<1>10. Numbering' /\ OwnScreen'
  BY <1>2 DEF AgentInd, Numbering, OwnScreen
<1> QED BY <1>7, <1>8, <1>9, <1>10 DEF AgentInd

\* A screen takes the first delivery that waits for it.
LEMMA DeliverKeeps ==
  ASSUME AgentInd, NEW d \in Device, NEW result \in Result, Deliver(d, result)
  PROVE  AgentInd'
<1> DEFINE q == pending[d]
           msg == Head(q)
<1>1. /\ TypeOK /\ pending \in [Device -> Seq(Message)] /\ q \in Seq(Message) /\ q # <<>>
      /\ counter \in [Device -> Nat] /\ expected \in [Device -> Nat] /\ missed \subseteq Device
      /\ issued \in [Turn -> Seq(Word)] /\ shown \in [Turn -> Seq(Word)]
      /\ faults \in 0..MaxFaults
  BY DEF AgentInd, TypeOK, Deliver
<1>2. /\ UNCHANGED <<stage, conversation, said, idle, gen, reply, working, records>>
      /\ UNCHANGED <<buffer, open, spoken>>
      /\ pending' = [pending EXCEPT ![d] = Tail(q)]
      /\ issued' = [issued EXCEPT ![msg.turn] = @ \o msg.text]
      /\ shown' \in {shown, [shown EXCEPT ![msg.turn] = @ \o msg.text]}
      /\ Spend(result)
  BY DEF Deliver, speech
<1>3. /\ counter' = [counter EXCEPT ![d] = IF msg.final /\ result = "acked" THEN 0 ELSE @ + 1]
      /\ IF result = "lost"
         THEN missed' = missed \cup {d} /\ UNCHANGED expected
         ELSE /\ missed' = missed \ {d}
              /\ expected' = [expected EXCEPT ![d] = IF msg.final THEN 0 ELSE counter[d] + 1]
  BY DEF Deliver, Numbered
<1> HIDE DEF q
<1>4. /\ msg \in Message /\ Tail(q) \in Seq(Message)
      /\ DOMAIN q = 1..Len(q) /\ DOMAIN Tail(q) = 1..Len(q) - 1 /\ Len(q) \in Nat \ {0}
      /\ \A i \in 1..Len(q) - 1 : Tail(q)[i] = q[i + 1]
  BY <1>1, FirstTaken
<1> HIDE DEF msg
<1>5. msg.turn \in Turn /\ msg.text \in Seq(Word) /\ msg.final \in BOOLEAN
  BY <1>4 DEF Message
<1>6. issued' \in [Turn -> Seq(Word)] /\ shown' \in [Turn -> Seq(Word)]
  <2>0. /\ issued \in [Turn -> Seq(Word)] /\ shown \in [Turn -> Seq(Word)]
        /\ issued[msg.turn] \in Seq(Word) /\ shown[msg.turn] \in Seq(Word)
    BY <1>1, <1>5
  <2>1. issued[msg.turn] \o msg.text \in Seq(Word) /\ shown[msg.turn] \o msg.text \in Seq(Word)
    BY ONLY <1>5, <2>0, ConcatProperties
  <2> QED BY <1>2, <1>5, <2>0, <2>1
<1>7. faults' \in 0..MaxFaults
  BY <1>1, <1>2, Questions DEF Spend
<1>8. pending' \in [Device -> Seq(Message)]
  BY <1>1, <1>2, <1>4
<1>9. counter' \in [Device -> Nat] /\ expected' \in [Device -> Nat] /\ missed' \subseteq Device
  <2>1. counter' \in [Device -> Nat]
    BY <1>1, <1>3
  <2>2. CASE result = "lost"
    BY <2>1, <2>2, <1>1, <1>3
  <2>3. CASE result # "lost"
    <3>1. missed' \subseteq Device
      BY <2>3, <1>1, <1>3
    <3>2. expected' = [expected EXCEPT ![d] = IF msg.final THEN 0 ELSE counter[d] + 1]
      BY <2>3, <1>3
    <3>3. (IF msg.final THEN 0 ELSE counter[d] + 1) \in Nat
      BY <1>1
    <3>4. expected' \in [Device -> Nat]
      BY <1>1, <3>2, <3>3
    <3> QED BY <2>1, <3>1, <3>4
  <2> QED BY <2>2, <2>3
<1>10. TypeOK'
  BY <1>1, <1>2, <1>6, <1>7, <1>8, <1>9 DEF TypeOK
<1>11. Numbering'
  <2>1. \A c \in Device : expected[c] <= counter[c] /\ (c \in missed => expected[c] < counter[c])
    BY DEF AgentInd, Numbering
  <2>2. \A c \in Device : expected'[c] <= counter'[c] /\ (c \in missed' => expected'[c] < counter'[c])
    BY <1>1, <1>3, <1>5, <2>1 DEF Result
  <2> QED BY <2>2 DEF Numbering
<1>12. OwnScreen'
  <2> SUFFICES ASSUME NEW c \in Device, NEW i \in DOMAIN pending'[c]
               PROVE  DeviceOf[pending'[c][i].turn] = c
    BY DEF OwnScreen
  <2>1. CASE c = d
    <3>1. i + 1 \in DOMAIN q /\ pending'[c][i] = q[i + 1]
      BY <1>1, <1>2, <1>4, <2>1
    <3>2. DeviceOf[q[i + 1].turn] = d
      BY <3>1 DEF AgentInd, OwnScreen, q
    <3> QED BY <2>1, <3>1, <3>2
  <2>2. CASE c # d
    BY <2>2, <1>1, <1>2 DEF AgentInd, OwnScreen
  <2> QED BY <2>1, <2>2
<1>13. Opened'
  BY <1>2 DEF AgentInd, Opened, BackendFor
<1>14. RecordsFrom' /\ RecordsMatch'
  BY <1>2 DEF AgentInd, RecordsFrom, RecordsMatch
<1> QED BY <1>10, <1>11, <1>12, <1>13, <1>14 DEF AgentInd

\* A card is shown.
LEMMA ShowCardKeeps ==
  ASSUME AgentInd, NEW t \in Turn, NEW result \in Result, ShowCard(t, result)
  PROVE  AgentInd'
<1>1. /\ TypeOK /\ stage \in [Turn -> Stage] /\ stage[t] \in {"erring", "carding"}
      /\ faults \in 0..MaxFaults
  BY DEF AgentInd, TypeOK, ShowCard
<1>2. /\ stage' = [stage EXCEPT ![t] = IF @ = "erring" THEN "failed" ELSE "answered"]
      /\ UNCHANGED <<conversation, said, idle, gen, reply, working, records>>
      /\ UNCHANGED <<pending, counter, issued, shown, expected, missed, buffer, open, spoken>>
      /\ Spend(result)
  BY DEF ShowCard, screen, speech
<1>3. /\ stage' \in [Turn -> Stage]
      /\ \A u \in Turn : stage'[u] = IF u # t THEN stage[u] ELSE IF stage[t] = "erring" THEN "failed" ELSE "answered"
  BY <1>1, <1>2 DEF Stage
<1>4. faults' \in 0..MaxFaults
  BY <1>1, <1>2, Questions DEF Spend
<1>5. TypeOK'
  BY <1>1, <1>2, <1>3, <1>4 DEF TypeOK
<1>6. Opened'
  <2>1. \A u \in Turn : Holds(u) => Holds(u)'
    BY <1>1, <1>2, <1>3 DEF Holds, BackendFor
  <2>2. \A k \in open : \E u \in Turn : Stream(u) = k /\ Holds(u)
    BY OpenedIs DEF AgentInd
  <2>3. \A k \in open' : \E u \in Turn : Stream(u) = k /\ Holds(u)'
    BY <1>2, <2>1, <2>2
  <2> QED BY <2>3 DEF Opened, Holds
<1>7. RecordsFrom' /\ RecordsMatch'
  <2>1. Asked' = Asked
    BY <1>1, <1>3 DEF Asked
  <2>2. Filed(records', Asked')
    BY <1>1, <1>2, <2>1, FiledIs DEF AgentInd
  <2> QED BY <1>5, <2>2, FiledNext
<1>8. Numbering' /\ OwnScreen'
  BY <1>2 DEF AgentInd, Numbering, OwnScreen
<1> QED BY <1>5, <1>6, <1>7, <1>8 DEF AgentInd

\* What an agent may send is an event of its backend.
LEMMA EventIs ==
  ASSUME TypeOK, NEW t \in Turn, NEW kind \in Kinds(BackendFor(t)),
         NEW n \in 0..ReplyLen[t], Possible(t, kind, n)
  PROVE  LET e == Event(t, kind, n) IN
         EventOf(BackendFor(t), e) \/ e.kind \in {"fail", "crash"}
<1> DEFINE e == Event(t, kind, n)
<1>1. said[t] \in Nat
  BY DEF TypeOK
<1>2. Reply(t, n) \in Seq(Word) /\ n \in Nat
  BY ReplyTyped
<1>3. n > 0 => Reply(t, n) # <<>> /\ <<<<t, n>>>> \in Seq(Word) /\ <<<<t, n>>>> # <<>>
  BY ReplyTyped
<1>4. kind \in {"delta", "snapshot"} => n > 0
  BY <1>1, <1>2 DEF Possible
<1>5. e.kind = kind /\ e.text = IF kind = "delta" THEN <<<<t, n>>>> ELSE Reply(t, n)
  BY DEF Event
<1> HIDE DEF e
<1>6. e.text \in Seq(Word)
  BY <1>2, <1>3, <1>4, <1>5
<1>7. e.kind \in {"delta", "snapshot"} => e.text # <<>>
  BY <1>3, <1>4, <1>5
<1> QED BY <1>5, <1>6, <1>7 DEF EventOf, e

\* What every event changes of a turn, and of no other.
LEMMA SendsTyped ==
  ASSUME TypeOK, NEW t \in Turn, stage[t] = "running", NEW kind \in Kinds(BackendFor(t)),
         NEW n \in 0..ReplyLen[t], Possible(t, kind, n), AgentSends(t, kind, n)
  PROVE  LET s == BackendStep(BackendFor(t), gen[t], Event(t, kind, n)) IN
         /\ Contract(BackendFor(t), gen[t], s)
         /\ said' \in [Turn -> Nat] /\ \A u \in Turn : said'[u] <= ReplyLen[u]
         /\ idle' \in 0..MaxIdle /\ faults' \in 0..MaxFaults
         /\ gen' \in [Turn -> Gen]
         /\ \A u \in Turn : gen'[u] = IF u = t THEN s.gen ELSE gen[u]
<1> DEFINE s == BackendStep(BackendFor(t), gen[t], Event(t, kind, n))
<1>1. /\ said \in [Turn -> Nat] /\ (\A u \in Turn : said[u] <= ReplyLen[u])
      /\ idle \in 0..MaxIdle /\ faults \in 0..MaxFaults
      /\ gen \in [Turn -> Gen] /\ MaxIdle \in Nat /\ MaxFaults \in Nat /\ ReplyLen[t] \in Nat
  BY Questions DEF TypeOK
<1>2. Contract(BackendFor(t), gen[t], s)
  BY <1>1, BackendIs, EventIs, BackendContract
<1>3. s.gen \in Gen
  BY <1>2 DEF Contract
<1>4. gen' = [gen EXCEPT ![t] = s.gen] /\ said' = [said EXCEPT ![t] = n]
  BY DEF AgentSends
<1>5. /\ idle' = idle \/ (idle' = idle + 1 /\ idle < MaxIdle)
      /\ faults' = faults \/ (faults' = faults + 1 /\ faults < MaxFaults)
  BY DEF AgentSends
<1> HIDE DEF s
<1>6. idle' \in 0..MaxIdle /\ faults' \in 0..MaxFaults
  BY <1>1, <1>5
<1>7. gen' \in [Turn -> Gen] /\ \A u \in Turn : gen'[u] = IF u = t THEN s.gen ELSE gen[u]
  BY <1>1, <1>3, <1>4
<1>8. said' \in [Turn -> Nat] /\ \A u \in Turn : said'[u] <= ReplyLen[u]
  BY <1>1, <1>4
<1> QED BY <1>2, <1>6, <1>7, <1>8 DEF s

\* The turn whose events come is the only one a step takes on.
LEMMA StageNext ==
  ASSUME TypeOK, NEW t \in Turn, NEW to \in Stage \ {"new"}, stage[t] = "running",
         stage' = [stage EXCEPT ![t] = to]
  PROVE  /\ stage' \in [Turn -> Stage] /\ Asked' = Asked
         /\ \A u \in Turn : stage'[u] = IF u = t THEN to ELSE stage[u]
<1>1. stage \in [Turn -> Stage]
  BY DEF TypeOK
<1>2. stage' \in [Turn -> Stage] /\ \A u \in Turn : stage'[u] = IF u = t THEN to ELSE stage[u]
  BY <1>1
<1> QED BY <1>2 DEF Asked

\* The turn of an event, and how the event changes its stream.
Leaves(t, chunks) ==
  /\ Quiet(chunks) => open' = open
  /\ Shut(chunks) => Stream(t) \notin open'
  /\ open' \subseteq open \cup {Stream(t)}

\* An event of an agent.
LEMMA SendsKeeps ==
  ASSUME AgentInd, NEW t \in Turn, AgentSays(t)
  PROVE  AgentInd'
<1> DEFINE b == BackendFor(t)
<1>1. PICK kind \in Kinds(b), n \in 0..ReplyLen[t] :
        Possible(t, kind, n) /\ AgentSends(t, kind, n)
  BY DEF AgentSays
<1>2. TypeOK /\ stage[t] = "running" /\ t \in Asked /\ Filed(records, Asked) /\ OwnScreen
  BY FiledIs DEF AgentInd, AgentSays, Asked
<1> DEFINE s == BackendStep(b, gen[t], Event(t, kind, n))
<1>3. /\ Contract(b, gen[t], s)
      /\ said' \in [Turn -> Nat] /\ (\A u \in Turn : said'[u] <= ReplyLen[u])
      /\ idle' \in 0..MaxIdle /\ faults' \in 0..MaxFaults
      /\ gen' \in [Turn -> Gen]
      /\ \A u \in Turn : gen'[u] = IF u = t THEN s.gen ELSE gen[u]
  BY <1>1, <1>2, SendsTyped
<1>4. UNCHANGED <<conversation, counter, issued, shown, expected, missed>>
  BY <1>1 DEF AgentSends
<1>5. \/ s.end = "on" /\ Hears(t, s.chunks) /\ UNCHANGED <<stage, records>>
      \/ s.end = "done" /\ Streams(b) /\ StreamEnds(t, s.chunks)
      \/ s.end = "done" /\ ~Streams(b) /\ ResponseComes(t, s.gen.text)
      \/ s.end = "fail" /\ RequestFails(t)
      \/ s.end = "crash" /\ HandlerCrashes(t)
  BY <1>1 DEF AgentSends
<1>6. \A k \in open : \E u \in Turn : Stream(u) = k /\ Holds(u)
  BY OpenedIs DEF AgentInd
<1> HIDE DEF s
<1>7. s.gen \in Gen /\ s.gen.text \in Seq(Word) /\ Chunked(s.chunks)
  BY <1>3 DEF Contract, Gen
\* What is left to show of a step.
<1>8. ASSUME stage' \in [Turn -> Stage], reply' \in [Turn -> Seq(Word)],
             working' \subseteq Turn, pending' \in [Device -> Seq(Message)],
             buffer' \in [Device \X Key -> Seq(Word)],
             spoken' \in [Device \X Key -> Seq(Word)],
             open' \subseteq Device \X Key,
             Filed(records', Asked'), OwnScreen',
             \A k \in open' : \E u \in Turn : Stream(u) = k /\ Holds(u)'
      PROVE  AgentInd'
  <2>1. records' \in Seq(RecordType)
    BY <1>8 DEF Filed
  <2>2. TypeOK'
    BY <1>2, <1>3, <1>4, <1>8, <2>1 DEF TypeOK
  <2>3. Opened'
    BY <1>8 DEF Opened, Holds
  <2>4. RecordsFrom' /\ RecordsMatch'
    BY <1>8, <2>2, FiledNext
  <2>5. Numbering'
    BY <1>4 DEF AgentInd, Numbering
  <2> QED BY <1>8, <2>2, <2>3, <2>4, <2>5 DEF AgentInd
\* Another turn holds what it held.
<1>9. ASSUME \A u \in Turn \ {t} : stage'[u] = stage[u]
      PROVE  \A u \in Turn \ {t} : Holds(u) => Holds(u)'
  BY <1>3, <1>4, <1>9 DEF Holds, BackendFor
<1>10. (BackendFor(t))' = b
  BY <1>4 DEF BackendFor
<1>11. CASE s.end = "on" /\ Hears(t, s.chunks) /\ UNCHANGED <<stage, records>>
  <2>1. /\ reply' \in [Turn -> Seq(Word)]
        /\ working' \subseteq Turn /\ pending' \in [Device -> Seq(Message)] /\ OwnScreen'
        /\ buffer' \in [Device \X Key -> Seq(Word)]
        /\ spoken' \in [Device \X Key -> Seq(Word)]
        /\ open' \subseteq Device \X Key
        /\ Leaves(t, s.chunks)
    BY <1>2, <1>7, <1>11, HearsIs DEF Leaves
  <2>2. stage' \in [Turn -> Stage] /\ Asked' = Asked /\ stage'[t] = "running" /\ records' = records
    BY <1>2, <1>11 DEF TypeOK, Asked
  <2>3. Filed(records', Asked')
    BY <1>2, <2>2
  <2>4. \A u \in Turn \ {t} : Holds(u) => Holds(u)'
    BY <1>9, <1>11
  <2>5. b = "openclaw" \/ WillClose(b, s.gen) => Holds(t)'
    BY <1>3, <1>10, <2>2 DEF Holds
  <2>6. Holds(t) => b = "openclaw" \/ WillClose(b, gen[t])
    BY <1>2 DEF Holds
  <2>7. b # "openclaw" => \/ Shut(s.chunks) \/ WillClose(b, s.gen)
                          \/ (Quiet(s.chunks) /\ ~WillClose(b, gen[t]))
    BY <1>3, <1>11 DEF Contract
  <2>8. \A k \in open' : \E u \in Turn : Stream(u) = k /\ Holds(u)'
    <3> SUFFICES ASSUME NEW k \in open' PROVE \E u \in Turn : Stream(u) = k /\ Holds(u)'
      OBVIOUS
    <3>1. CASE k \in open
      <4>1. PICK u \in Turn : Stream(u) = k /\ Holds(u)
        BY <1>6, <3>1
      <4>2. u = t => Holds(t)'
        BY <2>1, <2>5, <2>6, <2>7, <4>1 DEF Leaves
      <4> QED BY <2>4, <4>1, <4>2
    <3>2. CASE k \notin open
      <4>1. k = Stream(t) /\ ~Quiet(s.chunks) /\ ~Shut(s.chunks)
        BY <2>1, <3>2 DEF Leaves
      <4> QED BY <2>5, <2>7, <4>1
    <3> QED BY <3>1, <3>2
  <2> QED BY <1>8, <2>1, <2>2, <2>3, <2>8
<1>12. CASE s.end = "done" /\ Streams(b) /\ StreamEnds(t, s.chunks)
  <2>0. /\ Hears(t, s.chunks) /\ records' = Answered(t, reply'[t])
        /\ stage' = [stage EXCEPT ![t] = "answered"]
    BY <1>12 DEF StreamEnds
  <2>1. /\ reply' \in [Turn -> Seq(Word)]
        /\ working' \subseteq Turn /\ pending' \in [Device -> Seq(Message)] /\ OwnScreen'
        /\ buffer' \in [Device \X Key -> Seq(Word)]
        /\ spoken' \in [Device \X Key -> Seq(Word)]
        /\ open' \subseteq Device \X Key
        /\ Leaves(t, s.chunks)
    BY <1>2, <1>7, <2>0, HearsIs DEF Leaves
  <2>2. /\ stage' \in [Turn -> Stage] /\ Asked' = Asked
        /\ \A u \in Turn : stage'[u] = IF u = t THEN "answered" ELSE stage[u]
    BY <1>2, <2>0, StageNext DEF Stage
  <2>3. Filed(records', Asked')
    <3>1. reply'[t] \in Seq(Word)
      BY <2>1
    <3> QED BY <1>2, <2>0, <2>2, <3>1, AnsweredKeeps
  <2>4. \A u \in Turn \ {t} : Holds(u) => Holds(u)'
    BY <1>9, <2>2
  <2>5. b = "openclaw" => Holds(t)'
    BY <1>10, <2>2 DEF Holds
  <2>6. Holds(t) => b = "openclaw" \/ WillClose(b, gen[t])
    BY <1>2 DEF Holds
  <2>7. b # "openclaw" => Shut(s.chunks) \/ (Quiet(s.chunks) /\ ~WillClose(b, gen[t]))
    <3>1. b # "cli" /\ s.end = "done"
      BY <1>12 DEF Streams
    <3> HIDE DEF b
    <3> QED BY <1>3, <3>1 DEF Contract
  <2>8. \A k \in open' : \E u \in Turn : Stream(u) = k /\ Holds(u)'
    <3> SUFFICES ASSUME NEW k \in open' PROVE \E u \in Turn : Stream(u) = k /\ Holds(u)'
      OBVIOUS
    <3>1. CASE k \in open
      <4>1. PICK u \in Turn : Stream(u) = k /\ Holds(u)
        BY <1>6, <3>1
      <4>2. u = t => Holds(t)'
        BY <2>1, <2>5, <2>6, <2>7, <4>1 DEF Leaves
      <4> QED BY <2>4, <4>1, <4>2
    <3>2. CASE k \notin open
      <4>1. k = Stream(t) /\ ~Quiet(s.chunks) /\ ~Shut(s.chunks)
        BY <2>1, <3>2 DEF Leaves
      <4> QED BY <2>5, <2>7, <4>1
    <3> QED BY <3>1, <3>2
  <2> QED BY <1>8, <2>1, <2>2, <2>3, <2>8
<1>13. CASE s.end = "done" /\ ~Streams(b) /\ ResponseComes(t, s.gen.text)
  <2> DEFINE to == IF t \in Spoken THEN "answered" ELSE "carding"
             p == Speech(t)
             said1 == [p EXCEPT !.spoken = @ \o s.gen.text]
  <2>0. /\ Speaks(t, said1) /\ records' = Answered(t, s.gen.text)
        /\ stage' = [stage EXCEPT ![t] = to] /\ UNCHANGED <<reply, working, pending>>
    BY <1>13 DEF ResponseComes
  <2>1. said1 \in SpeechType /\ (said1.open <=> Stream(t) \in open)
    <3>1. p \in SpeechType /\ (p.open <=> Stream(t) \in open)
      BY <1>2, SpeechIs
    <3> HIDE DEF p
    <3>2. p.spoken \o s.gen.text \in Seq(Word)
      BY <1>7, <3>1, ConcatProperties DEF SpeechType
    <3> QED BY <3>1, <3>2 DEF SpeechType
  <2> HIDE DEF said1
  <2>2. /\ buffer' \in [Device \X Key -> Seq(Word)]
        /\ spoken' \in [Device \X Key -> Seq(Word)]
        /\ open' \subseteq Device \X Key
        /\ open' = IF said1.open THEN open \cup {Stream(t)} ELSE open \ {Stream(t)}
    BY <1>2, <2>0, <2>1, SpeaksIs
  <2>3. open' = open
    BY <2>1, <2>2
  <2>4. to \in Stage \ {"new"}
    BY DEF Stage
  <2> HIDE DEF to
  <2>5. /\ stage' \in [Turn -> Stage] /\ Asked' = Asked
        /\ \A u \in Turn : stage'[u] = IF u = t THEN to ELSE stage[u]
    BY <1>2, <2>0, <2>4, StageNext
  <2>6. Filed(records', Asked')
    BY <1>2, <1>7, <2>0, <2>5, AnsweredKeeps
  <2>7. \A u \in Turn \ {t} : Holds(u) => Holds(u)'
    BY <1>9, <2>5
  <2>8. ~Holds(t)
    BY <1>2, <1>13 DEF Holds, Streams, WillClose
  <2>9. \A k \in open' : \E u \in Turn : Stream(u) = k /\ Holds(u)'
    BY <1>6, <2>3, <2>7, <2>8
  <2>10. reply' \in [Turn -> Seq(Word)] /\ working' \subseteq Turn /\ pending' \in [Device -> Seq(Message)]
    BY <1>2, <2>0 DEF TypeOK
  <2>11. OwnScreen'
    BY <1>2, <2>0 DEF OwnScreen
  <2> QED BY <1>8, <2>2, <2>5, <2>6, <2>9, <2>10, <2>11
<1>14. ASSUME NEW to \in {"failed", "erring", "crashed"}, stage' = [stage EXCEPT ![t] = to],
              UNCHANGED <<reply, working, pending, buffer, open, spoken, records>>
       PROVE  AgentInd'
  <2>1. /\ stage' \in [Turn -> Stage] /\ Asked' = Asked
        /\ \A u \in Turn : stage'[u] = IF u = t THEN to ELSE stage[u]
    BY <1>2, <1>14, StageNext DEF Stage
  <2>2. Filed(records', Asked')
    BY <1>2, <1>14, <2>1
  <2>3. \A u \in Turn : Holds(u) => Holds(u)'
    BY <1>9, <2>1 DEF Holds
  <2>4. \A k \in open' : \E u \in Turn : Stream(u) = k /\ Holds(u)'
    BY <1>6, <1>14, <2>3
  <2>5. /\ reply' \in [Turn -> Seq(Word)] /\ working' \subseteq Turn
        /\ pending' \in [Device -> Seq(Message)]
        /\ buffer' \in [Device \X Key -> Seq(Word)]
        /\ spoken' \in [Device \X Key -> Seq(Word)]
        /\ open' \subseteq Device \X Key
    BY <1>2, <1>14 DEF TypeOK
  <2>6. OwnScreen'
    BY <1>2, <1>14 DEF OwnScreen
  <2> QED BY <1>8, <2>1, <2>2, <2>4, <2>5, <2>6
<1>15. CASE s.end = "fail" /\ RequestFails(t)
  <2>1. /\ stage' = [stage EXCEPT ![t] = IF t \in Spoken THEN "failed" ELSE "erring"]
        /\ UNCHANGED <<reply, working, pending, buffer, open, spoken, records>>
    BY <1>15 DEF RequestFails, speech
  <2> QED BY <1>14, <2>1
<1>16. CASE s.end = "crash" /\ HandlerCrashes(t)
  <2>1. /\ stage' = [stage EXCEPT ![t] = "crashed"]
        /\ UNCHANGED <<reply, working, pending, buffer, open, spoken, records>>
    BY <1>16 DEF HandlerCrashes, speech
  <2> QED BY <1>14, <2>1
<1> QED BY <1>5, <1>11, <1>12, <1>13, <1>15, <1>16

\* A turn starts with nothing said.
LEMMA AgentStart ==
  ASSUME Init
  PROVE  AgentInd
<1>0. 0 \in Nat /\ <<>> \in Seq(Word) /\ <<>> \in Seq(Message) /\ <<>> \in Seq(RecordType)
  BY EmptySeq
<1>1. DOMAIN <<>> = {}
  OBVIOUS
<1>2. /\ stage = [t \in Turn |-> "new"] /\ conversation \in [Device -> Backend]
      /\ said = [t \in Turn |-> 0] /\ idle = 0 /\ working = {} /\ faults = 0
      /\ counter = [d \in Device |-> 0] /\ expected = [d \in Device |-> 0] /\ missed = {}
      /\ open = {} /\ records = <<>>
  BY DEF Init
<1>3. /\ gen = [t \in Turn |-> Fresh] /\ reply = [t \in Turn |-> <<>>]
      /\ pending = [d \in Device |-> <<>>] /\ issued = [t \in Turn |-> <<>>]
      /\ shown = [t \in Turn |-> <<>>]
      /\ buffer = [k \in Device \X Key |-> <<>>] /\ spoken = [k \in Device \X Key |-> <<>>]
  BY DEF Init
<1>4. Fresh \in Gen
  BY <1>0 DEF Fresh, Gen
<1>5. /\ gen \in [Turn -> Gen] /\ reply \in [Turn -> Seq(Word)]
      /\ pending \in [Device -> Seq(Message)] /\ issued \in [Turn -> Seq(Word)]
      /\ shown \in [Turn -> Seq(Word)]
      /\ buffer \in [Device \X Key -> Seq(Word)]
      /\ spoken \in [Device \X Key -> Seq(Word)]
  BY <1>0, <1>3, <1>4
<1>6. records \in Seq(RecordType)
  BY <1>0, <1>2
<1>7. /\ stage \in [Turn -> Stage] /\ said \in [Turn -> Nat] /\ \A t \in Turn : said[t] <= ReplyLen[t]
  BY <1>2, Questions DEF Stage
<1>8. idle \in 0..MaxIdle /\ faults \in 0..MaxFaults
  BY <1>2, Questions
<1>9. /\ working \subseteq Turn /\ counter \in [Device -> Nat] /\ expected \in [Device -> Nat]
      /\ missed \subseteq Device /\ open \subseteq Device \X Key
  BY <1>2
<1>10. TypeOK
  BY <1>2, <1>5, <1>6, <1>7, <1>8, <1>9 DEF TypeOK
<1>11. Numbering /\ Opened
  BY <1>2 DEF Numbering, Opened
<1>12. DOMAIN records = {} /\ \A d \in Device : DOMAIN pending[d] = {}
  BY <1>1, <1>2, <1>3
<1>13. RecordsFrom /\ RecordsMatch /\ OwnScreen
  BY <1>12 DEF RecordsFrom, RecordsMatch, OwnScreen
<1> QED BY <1>10, <1>11, <1>13 DEF AgentInd

\* Every step of a turn keeps the invariant.
LEMMA AgentStep ==
  ASSUME AgentInd, [Next]_vars
  PROVE  AgentInd'
<1>1. CASE UNCHANGED vars
  <2>1. /\ UNCHANGED <<stage, conversation, said, idle, gen, reply, working, records, faults>>
        /\ UNCHANGED <<pending, counter, issued, shown, expected, missed, buffer, open, spoken>>
    BY <1>1 DEF vars, screen, speech
  <2>2. TypeOK'
    BY <2>1 DEF AgentInd, TypeOK
  <2>3. Numbering' /\ OwnScreen'
    BY <2>1 DEF AgentInd, Numbering, OwnScreen
  <2>4. Opened'
    BY <2>1 DEF AgentInd, Opened, BackendFor
  <2>5. RecordsFrom' /\ RecordsMatch'
    BY <2>1 DEF AgentInd, RecordsFrom, RecordsMatch
  <2> QED BY <2>2, <2>3, <2>4, <2>5 DEF AgentInd
<1>2. ASSUME NEW t \in Turn, Ask(t)
      PROVE  AgentInd'
  BY <1>2, AskKeeps
<1>3. ASSUME NEW t \in Turn, AgentSays(t)
      PROVE  AgentInd'
  BY <1>3, SendsKeeps
<1>4. ASSUME NEW t \in Turn, NEW r \in Result, ShowCard(t, r)
      PROVE  AgentInd'
  BY <1>4, ShowCardKeeps
<1>5. ASSUME NEW d \in Device, NEW r \in Result, Deliver(d, r)
      PROVE  AgentInd'
  BY <1>5, DeliverKeeps
<1> QED BY <1>1, <1>2, <1>3, <1>4, <1>5 DEF Next, Work

\* What the subscribers of the bus and the list of transcripts keep, for any
\* number of devices, questions, backends, words and faults.
THEOREM AgentInductive == Spec => []AgentInd
<1>1. Init => AgentInd
  BY AgentStart
<1>2. AgentInd /\ [Next]_vars => AgentInd'
  BY AgentStep
<1> QED BY <1>1, <1>2, PTL DEF Spec

\* An open segmenter is of a turn that goes on or was cut short, and a device
\* that missed a command finds out from the next number.
THEOREM TurnsKept == Spec => []TurnInv
<1>1. AgentInd => TurnInv
  <2> SUFFICES ASSUME AgentInd PROVE TurnInv
    OBVIOUS
  <2>1. NoStaleSpeech
    BY DEF AgentInd, Opened, NoStaleSpeech
  <2>2. LossNoticed
    <3> SUFFICES ASSUME NEW d \in missed PROVE counter[d] # expected[d]
      BY DEF LossNoticed
    <3>1. d \in Device /\ counter[d] \in Nat /\ expected[d] \in Nat
      BY DEF AgentInd, TypeOK
    <3>2. expected[d] < counter[d]
      BY <3>1 DEF AgentInd, Numbering
    <3> QED BY <3>1, <3>2
  <2> QED BY <2>1, <2>2 DEF AgentInd, TurnInv
<1> QED BY <1>1, AgentInductive, PTL

\* One record for a conversation, and each answer under its own question.
THEOREM AnswersFiled == Spec => []RecordsMatch
<1>1. AgentInd => RecordsMatch
  BY DEF AgentInd
<1> QED BY <1>1, AgentInductive, PTL

-----------------------------------------------------------------------------
(* The words of a turn in what waits for a screen.                         *)

\* f[n] is the text of a turn in the first n messages.
Awaits(f, m, ms, t) ==
  f = [n \in 0..m |->
         IF n = 0 THEN <<>> ELSE IF ms[n].turn = t THEN f[n - 1] \o ms[n].text ELSE f[n - 1]]

\* The recursion of Awaited has a solution.
LEMMA AwaitsExists ==
  ASSUME NEW ms, NEW t, NEW m \in Nat
  PROVE  \E f : Awaits(f, m, ms, t)
<1> DEFINE Bad == {n \in Nat : ~\E f : Awaits(f, n, ms, t)}
<1>1. SUFFICES ASSUME Bad # {} PROVE FALSE
  OBVIOUS
<1>2. PICK n \in Bad : \A k \in Bad : n <= k
  <2>1. Bad \subseteq Nat
    OBVIOUS
  <2> HIDE DEF Bad
  <2> QED BY <1>1, <2>1, FirstPosition
<1>3. CASE n = 0
  <2>1. Awaits([k \in 0..0 |-> <<>>], 0, ms, t)
    BY DEF Awaits
  <2> QED BY <2>1, <1>3
<1>4. CASE n # 0
  <2>1. n - 1 \in Nat /\ n - 1 \notin Bad
    BY <1>2, <1>4
  <2>2. PICK f : Awaits(f, n - 1, ms, t)
    BY <2>1
  <2> DEFINE end == IF ms[n].turn = t THEN f[n - 1] \o ms[n].text ELSE f[n - 1]
             g == [k \in 0..n |-> IF k < n THEN f[k] ELSE end]
  <2> HIDE DEF end
  <2>3. \A k \in 0..n - 1 : g[k] = f[k]
    BY <1>4
  <2>4. \A k \in 0..n - 1 :
          f[k] = IF k = 0 THEN <<>> ELSE IF ms[k].turn = t THEN f[k - 1] \o ms[k].text ELSE f[k - 1]
    BY <2>2 DEF Awaits
  <2>5. ASSUME NEW k \in 0..n
        PROVE  g[k] = IF k = 0 THEN <<>> ELSE IF ms[k].turn = t THEN g[k - 1] \o ms[k].text ELSE g[k - 1]
    <3>1. CASE k = n
      <4>1. g[n] = end /\ g[n - 1] = f[n - 1]
        BY <1>4, <2>3, <2>1
      <4> HIDE DEF g
      <4> QED BY <3>1, <4>1, <1>4 DEF end
    <3>2. CASE k # n
      <4>1. k \in 0..n - 1 /\ (k # 0 => k - 1 \in 0..n - 1)
        BY <3>2, <2>1
      <4>2. g[k] = f[k] /\ (k # 0 => g[k - 1] = f[k - 1])
        BY <4>1, <2>3
      <4> HIDE DEF g
      <4> QED BY <4>1, <4>2, <2>4
    <3> QED BY <3>1, <3>2
  <2>6. DOMAIN g = 0..n /\ g = [k \in DOMAIN g |-> g[k]]
    OBVIOUS
  <2> HIDE DEF g
  <2>7. Awaits(g, n, ms, t)
    BY <2>5, <2>6 DEF Awaits
  <2> QED BY <2>7, <1>2
<1> QED BY <1>3, <1>4

\* The recursion that Awaited stands for, step by step: each is a text.
LEMMA AwaitedSteps ==
  ASSUME NEW ms \in Seq(Message), NEW t
  PROVE  \E f : /\ Awaited(ms, t) = f[Len(ms)] /\ f[0] = <<>> /\ Len(ms) \in Nat
                /\ \A n \in 1..Len(ms) :
                     f[n] = IF ms[n].turn = t THEN f[n - 1] \o ms[n].text ELSE f[n - 1]
                /\ \A n \in 0..Len(ms) : f[n] \in Seq(Word)
<1> DEFINE F == CHOOSE f : Awaits(f, Len(ms), ms, t)
<1>1. Awaited(ms, t) = F[Len(ms)]
  BY DEF Awaited, Awaits
<1>2. Len(ms) \in Nat /\ \A n \in 1..Len(ms) : ms[n] \in Message
  BY LenProperties, ElementOfSeq
<1>3. Awaits(F, Len(ms), ms, t)
  BY <1>2, AwaitsExists
<1> HIDE DEF F
<1>4. \A n \in 0..Len(ms) :
        F[n] = IF n = 0 THEN <<>> ELSE IF ms[n].turn = t THEN F[n - 1] \o ms[n].text ELSE F[n - 1]
  BY <1>3 DEF Awaits
<1>5. F[0] = <<>> /\ \A n \in 1..Len(ms) :
        F[n] = IF ms[n].turn = t THEN F[n - 1] \o ms[n].text ELSE F[n - 1]
  <2>1. \A n \in 1..Len(ms) : n \in 0..Len(ms) /\ n # 0
    BY <1>2
  <2> QED BY <1>2, <1>4, <2>1
<1> DEFINE Texts == {n \in 0..Len(ms) : F[n] \in Seq(Word)}
<1>6. 0 \in Texts
  <2>1. F[0] \in Seq(Word)
    BY <1>5, EmptySeq
  <2> QED BY <2>1, <1>2
<1>7. ASSUME NEW n \in 1..Len(ms), n - 1 \in Texts
      PROVE  n \in Texts
  <2>1. F[n - 1] \in Seq(Word) /\ ms[n].text \in Seq(Word)
    BY <1>2, <1>7 DEF Message
  <2> DEFINE a == F[n - 1]
             b == ms[n].text
  <2>2. a \o b \in Seq(Word)
    <3> HIDE DEF a, b
    <3> QED BY <2>1, ConcatProperties DEF a, b
  <2>3. F[n] = IF ms[n].turn = t THEN a \o b ELSE a
    BY <1>5
  <2>4. F[n] \in Seq(Word)
    BY <2>1, <2>2, <2>3
  <2> QED BY <2>4, <1>2
<1>8. 0..Len(ms) \subseteq Texts
  <2> HIDE DEF Texts
  <2> QED BY <1>2, <1>6, <1>7, CountedUp
<1> QED BY <1>1, <1>2, <1>5, <1>8

\* The words of a turn in two lists of messages, one after the other.
LEMMA AwaitedOfBoth ==
  ASSUME NEW ms \in Seq(Message), NEW ns \in Seq(Message), NEW t
  PROVE  Awaited(ms \o ns, t) = Awaited(ms, t) \o Awaited(ns, t)
<1> DEFINE both == ms \o ns
           a == Len(ms)
           b == Len(ns)
<1>1. /\ both \in Seq(Message) /\ Len(both) = a + b /\ a \in Nat /\ b \in Nat
      /\ \A i \in 1..a : both[i] = ms[i]
      /\ \A i \in 1..b : both[a + i] = ns[i]
  BY BothLists
<1> HIDE DEF both, a, b
<1>2. PICK F : /\ Awaited(ms, t) = F[a] /\ F[0] = <<>>
               /\ \A n \in 1..a : F[n] = IF ms[n].turn = t THEN F[n - 1] \o ms[n].text ELSE F[n - 1]
               /\ \A n \in 0..a : F[n] \in Seq(Word)
  <2>1. PICK f : /\ Awaited(ms, t) = f[Len(ms)] /\ f[0] = <<>> /\ Len(ms) \in Nat
                 /\ \A n \in 1..Len(ms) :
                      f[n] = IF ms[n].turn = t THEN f[n - 1] \o ms[n].text ELSE f[n - 1]
                 /\ \A n \in 0..Len(ms) : f[n] \in Seq(Word)
    BY AwaitedSteps
  <2> QED BY <2>1 DEF a
<1>3. PICK U : /\ Awaited(ns, t) = U[b] /\ U[0] = <<>>
               /\ \A n \in 1..b : U[n] = IF ns[n].turn = t THEN U[n - 1] \o ns[n].text ELSE U[n - 1]
               /\ \A n \in 0..b : U[n] \in Seq(Word)
  <2>1. PICK f : /\ Awaited(ns, t) = f[Len(ns)] /\ f[0] = <<>> /\ Len(ns) \in Nat
                 /\ \A n \in 1..Len(ns) :
                      f[n] = IF ns[n].turn = t THEN f[n - 1] \o ns[n].text ELSE f[n - 1]
                 /\ \A n \in 0..Len(ns) : f[n] \in Seq(Word)
    BY AwaitedSteps
  <2> QED BY SMTT(30), <2>1 DEF b
<1>4. PICK H : /\ Awaited(both, t) = H[a + b] /\ H[0] = <<>>
               /\ \A n \in 1..a + b : H[n] = IF both[n].turn = t THEN H[n - 1] \o both[n].text ELSE H[n - 1]
  <2>0. both \in Seq(Message)
    BY <1>1
  <2>1. PICK f : /\ Awaited(both, t) = f[Len(both)] /\ f[0] = <<>> /\ Len(both) \in Nat
                 /\ \A n \in 1..Len(both) :
                      f[n] = IF both[n].turn = t THEN f[n - 1] \o both[n].text ELSE f[n - 1]
                 /\ \A n \in 0..Len(both) : f[n] \in Seq(Word)
    BY ONLY <2>0, AwaitedSteps
  <2>2. Len(both) = a + b
    BY <1>1
  <2> QED BY ONLY <2>1, <2>2
<1>5. \A n \in 0..a : H[n] = F[n]
  <2> DEFINE G == {n \in 0..a : H[n] = F[n]}
  <2>1. 0 \in G
    BY <1>1, <1>2, <1>4
  <2>2. ASSUME NEW n \in 1..a, n - 1 \in G PROVE n \in G
    <3>1. n \in 0..a /\ n \in 1..a + b /\ both[n] = ms[n] /\ H[n - 1] = F[n - 1]
      BY <1>1, <2>2
    <3> QED BY <1>2, <1>4, <3>1
  <2>3. 0..a \subseteq G
    <3> HIDE DEF G
    <3> QED BY <1>1, <2>1, <2>2, CountedUp
  <2> QED BY <2>3
<1>6. \A n \in 0..b : H[a + n] = F[a] \o U[n]
  <2> DEFINE G == {n \in 0..b : H[a + n] = F[a] \o U[n]}
             top == F[a]
  <2>0. top \in Seq(Word)
    BY <1>1, <1>2
  <2>1. 0 \in G
    <3>1. a + 0 = a /\ a \in 0..a /\ 0 \in 0..b
      BY <1>1
    <3>2. F[a] \o <<>> = F[a]
      <4> HIDE DEF top
      <4>1. top \o <<>> = top
        BY <2>0, ConcatEmptySeq
      <4> QED BY <4>1 DEF top
    <3>3. H[a + 0] = F[a] \o U[0]
      BY <3>1, <3>2, <1>3, <1>5
    <3> QED BY <3>1, <3>3
  <2>2. ASSUME NEW n \in 1..b, n - 1 \in G PROVE n \in G
    <3>1. n \in 0..b /\ n - 1 \in 0..b /\ a + n \in 1..a + b /\ (a + n) - 1 = a + (n - 1) /\ both[a + n] = ns[n]
      BY <1>1
    <3>2. H[a + (n - 1)] = F[a] \o U[n - 1]
      BY <2>2
    <3> DEFINE u == U[n - 1]
               x == ns[n].text
    <3>3. u \in Seq(Word) /\ x \in Seq(Word)
      <4>1. ns[n] \in Message
        BY <1>1, ElementOfSeq DEF b
      <4> QED BY <4>1, <3>1, <1>3 DEF Message
    <3>4. (top \o u) \o x = top \o (u \o x)
      <4> HIDE DEF top, u, x
      <4> QED BY SMTT(30), <2>0, <3>3, ConcatAssociative
    <3>5. H[a + n] = IF ns[n].turn = t THEN (top \o u) \o x ELSE top \o u
      BY <1>4, <3>1, <3>2
    <3>6. U[n] = IF ns[n].turn = t THEN u \o x ELSE u
      BY <1>3
    <3>7. H[a + n] = F[a] \o U[n]
      BY <3>4, <3>5, <3>6
    <3> QED BY <3>1, <3>7
  <2>3. 0..b \subseteq G
    <3> HIDE DEF G
    <3> QED BY <1>1, <2>1, <2>2, CountedUp
  <2> QED BY <2>3
<1>7. H[a + b] = F[a] \o U[b]
  <2>1. b \in 0..b
    BY <1>1
  <2> QED BY ONLY <2>1, <1>6
<1> QED BY <1>2, <1>3, <1>4, <1>7 DEF both

\* What of no message, of one and of two is awaited.
LEMMA AwaitedOfFew ==
  ASSUME NEW ms \in Seq(Message), NEW t
  PROVE  /\ Awaited(ms, t) \in Seq(Word)
         /\ Len(ms) = 0 => Awaited(ms, t) = <<>>
         /\ Len(ms) = 1 => Awaited(ms, t) = IF ms[1].turn = t THEN ms[1].text ELSE <<>>
         /\ Len(ms) = 2 /\ ms[1].turn = t /\ ms[2].turn = t => Awaited(ms, t) = ms[1].text \o ms[2].text
         /\ (\A i \in 1..Len(ms) : ms[i].turn # t) => Awaited(ms, t) = <<>>
<1>1. PICK F : /\ Awaited(ms, t) = F[Len(ms)] /\ F[0] = <<>> /\ Len(ms) \in Nat
               /\ \A n \in 1..Len(ms) : F[n] = IF ms[n].turn = t THEN F[n - 1] \o ms[n].text ELSE F[n - 1]
               /\ \A n \in 0..Len(ms) : F[n] \in Seq(Word)
  BY AwaitedSteps
<1>2. \A n \in 1..Len(ms) : ms[n].text \in Seq(Word)
  <2>1. \A n \in 1..Len(ms) : ms[n] \in Message
    BY ElementOfSeq
  <2> QED BY ONLY <2>1 DEF Message
<1>3. Awaited(ms, t) \in Seq(Word)
  BY <1>1
<1>4. ASSUME 1 \in 1..Len(ms)
      PROVE  F[1] = IF ms[1].turn = t THEN ms[1].text ELSE <<>>
  <2> DEFINE x == ms[1].text
  <2>1. x \in Seq(Word)
    BY <1>2, <1>4
  <2> HIDE DEF x
  <2>2. <<>> \o x = x
    BY <2>1, ConcatEmptySeq
  <2>3. F[1] = IF ms[1].turn = t THEN F[1 - 1] \o x ELSE F[1 - 1]
    BY <1>1, <1>4 DEF x
  <2>4. F[1 - 1] = <<>>
    BY <1>1
  <2> QED BY ONLY <2>2, <2>3, <2>4 DEF x
<1>5. Len(ms) = 0 => Awaited(ms, t) = <<>>
  BY <1>1
<1>6. Len(ms) = 1 => Awaited(ms, t) = IF ms[1].turn = t THEN ms[1].text ELSE <<>>
  BY <1>1, <1>4
<1>7. ASSUME Len(ms) = 2, ms[1].turn = t, ms[2].turn = t
      PROVE  Awaited(ms, t) = ms[1].text \o ms[2].text
  <2>1. F[1] = ms[1].text
    BY <1>4, <1>7
  <2>2. 2 \in 1..Len(ms) /\ 2 - 1 = 1
    BY <1>7
  <2>3. F[2] = F[2 - 1] \o ms[2].text
    BY ONLY <1>1, <1>7, <2>2
  <2> QED BY ONLY <1>1, <1>7, <2>1, <2>2, <2>3
<1>8. ASSUME \A i \in 1..Len(ms) : ms[i].turn # t
      PROVE  Awaited(ms, t) = <<>>
  <2> DEFINE G == {n \in 0..Len(ms) : F[n] = <<>>}
  <2>1. 0 \in G
    BY <1>1
  <2>2. ASSUME NEW n \in 1..Len(ms), n - 1 \in G PROVE n \in G
    <3>1. n \in 0..Len(ms) /\ F[n - 1] = <<>>
      BY <1>1, <2>2
    <3> QED BY <1>1, <1>8, <3>1
  <2>3. 0..Len(ms) \subseteq G
    <3> HIDE DEF G
    <3> QED BY <1>1, <2>1, <2>2, CountedUp
  <2> QED BY <1>1, <2>3
<1> QED BY <1>3, <1>5, <1>6, <1>7, <1>8

\* A screen that takes a message awaits the rest.
LEMMA AwaitedFirst ==
  ASSUME NEW ms \in Seq(Message), ms # <<>>, NEW t
  PROVE  /\ Head(ms).turn = t => Awaited(ms, t) = Head(ms).text \o Awaited(Tail(ms), t)
         /\ Head(ms).turn # t => Awaited(ms, t) = Awaited(Tail(ms), t)
<1> DEFINE h == Head(ms)
           one == <<h>>
           rest == Tail(ms)
<1>1. h \in Message /\ rest \in Seq(Message) /\ Len(rest) = Len(ms) - 1 /\ Len(ms) \in Nat \ {0}
      /\ h = ms[1] /\ \A i \in 1..Len(ms) - 1 : rest[i] = ms[i + 1]
  BY FirstTaken
<1> HIDE DEF h, rest
<1>2. one \in Seq(Message) /\ Len(one) = 1 /\ one[1] = h
  BY <1>1
<1> HIDE DEF one
<1>3. one \o rest = ms
  BY ONLY SMTT(30), <1>1, <1>2, OneAndRest
<1>4. Awaited(ms, t) = Awaited(one, t) \o Awaited(rest, t)
  <2>1. Awaited(one \o rest, t) = Awaited(one, t) \o Awaited(rest, t)
    BY <1>1, <1>2, AwaitedOfBoth
  <2> QED BY <1>3, <2>1
<1>5. Awaited(one, t) = IF h.turn = t THEN h.text ELSE <<>>
  <2>1. Awaited(one, t) = IF one[1].turn = t THEN one[1].text ELSE <<>>
    BY <1>2, AwaitedOfFew
  <2> QED BY <2>1, <1>2
<1>6. <<>> \o Awaited(rest, t) = Awaited(rest, t)
  <2> DEFINE w == Awaited(rest, t)
  <2>1. w \in Seq(Word)
    BY <1>1, AwaitedOfFew
  <2> HIDE DEF w
  <2>2. <<>> \o w = w
    BY <2>1, ConcatEmptySeq
  <2> QED BY <2>2 DEF w
<1> QED BY <1>4, <1>5, <1>6 DEF h, rest

-----------------------------------------------------------------------------
(* What an agent says of its reply.                                         *)

\* The words of two turns are different.
LEMMA OwnWords ==
  ASSUME NEW t \in Turn
  PROVE  /\ WordsOf(t) \subseteq Word
         /\ \A u \in Turn \ {t} : WordsOf(t) \cap WordsOf(u) = {}
BY DEF Word, WordsOf

\* The first words of a reply.
LEMMA ReplyIs ==
  ASSUME NEW t \in Turn, NEW n \in 0..ReplyLen[t]
  PROVE  /\ Reply(t, n) \in Seq(Word) /\ Len(Reply(t, n)) = n /\ n \in Nat /\ ReplyLen[t] \in Nat
         /\ \A i \in 1..n : Reply(t, n)[i] = <<t, i>> /\ <<t, i>> \in WordsOf(t) /\ <<t, i>> \in Word
<1>1. ReplyLen[t] \in Nat /\ n \in Nat
  BY Questions
<1>2. \A i \in 1..n : <<t, i>> \in WordsOf(t)
  BY <1>1 DEF WordsOf
<1>3. \A i \in 1..n : <<t, i>> \in Word
  BY <1>2, OwnWords
<1>4. Reply(t, n) \in [1..n -> Word]
  BY <1>3 DEF Reply
<1>5. Reply(t, n) \in Seq(Word) /\ Len(Reply(t, n)) = n
  BY <1>1, <1>4
<1>6. \A i \in 1..n : Reply(t, n)[i] = <<t, i>>
  BY DEF Reply
<1> QED BY <1>1, <1>2, <1>3, <1>5, <1>6

\* Of a message so far, what was not sent is what goes on from it.
LEMMA SnapshotGoesOn ==
  ASSUME NEW t \in Turn, NEW m \in 0..ReplyLen[t], NEW n \in m..ReplyLen[t]
  PROVE  LET r == Remaining(Reply(t, m), Reply(t, n)) IN
         /\ r \in Seq(Word) /\ Reply(t, m) \o r = Reply(t, n)
         /\ r = <<>> => m = n
<1> DEFINE a == Reply(t, m)
           b == Reply(t, n)
           r == SubSeq(b, m + 1, n)
<1>1. m \in Nat /\ n \in Nat /\ m <= n /\ n \in 0..ReplyLen[t]
  BY ReplyIs
<1>2. /\ a \in Seq(Word) /\ Len(a) = m /\ b \in Seq(Word) /\ Len(b) = n
      /\ \A i \in 1..m : a[i] = b[i]
  <2>1. \A i \in 1..m : i \in 1..n
    BY <1>1
  <2> QED BY <1>1, <2>1, ReplyIs
<1> HIDE DEF a, b
<1>3. SubSeq(b, 1, m) = a /\ SubSeq(a, 1, m) = a
  <2> DEFINE c == SubSeq(b, 1, m)
  <2>1. c \in Seq(Word) /\ Len(c) = m /\ \A i \in 1..m : c[i] = b[i]
    <3>1. 1 \in 1..Len(b) + 1 /\ m \in 0..Len(b) /\ (m - 1) + 1 = m
      BY <1>1, <1>2
    <3>2. /\ SubSeq(b, 1, m) \in Seq(Word)
          /\ Len(SubSeq(b, 1, m)) = IF 1 <= m THEN m - 1 + 1 ELSE 0
          /\ \A i \in 1..m - 1 + 1 : SubSeq(b, 1, m)[i] = b[1 + i - 1]
      BY ONLY <3>1, <1>2, PartOf
    <3> QED BY <1>1, <3>1, <3>2
  <2> HIDE DEF c
  <2>2. c = a
    BY <1>2, <2>1, SeqEqual
  <2>3. SubSeq(a, 1, Len(a)) = a
    BY <1>2, SubSeqFull
  <2> QED BY <1>2, <2>2, <2>3 DEF c
<1>4. IsPrefix(a, b)
  BY <1>1, <1>2, <1>3 DEF IsPrefix
<1>5. Remaining(a, b) = r
  BY <1>2, <1>4 DEF Remaining
<1>6. r \in Seq(Word) /\ Len(r) = n - m
  <2>1. m + 1 \in 1..Len(b) + 1 /\ n \in 0..Len(b)
    BY <1>1, <1>2
  <2>2. SubSeq(b, m + 1, n) \in Seq(Word) /\ Len(SubSeq(b, m + 1, n)) = IF m + 1 <= n THEN n - (m + 1) + 1 ELSE 0
    BY ONLY <2>1, <1>2, PartOf
  <2> QED BY <1>1, <2>2
<1>7. a \o r = b
  <2>1. 1 \in 1..Len(b) + 1 /\ m \in 1 - 1..Len(b) /\ n \in m..Len(b)
    BY <1>1, <1>2
  <2>2. SubSeq(b, 1, m) \o SubSeq(b, m + 1, n) = SubSeq(b, 1, n)
    BY ONLY <2>1, <1>2, ConcatAdjacentSubSeq
  <2>3. SubSeq(b, 1, Len(b)) = b
    BY <1>2, SubSeqFull
  <2> QED BY <1>2, <1>3, <2>2, <2>3
<1> HIDE DEF r
<1>8. r = <<>> => m = n
  BY <1>1, <1>6, EmptySeq
<1> QED BY <1>5, <1>6, <1>7, <1>8 DEF a, b

\* A delta is the next word: nothing of it was sent, and it goes on from there.
LEMMA DeltaGoesOn ==
  ASSUME NEW t \in Turn, NEW n \in 1..ReplyLen[t]
  PROVE  LET w == <<<<t, n>>>> IN
         /\ w \in Seq(Word) /\ w # <<>>
         /\ Reply(t, n - 1) \o w = Reply(t, n)
         /\ Remaining(Reply(t, n - 1), w) = w
         /\ Extended(Reply(t, n - 1), w) = Reply(t, n)
<1> DEFINE e == <<t, n>>
           w == <<e>>
           a == Reply(t, n - 1)
           b == Reply(t, n)
<1>1. n \in Nat /\ n - 1 \in 0..ReplyLen[t] /\ n \in 0..ReplyLen[t] /\ n - 1 \in Nat
  BY Questions
<1>2. /\ a \in Seq(Word) /\ Len(a) = n - 1 /\ \A i \in 1..n - 1 : a[i] = <<t, i>>
      /\ b \in Seq(Word) /\ Len(b) = n /\ \A i \in 1..n : b[i] = <<t, i>>
      /\ e \in Word
  <2>1. a \in Seq(Word) /\ Len(a) = n - 1 /\ \A i \in 1..n - 1 : a[i] = <<t, i>>
    BY <1>1, ReplyIs
  <2>2. b \in Seq(Word) /\ Len(b) = n /\ \A i \in 1..n : b[i] = <<t, i>> /\ <<t, i>> \in Word
    BY <1>1, ReplyIs
  <2>3. n \in 1..n
    BY <1>1
  <2> HIDE DEF a, b
  <2> QED BY <2>1, <2>2, <2>3
<1>3. (n = 1 => a = <<>>) /\ \A i \in 1..n - 1 : a[i] = b[i] /\ a[i] # e
  <2>1. \A i \in 1..n - 1 : i \in 1..n /\ i # n
    BY <1>1
  <2>2. n = 1 => a = <<>>
    <3> HIDE DEF a
    <3> QED BY <1>2, EmptySeq
  <2>3. \A i \in 1..n - 1 : a[i] = b[i]
    <3> HIDE DEF a, b
    <3> QED BY ONLY <1>2, <2>1
  <2>4. \A i \in 1..n - 1 : a[i] # e
    <3>1. \A i \in 1..n - 1 : <<t, i>> # e
      BY <2>1
    <3> HIDE DEF a, e
    <3> QED BY ONLY <1>2, <3>1
  <2> QED BY ONLY <2>2, <2>3, <2>4
<1>4. b[n] = e
  BY <1>1, <1>2
<1> HIDE DEF a, b, e
<1>5. w \in Seq(Word) /\ Len(w) = 1 /\ w[1] = e
  BY <1>2
<1> HIDE DEF w
<1>6. w # <<>>
  <2>1. Len(w) = 1
    BY <1>5
  <2>2. w = <<>> => Len(w) = 0
    OBVIOUS
  <2> QED BY ONLY <2>1, <2>2
<1>7. a \o w = b
  <2> DEFINE c == a \o w
  <2>1. /\ c \in Seq(Word) /\ Len(c) = Len(a) + Len(w)
        /\ \A i \in 1..Len(a) : c[i] = a[i]
        /\ \A i \in 1..Len(w) : c[Len(a) + i] = w[i]
    <3>1. a \in Seq(Word) /\ w \in Seq(Word)
      BY <1>2, <1>5
    <3> QED BY ONLY <3>1, BothLists
  <2> HIDE DEF c
  <2>2. Len(c) = n /\ c[n] = b[n]
    <3>1. Len(a) + 1 = n
      BY <1>1, <1>2
    <3> QED BY <1>4, <1>5, <2>1, <3>1
  <2>3. \A i \in 1..n : c[i] = b[i]
    <3>1. \A i \in 1..n : i = n \/ i \in 1..n - 1
      BY <1>1
    <3> QED BY <1>2, <1>3, <2>1, <2>2, <3>1
  <2>4. c = b
    BY <1>2, <2>1, <2>2, <2>3, SeqEqual
  <2> QED BY <2>4 DEF c
<1>8. CASE n = 1
  <2>1. a = <<>> /\ Len(a) = 0
    BY <1>2, <1>3, <1>8
  <2>2. SubSeq(w, 1, Len(w)) = w
    BY <1>5, SubSeqFull
  <2>3. SubSeq(a, 1, 0) = <<>> /\ SubSeq(w, 1, 0) = <<>>
    <3>1. SubSeq(a, 1, 0) \in Seq(Word) /\ Len(SubSeq(a, 1, 0)) = 0
      <4>1. 1 \in 1..Len(a) + 1 /\ 0 \in 0..Len(a)
        BY <2>1
      <4> QED BY <4>1, <1>2, PartOf
    <3>2. SubSeq(w, 1, 0) \in Seq(Word) /\ Len(SubSeq(w, 1, 0)) = 0
      <4>1. 1 \in 1..Len(w) + 1 /\ 0 \in 0..Len(w)
        BY <1>5
      <4> QED BY <4>1, <1>5, PartOf
    <3> QED BY <3>1, <3>2, EmptySeq
  <2>4. IsPrefix(a, w)
    BY <1>5, <2>1, <2>3 DEF IsPrefix
  <2>5. Remaining(a, w) = w
    BY <2>1, <2>2, <2>4 DEF Remaining
  <2>6. Extended(a, w) = w
    BY <2>4 DEF Extended
  <2>7. <<>> \o w = w
    BY <1>5, ConcatEmptySeq
  <2>8. w = b
    BY <1>7, <2>1, <2>7
  <2> QED BY <1>5, <1>6, <1>7, <2>5, <2>6, <2>8 DEF w, a, b, e
<1>9. CASE n # 1
  <2>1. ~IsPrefix(a, w)
    <3> SUFFICES ASSUME IsPrefix(a, w) PROVE FALSE
      OBVIOUS
    <3>1. Len(a) = 1 /\ 1 \in 1..n - 1
      BY <1>1, <1>2, <1>5, <1>9 DEF IsPrefix
    <3>2. SubSeq(a, 1, 1) = SubSeq(w, 1, 1)
      BY <3>1 DEF IsPrefix
    <3>3. SubSeq(a, 1, Len(a)) = a /\ SubSeq(w, 1, Len(w)) = w
      BY <1>2, <1>5, SubSeqFull
    <3>4. a = w
      BY <1>5, <3>1, <3>2, <3>3
    <3> QED BY <1>3, <1>5, <3>1, <3>4
  <2>2. Remaining(a, w) = w
    BY <2>1 DEF Remaining
  <2>3. Extended(a, w) = a \o w
    BY <2>1 DEF Extended
  <2> QED BY <1>5, <1>6, <1>7, <2>2, <2>3 DEF w, a, b, e
<1> QED BY <1>8, <1>9

\* What goes on from the words an agent has said is what its next event adds.
LEMMA Follows ==
  ASSUME NEW t \in Turn, said[t] \in 0..ReplyLen[t], NEW kind, NEW n \in 0..ReplyLen[t],
         Possible(t, kind, n)
  PROVE  LET x == Event(t, kind, n).text
             r == Remaining(Reply(t, said[t]), x)
         IN /\ kind \in {"delta", "snapshot", "end"} =>
                 r \in Seq(Word) /\ Reply(t, said[t]) \o r = Reply(t, n)
            /\ kind \in {"delta", "snapshot"} => r # <<>>
            /\ kind = "delta" => r = x /\ Extended(Reply(t, said[t]), x) = Reply(t, n)
            /\ kind # "delta" => x = Reply(t, n)
            /\ kind \notin {"delta", "snapshot", "end"} => n = said[t]
<1> DEFINE m == said[t]
           x == Event(t, kind, n).text
           r == Remaining(Reply(t, m), x)
<1>1. m \in Nat /\ n \in Nat /\ ReplyLen[t] \in Nat /\ n <= ReplyLen[t] /\ m <= ReplyLen[t]
  BY Questions
<1>2. x = IF kind = "delta" THEN <<<<t, n>>>> ELSE Reply(t, n)
  BY DEF Event
<1>3. /\ kind = "delta" => n = m + 1
      /\ kind = "snapshot" => n > m
      /\ kind = "end" => n = ReplyLen[t]
      /\ kind \notin {"delta", "snapshot", "end"} => n = m
  BY DEF Possible
<1>4. CASE kind = "delta"
  <2>1. n \in 1..ReplyLen[t] /\ n - 1 = m
    BY <1>1, <1>3, <1>4
  <2>2. x = <<<<t, n>>>>
    BY <1>2, <1>4
  <2> DEFINE w == <<<<t, n>>>>
  <2>3. /\ w \in Seq(Word) /\ w # <<>> /\ Reply(t, n - 1) \o w = Reply(t, n)
        /\ Remaining(Reply(t, n - 1), w) = w /\ Extended(Reply(t, n - 1), w) = Reply(t, n)
    BY <2>1, DeltaGoesOn
  <2> HIDE DEF x, w
  <2>4. x = w
    BY <2>2 DEF w
  <2> QED BY <1>4, <2>1, <2>3, <2>4 DEF x
<1>5. CASE kind \in {"snapshot", "end"}
  <2>1. n \in m..ReplyLen[t] /\ m \in 0..ReplyLen[t] /\ (kind = "snapshot" => m # n)
    BY <1>1, <1>3, <1>5
  <2>2. x = Reply(t, n)
    BY <1>2, <1>5
  <2> HIDE DEF x
  <2>3. r \in Seq(Word) /\ Reply(t, m) \o r = Reply(t, n) /\ (r = <<>> => m = n)
    BY <2>1, <2>2, SnapshotGoesOn
  <2> HIDE DEF m, r
  <2> QED BY <1>5, <2>1, <2>2, <2>3 DEF x, m, r
<1>6. CASE kind \notin {"delta", "snapshot", "end"}
  BY <1>2, <1>3, <1>6
<1> QED BY <1>4, <1>5, <1>6

\* The text of what an event yields.
Yielded(chunks) ==
  LET D == Deltas(chunks)
  IN IF Len(D) = 0 THEN <<>> ELSE IF Len(D) = 1 THEN D[1].text ELSE D[1].text \o D[2].text

\* An event that yields no text.
LEMMA NoText ==
  Yielded(<<>>) = <<>> /\ Yielded(<<Working>>) = <<>>
<1>1. Deltas(<<>>) = <<>> /\ Deltas(<<Working>>) = <<>>
  BY DEF Deltas
<1> QED BY <1>1, EmptySeq DEF Yielded

\* An event that yields one text.
LEMMA OneText ==
  ASSUME NEW x, NEW f
  PROVE  Yielded(<<Chunk(x, f)>>) = x
<1> DEFINE c == Chunk(x, f)
           D == Deltas(<<c>>)
<1>1. c.text = x /\ c.progress = FALSE /\ Working.progress = TRUE
  BY DEF Chunk, Working
<1> HIDE DEF c
<1>2. <<c>> # <<Working>>
  BY <1>1
<1>3. D = <<c>>
  BY <1>2 DEF Deltas
<1>4. Len(D) = 1 /\ D[1] = c
  BY <1>3
<1> HIDE DEF D
<1>5. Yielded(<<c>>) = x
  BY <1>1, <1>4 DEF Yielded, D
<1> QED BY <1>5 DEF c

\* An event that yields what is left of a text, or nothing.
LEMMA RestText ==
  ASSUME NEW x, NEW f
  PROVE  Yielded(NonEmpty(x, f)) = x
<1>1. CASE x = <<>>
  BY <1>1, NoText DEF NonEmpty
<1>2. CASE x # <<>>
  BY <1>2, OneText DEF NonEmpty
<1> QED BY <1>1, <1>2

\* An event that yields the rest of a text and the end of the stream.
LEMMA EndText ==
  ASSUME NEW x \in Seq(Word)
  PROVE  Yielded(Append(NonEmpty(x, TRUE), Chunk(<<>>, TRUE))) = x
<1> DEFINE e == Chunk(<<>>, TRUE)
           c == Chunk(x, TRUE)
<1>1. CASE x = <<>>
  <2>1. Append(NonEmpty(x, TRUE), e) = <<e>>
    BY <1>1 DEF NonEmpty
  <2>2. Yielded(<<e>>) = <<>>
    BY OneText
  <2> QED BY <1>1, <2>1, <2>2
<1>2. CASE x # <<>>
  <2> DEFINE one == <<c>>
             n == Append(one, e)
             D == Deltas(n)
  <2>1. c \in ChunkType /\ e \in ChunkType /\ c.text = x /\ e.text = <<>>
    BY EmptySeq DEF Chunk, ChunkType
  <2>2. NonEmpty(x, TRUE) = one
    BY <1>2 DEF NonEmpty
  <2> HIDE DEF c, e
  <2>3. one \in Seq(ChunkType) /\ Len(one) = 1 /\ one[1] = c
    BY <2>1
  <2> HIDE DEF one
  <2>4. Len(n) = 2 /\ n[1] = c /\ n[2] = e
    <3>1. /\ Append(one, e) \in Seq(ChunkType) /\ Len(Append(one, e)) = Len(one) + 1
          /\ Append(one, e)[Len(one) + 1] = e
          /\ \A i \in 1..Len(one) : Append(one, e)[i] = one[i]
      <4>1. one \in Seq(ChunkType) /\ e \in ChunkType
        BY <2>1, <2>3
      <4> QED BY ONLY <4>1, Joined
    <3> HIDE DEF n
    <3> QED BY <2>3, <3>1 DEF n
  <2> HIDE DEF n
  <2>5. Len(<<Working>>) = 1
    OBVIOUS
  <2>6. D = n
    BY <2>4, <2>5 DEF Deltas
  <2>7. Yielded(n) = c.text \o e.text
    <3>1. Len(D) = 2 /\ D[1] = c /\ D[2] = e
      BY ONLY <2>4, <2>6
    <3>2. Yielded(n) = IF Len(D) = 0 THEN <<>> ELSE IF Len(D) = 1 THEN D[1].text ELSE D[1].text \o D[2].text
      BY DEF Yielded
    <3> HIDE DEF D
    <3> QED BY ONLY <3>1, <3>2
  <2>8. x \o <<>> = x
    BY ConcatEmptySeq
  <2> QED BY <2>1, <2>2, <2>7, <2>8 DEF n, e
<1> QED BY <1>1, <1>2 DEF e

\* What an event of an agent that goes from m words to n adds to what its
\* listeners were told, and where it leaves the generator.
Conveys(b, t, m, n, y) ==
  /\ y.end \in {"fail", "crash"} => n = m
  /\ y.end = "on" =>
       b # "cli" /\ Reply(t, m) \o Yielded(y.chunks) = Reply(t, n) /\ GoesOnFrom(b, y.gen, t, n)
  /\ y.end = "done" /\ b # "cli" =>
       Reply(t, m) \o Yielded(y.chunks) =
         IF b = "pi" /\ ~y.gen.told THEN Reply(t, n) \o Reply(t, n) ELSE Reply(t, n)

\* What a generator is told, and of what.
Follow(b, g, t, kind, n) ==
  /\ kind \in Kinds(b) \ {"fail", "crash"} /\ n \in 0..ReplyLen[t] /\ said[t] \in 0..ReplyLen[t]
  /\ Possible(t, kind, n) /\ g \in Gen /\ GoesOnFrom(b, g, t, said[t])

\* A Pi process tells every word once, unless it ends without its last message:
\* then all of them once more.
LEMMA PiWords ==
  ASSUME NEW t \in Turn, NEW g, NEW kind, NEW n, Follow("pi", g, t, kind, n)
  PROVE  Conveys("pi", t, said[t], n, PiStep(g, Event(t, kind, n)))
<1> DEFINE m == said[t]
           e == Event(t, kind, n)
           y == PiStep(g, e)
           r == Remaining(g.sent, e.text)
           old == Reply(t, m)
           new == Reply(t, n)
<1>1. /\ kind \in {"delta", "snapshot", "end", "blank end", "progress", "eof"} /\ e.kind = kind
      /\ n \in 0..ReplyLen[t] /\ m \in 0..ReplyLen[t] /\ Possible(t, kind, n)
  BY DEF Follow, Kinds, Event
<1>2. g.sent = old /\ g.text = old /\ ~g.told /\ g \in Gen /\ g.told \in BOOLEAN
  BY DEF Follow, GoesOnFrom, Gen
<1>3. old \in Seq(Word) /\ new \in Seq(Word) /\ old \o <<>> = old
  <2>1. old \in Seq(Word) /\ new \in Seq(Word)
    BY <1>1, ReplyIs
  <2> HIDE DEF old
  <2> QED BY <2>1, ConcatEmptySeq
<1>4. /\ kind \in {"delta", "snapshot", "end"} => r \in Seq(Word) /\ old \o r = new
      /\ kind = "delta" => Extended(old, e.text) = new
      /\ kind # "delta" => e.text = new
      /\ kind \notin {"delta", "snapshot", "end"} => n = m
  BY <1>1, <1>2, Follows
<1>5. kind \notin {"delta", "snapshot", "end"} => new = old
  BY <1>4
<1> HIDE DEF e, r, old, new, m
<1>6. GoesOnFrom("pi", g, t, m)
  BY DEF Follow, m
<1>7. ASSUME NEW q, q.sent = new, q.text = new, ~q.told
      PROVE  GoesOnFrom("pi", q, t, n)
  BY <1>7 DEF GoesOnFrom, new
<1>8. CASE kind = "delta"
  <2> DEFINE to == Extended(g.sent, e.text)
             q == [g EXCEPT !.sent = to, !.text = to]
  <2>1. y = Yield(q, NonEmpty(r, FALSE), "on")
    BY <1>1, <1>8 DEF PiStep, r
  <2>2. q.sent = to /\ q.text = to /\ q.told = g.told
    <3> HIDE DEF to
    <3> QED BY <1>2 DEF Gen
  <2>3. to = new
    BY <1>2, <1>4, <1>8
  <2> HIDE DEF to, q, y
  <2>4. y.gen = q /\ y.chunks = NonEmpty(r, FALSE) /\ y.end = "on"
    BY <2>1 DEF Yield
  <2>5. GoesOnFrom("pi", y.gen, t, n)
    BY <1>2, <1>7, <2>2, <2>3, <2>4
  <2>6. Yielded(y.chunks) = r
    BY <2>4, RestText
  <2> QED BY <1>4, <1>8, <2>4, <2>5, <2>6 DEF Conveys, y, old, new, m, e
<1>9. CASE kind = "snapshot"
  <2> DEFINE q == [g EXCEPT !.sent = e.text, !.text = e.text]
  <2>1. y = Yield(q, NonEmpty(r, FALSE), "on")
    BY <1>1, <1>9 DEF PiStep, r
  <2>2. q.sent = e.text /\ q.text = e.text /\ q.told = g.told
    BY <1>2 DEF Gen
  <2> HIDE DEF q, y
  <2>4. y.gen = q /\ y.chunks = NonEmpty(r, FALSE) /\ y.end = "on"
    BY <2>1 DEF Yield
  <2>5. GoesOnFrom("pi", y.gen, t, n)
    BY <1>2, <1>4, <1>7, <1>9, <2>2, <2>4
  <2>6. Yielded(y.chunks) = r
    BY <2>4, RestText
  <2> QED BY <1>4, <1>9, <2>4, <2>5, <2>6 DEF Conveys, y, old, new, m, e
<1>10. CASE kind = "end"
  <2> DEFINE q == [sent |-> e.text, text |-> e.text, told |-> TRUE]
             cs == Append(NonEmpty(r, TRUE), Chunk(<<>>, TRUE))
  <2>1. y = Yield(q, cs, "done")
    BY <1>1, <1>10 DEF PiStep, r
  <2>2. q.told
    OBVIOUS
  <2>3. Yielded(cs) = r
    BY <1>4, <1>10, EndText
  <2> HIDE DEF q, y, cs
  <2>4. y.gen = q /\ y.chunks = cs /\ y.end = "done"
    BY <2>1 DEF Yield
  <2> QED BY <1>4, <1>10, <2>2, <2>3, <2>4 DEF Conveys, y, old, new, m, e
<1>11. CASE kind = "blank end" /\ g.sent # <<>>
  <2> DEFINE q == [g EXCEPT !.told = TRUE]
             cs == <<Chunk(<<>>, TRUE)>>
  <2>1. y = Yield(q, cs, "done")
    BY <1>1, <1>11 DEF PiStep
  <2>2. q.told
    BY <1>2 DEF Gen
  <2>3. Yielded(cs) = <<>>
    BY OneText
  <2> HIDE DEF q, y, cs
  <2>4. y.gen = q /\ y.chunks = cs /\ y.end = "done"
    BY <2>1 DEF Yield
  <2> QED BY <1>3, <1>5, <1>11, <2>2, <2>3, <2>4 DEF Conveys, y, old, new, m, e
<1>12. CASE kind = "blank end" /\ g.sent = <<>>
  <2>1. y = Yield(g, <<>>, "on")
    BY <1>1, <1>12 DEF PiStep
  <2> HIDE DEF y
  <2>4. y.gen = g /\ y.chunks = <<>> /\ y.end = "on"
    BY <2>1 DEF Yield
  <2>5. GoesOnFrom("pi", y.gen, t, n)
    BY <1>2, <1>5, <1>7, <1>12, <2>4
  <2>6. Yielded(y.chunks) = <<>>
    BY <2>4, NoText
  <2> QED BY <1>3, <1>5, <1>12, <2>4, <2>5, <2>6 DEF Conveys, y, old, new, m, e
<1>13. CASE kind = "progress"
  <2>1. y = Yield(g, <<Working>>, "on")
    BY <1>1, <1>13 DEF PiStep
  <2> HIDE DEF y
  <2>4. y.gen = g /\ y.chunks = <<Working>> /\ y.end = "on"
    BY <2>1 DEF Yield
  <2>5. GoesOnFrom("pi", y.gen, t, n)
    BY <1>2, <1>5, <1>7, <1>13, <2>4
  <2>6. Yielded(y.chunks) = <<>>
    BY <2>4, NoText
  <2> QED BY <1>3, <1>5, <1>13, <2>4, <2>5, <2>6 DEF Conveys, y, old, new, m, e
<1>14. CASE kind = "eof"
  <2>1. y = Yield(g, NonEmpty(g.text, TRUE), "done")
    BY <1>1, <1>14 DEF PiStep
  <2> HIDE DEF y
  <2>4. y.gen = g /\ y.chunks = NonEmpty(g.text, TRUE) /\ y.end = "done"
    BY <2>1 DEF Yield
  <2>5. Yielded(NonEmpty(g.text, TRUE)) = g.text
    BY RestText
  <2>6. Yielded(y.chunks) = old
    BY <1>2, <2>4, <2>5
  <2> QED BY <1>2, <1>5, <1>14, <2>4, <2>6 DEF Conveys, y, old, new, m, e
<1> QED BY <1>1, <1>8, <1>9, <1>10, <1>11, <1>12, <1>13, <1>14

\* OpenClaw tells every word once: no frame that adds words is taken for the
\* response.
LEMMA OpenClawWords ==
  ASSUME NEW t \in Turn, NEW g, NEW kind, NEW n, Follow("openclaw", g, t, kind, n)
  PROVE  Conveys("openclaw", t, said[t], n, OpenClawStep(g, Event(t, kind, n)))
<1> DEFINE m == said[t]
           e == Event(t, kind, n)
           y == OpenClawStep(g, e)
           r == Remaining(g.sent, e.text)
           old == Reply(t, m)
           new == Reply(t, n)
<1>1. /\ kind \in {"delta", "snapshot", "progress", "accepted", "end"} /\ e.kind = kind
      /\ n \in 0..ReplyLen[t] /\ m \in 0..ReplyLen[t] /\ Possible(t, kind, n)
  BY DEF Follow, Kinds, Event
<1>2. g.sent = old /\ g \in Gen
  BY DEF Follow, GoesOnFrom
<1>3. old \in Seq(Word) /\ new \in Seq(Word) /\ old \o <<>> = old
  <2>1. old \in Seq(Word) /\ new \in Seq(Word)
    BY <1>1, ReplyIs
  <2> HIDE DEF old
  <2> QED BY <2>1, ConcatEmptySeq
<1>4. /\ kind \in {"delta", "snapshot", "end"} => r \in Seq(Word) /\ old \o r = new
      /\ kind \in {"delta", "snapshot"} => r # <<>>
      /\ kind \notin {"delta", "snapshot", "end"} => n = m
  <2> DEFINE c == Remaining(old, e.text)
  <2>1. /\ kind \in {"delta", "snapshot", "end"} => c \in Seq(Word) /\ old \o c = new
        /\ kind \in {"delta", "snapshot"} => c # <<>>
        /\ kind \notin {"delta", "snapshot", "end"} => n = m
    BY <1>1, Follows
  <2>2. r = c
    BY <1>2
  <2> HIDE DEF c, r
  <2> QED BY <2>1, <2>2
<1>5. kind \notin {"delta", "snapshot", "end"} => new = old
  BY <1>4
<1> HIDE DEF e, r, old, new, m
<1>6. ASSUME NEW q, q.sent = new
      PROVE  GoesOnFrom("openclaw", q, t, n)
  BY <1>6 DEF GoesOnFrom, new
<1>7. CASE kind \in {"delta", "snapshot"}
  <2> DEFINE q == [g EXCEPT !.sent = @ \o r]
             cs == <<Chunk(r, FALSE)>>
  <2>1. y = Yield(q, cs, "on")
    BY <1>1, <1>4, <1>7 DEF OpenClawStep, r
  <2>2. q.sent = new
    BY <1>2, <1>4, <1>7 DEF Gen
  <2>3. Yielded(cs) = r
    BY OneText
  <2> HIDE DEF q, y, cs
  <2>4. y.gen = q /\ y.chunks = cs /\ y.end = "on"
    BY <2>1 DEF Yield
  <2>5. GoesOnFrom("openclaw", y.gen, t, n)
    BY <1>6, <2>2, <2>4
  <2> QED BY <1>4, <1>7, <2>3, <2>4, <2>5 DEF Conveys, y, old, new, m, e
<1>8. CASE kind = "progress"
  <2>1. y = Yield(g, <<>>, "fail")
    BY <1>1, <1>8 DEF OpenClawStep
  <2> HIDE DEF y
  <2>4. y.end = "fail"
    BY <2>1 DEF Yield
  <2> QED BY <1>4, <1>8, <2>4 DEF Conveys, y, old, new, m, e
<1>9. CASE kind = "accepted"
  <2>1. y = Yield(g, <<>>, "on")
    BY <1>1, <1>9 DEF OpenClawStep
  <2> HIDE DEF y
  <2>4. y.gen = g /\ y.chunks = <<>> /\ y.end = "on"
    BY <2>1 DEF Yield
  <2>5. GoesOnFrom("openclaw", y.gen, t, n)
    BY <1>2, <1>5, <1>6, <1>9, <2>4
  <2>6. Yielded(y.chunks) = <<>>
    BY <2>4, NoText
  <2> QED BY <1>3, <1>5, <1>9, <2>4, <2>5, <2>6 DEF Conveys, y, old, new, m, e
<1>10. CASE kind = "end"
  <2>1. y = Yield(g, NonEmpty(r, TRUE), "done")
    BY <1>1, <1>10 DEF OpenClawStep, r
  <2>2. Yielded(NonEmpty(r, TRUE)) = r
    BY RestText
  <2> HIDE DEF y
  <2>4. y.chunks = NonEmpty(r, TRUE) /\ y.end = "done"
    BY <2>1 DEF Yield
  <2> QED BY <1>4, <1>10, <2>2, <2>4 DEF Conveys, y, old, new, m, e
<1> QED BY <1>1, <1>7, <1>8, <1>9, <1>10

\* Hermes passes every delta on.
LEMMA HermesWords ==
  ASSUME NEW t \in Turn, NEW g, NEW kind, NEW n, Follow("hermes", g, t, kind, n)
  PROVE  Conveys("hermes", t, said[t], n, HermesStep(g, Event(t, kind, n)))
<1> DEFINE m == said[t]
           e == Event(t, kind, n)
           y == HermesStep(g, e)
           old == Reply(t, m)
           new == Reply(t, n)
<1>1. /\ kind \in {"delta", "blank end", "eof"} /\ e.kind = kind
      /\ n \in 0..ReplyLen[t] /\ m \in 0..ReplyLen[t] /\ Possible(t, kind, n)
  BY DEF Follow, Kinds, Event
<1>2. old \in Seq(Word) /\ new \in Seq(Word) /\ old \o <<>> = old
  <2>1. old \in Seq(Word) /\ new \in Seq(Word)
    BY <1>1, ReplyIs
  <2> HIDE DEF old
  <2> QED BY <2>1, ConcatEmptySeq
<1>3. (kind = "delta" => old \o e.text = new) /\ (kind # "delta" => n = m)
  <2> DEFINE r == Remaining(old, e.text)
  <2>1. /\ kind \in {"delta", "snapshot", "end"} => r \in Seq(Word) /\ old \o r = new
        /\ kind = "delta" => r = e.text
        /\ kind \notin {"delta", "snapshot", "end"} => n = m
    BY <1>1, Follows
  <2> HIDE DEF r
  <2> QED BY <1>1, <2>1
<1>4. kind # "delta" => new = old
  BY <1>3
<1> HIDE DEF e, old, new, m
<1>5. \A q : GoesOnFrom("hermes", q, t, n)
  BY DEF GoesOnFrom
<1>6. CASE kind = "delta"
  <2> DEFINE q == [g EXCEPT !.told = TRUE]
             cs == <<Chunk(e.text, FALSE)>>
  <2>1. y = Yield(q, cs, "on")
    BY <1>1, <1>6 DEF HermesStep
  <2>3. Yielded(cs) = e.text
    BY OneText
  <2> HIDE DEF q, y, cs
  <2>4. y.gen = q /\ y.chunks = cs /\ y.end = "on"
    BY <2>1 DEF Yield
  <2> QED BY <1>3, <1>5, <1>6, <2>3, <2>4 DEF Conveys, y, old, new, m, e
<1>7. CASE kind = "blank end"
  <2> DEFINE cs == <<Chunk(<<>>, TRUE)>>
  <2>1. y = Yield(g, cs, "on")
    BY <1>1, <1>7 DEF HermesStep
  <2>3. Yielded(cs) = <<>>
    BY OneText
  <2> HIDE DEF y, cs
  <2>4. y.gen = g /\ y.chunks = cs /\ y.end = "on"
    BY <2>1 DEF Yield
  <2> QED BY <1>2, <1>4, <1>5, <1>7, <2>3, <2>4 DEF Conveys, y, old, new, m, e
<1>8. CASE kind = "eof"
  <2> DEFINE cs == IF g.told THEN <<Chunk(<<>>, TRUE)>> ELSE <<>>
  <2>1. y = Yield(g, cs, "done")
    BY <1>1, <1>8 DEF HermesStep
  <2>3. Yielded(cs) = <<>>
    BY OneText, NoText
  <2> HIDE DEF y, cs
  <2>4. y.gen = g /\ y.chunks = cs /\ y.end = "done"
    BY <2>1 DEF Yield
  <2> QED BY <1>2, <1>4, <1>8, <2>3, <2>4 DEF Conveys, y, old, new, m, e
<1> QED BY <1>1, <1>6, <1>7, <1>8

\* PiClaw passes every delta on, and of its last message what no delta had.
LEMMA PiClawWords ==
  ASSUME NEW t \in Turn, NEW g, NEW kind, NEW n, Follow("piclaw", g, t, kind, n)
  PROVE  Conveys("piclaw", t, said[t], n, PiClawStep(g, Event(t, kind, n)))
<1> DEFINE m == said[t]
           e == Event(t, kind, n)
           y == PiClawStep(g, e)
           r == Remaining(g.sent, e.text)
           old == Reply(t, m)
           new == Reply(t, n)
<1>1. /\ kind \in {"delta", "progress", "end", "eof"} /\ e.kind = kind
      /\ n \in 0..ReplyLen[t] /\ m \in 0..ReplyLen[t] /\ Possible(t, kind, n)
  BY DEF Follow, Kinds, Event
<1>2. g.sent = old /\ g \in Gen
  BY DEF Follow, GoesOnFrom
<1>3. old \in Seq(Word) /\ new \in Seq(Word) /\ old \o <<>> = old
  <2>1. old \in Seq(Word) /\ new \in Seq(Word)
    BY <1>1, ReplyIs
  <2> HIDE DEF old
  <2> QED BY <2>1, ConcatEmptySeq
<1>4. /\ kind \in {"delta", "snapshot", "end"} => r \in Seq(Word) /\ old \o r = new
      /\ kind = "delta" => r = e.text
      /\ kind \notin {"delta", "snapshot", "end"} => n = m
  <2> DEFINE c == Remaining(old, e.text)
  <2>1. /\ kind \in {"delta", "snapshot", "end"} => c \in Seq(Word) /\ old \o c = new
        /\ kind = "delta" => c = e.text
        /\ kind \notin {"delta", "snapshot", "end"} => n = m
    BY <1>1, Follows
  <2>2. r = c
    BY <1>2
  <2> HIDE DEF c, r
  <2> QED BY <2>1, <2>2
<1>5. kind \notin {"delta", "snapshot", "end"} => new = old
  BY <1>4
<1> HIDE DEF e, r, old, new, m
<1>6. ASSUME NEW q, q.sent = new
      PROVE  GoesOnFrom("piclaw", q, t, n)
  BY <1>6 DEF GoesOnFrom, new
<1>7. CASE kind = "delta"
  <2> DEFINE q == [g EXCEPT !.sent = @ \o e.text, !.told = TRUE]
             cs == <<Chunk(e.text, FALSE)>>
  <2>1. y = Yield(q, cs, "on")
    BY <1>1, <1>7 DEF PiClawStep
  <2>2. q.sent = new
    BY <1>2, <1>4, <1>7 DEF Gen
  <2>3. Yielded(cs) = e.text
    BY OneText
  <2> HIDE DEF q, y, cs
  <2>4. y.gen = q /\ y.chunks = cs /\ y.end = "on"
    BY <2>1 DEF Yield
  <2>5. GoesOnFrom("piclaw", y.gen, t, n)
    BY <1>6, <2>2, <2>4
  <2> QED BY <1>4, <1>7, <2>3, <2>4, <2>5 DEF Conveys, y, old, new, m, e
<1>8. CASE kind = "progress"
  <2>1. y = Yield(g, <<Working>>, "on")
    BY <1>1, <1>8 DEF PiClawStep
  <2> HIDE DEF y
  <2>4. y.gen = g /\ y.chunks = <<Working>> /\ y.end = "on"
    BY <2>1 DEF Yield
  <2>5. GoesOnFrom("piclaw", y.gen, t, n)
    BY <1>2, <1>5, <1>6, <1>8, <2>4
  <2>6. Yielded(y.chunks) = <<>>
    BY <2>4, NoText
  <2> QED BY <1>3, <1>5, <1>8, <2>4, <2>5, <2>6 DEF Conveys, y, old, new, m, e
<1>9. CASE kind = "end"
  <2> DEFINE q == [g EXCEPT !.sent = @ \o r, !.told = @ \/ r # <<>>]
             cs == <<Chunk(r, TRUE)>>
  <2>1. y = Yield(q, cs, "on")
    BY <1>1, <1>9 DEF PiClawStep, r
  <2>2. q.sent = new
    BY <1>2, <1>4, <1>9 DEF Gen
  <2>3. Yielded(cs) = r
    BY OneText
  <2> HIDE DEF q, y, cs
  <2>4. y.gen = q /\ y.chunks = cs /\ y.end = "on"
    BY <2>1 DEF Yield
  <2>5. GoesOnFrom("piclaw", y.gen, t, n)
    BY <1>6, <2>2, <2>4
  <2> QED BY <1>4, <1>9, <2>3, <2>4, <2>5 DEF Conveys, y, old, new, m, e
<1>10. CASE kind = "eof"
  <2> DEFINE cs == IF g.told THEN <<Chunk(<<>>, TRUE)>> ELSE <<>>
  <2>1. y = Yield(g, cs, "done")
    BY <1>1, <1>10 DEF PiClawStep
  <2>3. Yielded(cs) = <<>>
    BY OneText, NoText
  <2> HIDE DEF y, cs
  <2>4. y.gen = g /\ y.chunks = cs /\ y.end = "done"
    BY <2>1 DEF Yield
  <2> QED BY <1>3, <1>5, <1>10, <2>3, <2>4 DEF Conveys, y, old, new, m, e
<1> QED BY <1>1, <1>7, <1>8, <1>9, <1>10

\* The stub says its reply at once.
LEMMA StubWords ==
  ASSUME NEW t \in Turn, NEW g, NEW kind, NEW n, Follow("stub", g, t, kind, n)
  PROVE  Conveys("stub", t, said[t], n, StubStep(g, Event(t, kind, n)))
<1> DEFINE e == Event(t, kind, n)
           y == StubStep(g, e)
           old == Reply(t, said[t])
           new == Reply(t, n)
           cs == <<Chunk(e.text, TRUE)>>
<1>1. kind = "end" /\ n \in 0..ReplyLen[t] /\ said[t] \in 0..ReplyLen[t] /\ said[t] = 0
  BY DEF Follow, Kinds, GoesOnFrom
<1>2. e.text = new
  BY <1>1 DEF Event
<1>3. old \in Seq(Word) /\ new \in Seq(Word) /\ Len(old) = 0
  BY <1>1, ReplyIs
<1>4. y = Yield(g, cs, "done")
  BY DEF StubStep
<1>5. Yielded(cs) = e.text
  BY OneText
<1> HIDE DEF y, cs, old, new, e
<1>6. old \o new = new
  <2>1. old = <<>>
    BY <1>3, EmptySeq
  <2>2. <<>> \o new = new
    BY <1>3, ConcatEmptySeq
  <2> QED BY <2>1, <2>2
<1>7. y.chunks = cs /\ y.end = "done"
  BY <1>4 DEF Yield
<1> QED BY <1>2, <1>5, <1>6, <1>7 DEF Conveys, y, old, new, e

\* Every backend conveys what its agent says.
LEMMA BackendWords ==
  ASSUME NEW b \in Backend, NEW t \in Turn, NEW g \in Gen, NEW kind \in Kinds(b),
         NEW n \in 0..ReplyLen[t], said[t] \in 0..ReplyLen[t], Possible(t, kind, n),
         GoesOnFrom(b, g, t, said[t])
  PROVE  Conveys(b, t, said[t], n, BackendStep(b, g, Event(t, kind, n)))
<1> DEFINE e == Event(t, kind, n)
           y == BackendStep(b, g, e)
<1>0. e.kind = kind
  BY DEF Event
<1>1. CASE kind \in {"fail", "crash"}
  <2>1. y = Yield(g, <<>>, kind)
    BY <1>0, <1>1 DEF BackendStep
  <2> HIDE DEF y
  <2>2. y.end = kind
    BY <2>1 DEF Yield
  <2>3. n = said[t]
    BY <1>1 DEF Possible
  <2> QED BY <1>1, <2>2, <2>3 DEF Conveys, y
<1>2. CASE kind \notin {"fail", "crash"}
  <2>1. b \in {"pi", "stub", "openclaw", "hermes", "piclaw", "cli"}
    BY Questions DEF BackendName
  <2>2. Follow(b, g, t, kind, n)
    BY <1>2 DEF Follow
  <2> HIDE DEF e
  <2>3. CASE b = "pi"
    BY <1>0, <1>2, <2>2, <2>3, PiWords DEF BackendStep, e
  <2>4. CASE b = "openclaw"
    BY <1>0, <1>2, <2>2, <2>4, OpenClawWords DEF BackendStep, e
  <2>5. CASE b = "hermes"
    BY <1>0, <1>2, <2>2, <2>5, HermesWords DEF BackendStep, e
  <2>6. CASE b = "piclaw"
    BY <1>0, <1>2, <2>2, <2>6, PiClawWords DEF BackendStep, e
  <2>7. CASE b = "stub"
    BY <1>0, <1>2, <2>2, <2>7, StubWords DEF BackendStep, e
  <2>8. CASE b = "cli"
    <3>1. kind = "end"
      BY <1>2, <2>8 DEF Kinds
    <3>2. y = Yield([g EXCEPT !.text = e.text], <<>>, "done")
      BY <1>0, <1>2, <2>8 DEF BackendStep, CliStep
    <3> HIDE DEF y
    <3>3. y.end = "done"
      BY <3>2 DEF Yield
    <3> QED BY <2>8, <3>3 DEF Conveys, y, e
  <2> QED BY <2>1, <2>3, <2>4, <2>5, <2>6, <2>7, <2>8
<1> QED BY <1>1, <1>2

-----------------------------------------------------------------------------
(* What reaches the subscribers.                                            *)

\* The text of the deltas of an event, none, one or two of them.
LEMMA YieldedIs ==
  ASSUME NEW chunks, Chunked(chunks)
  PROVE  LET D == Deltas(chunks) IN
         /\ Yielded(chunks) \in Seq(Word)
         /\ \/ Len(D) = 0 /\ Yielded(chunks) = <<>>
            \/ Len(D) = 1 /\ D[1] \in ChunkType /\ Yielded(chunks) = D[1].text
            \/ /\ Len(D) = 2 /\ D[1] \in ChunkType /\ D[2] \in ChunkType
               /\ Yielded(chunks) = D[1].text \o D[2].text
<1> DEFINE D == Deltas(chunks)
           y == Yielded(chunks)
<1>1. y = IF Len(D) = 0 THEN <<>> ELSE IF Len(D) = 1 THEN D[1].text ELSE D[1].text \o D[2].text
  BY DEF Yielded
<1>2. Len(D) \in {0, 1, 2} /\ (Len(D) = 1 => D[1] \in ChunkType)
      /\ (Len(D) = 2 => D[1] \in ChunkType /\ D[2] \in ChunkType)
  BY DeltasAre
<1> HIDE DEF D, y
<1>3. CASE Len(D) = 0
  <2>1. y = <<>>
    BY <1>1, <1>3
  <2>2. y \in Seq(Word)
    BY <2>1, EmptySeq
  <2> QED BY <1>3, <2>1, <2>2 DEF D, y
<1>4. CASE Len(D) = 1
  <2>1. y = D[1].text /\ D[1] \in ChunkType
    BY <1>1, <1>2, <1>4
  <2>2. y \in Seq(Word)
    BY <2>1 DEF ChunkType
  <2> QED BY <1>4, <2>1, <2>2 DEF D, y
<1>5. CASE Len(D) = 2
  <2>1. y = D[1].text \o D[2].text /\ D[1] \in ChunkType /\ D[2] \in ChunkType
    BY <1>1, <1>2, <1>5
  <2> DEFINE a == D[1].text
             b == D[2].text
  <2>2. a \in Seq(Word) /\ b \in Seq(Word) /\ y = a \o b
    BY <2>1 DEF ChunkType
  <2>3. a \o b \in Seq(Word)
    <3> HIDE DEF a, b
    <3> QED BY <2>2, ConcatProperties
  <2>4. y \in Seq(Word)
    BY <2>2, <2>3
  <2> QED BY <1>5, <2>1, <2>4 DEF D, y
<1> QED BY <1>2, <1>3, <1>4, <1>5

\* The segmenter keeps every word of a delta, spoken or not.
LEMMA PushConveys ==
  ASSUME NEW s \in SpeechType, NEW c \in ChunkType
  PROVE  Push(s, c).spoken \o Push(s, c).buffer = (s.spoken \o s.buffer) \o c.text
<1> DEFINE a == s.spoken
           b == s.buffer
           x == c.text
           text == b \o x
           ready == IF c.final THEN Len(text) ELSE Boundary(text)
           head == SubSeq(text, 1, ready)
           tail == SubSeq(text, ready + 1, Len(text))
<1>1. a \in Seq(Word) /\ b \in Seq(Word) /\ x \in Seq(Word)
  BY DEF SpeechType, ChunkType
<1>2. Push(s, c).spoken = a \o head /\ Push(s, c).buffer = tail
  BY DEF Push
<1> HIDE DEF a, b, x
<1>3. text \in Seq(Word)
  BY <1>1, ConcatProperties
<1>4. (a \o b) \o x = a \o text
  BY <1>1, ConcatAssociative
<1> HIDE DEF text
<1>5. Len(text) \in Nat /\ ready \in 0..Len(text)
  BY <1>3, BoundaryIs, LenProperties
<1> HIDE DEF ready
<1>6. head \o tail = text
  <2>1. 1 \in 1..Len(text) + 1 /\ ready \in 1 - 1..Len(text) /\ Len(text) \in ready..Len(text)
    BY <1>5
  <2>2. SubSeq(text, 1, ready) \o SubSeq(text, ready + 1, Len(text)) = SubSeq(text, 1, Len(text))
    BY ONLY <2>1, <1>3, ConcatAdjacentSubSeq
  <2>3. SubSeq(text, 1, Len(text)) = text
    BY <1>3, SubSeqFull
  <2> QED BY <2>2, <2>3
<1>7. head \in Seq(Word) /\ tail \in Seq(Word)
  <2>1. ready + 1 \in 1..Len(text) + 1 /\ 1 \in 1..Len(text) + 1 /\ Len(text) \in 0..Len(text)
    BY <1>5
  <2> QED BY <1>3, <1>5, <2>1, PartOf
<1> HIDE DEF head, tail
<1>8. (a \o head) \o tail = a \o (head \o tail)
  BY SMTT(30), <1>1, <1>7, ConcatAssociative
<1> QED BY <1>2, <1>4, <1>6, <1>8 DEF a, b, x

\* The segmenter keeps every word of an event.
LEMMA SpeechConveys ==
  ASSUME NEW s \in SpeechType, NEW chunks, Chunked(chunks)
  PROVE  LET n == Each(Push, s, Deltas(chunks)) IN
         n.spoken \o n.buffer = (s.spoken \o s.buffer) \o Yielded(chunks)
<1> DEFINE D == Deltas(chunks)
           n == Each(Push, s, D)
           y == Yielded(chunks)
           old == s.spoken \o s.buffer
<1>0. old \in Seq(Word)
  <2> DEFINE a == s.spoken
             b == s.buffer
  <2>1. a \in Seq(Word) /\ b \in Seq(Word)
    BY DEF SpeechType
  <2> HIDE DEF a, b
  <2>2. a \o b \in Seq(Word)
    BY <2>1, ConcatProperties
  <2> QED BY <2>2 DEF a, b
<1>1. CASE Len(D) = 0 /\ y = <<>>
  <2>1. n = s
    BY <1>1 DEF Each
  <2> HIDE DEF old
  <2>2. old \o <<>> = old
    BY <1>0, ConcatEmptySeq
  <2> HIDE DEF n, y
  <2> QED BY <1>1, <2>1, <2>2 DEF n, y, old
<1>2. CASE Len(D) = 1 /\ D[1] \in ChunkType /\ y = D[1].text
  <2>1. n = Push(s, D[1])
    BY <1>2 DEF Each
  <2> HIDE DEF n, y
  <2> QED BY <1>2, <2>1, PushConveys DEF n, y
<1>3. CASE /\ Len(D) = 2 /\ D[1] \in ChunkType /\ D[2] \in ChunkType
           /\ y = D[1].text \o D[2].text
  <2> DEFINE p == Push(s, D[1])
             q == Push(p, D[2])
             u == D[1].text
             v == D[2].text
  <2>1. n = q
    BY <1>3 DEF Each
  <2>2. p \in SpeechType
    BY <1>3, PushTyped
  <2>3. p.spoken \o p.buffer = old \o u
    BY <1>3, PushConveys
  <2> HIDE DEF p
  <2>4. q.spoken \o q.buffer = (p.spoken \o p.buffer) \o v
    BY <1>3, <2>2, PushConveys
  <2>5. u \in Seq(Word) /\ v \in Seq(Word)
    BY <1>3 DEF ChunkType
  <2> HIDE DEF q, u, v, old, n, y
  <2>6. (old \o u) \o v = old \o (u \o v)
    BY <1>0, <2>5, ConcatAssociative
  <2>7. y = u \o v
    BY <1>3 DEF u, v
  <2> QED BY <2>1, <2>3, <2>4, <2>6, <2>7 DEF n, old, y
<1> QED BY <1>1, <1>2, <1>3, YieldedIs

\* What the deliveries of an event show is the text of its deltas.
LEMMA DeliveriesConvey ==
  ASSUME NEW t \in Turn, NEW chunks, Chunked(chunks)
  PROVE  /\ Awaited(Deliveries(t, chunks), t) = Yielded(chunks)
         /\ \A u \in Turn \ {t} : Awaited(Deliveries(t, chunks), u) = <<>>
<1> DEFINE new == IF t \in working THEN Deltas(chunks) ELSE chunks
           ds == Deliveries(t, chunks)
           D == Deltas(chunks)
           y == Yielded(chunks)
<1>1. ds \in Seq(Message) /\ \A i \in 1..Len(ds) : ds[i].turn = t
  BY DeliveriesAre
<1>2. new \in Seq(ChunkType) /\ Len(new) \in Nat /\ DOMAIN new = 1..Len(new)
  <2>1. new \in Seq(ChunkType)
    BY DEF Chunked
  <2> HIDE DEF new
  <2> QED BY <2>1, LenProperties
<1>3. Len(ds) = Len(new) /\ \A i \in 1..Len(new) : ds[i].text = new[i].text
  <2>1. ds = [i \in DOMAIN new |->
               [turn |-> t, text |-> new[i].text, final |-> new[i].final, progress |-> new[i].progress]]
    BY DEF Deliveries
  <2>2. Len(ds) \in Nat /\ DOMAIN ds = 1..Len(ds)
    <3> HIDE DEF ds
    <3> QED BY <1>1, LenProperties
  <2> HIDE DEF ds, new
  <2>3. DOMAIN ds = 1..Len(new) /\ \A i \in 1..Len(new) : ds[i].text = new[i].text
    BY <1>2, <2>1
  <2>4. 1..Len(ds) = 1..Len(new)
    BY ONLY <2>2, <2>3
  <2>5. Len(ds) = Len(new)
    <3> DEFINE k == Len(ds)
               l == Len(new)
    <3>1. k \in Nat /\ l \in Nat /\ 1..k = 1..l
      BY <1>2, <2>2, <2>4
    <3> HIDE DEF k, l
    <3>2. (k # 0 => k \in 1..l) /\ (l # 0 => l \in 1..k)
      BY <3>1
    <3>3. k = l
      BY ONLY <3>1, <3>2
    <3> QED BY <3>3 DEF k, l
  <2> QED BY <2>3, <2>5
<1>4. \A u \in Turn \ {t} : Awaited(ds, u) = <<>>
  <2> SUFFICES ASSUME NEW u \in Turn \ {t} PROVE Awaited(ds, u) = <<>>
    OBVIOUS
  <2> HIDE DEF ds
  <2>1. \A i \in 1..Len(ds) : ds[i].turn # u
    BY <1>1
  <2> QED BY <1>1, <2>1, AwaitedOfFew
<1>5. CASE chunks = <<Working>>
  <2>1. D = <<>>
    BY <1>5 DEF Deltas
  <2>2. y = <<>>
    BY <1>5, NoText
  <2>3. new = <<>> \/ new = <<Working>>
    BY <1>5, <2>1
  <2>4. Len(new) = 0 \/ (Len(new) = 1 /\ new[1].text = <<>>)
    <3> DEFINE w == Working
    <3>1. w.text = <<>>
      BY DEF Working
    <3> HIDE DEF w
    <3>2. Len(<<w>>) = 1 /\ <<w>>[1] = w /\ Len(<<>>) = 0
      OBVIOUS
    <3>3. new = <<>> \/ new = <<w>>
      BY <2>3 DEF w
    <3> HIDE DEF new
    <3> QED BY ONLY <3>1, <3>2, <3>3
  <2> HIDE DEF new, ds, y
  <2>5. CASE Len(ds) = 0
    BY <1>1, <2>2, <2>5, <1>4, AwaitedOfFew DEF ds, y
  <2>6. CASE Len(ds) = 1 /\ ds[1].text = <<>>
    <3>1. Awaited(ds, t) = ds[1].text
      BY <1>1, <2>6, AwaitedOfFew
    <3> QED BY <2>2, <2>6, <3>1, <1>4 DEF ds, y
  <2> QED BY <1>3, <2>4, <2>5, <2>6
<1>6. CASE chunks # <<Working>>
  <2>1. D = chunks
    BY <1>6 DEF Deltas
  <2>2. new = D
    BY <2>1
  <2>3. \/ Len(D) = 0 /\ y = <<>>
        \/ Len(D) = 1 /\ D[1] \in ChunkType /\ y = D[1].text
        \/ Len(D) = 2 /\ D[1] \in ChunkType /\ D[2] \in ChunkType /\ y = D[1].text \o D[2].text
    BY YieldedIs
  <2> HIDE DEF new, ds, y, D
  <2>4. CASE Len(D) = 0 /\ y = <<>>
    <3>1. Awaited(ds, t) = <<>>
      BY <1>1, <1>3, <2>2, <2>4, AwaitedOfFew
    <3> QED BY <2>4, <3>1, <1>4 DEF ds, y
  <2>5. CASE Len(D) = 1 /\ y = D[1].text
    <3>1. Len(ds) = 1 /\ ds[1].turn = t /\ ds[1].text = D[1].text
      BY <1>1, <1>3, <2>2, <2>5
    <3>2. Awaited(ds, t) = ds[1].text
      BY <1>1, <3>1, AwaitedOfFew
    <3> QED BY <2>5, <3>1, <3>2, <1>4 DEF ds, y
  <2>6. CASE Len(D) = 2 /\ y = D[1].text \o D[2].text
    <3>1. /\ Len(ds) = 2 /\ ds[1].turn = t /\ ds[1].text = D[1].text
          /\ ds[2].turn = t /\ ds[2].text = D[2].text
      BY <1>1, <1>3, <2>2, <2>6
    <3>2. Awaited(ds, t) = ds[1].text \o ds[2].text
      BY <1>1, <3>1, AwaitedOfFew
    <3> QED BY <2>6, <3>1, <3>2, <1>4 DEF ds, y
  <2> QED BY <2>3, <2>4, <2>5, <2>6
<1> QED BY <1>5, <1>6

\* The words an agent adds are words of its turn.
LEMMA OwnText ==
  ASSUME NEW t \in Turn, NEW m \in 0..ReplyLen[t], NEW n \in 0..ReplyLen[t], NEW x \in Seq(Word),
         Reply(t, m) \o x = Reply(t, n) \/ Reply(t, m) \o x = Reply(t, n) \o Reply(t, n)
  PROVE  /\ Those(x, WordsOf(t)) = x
         /\ \A u \in Turn \ {t} : Those(x, WordsOf(u)) = <<>>
<1> DEFINE a == Reply(t, m)
           b == Reply(t, n)
<1>1. /\ a \in Seq(Word) /\ b \in Seq(Word) /\ Len(b) \in Nat
      /\ \A i \in 1..Len(b) : b[i] \in WordsOf(t)
  BY ReplyIs
<1> HIDE DEF a, b
<1>2. \A i \in 1..Len(b \o b) : (b \o b)[i] \in WordsOf(t)
  <2> DEFINE c == b \o b
  <2>1. /\ Len(c) = Len(b) + Len(b)
        /\ \A i \in 1..Len(b) + Len(b) :
              \/ i \in 1..Len(b) /\ c[i] = b[i]
              \/ i - Len(b) \in 1..Len(b) /\ c[i] = b[i - Len(b)]
    BY ONLY <1>1, BothLists
  <2> HIDE DEF c
  <2>2. \A i \in 1..Len(c) : c[i] \in WordsOf(t)
    BY <1>1, <2>1
  <2> QED BY <2>2 DEF c
<1>3. \A i \in 1..Len(a \o x) : (a \o x)[i] \in WordsOf(t)
  <2>1. a \o x = b \/ a \o x = b \o b
    BY DEF a, b
  <2> QED BY <1>1, <1>2, <2>1
<1>4. \A i \in 1..Len(x) : x[i] \in WordsOf(t)
  <2> DEFINE c == a \o x
  <2>1. /\ Len(c) = Len(a) + Len(x) /\ Len(a) \in Nat /\ Len(x) \in Nat
        /\ \A i \in 1..Len(x) : c[Len(a) + i] = x[i]
    BY ONLY <1>1, x \in Seq(Word), BothLists
  <2>2. \A i \in 1..Len(c) : c[i] \in WordsOf(t)
    BY <1>3
  <2> HIDE DEF c
  <2>3. \A i \in 1..Len(x) : Len(a) + i \in 1..Len(c)
    BY <2>1
  <2> QED BY <2>1, <2>2, <2>3
<1>5. \A u \in Turn \ {t} : \A i \in 1..Len(x) : x[i] \notin WordsOf(u)
  BY <1>4, OwnWords
<1> QED BY <1>4, <1>5, AllKept

-----------------------------------------------------------------------------
(* The screen and the loudspeaker, action by action.                        *)

\* The words of a turn sent to its screen or waiting to be.
Queued(t) == issued[t] \o Waiting(t)

\* The words of a turn that were spoken or wait in the segmenter.
InSpeech(t) == Those(spoken[Stream(t)] \o buffer[Stream(t)], WordsOf(t))

\* What they are.
LEMMA Listening ==
  ASSUME TypeOK, NEW t \in Turn
  PROVE  /\ issued[t] \in Seq(Word) /\ Waiting(t) \in Seq(Word) /\ Queued(t) \in Seq(Word)
         /\ spoken[Stream(t)] \o buffer[Stream(t)] \in Seq(Word) /\ InSpeech(t) \in Seq(Word)
<1>1. issued[t] \in Seq(Word) /\ pending[DeviceOf[t]] \in Seq(Message)
  BY Questions DEF TypeOK
<1>2. Waiting(t) \in Seq(Word)
  BY <1>1, AwaitedOfFew DEF Waiting
<1>3. Queued(t) \in Seq(Word)
  BY <1>1, <1>2, ConcatProperties DEF Queued
<1> DEFINE a == spoken[Stream(t)]
           b == buffer[Stream(t)]
<1>4. a \in Seq(Word) /\ b \in Seq(Word)
  BY SpeechIs DEF TypeOK
<1> HIDE DEF a, b
<1>5. a \o b \in Seq(Word)
  BY <1>4, ConcatProperties
<1>6. Those(a \o b, WordsOf(t)) \in Seq(Word)
  BY <1>5, KeptOnce
<1> QED BY <1>1, <1>2, <1>3, <1>5, <1>6 DEF a, b, InSpeech

\* What an event yields joins the words of its turn on the way to the screen.
LEMMA ScreenHears ==
  ASSUME TypeOK, NEW t \in Turn, NEW chunks, Chunked(chunks), Queues(t, chunks), issued' = issued
  PROVE  \A u \in Turn :
           Queued(u)' = IF u = t THEN Queued(u) \o Yielded(chunks) ELSE Queued(u)
<1> DEFINE d == DeviceOf[t]
           ds == Deliveries(t, chunks)
           y == Yielded(chunks)
           q == pending[d]
<1>1. d \in Device /\ pending \in [Device -> Seq(Message)] /\ q \in Seq(Message)
  BY Questions DEF TypeOK
<1>2. pending' = [pending EXCEPT ![d] = q \o ds]
  BY <1>1 DEF Queues
<1>3. ds \in Seq(Message) /\ Awaited(ds, t) = y /\ y \in Seq(Word)
      /\ \A u \in Turn \ {t} : Awaited(ds, u) = <<>>
  BY DeliveriesAre, DeliveriesConvey, YieldedIs
<1> HIDE DEF ds, q, y
<1>4. ASSUME NEW u \in Turn
      PROVE  Waiting(u)' = IF u = t THEN Waiting(u) \o y ELSE Waiting(u)
  <2>1. DeviceOf[u] \in Device /\ Waiting(u) = Awaited(pending[DeviceOf[u]], u)
    BY Questions DEF Waiting
  <2>2. Waiting(u)' = Awaited(pending'[DeviceOf[u]], u)
    BY DEF Waiting
  <2>3. CASE DeviceOf[u] = d
    <3>1. pending'[DeviceOf[u]] = q \o ds /\ pending[DeviceOf[u]] = q
      BY <1>1, <1>2, <2>3 DEF q
    <3>2. Awaited(q \o ds, u) = Awaited(q, u) \o Awaited(ds, u)
      BY <1>1, <1>3, AwaitedOfBoth
    <3> DEFINE w == Awaited(q, u)
    <3>3. w \in Seq(Word)
      BY <1>1, AwaitedOfFew
    <3> HIDE DEF w
    <3>4. w \o <<>> = w
      BY <3>3, ConcatEmptySeq
    <3> QED BY <1>3, <2>1, <2>2, <3>1, <3>2, <3>4 DEF w
  <2>4. CASE DeviceOf[u] # d
    <3>1. pending'[DeviceOf[u]] = pending[DeviceOf[u]] /\ u # t
      BY <1>1, <1>2, <2>1, <2>4
    <3> QED BY <2>1, <2>2, <3>1
  <2> QED BY <2>3, <2>4
<1>5. ASSUME NEW u \in Turn
      PROVE  Queued(u)' = IF u = t THEN Queued(u) \o y ELSE Queued(u)
  <2> DEFINE a == issued[u]
             w == Waiting(u)
  <2>1. a \in Seq(Word) /\ w \in Seq(Word)
    BY Listening
  <2>2. Queued(u)' = issued[u] \o Waiting(u)'
    BY DEF Queued
  <2>3. Waiting(u)' = IF u = t THEN w \o y ELSE w
    BY <1>4
  <2> HIDE DEF a, w
  <2>4. (a \o w) \o y = a \o (w \o y)
    BY <1>3, <2>1, ConcatAssociative
  <2> QED BY <2>2, <2>3, <2>4 DEF a, w, Queued
<1> QED BY <1>5 DEF y

\* What an event yields joins the words of its turn in the segmenter or past it,
\* and the words of no other.
LEMMA SpeechHears ==
  ASSUME TypeOK, NEW t \in Turn, NEW chunks, Chunked(chunks),
         Speaks(t, Each(Push, Speech(t), Deltas(chunks))),
         Those(Yielded(chunks), WordsOf(t)) = Yielded(chunks),
         \A u \in Turn \ {t} : Those(Yielded(chunks), WordsOf(u)) = <<>>
  PROVE  \A u \in Turn :
           InSpeech(u)' = IF u = t THEN InSpeech(u) \o Yielded(chunks) ELSE InSpeech(u)
<1> DEFINE y == Yielded(chunks)
           s == Speech(t)
           n == Each(Push, s, Deltas(chunks))
           k == Stream(t)
           old == spoken[k] \o buffer[k]
<1>1. y \in Seq(Word) /\ Those(y, WordsOf(t)) = y /\ \A u \in Turn \ {t} : Those(y, WordsOf(u)) = <<>>
  BY YieldedIs
<1>2. k \in Device \X Key /\ s \in SpeechType
  BY SpeechIs
<1>3. s.spoken = spoken[k] /\ s.buffer = buffer[k]
  BY DEF Speech
<1>4. n.spoken \o n.buffer = old \o y
  <2> HIDE DEF s
  <2>1. n.spoken \o n.buffer = (s.spoken \o s.buffer) \o y
    BY <1>2, SpeechConveys
  <2> QED BY <1>3, <2>1
<1>5. old \in Seq(Word)
  BY Listening
<1>6. /\ buffer' = [buffer EXCEPT ![k] = n.buffer]
      /\ spoken' = [spoken EXCEPT ![k] = n.spoken]
      /\ buffer \in [Device \X Key -> Seq(Word)] /\ spoken \in [Device \X Key -> Seq(Word)]
  BY DEF Speaks, TypeOK
<1> HIDE DEF y, s, n, k
<1>7. ASSUME NEW u \in Turn
      PROVE  InSpeech(u)' = IF u = t THEN InSpeech(u) \o y ELSE InSpeech(u)
  <2>0. Stream(u)' = Stream(u) /\ Stream(u) \in Device \X Key
    BY SpeechIs DEF Stream
  <2>1. InSpeech(u)' = Those(spoken'[Stream(u)] \o buffer'[Stream(u)], WordsOf(u))
    BY <2>0 DEF InSpeech, Stream, WordsOf
  <2>2. CASE Stream(u) = k
    <3>1. spoken'[Stream(u)] \o buffer'[Stream(u)] = old \o y
      BY <1>2, <1>4, <1>6, <2>2
    <3>2. InSpeech(u) = Those(old, WordsOf(u))
      BY <2>2 DEF InSpeech
    <3> HIDE DEF old
    <3> DEFINE W == WordsOf(u)
               a == Those(old, W)
    <3> HIDE DEF W
    <3>3. Those(old \o y, W) = a \o Those(y, W)
      BY <1>1, <1>5, KeptOfBoth
    <3>4. a \in Seq(Word)
      BY <1>5, KeptOnce
    <3> HIDE DEF a
    <3>5. a \o <<>> = a
      BY <3>4, ConcatEmptySeq
    <3>6. InSpeech(u)' = a \o Those(y, W) /\ InSpeech(u) = a
      BY <2>1, <3>1, <3>2, <3>3 DEF W, a
    <3>7. Those(y, W) = IF u = t THEN y ELSE <<>>
      BY <1>1 DEF W
    <3> QED BY ONLY <3>5, <3>6, <3>7
  <2>3. CASE Stream(u) # k
    <3>1. spoken'[Stream(u)] = spoken[Stream(u)] /\ buffer'[Stream(u)] = buffer[Stream(u)] /\ u # t
      BY <1>2, <1>6, <2>0, <2>3 DEF k
    <3> QED BY <2>1, <3>1 DEF InSpeech
  <2> QED BY <2>2, <2>3
<1> QED BY <1>7 DEF y

\* A screen takes a message from those that wait for it.
LEMMA ScreenTakes ==
  ASSUME TypeOK, OwnScreen, NEW d \in Device, pending[d] # <<>>,
         pending' = [pending EXCEPT ![d] = Tail(@)],
         issued' = [issued EXCEPT ![Head(pending[d]).turn] = @ \o Head(pending[d]).text]
  PROVE  \A u \in Turn : Queued(u)' = Queued(u)
<1> DEFINE q == pending[d]
           h == Head(q)
           rest == Tail(q)
<1>1. /\ pending \in [Device -> Seq(Message)] /\ q \in Seq(Message) /\ q # <<>>
      /\ issued \in [Turn -> Seq(Word)]
  BY DEF TypeOK
<1>2. h \in Message /\ h = q[1] /\ rest \in Seq(Message) /\ 1 \in DOMAIN q
  <2> HIDE DEF q
  <2>1. /\ h \in Message /\ h = q[1] /\ rest \in Seq(Message)
        /\ Len(q) \in Nat \ {0} /\ DOMAIN q = 1..Len(q)
    BY <1>1, FirstTaken
  <2> QED BY <2>1
<1>3. DeviceOf[h.turn] = d
  BY <1>2 DEF OwnScreen
<1>4. h.turn \in Turn /\ h.text \in Seq(Word)
  BY <1>2 DEF Message
<1>5. ASSUME NEW u \in Turn
      PROVE  /\ h.turn = u => Awaited(q, u) = h.text \o Awaited(rest, u)
             /\ h.turn # u => Awaited(q, u) = Awaited(rest, u)
  <2> HIDE DEF q
  <2> QED BY <1>1, AwaitedFirst
<1> HIDE DEF h, rest
<1>6. ASSUME NEW u \in Turn
      PROVE  Queued(u)' = Queued(u)
  <2>1. Queued(u)' = issued'[u] \o Awaited(pending'[DeviceOf[u]], u)
    BY DEF Queued, Waiting
  <2>2. Queued(u) = issued[u] \o Awaited(pending[DeviceOf[u]], u)
    BY DEF Queued, Waiting
  <2>3. DeviceOf[u] \in Device
    BY Questions
  <2>4. pending' = [pending EXCEPT ![d] = rest] /\ issued' = [issued EXCEPT ![h.turn] = @ \o h.text]
    BY <1>1 DEF h, rest
  <2>5. CASE u = h.turn
    <3> DEFINE a == issued[u]
               b == Awaited(rest, u)
               x == h.text
    <3>1. pending'[DeviceOf[u]] = rest /\ pending[DeviceOf[u]] = q /\ issued'[u] = a \o x
      BY <1>1, <1>3, <1>4, <2>4, <2>5
    <3>2. a \in Seq(Word) /\ b \in Seq(Word) /\ x \in Seq(Word)
      BY <1>1, <1>2, <1>4, AwaitedOfFew
    <3>3. Awaited(q, u) = x \o b
      BY <1>5, <2>5
    <3> HIDE DEF a, b, x
    <3>4. (a \o x) \o b = a \o (x \o b)
      BY <3>2, ConcatAssociative
    <3> QED BY <2>1, <2>2, <3>1, <3>3, <3>4 DEF a, b
  <2>6. CASE u # h.turn
    <3>1. issued'[u] = issued[u]
      BY <1>1, <1>4, <2>4, <2>6
    <3>2. CASE DeviceOf[u] = d
      <4>1. pending'[DeviceOf[u]] = rest /\ pending[DeviceOf[u]] = q
        BY <1>1, <2>4, <3>2
      <4>2. Awaited(q, u) = Awaited(rest, u)
        BY <1>5, <2>6
      <4> QED BY <2>1, <2>2, <3>1, <4>1, <4>2
    <3>3. CASE DeviceOf[u] # d
      <4>1. pending'[DeviceOf[u]] = pending[DeviceOf[u]]
        BY <1>1, <2>3, <2>4, <3>3
      <4> QED BY <2>1, <2>2, <3>1, <4>1
    <3> QED BY <3>2, <3>3
  <2> QED BY <2>5, <2>6
<1> QED BY <1>6

\* What the listeners of a turn were told, where nothing of it changed.
LEMMA ToldStays ==
  ASSUME NEW u \in Turn, UNCHANGED conversation, said'[u] = said[u], gen'[u] = gen[u],
         BackendFor(u) = "pi" => (stage'[u] = "answered" <=> stage[u] = "answered")
  PROVE  Told(u)' = Told(u) /\ (BackendFor(u))' = BackendFor(u)
<1>1. (BackendFor(u))' = BackendFor(u)
  BY DEF BackendFor
<1>2. Reply(u, said[u])' = Reply(u, said[u])
  BY DEF Reply
<1>3. Told(u)' = LET words == Reply(u, said[u]) IN
                 IF BackendFor(u) = "pi" /\ stage'[u] = "answered" /\ ~gen'[u].told THEN words \o words
                 ELSE IF BackendFor(u) = "cli" THEN <<>> ELSE words
  BY <1>1, <1>2 DEF Told
<1> QED BY <1>1, <1>3 DEF Told

\* The generator of a turn, where nothing of it changed.
LEMMA InStepStays ==
  ASSUME NEW u \in Turn, UNCHANGED conversation, said'[u] = said[u], gen'[u] = gen[u]
  PROVE  GoesOnFrom(BackendFor(u), gen[u], u, said[u])' <=> GoesOnFrom(BackendFor(u), gen[u], u, said[u])
<1>1. (BackendFor(u))' = BackendFor(u)
  BY DEF BackendFor
<1> QED BY <1>1 DEF GoesOnFrom, Reply

\* Words that neither come nor go.
LEMMA NoWords ==
  ASSUME WordsInd, UNCHANGED <<conversation, said, gen, buffer, spoken>>,
         \A u \in Turn : Queued(u)' = Queued(u),
         \A u \in Turn :
           /\ BackendFor(u) = "pi" => (stage'[u] = "answered" <=> stage[u] = "answered")
           /\ stage'[u] \in {"new", "running"} => stage[u] \in {"new", "running"}
           /\ stage'[u] = "carding" => stage[u] = "carding"
  PROVE  InStep' /\ AllIssued' /\ SpeechComplete'
<1>1. ASSUME NEW u \in Turn
      PROVE  /\ Told(u)' = Told(u) /\ (BackendFor(u))' = BackendFor(u)
             /\ GoesOnFrom(BackendFor(u), gen[u], u, said[u])' <=> GoesOnFrom(BackendFor(u), gen[u], u, said[u])
  BY ToldStays, InStepStays
<1>2. InStep'
  BY <1>1 DEF WordsInd, InStep
<1>3. AllIssued'
  <2>1. \A u \in Turn : Queued(u)' = Told(u)'
    BY <1>1 DEF WordsInd, AllIssued, Queued
  <2> QED BY <2>1 DEF AllIssued, Queued
<1>4. SpeechComplete'
  BY <1>1 DEF WordsInd, SpeechComplete, Stream, WordsOf
<1> QED BY <1>2, <1>3, <1>4

\* What is on a screen, where nothing of it changed.
LEMMA ScreenStays ==
  ASSUME UNCHANGED <<issued, pending>>
  PROVE  \A u \in Turn : Queued(u)' = Queued(u)
BY DEF Queued, Waiting

\* A question is asked: nothing was said yet.
LEMMA AskWords ==
  ASSUME WordsInd, NEW t \in Turn, Ask(t)
  PROVE  InStep' /\ AllIssued' /\ SpeechComplete'
<1>1. stage \in [Turn -> Stage] /\ stage[t] = "new"
  BY DEF WordsInd, AgentInd, TypeOK, Ask
<1>2. /\ stage' = [stage EXCEPT ![t] = "running"]
      /\ UNCHANGED <<conversation, said, gen, buffer, spoken>> /\ UNCHANGED <<issued, pending>>
  BY DEF Ask, screen, speech
<1>3. \A u \in Turn : stage'[u] = IF u = t THEN "running" ELSE stage[u]
  BY <1>1, <1>2
<1>4. \A u \in Turn : Queued(u)' = Queued(u)
  BY <1>2, ScreenStays
<1> QED BY <1>1, <1>2, <1>3, <1>4, NoWords

\* A card is issued, which no stream ends with.
LEMMA ShowCardWords ==
  ASSUME WordsInd, NEW t \in Turn, NEW result \in Result, ShowCard(t, result)
  PROVE  InStep' /\ AllIssued' /\ SpeechComplete'
<1>1. stage \in [Turn -> Stage] /\ stage[t] \in {"erring", "carding"}
  BY DEF WordsInd, AgentInd, TypeOK, ShowCard
<1>2. /\ stage' = [stage EXCEPT ![t] = IF @ = "erring" THEN "failed" ELSE "answered"]
      /\ UNCHANGED <<conversation, said, gen, buffer, spoken>> /\ UNCHANGED <<issued, pending>>
  BY DEF ShowCard, screen, speech
<1>3. \A u \in Turn :
        stage'[u] = IF u # t THEN stage[u] ELSE IF stage[t] = "erring" THEN "failed" ELSE "answered"
  BY <1>1, <1>2
<1>4. stage[t] = "carding" => BackendFor(t) = "cli"
  BY DEF WordsInd, InStep
<1>5. \A u \in Turn : Queued(u)' = Queued(u)
  BY <1>2, ScreenStays
<1> QED BY <1>1, <1>2, <1>3, <1>4, <1>5, NoWords

\* A delivery moves words from the queue to the screen.
LEMMA DeliverWords ==
  ASSUME WordsInd, NEW d \in Device, NEW result \in Result, Deliver(d, result)
  PROVE  InStep' /\ AllIssued' /\ SpeechComplete'
<1>1. /\ UNCHANGED <<conversation, said, gen, buffer, spoken>> /\ UNCHANGED stage
      /\ pending[d] # <<>>
      /\ pending' = [pending EXCEPT ![d] = Tail(@)]
      /\ issued' = [issued EXCEPT ![Head(pending[d]).turn] = @ \o Head(pending[d]).text]
  BY DEF Deliver, speech
<1>2. TypeOK /\ OwnScreen
  BY DEF WordsInd, AgentInd
<1>3. \A u \in Turn : Queued(u)' = Queued(u)
  BY <1>1, <1>2, ScreenTakes
<1> QED BY <1>1, <1>3, NoWords

\* An event of an agent reaches every subscriber.
LEMMA SendsWords ==
  ASSUME WordsInd, NEW t \in Turn, AgentSays(t)
  PROVE  InStep' /\ AllIssued' /\ SpeechComplete'
<1> DEFINE b == BackendFor(t)
           m == said[t]
<1>1. PICK kind \in Kinds(b), n \in 0..ReplyLen[t] :
        Possible(t, kind, n) /\ AgentSends(t, kind, n)
  BY DEF AgentSays
<1> DEFINE s == BackendStep(b, gen[t], Event(t, kind, n))
           y == Yielded(s.chunks)
           old == Reply(t, m)
           new == Reply(t, n)
<1>2. /\ TypeOK /\ OwnScreen /\ stage \in [Turn -> Stage] /\ stage[t] = "running"
      /\ b \in Backend /\ gen[t] \in Gen /\ m \in 0..ReplyLen[t]
  <2>1. TypeOK /\ OwnScreen /\ stage[t] = "running"
    BY DEF WordsInd, AgentInd, AgentSays
  <2>2. stage \in [Turn -> Stage] /\ gen[t] \in Gen
    BY <2>1 DEF TypeOK
  <2>3. m \in Nat /\ m <= ReplyLen[t] /\ ReplyLen[t] \in Nat
    BY <2>1, Questions DEF TypeOK
  <2> QED BY <2>1, <2>2, <2>3, BackendIs
<1>3. /\ Contract(b, gen[t], s)
      /\ \A u \in Turn : gen'[u] = IF u = t THEN s.gen ELSE gen[u]
  BY <1>1, <1>2, SendsTyped
<1>4. GoesOnFrom(b, gen[t], t, m)
  BY <1>2 DEF WordsInd, InStep
<1>5. Conveys(b, t, m, n, s)
  BY <1>1, <1>2, <1>4, BackendWords
<1>6. UNCHANGED conversation /\ UNCHANGED issued /\ said' = [said EXCEPT ![t] = n]
  BY <1>1 DEF AgentSends
<1>7. \A u \in Turn : said'[u] = IF u = t THEN n ELSE said[u]
  BY <1>2, <1>6 DEF TypeOK
<1>8. \/ s.end = "on" /\ Hears(t, s.chunks) /\ UNCHANGED <<stage, records>>
      \/ s.end = "done" /\ Streams(b) /\ StreamEnds(t, s.chunks)
      \/ s.end = "done" /\ ~Streams(b) /\ ResponseComes(t, s.gen.text)
      \/ s.end = "fail" /\ RequestFails(t)
      \/ s.end = "crash" /\ HandlerCrashes(t)
  BY <1>1 DEF AgentSends
<1>9. Chunked(s.chunks) /\ y \in Seq(Word)
  <2>1. Chunked(s.chunks)
    BY <1>3 DEF Contract
  <2> HIDE DEF s
  <2> QED BY <2>1, YieldedIs
<1>10. Told(t) = IF b = "cli" THEN <<>> ELSE old
  BY <1>2 DEF Told
<1>11. Queued(t) = Told(t) /\ (b # "cli" => InSpeech(t) = Told(t))
  BY DEF WordsInd, AllIssued, SpeechComplete, Queued, InSpeech, Streams
<1>12. Told(t)' = IF b = "pi" /\ stage'[t] = "answered" /\ ~s.gen.told THEN new \o new
                  ELSE IF b = "cli" THEN <<>> ELSE new
  <2>1. (BackendFor(t))' = b
    BY <1>6 DEF BackendFor
  <2>2. said'[t] = n /\ gen'[t] = s.gen
    BY <1>3, <1>7
  <2>3. Reply(t, said[t])' = new
    BY <2>2 DEF Reply
  <2>4. Told(t)' = LET words == Reply(t, said[t])' IN
                   IF (BackendFor(t))' = "pi" /\ stage'[t] = "answered" /\ ~gen'[t].told THEN words \o words
                   ELSE IF (BackendFor(t))' = "cli" THEN <<>> ELSE words
    BY DEF Told
  <2> HIDE DEF new, s, b
  <2> QED BY <2>1, <2>2, <2>3, <2>4
<1> HIDE DEF s, y, old, new, b, m
\* What is left to show of a step.
<1>13. ASSUME \A u \in Turn \ {t} : stage'[u] = stage[u],
              stage'[t] # "new", stage'[t] = "running" => GoesOnFrom(b, s.gen, t, n),
              stage'[t] = "carding" => b = "cli",
              \A u \in Turn \ {t} : Queued(u)' = Queued(u),
              \A u \in Turn \ {t} : Streams(BackendFor(u)) => InSpeech(u)' = InSpeech(u),
              Queued(t)' = Told(t)',
              b # "cli" => InSpeech(t)' = Told(t)'
       PROVE  InStep' /\ AllIssued' /\ SpeechComplete'
  <2>1. ASSUME NEW u \in Turn \ {t}
        PROVE  /\ Told(u)' = Told(u) /\ (BackendFor(u))' = BackendFor(u)
               /\ GoesOnFrom(BackendFor(u), gen[u], u, said[u])' <=> GoesOnFrom(BackendFor(u), gen[u], u, said[u])
    <3>1. said'[u] = said[u] /\ gen'[u] = gen[u] /\ stage'[u] = stage[u]
      BY <1>3, <1>7, <1>13
    <3> QED BY <1>6, <3>1, ToldStays, InStepStays
  <2>2. (BackendFor(t))' = b /\ said'[t] = n /\ gen'[t] = s.gen
    BY <1>3, <1>6, <1>7 DEF BackendFor, b
  <2>3. InStep'
    <3>1. stage'[t] = "running" => GoesOnFrom(BackendFor(t), gen[t], t, said[t])'
      BY <1>13, <2>2 DEF GoesOnFrom, Reply
    <3>2. stage'[t] = "carding" => (BackendFor(t))' = "cli"
      BY <1>13, <2>2
    <3>3. ASSUME NEW u \in Turn \ {t}
          PROVE  /\ stage'[u] \in {"new", "running"} => GoesOnFrom(BackendFor(u), gen[u], u, said[u])'
                 /\ stage'[u] = "carding" => (BackendFor(u))' = "cli"
      <4>1. stage'[u] = stage[u]
        BY <1>13
      <4> QED BY <2>1, <4>1 DEF WordsInd, InStep
    <3> QED BY <1>13, <3>1, <3>2, <3>3 DEF InStep
  <2>4. AllIssued'
    <3>1. \A u \in Turn \ {t} : Queued(u)' = Told(u)'
      BY <1>13, <2>1 DEF WordsInd, AllIssued, Queued
    <3>2. \A u \in Turn : Queued(u)' = Told(u)'
      BY <1>13, <3>1
    <3> QED BY <3>2 DEF AllIssued, Queued
  <2>5. SpeechComplete'
    <3>1. \A u \in Turn \ {t} : Streams(BackendFor(u)) => InSpeech(u)' = Told(u)'
      BY <1>13, <2>1 DEF WordsInd, SpeechComplete, InSpeech
    <3>2. \A u \in Turn : Streams((BackendFor(u))') => InSpeech(u)' = Told(u)'
      BY <1>13, <2>1, <2>2, <3>1 DEF Streams
    <3> QED BY <3>2 DEF SpeechComplete, InSpeech, Streams
  <2> QED BY <2>3, <2>4, <2>5
\* The words an event adds are heard by all, and are of its turn.
<1>14. ASSUME Hears(t, s.chunks), old \o y = new \/ old \o y = new \o new, b # "cli"
       PROVE  /\ Queued(t)' = old \o y /\ InSpeech(t)' = old \o y
              /\ \A u \in Turn \ {t} : Queued(u)' = Queued(u) /\ InSpeech(u)' = InSpeech(u)
  <2>1. Queues(t, s.chunks) /\ Speaks(t, Each(Push, Speech(t), Deltas(s.chunks)))
    BY <1>14 DEF Hears
  <2>2. Those(y, WordsOf(t)) = y /\ \A u \in Turn \ {t} : Those(y, WordsOf(u)) = <<>>
    <3>1. m \in 0..ReplyLen[t] /\ n \in 0..ReplyLen[t]
      BY <1>2, <1>3, <1>5, SMTT(30) DEF m
    <3>2. Reply(t, m) \o y = Reply(t, n) \/ Reply(t, m) \o y = Reply(t, n) \o Reply(t, n)
      BY <1>14 DEF old, new, m
    <3>3. y \in Seq(Word)
      BY <1>9
    <3>4. t \in Turn
      OBVIOUS
    <3>5. \A x \in Seq(Word) :
             Reply(t, m) \o x = Reply(t, n) \/ Reply(t, m) \o x = Reply(t, n) \o Reply(t, n)
               => /\ Those(x, WordsOf(t)) = x
                  /\ \A u \in Turn \ {t} : Those(x, WordsOf(u)) = <<>>
      BY ONLY <3>1, <3>4, OwnText
    <3> QED BY ONLY <3>2, <3>3, <3>5
  <2>3. \A u \in Turn : Queued(u)' = IF u = t THEN Queued(u) \o y ELSE Queued(u)
    BY <1>2, <1>6, <1>9, <2>1, ScreenHears DEF y
  <2>4. \A u \in Turn : InSpeech(u)' = IF u = t THEN InSpeech(u) \o y ELSE InSpeech(u)
    BY <1>2, <1>9, <2>1, <2>2, SpeechHears DEF y
  <2>5. Queued(t) = old /\ InSpeech(t) = old
    BY <1>10, <1>11, <1>14
  <2> QED BY <2>3, <2>4, <2>5
<1>15. CASE s.end = "on" /\ Hears(t, s.chunks) /\ UNCHANGED <<stage, records>>
  <2>1. b # "cli" /\ old \o y = new /\ GoesOnFrom(b, s.gen, t, n)
    BY <1>5, <1>15 DEF Conveys, old, new, y
  <2>2. stage'[t] = "running" /\ \A u \in Turn : stage'[u] = stage[u]
    BY <1>2, <1>15
  <2>3. Told(t)' = new
    BY <1>12, <2>1, <2>2
  <2>4. /\ Queued(t)' = new /\ InSpeech(t)' = new
        /\ \A u \in Turn \ {t} : Queued(u)' = Queued(u) /\ InSpeech(u)' = InSpeech(u)
    BY <1>14, <1>15, <2>1
  <2> QED BY <1>13, <2>1, <2>2, <2>3, <2>4
<1>16. CASE s.end = "done" /\ Streams(b) /\ StreamEnds(t, s.chunks)
  <2>1. b # "cli" /\ old \o y = IF b = "pi" /\ ~s.gen.told THEN new \o new ELSE new
    BY <1>5, <1>16 DEF Conveys, old, new, y, Streams
  <2>2. stage'[t] = "answered" /\ \A u \in Turn \ {t} : stage'[u] = stage[u]
    BY <1>2, <1>16 DEF StreamEnds
  <2>3. Told(t)' = old \o y
    BY <1>12, <2>1, <2>2
  <2>4. /\ Queued(t)' = old \o y /\ InSpeech(t)' = old \o y
        /\ \A u \in Turn \ {t} : Queued(u)' = Queued(u) /\ InSpeech(u)' = InSpeech(u)
    BY <1>14, <1>16, <2>1 DEF StreamEnds
  <2> QED BY <1>13, <2>1, <2>2, <2>3, <2>4
<1>17. CASE s.end = "done" /\ ~Streams(b) /\ ResponseComes(t, s.gen.text)
  <2>1. b = "cli" /\ UNCHANGED pending
    BY <1>17 DEF Streams, ResponseComes
  <2>2. stage'[t] \in {"answered", "carding"} /\ \A u \in Turn \ {t} : stage'[u] = stage[u]
    BY <1>2, <1>17 DEF ResponseComes
  <2>3. \A u \in Turn : Queued(u)' = Queued(u)
    BY <1>6, <2>1, ScreenStays
  <2>4. Told(t)' = <<>> /\ Queued(t) = <<>>
    BY <1>10, <1>11, <1>12, <2>1
  <2>5. ASSUME NEW u \in Turn \ {t}, Streams(BackendFor(u))
        PROVE  InSpeech(u)' = InSpeech(u)
    <3>1. DeviceOf[u] # DeviceOf[t]
      BY <2>1, <2>5 DEF BackendFor, Streams, b
    <3>2. Stream(u) # Stream(t) /\ Stream(u) \in Device \X Key
      BY <1>2, <3>1, SpeechIs DEF Stream
    <3>3. buffer'[Stream(u)] = buffer[Stream(u)] /\ spoken'[Stream(u)] = spoken[Stream(u)]
      BY <1>2, <1>17, <3>2 DEF ResponseComes, Speaks, TypeOK
    <3> QED BY <3>3 DEF InSpeech, Stream, WordsOf
  <2> QED BY <1>13, <2>1, <2>2, <2>3, <2>4, <2>5
<1>18. ASSUME s.end \in {"fail", "crash"}, NEW to \in {"failed", "erring", "crashed"},
              stage' = [stage EXCEPT ![t] = to], UNCHANGED <<pending, buffer, spoken>>
       PROVE  InStep' /\ AllIssued' /\ SpeechComplete'
  <2>1. n = m /\ new = old
    BY <1>5, <1>18 DEF Conveys, old, new, m
  <2>2. stage'[t] = to /\ \A u \in Turn \ {t} : stage'[u] = stage[u]
    BY <1>2, <1>18
  <2>3. Told(t)' = Told(t)
    BY <1>10, <1>12, <1>18, <2>1, <2>2
  <2>4. \A u \in Turn : Queued(u)' = Queued(u)
    BY <1>6, <1>18, ScreenStays
  <2>5. \A u \in Turn : InSpeech(u)' = InSpeech(u)
    BY <1>18 DEF InSpeech, Stream, WordsOf
  <2>6. b # "cli" => InSpeech(t)' = Told(t)'
    BY <1>11, <2>3, <2>5
  <2> QED BY <1>11, <1>13, <1>18, <2>2, <2>3, <2>4, <2>5, <2>6
<1>19. CASE s.end = "fail" /\ RequestFails(t)
  <2>1. /\ stage' = [stage EXCEPT ![t] = IF t \in Spoken THEN "failed" ELSE "erring"]
        /\ UNCHANGED <<pending, buffer, spoken>>
    BY <1>19 DEF RequestFails, speech
  <2> QED BY <1>18, <1>19, <2>1
<1>20. CASE s.end = "crash" /\ HandlerCrashes(t)
  <2>1. stage' = [stage EXCEPT ![t] = "crashed"] /\ UNCHANGED <<pending, buffer, spoken>>
    BY <1>20 DEF HandlerCrashes, speech
  <2> QED BY <1>18, <1>20, <2>1
<1> QED BY <1>8, <1>15, <1>16, <1>17, <1>19, <1>20

\* Nothing was said, issued or spoken at the start.
LEMMA WordsStart ==
  ASSUME Init
  PROVE  WordsInd
<1>1. AgentInd
  BY AgentStart
<1>2. /\ stage = [t \in Turn |-> "new"] /\ said = [t \in Turn |-> 0] /\ gen = [t \in Turn |-> Fresh]
      /\ pending = [d \in Device |-> <<>>] /\ issued = [t \in Turn |-> <<>>]
      /\ buffer = [k \in Device \X Key |-> <<>>] /\ spoken = [k \in Device \X Key |-> <<>>]
  BY DEF Init
<1>3. ASSUME NEW t \in Turn
      PROVE  Reply(t, said[t]) = <<>> /\ Reply(t, 0) = <<>>
  <2>1. 0 \in 0..ReplyLen[t]
    BY Questions
  <2>2. Reply(t, 0) \in Seq(Word) /\ Len(Reply(t, 0)) = 0
    BY <2>1, ReplyIs
  <2> DEFINE r == Reply(t, 0)
  <2> HIDE DEF r
  <2>3. r = <<>>
    BY <2>2, EmptySeq DEF r
  <2>4. said[t] = 0
    BY <1>2
  <2> QED BY <2>3, <2>4 DEF r
<1>4. InStep
  <2>1. Fresh.sent = <<>> /\ Fresh.text = <<>> /\ Fresh.told = FALSE
    BY DEF Fresh
  <2> SUFFICES ASSUME NEW t \in Turn
               PROVE  /\ GoesOnFrom(BackendFor(t), gen[t], t, said[t])
                      /\ stage[t] # "carding"
    BY DEF InStep
  <2>2. gen[t] = Fresh /\ said[t] = 0 /\ stage[t] = "new"
    BY <1>2
  <2> QED BY <1>3, <2>1, <2>2 DEF GoesOnFrom
<1>5. ASSUME NEW t \in Turn
      PROVE  Told(t) = <<>> /\ Queued(t) = <<>> /\ InSpeech(t) = <<>>
  <2>0. <<>> \in Seq(Word) /\ <<>> \in Seq(Message)
    BY EmptySeq
  <2>1. stage[t] = "new" /\ issued[t] = <<>> /\ pending[DeviceOf[t]] = <<>>
    BY <1>2, Questions
  <2>2. Told(t) = <<>>
    BY <1>3, <2>1 DEF Told
  <2>3. buffer[Stream(t)] = <<>> /\ spoken[Stream(t)] = <<>>
    BY <1>1, <1>2, SpeechIs DEF AgentInd
  <2> DEFINE none == <<>>
  <2>4. none \o none = none /\ Awaited(none, t) = none /\ Those(none, WordsOf(t)) = none
    <3>1. none \in Seq(Word) /\ none \in Seq(Message) /\ Len(none) = 0
      BY <2>0
    <3>2. none \o <<>> = none
      <4> HIDE DEF none
      <4> QED BY <3>1, ConcatEmptySeq
    <3>3. Awaited(none, t) = <<>>
      <4> HIDE DEF none
      <4> QED BY <3>1, AwaitedOfFew
    <3>4. Those(none, WordsOf(t)) = <<>>
      <4> HIDE DEF none
      <4> QED BY <3>1, NothingKept
    <3> QED BY <3>2, <3>3, <3>4
  <2>5. Queued(t) = none
    BY <2>1, <2>4 DEF Queued, Waiting
  <2>6. InSpeech(t) = none
    BY <2>3, <2>4 DEF InSpeech
  <2> QED BY <2>2, <2>5, <2>6
<1>6. AllIssued
  BY <1>5 DEF AllIssued, Queued
<1>7. SpeechComplete
  BY <1>5 DEF SpeechComplete, InSpeech
<1> QED BY <1>1, <1>4, <1>6, <1>7 DEF WordsInd

\* Every step of a turn keeps every word.
LEMMA WordsStep ==
  ASSUME WordsInd, [Next]_vars
  PROVE  WordsInd'
<1>0. AgentInd'
  BY AgentStep DEF WordsInd
<1>1. CASE UNCHANGED vars
  <2>1. /\ UNCHANGED <<conversation, said, gen, buffer, spoken>> /\ UNCHANGED <<issued, pending>>
        /\ UNCHANGED stage
    BY <1>1 DEF vars, screen, speech
  <2>2. \A u \in Turn : Queued(u)' = Queued(u)
    BY <2>1, ScreenStays
  <2>3. InStep' /\ AllIssued' /\ SpeechComplete'
    BY <2>1, <2>2, NoWords
  <2> QED BY <1>0, <2>3 DEF WordsInd
<1>2. ASSUME NEW t \in Turn, Ask(t)
      PROVE  WordsInd'
  BY <1>0, <1>2, AskWords DEF WordsInd
<1>3. ASSUME NEW t \in Turn, AgentSays(t)
      PROVE  WordsInd'
  BY <1>0, <1>3, SendsWords DEF WordsInd
<1>4. ASSUME NEW t \in Turn, NEW r \in Result, ShowCard(t, r)
      PROVE  WordsInd'
  BY <1>0, <1>4, ShowCardWords DEF WordsInd
<1>5. ASSUME NEW d \in Device, NEW r \in Result, Deliver(d, r)
      PROVE  WordsInd'
  BY <1>0, <1>5, DeliverWords DEF WordsInd
<1> QED BY <1>1, <1>2, <1>3, <1>4, <1>5 DEF Next, Work

\* What the agents say and what their listeners are told stay in step, for any
\* number of devices, questions, backends, words and faults.
THEOREM WordsInductive == Spec => []WordsInd
<1>1. Init => WordsInd
  BY WordsStart
<1>2. WordsInd /\ [Next]_vars => WordsInd'
  BY WordsStep
<1> QED BY <1>1, <1>2, PTL DEF Spec

\* Nothing of a whole is left out by itself.
LEMMA NothingLeftOut ==
  ASSUME NEW w \in Seq(Word)
  PROVE  LeftOut(w, w)
<1> DEFINE at == [i \in 1..Len(w) |-> i]
<1>1. Len(w) \in Nat
  BY LenProperties
<1>2. at \in [1..Len(w) -> 1..Len(w)] /\ \A i \in 1..Len(w) : at[i] = i
  OBVIOUS
<1> HIDE DEF at
<1> QED BY <1>1, <1>2 DEF LeftOut

\* What is left out of a part is left out of the whole, and both may go on alike.
LEMMA LeftOutGoesOn ==
  ASSUME NEW s \in Seq(Word), NEW w \in Seq(Word), NEW x \in Seq(Word), LeftOut(s, w)
  PROVE  LeftOut(s, w \o x) /\ LeftOut(s \o x, w \o x)
<1> DEFINE wx == w \o x
           sx == s \o x
<1>1. /\ Len(wx) = Len(w) + Len(x) /\ Len(w) \in Nat /\ Len(x) \in Nat
      /\ \A i \in 1..Len(w) : wx[i] = w[i]
      /\ \A i \in 1..Len(x) : wx[Len(w) + i] = x[i]
  BY BothLists
<1>2. /\ Len(sx) = Len(s) + Len(x) /\ Len(s) \in Nat
      /\ \A i \in 1..Len(s) : sx[i] = s[i]
      /\ \A i \in 1..Len(x) : sx[Len(s) + i] = x[i]
  BY BothLists
<1>3. PICK at \in [1..Len(s) -> 1..Len(w)] :
        /\ \A i, j \in 1..Len(s) : i < j => at[i] < at[j]
        /\ \A i \in 1..Len(s) : s[i] = w[at[i]]
  BY DEF LeftOut
<1> DEFINE on == [i \in 1..Len(sx) |-> IF i <= Len(s) THEN at[i] ELSE Len(w) + (i - Len(s))]
<1> HIDE DEF wx, sx
<1>4. LeftOut(s, wx)
  <2>1. at \in [1..Len(s) -> 1..Len(wx)]
    BY <1>1
  <2>2. \A i \in 1..Len(s) : s[i] = wx[at[i]]
    BY <1>1, <1>3
  <2> QED BY <1>3, <2>1, <2>2 DEF LeftOut
<1>5. /\ on \in [1..Len(sx) -> 1..Len(wx)]
      /\ \A i \in 1..Len(sx) : on[i] = IF i <= Len(s) THEN at[i] ELSE Len(w) + (i - Len(s))
  BY <1>1, <1>2
<1> HIDE DEF on
<1>6. \A i, j \in 1..Len(sx) : i < j => on[i] < on[j]
  <2> SUFFICES ASSUME NEW i \in 1..Len(sx), NEW j \in 1..Len(sx), i < j
               PROVE  on[i] < on[j]
    OBVIOUS
  <2>1. CASE j <= Len(s)
    <3>1. i \in 1..Len(s) /\ j \in 1..Len(s) /\ on[i] = at[i] /\ on[j] = at[j]
      BY <1>2, <1>5, <2>1
    <3> QED BY <1>3, <3>1
  <2>2. CASE i <= Len(s) /\ ~(j <= Len(s))
    <3>1. i \in 1..Len(s) /\ on[i] = at[i] /\ on[j] = Len(w) + (j - Len(s))
      BY <1>2, <1>5, <2>2
    <3>2. at[i] \in 1..Len(w)
      BY <3>1
    <3> QED BY <1>1, <1>2, <2>2, <3>1, <3>2
  <2>3. CASE ~(i <= Len(s))
    <3>1. on[i] = Len(w) + (i - Len(s)) /\ on[j] = Len(w) + (j - Len(s))
      BY <1>2, <1>5, <2>3
    <3> QED BY <1>1, <1>2, <3>1
  <2> QED BY <2>1, <2>2, <2>3
<1>7. \A i \in 1..Len(sx) : sx[i] = wx[on[i]]
  <2> SUFFICES ASSUME NEW i \in 1..Len(sx)
               PROVE  sx[i] = wx[on[i]]
    OBVIOUS
  <2>1. CASE i <= Len(s)
    <3>1. i \in 1..Len(s) /\ on[i] = at[i]
      BY <1>2, <1>5, <2>1
    <3>2. at[i] \in 1..Len(w)
      BY <3>1
    <3> QED BY <1>1, <1>2, <1>3, <3>1, <3>2
  <2>2. CASE ~(i <= Len(s))
    <3>1. i - Len(s) \in 1..Len(x) /\ on[i] = Len(w) + (i - Len(s))
      BY <1>1, <1>2, <1>5, <2>2
    <3>2. sx[Len(s) + (i - Len(s))] = x[i - Len(s)] /\ wx[Len(w) + (i - Len(s))] = x[i - Len(s)]
      BY <1>1, <1>2, <3>1
    <3>3. Len(s) + (i - Len(s)) = i
      BY <1>2
    <3> QED BY <3>1, <3>2, <3>3
  <2> QED BY <2>1, <2>2
<1>8. LeftOut(sx, wx)
  BY <1>5, <1>6, <1>7 DEF LeftOut
<1> QED BY <1>4, <1>8 DEF wx, sx

\* A command that got to the screen keeps the gaps it had; one that was lost leaves
\* another.
LEMMA GapsStep ==
  ASSUME TypeOK, Gaps, [Next]_vars
  PROVE  Gaps'
<1>1. CASE UNCHANGED <<issued, shown>> /\ dropped \subseteq dropped'
  BY <1>1 DEF Gaps
<1>2. CASE UNCHANGED vars
  BY <1>1, <1>2 DEF vars, screen
<1>3. ASSUME NEW t \in Turn, Ask(t)
      PROVE  Gaps'
  BY <1>1, <1>3 DEF Ask, screen
<1>4. ASSUME NEW t \in Turn, AgentSays(t)
      PROVE  Gaps'
  <2>1. PICK kind, n : AgentSends(t, kind, n)
    BY <1>4 DEF AgentSays
  <2> QED BY <1>1, <2>1 DEF AgentSends
<1>5. ASSUME NEW t \in Turn, NEW r \in Result, ShowCard(t, r)
      PROVE  Gaps'
  BY <1>1, <1>5 DEF ShowCard, Reaches, screen
<1>6. ASSUME NEW d \in Device, NEW r \in Result, Deliver(d, r)
      PROVE  Gaps'
  <2> DEFINE q == pending[d]
             h == Head(q)
             x == h.text
  <2>1. /\ pending \in [Device -> Seq(Message)] /\ q \in Seq(Message) /\ q # <<>>
        /\ issued \in [Turn -> Seq(Word)] /\ shown \in [Turn -> Seq(Word)]
    BY <1>6 DEF TypeOK, Deliver
  <2>2. h \in Message
    <3> HIDE DEF q
    <3> QED BY <2>1, FirstTaken
  <2>3. h.turn \in Turn /\ x \in Seq(Word)
    BY <2>2 DEF Message
  <2>4. /\ issued' = [issued EXCEPT ![h.turn] = @ \o x]
        /\ IF r = "lost" THEN shown' = shown ELSE shown' = [shown EXCEPT ![h.turn] = @ \o x]
        /\ dropped' = IF x # <<>> /\ r = "lost" THEN dropped \cup {h.turn} ELSE dropped
    BY <1>6 DEF Deliver, Reaches
  <2> HIDE DEF h, x
  <2> SUFFICES ASSUME NEW t \in Turn
               PROVE  /\ t \notin dropped' => shown'[t] = issued'[t]
                      /\ LeftOut(shown'[t], issued'[t])
    BY DEF Gaps
  <2> DEFINE a == shown[t]
             b == issued[t]
  <2>5. /\ a \in Seq(Word) /\ b \in Seq(Word) /\ LeftOut(a, b)
        /\ t \notin dropped => a = b
    BY <2>1 DEF Gaps
  <2>6. CASE t # h.turn
    <3>1. shown'[t] = a /\ issued'[t] = b /\ (t \in dropped' <=> t \in dropped)
      BY <2>1, <2>3, <2>4, <2>6
    <3> QED BY <2>5, <3>1
  <2>7. CASE t = h.turn
    <3>1. issued'[t] = b \o x /\ shown'[t] = IF r = "lost" THEN a ELSE a \o x
      BY <2>1, <2>3, <2>4, <2>7
    <3>2. x = <<>> \/ r # "lost" \/ t \in dropped'
      BY <2>4, <2>7
    <3>3. dropped \subseteq dropped'
      BY <2>4
    <3> HIDE DEF a, b
    <3>4. LeftOut(a, b \o x) /\ LeftOut(a \o x, b \o x)
      BY ONLY <2>3, <2>5, LeftOutGoesOn
    <3>5. x = <<>> => b \o x = b
      BY <2>5, ConcatEmptySeq
    <3>6. LeftOut(shown'[t], issued'[t])
      BY <3>1, <3>4
    <3>7. t \notin dropped' => shown'[t] = issued'[t]
      BY <2>5, <3>1, <3>2, <3>3, <3>5
    <3> QED BY <3>6, <3>7
  <2> QED BY <2>6, <2>7
<1> QED BY <1>2, <1>3, <1>4, <1>5, <1>6 DEF Next, Work

\* A screen shows the words of every agent in their order and each once, whatever
\* other turns do meanwhile, unless a command of the turn (words or a card) was
\* lost: then words are missing, but none comes twice or out of order.
THEOREM ScreensComplete == Spec => []ScreenComplete
<1>1. Init => Gaps
  <2> SUFFICES ASSUME Init, NEW t \in Turn
               PROVE  shown[t] = issued[t] /\ LeftOut(shown[t], issued[t])
    BY DEF Gaps
  <2> DEFINE none == <<>>
  <2>1. shown[t] = none /\ issued[t] = none
    BY DEF Init
  <2>2. none \in Seq(Word)
    BY EmptySeq
  <2> HIDE DEF none
  <2> QED BY <2>1, <2>2, NothingLeftOut
<1>2. WordsInd /\ Gaps /\ [Next]_vars => Gaps'
  BY GapsStep DEF WordsInd, AgentInd
<1>3. WordsInd /\ Gaps => ScreenComplete
  <2> SUFFICES ASSUME WordsInd, Gaps, NEW t \in Turn
               PROVE  /\ t \notin dropped => shown[t] \o Waiting(t) = Told(t)
                      /\ LeftOut(shown[t] \o Waiting(t), Told(t))
    BY DEF ScreenComplete
  <2> DEFINE a == shown[t]
             b == issued[t]
             w == Waiting(t)
  <2>1. /\ t \notin dropped => a = b
        /\ LeftOut(a, b) /\ b \o w = Told(t)
    BY DEF WordsInd, AllIssued, Gaps
  <2>2. a \in Seq(Word) /\ b \in Seq(Word) /\ w \in Seq(Word)
    BY Listening DEF WordsInd, AgentInd, TypeOK
  <2> HIDE DEF a, b, w
  <2>3. LeftOut(a \o w, b \o w)
    BY ONLY <2>1, <2>2, LeftOutGoesOn
  <2> QED BY <2>1, <2>3 DEF a, w
<1> QED BY <1>1, <1>2, <1>3, WordsInductive, PTL DEF Spec

\* A loudspeaker gets the same words in the same order, also where two turns
\* share the key of their stream.
THEOREM LoudspeakersComplete == Spec => []SpeechComplete
<1>1. WordsInd => SpeechComplete
  BY DEF WordsInd
<1> QED BY <1>1, WordsInductive, PTL

-----------------------------------------------------------------------------
(* A spoken question.                                                       *)

\* The turns of a spoken question are turns of AgentTurn: each step is one of
\* its steps or leaves it alone.
THEOREM TurnsAreAgents == VoiceSpec => Spec
<1>1. VoiceInit => Init
  BY DEF VoiceInit
<1>2. [VoiceNext]_all => [Next]_vars
  <2> SUFFICES ASSUME [VoiceNext]_all
               PROVE  [Next]_vars
    OBVIOUS
  <2>1. CASE UNCHANGED vars
    BY <2>1 DEF vars
  <2>2. CASE UNCHANGED all
    BY <2>1, <2>2 DEF all
  <2>3. CASE Heard
    BY <2>3, Questions DEF Heard, Next
  <2>4. CASE Work \/ \E t \in Turn \ Spoken : Ask(t)
    BY <2>4 DEF Next
  <2> QED BY <2>1, <2>2, <2>3, <2>4 DEF VoiceNext
<1> QED BY <1>1, <1>2, PTL DEF VoiceSpec, Spec

\* Only a question that is asked starts a turn.
LEMMA WorkStartsNone ==
  ASSUME TypeOK, Work, NEW u \in Turn, stage'[u] # "new"
  PROVE  stage[u] # "new"
<1>0. stage \in [Turn -> Stage]
  BY DEF TypeOK
<1>1. ASSUME NEW t \in Turn, AgentSays(t)
      PROVE  stage[u] # "new"
  <2>1. PICK kind, n : AgentSends(t, kind, n)
    BY <1>1 DEF AgentSays
  <2>2. stage[t] = "running"
    BY <1>1 DEF AgentSays
  <2>3. stage' = stage \/ \E to : stage' = [stage EXCEPT ![t] = to]
    BY <2>1 DEF AgentSends, StreamEnds, ResponseComes, RequestFails, HandlerCrashes
  <2> QED BY <1>0, <2>2, <2>3
<1>2. ASSUME NEW t \in Turn, NEW r \in Result, ShowCard(t, r)
      PROVE  stage[u] # "new"
  BY <1>0, <1>2 DEF ShowCard
<1>3. ASSUME NEW d \in Device, NEW r \in Result, Deliver(d, r)
      PROVE  stage[u] # "new"
  BY <1>3 DEF Deliver
<1> QED BY <1>1, <1>2, <1>3 DEF Work

\* A spoken turn answers a recording that was recognized, of the device it answers.
Recognizes(t) == \E j \in transcripts : j.id = KeyOf[t] /\ j.device = DeviceOf[t]

\* Every spoken turn that started answers such a recording.
Heeded == \A t \in Spoken : stage[t] # "new" => Recognizes(t)

\* What was recognized stays so.
LEMMA RecognizedStays ==
  ASSUME NEW j \in jobs, NEW x, Recognized(j, x)
  PROVE  /\ \A t \in Spoken : Recognizes(t) => Recognizes(t)'
         /\ x # "error" => j \in transcripts'
<1>1. transcripts \subseteq transcripts' /\ (x # "error" => j \in transcripts')
  BY DEF Recognized
<1> QED BY <1>1 DEF Recognizes

\* Other steps of a recording take no transcript away.
LEMMA BufferingKeeps ==
  ASSUME Buffering
  PROVE  transcripts' = transcripts
BY DEF Buffering, FinishArrives, ChunkArrives, Transcribe

\* A spoken turn starts with the transcript of its recording.
LEMMA HeededStep ==
  ASSUME UploadInd, TypeOK, Heeded, [VoiceNext]_all
  PROVE  Heeded'
<1>0. NothingCut /\ stage \in [Turn -> Stage] /\ Spoken \subseteq Turn
  BY Questions DEF UploadInd, UploadInv, TypeOK
<1>1. CASE UNCHANGED all
  BY <1>1 DEF all, upload, vars, Heeded, Recognizes
<1>2. CASE Buffering /\ UNCHANGED vars
  BY <1>2, BufferingKeeps DEF vars, Heeded, Recognizes
<1>3. ASSUME NEW j \in jobs, NEW x, Recognized(j, x), UNCHANGED vars
      PROVE  Heeded'
  <2>1. \A t \in Spoken : Recognizes(t) => Recognizes(t)'
    BY <1>0, <1>3, RecognizedStays
  <2>2. stage' = stage
    BY <1>3 DEF vars
  <2> QED BY <2>1, <2>2 DEF Heeded
<1>4. CASE Heard
  <2>1. PICK j \in jobs, t \in Spoken : KeyOf[t] = j.id /\ Recognized(j, "text") /\ Ask(t)
    BY <1>4 DEF Heard
  <2>2. /\ \A u \in Spoken : Recognizes(u) => Recognizes(u)'
        /\ j \in transcripts'
    BY <1>0, <2>1, RecognizedStays
  <2>3. j.device = DeviceOf[t]
    BY <1>0, <2>1, SpokenAssumption DEF NothingCut, Recognitions
  <2>4. Recognizes(t)'
    BY <2>1, <2>2, <2>3 DEF Recognizes
  <2>5. \A u \in Spoken : u # t => stage'[u] = stage[u]
    BY <1>0, <2>1 DEF Ask
  <2> QED BY <2>2, <2>4, <2>5 DEF Heeded
<1>5. CASE UNCHANGED upload /\ Work
  <2>1. \A u \in Spoken : stage'[u] # "new" => stage[u] # "new"
    BY <1>0, <1>5, WorkStartsNone
  <2> QED BY <1>5, <2>1 DEF Heeded, Recognizes, upload
<1>6. ASSUME UNCHANGED upload, NEW t \in Turn \ Spoken, Ask(t)
      PROVE  Heeded'
  <2>1. \A u \in Spoken : stage'[u] = stage[u]
    BY <1>0, <1>6 DEF Ask
  <2> QED BY <1>6, <2>1 DEF Heeded, Recognizes, upload
<1> QED BY <1>1, <1>2, <1>3, <1>4, <1>5, <1>6 DEF VoiceNext, HeardElsewhere

\* Whoever asks is answered: the words on a screen answer a recording of its own
\* device that was recognized, or a text typed on it.
THEOREM AskerAnswered == VoiceSpec => []AnswersAsker
<1>1. VoiceInit => Heeded
  BY Questions DEF VoiceInit, Init, Heeded
<1>2. UploadInd /\ AgentInd /\ Heeded /\ [VoiceNext]_all => Heeded'
  BY HeededStep DEF AgentInd
<1>3. VoiceSpec => []AgentInd
  BY TurnsAreAgents, AgentInductive, PTL
<1>4. AgentInd /\ Heeded => AnswersAsker
  BY DEF AgentInd, OwnScreen, Heeded, Recognizes, AnswersAsker
<1> QED BY <1>1, <1>2, <1>3, <1>4, UploadInductive, PTL DEF VoiceSpec
=============================================================================
