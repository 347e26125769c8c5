----------------------------- MODULE AudioUpload -----------------------------
(***************************************************************************)
(* A recording on its way to a transcript: the frames of a device that     *)
(* reach the gateway, the buffers of StreamAccumulator (audio/pipeline.py),*)
(* the transcription tasks it schedules and the threads that run the       *)
(* speech recognizer.  Buffers are kept by stream id alone, and chunks by  *)
(* their number, in whatever order and however often they come.            *)
(***************************************************************************)
EXTENDS Devices, Naturals, Sequences, FiniteSets

CONSTANTS
  StreamId,
  Recorder,      \* stream id -> the device that records it
  ChunkCount,    \* stream id -> chunks of the recording
  MaxRepeats,    \* bound: frames that come once more
  MaxBad         \* bound: chunks whose data cannot be used

ASSUME RecorderAssumption == Recorder \in [StreamId -> Device]
ASSUME UploadAssumption ==
  ChunkCount \in [StreamId -> Nat \ {0}] /\ MaxRepeats \in Nat /\ MaxBad \in Nat

VARIABLES
  arrived,     \* history: the frames that came
  streams,     \* StreamAccumulator._streams: id -> the chunks with data in its buffer
  known,       \* the ids in _streams
  tasks,       \* transcriptions scheduled and not started, oldest first
  jobs,        \* what the recognizer's threads work on
  transcripts, \* history: transcript events
  failed,      \* history: recognitions that raised
  useless,     \* history: chunks whose data was bad or too short
  replaced,    \* history: chunks that a later copy took the place of
  late,        \* history: recordings of which a chunk came after an end
  repeats, bad

history == <<failed, useless, replaced, late>>
upload == <<arrived, streams, known, tasks, jobs, transcripts, history, repeats, bad>>

\* What a device says of a recording: its chunks, and that it is finished.  The
\* copy tells one sending from another of the same; the code does not see it.
Frame == [id : StreamId, seq : Nat, copy : 0..MaxRepeats]
FramesOf(s) == [id : {s}, seq : 0..ChunkCount[s], copy : 0..MaxRepeats]
IsEnd(f) == f.seq = ChunkCount[f.id]
Job == [device : Device, id : StreamId, audio : SUBSET Frame]

UploadTypeOK ==
  /\ arrived \subseteq Frame
  /\ streams \in [StreamId -> SUBSET Frame]
  /\ known \subseteq StreamId
  /\ tasks \in Seq([device : Device, id : StreamId])
  /\ jobs \subseteq Job /\ transcripts \subseteq Job /\ failed \subseteq Job
  /\ useless \subseteq Frame /\ replaced \subseteq Frame
  /\ late \subseteq StreamId
  /\ repeats \in 0..MaxRepeats /\ bad \in 0..MaxBad

UploadInit ==
  /\ arrived = {}
  /\ streams = [s \in StreamId |-> {}]
  /\ known = {}
  /\ tasks = <<>>
  /\ jobs = {} /\ transcripts = {} /\ failed = {}
  /\ useless = {} /\ replaced = {}
  /\ late = {}
  /\ repeats = 0 /\ bad = 0

\* An end of the recording has come.
Ended(s) == \E f \in arrived : f.id = s /\ IsEnd(f)

\* A frame comes, from a device or once more from it.  Frames come in any order,
\* since what a page sends before its queue is flushed, or on a new connection,
\* overtakes what it sent before; one that is lost with its connection never does.
Comes(f) ==
  /\ f \notin arrived
  /\ f.copy > 0 => [f EXCEPT !.copy = @ - 1] \in arrived /\ repeats < MaxRepeats
  /\ repeats' = IF f.copy > 0 THEN repeats + 1 ELSE repeats
  /\ arrived' = arrived \cup {f}

\* _buffer_chunk: the buffer is made before the data is decoded.  Data of less
\* than a frame of several channels decodes to nothing, and takes the place of
\* what was there as any other does.
BufferChunk(f, data) ==
  LET Same == {g \in streams[f.id] : g.seq = f.seq} IN
  /\ known' = known \cup {f.id}
  /\ streams' = [streams EXCEPT ![f.id] =
       CASE data = "good"  -> (@ \ Same) \cup {f}
         [] data = "short" -> @ \ Same
         [] data = "bad"   -> @]
  /\ replaced' = IF data = "bad" THEN replaced ELSE replaced \cup Same
  /\ useless' = IF data = "good" THEN useless ELSE useless \cup {f}

ChunkArrives(f, data) ==
  /\ Comes(f) /\ ~IsEnd(f)
  /\ data # "good" => bad < MaxBad
  /\ bad' = IF data = "good" THEN bad ELSE bad + 1
  /\ BufferChunk(f, data)
  /\ late' = IF Ended(f.id) THEN late \cup {f.id} ELSE late
  /\ UNCHANGED <<tasks, jobs, transcripts, failed>>

\* recording_finished schedules a task for the device that says so, each time.
FinishArrives(f) ==
  /\ Comes(f) /\ IsEnd(f)
  /\ tasks' = Append(tasks, [device |-> Recorder[f.id], id |-> f.id])
  /\ UNCHANGED <<streams, known, jobs, transcripts, history, bad>>

\* Mutant: the buffer stays in the table.
TakeAndKeep(s) == UNCHANGED <<streams, known>>

\* streams.pop(stream_id)
Take(s) ==
  /\ streams' = [streams EXCEPT ![s] = {}]
  /\ known' = known \ {s}

\* Mutant: a task whose buffer is missing waits for it.
TranscribeWaits ==
  LET task == Head(tasks)
      audio == streams[task.id]
  IN
  /\ tasks # <<>>
  /\ tasks' = IF task.id \in known THEN Tail(tasks) ELSE tasks
  /\ Take(task.id)
  /\ jobs' = IF task.id \in known /\ audio # {}
             THEN jobs \cup {[device |-> task.device, id |-> task.id, audio |-> audio]}
             ELSE jobs
  /\ UNCHANGED <<arrived, transcripts, history, repeats, bad>>

\* _transcribe up to the thread: no buffer or no data ends it.
Transcribe ==
  LET task == Head(tasks)
      audio == streams[task.id]
  IN
  /\ tasks # <<>>
  /\ tasks' = Tail(tasks)
  /\ Take(task.id)
  /\ jobs' = IF task.id \in known /\ audio # {}
             THEN jobs \cup {[device |-> task.device, id |-> task.id, audio |-> audio]}
             ELSE jobs
  /\ UNCHANGED <<arrived, transcripts, history, repeats, bad>>

\* A thread of the recognizer returns a text, which may be empty, or raises.
Recognized(job, outcome) ==
  /\ job \in jobs
  /\ jobs' = jobs \ {job}
  /\ IF outcome = "error"
     THEN failed' = failed \cup {job} /\ UNCHANGED transcripts
     ELSE transcripts' = transcripts \cup {job} /\ UNCHANGED failed
  /\ UNCHANGED <<arrived, streams, known, tasks, useless, replaced, late, repeats, bad>>

Outcome == {"text", "silence", "error"}

Buffering ==
  \/ \E s \in StreamId : \E f \in FramesOf(s) : FinishArrives(f) \/ \E x \in {"good", "short", "bad"} : ChunkArrives(f, x)
  \/ Transcribe

UploadNext == Buffering \/ \E j \in jobs, x \in Outcome : Recognized(j, x)

-----------------------------------------------------------------------------
\* What the recognizer was given.
Recognitions == jobs \cup transcripts \cup failed

OneOfEach(set) == \A f, g \in set : f.seq = g.seq => f = g

\* No piece of sound is recognized twice: what is in a buffer and what was given to
\* the recognizer are different frames, each of these has one copy of a chunk, and
\* a recognition has one outcome.
ChunkOnce ==
  /\ \A j, k \in Recognitions : j # k => j.audio \cap k.audio = {}
  /\ \A j \in Recognitions : streams[j.id] \cap j.audio = {} /\ OneOfEach(j.audio)
  /\ jobs \cap (transcripts \cup failed) = {} /\ transcripts \cap failed = {}

\* A chunk that arrived with usable data is in the buffer of its recording or was
\* given to the recognizer, for the device that recorded it, unless another copy
\* of it that arrived took its place; and a recording is given to the recognizer
\* in one piece unless a chunk of it came after an end.
NothingCut ==
  /\ \A f \in arrived \ useless : ~IsEnd(f) =>
       \/ f \in streams[f.id]
       \/ \E j \in Recognitions : f \in j.audio /\ j.id = f.id
       \/ f \in replaced /\ \E g \in arrived \ {f} : g.id = f.id /\ g.seq = f.seq
  /\ \A j \in Recognitions : j.device = Recorder[j.id]
  /\ \A j, k \in Recognitions : j # k /\ j.id = k.id => j.id \in late

Scheduled == {tasks[i].id : i \in DOMAIN tasks}

\* When the end of a recording has come, its buffer is taken or about to be, unless
\* a chunk came after the end: such a buffer stays until another end.
BufferTaken == \A s \in known : Ended(s) => s \in Scheduled \cup late

\* The table of StreamAccumulator, through every order of chunks, ends, repeats
\* and recognitions: it has its types, nothing is recognized twice, nothing that
\* arrived is cut, and what was taken is forgotten.
UploadInv == UploadTypeOK /\ ChunkOnce /\ NothingCut /\ BufferTaken

-----------------------------------------------------------------------------
(* What makes UploadInv hold.                                              *)

\* What is kept anywhere has arrived, and belongs where it is.
Placed ==
  /\ \A s \in StreamId : streams[s] # {} => s \in known
  /\ \A s \in StreamId : OneOfEach(streams[s]) /\ \A f \in streams[s] : f \in arrived /\ f.id = s
  /\ \A j \in Recognitions : j.audio # {} /\ \A f \in j.audio : f \in arrived /\ f.id = j.id

\* A transcription is scheduled by an end, for the device of the recording; what
\* it takes is buffered again only by a chunk that is late.
ByAnEnd ==
  /\ \A i \in DOMAIN tasks : tasks[i].device = Recorder[tasks[i].id] /\ Ended(tasks[i].id)
  /\ \A j \in Recognitions : Ended(j.id) /\ (j.id \in known => j.id \in late)

UploadInd == UploadInv /\ Placed /\ ByAnEnd
=============================================================================
