------------------------------ MODULE VoiceTurn ------------------------------
(***************************************************************************)
(* A spoken question from the microphone to the answer: the recordings of  *)
(* AudioUpload become the spoken turns of AgentTurn.  The transcript event *)
(* is the step they share: every subscriber hears it in the thread of the  *)
(* task that emits it.                                                     *)
(***************************************************************************)
EXTENDS AudioUpload, AgentTurn

ASSUME SpokenAssumption ==
  \A t \in Spoken : KeyOf[t] \in StreamId /\ Recorder[KeyOf[t]] = DeviceOf[t]

all == <<upload, vars>>

VoiceInit == UploadInit /\ Init

\* The transcript of a recording starts its turn; silence is dropped by
\* _handle_transcript and an empty text by _record_transcript.
Heard ==
  \E j \in jobs, t \in Spoken :
    /\ KeyOf[t] = j.id
    /\ Recognized(j, "text")
    /\ Ask(t)

\* A recording that has its turn, or none, may be heard again: the question that
\* this starts is not among the turns.
HeardElsewhere ==
  \E j \in jobs, x \in Outcome :
    /\ x = "text" => \A t \in Spoken : KeyOf[t] = j.id => stage[t] # "new"
    /\ Recognized(j, x)

VoiceNext ==
  \/ (Buffering \/ HeardElsewhere) /\ UNCHANGED vars
  \/ Heard
  \/ (Work \/ \E t \in Turn \ Spoken : Ask(t)) /\ UNCHANGED upload

VoiceSpec ==
  /\ VoiceInit
  /\ [][VoiceNext]_all
  /\ WF_all(Work /\ UNCHANGED upload)
  /\ WF_all(Transcribe /\ UNCHANGED vars)
  /\ WF_all(Heard \/ (HeardElsewhere /\ UNCHANGED vars))

\* A question is only answered to the device that asked it: the words on a
\* screen, or in the list of transcripts, answer a recording of that device
\* that was recognized, or a text typed on it.
AnswersAsker ==
  /\ \A t \in Spoken : stage[t] # "new" =>
       \E j \in transcripts : j.id = KeyOf[t] /\ j.device = DeviceOf[t]
  /\ \A d \in Device : \A i \in DOMAIN pending[d] : DeviceOf[pending[d][i].turn] = d

\* Every end of a recording is dealt with: the transcription it schedules starts and
\* its recognition returns, whatever the buffer holds by then, and a turn that
\* follows is over in the end.
RecordingEnds ==
  <>[](/\ tasks = <<>> /\ jobs = {}
       /\ \A t \in Spoken : stage[t] \in {"new", "answered", "failed", "crashed"})
=============================================================================
