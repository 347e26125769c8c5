---------------------------- MODULE MCVoiceTurn ----------------------------
(* A device whose recording comes in any order, with two frames too many,  *)
(* and another that types a question meanwhile.                            *)
EXTENDS VoiceTurn

CONSTANTS d1, d2, s1, v1, p1, typed

MCRecorder == [s \in StreamId |-> d1]
MCDeviceOf == [t \in Turn |-> IF t = p1 THEN d2 ELSE d1]
MCKeyOf == [t \in Turn |-> IF t = v1 THEN s1 ELSE typed]
MCChunkCount == [s \in StreamId |-> 2]
MCReplyLen == [t \in Turn |-> 1]
=============================================================================
