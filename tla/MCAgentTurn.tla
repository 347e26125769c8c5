---------------------------- MODULE MCAgentTurn ----------------------------
(* Two typed prompts of the same text, whose streams share their key, and a *)
(* recording, of one device.                                                *)
EXTENDS AgentTurn

CONSTANTS d1, v1, p1, p2, voice, typed

MCDeviceOf == [t \in Turn |-> d1]
MCKeyOf == [t \in Turn |-> IF t = v1 THEN voice ELSE typed]
MCReplyLen == [t \in Turn |-> IF t = p1 THEN 2 ELSE 1]
MCStop == {<<p1, 1>>, <<v1, 1>>}
=============================================================================
