------------------------------- MODULE Devices -------------------------------
(***************************************************************************)
(* The devices of a gateway.  What is recorded on them and what is shown   *)
(* on them meet in VoiceTurn, and who is attended to and who gets a text   *)
(* or a command in DeviceChoice_proofs: these are of the same ones.        *)
(***************************************************************************)
CONSTANT Device
=============================================================================
