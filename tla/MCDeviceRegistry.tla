--------------------------- MODULE MCDeviceRegistry ---------------------------
(***************************************************************************)
(* Model-checking instance of DeviceRegistry.                             *)
(***************************************************************************)
EXTENDS DeviceRegistry

CONSTANTS c1, c2, c3, d1, h1, mode, battery

\* Every connection is the same device's.
OneDevice == [c \in Conn |-> d1]

\* A hello carries the mode; a report also the battery.
ModeOnly == {mode}
FullReport == {{mode, battery}}
=============================================================================
