--------------------------- MODULE DeviceOwnership ---------------------------
(***************************************************************************)
(* What the gateway promises about device identity, with every lock, await *)
(* and database write abstracted away: a device id belongs to at most one  *)
(* connection, and passes from one connection to another only after the    *)
(* former owner can no longer be written to.  DatpServer implements it.    *)
(***************************************************************************)
CONSTANTS Device, Conn, None

VARIABLES
  owner,  \* device -> the connection its commands go to, or None
  open,   \* connections the gateway can write to
  ended   \* connections it can never write to again

vars == <<owner, open, ended>>

Init ==
  /\ owner = [d \in Device |-> None]
  /\ open = {}
  /\ ended = {}

Connect(c) ==
  /\ c \notin open \cup ended
  /\ open' = open \cup {c}
  /\ UNCHANGED <<owner, ended>>

Refuse(c) ==
  /\ c \notin open \cup ended
  /\ ended' = ended \cup {c}
  /\ UNCHANGED <<owner, open>>

\* One connection ends, or several at once when the gateway stops.
End(cs) ==
  /\ cs \subseteq open
  /\ open' = open \ cs
  /\ ended' = ended \cup cs
  /\ UNCHANGED owner

\* A connection takes over a device nobody is connected as.
Claim(c, d) ==
  /\ c \in open \cup ended
  /\ owner[d] \in ended \cup {None}
  /\ owner' = [owner EXCEPT ![d] = c]
  /\ UNCHANGED <<open, ended>>

\* A device whose connection has ended is forgotten.
Abandon(d) ==
  /\ owner[d] \in ended
  /\ owner' = [owner EXCEPT ![d] = None]
  /\ UNCHANGED <<open, ended>>

Next ==
  \/ \E c \in Conn : Connect(c) \/ Refuse(c)
  \/ \E cs \in SUBSET Conn : End(cs)
  \/ \E c \in Conn, d \in Device : Claim(c, d)
  \/ \E d \in Device : Abandon(d)

Spec == Init /\ [][Next]_vars
=============================================================================
