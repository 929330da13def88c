----------------------------- MODULE Lifecycle -----------------------------
(***************************************************************************)
(* The life of a session's shared record, which two ends own together      *)
(* (docs/data_structures.md, "Shared"; docs/state_machine.md, last lines). *)
(* The record comes with the client; the server end joins it during the    *)
(* handshake and both are needed to relay; once the session is closing no  *)
(* end joins, ends only leave, the first to leave takes the buffers with   *)
(* it and the last one the record.                                         *)
(***************************************************************************)

VARIABLES
  phase,   \* "start", "handshake", "relay", "closing"
  ends,    \* the ends that hold the record
  record   \* the parts of the record still allocated

vars == <<phase, ends, record>>
Whole == {"shared", "info"}

Init == phase = "start" /\ ends = {} /\ record = {}

Open ==
  /\ phase = "start"
  /\ phase' = "handshake" /\ ends' = {"client"} /\ record' = Whole

\* Only a whole record with its client can get a server end.
Join ==
  /\ phase = "handshake" /\ ends = {"client"} /\ record = Whole
  /\ ends' = {"client", "server"} /\ UNCHANGED <<phase, record>>

Relay ==
  /\ phase = "handshake" /\ ends = {"client", "server"} /\ record = Whole
  /\ phase' = "relay" /\ UNCHANGED <<ends, record>>

Close ==
  /\ phase = "relay" /\ phase' = "closing" /\ UNCHANGED <<ends, record>>

\* An end leaves, in the step that closes a handshake or after the closing.
Leave(e) ==
  /\ e \in ends /\ phase \in {"handshake", "closing"}
  /\ phase = "handshake" => e = "client"
  /\ phase' = "closing"
  /\ ends' = ends \ {e}
  /\ record' = IF ends' = {} THEN {} ELSE {"shared"}

Next == Open \/ Join \/ Relay \/ Close \/ (\E e \in {"client", "server"} : Leave(e))

Spec == Init /\ [][Next]_vars
============================================================================
