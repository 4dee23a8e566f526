------------------------------ MODULE AtlService ------------------------------
(***************************************************************************)
(* What the modem may expect of the data connections for assisted GPS:     *)
(* the promise of gps/gnss/Agps.cpp without its list of subscribers, its   *)
(* requests to the framework and the answers that are under way.           *)
(*                                                                         *)
(* The modem opens and closes handles.  All handles share one connection;  *)
(* a handle is open only while the connection is up, everyone who waits is *)
(* served when it comes up and nobody stays open when it goes down.        *)
(***************************************************************************)
CONSTANT Handles    \* the connection handles of the modem

VARIABLES
  atl,   \* what the modem was told of, or asked for, each handle
  up     \* the service takes the connection to be up

vars == <<atl, up>>

AtlStates == {"idle", "waiting", "open", "closing", "refused"}

\* A handle that may be asked for; refused is idle after a failure to open.
Free(h) == atl[h] \in {"idle", "refused"}

Init == atl = [h \in Handles |-> "idle"] /\ up = FALSE

Request(h) ==
  /\ Free(h)
  /\ atl' = [atl EXCEPT ![h] = IF up THEN "open" ELSE "waiting"]
  /\ UNCHANGED up

\* The connection is given up with the last open handle.
Release(h) ==
  /\ atl[h] \in {"waiting", "open"}
  /\ atl' = [atl EXCEPT ![h] = "closing"]
  /\ up' = \E g \in Handles \ {h} : atl[g] = "open"

Move(from, to) ==
  atl' = [h \in Handles |-> IF atl[h] \in from THEN to ELSE atl[h]]

ComeUp == ~up /\ up' = TRUE /\ Move({"waiting"}, "open")
GoDown == up /\ up' = FALSE /\ Move({"open", "closing"}, "idle")
Closed == ~up /\ Move({"closing"}, "idle") /\ UNCHANGED up
Refuse == ~up /\ Move({"waiting", "closing"}, "refused") /\ UNCHANGED up

Next == \/ \E h \in Handles : Request(h) \/ Release(h)
        \/ ComeUp \/ GoDown \/ Closed \/ Refuse

Spec == Init /\ [][Next]_vars

=============================================================================
