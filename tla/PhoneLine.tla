----------------------------- MODULE PhoneLine -----------------------------
(***************************************************************************)
(* What the terminal on the line is promised by the results it hears: the  *)
(* abstract specification that a session implements.  It knows nothing of  *)
(* sockets, goroutines or phonebook entries, only of the order in which a  *)
(* Hayes modem may say things.                                             *)
(***************************************************************************)

VARIABLES
  line,     \* "idle", "routing", "ringing", "carrier" or "ended"
  report    \* the last result heard

vars == <<line, report>>

Init == line = "idle" /\ report = "none"

(* Commands answered at the prompt. *)
Answer ==
  /\ line = "idle" /\ line' = "idle"
  /\ report' \in {"OK", "ERROR", "NO CARRIER"}

(* ATDT: the call is being routed, and nothing is said yet. *)
Dial ==
  /\ line = "idle" /\ line' = "routing"
  /\ UNCHANGED report

(* A call that never rang ends in BUSY or NO CARRIER. *)
Refuse ==
  /\ line = "routing" /\ line' = "idle"
  /\ report' \in {"BUSY", "NO CARRIER"}

Ring ==
  /\ line \in {"routing", "ringing"} /\ line' = "ringing"
  /\ report' = "RING"

(* Only a line that rang is picked up, and it is picked up once. *)
PickUp ==
  /\ line = "ringing" /\ line' = "carrier"
  /\ report' = "CONNECT"

(* A line that rang, and a call that was up, end in NO CARRIER: never BUSY. *)
Drop ==
  /\ line \in {"ringing", "carrier"} /\ line' = "idle"
  /\ report' = "NO CARRIER"

Escape ==
  /\ line = "carrier" /\ line' = "idle"
  /\ report' = "OK"

(* ATO *)
Resume ==
  /\ line = "idle" /\ line' = "carrier"
  /\ report' = "CONNECT"

(* The terminal disconnects or is disconnected. *)
End ==
  /\ line' = "ended"
  /\ UNCHANGED report

Next == Answer \/ Dial \/ Refuse \/ Ring \/ PickUp \/ Drop \/ Escape \/ Resume \/ End

Spec == Init /\ [][Next]_vars

=============================================================================
