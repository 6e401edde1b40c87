----------------------------- MODULE MCSession -----------------------------
(* Model checking of Session, and its refinement of PhoneLine. *)
EXTENDS Session

(* What the terminal believes, from what it heard and its own ATDT. *)
Line ==
  IF client = "gone" THEN "ended"
  ELSE IF report = "CONNECT" THEN "carrier"
  ELSE IF report = "RING" THEN "ringing"
  ELSE IF inFlight = 1 /\ pc # "finish" THEN "routing"
  ELSE "idle"

Phone == INSTANCE PhoneLine WITH line <- Line

(* The results a terminal hears obey the protocol of a phone line: BUSY     *)
(* never follows RING, CONNECT only follows RING or answers ATO, every call *)
(* ends in exactly one verdict (dial.go:129-189, README.md:697).            *)
LineProtocol == Phone!Spec

=============================================================================
