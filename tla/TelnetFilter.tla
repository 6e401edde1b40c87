---------------------------- MODULE TelnetFilter ----------------------------
(***************************************************************************)
(* The telnet filter of internal/dialer/dialer.go, as operators on the     *)
(* filter's fields.  Bytes are numbers, as in the code: some values have   *)
(* two meanings (24 is TERMINAL_TYPE and ZDLE, 1 is ECHO and TTYPE_SEND).  *)
(***************************************************************************)
EXTENDS Naturals, SequencesExt

CONSTANT MaxOptData  \* the longest subnegotiation kept: 512 in the code

ASSUME MaxOptDataAssumption == MaxOptData \in Nat \ {0}

IAC  == 255
DONT == 254
DO   == 253
WONT == 252
WILL == 251
SB   == 250
SE   == 240

ECHO              == 1
SUPPRESS_GO_AHEAD == 3
TERMINAL_TYPE     == 24
NAWS              == 31

TTYPE_IS   == 0
TTYPE_SEND == 1

ZPAD == 42
ZDLE == 24
ZKinds == {65, 66, 67}  \* ZBIN, ZHEX, ZBIN32

Byte == 0 .. 255
FilterStates == {"data", "IAC", "command", "SB", "SBData", "SBIAC"}
Filters == [state : FilterStates, command : Byte, optData : Seq(Byte), learnPeer : BOOLEAN,
            peerNegotiated : BOOLEAN, peerLocked : BOOLEAN, frame : Byte \X Byte]

NewTelnetFilter ==
  [state |-> "data", command |-> 0, optData |-> <<>>, learnPeer |-> FALSE,
   peerNegotiated |-> FALSE, peerLocked |-> FALSE, frame |-> <<0, 0>>]

NewRemoteTelnetFilter == [NewTelnetFilter EXCEPT !.learnPeer = TRUE]

PeerSpeaksTelnet(f) == f.peerNegotiated

(* Mutant: every peer is raw during a transfer. *)
iacIsData_Always(f) == f.learnPeer /\ f.peerLocked

iacIsData(f) == f.learnPeer /\ f.peerLocked /\ ~f.peerNegotiated

(* A frame header of a file transfer settles the verdict on the peer. *)
noteDataByte(f, b) ==
  IF ~f.learnPeer THEN f
  ELSE [f EXCEPT !.peerLocked = @ \/ (f.frame = <<ZPAD, ZDLE>> /\ b \in ZKinds),
                 !.frame = <<f.frame[2], b>>]

respondToOption(cmd, opt) ==
  CASE cmd = DO   -> <<IAC, IF opt \in {SUPPRESS_GO_AHEAD, TERMINAL_TYPE, NAWS}
                            THEN WILL ELSE WONT, opt>>
    [] cmd = WILL -> <<IAC, IF opt \in {SUPPRESS_GO_AHEAD, ECHO} THEN DO ELSE DONT, opt>>
    [] OTHER      -> <<>>

(* The name sent is "ANSI". *)
handleSubnegotiation(f) ==
  IF Len(f.optData) >= 2 /\ f.optData[1] = TERMINAL_TYPE /\ f.optData[2] = TTYPE_SEND
  THEN <<IAC, SB, TERMINAL_TYPE, TTYPE_IS, 65, 78, 83, 73, IAC, SE>> ELSE <<>>

(* What one byte does: the filter after it, data for the other side,        *)
(* answers for the side it came from.                                       *)
Taken(f, filtered, responses) == [filter |-> f, filtered |-> filtered, responses |-> responses]

To(f, state) == [f EXCEPT !.state = state]

Negotiated(f) == [f EXCEPT !.peerNegotiated = @ \/ ~f.peerLocked]

InData(f, b) ==
  IF b = IAC /\ ~iacIsData(f) THEN Taken(To(f, "IAC"), <<>>, <<>>)
  ELSE Taken(noteDataByte(f, b), <<b>>, <<>>)

InIAC(f, b) ==
  CASE b = IAC -> Taken(To(noteDataByte(f, IAC), "data"), <<IAC>>, <<>>)
    [] b \in {WILL, WONT, DO, DONT} ->
         Taken([To(f, "command") EXCEPT !.command = b], <<>>, <<>>)
    [] b = SB -> Taken([To(f, "SB") EXCEPT !.optData = <<>>], <<>>, <<>>)
    [] OTHER -> Taken(To(f, "data"), IF b < SE THEN <<IAC, b>> ELSE <<>>, <<>>)

InSBData(f, b) ==
  CASE b = IAC -> Taken(To(f, "SBIAC"), <<>>, <<>>)
    [] b # IAC /\ Len(f.optData) < MaxOptData ->
         Taken([f EXCEPT !.optData = Append(@, b)], <<>>, <<>>)
    [] OTHER -> Taken([To(f, "data") EXCEPT !.optData = <<>>], <<>>, <<>>)

InSBIAC(f, b) ==
  CASE b = SE  -> Taken(To(Negotiated(f), "data"), <<>>, handleSubnegotiation(f))
    [] b = IAC -> Taken([To(f, "SBData") EXCEPT !.optData = Append(@, IAC)], <<>>, <<>>)
    [] OTHER   -> Taken(To(f, "data"), <<>>, <<>>)

FilterByte(f, b) ==
  CASE f.state = "data"    -> InData(f, b)
    [] f.state = "IAC"     -> InIAC(f, b)
    [] f.state = "command" ->
         Taken(To(Negotiated(f), "data"), <<>>, respondToOption(f.command, b))
    [] f.state = "SB"      ->
         Taken([To(f, "SBData") EXCEPT !.optData = Append(@, b)], <<>>, <<>>)
    [] f.state = "SBData"  -> InSBData(f, b)
    [] f.state = "SBIAC"   -> InSBIAC(f, b)

(* A byte more: the filter goes on, and what comes out is kept in order. *)
Further(r, b) ==
  LET t == FilterByte(r.filter, b)
  IN  Taken(t.filter, r.filtered \o t.filtered, r.responses \o t.responses)

(* After each byte of a read; a recursive function, for the proofs.          *)
Filtering(f, data) ==
  LET at[i \in 0 .. Len(data)] ==
        IF i = 0 THEN Taken(f, <<>>, <<>>) ELSE Further(at[i - 1], data[i])
  IN  at

Filter(f, data) == Filtering(f, data)[Len(data)]
=============================================================================
