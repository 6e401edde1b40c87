----------------------------- MODULE LineProofs -----------------------------
(***************************************************************************)
(* A session implements PhoneLine: the refinement that the session run     *)
(* checks for two dials, proved for any number of them.                    *)
(*                                                                         *)
(* The abstract line is a function of the last result heard, so what the   *)
(* proof needs is an invariant that says which results may have been the   *)
(* last one at each program point (LineInv).  It speaks of a terminal that *)
(* is there: once it is gone the line has ended and hears nothing.         *)
(***************************************************************************)
EXTENDS SessionProofs, MCSession

(* Neither ringing nor carrier. *)
Settled == report \notin {"RING", "CONNECT"}

(* The points at which a call has just begun, is ringing, waits for its     *)
(* verdict or for a password, and is up.                                    *)
RoutingPcs  == {"tone", "setup"}
RingPcs     == {"mismatch.ring", "gate.ring", "ring"}
AnswerPcs   == {"extra", "extra.wait", "await", "judge", "shake"}
OnlinePcs   == {"mismatch.drop", "gate.prompt", "gate.dial"}
CarrierPcs  == {"data.enter", "data", "data.read"}
BetweenPcs  == {"top", "finish", "data.exit", "data.wait"}

(* In which mode, and after which result, each point is reached. *)
PromptInv  == pc \in {"greet", "reading"} => modem = "command" /\ Settled
RoutingInv == pc \in RoutingPcs => Settled
RingInv    == pc \in RingPcs => report # "CONNECT" /\ (rings = 0 => report = "RING")
AnswerInv  == pc \in AnswerPcs => report = "RING"
OnlineInv  == pc \in OnlinePcs => report = "CONNECT"
CarrierInv == pc \in CarrierPcs => modem = "data" /\ report = "CONNECT"
BetweenInv ==
  pc \in BetweenPcs =>
    /\ modem = "data" => report = "CONNECT"
    /\ modem = "command" => Settled
DialInv    == pc \in DialPcs \ {"finish"} => modem = "command"

LineInv ==
  client = "up" =>
    /\ closing \in {"no", "conn"}
    /\ PromptInv /\ RoutingInv /\ RingInv /\ AnswerInv
    /\ OnlineInv /\ CarrierInv /\ BetweenInv /\ DialInv

-----------------------------------------------------------------------------
LEMMA LineInvInit == Init => LineInv
BY DEF Init, LineInv, PromptInv, RoutingInv, RingInv, AnswerInv, OnlineInv,
       CarrierInv, BetweenInv, DialInv, Settled, RoutingPcs, RingPcs,
       AnswerPcs, OnlinePcs, CarrierPcs, BetweenPcs, DialPcs

LEMMA LineInvStep == TypeOK /\ LineInv /\ [Next]_vars => LineInv'
<1> SUFFICES ASSUME TypeOK, LineInv, [Next]_vars PROVE LineInv'
  OBVIOUS
<1> USE DEF TypeOK, LineInv, PromptInv, RoutingInv, RingInv, AnswerInv, OnlineInv,
            CarrierInv, BetweenInv, DialInv, Settled, RoutingPcs, RingPcs,
            AnswerPcs, OnlinePcs, CarrierPcs, BetweenPcs, DialPcs, GoTo, Tell,
            EndDial, TakeLine, Hangup, sessVars, callVars, statVars, netVars,
            dataVars, stopVars, termVars
<1>1. CASE Greet \/ LoopTop \/ ReadFails \/ Cleanup
  BY <1>1 DEF Greet, LoopTop, ReadFails, Cleanup
<1>2. CASE OtherCommand \/ CommandATH \/ CommandATO \/ CooldownEnds
  BY <1>2 DEF OtherCommand, CommandATH, CommandATO, CooldownEnds
<1>3. ASSUME NEW k \in Numbers, CommandATDT(k) PROVE LineInv'
  BY <1>3 DEF CommandATDT
<1>4. CASE LookupFails \/ LookupBusy \/ LookupOpen
  BY <1>4 DEF LookupFails, LookupBusy, LookupOpen
<1>5. CASE LookupMismatch
  BY <1>5 DEF LookupMismatch
<1>6. CASE LookupGated
  BY <1>6 DEF LookupGated
<1>7. CASE SendRing
  BY <1>7 DEF SendRing
<1>8. CASE GarbageConnect \/ GarbageDrop \/ SetupRefused
  BY <1>8 DEF GarbageConnect, GarbageDrop, SetupRefused
<1>9. CASE SetupRings
  BY <1>9 DEF SetupRings
<1>10. CASE MandatoryRingsOver
  BY <1>10 DEF MandatoryRingsOver
<1>11. CASE ExtraRing \/ ExtraRingsOver \/ ExtraRingTimer \/ AnswerArrives \/
            SafetyTimeout
  BY <1>11
     DEF ExtraRing, ExtraRingsOver, ExtraRingTimer, AnswerArrives,
         SafetyTimeout
<1>12. CASE JudgeFailed \/ JudgeAnswered \/ HandshakeOver \/ Finish
  BY <1>12 DEF JudgeFailed, JudgeAnswered, HandshakeOver, Finish
<1>13. CASE GateConnect \/ GateRejects \/ GateAccepts \/ GateDialFails \/
            GateDialAnswers
  BY <1>13
     DEF GateConnect, GateRejects, GateAccepts, GateDialFails, GateDialAnswers
<1>14. CASE DataEnterDead \/ DataEnter \/ DataRemoteGone \/ DataDone \/
            DataPoll \/ DataPumps
  BY <1>14
     DEF DataEnterDead, DataEnter, DataRemoteGone, DataDone, DataPoll,
         DataPumps
<1>15. CASE DataWriteFails \/ DataEscape \/ DataClientGone \/
            DataCloseRemote \/ DataJoinReader
  BY <1>15
     DEF DataWriteFails, DataEscape, DataClientGone, DataCloseRemote,
         DataJoinReader
<1>16. CASE ReaderReads \/ ReaderForwards \/ ReaderStops
  BY <1>16 DEF ReaderReads, ReaderForwards, ReaderStops
<1>17. ASSUME NEW d \in Dials, DialReturns(d) PROVE LineInv'
  BY <1>17 DEF DialReturns
<1>18. ASSUME NEW d \in Dials, BoardHangsUp(d) PROVE LineInv'
  BY <1>18 DEF BoardHangsUp
<1>19. CASE ClientLeaves \/ CloseDone \/ CloseConn \/ CloseHangup
  BY <1>19 DEF ClientLeaves, CloseDone, CloseConn, CloseHangup
<1>20. CASE Rest \/ UNCHANGED vars
  BY <1>20 DEF Rest, vars
<1> QED
  BY <1>1, <1>2, <1>3, <1>4, <1>5, <1>6, <1>7, <1>8, <1>9, <1>10, <1>11,
     <1>12, <1>13, <1>14, <1>15, <1>16, <1>17, <1>18, <1>19, <1>20
     DEF Next, CommandLoop, Command, HandleDial, DataLoop, Reader, Close

-----------------------------------------------------------------------------
(* A terminal that leaves hears nothing on its way out, nor later. *)
LEMMA GoneHearsNothing ==
  [Next]_vars => \/ client = "up" /\ client' = "up"
                 \/ client' = "gone" /\ UNCHANGED report
                 \/ client \notin {"up", "gone"}
<1> DEFINE Deaf == \/ client = "up" /\ client' = "up"
                   \/ client' = "gone" /\ UNCHANGED report
                   \/ client \notin {"up", "gone"}
<1> SUFFICES ASSUME [Next]_vars PROVE Deaf
  OBVIOUS
<1> USE DEF GoTo, Tell, EndDial, TakeLine, Hangup, sessVars, callVars, statVars,
            netVars, dataVars, stopVars, termVars
<1>1. CASE Greet \/ LoopTop \/ ReadFails \/ Cleanup
  BY <1>1 DEF Greet, LoopTop, ReadFails, Cleanup
<1>2. CASE OtherCommand \/ CommandATH \/ CommandATO \/ CooldownEnds
  BY <1>2 DEF OtherCommand, CommandATH, CommandATO, CooldownEnds
<1>3. ASSUME NEW k \in Numbers, CommandATDT(k) PROVE Deaf
  BY <1>3 DEF CommandATDT
<1>4. CASE LookupFails \/ LookupBusy \/ LookupOpen
  BY <1>4 DEF LookupFails, LookupBusy, LookupOpen
<1>5. CASE LookupMismatch
  BY <1>5 DEF LookupMismatch
<1>6. CASE LookupGated
  BY <1>6 DEF LookupGated
<1>7. CASE SendRing
  BY <1>7 DEF SendRing
<1>8. CASE GarbageConnect \/ GarbageDrop \/ SetupRefused
  BY <1>8 DEF GarbageConnect, GarbageDrop, SetupRefused
<1>9. CASE SetupRings
  BY <1>9 DEF SetupRings
<1>10. CASE MandatoryRingsOver
  BY <1>10 DEF MandatoryRingsOver
<1>11. CASE ExtraRing \/ ExtraRingsOver \/ ExtraRingTimer \/ AnswerArrives \/
            SafetyTimeout
  BY <1>11
     DEF ExtraRing, ExtraRingsOver, ExtraRingTimer, AnswerArrives,
         SafetyTimeout
<1>12. CASE JudgeFailed \/ JudgeAnswered \/ HandshakeOver \/ Finish
  BY <1>12 DEF JudgeFailed, JudgeAnswered, HandshakeOver, Finish
<1>13. CASE GateConnect \/ GateRejects \/ GateAccepts \/ GateDialFails \/
            GateDialAnswers
  BY <1>13
     DEF GateConnect, GateRejects, GateAccepts, GateDialFails, GateDialAnswers
<1>14. CASE DataEnterDead \/ DataEnter \/ DataRemoteGone \/ DataDone \/
            DataPoll \/ DataPumps
  BY <1>14
     DEF DataEnterDead, DataEnter, DataRemoteGone, DataDone, DataPoll,
         DataPumps
<1>15. CASE DataWriteFails \/ DataEscape \/ DataClientGone \/
            DataCloseRemote \/ DataJoinReader
  BY <1>15
     DEF DataWriteFails, DataEscape, DataClientGone, DataCloseRemote,
         DataJoinReader
<1>16. CASE ReaderReads \/ ReaderForwards \/ ReaderStops
  BY <1>16 DEF ReaderReads, ReaderForwards, ReaderStops
<1>17. ASSUME NEW d \in Dials, DialReturns(d) PROVE Deaf
  BY <1>17 DEF DialReturns
<1>18. ASSUME NEW d \in Dials, BoardHangsUp(d) PROVE Deaf
  BY <1>18 DEF BoardHangsUp
<1>19. CASE ClientLeaves \/ CloseDone \/ CloseConn \/ CloseHangup
  BY <1>19 DEF ClientLeaves, CloseDone, CloseConn, CloseHangup
<1>20. CASE Rest \/ UNCHANGED vars
  BY <1>20 DEF Rest, vars
<1> QED
  BY <1>1, <1>2, <1>3, <1>4, <1>5, <1>6, <1>7, <1>8, <1>9, <1>10, <1>11,
     <1>12, <1>13, <1>14, <1>15, <1>16, <1>17, <1>18, <1>19, <1>20
     DEF Next, CommandLoop, Command, HandleDial, DataLoop, Reader, Close

(* Where the line is while the terminal is there: with the books kept, a    *)
(* call is being routed exactly between its dial tone and its verdict.      *)
LineIs(l) ==
  /\ report = "CONNECT" => l = "carrier"
  /\ report = "RING" => l = "ringing"
  /\ Settled /\ pc \in DialPcs \ {"finish"} => l = "routing"
  /\ Settled /\ pc \notin DialPcs \ {"finish"} => l = "idle"

LEMMA LineByPoint == Counted /\ client = "up" => LineIs(Line)
BY DEF Counted, Line, DialPcs, LineIs, Settled

LEMMA LineByPointNext == Counted' /\ client' = "up" => LineIs(Line)'
BY DEF Counted, Line, DialPcs, LineIs, Settled

(* While the terminal is there, a step of the session is a step of the      *)
(* line or changes neither the line nor what was last heard.                *)
LEMMA LineStep ==
  ASSUME TypeOK, LineInv, Counted, Counted', [Next]_vars, client = "up", client' = "up"
  PROVE  [Phone!Next]_(Phone!vars)
<1> DEFINE Step == [Phone!Next]_(Phone!vars)
<1>0. LineIs(Line) /\ LineIs(Line)'
  BY LineByPoint, LineByPointNext
<1> HIDE DEF Line
<1> USE <1>0
    DEF LineIs, Phone!vars, Phone!Next, Phone!Answer, Phone!Dial, Phone!Refuse,
        Phone!Ring, Phone!PickUp, Phone!Drop, Phone!Escape, Phone!Resume
<1> USE DEF TypeOK, LineInv, PromptInv, RoutingInv, RingInv, AnswerInv, OnlineInv,
            CarrierInv, BetweenInv, DialInv, Settled, RoutingPcs, RingPcs,
            AnswerPcs, OnlinePcs, CarrierPcs, BetweenPcs, DialPcs, GoTo, Tell,
            EndDial, TakeLine, Hangup, sessVars, callVars, statVars, netVars,
            dataVars, stopVars, termVars
<1>1. CASE Greet \/ LoopTop \/ ReadFails \/ Cleanup
  BY <1>1 DEF Greet, LoopTop, ReadFails, Cleanup
<1>2. CASE OtherCommand \/ CommandATH \/ CommandATO \/ CooldownEnds
  BY <1>2 DEF OtherCommand, CommandATH, CommandATO, CooldownEnds
<1>3. ASSUME NEW k \in Numbers, CommandATDT(k) PROVE Step
  BY <1>3 DEF CommandATDT
<1>4. CASE LookupFails \/ LookupBusy \/ LookupOpen
  BY <1>4 DEF LookupFails, LookupBusy, LookupOpen
<1>5. CASE LookupMismatch
  BY <1>5 DEF LookupMismatch
<1>6. CASE LookupGated
  BY <1>6 DEF LookupGated
<1>7. CASE SendRing
  BY <1>7 DEF SendRing
<1>8. CASE GarbageConnect \/ GarbageDrop \/ SetupRefused
  BY <1>8 DEF GarbageConnect, GarbageDrop, SetupRefused
<1>9. CASE SetupRings
  BY <1>9 DEF SetupRings
<1>10. CASE MandatoryRingsOver
  BY <1>10 DEF MandatoryRingsOver
<1>11. CASE ExtraRing \/ ExtraRingsOver \/ ExtraRingTimer \/ AnswerArrives \/
            SafetyTimeout
  BY <1>11
     DEF ExtraRing, ExtraRingsOver, ExtraRingTimer, AnswerArrives,
         SafetyTimeout
<1>12. CASE JudgeFailed \/ JudgeAnswered \/ HandshakeOver \/ Finish
  BY <1>12 DEF JudgeFailed, JudgeAnswered, HandshakeOver, Finish
<1>13. CASE GateConnect \/ GateRejects \/ GateAccepts \/ GateDialFails \/
            GateDialAnswers
  BY <1>13
     DEF GateConnect, GateRejects, GateAccepts, GateDialFails, GateDialAnswers
<1>14. CASE DataEnterDead \/ DataEnter \/ DataRemoteGone \/ DataDone \/
            DataPoll \/ DataPumps
  BY <1>14
     DEF DataEnterDead, DataEnter, DataRemoteGone, DataDone, DataPoll,
         DataPumps
<1>15. CASE DataWriteFails \/ DataEscape \/ DataClientGone \/
            DataCloseRemote \/ DataJoinReader
  BY <1>15
     DEF DataWriteFails, DataEscape, DataClientGone, DataCloseRemote,
         DataJoinReader
<1>16. CASE ReaderReads \/ ReaderForwards \/ ReaderStops
  BY <1>16 DEF ReaderReads, ReaderForwards, ReaderStops
<1>17. ASSUME NEW d \in Dials, DialReturns(d) PROVE Step
  BY <1>17 DEF DialReturns
<1>18. ASSUME NEW d \in Dials, BoardHangsUp(d) PROVE Step
  BY <1>18 DEF BoardHangsUp
<1>19. CASE ClientLeaves \/ CloseDone \/ CloseConn \/ CloseHangup
  BY <1>19 DEF ClientLeaves, CloseDone, CloseConn, CloseHangup
<1>20. CASE Rest \/ UNCHANGED vars
  BY <1>20 DEF Rest, vars
<1> QED
  BY <1>1, <1>2, <1>3, <1>4, <1>5, <1>6, <1>7, <1>8, <1>9, <1>10, <1>11,
     <1>12, <1>13, <1>14, <1>15, <1>16, <1>17, <1>18, <1>19, <1>20
     DEF Next, CommandLoop, Command, HandleDial, DataLoop, Reader, Close

-----------------------------------------------------------------------------
LEMMA LineInvariance == Spec => []LineInv
<1> QED
  BY LineInvInit, LineInvStep, TypeCorrect, PTL DEF Spec

(* The results a terminal hears obey the protocol of a phone line, for any  *)
(* number of dials: BUSY never follows RING, CONNECT only follows RING or   *)
(* answers ATO, and every call ends in one verdict (dial.go:129-189).       *)
THEOREM SpeaksProperly == Spec => LineProtocol
<1>1. Init => Phone!Init
  BY DEF Init, Phone!Init, Line
<1>2. ASSUME IInv, IInv', LineInv, [Next]_vars PROVE [Phone!Next]_(Phone!vars)
  <2>1. CASE client = "up" /\ client' = "up"
    BY <1>2, <2>1, LineStep DEF IInv
  <2>2. CASE client' = "gone" /\ UNCHANGED report
    BY <2>2 DEF Line, Phone!Next, Phone!End
  <2> QED
    BY <1>2, <2>1, <2>2, GoneHearsNothing DEF IInv, TypeOK
<1> QED
  BY <1>1, <1>2, Invariance, LineInvariance, PTL DEF Spec, LineProtocol, Phone!Spec

=============================================================================
