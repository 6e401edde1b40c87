--------------------------- MODULE SessionProofs ---------------------------
(***************************************************************************)
(* The safety invariants of module Session, proved for any number of dials *)
(* and every interleaving of the session goroutine, its reader, its        *)
(* diallers, Close, the terminal and the boards.                           *)
(*                                                                         *)
(* NoOrphanCall and the others are not inductive: they do not say what the *)
(* answer channel of a dial holds while nobody looks at it, nor in which   *)
(* mode a stored call is.  IInv adds that, in seven parts, and each part   *)
(* has a lemma of its own.                                                 *)
(***************************************************************************)
EXTENDS Session, FiniteSetTheorems, TLAPS

(* Where the dial counters stand: the dials counted are those before the    *)
(* current one, and the current one too unless it is in flight.             *)
Counted ==
  /\ inFlight = (IF pc \in DialPcs THEN 1 ELSE 0)
  /\ pc \in DialPcs => n > 0
  /\ \A d \in Dials : observed[d] # "none" <=> d <= n - inFlight

(* What the terminal's position says of the reader. *)
ReaderInv ==
  /\ ReaderConfined
  /\ pc \in DataPcs => held # NoDial

(* The points at which handleDial has received an answer, or may have. *)
AfterAnswer == {"ring", "extra", "judge"}

(* What the answer channel of a dial says of its socket, and when it is     *)
(* still untouched.                                                         *)
ChannelInv ==
  /\ \A d \in Dials : dialer[d] \in {"idle", "dialing", "refused", "failed"} => sock[d] = "none"
  /\ \A d \in Dials : dialer[d] = "answered" => sock[d] # "none"
  /\ \A d \in Dials : d > n => dialer[d] = "idle"
  /\ pc \in {"tone", "mismatch.ring", "mismatch.drop", "gate.ring", "gate.prompt"}
       => dialer[n] = "idle"
  /\ pc \in AfterAnswer /\ res # "none"
       => dialer[n] = "taken" /\ (res = "ok" <=> sock[n] # "none")
  /\ pc = "judge" => res # "none"
  /\ pc = "extra.wait" => res = "none"
  /\ pc = "shake" => dialer[n] = "taken" /\ sock[n] # "none"
  /\ \A d \in {remoteConn, held} \ {NoDial} : dialer[d] = "taken" /\ sock[d] # "none"

(* Who will close the open socket of each dial. *)
OwnedInv ==
  \A d \in Dials : Live(d) =>
    \/ dialer[d] = "answered"
    \/ d = n /\ pc \in AfterAnswer /\ res = "ok"
    \/ d = remoteConn /\ pc \in {"shake", "cleanup"}
    \/ d = remoteConn /\ modem = "data" /\ pc \in {"finish", "top", "data.enter"}
    \/ d = held /\ pc \in DataPcs \ {"data.wait"}

(* An answer may be left over only by a dial that timed out. *)
LateInv ==
  \A d \in Dials : dialer[d] \in {"dialing", "answered"} /\ ~Waiting(d) =>
    \/ observed[d] = "timeout"
    \/ d = n /\ pc = "finish" /\ outcome = "timeout"

(* What an outcome promises of the dial it is given to. *)
Fits(o, d) ==
  /\ o \in {"auth_failed", "settings_mismatch", "unknown_number", "blocked"}
       => dialer[d] = "idle"
  /\ o = "success" => dialer[d] = "taken" /\ sock[d] # "none"
  /\ o \in {"busy", "no_carrier"} => dialer[d] \in {"idle", "taken"} /\ sock[d] = "none"

HonestInv ==
  /\ \A d \in Dials : Fits(observed[d], d)
  /\ pc = "finish" => Fits(outcome, n)
  /\ pc \in {"mismatch.ring", "mismatch.drop"} => outcome = "settings_mismatch"

(* The modem state, remoteConn and the shutdown. *)
ModeInv ==
  /\ closing # "no" => done
  /\ (modem = "data" \/ pc = "shake") /\ ~done => remoteConn # NoDial

IInv ==
  /\ TypeOK /\ Counted /\ ReaderInv /\ ChannelInv /\ OwnedInv /\ LateInv
  /\ HonestInv /\ ModeInv

-----------------------------------------------------------------------------
(* The type invariant.  It needs Counted: the gauge stays at 0 or 1 because *)
(* a dial begins only at the prompt, and n is a dial while one is judged.   *)

LEMMA TypeStep == TypeOK /\ Counted /\ [Next]_vars => TypeOK'
<1> SUFFICES ASSUME TypeOK, Counted, [Next]_vars PROVE TypeOK'
  OBVIOUS
<1> USE DEF TypeOK, GoTo, sessVars, callVars, statVars, netVars, dataVars,
            stopVars, termVars
<1>1. CASE Greet
  <2>1. pc' \in Pcs
    BY <1>1 DEF Greet, Pcs, DialPcs, DataPcs
  <2>2. report' \in Reports
    BY <1>1 DEF Greet, Tell, Reports
  <2> QED
    BY <1>1, <2>1, <2>2 DEF Greet
<1>2. CASE LoopTop
  <2>1. pc' \in Pcs
    BY <1>2 DEF LoopTop, Pcs, DialPcs, DataPcs
  <2> QED
    BY <1>2, <2>1 DEF LoopTop
<1>3. CASE ReadFails
  <2>1. pc' \in Pcs
    BY <1>3 DEF ReadFails, Pcs, DialPcs, DataPcs
  <2> QED
    BY <1>3, <2>1 DEF ReadFails
<1>4. CASE Cleanup
  <2>1. /\ pc' \in Pcs
        /\ modem' \in {"command", "data"}
        /\ remoteConn' \in {NoDial} \union Dials
        /\ sock' \in [Dials -> {"none", "open", "eof", "closed"}]
        /\ client' \in {"up", "gone"}
    BY <1>4 DEF Cleanup, Hangup, Shut, Pcs, DialPcs, DataPcs
  <2> QED
    BY <1>4, <2>1 DEF Cleanup
<1>5. CASE OtherCommand
  <2>1. pc' \in Pcs
    BY <1>5 DEF OtherCommand, TakeLine, Pcs, DialPcs, DataPcs
  <2>2. /\ client' \in {"up", "gone"}
        /\ ahead' \in BOOLEAN
    BY <1>5 DEF OtherCommand, TakeLine, Tell
  <2>3. report' \in Reports
    BY <1>5 DEF OtherCommand, TakeLine, Tell, Reports
  <2> QED
    BY <1>5, <2>1, <2>2, <2>3 DEF OtherCommand
<1>6. CASE CommandATH
  <2>1. pc' \in Pcs
    BY <1>6 DEF CommandATH, TakeLine, Pcs, DialPcs, DataPcs
  <2>2. /\ modem' \in {"command", "data"}
        /\ client' \in {"up", "gone"}
        /\ ahead' \in BOOLEAN
    BY <1>6 DEF CommandATH, TakeLine, Tell
  <2>3. report' \in Reports
    BY <1>6 DEF CommandATH, TakeLine, Tell, Reports
  <2> QED
    BY <1>6, <2>1, <2>2, <2>3 DEF CommandATH
<1>7. CASE CommandATO
  <2>1. pc' \in Pcs
    BY <1>7 DEF CommandATO, TakeLine, Pcs, DialPcs, DataPcs
  <2>2. /\ modem' \in {"command", "data"}
        /\ client' \in {"up", "gone"}
        /\ ahead' \in BOOLEAN
    BY <1>7 DEF CommandATO, TakeLine, Tell
  <2>3. report' \in Reports
    BY <1>7 DEF CommandATO, TakeLine, Tell, Reports
  <2>4. UNCHANGED <<remoteConn, held, callVars, statVars, netVars, dataVars, stopVars>>
    BY <1>7 DEF CommandATO
  <2> QED
    BY <2>1, <2>2, <2>3, <2>4
<1>8. ASSUME NEW k \in Numbers, CommandATDT(k) PROVE TypeOK'
  <2>1. pc' \in Pcs
    BY <1>8, MaxDialsAssumption
       DEF CommandATDT, EndDial, Pcs, DialPcs, DataPcs, Counted, Dials
  <2>2. n' \in 0..MaxDials
    BY <1>8, MaxDialsAssumption DEF CommandATDT, DialPcs, Counted, Dials
  <2>3. entry' \in Numbers
    BY <1>8, MaxDialsAssumption DEF CommandATDT, DialPcs, Counted, Dials
  <2>4. cooling' \in BOOLEAN
    BY <1>8, MaxDialsAssumption DEF CommandATDT, DialPcs, Counted, Dials
  <2>5. outcome' \in Outcomes
    BY <1>8, MaxDialsAssumption
       DEF CommandATDT, EndDial, DialPcs, Outcomes, Counted, Dials
  <2>6. inFlight' \in {0, 1}
    BY <1>8, MaxDialsAssumption DEF CommandATDT, DialPcs, Counted, Dials
  <2>7. client' \in {"up", "gone"}
    BY <1>8, MaxDialsAssumption
       DEF CommandATDT, TakeLine, DialPcs, Counted, Dials
  <2>8. ahead' \in BOOLEAN
    BY <1>8, MaxDialsAssumption
       DEF CommandATDT, TakeLine, DialPcs, Counted, Dials
  <2>9. report' \in Reports
    BY <1>8, MaxDialsAssumption
       DEF CommandATDT, EndDial, Tell, DialPcs, Reports, Counted, Dials
  <2> QED
    BY <1>8, <2>1, <2>2, <2>3, <2>4, <2>5, <2>6, <2>7, <2>8, <2>9
       DEF CommandATDT
<1>9. CASE CooldownEnds
  <2>1. cooling' \in BOOLEAN
    BY <1>9 DEF CooldownEnds
  <2> QED
    BY <1>9, <2>1 DEF CooldownEnds
<1>10. CASE LookupFails
  <2>1. pc' \in Pcs /\ outcome' \in Outcomes /\ report' \in Reports
    BY <1>10
       DEF LookupFails, EndDial, Tell, Pcs, DialPcs, DataPcs, Reports, Outcomes
  <2>2. UNCHANGED <<modem, remoteConn, held, n, entry, cooling, rings, res,
                    inFlight, observed, dialer, sock, reader, remoteGone, done,
                    closing, client, ahead>>
    BY <1>10 DEF LookupFails
  <2> QED
    BY <2>1, <2>2
<1>11. CASE LookupBusy
  <2>1. pc' \in Pcs
    BY <1>11 DEF LookupBusy, EndDial, Pcs, DialPcs, DataPcs, Outcomes
  <2>2. outcome' \in Outcomes
    BY <1>11 DEF LookupBusy, EndDial, Tell, Outcomes
  <2>3. report' \in Reports
    BY <1>11 DEF LookupBusy, EndDial, Tell, Reports
  <2> QED
    BY <1>11, <2>1, <2>2, <2>3 DEF LookupBusy
<1>12. CASE LookupMismatch
  <2>1. pc' \in Pcs /\ rings' \in 0..3 /\ outcome' \in Outcomes
    BY <1>12 DEF LookupMismatch, Pcs, DialPcs, DataPcs, Outcomes
  <2> QED
    BY <1>12, <2>1 DEF LookupMismatch
<1>13. CASE LookupGated
  <2>1. pc' \in Pcs /\ rings' \in 0..3
    BY <1>13 DEF LookupGated, Pcs, DialPcs, DataPcs
  <2> QED
    BY <1>13, <2>1 DEF LookupGated
<1>14. CASE LookupOpen
  <2>1. /\ pc' \in Pcs
        /\ dialer' \in [Dials -> {"idle", "dialing", "answered", "refused",
                "failed", "taken"}]
    BY <1>14 DEF LookupOpen, StartDialling, Pcs, DialPcs, DataPcs
  <2> QED
    BY <1>14, <2>1 DEF LookupOpen
<1>15. CASE SendRing
  <2>1. rings' \in 0..3
    BY <1>15 DEF SendRing
  <2>2. report' \in Reports
    BY <1>15 DEF SendRing, Tell, Reports
  <2> QED
    BY <1>15, <2>1, <2>2 DEF SendRing
<1>16. CASE GarbageConnect
  <2>1. pc' \in Pcs
    BY <1>16 DEF GarbageConnect, Pcs, DialPcs, DataPcs
  <2>2. report' \in Reports
    BY <1>16 DEF GarbageConnect, Tell, Reports
  <2> QED
    BY <1>16, <2>1, <2>2 DEF GarbageConnect
<1>17. CASE GarbageDrop
  <2>1. pc' \in Pcs /\ outcome' \in Outcomes /\ report' \in Reports
    BY <1>17
       DEF GarbageDrop, EndDial, Tell, Pcs, DialPcs, DataPcs, Reports, Outcomes
  <2>2. UNCHANGED <<modem, remoteConn, held, n, entry, cooling, rings, res,
                    inFlight, observed, dialer, sock, reader, remoteGone, done,
                    closing, client, ahead>>
    BY <1>17 DEF GarbageDrop
  <2> QED
    BY <2>1, <2>2
<1>18. CASE SetupRefused
  <2>1. /\ pc' \in Pcs
        /\ res' \in {"none", "ok", "refused", "failed"}
        /\ outcome' \in Outcomes
        /\ dialer' \in [Dials -> {"idle", "dialing", "answered", "refused",
                "failed", "taken"}]
        /\ report' \in Reports
    BY <1>18
       DEF SetupRefused, Receive, EndDial, Tell, Pcs, DialPcs, DataPcs, Reports,
           Outcomes
  <2> QED
    BY <1>18, <2>1 DEF SetupRefused
<1>19. CASE SetupRings
  <2>1. /\ pc' \in Pcs
        /\ rings' \in 0..3
        /\ res' \in {"none", "ok", "refused", "failed"}
        /\ dialer' \in [Dials -> {"idle", "dialing", "answered", "refused",
                "failed", "taken"}]
    BY <1>19 DEF SetupRings, Resolved, Receive, Pcs, DialPcs, DataPcs
  <2> QED
    BY <1>19, <2>1 DEF SetupRings
<1>20. CASE MandatoryRingsOver
  <2>1. pc' \in Pcs /\ rings' \in 0..3
    BY <1>20 DEF MandatoryRingsOver, Pcs, DialPcs, DataPcs
  <2> QED
    BY <1>20, <2>1 DEF MandatoryRingsOver
<1>21. CASE ExtraRing
  <2>1. pc' \in Pcs
    BY <1>21 DEF ExtraRing, Pcs, DialPcs, DataPcs
  <2>2. rings' \in 0..3
    BY <1>21 DEF ExtraRing
  <2>3. report' \in Reports
    BY <1>21 DEF ExtraRing, Tell, Reports
  <2> QED
    BY <1>21, <2>1, <2>2, <2>3 DEF ExtraRing
<1>22. CASE ExtraRingsOver
  <2>1. pc' \in Pcs
    BY <1>22 DEF ExtraRingsOver, Pcs, DialPcs, DataPcs
  <2> QED
    BY <1>22, <2>1 DEF ExtraRingsOver
<1>23. CASE ExtraRingTimer
  <2>1. pc' \in Pcs
    BY <1>23 DEF ExtraRingTimer, Pcs, DialPcs, DataPcs
  <2> QED
    BY <1>23, <2>1 DEF ExtraRingTimer
<1>24. CASE AnswerArrives
  <2>1. /\ pc' \in Pcs
        /\ res' \in {"none", "ok", "refused", "failed"}
        /\ dialer' \in [Dials -> {"idle", "dialing", "answered", "refused",
                "failed", "taken"}]
    BY <1>24 DEF AnswerArrives, Resolved, Receive, Pcs, DialPcs, DataPcs
  <2> QED
    BY <1>24, <2>1 DEF AnswerArrives
<1>25. CASE SafetyTimeout
  <2>1. pc' \in Pcs /\ outcome' \in Outcomes /\ report' \in Reports
    BY <1>25
       DEF SafetyTimeout, EndDial, Tell, Pcs, DialPcs, DataPcs, Reports,
           Outcomes
  <2>2. UNCHANGED <<modem, remoteConn, held, n, entry, cooling, rings, res,
                    inFlight, observed, dialer, sock, reader, remoteGone, done,
                    closing, client, ahead>>
    BY <1>25 DEF SafetyTimeout
  <2> QED
    BY <2>1, <2>2
<1>26. CASE JudgeFailed
  <2>1. pc' \in Pcs /\ outcome' \in Outcomes /\ report' \in Reports
    BY <1>26
       DEF JudgeFailed, EndDial, Tell, Pcs, DialPcs, DataPcs, Reports, Outcomes
  <2>2. UNCHANGED <<modem, remoteConn, held, n, entry, cooling, rings, res,
                    inFlight, observed, dialer, sock, reader, remoteGone, done,
                    closing, client, ahead>>
    BY <1>26 DEF JudgeFailed
  <2> QED
    BY <2>1, <2>2
<1>27. CASE JudgeAnswered
  <2>1. pc' \in Pcs /\ remoteConn' \in {NoDial} \union Dials
    BY <1>27, MaxDialsAssumption
       DEF JudgeAnswered, Pcs, DialPcs, DataPcs, Counted, Dials
  <2> QED
    BY <1>27, <2>1 DEF JudgeAnswered
<1>28. CASE HandshakeOver
  <2>1. pc' \in Pcs
    BY <1>28 DEF HandshakeOver, EndDial, Pcs, DialPcs, DataPcs, Outcomes
  <2>2. /\ modem' \in {"command", "data"}
        /\ outcome' \in Outcomes
    BY <1>28 DEF HandshakeOver, EndDial, Tell, Outcomes
  <2>3. report' \in Reports
    BY <1>28 DEF HandshakeOver, EndDial, Tell, Reports
  <2> QED
    BY <1>28, <2>1, <2>2, <2>3 DEF HandshakeOver
<1>29. CASE Finish
  <2>1. /\ pc' \in Pcs
        /\ rings' \in 0..3
        /\ res' \in {"none", "ok", "refused", "failed"}
        /\ inFlight' \in {0, 1}
        /\ observed' \in [Dials -> Outcomes \union {"none"}]
    BY <1>29, MaxDialsAssumption
       DEF Finish, Observe, Pcs, DialPcs, DataPcs, Counted, Dials
  <2> QED
    BY <1>29, <2>1 DEF Finish
<1>30. CASE GateConnect
  <2>1. pc' \in Pcs
    BY <1>30 DEF GateConnect, Pcs, DialPcs, DataPcs
  <2>2. report' \in Reports
    BY <1>30 DEF GateConnect, Tell, Reports
  <2> QED
    BY <1>30, <2>1, <2>2 DEF GateConnect
<1>31. CASE GateRejects
  <2>1. /\ pc' \in Pcs
        /\ outcome' \in Outcomes
        /\ ahead' \in BOOLEAN
        /\ report' \in Reports
    BY <1>31
       DEF GateRejects, EndDial, Tell, Pcs, DialPcs, DataPcs, Reports, Outcomes
  <2>2. UNCHANGED <<modem, remoteConn, held, n, entry, cooling, rings, res,
                    inFlight, observed, dialer, sock, reader, remoteGone, done,
                    closing, client>>
    BY <1>31 DEF GateRejects
  <2> QED
    BY <2>1, <2>2
<1>32. CASE GateAccepts
  <2>1. /\ pc' \in Pcs
        /\ dialer' \in [Dials -> {"idle", "dialing", "answered", "refused",
                "failed", "taken"}]
        /\ client' \in {"up", "gone"}
        /\ ahead' \in BOOLEAN
    BY <1>32 DEF GateAccepts, TakeLine, StartDialling, Pcs, DialPcs, DataPcs
  <2> QED
    BY <1>32, <2>1 DEF GateAccepts
<1>33. CASE GateDialFails
  <2>1. /\ pc' \in Pcs
        /\ outcome' \in Outcomes
        /\ dialer' \in [Dials -> {"idle", "dialing", "answered", "refused",
                "failed", "taken"}]
        /\ report' \in Reports
    BY <1>33
       DEF GateDialFails, EndDial, Tell, Pcs, DialPcs, DataPcs, Reports,
           Outcomes
  <2>2. UNCHANGED <<modem, remoteConn, held, n, entry, cooling, rings, res,
                    inFlight, observed, sock, reader, remoteGone, done, closing,
                    client, ahead>>
    BY <1>33 DEF GateDialFails
  <2> QED
    BY <2>1, <2>2
<1>34. CASE GateDialAnswers
  <2>1. /\ pc' \in Pcs
        /\ modem' \in {"command", "data"}
        /\ remoteConn' \in {NoDial} \union Dials
        /\ outcome' \in Outcomes
        /\ dialer' \in [Dials -> {"idle", "dialing", "answered", "refused",
                "failed", "taken"}]
    BY <1>34, MaxDialsAssumption
       DEF GateDialAnswers, Pcs, DialPcs, DataPcs, Outcomes, Counted, Dials
  <2> QED
    BY <1>34, <2>1 DEF GateDialAnswers
<1>35. CASE DataEnterDead
  <2>1. pc' \in Pcs /\ modem' \in {"command", "data"} /\ report' \in Reports
    BY <1>35 DEF DataEnterDead, Tell, Pcs, DialPcs, DataPcs, Reports
  <2>2. UNCHANGED <<remoteConn, held, n, entry, cooling, rings, res, outcome,
                    inFlight, observed, dialer, sock, reader, remoteGone, done,
                    closing, client, ahead>>
    BY <1>35 DEF DataEnterDead
  <2> QED
    BY <2>1, <2>2
<1>36. CASE DataEnter
  <2>1. /\ pc' \in Pcs
        /\ held' \in {NoDial} \union Dials
        /\ reader' \in {"off", "reading", "holding"}
        /\ remoteGone' \in BOOLEAN
    BY <1>36 DEF DataEnter, Pcs, DialPcs, DataPcs
  <2> QED
    BY <1>36, <2>1 DEF DataEnter
<1>37. CASE DataRemoteGone
  <2>1. pc' \in Pcs
    BY <1>37 DEF DataRemoteGone, Hangup, Pcs, DialPcs, DataPcs
  <2>2. /\ modem' \in {"command", "data"}
        /\ remoteConn' \in {NoDial} \union Dials
        /\ sock' \in [Dials -> {"none", "open", "eof", "closed"}]
    BY <1>37 DEF DataRemoteGone, Hangup, Tell, Shut
  <2>3. report' \in Reports
    BY <1>37 DEF DataRemoteGone, Tell, Reports
  <2>4. UNCHANGED <<held, callVars, statVars, dialer, dataVars, stopVars, client, ahead>>
    BY <1>37 DEF DataRemoteGone
  <2> QED
    BY <2>1, <2>2, <2>3, <2>4
<1>38. CASE DataDone
  <2>1. pc' \in Pcs
    BY <1>38 DEF DataDone, Pcs, DialPcs, DataPcs
  <2> QED
    BY <1>38, <2>1 DEF DataDone
<1>39. CASE DataPoll
  <2>1. pc' \in Pcs
    BY <1>39 DEF DataPoll, Pcs, DialPcs, DataPcs
  <2> QED
    BY <1>39, <2>1 DEF DataPoll
<1>40. CASE DataPumps
  <2>1. pc' \in Pcs
    BY <1>40 DEF DataPumps, Pcs, DialPcs, DataPcs
  <2> QED
    BY <1>40, <2>1 DEF DataPumps
<1>41. CASE DataWriteFails
  <2>1. pc' \in Pcs
    BY <1>41 DEF DataWriteFails, Hangup, Pcs, DialPcs, DataPcs
  <2>2. /\ modem' \in {"command", "data"}
        /\ remoteConn' \in {NoDial} \union Dials
        /\ sock' \in [Dials -> {"none", "open", "eof", "closed"}]
    BY <1>41 DEF DataWriteFails, Hangup, Tell, Shut
  <2>3. report' \in Reports
    BY <1>41 DEF DataWriteFails, Tell, Reports
  <2>4. UNCHANGED <<held, callVars, statVars, dialer, dataVars, stopVars, client, ahead>>
    BY <1>41 DEF DataWriteFails
  <2> QED
    BY <2>1, <2>2, <2>3, <2>4
<1>42. CASE DataEscape
  <2>1. pc' \in Pcs
    BY <1>42 DEF DataEscape, Pcs, DialPcs, DataPcs
  <2>2. modem' \in {"command", "data"}
    BY <1>42 DEF DataEscape, Tell
  <2>3. report' \in Reports
    BY <1>42 DEF DataEscape, Tell, Reports
  <2> QED
    BY <1>42, <2>1, <2>2, <2>3 DEF DataEscape
<1>43. CASE DataClientGone
  <2>1. /\ pc' \in Pcs
        /\ modem' \in {"command", "data"}
        /\ remoteConn' \in {NoDial} \union Dials
        /\ sock' \in [Dials -> {"none", "open", "eof", "closed"}]
    BY <1>43 DEF DataClientGone, Hangup, Shut, Pcs, DialPcs, DataPcs
  <2> QED
    BY <1>43, <2>1 DEF DataClientGone
<1>44. CASE DataCloseRemote
  <2>1. pc' \in Pcs /\ sock' \in [Dials -> {"none", "open", "eof", "closed"}]
    BY <1>44 DEF DataCloseRemote, Shut, Pcs, DialPcs, DataPcs
  <2> QED
    BY <1>44, <2>1 DEF DataCloseRemote
<1>45. CASE DataJoinReader
  <2>1. /\ pc' \in Pcs
        /\ held' \in {NoDial} \union Dials
        /\ remoteGone' \in BOOLEAN
    BY <1>45 DEF DataJoinReader, Pcs, DialPcs, DataPcs
  <2> QED
    BY <1>45, <2>1 DEF DataJoinReader
<1>46. CASE ReaderReads
  <2>1. reader' \in {"off", "reading", "holding"}
    BY <1>46 DEF ReaderReads
  <2> QED
    BY <1>46, <2>1 DEF ReaderReads
<1>47. CASE ReaderForwards
  <2>1. reader' \in {"off", "reading", "holding"}
    BY <1>47 DEF ReaderForwards
  <2> QED
    BY <1>47, <2>1 DEF ReaderForwards
<1>48. CASE ReaderStops
  <2>1. reader' \in {"off", "reading", "holding"} /\ remoteGone' \in BOOLEAN
    BY <1>48 DEF ReaderStops
  <2> QED
    BY <1>48, <2>1 DEF ReaderStops
<1>49. ASSUME NEW d \in Dials, DialReturns(d) PROVE TypeOK'
  <2>1. /\ dialer' \in [Dials -> {"idle", "dialing", "answered", "refused",
                "failed", "taken"}]
        /\ sock' \in [Dials -> {"none", "open", "eof", "closed"}]
    BY <1>49 DEF DialReturns
  <2> QED
    BY <1>49, <2>1 DEF DialReturns
<1>50. ASSUME NEW d \in Dials, BoardHangsUp(d) PROVE TypeOK'
  <2>1. sock' \in [Dials -> {"none", "open", "eof", "closed"}]
    BY <1>50 DEF BoardHangsUp
  <2> QED
    BY <1>50, <2>1 DEF BoardHangsUp
<1>51. CASE ClientLeaves
  <2>1. client' \in {"up", "gone"}
    BY <1>51 DEF ClientLeaves
  <2> QED
    BY <1>51, <2>1 DEF ClientLeaves
<1>52. CASE CloseDone
  <2>1. done' \in BOOLEAN /\ closing' \in {"no", "conn", "hangup", "yes"}
    BY <1>52 DEF CloseDone
  <2> QED
    BY <1>52, <2>1 DEF CloseDone
<1>53. CASE CloseConn
  <2>1. /\ closing' \in {"no", "conn", "hangup", "yes"}
        /\ client' \in {"up", "gone"}
    BY <1>53 DEF CloseConn
  <2> QED
    BY <1>53, <2>1 DEF CloseConn
<1>54. CASE CloseHangup
  <2>1. /\ modem' \in {"command", "data"}
        /\ remoteConn' \in {NoDial} \union Dials
        /\ sock' \in [Dials -> {"none", "open", "eof", "closed"}]
        /\ closing' \in {"no", "conn", "hangup", "yes"}
    BY <1>54 DEF CloseHangup, Hangup, Shut
  <2> QED
    BY <1>54, <2>1 DEF CloseHangup
<1>55. CASE Rest \/ UNCHANGED vars
  BY <1>55 DEF Rest, vars
<1> QED
  BY <1>1, <1>2, <1>3, <1>4, <1>5, <1>6, <1>7, <1>8, <1>9, <1>10, <1>11, <1>12,
     <1>13, <1>14, <1>15, <1>16, <1>17, <1>18, <1>19, <1>20, <1>21, <1>22,
     <1>23, <1>24, <1>25, <1>26, <1>27, <1>28, <1>29, <1>30, <1>31, <1>32,
     <1>33, <1>34, <1>35, <1>36, <1>37, <1>38, <1>39, <1>40, <1>41, <1>42,
     <1>43, <1>44, <1>45, <1>46, <1>47, <1>48, <1>49, <1>50, <1>51, <1>52,
     <1>53, <1>54, <1>55
     DEF Next, CommandLoop, Command, HandleDial, DataLoop, Reader, Close

-----------------------------------------------------------------------------
(* What closing a socket, and hangup, do to the others. *)
LEMMA CloseEffect ==
  ASSUME TypeOK, NEW c \in Dials, sock[c] # "none", sock' = Shut(c)
  PROVE  \A d \in Dials : /\ sock'[d] = "none" <=> sock[d] = "none"
                          /\ Live(d)' => Live(d) /\ d # c
BY DEF Shut, TypeOK, Live

LEMMA HangupEffect ==
  ASSUME TypeOK, ChannelInv, Hangup
  PROVE  /\ remoteConn' = NoDial /\ modem' = "command"
         /\ \A d \in Dials : /\ sock'[d] = "none" <=> sock[d] = "none"
                             /\ Live(d)' => Live(d) /\ d # remoteConn
<1>1. CASE remoteConn = NoDial
  <2>1. \A d \in Dials : d # remoteConn
    BY <1>1 DEF NoDial, Dials
  <2> QED
    BY <1>1, <2>1 DEF Hangup, Live
<1>2. CASE remoteConn # NoDial
  <2>1. remoteConn \in Dials /\ sock[remoteConn] # "none"
    BY <1>2 DEF TypeOK, ChannelInv
  <2> QED
    BY <1>2, <2>1, CloseEffect DEF Hangup
<1> QED
  BY <1>1, <1>2

(* hangup leaves the calls in order wherever it is called from: cleanup,    *)
(* three exits of dataLoop, and Close at any point of the session.          *)
LEMMA HangupKeeps ==
  ASSUME IInv, TypeOK', Hangup, UNCHANGED <<held, n, res, outcome, observed, dialer>>,
         \/ pc' = pc
         \/ pc = "cleanup" /\ pc' = "ended"
         \/ pc \in {"data", "data.read"} /\ pc' = "data.exit"
  PROVE  ChannelInv' /\ OwnedInv' /\ HonestInv'
<1> USE DEF IInv
<1>1. /\ remoteConn' = NoDial
      /\ \A d \in Dials : /\ sock'[d] = "none" <=> sock[d] = "none"
                          /\ Live(d)' => Live(d) /\ d # remoteConn
  BY HangupEffect
<1>2. pc \in DialPcs => n \in Dials
  BY MaxDialsAssumption DEF Counted, TypeOK, Dials
<1>3. ChannelInv'
  <2>1. \A d \in {remoteConn', held'} \ {NoDial} : dialer'[d] = "taken" /\ sock'[d] # "none"
    BY <1>1 DEF ChannelInv, TypeOK
  <2> QED
    BY <1>1, <1>2, <2>1 DEF ChannelInv, AfterAnswer, DialPcs
<1>4. OwnedInv'
  BY <1>1 DEF OwnedInv, AfterAnswer, DataPcs
<1>5. HonestInv'
  BY <1>1, <1>2 DEF HonestInv, Fits, DialPcs
<1> QED
  BY <1>3, <1>4, <1>5

(* So does the deferred close of dataLoop. *)
LEMMA CloseKeeps ==
  ASSUME IInv, DataCloseRemote
  PROVE  ChannelInv' /\ OwnedInv' /\ HonestInv'
<1> USE DEF IInv
<1>1. UNCHANGED <<remoteConn, held, n, res, outcome, observed, dialer>>
      /\ pc = "data.exit" /\ pc' = "data.wait"
  BY DEF DataCloseRemote, GoTo, callVars, statVars
<1>2. \A d \in Dials : /\ sock'[d] = "none" <=> sock[d] = "none"
                       /\ Live(d)' => Live(d) /\ d # held
  <2>1. held \in Dials /\ sock[held] # "none"
    BY <1>1 DEF ReaderInv, DataPcs, TypeOK, ChannelInv
  <2> QED
    BY <2>1, CloseEffect DEF DataCloseRemote
<1>3. ChannelInv'
  <2>1. \A d \in {remoteConn', held'} \ {NoDial} : dialer'[d] = "taken" /\ sock'[d] # "none"
    BY <1>1, <1>2 DEF ChannelInv, TypeOK
  <2> QED
    BY <1>1, <1>2, <2>1 DEF ChannelInv, AfterAnswer
<1>4. OwnedInv'
  BY <1>1, <1>2 DEF OwnedInv, AfterAnswer, DataPcs
<1>5. HonestInv'
  BY <1>1, <1>2 DEF HonestInv, Fits
<1> QED
  BY <1>3, <1>4, <1>5

LEMMA HangupsKeep ==
  IInv /\ TypeOK'
    /\ (Cleanup \/ DataRemoteGone \/ DataWriteFails \/ DataClientGone \/ CloseHangup)
    => ChannelInv' /\ OwnedInv' /\ HonestInv'
<1>1. IInv /\ TypeOK' /\ Cleanup => ChannelInv' /\ OwnedInv' /\ HonestInv'
  BY HangupKeeps DEF Cleanup, GoTo, callVars, statVars
<1>2. IInv /\ TypeOK' /\ DataRemoteGone => ChannelInv' /\ OwnedInv' /\ HonestInv'
  BY HangupKeeps DEF DataRemoteGone, GoTo, callVars, statVars
<1>3. IInv /\ TypeOK' /\ DataWriteFails => ChannelInv' /\ OwnedInv' /\ HonestInv'
  BY HangupKeeps DEF DataWriteFails, GoTo, callVars, statVars
<1>4. IInv /\ TypeOK' /\ DataClientGone => ChannelInv' /\ OwnedInv' /\ HonestInv'
  BY HangupKeeps DEF DataClientGone, GoTo, callVars, statVars
<1>5. IInv /\ TypeOK' /\ CloseHangup => ChannelInv' /\ OwnedInv' /\ HonestInv'
  BY HangupKeeps DEF CloseHangup, callVars, statVars
<1> QED
  BY <1>1, <1>2, <1>3, <1>4, <1>5

(* The deferred finish counts the dial that was in flight. *)
LEMMA FinishCounts == IInv /\ TypeOK' /\ Finish => Counted'
<1> SUFFICES ASSUME IInv, TypeOK', Finish PROVE Counted'
  OBVIOUS
<1>1. /\ pc = "finish" /\ pc' = "top" /\ n' = n /\ inFlight' = inFlight - 1
      /\ observed' = [observed EXCEPT ![n] = outcome]
  BY DEF Finish, Observe, GoTo
<1>2. /\ inFlight = 1 /\ n \in Dials
      /\ \A d \in Dials : observed[d] # "none" <=> d <= n - 1
  BY <1>1, MaxDialsAssumption DEF IInv, Counted, DialPcs, TypeOK, Dials
<1>3. outcome # "none"
  BY DEF IInv, TypeOK, Outcomes
<1>4. /\ observed'[n] = outcome
      /\ \A d \in Dials \ {n} : observed'[d] = observed[d]
  BY <1>1, <1>2 DEF IInv, TypeOK
<1>5. \A d \in Dials : observed'[d] # "none" <=> d <= n
  BY <1>2, <1>3, <1>4, MaxDialsAssumption DEF Dials
<1>6. inFlight' = 0 /\ n' - inFlight' = n
  BY <1>1, <1>2 DEF Dials
<1> QED
  BY <1>1, <1>5, <1>6 DEF Counted, DialPcs

(* The gated dial that fails gives its answer up without a socket. *)
LEMMA GateFailsKeeps ==
  ASSUME IInv, TypeOK', GateDialFails
  PROVE  ChannelInv' /\ OwnedInv' /\ LateInv' /\ HonestInv'
<1> USE DEF IInv
<1>1. /\ pc = "gate.dial" /\ pc' = "finish" /\ outcome' = "no_carrier"
      /\ UNCHANGED <<modem, remoteConn, held, n, res, observed, sock>>
      /\ dialer' = [dialer EXCEPT ![n] = "taken"] /\ dialer[n] \in {"refused", "failed"}
  BY DEF GateDialFails, EndDial, GoTo, statVars
<1>2. n \in Dials /\ sock[n] = "none" /\ observed[n] = "none"
  BY <1>1, MaxDialsAssumption DEF Counted, DialPcs, TypeOK, Dials, ChannelInv
<1>3. dialer'[n] = "taken" /\ \A d \in Dials \ {n} : dialer'[d] = dialer[d]
  BY <1>1, <1>2 DEF TypeOK
<1>4. n \notin {remoteConn, held} /\ \A d \in Dials : Live(d)' => Live(d) /\ d # n
  BY <1>1, <1>2 DEF ChannelInv, Live, Dials, NoDial
<1>5. ChannelInv'
  <2>1. \A d \in {remoteConn', held'} \ {NoDial} : dialer'[d] = "taken" /\ sock'[d] # "none"
    BY <1>1, <1>3, <1>4 DEF ChannelInv, TypeOK
  <2> QED
    BY <1>1, <1>2, <1>3, <2>1, MaxDialsAssumption DEF ChannelInv, AfterAnswer, Dials
<1>6. OwnedInv'
  BY <1>1, <1>3, <1>4 DEF OwnedInv, AfterAnswer, DataPcs
<1>7. LateInv'
  BY <1>1, <1>3 DEF LateInv, Waiting
<1>8. HonestInv'
  BY <1>1, <1>2, <1>3 DEF HonestInv, Fits
<1> QED
  BY <1>5, <1>6, <1>7, <1>8

(* dataLoop entered after a hangup finds no call to keep. *)
LEMMA EnterDeadKeeps ==
  ASSUME IInv, DataEnterDead
  PROVE  OwnedInv'
<1>1. /\ UNCHANGED <<n, res, held, remoteConn, dialer, sock>>
      /\ remoteConn = NoDial /\ pc = "data.enter"
  BY DEF DataEnterDead, callVars, netVars
<1>2. NoDial \notin Dials
  BY DEF Dials, NoDial
<1> QED
  BY <1>1, <1>2 DEF IInv, OwnedInv, Live, AfterAnswer, DataPcs

-----------------------------------------------------------------------------
(* A step that touches none of the counts, and leaves handleDial no more     *)
(* than it enters it, leaves the dials counted.                              *)
LEMMA CountsAlone ==
  ASSUME Counted, UNCHANGED <<n, inFlight, observed>>,
         pc' = pc \/ (pc \in DataPcs /\ pc' \in DataPcs \union {"top"})
  PROVE  Counted'
<1>1. pc' \in DialPcs <=> pc \in DialPcs
  BY DEF DataPcs, DialPcs
<1> QED
  BY <1>1 DEF Counted

(* Every exit of handleDial passes Finish, and only there is a dial counted. *)
LEMMA CountedStep == IInv /\ TypeOK' /\ [Next]_vars => Counted'
<1> SUFFICES ASSUME IInv, TypeOK', [Next]_vars PROVE Counted'
  OBVIOUS
(* These touch no count. *)
<1>39. CASE DataWriteFails \/ DataEscape \/ DataClientGone \/ DataCloseRemote \/
            DataJoinReader
  <2> USE DEF IInv, callVars, statVars, GoTo, DataPcs
  <2>1. CASE DataWriteFails
    BY <2>1, CountsAlone DEF DataWriteFails
  <2>2. CASE DataEscape
    BY <2>2, CountsAlone DEF DataEscape
  <2>3. CASE DataClientGone
    BY <2>3, CountsAlone DEF DataClientGone
  <2>4. CASE DataCloseRemote
    BY <2>4, CountsAlone DEF DataCloseRemote
  <2>5. CASE DataJoinReader
    BY <2>5, CountsAlone DEF DataJoinReader
  <2> QED
    BY <1>39, <2>1, <2>2, <2>3, <2>4, <2>5
<1>40. CASE ReaderReads \/ ReaderForwards \/ ReaderStops \/ CooldownEnds \/
            ClientLeaves
  <2>1. pc' = pc /\ UNCHANGED <<n, inFlight, observed>>
    BY <1>40 DEF ReaderReads, ReaderForwards, ReaderStops, CooldownEnds, ClientLeaves,
                 sessVars, callVars, statVars
  <2> QED
    BY <2>1, CountsAlone DEF IInv
<1>41. ASSUME NEW d \in Dials, DialReturns(d) PROVE Counted'
  <2>1. pc' = pc /\ UNCHANGED <<n, inFlight, observed>>
    BY <1>41 DEF DialReturns, sessVars, callVars, statVars
  <2> QED
    BY <2>1, CountsAlone DEF IInv
<1>42. ASSUME NEW d \in Dials, BoardHangsUp(d) PROVE Counted'
  <2>1. pc' = pc /\ UNCHANGED <<n, inFlight, observed>>
    BY <1>42 DEF BoardHangsUp, sessVars, callVars, statVars
  <2> QED
    BY <2>1, CountsAlone DEF IInv
<1>43. CASE CloseDone \/ CloseConn \/ CloseHangup
  <2>1. pc' = pc /\ UNCHANGED <<n, inFlight, observed>>
    BY <1>43 DEF CloseDone, CloseConn, CloseHangup, sessVars, callVars, statVars
  <2> QED
    BY <2>1, CountsAlone DEF IInv
<1>45. CASE Rest \/ UNCHANGED vars
  <2>1. pc' = pc /\ UNCHANGED <<n, inFlight, observed>>
    BY <1>45 DEF Rest, vars, sessVars, callVars, statVars
  <2> QED
    BY <2>1, CountsAlone DEF IInv
(* The steps of handleDial and of the command prompt. *)
<1> USE MaxDialsAssumption
        DEF IInv, Counted, TypeOK, DialPcs, Dials, GoTo, Tell, EndDial,
            TakeLine, Resolved, Receive, StartDialling, Observe, Hangup, Shut,
            sessVars, callVars, statVars, netVars, dataVars, stopVars, termVars
<1>1. CASE Greet
  BY <1>1 DEF Greet
<1>2. CASE LoopTop
  BY <1>2 DEF LoopTop
<1>3. CASE ReadFails
  BY <1>3 DEF ReadFails
<1>4. CASE Cleanup
  BY <1>4 DEF Cleanup
<1>5. CASE OtherCommand
  BY <1>5 DEF OtherCommand
<1>6. CASE CommandATH
  BY <1>6 DEF CommandATH
<1>7. CASE CommandATO
  BY <1>7 DEF CommandATO
<1>8. ASSUME NEW k \in Numbers, CommandATDT(k) PROVE Counted'
  BY <1>8 DEF CommandATDT
<1>9. CASE LookupFails
  BY <1>9 DEF LookupFails
<1>10. CASE LookupBusy
  BY <1>10 DEF LookupBusy
<1>11. CASE LookupMismatch
  BY <1>11 DEF LookupMismatch
<1>12. CASE LookupGated
  BY <1>12 DEF LookupGated
<1>13. CASE LookupOpen
  BY <1>13 DEF LookupOpen
<1>14. CASE SendRing
  BY <1>14 DEF SendRing
<1>15. CASE GarbageConnect
  BY <1>15 DEF GarbageConnect
<1>16. CASE GarbageDrop
  BY <1>16 DEF GarbageDrop
<1>17. CASE SetupRefused
  BY <1>17 DEF SetupRefused
<1>18. CASE SetupRings
  BY <1>18 DEF SetupRings
<1>19. CASE MandatoryRingsOver
  BY <1>19 DEF MandatoryRingsOver
<1>20. CASE ExtraRing
  BY <1>20 DEF ExtraRing
<1>21. CASE ExtraRingsOver
  BY <1>21 DEF ExtraRingsOver
<1>22. CASE ExtraRingTimer
  BY <1>22 DEF ExtraRingTimer
<1>23. CASE AnswerArrives
  BY <1>23 DEF AnswerArrives
<1>24. CASE SafetyTimeout
  BY <1>24 DEF SafetyTimeout
<1>25. CASE JudgeFailed
  BY <1>25 DEF JudgeFailed
<1>26. CASE JudgeAnswered
  BY <1>26 DEF JudgeAnswered
<1>27. CASE HandshakeOver
  BY <1>27 DEF HandshakeOver
<1>28. CASE GateConnect
  BY <1>28 DEF GateConnect
<1>29. CASE GateRejects
  BY <1>29 DEF GateRejects
<1>30. CASE GateAccepts
  BY <1>30 DEF GateAccepts
<1>31. CASE GateDialFails
  BY <1>31 DEF GateDialFails
<1>32. CASE GateDialAnswers
  BY <1>32 DEF GateDialAnswers
<1>33. CASE DataEnterDead
  BY <1>33 DEF DataEnterDead
<1>34. CASE DataEnter
  BY <1>34 DEF DataEnter
<1>35. CASE DataRemoteGone
  BY <1>35 DEF DataRemoteGone
<1>36. CASE DataDone
  BY <1>36 DEF DataDone
<1>37. CASE DataPoll
  BY <1>37 DEF DataPoll
<1>38. CASE DataPumps
  BY <1>38 DEF DataPumps
<1>44. CASE Finish
  BY <1>44, FinishCounts
<1> QED
  BY <1>1, <1>2, <1>3, <1>4, <1>5, <1>6, <1>7, <1>8, <1>9, <1>10, <1>11, <1>12,
     <1>13, <1>14, <1>15, <1>16, <1>17, <1>18, <1>19, <1>20, <1>21, <1>22,
     <1>23, <1>24, <1>25, <1>26, <1>27, <1>28, <1>29, <1>30, <1>31, <1>32,
     <1>33, <1>34, <1>35, <1>36, <1>37, <1>38, <1>39, <1>40, <1>41, <1>42,
     <1>43, <1>44, <1>45
     DEF Next, CommandLoop, Command, HandleDial, DataLoop, Reader, Close

(* dataLoop starts the reader and does not return before it has joined it. *)
LEMMA ReaderInvStep == IInv /\ TypeOK' /\ [Next]_vars => ReaderInv'
<1> SUFFICES ASSUME IInv, TypeOK', [Next]_vars PROVE ReaderInv'
  OBVIOUS
<1> USE MaxDialsAssumption
        DEF IInv, ReaderInv, ReaderConfined, DataPcs, TypeOK, Dials, NoDial,
            GoTo, Tell, EndDial, TakeLine, Resolved, Receive, StartDialling,
            Observe, Hangup, Shut, sessVars, callVars, statVars, netVars,
            dataVars, stopVars, termVars
<1>1. CASE Greet \/ LoopTop \/ ReadFails \/ Cleanup
  BY <1>1 DEF Greet, LoopTop, ReadFails, Cleanup
<1>2. CASE OtherCommand \/ CommandATH \/ CommandATO
  BY <1>2 DEF OtherCommand, CommandATH, CommandATO
<1>3. ASSUME NEW k \in Numbers, CommandATDT(k) PROVE ReaderInv'
  BY <1>3 DEF CommandATDT
<1>4. CASE LookupFails \/ LookupBusy \/ LookupMismatch \/ LookupGated \/
           LookupOpen
  BY <1>4 DEF LookupFails, LookupBusy, LookupMismatch, LookupGated, LookupOpen
<1>5. CASE SendRing \/ GarbageConnect \/ GarbageDrop \/ SetupRefused \/
           SetupRings \/ MandatoryRingsOver
  BY <1>5
     DEF SendRing, GarbageConnect, GarbageDrop, SetupRefused, SetupRings,
         MandatoryRingsOver
<1>6. CASE ExtraRing \/ ExtraRingsOver \/ ExtraRingTimer \/ AnswerArrives
  BY <1>6 DEF ExtraRing, ExtraRingsOver, ExtraRingTimer, AnswerArrives
<1>7. CASE SafetyTimeout
  BY <1>7 DEF SafetyTimeout
<1>8. CASE JudgeFailed
  BY <1>8 DEF JudgeFailed
<1>9. CASE JudgeAnswered
  BY <1>9 DEF JudgeAnswered
<1>10. CASE HandshakeOver
  BY <1>10 DEF HandshakeOver
<1>11. CASE Finish
  BY <1>11 DEF Finish
<1>12. CASE GateConnect \/ GateRejects \/ GateAccepts \/ GateDialFails \/
            GateDialAnswers
  BY <1>12
     DEF GateConnect, GateRejects, GateAccepts, GateDialFails, GateDialAnswers
<1>13. CASE DataEnterDead \/ DataEnter \/ DataRemoteGone \/ DataDone \/ DataPoll
            \/ DataPumps
  BY <1>13
     DEF DataEnterDead, DataEnter, DataRemoteGone, DataDone, DataPoll, DataPumps
<1>14. CASE DataWriteFails \/ DataEscape \/ DataClientGone \/ DataCloseRemote \/
            DataJoinReader
  BY <1>14
     DEF DataWriteFails, DataEscape, DataClientGone, DataCloseRemote,
         DataJoinReader
<1>15. CASE ReaderReads \/ ReaderForwards \/ ReaderStops \/ CooldownEnds \/
            ClientLeaves
  BY <1>15
     DEF ReaderReads, ReaderForwards, ReaderStops, CooldownEnds, ClientLeaves
<1>16. ASSUME NEW d \in Dials, DialReturns(d) PROVE ReaderInv'
  BY <1>16 DEF DialReturns
<1>17. ASSUME NEW d \in Dials, BoardHangsUp(d) PROVE ReaderInv'
  BY <1>17 DEF BoardHangsUp
<1>18. CASE CloseDone \/ CloseConn \/ CloseHangup
  BY <1>18 DEF CloseDone, CloseConn, CloseHangup
<1>19. CASE Rest \/ UNCHANGED vars
  BY <1>19 DEF Rest, vars
<1> QED
  BY <1>1, <1>2, <1>3, <1>4, <1>5, <1>6, <1>7, <1>8, <1>9, <1>10, <1>11, <1>12,
     <1>13, <1>14, <1>15, <1>16, <1>17, <1>18, <1>19
     DEF Next, CommandLoop, Command, HandleDial, DataLoop, Reader, Close

(* An answer is received once, and the socket behind it stays known. *)
LEMMA ChannelInvStep == IInv /\ TypeOK' /\ [Next]_vars => ChannelInv'
<1> SUFFICES ASSUME IInv, TypeOK', [Next]_vars PROVE ChannelInv'
  OBVIOUS
<1> USE MaxDialsAssumption
        DEF IInv, ChannelInv, AfterAnswer, Counted, DialPcs, TypeOK, Dials,
            NoDial, GoTo, Tell, EndDial, TakeLine, Resolved, Receive,
            StartDialling, Observe, Hangup, Shut, sessVars, callVars, statVars,
            netVars, dataVars, stopVars, termVars
<1>1. CASE Greet \/ LoopTop \/ ReadFails
  BY <1>1 DEF Greet, LoopTop, ReadFails
<1>2. CASE OtherCommand
  BY <1>2 DEF OtherCommand
<1>3. CASE CommandATH
  BY <1>3 DEF CommandATH
<1>4. CASE CommandATO
  BY <1>4 DEF CommandATO
<1>5. ASSUME NEW k \in Numbers, CommandATDT(k) PROVE ChannelInv'
  BY <1>5 DEF CommandATDT
<1>6. CASE LookupFails
  BY <1>6 DEF LookupFails
<1>7. CASE LookupBusy
  BY <1>7 DEF LookupBusy
<1>8. CASE LookupMismatch
  BY <1>8 DEF LookupMismatch
<1>9. CASE LookupGated \/ LookupOpen
  BY <1>9 DEF LookupGated, LookupOpen
<1>10. CASE SendRing \/ GarbageConnect
  BY <1>10 DEF SendRing, GarbageConnect
<1>11. CASE GarbageDrop
  BY <1>11 DEF GarbageDrop
<1>12. CASE SetupRefused \/ SetupRings \/ MandatoryRingsOver
  BY <1>12 DEF SetupRefused, SetupRings, MandatoryRingsOver
<1>13. CASE ExtraRing \/ ExtraRingsOver \/ ExtraRingTimer \/ AnswerArrives
  BY <1>13 DEF ExtraRing, ExtraRingsOver, ExtraRingTimer, AnswerArrives
<1>14. CASE SafetyTimeout
  BY <1>14 DEF SafetyTimeout
<1>15. CASE JudgeFailed
  BY <1>15 DEF JudgeFailed
<1>16. CASE JudgeAnswered
  BY <1>16 DEF JudgeAnswered
<1>17. CASE HandshakeOver \/ Finish
  BY <1>17 DEF HandshakeOver, Finish
<1>18. CASE GateConnect
  BY <1>18 DEF GateConnect
<1>19. CASE GateRejects
  BY <1>19 DEF GateRejects
<1>20. CASE GateAccepts
  BY <1>20 DEF GateAccepts
<1>21. CASE GateDialAnswers
  BY <1>21 DEF GateDialAnswers
<1>22. CASE DataEnterDead
  BY <1>22 DEF DataEnterDead
<1>23. CASE DataEnter
  BY <1>23 DEF DataEnter
<1>24. CASE DataDone
  BY <1>24 DEF DataDone
<1>25. CASE DataPoll \/ DataPumps
  BY <1>25 DEF DataPoll, DataPumps
<1>26. CASE DataEscape \/ DataJoinReader
  BY <1>26 DEF DataEscape, DataJoinReader
<1>27. CASE ReaderReads \/ ReaderForwards \/ ReaderStops \/ CooldownEnds \/
            ClientLeaves
  BY <1>27
     DEF ReaderReads, ReaderForwards, ReaderStops, CooldownEnds, ClientLeaves
<1>28. ASSUME NEW d \in Dials, DialReturns(d) PROVE ChannelInv'
  BY <1>28 DEF DialReturns
<1>29. ASSUME NEW d \in Dials, BoardHangsUp(d) PROVE ChannelInv'
  BY <1>29 DEF BoardHangsUp
<1>30. CASE CloseDone \/ CloseConn
  BY <1>30 DEF CloseDone, CloseConn
<1>31. CASE Cleanup \/ DataRemoteGone \/ DataWriteFails \/ DataClientGone \/
            CloseHangup
  BY <1>31, HangupsKeep
<1>32. CASE DataCloseRemote
  BY <1>32, CloseKeeps
<1>33. CASE GateDialFails
  BY <1>33, GateFailsKeeps
<1>34. CASE Rest \/ UNCHANGED vars
  BY <1>34 DEF Rest, vars
<1> QED
  BY <1>1, <1>2, <1>3, <1>4, <1>5, <1>6, <1>7, <1>8, <1>9, <1>10, <1>11, <1>12,
     <1>13, <1>14, <1>15, <1>16, <1>17, <1>18, <1>19, <1>20, <1>21, <1>22,
     <1>23, <1>24, <1>25, <1>26, <1>27, <1>28, <1>29, <1>30, <1>31, <1>32,
     <1>33, <1>34
     DEF Next, CommandLoop, Command, HandleDial, DataLoop, Reader, Close

(* The ownership of a call passes from step to step and is never dropped. *)
LEMMA OwnedInvStep == IInv /\ TypeOK' /\ [Next]_vars => OwnedInv'
<1> SUFFICES ASSUME IInv, TypeOK', [Next]_vars PROVE OwnedInv'
  OBVIOUS
<1> USE MaxDialsAssumption
        DEF IInv, OwnedInv, Live, ChannelInv, AfterAnswer, DataPcs, Counted,
            DialPcs, TypeOK, Dials, NoDial, GoTo, Tell, EndDial, TakeLine,
            Resolved, Receive, StartDialling, Observe, Hangup, Shut, sessVars,
            callVars, statVars, netVars, dataVars, stopVars, termVars
<1>1. CASE Greet \/ LoopTop \/ ReadFails
  BY <1>1 DEF Greet, LoopTop, ReadFails
<1>2. CASE OtherCommand \/ CommandATH \/ CommandATO
  BY <1>2 DEF OtherCommand, CommandATH, CommandATO
<1>3. ASSUME NEW k \in Numbers, CommandATDT(k) PROVE OwnedInv'
  BY <1>3 DEF CommandATDT
<1>4. CASE LookupFails \/ LookupBusy \/ LookupMismatch
  BY <1>4 DEF LookupFails, LookupBusy, LookupMismatch
<1>5. CASE LookupGated \/ LookupOpen
  BY <1>5 DEF LookupGated, LookupOpen
<1>6. CASE SendRing \/ GarbageConnect \/ GarbageDrop
  BY <1>6 DEF SendRing, GarbageConnect, GarbageDrop
<1>7. CASE SetupRefused \/ SetupRings \/ MandatoryRingsOver
  BY <1>7 DEF SetupRefused, SetupRings, MandatoryRingsOver
<1>8. CASE ExtraRing \/ ExtraRingsOver \/ ExtraRingTimer \/ AnswerArrives
  BY <1>8 DEF ExtraRing, ExtraRingsOver, ExtraRingTimer, AnswerArrives
<1>9. CASE SafetyTimeout
  BY <1>9 DEF SafetyTimeout
<1>10. CASE JudgeFailed
  BY <1>10 DEF JudgeFailed
<1>11. CASE JudgeAnswered
  BY <1>11 DEF JudgeAnswered
<1>12. CASE HandshakeOver
  BY <1>12 DEF HandshakeOver
<1>13. CASE Finish
  BY <1>13 DEF Finish
<1>14. CASE GateConnect \/ GateRejects
  BY <1>14 DEF GateConnect, GateRejects
<1>15. CASE GateAccepts
  BY <1>15 DEF GateAccepts
<1>16. CASE GateDialAnswers
  BY <1>16 DEF GateDialAnswers
<1>17. CASE DataEnter
  BY <1>17 DEF DataEnter
<1>18. CASE DataDone
  BY <1>18 DEF DataDone
<1>19. CASE DataPoll \/ DataPumps
  BY <1>19 DEF DataPoll, DataPumps
<1>20. CASE DataEscape \/ DataJoinReader
  BY <1>20 DEF DataEscape, DataJoinReader
<1>21. CASE ReaderReads \/ ReaderForwards \/ ReaderStops \/ CooldownEnds \/
            ClientLeaves
  BY <1>21
     DEF ReaderReads, ReaderForwards, ReaderStops, CooldownEnds, ClientLeaves
<1>22. ASSUME NEW d \in Dials, DialReturns(d) PROVE OwnedInv'
  BY <1>22 DEF DialReturns
<1>23. ASSUME NEW d \in Dials, BoardHangsUp(d) PROVE OwnedInv'
  BY <1>23 DEF BoardHangsUp
<1>24. CASE CloseDone \/ CloseConn
  BY <1>24 DEF CloseDone, CloseConn
<1>25. CASE Cleanup \/ DataRemoteGone \/ DataWriteFails \/ DataClientGone \/
            CloseHangup
  BY <1>25, HangupsKeep
<1>26. CASE DataCloseRemote
  BY <1>26, CloseKeeps
<1>27. CASE GateDialFails
  BY <1>27, GateFailsKeeps
<1>28. CASE DataEnterDead
  BY <1>28, EnterDeadKeeps
<1>29. CASE Rest \/ UNCHANGED vars
  BY <1>29 DEF Rest, vars
<1> QED
  BY <1>1, <1>2, <1>3, <1>4, <1>5, <1>6, <1>7, <1>8, <1>9, <1>10, <1>11, <1>12,
     <1>13, <1>14, <1>15, <1>16, <1>17, <1>18, <1>19, <1>20, <1>21, <1>22,
     <1>23, <1>24, <1>25, <1>26, <1>27, <1>28, <1>29
     DEF Next, CommandLoop, Command, HandleDial, DataLoop, Reader, Close

(* Only SafetyTimeout leaves a dialler behind. *)
LEMMA LateInvStep == IInv /\ TypeOK' /\ [Next]_vars => LateInv'
<1> SUFFICES ASSUME IInv, TypeOK', [Next]_vars PROVE LateInv'
  OBVIOUS
<1> USE MaxDialsAssumption
        DEF IInv, LateInv, Waiting, ChannelInv, AfterAnswer, Counted, DialPcs,
            TypeOK, Dials, GoTo, Tell, EndDial, TakeLine, Resolved, Receive,
            StartDialling, Observe, Hangup, Shut, sessVars, callVars, statVars,
            netVars, dataVars, stopVars, termVars
<1>1. CASE Greet \/ LoopTop \/ ReadFails \/ Cleanup
  BY <1>1 DEF Greet, LoopTop, ReadFails, Cleanup
<1>2. CASE OtherCommand
  BY <1>2 DEF OtherCommand
<1>3. CASE CommandATH
  BY <1>3 DEF CommandATH
<1>4. CASE CommandATO
  BY <1>4 DEF CommandATO
<1>5. ASSUME NEW k \in Numbers, CommandATDT(k) PROVE LateInv'
  BY <1>5 DEF CommandATDT
<1>6. CASE LookupFails
  BY <1>6 DEF LookupFails
<1>7. CASE LookupBusy
  BY <1>7 DEF LookupBusy
<1>8. CASE LookupMismatch
  BY <1>8 DEF LookupMismatch
<1>9. CASE LookupGated \/ LookupOpen
  BY <1>9 DEF LookupGated, LookupOpen
<1>10. CASE SendRing \/ GarbageConnect
  BY <1>10 DEF SendRing, GarbageConnect
<1>11. CASE GarbageDrop
  BY <1>11 DEF GarbageDrop
<1>12. CASE SetupRefused \/ SetupRings \/ MandatoryRingsOver
  BY <1>12 DEF SetupRefused, SetupRings, MandatoryRingsOver
<1>13. CASE ExtraRing \/ ExtraRingsOver \/ ExtraRingTimer \/ AnswerArrives
  BY <1>13 DEF ExtraRing, ExtraRingsOver, ExtraRingTimer, AnswerArrives
<1>14. CASE SafetyTimeout
  BY <1>14 DEF SafetyTimeout
<1>15. CASE JudgeFailed
  BY <1>15 DEF JudgeFailed
<1>16. CASE JudgeAnswered
  BY <1>16 DEF JudgeAnswered
<1>17. CASE HandshakeOver \/ Finish
  BY <1>17 DEF HandshakeOver, Finish
<1>18. CASE GateConnect
  BY <1>18 DEF GateConnect
<1>19. CASE GateRejects
  BY <1>19 DEF GateRejects
<1>20. CASE GateAccepts
  BY <1>20 DEF GateAccepts
<1>21. CASE GateDialAnswers
  BY <1>21 DEF GateDialAnswers
<1>22. CASE DataEnterDead
  BY <1>22 DEF DataEnterDead
<1>23. CASE DataEnter
  BY <1>23 DEF DataEnter
<1>24. CASE DataRemoteGone
  BY <1>24 DEF DataRemoteGone
<1>25. CASE DataDone \/ DataPoll \/ DataPumps
  BY <1>25 DEF DataDone, DataPoll, DataPumps
<1>26. CASE DataWriteFails
  BY <1>26 DEF DataWriteFails
<1>27. CASE DataEscape
  BY <1>27 DEF DataEscape
<1>28. CASE DataClientGone
  BY <1>28 DEF DataClientGone
<1>29. CASE DataCloseRemote \/ DataJoinReader
  BY <1>29 DEF DataCloseRemote, DataJoinReader
<1>30. CASE ReaderReads \/ ReaderForwards \/ ReaderStops \/ CooldownEnds \/
            ClientLeaves
  BY <1>30
     DEF ReaderReads, ReaderForwards, ReaderStops, CooldownEnds, ClientLeaves
<1>31. ASSUME NEW d \in Dials, DialReturns(d) PROVE LateInv'
  BY <1>31 DEF DialReturns
<1>32. ASSUME NEW d \in Dials, BoardHangsUp(d) PROVE LateInv'
  BY <1>32 DEF BoardHangsUp
<1>33. CASE CloseDone \/ CloseConn \/ CloseHangup
  BY <1>33 DEF CloseDone, CloseConn, CloseHangup
<1>34. CASE GateDialFails
  BY <1>34, GateFailsKeeps
<1>35. CASE Rest \/ UNCHANGED vars
  BY <1>35 DEF Rest, vars
<1> QED
  BY <1>1, <1>2, <1>3, <1>4, <1>5, <1>6, <1>7, <1>8, <1>9, <1>10, <1>11, <1>12,
     <1>13, <1>14, <1>15, <1>16, <1>17, <1>18, <1>19, <1>20, <1>21, <1>22,
     <1>23, <1>24, <1>25, <1>26, <1>27, <1>28, <1>29, <1>30, <1>31, <1>32,
     <1>33, <1>34, <1>35
     DEF Next, CommandLoop, Command, HandleDial, DataLoop, Reader, Close

(* The outcome chosen at each exit stays true of the dial it is counted for. *)
LEMMA HonestInvStep == IInv /\ TypeOK' /\ [Next]_vars => HonestInv'
<1> SUFFICES ASSUME IInv, TypeOK', [Next]_vars PROVE HonestInv'
  OBVIOUS
<1> USE MaxDialsAssumption
        DEF IInv, HonestInv, Fits, ChannelInv, AfterAnswer, Counted, DialPcs,
            TypeOK, Dials, GoTo, Tell, EndDial, TakeLine, Resolved, Receive,
            StartDialling, Observe, Hangup, Shut, sessVars, callVars, statVars,
            netVars, dataVars, stopVars, termVars
<1>1. CASE Greet \/ LoopTop \/ ReadFails
  BY <1>1 DEF Greet, LoopTop, ReadFails
<1>2. CASE OtherCommand
  BY <1>2 DEF OtherCommand
<1>3. CASE CommandATH
  BY <1>3 DEF CommandATH
<1>4. CASE CommandATO
  BY <1>4 DEF CommandATO
<1>5. ASSUME NEW k \in Numbers, CommandATDT(k) PROVE HonestInv'
  BY <1>5 DEF CommandATDT
<1>6. CASE LookupFails
  BY <1>6 DEF LookupFails
<1>7. CASE LookupBusy
  BY <1>7 DEF LookupBusy
<1>8. CASE LookupMismatch
  BY <1>8 DEF LookupMismatch
<1>9. CASE LookupGated \/ LookupOpen
  BY <1>9 DEF LookupGated, LookupOpen
<1>10. CASE SendRing \/ GarbageConnect
  BY <1>10 DEF SendRing, GarbageConnect
<1>11. CASE GarbageDrop
  BY <1>11 DEF GarbageDrop
<1>12. CASE SetupRefused \/ SetupRings \/ MandatoryRingsOver
  BY <1>12 DEF SetupRefused, SetupRings, MandatoryRingsOver
<1>13. CASE ExtraRing \/ ExtraRingsOver \/ ExtraRingTimer \/ AnswerArrives
  BY <1>13 DEF ExtraRing, ExtraRingsOver, ExtraRingTimer, AnswerArrives
<1>14. CASE SafetyTimeout
  BY <1>14 DEF SafetyTimeout
<1>15. CASE JudgeFailed
  BY <1>15 DEF JudgeFailed
<1>16. CASE JudgeAnswered
  BY <1>16 DEF JudgeAnswered
<1>17. CASE HandshakeOver \/ Finish
  BY <1>17 DEF HandshakeOver, Finish
<1>18. CASE GateConnect
  BY <1>18 DEF GateConnect
<1>19. CASE GateRejects
  BY <1>19 DEF GateRejects
<1>20. CASE GateAccepts
  BY <1>20 DEF GateAccepts
<1>21. CASE GateDialAnswers
  BY <1>21 DEF GateDialAnswers
<1>22. CASE DataEnterDead
  BY <1>22 DEF DataEnterDead
<1>23. CASE DataEnter
  BY <1>23 DEF DataEnter
<1>24. CASE DataDone
  BY <1>24 DEF DataDone
<1>25. CASE DataPoll \/ DataPumps
  BY <1>25 DEF DataPoll, DataPumps
<1>26. CASE DataEscape \/ DataJoinReader
  BY <1>26 DEF DataEscape, DataJoinReader
<1>27. CASE ReaderReads \/ ReaderForwards \/ ReaderStops \/ CooldownEnds \/
            ClientLeaves
  BY <1>27
     DEF ReaderReads, ReaderForwards, ReaderStops, CooldownEnds, ClientLeaves
<1>28. ASSUME NEW d \in Dials, DialReturns(d) PROVE HonestInv'
  BY <1>28 DEF DialReturns
<1>29. ASSUME NEW d \in Dials, BoardHangsUp(d) PROVE HonestInv'
  BY <1>29 DEF BoardHangsUp
<1>30. CASE CloseDone \/ CloseConn
  BY <1>30 DEF CloseDone, CloseConn
<1>31. CASE Cleanup \/ DataRemoteGone \/ DataWriteFails \/ DataClientGone \/
            CloseHangup
  BY <1>31, HangupsKeep
<1>32. CASE DataCloseRemote
  BY <1>32, CloseKeeps
<1>33. CASE GateDialFails
  BY <1>33, GateFailsKeeps
<1>34. CASE Rest \/ UNCHANGED vars
  BY <1>34 DEF Rest, vars
<1> QED
  BY <1>1, <1>2, <1>3, <1>4, <1>5, <1>6, <1>7, <1>8, <1>9, <1>10, <1>11, <1>12,
     <1>13, <1>14, <1>15, <1>16, <1>17, <1>18, <1>19, <1>20, <1>21, <1>22,
     <1>23, <1>24, <1>25, <1>26, <1>27, <1>28, <1>29, <1>30, <1>31, <1>32,
     <1>33, <1>34
     DEF Next, CommandLoop, Command, HandleDial, DataLoop, Reader, Close

(* Data mode and remoteConn are set together and cleared together. *)
LEMMA ModeInvStep == IInv /\ TypeOK' /\ [Next]_vars => ModeInv'
<1> SUFFICES ASSUME IInv, TypeOK', [Next]_vars PROVE ModeInv'
  OBVIOUS
<1> USE MaxDialsAssumption
        DEF IInv, ModeInv, Counted, DialPcs, TypeOK, Dials, NoDial, GoTo, Tell,
            EndDial, TakeLine, Resolved, Receive, StartDialling, Observe,
            Hangup, Shut, sessVars, callVars, statVars, netVars, dataVars,
            stopVars, termVars
<1>1. CASE Greet \/ LoopTop \/ ReadFails \/ Cleanup
  BY <1>1 DEF Greet, LoopTop, ReadFails, Cleanup
<1>2. CASE OtherCommand \/ CommandATH \/ CommandATO
  BY <1>2 DEF OtherCommand, CommandATH, CommandATO
<1>3. ASSUME NEW k \in Numbers, CommandATDT(k) PROVE ModeInv'
  BY <1>3 DEF CommandATDT
<1>4. CASE LookupFails \/ LookupBusy \/ LookupMismatch \/ LookupGated \/
           LookupOpen
  BY <1>4 DEF LookupFails, LookupBusy, LookupMismatch, LookupGated, LookupOpen
<1>5. CASE SendRing \/ GarbageConnect \/ GarbageDrop \/ SetupRefused \/
           SetupRings \/ MandatoryRingsOver
  BY <1>5
     DEF SendRing, GarbageConnect, GarbageDrop, SetupRefused, SetupRings,
         MandatoryRingsOver
<1>6. CASE ExtraRing \/ ExtraRingsOver \/ ExtraRingTimer \/ AnswerArrives
  BY <1>6 DEF ExtraRing, ExtraRingsOver, ExtraRingTimer, AnswerArrives
<1>7. CASE SafetyTimeout \/ JudgeFailed
  BY <1>7 DEF SafetyTimeout, JudgeFailed
<1>8. CASE JudgeAnswered
  BY <1>8 DEF JudgeAnswered
<1>9. CASE HandshakeOver \/ Finish
  BY <1>9 DEF HandshakeOver, Finish
<1>10. CASE GateConnect \/ GateRejects \/ GateAccepts
  BY <1>10 DEF GateConnect, GateRejects, GateAccepts
<1>11. CASE GateDialFails
  BY <1>11 DEF GateDialFails
<1>12. CASE GateDialAnswers
  BY <1>12 DEF GateDialAnswers
<1>13. CASE DataEnterDead \/ DataEnter \/ DataRemoteGone \/ DataDone \/ DataPoll
            \/ DataPumps
  BY <1>13
     DEF DataEnterDead, DataEnter, DataRemoteGone, DataDone, DataPoll, DataPumps
<1>14. CASE DataWriteFails \/ DataEscape \/ DataClientGone \/ DataCloseRemote \/
            DataJoinReader
  BY <1>14
     DEF DataWriteFails, DataEscape, DataClientGone, DataCloseRemote,
         DataJoinReader
<1>15. CASE ReaderReads \/ ReaderForwards \/ ReaderStops \/ CooldownEnds \/
            ClientLeaves
  BY <1>15
     DEF ReaderReads, ReaderForwards, ReaderStops, CooldownEnds, ClientLeaves
<1>16. ASSUME NEW d \in Dials, DialReturns(d) PROVE ModeInv'
  BY <1>16 DEF DialReturns
<1>17. ASSUME NEW d \in Dials, BoardHangsUp(d) PROVE ModeInv'
  BY <1>17 DEF BoardHangsUp
<1>18. CASE CloseDone \/ CloseConn \/ CloseHangup
  BY <1>18 DEF CloseDone, CloseConn, CloseHangup
<1>19. CASE Rest \/ UNCHANGED vars
  BY <1>19 DEF Rest, vars
<1> QED
  BY <1>1, <1>2, <1>3, <1>4, <1>5, <1>6, <1>7, <1>8, <1>9, <1>10, <1>11, <1>12,
     <1>13, <1>14, <1>15, <1>16, <1>17, <1>18, <1>19
     DEF Next, CommandLoop, Command, HandleDial, DataLoop, Reader, Close

-----------------------------------------------------------------------------
LEMMA IInvInit == Init => IInv
<1> SUFFICES ASSUME Init PROVE IInv
  OBVIOUS
<1>1. TypeOK
  <2>1. "greet" \in Pcs /\ "no_carrier" \in Outcomes /\ "none" \in Reports
        /\ "unknown" \in Numbers
    BY DEF Pcs, Outcomes, Reports, Numbers
  <2>2. /\ observed \in [Dials -> Outcomes \union {"none"}]
        /\ dialer \in [Dials -> {"idle", "dialing", "answered", "refused",
                                "failed", "taken"}]
        /\ sock \in [Dials -> {"none", "open", "eof", "closed"}]
    BY DEF Init
  <2>3. 0 \in 0..MaxDials /\ 0 \in 0..3
    BY MaxDialsAssumption
  <2> QED
    BY <2>1, <2>2, <2>3 DEF Init, TypeOK
<1>2. Counted
  BY MaxDialsAssumption DEF Init, Counted, DialPcs, Dials
<1>3. ReaderInv
  BY DEF Init, ReaderInv, ReaderConfined, DataPcs
<1>4. ChannelInv
  BY DEF Init, ChannelInv, AfterAnswer, Dials, NoDial
<1>5. OwnedInv /\ LateInv /\ ModeInv
  BY DEF Init, OwnedInv, Live, LateInv, ModeInv
<1>6. HonestInv
  BY DEF Init, HonestInv, Fits
<1> QED
  BY <1>1, <1>2, <1>3, <1>4, <1>5, <1>6 DEF IInv

LEMMA IInvStep == IInv /\ [Next]_vars => IInv'
<1> SUFFICES ASSUME IInv, [Next]_vars PROVE IInv'
  OBVIOUS
<1>1. TypeOK'
  BY TypeStep DEF IInv
<1> QED
  BY <1>1, CountedStep, ReaderInvStep, ChannelInvStep, OwnedInvStep, LateInvStep,
     HonestInvStep, ModeInvStep DEF IInv

LEMMA Invariance == Spec => []IInv
<1>1. IInv /\ UNCHANGED vars => IInv'
  BY IInvStep
<1> QED
  BY IInvInit, IInvStep, PTL DEF Spec

(* Every variable keeps its type; in particular the gauge of dials in       *)
(* flight never leaves 0 and 1 for one session.                             *)
THEOREM TypeCorrect == Spec => []TypeOK
<1>1. IInv => TypeOK
  BY DEF IInv
<1> QED
  BY <1>1, Invariance, PTL

(* Each ATDT is in flight or has been counted once, whichever exit of       *)
(* handleDial or gatedConnect it took (dial.go:22-49).                      *)
THEOREM DialsAlwaysBalance == Spec => []DialsBalance
<1>1. ASSUME IInv PROVE DialsBalance
  <2>1. n \in Nat /\ n <= MaxDials /\ inFlight \in {0, 1} /\ n - inFlight \in Nat
    BY <1>1, MaxDialsAssumption DEF IInv, TypeOK, Counted
  <2>2. {d \in Dials : observed[d] # "none"} = 1..(n - inFlight)
    BY <1>1, <2>1, MaxDialsAssumption DEF IInv, Counted, Dials
  <2>3. Cardinality(1..(n - inFlight)) = n - inFlight
    <3>1. Cardinality(1..(n - inFlight)) =
            IF 1 > n - inFlight THEN 0 ELSE (n - inFlight) - 1 + 1
      BY <2>1, FS_Interval
    <3> QED
      BY <2>1, <3>1
  <2>4. inFlight = (IF pc \in DialPcs THEN 1 ELSE 0)
    BY <1>1 DEF IInv, Counted
  <2>5. Cardinality({d \in Dials : observed[d] # "none"}) = n - inFlight
    BY <2>2, <2>3
  <2>6. n = inFlight + Cardinality({d \in Dials : observed[d] # "none"})
    BY <2>1, <2>5
  <2> QED
    BY <2>4, <2>6 DEF DialsBalance
<1> QED
  BY <1>1, Invariance, PTL

(* The remote reader never outlives dataLoop (session.go:689-693). *)
THEOREM ReaderStaysConfined == Spec => []ReaderConfined
<1>1. IInv => ReaderConfined
  BY DEF IInv, ReaderInv
<1> QED
  BY <1>1, Invariance, PTL

(* Every open outbound socket has an owner that will close it, but for the  *)
(* answer that comes after the safety timeout (dial.go:169-179).            *)
THEOREM NoCallOrphaned == Spec => []NoOrphanCall
<1>1. ASSUME IInv, NEW d \in Dials, Live(d), dialer[d] = "answered"
      PROVE  \/ Waiting(d) /\ dialer[d] = "answered"
             \/ Unclaimed(d) /\ observed[d] \in {"timeout", "none"}
  <2>1. CASE Waiting(d)
    BY <1>1, <2>1
  <2>2. CASE ~Waiting(d)
    <3>1. observed[d] = "timeout" \/ (d = n /\ pc = "finish")
      <4>1. LateInv
        BY <1>1 DEF IInv
      <4> QED
        BY <1>1, <2>2, <4>1 DEF LateInv
    <3>2. d = n /\ pc = "finish" => observed[d] = "none"
      BY <1>1, MaxDialsAssumption DEF IInv, Counted, DialPcs, TypeOK, Dials
    <3> QED
      BY <1>1, <2>2, <3>1, <3>2 DEF Unclaimed
  <2> QED
    BY <2>1, <2>2
<1>2. ASSUME IInv PROVE NoOrphanCall
  BY <1>1, <1>2 DEF IInv, OwnedInv, AfterAnswer, NoOrphanCall
<1> QED
  BY <1>2, Invariance, PTL

(* At the command prompt and after the session nothing is left open. *)
THEOREM IdleNeverHoldsCall == Spec => []IdleHoldsNoCall
<1>1. IInv => IdleHoldsNoCall
  BY DEF IInv, OwnedInv, AfterAnswer, DataPcs, IdleHoldsNoCall, Unclaimed, Waiting
<1> QED
  BY <1>1, Invariance, PTL

(* A counted outcome is true of the dial it was counted for. *)
THEOREM OutcomesAlwaysHonest == Spec => []OutcomeIsHonest
<1>1. IInv => OutcomeIsHonest
  BY DEF IInv, HonestInv, Fits, OutcomeIsHonest
<1> QED
  BY <1>1, Invariance, PTL

(* Unless Close is at work, dataLoop is entered with a socket. *)
THEOREM DataModeAlwaysHasCall == Spec => []DataModeHasCall
<1>1. IInv => DataModeHasCall
  BY DEF IInv, ModeInv, DataModeHasCall
<1> QED
  BY <1>1, Invariance, PTL

=============================================================================
