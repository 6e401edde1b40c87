------------------------------ MODULE Session ------------------------------
(***************************************************************************)
(* One caller's session: internal/server/session.go and dial.go.           *)
(*                                                                         *)
(* The goroutines of a session and what they share:                        *)
(*   - the session goroutine (Run -> commandLoop -> processCommand,        *)
(*     handleDial, gatedConnect, dataLoop), whose position is pc;          *)
(*   - one background dialler per ordinary ATDT, which answers on a        *)
(*     channel of capacity one (dialer[d]);                                *)
(*   - the remote reader that dataLoop starts and joins (reader);          *)
(*   - Server.Stop, which calls Close from its own goroutine (closing).    *)
(* The environment is the caller's terminal, which may go away at any      *)
(* moment, and the dialled boards, which answer, refuse or hang up.        *)
(*                                                                         *)
(* Data is abstracted away: a command line is the one command in it that   *)
(* matters, a phonebook number is the kind of entry it resolves to, and    *)
(* board traffic is the fact that a chunk was read.  Pauses are steps with *)
(* no upper bound of their own.                                            *)
(***************************************************************************)
EXTENDS Naturals, FiniteSets

CONSTANT MaxDials      \* bound: ATDT commands the caller gives

ASSUME MaxDialsAssumption == MaxDials \in Nat \ {0}

Dials   == 1..MaxDials
NoDial  == 0
Numbers == {"unknown", "busy", "open", "gated"}

(* Results the terminal is told; "none" before the first one. *)
Reports == {"none", "OK", "ERROR", "RING", "CONNECT", "BUSY", "NO CARRIER"}

(* The outcome label of telix_dials_total. *)
Outcomes == {"success", "no_carrier", "busy", "timeout", "auth_failed",
             "settings_mismatch", "unknown_number", "blocked"}

VARIABLES
  pc,          \* where the session goroutine is
  modem,       \* modem.State(): "command" or "data"
  remoteConn,  \* s.remoteConn: the dial whose socket it is, or NoDial
  held,        \* dataLoop's local copy of remoteConn
  n,           \* ATDT commands given so far; the current dial is n
  entry,       \* the kind of number the current ATDT dialled
  cooling,     \* TRUE within dialCooldown of s.lastDial
  rings,       \* RINGs still to send in the current ringing loop
  res,         \* handleDial's local res: what was received from the channel
  outcome,     \* dialTracker.outcome of the dial under way
  inFlight,    \* telix_dials_in_flight, this session's share
  observed,    \* observed[d]: the outcome counted for dial d
  dialer,      \* dialer[d]: the outbound call attempt of dial d
  sock,        \* sock[d]: our end of the outbound socket of dial d
  reader,      \* the remote reader goroutine
  remoteGone,  \* dataLoop's remoteGone channel is closed
  done,        \* s.done is closed
  closing,     \* how far Server.Stop's call of Close has come
  client,      \* "up" while the terminal reads what we write
  ahead,       \* a further complete line waits in the bufio reader
  report       \* the last result the terminal has heard

sessVars  == <<pc, modem, remoteConn, held>>
callVars  == <<n, entry, cooling, rings, res, outcome>>
statVars  == <<inFlight, observed>>
netVars   == <<dialer, sock>>
dataVars  == <<reader, remoteGone>>
stopVars  == <<done, closing>>
termVars  == <<client, ahead, report>>
vars == <<sessVars, callVars, statVars, netVars, dataVars, stopVars, termVars>>

-----------------------------------------------------------------------------
(* Program points of the session goroutine, by the function they are in. *)

DialPcs == {"tone", "mismatch.ring", "mismatch.drop", "gate.ring", "gate.prompt",
            "gate.dial", "setup", "ring", "extra", "extra.wait", "await", "judge",
            "shake", "finish"}
DataPcs == {"data", "data.read", "data.exit", "data.wait"}
Pcs     == {"greet", "top", "reading", "data.enter", "cleanup", "ended"}
             \union DialPcs \union DataPcs

Init ==
  /\ pc = "greet" /\ modem = "command" /\ remoteConn = NoDial /\ held = NoDial
  /\ n = 0 /\ entry = "unknown" /\ cooling = FALSE /\ rings = 0 /\ res = "none"
  /\ outcome = "no_carrier" /\ inFlight = 0
  /\ observed = [d \in Dials |-> "none"]
  /\ dialer = [d \in Dials |-> "idle"]
  /\ sock = [d \in Dials |-> "none"]
  /\ reader = "off" /\ remoteGone = FALSE
  /\ done = FALSE /\ closing = "no"
  /\ client = "up" /\ ahead = FALSE /\ report = "none"

-----------------------------------------------------------------------------
(* sendResult and sendConnect: a terminal that is gone hears nothing, and   *)
(* the error is ignored by every caller but Run.                            *)
Tell(r) == report' = IF client = "up" THEN r ELSE report

GoTo(p) == pc' = p

Shut(d) == [sock EXCEPT ![d] = "closed"]

(* Mutant: forgets the socket without closing it. *)
HangupForgets ==
  /\ remoteConn' = NoDial
  /\ modem' = "command"
  /\ UNCHANGED sock

(* hangup: under remoteMu, close and forget the socket, then command mode.  *)
Hangup ==
  /\ sock' = IF remoteConn = NoDial THEN sock ELSE Shut(remoteConn)
  /\ remoteConn' = NoDial
  /\ modem' = "command"

(* Mutant: returns without the deferred finish. *)
EndDialUncounted(o, r) ==
  /\ outcome' = o
  /\ Tell(r)
  /\ GoTo("top")

(* The exits of handleDial and gatedConnect: classify the dial, say why and *)
(* leave; the deferred t.finish() is the step Finish.                       *)
EndDial(o, r) ==
  /\ outcome' = o
  /\ Tell(r)
  /\ GoTo("finish")

Resolved(d) == dialer[d] \in {"answered", "refused", "failed"}

(* res = <-ch: the answer leaves the channel. *)
Receive(d) ==
  /\ res' = IF dialer[d] = "answered" THEN "ok" ELSE dialer[d]
  /\ dialer' = [dialer EXCEPT ![d] = "taken"]

-----------------------------------------------------------------------------
(* Run and commandLoop *)

(* Run up to the first OK: any failed write ends the session. *)
Greet ==
  /\ pc = "greet"
  /\ Tell("OK")
  /\ GoTo(IF client = "up" THEN "top" ELSE "cleanup")
  /\ UNCHANGED <<modem, remoteConn, held, callVars, statVars, netVars, dataVars,
                 stopVars, client, ahead>>

LoopTop ==
  /\ pc = "top"
  /\ GoTo(IF done THEN "cleanup" ELSE IF modem = "command" THEN "reading" ELSE "data.enter")
  /\ UNCHANGED <<modem, remoteConn, held, callVars, statVars, netVars, dataVars,
                 stopVars, termVars>>

(* readLine fails: the terminal is gone, the deadline passed, or the line   *)
(* is too long.                                                             *)
ReadFails ==
  /\ pc = "reading"
  /\ GoTo("cleanup")
  /\ UNCHANGED <<modem, remoteConn, held, callVars, statVars, netVars, dataVars,
                 stopVars, termVars>>

(* A line is read from the terminal or from what is already buffered, and   *)
(* more may have arrived behind it in the same segment.                     *)
TakeLine ==
  /\ client = "up" \/ ahead
  /\ ahead' \in IF client = "up" THEN BOOLEAN ELSE {FALSE}
  /\ UNCHANGED client

(* Lines that neither dial nor change the connection state. *)
OtherCommand ==
  /\ pc = "reading" /\ TakeLine
  /\ \/ UNCHANGED report
     \/ Tell("OK")
     \/ Tell("ERROR")
  /\ GoTo("top")
  /\ UNCHANGED <<modem, remoteConn, held, callVars, statVars, netVars, dataVars, stopVars>>

(* ATH: CmdHangup sets the modem state and leaves remoteConn alone. *)
CommandATH ==
  /\ pc = "reading" /\ TakeLine
  /\ modem' = "command"
  /\ Tell("OK")
  /\ GoTo("top")
  /\ UNCHANGED <<remoteConn, held, callVars, statVars, netVars, dataVars, stopVars>>

CommandATO ==
  /\ pc = "reading" /\ TakeLine
  /\ IF remoteConn # NoDial
     THEN modem' = "data" /\ Tell("CONNECT")
     ELSE UNCHANGED modem /\ Tell("NO CARRIER")
  /\ GoTo("top")
  /\ UNCHANGED <<remoteConn, held, callVars, statVars, netVars, dataVars, stopVars>>

(* handleDial up to the dial tone: too soon after the last dial is an error. *)
CommandATDT(k) ==
  /\ pc = "reading" /\ TakeLine
  /\ n < MaxDials
  /\ n' = n + 1
  /\ entry' = k
  /\ inFlight' = inFlight + 1
  /\ IF cooling
     THEN EndDial("blocked", "ERROR") /\ UNCHANGED cooling
     ELSE /\ outcome' = "no_carrier"
          /\ cooling' = TRUE
          /\ GoTo("tone")
          /\ UNCHANGED report
  /\ UNCHANGED <<modem, remoteConn, held, rings, res, observed, netVars, dataVars, stopVars>>

(* Three seconds pass with the caller at the command prompt. *)
CooldownEnds ==
  /\ pc = "reading" /\ cooling
  /\ cooling' = FALSE
  /\ UNCHANGED <<sessVars, n, entry, rings, res, outcome, statVars, netVars, dataVars,
                 stopVars, termVars>>

-----------------------------------------------------------------------------
(* handleDial *)

StartDialling == dialer' = [dialer EXCEPT ![n] = "dialing"]

(* The number is unknown: intercept announcement. *)
LookupFails ==
  /\ pc = "tone" /\ entry = "unknown"
  /\ EndDial("unknown_number", "NO CARRIER")
  /\ UNCHANGED <<modem, remoteConn, held, n, entry, cooling, rings, res, statVars, netVars,
                 dataVars, stopVars, client, ahead>>

(* The entry is marked busy: settled before settings, password or call. *)
LookupBusy ==
  /\ pc = "tone" /\ entry = "busy"
  /\ EndDial("busy", "BUSY")
  /\ UNCHANGED <<modem, remoteConn, held, n, entry, cooling, rings, res, statVars, netVars,
                 dataVars, stopVars, client, ahead>>

(* checkRequiredSettings says no: one to three RINGs, garbage, NO CARRIER. *)
LookupMismatch ==
  /\ pc = "tone" /\ entry \in {"open", "gated"}
  /\ outcome' = "settings_mismatch"
  /\ rings' \in 1..3
  /\ GoTo("mismatch.ring")
  /\ UNCHANGED <<modem, remoteConn, held, n, entry, cooling, res, statVars, netVars,
                 dataVars, stopVars, termVars>>

(* Mutant: places the call before the password is asked. *)
LookupGatedEarly ==
  /\ pc = "tone" /\ entry = "gated"
  /\ rings' \in 1..3
  /\ StartDialling
  /\ GoTo("gate.ring")
  /\ UNCHANGED <<modem, remoteConn, held, n, entry, cooling, res, outcome, statVars, sock,
                 dataVars, stopVars, termVars>>

LookupGated ==
  /\ pc = "tone" /\ entry = "gated"
  /\ rings' \in 1..3
  /\ GoTo("gate.ring")
  /\ UNCHANGED <<modem, remoteConn, held, n, entry, cooling, res, outcome, statVars, netVars,
                 dataVars, stopVars, termVars>>

(* An ordinary entry: start the background dialler and let the call route. *)
LookupOpen ==
  /\ pc = "tone" /\ entry = "open"
  /\ StartDialling
  /\ GoTo("setup")
  /\ UNCHANGED <<modem, remoteConn, held, callVars, statVars, sock, dataVars, stopVars, termVars>>

SendRing ==
  /\ pc \in {"mismatch.ring", "gate.ring", "ring"} /\ rings > 0
  /\ Tell("RING")
  /\ rings' = rings - 1
  /\ UNCHANGED <<sessVars, n, entry, cooling, res, outcome, statVars, netVars, dataVars,
                 stopVars, client, ahead>>

(* sendGarbageConnect: CONNECT and noise, then NO CARRIER. *)
GarbageConnect ==
  /\ pc = "mismatch.ring" /\ rings = 0
  /\ Tell("CONNECT")
  /\ GoTo("mismatch.drop")
  /\ UNCHANGED <<modem, remoteConn, held, callVars, statVars, netVars, dataVars, stopVars,
                 client, ahead>>

GarbageDrop ==
  /\ pc = "mismatch.drop"
  /\ EndDial(outcome, "NO CARRIER")
  /\ UNCHANGED <<modem, remoteConn, held, n, entry, cooling, rings, res, statVars, netVars,
                 dataVars, stopVars, client, ahead>>

(* callSetupPause is over: a refusal already in the channel is BUSY, and    *)
(* nothing has rung; any other answer is kept in res for after the rings.   *)
SetupRefused ==
  /\ pc = "setup" /\ dialer[n] = "refused"
  /\ Receive(n)
  /\ EndDial("busy", "BUSY")
  /\ UNCHANGED <<modem, remoteConn, held, n, entry, cooling, rings, statVars, sock, dataVars,
                 stopVars, client, ahead>>

SetupRings ==
  /\ pc = "setup" /\ dialer[n] # "refused"
  /\ IF Resolved(n) THEN Receive(n) ELSE res' = "none" /\ UNCHANGED dialer
  /\ rings' \in 1..2
  /\ GoTo("ring")
  /\ UNCHANGED <<modem, remoteConn, held, n, entry, cooling, outcome, statVars, sock, dataVars,
                 stopVars, termVars>>

MandatoryRingsOver ==
  /\ pc = "ring" /\ rings = 0
  /\ rings' \in 0..2
  /\ GoTo("extra")
  /\ UNCHANGED <<modem, remoteConn, held, n, entry, cooling, res, outcome, statVars, netVars,
                 dataVars, stopVars, termVars>>

(* Mutant: does not count the extra rings. *)
ExtraRingUncounted ==
  /\ pc = "extra" /\ res = "none" /\ rings > 0
  /\ Tell("RING")
  /\ GoTo("extra.wait")
  /\ UNCHANGED <<modem, remoteConn, held, n, entry, cooling, rings, res, outcome, statVars,
                 netVars, dataVars, stopVars, client, ahead>>

ExtraRing ==
  /\ pc = "extra" /\ res = "none" /\ rings > 0
  /\ Tell("RING")
  /\ rings' = rings - 1
  /\ GoTo("extra.wait")
  /\ UNCHANGED <<modem, remoteConn, held, n, entry, cooling, res, outcome, statVars, netVars,
                 dataVars, stopVars, client, ahead>>

ExtraRingsOver ==
  /\ pc = "extra" /\ (res # "none" \/ rings = 0)
  /\ GoTo(IF res = "none" THEN "await" ELSE "judge")
  /\ UNCHANGED <<modem, remoteConn, held, callVars, statVars, netVars, dataVars, stopVars,
                 termVars>>

(* The select between two extra rings: the timer, or the answer. *)
ExtraRingTimer ==
  /\ pc = "extra.wait"
  /\ GoTo("extra")
  /\ UNCHANGED <<modem, remoteConn, held, callVars, statVars, netVars, dataVars, stopVars,
                 termVars>>

AnswerArrives ==
  /\ pc \in {"extra.wait", "await"} /\ Resolved(n)
  /\ Receive(n)
  /\ GoTo(IF pc = "await" THEN "judge" ELSE "extra")
  /\ UNCHANGED <<modem, remoteConn, held, n, entry, cooling, rings, outcome, statVars, sock,
                 dataVars, stopVars, termVars>>

(* timeout + 5s pass first.  Dial bounds the connect but not the host       *)
(* lookup that dialer.allowed_networks makes before it, so the dialler can  *)
(* still be at work; it is left to itself.                                  *)
SafetyTimeout ==
  /\ pc = "await" /\ dialer[n] = "dialing"
  /\ EndDial("timeout", "NO CARRIER")
  /\ UNCHANGED <<modem, remoteConn, held, n, entry, cooling, rings, res, statVars, netVars,
                 dataVars, stopVars, client, ahead>>

(* Mutant: a refusal that comes after the rings is still reported as busy. *)
JudgeFailedBusy ==
  /\ pc = "judge" /\ res \in {"refused", "failed"}
  /\ EndDial("no_carrier", IF res = "refused" THEN "BUSY" ELSE "NO CARRIER")
  /\ UNCHANGED <<modem, remoteConn, held, n, entry, cooling, rings, res, statVars, netVars,
                 dataVars, stopVars, client, ahead>>

JudgeFailed ==
  /\ pc = "judge" /\ res \in {"refused", "failed"}
  /\ EndDial("no_carrier", "NO CARRIER")
  /\ UNCHANGED <<modem, remoteConn, held, n, entry, cooling, rings, res, statVars, netVars,
                 dataVars, stopVars, client, ahead>>

JudgeAnswered ==
  /\ pc = "judge" /\ res = "ok"
  /\ remoteConn' = n
  /\ GoTo("shake")
  /\ UNCHANGED <<modem, held, callVars, statVars, netVars, dataVars, stopVars, termVars>>

HandshakeOver ==
  /\ pc = "shake"
  /\ modem' = "data"
  /\ EndDial("success", "CONNECT")
  /\ UNCHANGED <<remoteConn, held, n, entry, cooling, rings, res, statVars, netVars, dataVars,
                 stopVars, client, ahead>>

(* Mutant: the gauge is not taken down. *)
ObserveLeaks ==
  /\ UNCHANGED inFlight
  /\ observed' = [observed EXCEPT ![n] = outcome]

(* The deferred t.finish(): exactly one observation, whatever the exit. *)
Observe ==
  /\ inFlight' = inFlight - 1
  /\ observed' = [observed EXCEPT ![n] = outcome]

Finish ==
  /\ pc = "finish"
  /\ Observe
  /\ rings' = 0 /\ res' = "none"
  /\ GoTo("top")
  /\ UNCHANGED <<modem, remoteConn, held, n, entry, cooling, outcome, netVars, dataVars,
                 stopVars, termVars>>

-----------------------------------------------------------------------------
(* gatedConnect *)

GateConnect ==
  /\ pc = "gate.ring" /\ rings = 0
  /\ Tell("CONNECT")
  /\ GoTo("gate.prompt")
  /\ UNCHANGED <<modem, remoteConn, held, callVars, statVars, netVars, dataVars, stopVars,
                 client, ahead>>

(* promptPassword is false: the prompt could not be written, the read       *)
(* failed, or the line was not the password.  Each tells NO CARRIER, but    *)
(* the first, which only happens to a terminal that is gone.                *)
GateRejects ==
  /\ pc = "gate.prompt"
  /\ EndDial("auth_failed", "NO CARRIER")
  /\ ahead' \in {ahead, FALSE}
  /\ UNCHANGED <<modem, remoteConn, held, n, entry, cooling, rings, res, statVars, netVars,
                 dataVars, stopVars, client>>

(* The password is right, typed now or already buffered; only then Dial. *)
GateAccepts ==
  /\ pc = "gate.prompt" /\ TakeLine
  /\ StartDialling
  /\ GoTo("gate.dial")
  /\ UNCHANGED <<modem, remoteConn, held, callVars, statVars, sock, dataVars, stopVars, report>>

(* Dial is called in the session goroutine here, so there is nothing to wait *)
(* on but its return.                                                        *)
GateDialFails ==
  /\ pc = "gate.dial" /\ dialer[n] \in {"refused", "failed"}
  /\ dialer' = [dialer EXCEPT ![n] = "taken"]
  /\ EndDial("no_carrier", "NO CARRIER")
  /\ UNCHANGED <<modem, remoteConn, held, n, entry, cooling, rings, res, statVars, sock,
                 dataVars, stopVars, client, ahead>>

(* No second CONNECT. *)
GateDialAnswers ==
  /\ pc = "gate.dial" /\ dialer[n] = "answered"
  /\ dialer' = [dialer EXCEPT ![n] = "taken"]
  /\ remoteConn' = n
  /\ modem' = "data"
  /\ outcome' = "success"
  /\ GoTo("finish")
  /\ UNCHANGED <<held, n, entry, cooling, rings, res, statVars, sock, dataVars, stopVars,
                 termVars>>

-----------------------------------------------------------------------------
(* dataLoop *)

DataEnterDead ==
  /\ pc = "data.enter" /\ remoteConn = NoDial
  /\ modem' = "command"
  /\ Tell("NO CARRIER")
  /\ GoTo("top")
  /\ UNCHANGED <<remoteConn, held, callVars, statVars, netVars, dataVars, stopVars, client, ahead>>

DataEnter ==
  /\ pc = "data.enter" /\ remoteConn # NoDial
  /\ held' = remoteConn
  /\ reader' = "reading" /\ remoteGone' = FALSE
  /\ GoTo("data")
  /\ UNCHANGED <<modem, remoteConn, callVars, statVars, netVars, stopVars, termVars>>

(* The three arms of the select at the loop's head; with both channels      *)
(* closed Go takes either.                                                  *)
DataRemoteGone ==
  /\ pc = "data" /\ remoteGone
  /\ Hangup
  /\ Tell("NO CARRIER")
  /\ GoTo("data.exit")
  /\ UNCHANGED <<held, callVars, statVars, dialer, dataVars, stopVars, client, ahead>>

DataDone ==
  /\ pc = "data" /\ done
  /\ GoTo("data.exit")
  /\ UNCHANGED <<modem, remoteConn, held, callVars, statVars, netVars, dataVars, stopVars,
                 termVars>>

DataPoll ==
  /\ pc = "data" /\ ~remoteGone /\ ~done
  /\ GoTo("data.read")
  /\ UNCHANGED <<modem, remoteConn, held, callVars, statVars, netVars, dataVars, stopVars,
                 termVars>>

(* Bytes reached the board, or the 100 ms read deadline passed with nothing *)
(* (or only withheld escape characters) to send.                            *)
DataPumps ==
  /\ pc = "data.read"
  /\ client = "up"
  /\ GoTo("data")
  /\ UNCHANGED <<modem, remoteConn, held, callVars, statVars, netVars, dataVars, stopVars,
                 termVars>>

(* remote.Write fails: the board hung up or Close shut the socket. *)
DataWriteFails ==
  /\ pc = "data.read" /\ client = "up"
  /\ sock[held] \in {"eof", "closed"}
  /\ Hangup
  /\ Tell("NO CARRIER")
  /\ GoTo("data.exit")
  /\ UNCHANGED <<held, callVars, statVars, dialer, dataVars, stopVars, client, ahead>>

(* +++ between guard times: command mode, and the call is meant to stay up. *)
DataEscape ==
  /\ pc = "data.read" /\ client = "up"
  /\ modem' = "command"
  /\ Tell("OK")
  /\ GoTo("data.exit")
  /\ UNCHANGED <<remoteConn, held, callVars, statVars, netVars, dataVars, stopVars, client, ahead>>

(* Mutant: leaves the loop without hanging up. *)
DataClientGoneStays ==
  /\ pc = "data.read" /\ client = "gone"
  /\ GoTo("data.exit")
  /\ UNCHANGED <<modem, remoteConn, held, callVars, statVars, netVars, dataVars, stopVars,
                 termVars>>

(* Reading the terminal fails for good. *)
DataClientGone ==
  /\ pc = "data.read" /\ client = "gone"
  /\ Hangup
  /\ GoTo("data.exit")
  /\ UNCHANGED <<held, callVars, statVars, dialer, dataVars, stopVars, termVars>>

(* Mutant: the socket is left open for a later ATO. *)
DataKeepRemote ==
  /\ pc = "data.exit"
  /\ reader' = "off"
  /\ GoTo("data.wait")
  /\ UNCHANGED <<modem, remoteConn, held, callVars, statVars, netVars, remoteGone, stopVars,
                 termVars>>

(* dataLoop's deferred function: close the socket, then join the reader. *)
DataCloseRemote ==
  /\ pc = "data.exit"
  /\ sock' = Shut(held)
  /\ GoTo("data.wait")
  /\ UNCHANGED <<modem, remoteConn, held, callVars, statVars, dialer, dataVars, stopVars, termVars>>

DataJoinReader ==
  /\ pc = "data.wait" /\ reader = "off"
  /\ held' = NoDial
  /\ remoteGone' = FALSE
  /\ GoTo("top")
  /\ UNCHANGED <<modem, remoteConn, callVars, statVars, netVars, reader, stopVars, termVars>>

(* Mutant: closes the terminal only. *)
CleanupKeepsCall ==
  /\ pc = "cleanup"
  /\ client' = "gone"
  /\ GoTo("ended")
  /\ UNCHANGED <<modem, remoteConn, held, callVars, statVars, netVars, dataVars, stopVars,
                 ahead, report>>

(* cleanup, deferred by Run. *)
Cleanup ==
  /\ pc = "cleanup"
  /\ Hangup
  /\ client' = "gone"
  /\ GoTo("ended")
  /\ UNCHANGED <<held, callVars, statVars, dialer, dataVars, stopVars, ahead, report>>

-----------------------------------------------------------------------------
(* The other goroutines and the environment *)

(* The remote reader: a chunk is read, then written to the terminal.        *)
ReaderReads ==
  /\ reader = "reading" /\ sock[held] = "open"
  /\ reader' = "holding"
  /\ UNCHANGED <<sessVars, callVars, statVars, netVars, remoteGone, stopVars, termVars>>

ReaderForwards ==
  /\ reader = "holding" /\ client = "up"
  /\ reader' = "reading"
  /\ UNCHANGED <<sessVars, callVars, statVars, netVars, remoteGone, stopVars, termVars>>

(* Mutant: does not tell dataLoop. *)
ReaderStopsSilently ==
  /\ \/ reader \in {"reading", "holding"} /\ sock[held] \in {"eof", "closed"}
     \/ reader = "holding" /\ client = "gone"
  /\ reader' = "off"
  /\ UNCHANGED <<sessVars, callVars, statVars, netVars, remoteGone, stopVars, termVars>>

(* The read fails (end of file, or our end was closed), or a write does: of  *)
(* the chunk to the terminal, or of a telnet answer to the board.            *)
ReaderStops ==
  /\ \/ reader \in {"reading", "holding"} /\ sock[held] \in {"eof", "closed"}
     \/ reader = "holding" /\ client = "gone"
  /\ reader' = "off"
  /\ remoteGone' = TRUE
  /\ UNCHANGED <<sessVars, callVars, statVars, netVars, stopVars, termVars>>

(* d.Dial returns in whichever goroutine called it. *)
DialReturns(d) ==
  /\ dialer[d] = "dialing"
  /\ \/ dialer' = [dialer EXCEPT ![d] = "answered"] /\ sock' = [sock EXCEPT ![d] = "open"]
     \/ dialer' = [dialer EXCEPT ![d] = "refused"] /\ UNCHANGED sock
     \/ dialer' = [dialer EXCEPT ![d] = "failed"] /\ UNCHANGED sock
  /\ UNCHANGED <<sessVars, callVars, statVars, dataVars, stopVars, termVars>>

BoardHangsUp(d) ==
  /\ sock[d] = "open"
  /\ sock' = [sock EXCEPT ![d] = "eof"]
  /\ UNCHANGED <<sessVars, callVars, statVars, dialer, dataVars, stopVars, termVars>>

(* The terminal disconnects, or stops reading for clientWriteTimeout. *)
ClientLeaves ==
  /\ client = "up"
  /\ client' = "gone"
  /\ UNCHANGED <<sessVars, callVars, statVars, netVars, dataVars, stopVars, ahead, report>>

(* Close, called by Server.Stop: close(done), then conn.Close, then hangup. *)
CloseDone ==
  /\ closing = "no"
  /\ done' = TRUE /\ closing' = "conn"
  /\ UNCHANGED <<sessVars, callVars, statVars, netVars, dataVars, termVars>>

CloseConn ==
  /\ closing = "conn"
  /\ client' = "gone" /\ closing' = "hangup"
  /\ UNCHANGED <<sessVars, callVars, statVars, netVars, dataVars, done, ahead, report>>

CloseHangup ==
  /\ closing = "hangup"
  /\ Hangup
  /\ closing' = "yes"
  /\ UNCHANGED <<pc, held, callVars, statVars, dialer, dataVars, done, termVars>>

Rest ==
  /\ pc = "ended" /\ closing \in {"no", "yes"} /\ \A d \in Dials : dialer[d] # "dialing"
  /\ UNCHANGED vars

-----------------------------------------------------------------------------

CommandLoop == Greet \/ LoopTop \/ ReadFails \/ Cleanup

Command == OtherCommand \/ CommandATH \/ CommandATO \/ (\E k \in Numbers : CommandATDT(k))

HandleDial ==
  \/ LookupFails \/ LookupBusy \/ LookupMismatch \/ LookupGated \/ LookupOpen
  \/ SendRing \/ GarbageConnect \/ GarbageDrop
  \/ SetupRefused \/ SetupRings \/ MandatoryRingsOver
  \/ ExtraRing \/ ExtraRingsOver \/ ExtraRingTimer \/ AnswerArrives
  \/ SafetyTimeout \/ JudgeFailed \/ JudgeAnswered \/ HandshakeOver \/ Finish
  \/ GateConnect \/ GateRejects \/ GateAccepts \/ GateDialFails \/ GateDialAnswers

DataLoop ==
  \/ DataEnterDead \/ DataEnter \/ DataRemoteGone \/ DataDone \/ DataPoll
  \/ DataPumps \/ DataWriteFails \/ DataEscape \/ DataClientGone
  \/ DataCloseRemote \/ DataJoinReader

Reader == ReaderReads \/ ReaderForwards \/ ReaderStops

Close == CloseDone \/ CloseConn \/ CloseHangup

Next ==
  \/ CommandLoop \/ Command \/ CooldownEnds \/ HandleDial \/ DataLoop
  \/ Reader
  \/ (\E d \in Dials : DialReturns(d) \/ BoardHangsUp(d))
  \/ ClientLeaves \/ Close \/ Rest

Spec == Init /\ [][Next]_vars

(* The scheduler runs every goroutine that can run; reads and dials come    *)
(* back because each carries a deadline.  The terminal and the boards owe   *)
(* nothing: no fairness on Command, DataPumps, ClientLeaves or hang-ups.    *)
FairSpec ==
  /\ Spec
  /\ WF_vars(CommandLoop)
  /\ WF_vars(HandleDial)
  /\ WF_vars(DataLoop)
  /\ WF_vars(ReaderForwards \/ ReaderStops)
  /\ WF_vars(CloseConn) /\ WF_vars(CloseHangup)
  /\ \A d \in Dials : WF_vars(DialReturns(d))

-----------------------------------------------------------------------------
(* Properties *)

TypeOK ==
  /\ pc \in Pcs /\ modem \in {"command", "data"}
  /\ remoteConn \in {NoDial} \union Dials /\ held \in {NoDial} \union Dials
  /\ n \in 0..MaxDials /\ entry \in Numbers /\ cooling \in BOOLEAN
  /\ rings \in 0..3 /\ res \in {"none", "ok", "refused", "failed"}
  /\ outcome \in Outcomes /\ inFlight \in {0, 1}
  /\ observed \in [Dials -> Outcomes \union {"none"}]
  /\ dialer \in [Dials -> {"idle", "dialing", "answered", "refused", "failed", "taken"}]
  /\ sock \in [Dials -> {"none", "open", "eof", "closed"}]
  /\ reader \in {"off", "reading", "holding"} /\ remoteGone \in BOOLEAN
  /\ done \in BOOLEAN /\ closing \in {"no", "conn", "hangup", "yes"}
  /\ client \in {"up", "gone"} /\ ahead \in BOOLEAN /\ report \in Reports

(* What our end of socket d still holds open. *)
Live(d) == sock[d] \in {"open", "eof"}

(* An answer left in the channel of a dial the session no longer waits for: *)
(* after SafetyTimeout nobody receives it, and nobody closes the socket.    *)
Waiting(d) == d = n /\ pc \in {"setup", "ring", "extra", "extra.wait", "await", "gate.dial"}
Unclaimed(d) == dialer[d] = "answered" /\ ~Waiting(d)

(* Every outbound socket that is still open has an owner that will close    *)
(* it: the session (remoteConn), dataLoop (held), the ringing loop that     *)
(* waits for it, or the verdict about to store it.  The one exception is    *)
(* the late answer of a dial that ended in the safety timeout               *)
(* (dial.go:169-179).  Violating it takes a second dial, an escape or a     *)
(* shutdown in the wrong place.                                             *)
NoOrphanCall ==
  \A d \in Dials : Live(d) =>
    \/ d \in {remoteConn, held}
    \/ Waiting(d) /\ dialer[d] = "answered"
    \/ d = n /\ pc \in {"ring", "extra", "judge"} /\ res = "ok"
    \/ Unclaimed(d) /\ observed[d] \in {"timeout", "none"}

(* While the session waits for a command, and once it is over, it holds no  *)
(* open call: whatever ended the last one, dataLoop, hangup or cleanup has  *)
(* closed its socket, whoever else was hanging up at the same time.         *)
IdleHoldsNoCall ==
  pc \in {"reading", "ended"} => \A d \in Dials : Live(d) => Unclaimed(d)

(* The remote reader lives inside dataLoop: no board output is written to   *)
(* the terminal at the command prompt or during a later dial, and no two    *)
(* readers ever share the terminal (session.go:689-693).                    *)
ReaderConfined ==
  reader # "off" => pc \in DataPcs /\ held # NoDial

(* telix_dials_in_flight and telix_dials_total balance at every moment:     *)
(* each ATDT is in flight or counted exactly once, whichever of the exits   *)
(* it took and whatever Close did meanwhile (dial.go:22-29).                *)
DialsBalance ==
  /\ n = inFlight + Cardinality({d \in Dials : observed[d] # "none"})
  /\ inFlight = (IF pc \in DialPcs THEN 1 ELSE 0)

(* The counted outcome agrees with what happened on the network.  A wrong   *)
(* password, a settings mismatch, an unknown number or a dial inside the    *)
(* cooldown never placed a call; success counts a call that was answered    *)
(* and handed to the session; a busy count never opened a socket.           *)
OutcomeIsHonest ==
  \A d \in Dials :
    /\ observed[d] \in {"auth_failed", "settings_mismatch", "unknown_number", "blocked"}
         => dialer[d] = "idle"
    /\ observed[d] = "success" => dialer[d] = "taken" /\ sock[d] # "none"
    /\ observed[d] \in {"busy", "no_carrier"} => sock[d] = "none"

(* Data mode is reached with a socket to talk to, or with the shutdown       *)
(* under way that took it: outside Close, the modem state and remoteConn     *)
(* never disagree when dataLoop is entered.                                  *)
DataModeHasCall ==
  pc \in {"top", "data.enter"} /\ modem = "data" /\ ~done => remoteConn # NoDial

(* Server.Stop's Close ends the session, wherever it finds it. *)
CloseEndsSession == (closing # "no") ~> (pc = "ended" /\ remoteConn = NoDial)

(* A terminal that goes away ends its session, even in the middle of a dial. *)
LostClientEndsSession == (client = "gone") ~> (pc = "ended")

(* A board that hangs up is noticed: the call does not stay in data mode. *)
BoardHangupNoticed ==
  (pc \in {"data", "data.read"} /\ sock[held] = "eof") ~> (pc \notin {"data", "data.read"})

(* Every dial comes to a verdict. *)
DialEnds == (inFlight = 1) ~> (inFlight = 0)

(* "Then use ATH to hang up or ATO to return to data mode" (README.md:788): *)
(* when ATO answers CONNECT, our end of the call is still open.             *)
ResumedCallIsLive ==
  [][pc = "reading" /\ modem' = "data" => Live(remoteConn)]_vars

=============================================================================
