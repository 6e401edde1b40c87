----------------------------- MODULE CommandLine -----------------------------
(***************************************************************************)
(* The modem's command set: what a line parses to (commands.go), what each *)
(* command does to the modem and answers (modem.go, sregisters.go), and    *)
(* what session.go writes to the terminal for a whole line.                *)
(* A line is a record: whether it begins with AT, and the sub-commands     *)
(* written after it.  A sub-command is its type with the numbers in it.    *)
(***************************************************************************)
EXTENDS Naturals, SequencesExt

(* Sub-commands, as typed: n is a register or a code, v a value. *)
Sub(type, n, v) == [type |-> type, n |-> n, v |-> v]
Plain(type) == Sub(type, 0, 0)
Unknown == Plain("unknown")

SpeedCodeMap ==
  [code \in 0 .. 3 \union 6 .. 8 \union 10 .. 12 \union {14} |->
     CASE code = 0 -> 0      [] code = 1 -> 300    [] code = 2 -> 1200   [] code = 3 -> 2400
       [] code = 6 -> 4800   [] code = 7 -> 7200   [] code = 8 -> 9600   [] code = 10 -> 14400
       [] code = 11 -> 19200 [] code = 12 -> 38400 [] code = 14 -> 56000]

PlainTypes == {"Z", "&F", "H", "H1", "E0", "E1", "V0", "V1", "Q0", "Q1", "I", "&V", "O", "CLS"}

(* The command a single sub-command parses to: numbers out of range make it  *)
(* unknown.                                                                 *)
ParseCommand(s) ==
  IF \/ s.type \in PlainTypes
     \/ s.type = "X" /\ s.v \in 0 .. 4
     \/ s.type = "D" /\ s.v = 0                   \* v = 1: a number of other characters
     \/ s.type \in {"S=", "S?"} /\ s.n \in 0 .. 255
     \/ s.type = "&N" /\ s.v \in DOMAIN SpeedCodeMap
     \/ s.type = "&Q" /\ s.v \in {0, 5}
     \/ s.type = "%C" /\ s.v \in {0, 1}
  THEN s ELSE Unknown

(* A line stops at its first unknown command; a dial takes the rest of it.  *)
ParseCommandLine(line) ==
  IF ~line.at THEN <<Unknown>>
  ELSE IF line.subs = <<>> THEN <<Plain("AT")>>
  ELSE LET cmd(i) == ParseCommand(line.subs[i])
           ends == {i \in DOMAIN line.subs : line.subs[i].type = "D" \/ cmd(i) = Unknown}
           last == IF ends = {} THEN Len(line.subs) ELSE CHOOSE i \in ends : \A j \in ends : i <= j
       IN  [i \in 1 .. last |-> cmd(i)]

-----------------------------------------------------------------------------
(* The registers, by number; one that is not there reads as 0. *)
defaultSRegisters ==
  [reg \in 0 .. 10 \union {12} |->
     CASE reg \in {0, 1} -> 0  [] reg = 2 -> 43 [] reg = 3 -> 13 [] reg = 4 -> 10
       [] reg = 5 -> 8         [] reg \in {6, 8} -> 2          [] reg = 7 -> 30
       [] reg = 9 -> 6         [] reg = 10 -> 7  [] reg = 12 -> 50]

registerLimits ==
  [reg \in {0} \union 2 .. 10 \union {12} |->
     CASE reg = 0 -> <<0, 255>>       [] reg = 2 -> <<0, 127>> [] reg \in {3, 4, 5} -> <<1, 31>>
       [] reg \in {6, 8} -> <<0, 10>> [] reg = 7 -> <<1, 60>>  [] reg \in {9, 10} -> <<1, 255>>
       [] reg = 12 -> <<20, 255>>]

Get(regs, reg) == IF reg \in DOMAIN regs THEN regs[reg] ELSE 0

(* Mutant: the limits of single registers are forgotten. *)
Set_Unclamped(regs, reg, value) ==
  [r \in DOMAIN regs \union {reg} |-> IF r = reg THEN value ELSE regs[r]]

Set(regs, reg, value) ==
  LET limit == IF reg \in DOMAIN registerLimits THEN registerLimits[reg] ELSE <<0, 255>>
      clamped == IF value < limit[1] THEN limit[1]
                 ELSE IF value > limit[2] THEN limit[2] ELSE value
  IN  [r \in DOMAIN regs \union {reg} |-> IF r = reg THEN clamped ELSE regs[r]]

Reset(regs) ==
  [r \in DOMAIN regs \union DOMAIN defaultSRegisters |->
     IF r \in DOMAIN defaultSRegisters THEN defaultSRegisters[r] ELSE regs[r]]

GetCR(m) == Get(m.registers, 3)
GetLF(m) == Get(m.registers, 4)
GetEscapeChar(m) == Get(m.registers, 2)

-----------------------------------------------------------------------------
PowerOn ==
  [echo |-> TRUE, verbose |-> TRUE, quiet |-> FALSE, xlevel |-> 4, baud |-> 0,
   errorCorrection |-> 5, compression |-> TRUE, registers |-> defaultSRegisters,
   initSent |-> {}]

(* Everything but the memory of init strings. *)
resetDefaults(m) ==
  [PowerOn EXCEPT !.registers = Reset(m.registers), !.initSent = m.initSent]

(* Text for the terminal: information, or a result in the format of the      *)
(* moment.  A response is a sequence of these.                              *)
Info == [code |-> "info", verbose |-> TRUE, cr |-> 0, lf |-> 0]
formatResult(m, code) ==
  IF m.quiet THEN <<>>
  ELSE << [code |-> code, verbose |-> m.verbose, cr |-> GetCR(m),
           lf |-> IF m.verbose THEN GetLF(m) ELSE 0] >>

(* The modem after one command. *)
Effect(m, cmd) ==
  CASE cmd.type = "Z"  -> [resetDefaults(m) EXCEPT !.initSent = @ \union {"ATZ"}]
    [] cmd.type = "&F" -> [resetDefaults(m) EXCEPT !.initSent = {"AT&F"}]
    [] cmd.type \in {"E0", "E1"} -> [m EXCEPT !.echo = cmd.type = "E1"]
    [] cmd.type \in {"V0", "V1"} -> [m EXCEPT !.verbose = cmd.type = "V1"]
    [] cmd.type \in {"Q0", "Q1"} -> [m EXCEPT !.quiet = cmd.type = "Q1"]
    [] cmd.type = "S=" -> [m EXCEPT !.registers = Set(@, cmd.n, cmd.v)]
    [] cmd.type = "X"  -> [m EXCEPT !.xlevel = cmd.v]
    [] cmd.type = "&N" -> [m EXCEPT !.baud = SpeedCodeMap[cmd.v]]
    [] cmd.type = "&Q" -> [m EXCEPT !.errorCorrection = cmd.v]
    [] cmd.type = "%C" -> [m EXCEPT !.compression = cmd.v = 1]
    [] OTHER           -> m

HasInfo(cmd) == cmd.type \in {"I", "S?", "&V"}

(* What Execute answers: CR and LF are read before the command runs, quiet   *)
(* and verbose after it.                                                    *)
Execute(m, cmd) ==
  LET after == Effect(m, cmd)
      shown == [after EXCEPT !.registers = m.registers]
  IN  [modem |-> after,
       response |-> (IF HasInfo(cmd) THEN <<Info>> ELSE <<>>) \o formatResult(shown, "OK")]

(* Mutant: the result of a command before the last is not taken off. *)
TrimSuffix_Keeps(s, suffix) == s

(* strings.TrimSuffix. *)
TrimSuffix(s, suffix) ==
  IF suffix # <<>> /\ IsSuffix(suffix, s) THEN SubSeq(s, 1, Len(s) - Len(suffix)) ELSE s

-----------------------------------------------------------------------------
(* processCommand: one command after the other, until one that ends the      *)
(* line.  out is what has been written to the terminal, infoOut what is kept *)
(* back, then what the session does next.                                   *)
Progress(m) == [modem |-> m, out |-> <<>>, infoOut |-> <<>>, then |-> "more"]

(* Mutant: the information kept back is dropped. *)
Flushed_Drops(p, text) == [p EXCEPT !.out = @ \o text, !.infoOut = <<>>]

(* The information kept back, followed by more text. *)
Flushed(p, text) == [p EXCEPT !.out = @ \o p.infoOut \o text, !.infoOut = <<>>]

Ended(p, next) == [p EXCEPT !.then = next]

(* What a command has answered is written at once if it is the last; else    *)
(* its result is taken off and the rest is kept back.                       *)
Answered(q, response, isLast) ==
  IF response = <<>> THEN q
  ELSE IF isLast THEN Flushed(q, response)
  ELSE [q EXCEPT !.infoOut = @ \o TrimSuffix(response, formatResult(q.modem, "OK"))]

OneCommand(p, cmd, isLast, hasRemote) ==
  CASE cmd = Unknown -> Ended(Flushed(p, formatResult(p.modem, "ERROR")), "prompt")
    [] cmd.type = "D" -> Ended(Flushed(p, <<>>), "dial")
    [] cmd.type = "CLS" ->
         Flushed(p, <<Info>> \o (IF isLast THEN formatResult(p.modem, "OK") ELSE <<>>))
    [] cmd.type = "O" ->
         IF hasRemote THEN Ended(Flushed(p, formatResult(p.modem, "CONNECT")), "data")
         ELSE Ended(Flushed(p, formatResult(p.modem, "NO CARRIER")), "prompt")
    [] OTHER ->
         LET x == Execute(p.modem, cmd)
         IN  Answered([p EXCEPT !.modem = x.modem], x.response, isLast)

NextCommand(p, cmd, isLast, hasRemote) ==
  IF p.then = "more" THEN OneCommand(p, cmd, isLast, hasRemote) ELSE p

(* After each command of a line; a recursive function, for the proofs.       *)
Processing(m, cmds, hasRemote) ==
  LET at[i \in 0 .. Len(cmds)] ==
        IF i = 0 THEN Progress(m)
        ELSE NextCommand(at[i - 1], cmds[i], i = Len(cmds), hasRemote)
  IN  at

processCommand(m, line, hasRemote) ==
  LET cmds == ParseCommandLine(line)
      end == Processing(m, cmds, hasRemote)[Len(cmds)]
  IN  [end EXCEPT !.then = IF @ = "more" THEN "prompt" ELSE @]
=============================================================================
