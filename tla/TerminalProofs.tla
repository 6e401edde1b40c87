--------------------------- MODULE TerminalProofs ---------------------------
(***************************************************************************)
(* The bytes of a session, proved for every set of lines, chunks, messages *)
(* and entries that the assumptions of Terminal allow: any telnet board    *)
(* and any raw one, any division of the bytes into reads, any escape       *)
(* character and any guard time.                                           *)
(***************************************************************************)
EXTENDS Terminal, TelnetFilterProofs, FiniteSetTheorems

-----------------------------------------------------------------------------
(* The invariants.                                                         *)

(* Every register within its limits: in particular S2, the escape character, *)
(* is never a 255.                                                           *)
WithinLimits(regs) ==
  \A reg \in DOMAIN regs \intersect DOMAIN registerLimits :
    regs[reg] \in registerLimits[reg][1] .. registerLimits[reg][2]

RegisterFiles ==
  {regs \in UNION {[D -> 0 .. 255] : D \in SUBSET (0 .. 255)} : WithinLimits(regs)}

Modems ==
  [echo : BOOLEAN, verbose : BOOLEAN, quiet : BOOLEAN, xlevel : 0 .. 4, baud : Nat,
   errorCorrection : {0, 5}, compression : BOOLEAN, registers : RegisterFiles,
   initSent : SUBSET {"ATZ", "AT&F"}]

Items == DOMAIN Text \union {"CR", "LF", "lateLF"}

PromptTypes ==
  /\ modem \in Modems /\ buffered \in Seq(Items)
  /\ line \in Lines \union Passwords \union {""}
  /\ lateLF \in BOOLEAN /\ presses \in Int

CallTypes ==
  /\ mode \in {"command", "password", "data"} /\ call \in {"none", "open", "dead"}
  /\ entry \in Entries \union {NoEntry}

EscapeTypes ==
  /\ escapeCount \in 0 .. MaxEscapes /\ waited \in BOOLEAN
  /\ sinceEscape \in 0 .. Long /\ sinceInput \in 0 .. Long /\ sinceBulk \in 0 .. BulkQuiet
  /\ typed \in [run : 0 .. 3, silence : 0 .. Long]

UploadTypes ==
  clientFilter \in Filters /\ owed \in Seq(Nat) /\ excused \in {"no", "late", "misjudged"}

DownloadTypes ==
  /\ filter \in Filters /\ wire \in Seq(Byte) /\ due \in Seq(Nat)
  /\ spoken \in {"nothing", "negotiation", "frame"}

(* TypeOK, with the types of the rest. *)
TypeInv == PromptTypes /\ CallTypes /\ EscapeTypes /\ UploadTypes /\ DownloadTypes

(* No call is open while the session reads a line. *)
PromptInv == mode # "data" => call # "open"

(* What the filter has learnt when it has read all that the board has sent. *)
Ready(kind, shown, f) ==
  /\ f \in Filters /\ f.state = "data" /\ f.learnPeer
  /\ IF kind = "raw" THEN ~f.peerNegotiated /\ (shown = "frame" => f.peerLocked)
     ELSE IF shown = "nothing" THEN ~f.peerLocked /\ f.frame[2] # ZDLE
     ELSE f.peerNegotiated

(* What is due to the caller is what the filter will make of the wire. *)
WireInv ==
  InCall => /\ due = Filter(filter, wire).filtered
            /\ Ready(entry[2], spoken, Filter(filter, wire).filter)

(* Characters kept back are those typed last; characters typed after silence *)
(* and not kept back have been given up, and the silence goes on.            *)
EscapeInv ==
  /\ escapeCount > 0 => /\ typed.run = (IF escapeCount < 3 THEN escapeCount ELSE 3)
                        /\ typed.silence >= Guard /\ sinceEscape = sinceInput
  /\ escapeCount = 0 /\ typed.run > 0 /\ typed.silence > Guard =>
       typed.run < 3 /\ sinceInput > Guard

IInv == TypeInv /\ PromptInv /\ WireInv /\ UploadIntact /\ EscapeInv

-----------------------------------------------------------------------------
(* The commands: whatever is typed, the settings stay within their limits. *)

Subs == [type : STRING, n : Nat, v : Nat]

(* The commands that a line can parse to. *)
Commands ==
  {c \in Subs \union {Unknown, Plain("AT")} :
     /\ c.n \in Nat /\ c.v \in Nat
     /\ c.type = "X" => c.v \in 0 .. 4
     /\ c.type = "&Q" => c.v \in {0, 5}
     /\ c.type = "&N" => c.v \in DOMAIN SpeedCodeMap
     /\ c.type = "S=" => c.n \in 0 .. 255}

LEMMA Limits ==
  \A reg \in DOMAIN registerLimits :
    /\ reg \in 0 .. 255
    /\ registerLimits[reg][1] \in 0 .. 255 /\ registerLimits[reg][2] \in 0 .. 255
    /\ registerLimits[reg][1] <= registerLimits[reg][2]
<1>1. DOMAIN registerLimits = {0} \union 2 .. 10 \union {12}
  BY DEF registerLimits
<1>2. /\ registerLimits[0] = <<0, 255>> /\ registerLimits[2] = <<0, 127>>
      /\ registerLimits[3] = <<1, 31>> /\ registerLimits[4] = <<1, 31>>
      /\ registerLimits[5] = <<1, 31>> /\ registerLimits[6] = <<0, 10>>
      /\ registerLimits[7] = <<1, 60>> /\ registerLimits[8] = <<0, 10>>
      /\ registerLimits[9] = <<1, 255>> /\ registerLimits[10] = <<1, 255>>
      /\ registerLimits[12] = <<20, 255>>
  BY DEF registerLimits
<1> HIDE DEF registerLimits
<1>3. SUFFICES ASSUME NEW reg \in {0} \union 2 .. 10 \union {12}
               PROVE  /\ reg \in 0 .. 255
                      /\ registerLimits[reg][1] \in 0 .. 255 /\ registerLimits[reg][2] \in 0 .. 255
                      /\ registerLimits[reg][1] <= registerLimits[reg][2]
  BY <1>1
<1>4. \/ reg = 0 \/ reg = 2 \/ reg = 3 \/ reg = 4 \/ reg = 5 \/ reg = 6 \/ reg = 7
      \/ reg = 8 \/ reg = 9 \/ reg = 10 \/ reg = 12
  OBVIOUS
<1> QED
  BY <1>2, <1>4

LEMMA DefaultsFine == defaultSRegisters \in RegisterFiles
<1>1. defaultSRegisters \in [0 .. 10 \union {12} -> 0 .. 255]
  BY DEF defaultSRegisters
<1>2. WithinLimits(defaultSRegisters)
  BY DEF WithinLimits, defaultSRegisters, registerLimits
<1>3. 0 .. 10 \union {12} \in SUBSET (0 .. 255)
  OBVIOUS
<1> HIDE DEF defaultSRegisters
<1> QED
  BY <1>1, <1>2, <1>3 DEF RegisterFiles

LEMMA RegistersTyped ==
  ASSUME NEW regs \in RegisterFiles
  PROVE  /\ regs = [r \in DOMAIN regs |-> regs[r]] /\ DOMAIN regs \subseteq 0 .. 255
         /\ \A r \in DOMAIN regs : regs[r] \in 0 .. 255
         /\ WithinLimits(regs)
<1>1. PICK D \in SUBSET (0 .. 255) : regs \in [D -> 0 .. 255]
  BY DEF RegisterFiles
<1> QED
  BY <1>1 DEF RegisterFiles

LEMMA RegistersMade ==
  ASSUME NEW regs, regs = [r \in DOMAIN regs |-> regs[r]], DOMAIN regs \subseteq 0 .. 255,
         \A r \in DOMAIN regs : regs[r] \in 0 .. 255, WithinLimits(regs)
  PROVE  regs \in RegisterFiles
<1> DEFINE D == DOMAIN regs
<1>1. D \in SUBSET (0 .. 255) /\ regs \in [D -> 0 .. 255]
  OBVIOUS
<1> HIDE DEF D
<1>2. PICK E \in SUBSET (0 .. 255) : regs \in [E -> 0 .. 255]
  BY <1>1, Zenon
<1> DEFINE Files == {[G -> 0 .. 255] : G \in SUBSET (0 .. 255)}
<1>3. [E -> 0 .. 255] \in Files
  BY Zenon
<1> HIDE DEF Files
<1>4. regs \in UNION Files
  BY <1>2, <1>3, Zenon
<1> QED
  BY <1>4, Zenon DEF RegisterFiles, Files

LEMMA SetKeeps ==
  ASSUME NEW regs \in RegisterFiles, NEW reg \in 0 .. 255, NEW value \in Nat
  PROVE  Set(regs, reg, value) \in RegisterFiles
<1> DEFINE limit == IF reg \in DOMAIN registerLimits THEN registerLimits[reg] ELSE <<0, 255>>
           clamped == IF value < limit[1] THEN limit[1]
                      ELSE IF value > limit[2] THEN limit[2] ELSE value
           s == [r \in DOMAIN regs \union {reg} |-> IF r = reg THEN clamped ELSE regs[r]]
<1>1. /\ limit[1] \in 0 .. 255 /\ limit[2] \in 0 .. 255 /\ limit[1] <= limit[2]
      /\ reg \in DOMAIN registerLimits => limit = registerLimits[reg]
  BY Limits
<1> HIDE DEF limit
<1>2. clamped \in limit[1] .. limit[2] /\ clamped \in 0 .. 255
  BY <1>1
<1>3. Set(regs, reg, value) = s
  BY Zenon DEF Set, limit
<1> HIDE DEF clamped
<1>4. DOMAIN s = DOMAIN regs \union {reg} /\ s = [r \in DOMAIN s |-> s[r]]
  OBVIOUS
<1>5. \A r \in DOMAIN s : s[r] = IF r = reg THEN clamped ELSE regs[r]
  OBVIOUS
<1> HIDE DEF s
<1>6. /\ DOMAIN regs \subseteq 0 .. 255 /\ \A r \in DOMAIN regs : regs[r] \in 0 .. 255
      /\ WithinLimits(regs)
  BY RegistersTyped
<1>7. WithinLimits(s)
  BY <1>1, <1>2, <1>4, <1>5, <1>6 DEF WithinLimits
<1>8. s \in RegisterFiles
  BY <1>2, <1>4, <1>5, <1>6, <1>7, RegistersMade
<1> QED
  BY <1>3, <1>8

LEMMA ResetKeeps ==
  ASSUME NEW regs \in RegisterFiles
  PROVE  Reset(regs) \in RegisterFiles
<1> DEFINE d == defaultSRegisters
           s == [r \in DOMAIN regs \union DOMAIN d |-> IF r \in DOMAIN d THEN d[r] ELSE regs[r]]
<1>1. /\ DOMAIN regs \subseteq 0 .. 255 /\ \A r \in DOMAIN regs : regs[r] \in 0 .. 255
      /\ WithinLimits(regs)
  BY RegistersTyped
<1>2. /\ DOMAIN d \subseteq 0 .. 255 /\ \A r \in DOMAIN d : d[r] \in 0 .. 255
      /\ WithinLimits(d)
  BY RegistersTyped, DefaultsFine
<1>3. Reset(regs) = s
  BY DEF Reset
<1> HIDE DEF d
<1>4. DOMAIN s = DOMAIN regs \union DOMAIN d /\ s = [r \in DOMAIN s |-> s[r]]
  OBVIOUS
<1>5. \A r \in DOMAIN s : s[r] = IF r \in DOMAIN d THEN d[r] ELSE regs[r]
  OBVIOUS
<1> HIDE DEF s
<1>6. WithinLimits(s)
  BY <1>1, <1>2, <1>4, <1>5 DEF WithinLimits
<1>7. s \in RegisterFiles
  BY <1>1, <1>2, <1>4, <1>5, <1>6, RegistersMade
<1> QED
  BY <1>3, <1>7

LEMMA PowerOnFine == PowerOn \in Modems
BY DefaultsFine DEF PowerOn, Modems

LEMMA GetTyped ==
  ASSUME NEW m \in Modems
  PROVE  /\ GetCR(m) \in 0 .. 255 /\ GetLF(m) \in 0 .. 255
         /\ GetEscapeChar(m) \in 0 .. 127
<1>1. m.registers \in RegisterFiles
  BY DEF Modems
<1>2. /\ \A r \in DOMAIN m.registers : m.registers[r] \in 0 .. 255
      /\ WithinLimits(m.registers)
  BY <1>1, RegistersTyped
<1>3. 2 \in DOMAIN registerLimits /\ registerLimits[2] = <<0, 127>>
  BY DEF registerLimits
<1> QED
  BY <1>2, <1>3 DEF GetCR, GetLF, GetEscapeChar, Get, WithinLimits

LEMMA ResetDefaultsTyped ==
  ASSUME NEW m \in Modems
  PROVE  resetDefaults(m) \in Modems
<1>1. Reset(m.registers) \in RegisterFiles /\ m.initSent \in SUBSET {"ATZ", "AT&F"}
  BY ResetKeeps DEF Modems
<1> QED
  BY <1>1, PowerOnFine DEF resetDefaults, Modems

(* What a command changes, by its type. *)
LEMMA EffectCases ==
  ASSUME NEW m, NEW cmd
  PROVE  /\ cmd.type = "Z" =>
              Effect(m, cmd) = [resetDefaults(m) EXCEPT !.initSent = @ \union {"ATZ"}]
         /\ cmd.type = "&F" =>
              Effect(m, cmd) = [resetDefaults(m) EXCEPT !.initSent = {"AT&F"}]
         /\ cmd.type \in {"E0", "E1"} => Effect(m, cmd) = [m EXCEPT !.echo = cmd.type = "E1"]
         /\ cmd.type \in {"V0", "V1"} => Effect(m, cmd) = [m EXCEPT !.verbose = cmd.type = "V1"]
         /\ cmd.type \in {"Q0", "Q1"} => Effect(m, cmd) = [m EXCEPT !.quiet = cmd.type = "Q1"]
         /\ cmd.type = "S=" => Effect(m, cmd) = [m EXCEPT !.registers = Set(@, cmd.n, cmd.v)]
         /\ cmd.type = "X" => Effect(m, cmd) = [m EXCEPT !.xlevel = cmd.v]
         /\ cmd.type = "&N" => Effect(m, cmd) = [m EXCEPT !.baud = SpeedCodeMap[cmd.v]]
         /\ cmd.type = "&Q" => Effect(m, cmd) = [m EXCEPT !.errorCorrection = cmd.v]
         /\ cmd.type = "%C" => Effect(m, cmd) = [m EXCEPT !.compression = cmd.v = 1]
         /\ cmd.type \notin {"Z", "&F", "E0", "E1", "V0", "V1", "Q0", "Q1", "S=", "X",
                             "&N", "&Q", "%C"} => Effect(m, cmd) = m
BY DEF Effect

LEMMA EffectTyped ==
  ASSUME NEW m \in Modems, NEW cmd \in Commands
  PROVE  Effect(m, cmd) \in Modems
<1>1. cmd.v \in Nat /\ cmd.n \in Nat
  BY DEF Commands, Subs
<1>2. CASE cmd.type = "Z"
  BY <1>2, EffectCases, ResetDefaultsTyped DEF Modems
<1>3. CASE cmd.type = "&F"
  BY <1>3, EffectCases, ResetDefaultsTyped DEF Modems
<1>4. CASE cmd.type \in {"E0", "E1"}
  <2> DEFINE on == cmd.type = "E1"
  <2>1. on \in BOOLEAN
    OBVIOUS
  <2>2. Effect(m, cmd) = [m EXCEPT !.echo = on]
    BY <1>4 DEF Effect
  <2> HIDE DEF on
  <2> QED BY <2>1, <2>2 DEF Modems
<1>5. CASE cmd.type \in {"V0", "V1"}
  <2> DEFINE on == cmd.type = "V1"
  <2>1. on \in BOOLEAN
    OBVIOUS
  <2>2. Effect(m, cmd) = [m EXCEPT !.verbose = on]
    BY <1>5 DEF Effect
  <2> HIDE DEF on
  <2> QED BY <2>1, <2>2 DEF Modems
<1>6. CASE cmd.type \in {"Q0", "Q1"}
  <2> DEFINE on == cmd.type = "Q1"
  <2>1. on \in BOOLEAN
    OBVIOUS
  <2>2. Effect(m, cmd) = [m EXCEPT !.quiet = on]
    BY <1>6 DEF Effect
  <2> HIDE DEF on
  <2> QED BY <2>1, <2>2 DEF Modems
<1>7. CASE cmd.type = "S="
  <2>1. Set(m.registers, cmd.n, cmd.v) \in RegisterFiles
    BY <1>1, <1>7, SetKeeps DEF Modems, Commands
  <2> QED BY <1>7, <2>1, EffectCases DEF Modems
<1>8. CASE cmd.type = "X"
  BY <1>8, EffectCases DEF Modems, Commands
<1>9. CASE cmd.type = "&N"
  <2>1. SpeedCodeMap[cmd.v] \in Nat
    BY <1>9 DEF Commands, SpeedCodeMap
  <2> QED BY <1>9, <2>1, EffectCases DEF Modems
<1>10. CASE cmd.type = "&Q"
  BY <1>10, EffectCases DEF Modems, Commands
<1>11. CASE cmd.type = "%C"
  <2> DEFINE on == cmd.v = 1
  <2>1. Effect(m, cmd) = [m EXCEPT !.compression = on] /\ on \in BOOLEAN
    BY <1>11, EffectCases, Zenon
  <2> HIDE DEF on
  <2> QED BY <2>1 DEF Modems
<1>12. CASE cmd.type \notin {"Z", "&F", "E0", "E1", "V0", "V1", "Q0", "Q1", "S=", "X",
                            "&N", "&Q", "%C"}
  BY <1>12, EffectCases
<1> QED
  BY <1>2, <1>3, <1>4, <1>5, <1>6, <1>7, <1>8, <1>9, <1>10, <1>11, <1>12

LEMMA BareCommands ==
  Unknown \in Commands /\ Plain("AT") \in Commands
BY DEF Unknown, Plain, Sub, Commands

LEMMA ParsedOne ==
  ASSUME NEW s \in Subs
  PROVE  ParseCommand(s) \in Commands
<1>1. Unknown \in Commands
  BY BareCommands
<1>2. CASE ParseCommand(s) = Unknown
  BY <1>1, <1>2
<1>3. CASE ParseCommand(s) # Unknown
  <2>1. /\ ParseCommand(s) = s
        /\ \/ s.type \in PlainTypes
           \/ s.type = "X" /\ s.v \in 0 .. 4
           \/ s.type = "D" /\ s.v = 0
           \/ s.type \in {"S=", "S?"} /\ s.n \in 0 .. 255
           \/ s.type = "&N" /\ s.v \in DOMAIN SpeedCodeMap
           \/ s.type = "&Q" /\ s.v \in {0, 5}
           \/ s.type = "%C" /\ s.v \in {0, 1}
    BY <1>3 DEF ParseCommand
  <2> HIDE DEF ParseCommand
  <2> QED BY <2>1 DEF Commands, Subs, PlainTypes
<1> QED
  BY <1>2, <1>3

(* A line parses to at least one command. *)
LEMMA Parsed ==
  ASSUME NEW entered, entered \in [at : BOOLEAN, subs : Seq(Subs)]
  PROVE  LET cmds == ParseCommandLine(entered)
         IN  cmds \in Seq(Commands) /\ Len(cmds) > 0
<1>1. Unknown \in Commands /\ Plain("AT") \in Commands
  BY BareCommands
<1>2. CASE ~entered.at
  BY <1>1, <1>2 DEF ParseCommandLine
<1>3. CASE entered.at /\ entered.subs = <<>>
  BY <1>1, <1>3 DEF ParseCommandLine
<1>4. CASE entered.at /\ entered.subs # <<>>
  <2> DEFINE cmd(i) == ParseCommand(entered.subs[i])
             ends == {i \in DOMAIN entered.subs : entered.subs[i].type = "D" \/ cmd(i) = Unknown}
             last == IF ends = {} THEN Len(entered.subs)
                     ELSE CHOOSE i \in ends : \A j \in ends : i <= j
             cmds == [i \in 1 .. last |-> cmd(i)]
  <2>1. ParseCommandLine(entered) = cmds
    BY <1>4, Zenon DEF ParseCommandLine
  <2>2. entered.subs \in Seq(Subs) /\ Len(entered.subs) \in Nat \ {0}
        /\ DOMAIN entered.subs = 1 .. Len(entered.subs)
    BY <1>4
  <2>3. ends \subseteq 1 .. Len(entered.subs)
    BY <2>2
  <2> HIDE DEF ends
  <2>4. last \in 1 .. Len(entered.subs)
    <3>1. CASE ends = {}
      BY <2>2, <3>1
    <3>2. CASE ends # {}
      <4>1. \E i \in ends : \A j \in ends : i <= j
        <5>1. ends \subseteq Nat
          BY <2>3
        <5> QED BY <3>2, <5>1, Least
      <4> QED BY <2>3, <3>2, <4>1
    <3> QED BY <3>1, <3>2
  <2> HIDE DEF last
  <2>5. \A i \in 1 .. last : cmd(i) \in Commands
    BY <2>2, <2>4, ParsedOne
  <2> HIDE DEF cmd
  <2>6. cmds \in Seq(Commands) /\ Len(cmds) = last
    BY <2>4, <2>5
  <2> QED BY <2>1, <2>2, <2>4, <2>6
<1> QED
  BY <1>2, <1>3, <1>4

(* What is written to the terminal, and how far a line has got. *)
Codes == {"info", "OK", "ERROR", "CONNECT", "NO CARRIER"}
Writings == [code : Codes, verbose : BOOLEAN, cr : Nat, lf : Nat]
Progresses ==
  [modem : Modems, out : Seq(Writings), infoOut : Seq(Writings),
   then : {"more", "prompt", "dial", "data"}]

LEMMA ResultTyped ==
  ASSUME NEW m \in Modems, NEW code \in Codes
  PROVE  formatResult(m, code) \in Seq(Writings)
<1>1. GetCR(m) \in Nat /\ GetLF(m) \in Nat /\ m.verbose \in BOOLEAN
  BY GetTyped DEF Modems
<1> DEFINE lf == IF m.verbose THEN GetLF(m) ELSE 0
           w == [code |-> code, verbose |-> m.verbose, cr |-> GetCR(m), lf |-> lf]
<1>2. formatResult(m, code) = <<>> \/ formatResult(m, code) = <<w>>
  BY DEF formatResult
<1>3. lf \in Nat
  BY <1>1
<1> HIDE DEF lf
<1>4. w \in Writings
  BY <1>1, <1>3 DEF Writings
<1> HIDE DEF w
<1>5. <<>> \in Seq(Writings) /\ <<w>> \in Seq(Writings)
  BY <1>4
<1> QED
  BY <1>2, <1>5, Zenon

LEMMA InfoTyped == Info \in Writings
BY DEF Info, Writings, Codes

LEMMA ExecuteTyped ==
  ASSUME NEW m \in Modems, NEW cmd \in Commands
  PROVE  Execute(m, cmd).modem \in Modems /\ Execute(m, cmd).response \in Seq(Writings)
<1> DEFINE after == Effect(m, cmd)
           shown == [after EXCEPT !.registers = m.registers]
           info == IF HasInfo(cmd) THEN <<Info>> ELSE <<>>
           ok == formatResult(shown, "OK")
<1>1. /\ Execute(m, cmd).modem = after
      /\ Execute(m, cmd).response = info \o ok
  BY DEF Execute
<1>2. after \in Modems
  BY EffectTyped
<1> HIDE DEF after
<1>3. shown \in Modems
  BY <1>2 DEF Modems
<1> HIDE DEF shown
<1>4. ok \in Seq(Writings) /\ info \in Seq(Writings)
  <2>1. "OK" \in Codes /\ <<>> \in Seq(Writings) /\ <<Info>> \in Seq(Writings)
    BY InfoTyped DEF Codes
  <2>2. ok \in Seq(Writings)
    BY <1>3, <2>1, ResultTyped, Zenon
  <2>3. info = <<>> \/ info = <<Info>>
    OBVIOUS
  <2> HIDE DEF ok, info
  <2> QED BY <2>1, <2>2, <2>3, Zenon
<1> HIDE DEF ok, info
<1>5. info \o ok \in Seq(Writings)
  BY <1>4, ConcatProperties
<1> QED
  BY <1>1, <1>2, <1>5

LEMMA TrimSuffixTyped ==
  ASSUME NEW s \in Seq(Writings), NEW suffix \in Seq(Writings)
  PROVE  TrimSuffix(s, suffix) \in Seq(Writings)
<1>1. TrimSuffix(s, suffix) = s \/ TrimSuffix(s, suffix) = SubSeq(s, 1, Len(s) - Len(suffix))
  BY DEF TrimSuffix
<1>2. SubSeq(s, 1, Len(s) - Len(suffix)) \in Seq(Writings)
  <2>1. CASE Len(s) - Len(suffix) < 1
    BY <2>1, SubSeqProperties
  <2>2. CASE Len(s) - Len(suffix) >= 1
    <3> DEFINE n == Len(s) - Len(suffix)
    <3>1. n \in 1 .. Len(s)
      BY <2>2
    <3> HIDE DEF n
    <3> QED BY <3>1, SubSeqProperties DEF n
  <2> QED BY <2>1, <2>2
<1> QED
  BY <1>1, <1>2

LEMMA FlushedTyped ==
  ASSUME NEW p \in Progresses, NEW text \in Seq(Writings)
  PROVE  LET q == Flushed(p, text)
         IN  /\ q \in Progresses /\ q.modem = p.modem /\ q.then = p.then
             /\ q.out = (p.out \o p.infoOut) \o text /\ q.infoOut = <<>>
<1> DEFINE all == (p.out \o p.infoOut) \o text
<1>1. p.out \in Seq(Writings) /\ p.infoOut \in Seq(Writings)
  BY DEF Progresses
<1>2. all \in Seq(Writings)
  BY <1>1, ConcatProperties
<1>3. Flushed(p, text) = [p EXCEPT !.out = all, !.infoOut = <<>>]
  BY Zenon DEF Flushed
<1> HIDE DEF all
<1>4. <<>> \in Seq(Writings)
  OBVIOUS
<1>5. LET q == [p EXCEPT !.out = all, !.infoOut = <<>>]
      IN  /\ q \in Progresses /\ q.modem = p.modem /\ q.then = p.then
          /\ q.out = all /\ q.infoOut = <<>>
  BY <1>2, <1>4 DEF Progresses
<1> QED
  BY <1>3, <1>5, Zenon DEF all

LEMMA EndedTyped ==
  ASSUME NEW p \in Progresses, NEW next \in {"more", "prompt", "dial", "data"}
  PROVE  LET q == Ended(p, next)
         IN  /\ q \in Progresses /\ q.modem = p.modem /\ q.then = next
             /\ q.out = p.out /\ q.infoOut = p.infoOut
BY DEF Ended, Progresses

LEMMA UnknownType == Unknown.type = "unknown"
BY DEF Unknown, Plain, Sub

LEMMA AnsweredTyped ==
  ASSUME NEW q \in Progresses, NEW response \in Seq(Writings), NEW isLast
  PROVE  LET r == Answered(q, response, isLast)
         IN  r \in Progresses /\ r.modem = q.modem /\ r.then = q.then
<1> DEFINE r == Answered(q, response, isLast)
           kept == TrimSuffix(response, formatResult(q.modem, "OK"))
           info == q.infoOut \o kept
<1>1. \/ r = q \/ r = Flushed(q, response) \/ r = [q EXCEPT !.infoOut = info]
  BY DEF Answered
<1>2. q.modem \in Modems /\ q.infoOut \in Seq(Writings)
  BY DEF Progresses
<1>3. kept \in Seq(Writings)
  BY <1>2, ResultTyped, TrimSuffixTyped DEF Codes
<1> HIDE DEF kept
<1>4. info \in Seq(Writings)
  BY <1>2, <1>3, ConcatProperties
<1> HIDE DEF info, r
<1>5. LET e == [q EXCEPT !.infoOut = info]
      IN  e \in Progresses /\ e.modem = q.modem /\ e.then = q.then
  BY <1>4 DEF Progresses
<1>6. LET e == Flushed(q, response)
      IN  e \in Progresses /\ e.modem = q.modem /\ e.then = q.then
  BY FlushedTyped
<1>7. r \in Progresses /\ r.modem = q.modem /\ r.then = q.then
  BY <1>1, <1>5, <1>6, Zenon
<1> QED
  BY <1>7 DEF r

LEMMA OneCommandTyped ==
  ASSUME NEW p \in Progresses, NEW cmd \in Commands, NEW isLast, NEW hasRemote
  PROVE  OneCommand(p, cmd, isLast, hasRemote) \in Progresses
<1> DEFINE next == OneCommand(p, cmd, isLast, hasRemote)
           x == Execute(p.modem, cmd)
           q == [p EXCEPT !.modem = x.modem]
           told == IF isLast THEN formatResult(p.modem, "OK") ELSE <<>>
<1>1. p.modem \in Modems
  BY DEF Progresses
<1>2. x.modem \in Modems /\ x.response \in Seq(Writings)
  BY <1>1, ExecuteTyped
<1>3. /\ formatResult(p.modem, "ERROR") \in Seq(Writings)
      /\ formatResult(p.modem, "CONNECT") \in Seq(Writings)
      /\ formatResult(p.modem, "NO CARRIER") \in Seq(Writings)
      /\ formatResult(p.modem, "OK") \in Seq(Writings)
  BY <1>1, ResultTyped DEF Codes
<1>4. <<>> \in Seq(Writings) /\ <<Info>> \in Seq(Writings)
  BY InfoTyped
<1>5. <<Info>> \o told \in Seq(Writings)
  <2>1. told \in Seq(Writings)
    BY <1>3, <1>4
  <2> HIDE DEF told
  <2> QED BY <1>4, <2>1, ConcatProperties
<1>6. \A text \in Seq(Writings), then \in {"more", "prompt", "dial", "data"} :
        Flushed(p, text) \in Progresses /\ Ended(Flushed(p, text), then) \in Progresses
  BY FlushedTyped, EndedTyped
<1>7. CASE cmd = Unknown
  <2>1. next = Ended(Flushed(p, formatResult(p.modem, "ERROR")), "prompt")
    BY <1>7, UnknownType DEF OneCommand
  <2> QED BY <1>3, <1>6, <2>1
<1>8. CASE cmd # Unknown /\ cmd.type = "D"
  <2>1. next = Ended(Flushed(p, <<>>), "dial")
    BY <1>8, UnknownType DEF OneCommand
  <2> QED BY <1>4, <1>6, <2>1
<1>9. CASE cmd # Unknown /\ cmd.type = "CLS"
  <2>1. next = Flushed(p, <<Info>> \o told)
    BY <1>9, UnknownType DEF OneCommand
  <2> HIDE DEF told, next
  <2>2. next \in Progresses
    BY <1>5, <1>6, <2>1
  <2> QED BY <2>2 DEF next
<1>10. CASE cmd # Unknown /\ cmd.type = "O"
  <2>1. \/ next = Ended(Flushed(p, formatResult(p.modem, "CONNECT")), "data")
        \/ next = Ended(Flushed(p, formatResult(p.modem, "NO CARRIER")), "prompt")
    BY <1>10, UnknownType DEF OneCommand
  <2> QED BY <1>3, <1>6, <2>1
<1>11. CASE cmd # Unknown /\ cmd.type \notin {"D", "CLS", "O"}
  <2>1. next = Answered(q, x.response, isLast)
    BY <1>11, UnknownType DEF OneCommand
  <2> HIDE DEF next, x
  <2>2. q \in Progresses
    BY <1>2 DEF Progresses
  <2> HIDE DEF q
  <2>3. next \in Progresses
    BY <1>2, <2>1, <2>2, AnsweredTyped
  <2> QED BY <2>3 DEF next
<1> QED
  BY <1>7, <1>8, <1>9, <1>10, <1>11

LEMMA NextCommandTyped ==
  ASSUME NEW p \in Progresses, NEW cmd \in Commands, NEW isLast, NEW hasRemote
  PROVE  NextCommand(p, cmd, isLast, hasRemote) \in Progresses
BY OneCommandTyped DEF NextCommand

LEMMA ProgressTyped ==
  ASSUME NEW m \in Modems
  PROVE  Progress(m) \in Progresses
BY DEF Progress, Progresses

(* Processing is what its recursive definition says. *)
LEMMA ProcessingRuns ==
  ASSUME NEW m \in Modems, NEW cmds \in Seq(Commands), NEW hasRemote
  PROVE  LET P == Processing(m, cmds, hasRemote)
         IN  /\ \A i \in 0..Len(cmds) : P[i] \in Progresses
             /\ P[0] = Progress(m)
             /\ \A i \in 1..Len(cmds) :
                  P[i] = NextCommand(P[i - 1], cmds[i], i = Len(cmds), hasRemote)
<1> DEFINE n == Len(cmds)
           s == Progress(m)
           Then(p, i) == NextCommand(p, cmds[i], i = n, hasRemote)
           step == [i \in 1..n |-> [p \in Progresses |-> Then(p, i)]]
           Eq(r) == r = [i \in 0..n |-> IF i = 0 THEN s ELSE Then(r[i - 1], i)]
           F == Processing(m, cmds, hasRemote)
<1>1. s \in Progresses /\ n \in Nat /\ \A i \in 1..n : cmds[i] \in Commands
  BY ProgressTyped
<1>2. F = CHOOSE q : Eq(q)
  BY DEF Processing
<1>3. \A p \in Progresses, i \in 1..n : Then(p, i) \in Progresses
  BY <1>1, NextCommandTyped
<1> HIDE DEF Then, s, n, F
<1>4. Steps(Progresses, n, step)
  BY <1>1, <1>3 DEF Steps
<1>5. PICK r : Solves(Progresses, s, n, step, r)
  <2> HIDE DEF step
  <2> QED BY <1>1, <1>4, Iteration
<1>6. Eq(r)
  <2>1. ASSUME NEW i \in 1..n PROVE r[i] = Then(r[i - 1], i)
    <3>1. r[i] = step[i][r[i - 1]] /\ r[i - 1] \in Progresses
      BY <1>1, <1>5 DEF Solves
    <3> QED BY <3>1
  <2>2. \A i \in 0..n : r[i] = IF i = 0 THEN s ELSE Then(r[i - 1], i)
    BY <1>1, <1>5, <2>1 DEF Solves
  <2> QED BY <1>5, <2>2 DEF Solves
<1>7. Eq(F)
  <2> HIDE DEF Eq
  <2> QED BY <1>2, <1>6
<1> HIDE DEF step
<1>8. F[0] = s /\ \A i \in 1..n : F[i] = Then(F[i - 1], i)
  BY <1>1, <1>7
<1> HIDE DEF Eq
<1>9. \A i \in 1..n : F[i - 1] \in Progresses => F[i] \in Progresses
  BY <1>1, <1>3, <1>8
<1>10. \A i \in 0..n : F[i] \in Progresses
  BY <1>1, <1>8, <1>9, Stays
<1> QED
  BY <1>8, <1>10 DEF F, s, n, Then

(* Whatever is typed, the modem's settings stay within their limits, and the *)
(* line ends with the prompt, a dial or the return to a call.                *)
LEMMA ProcessedTyped ==
  ASSUME NEW m \in Modems, NEW entered, entered \in [at : BOOLEAN, subs : Seq(Subs)], NEW hasRemote
  PROVE  LET p == processCommand(m, entered, hasRemote)
         IN  p \in Progresses /\ p.then # "more"
<1> DEFINE cmds == ParseCommandLine(entered)
           n == Len(cmds)
           end == Processing(m, cmds, hasRemote)[n]
<1>1. cmds \in Seq(Commands)
  BY Parsed
<1> HIDE DEF cmds
<1>2. end \in Progresses
  BY <1>1, ProcessingRuns
<1>3. processCommand(m, entered, hasRemote) = [end EXCEPT !.then = IF @ = "more" THEN "prompt" ELSE @]
  BY Zenon DEF processCommand, cmds
<1> HIDE DEF end
<1> QED
  BY <1>2, <1>3 DEF Progresses

-----------------------------------------------------------------------------
(* A board's messages, seen through the filter.                            *)

LEMMA FilterNone ==
  ASSUME NEW f \in Filters
  PROVE  Filter(f, <<>>) = Taken(f, <<>>, <<>>)
<1>1. <<>> \in Seq(Byte) /\ Len(<<>>) = 0
  OBVIOUS
<1> QED
  BY <1>1, FilteringRuns DEF Filter

LEMMA FilterOne ==
  ASSUME NEW f \in Filters, NEW b \in Byte
  PROVE  /\ Filter(f, <<b>>).filter = FilterByte(f, b).filter
         /\ Filter(f, <<b>>).filtered = FilterByte(f, b).filtered
<1> DEFINE R == Filtering(f, <<b>>)
           s == Taken(f, <<>>, <<>>)
<1>1. <<b>> \in Seq(Byte) /\ Len(<<b>>) = 1 /\ <<b>>[1] = b
  OBVIOUS
<1>2. R[0] = s /\ \A i \in 1..1 : R[i] = Further(R[i - 1], <<b>>[i])
  BY <1>1, FilteringRuns
<1>3. Filter(f, <<b>>) = R[1]
  BY <1>1 DEF Filter
<1> HIDE DEF R, s
<1>4. R[1] = Further(s, b)
  BY <1>1, <1>2
<1>5. s.filter = f /\ s.filtered = <<>>
  BY TakenFields DEF s
<1>6. /\ Further(s, b).filter = FilterByte(f, b).filter
      /\ Further(s, b).filtered = <<>> \o FilterByte(f, b).filtered
  BY <1>5, FurtherFields, Zenon
<1>7. FilterByte(f, b).filtered \in Seq(Byte)
  BY FilterTotal
<1>8. <<>> \o FilterByte(f, b).filtered = FilterByte(f, b).filtered
  BY <1>7, ConcatEmptySeq
<1> QED
  BY <1>3, <1>4, <1>6, <1>8, Zenon

(* A byte more. *)
LEMMA FilterMore ==
  ASSUME NEW f \in Filters, NEW w \in Seq(Byte), NEW b \in Byte
  PROVE  LET t == Filter(f, w)
         IN  /\ Filter(f, w \o <<b>>).filter = FilterByte(t.filter, b).filter
             /\ Filter(f, w \o <<b>>).filtered
                  = t.filtered \o FilterByte(t.filter, b).filtered
<1>1. Filter(f, w).filter \in Filters
  BY FilterTyped DEF Passed
<1>2. <<b>> \in Seq(Byte)
  OBVIOUS
<1>3. /\ Filter(f, w \o <<b>>).filter = Filter(Filter(f, w).filter, <<b>>).filter
      /\ Filter(f, w \o <<b>>).filtered
           = Filter(f, w).filtered \o Filter(Filter(f, w).filter, <<b>>).filtered
  BY <1>2, CutsDoNotMatter, Zenon
<1>4. /\ Filter(Filter(f, w).filter, <<b>>).filter = FilterByte(Filter(f, w).filter, b).filter
      /\ Filter(Filter(f, w).filter, <<b>>).filtered
           = FilterByte(Filter(f, w).filter, b).filtered
  BY <1>1, FilterOne, Zenon
<1> QED
  BY <1>3, <1>4, Zenon

LEMMA Written ==
  ASSUME NEW a \in Byte, NEW b \in Byte, NEW c \in Byte
  PROVE  /\ <<a>> \in Seq(Byte) /\ <<a, b>> \in Seq(Byte) /\ <<a, b, c>> \in Seq(Byte)
         /\ <<a>> \o <<b>> = <<a, b>> /\ <<a, b>> \o <<c>> = <<a, b, c>>
<1>1. <<a>> \in Seq(Byte) /\ <<a, b>> \in Seq(Byte) /\ <<a, b, c>> \in Seq(Byte)
  OBVIOUS
<1>2. Len(<<a>>) = 1 /\ Len(<<b>>) = 1 /\ Len(<<a, b>>) = 2 /\ Len(<<c>>) = 1
      /\ Len(<<a, b, c>>) = 3 /\ <<b>> \in Seq(Byte) /\ <<c>> \in Seq(Byte)
  OBVIOUS
<1>3. <<a>> \o <<b>> = <<a, b>>
  <2> DEFINE s == <<a>> \o <<b>>
  <2>1. s \in Seq(Byte) /\ Len(s) = 2 /\ \A i \in 1..2 : s[i] = IF i <= 1 THEN a ELSE b
    <3>1. s \in Seq(Byte) /\ Len(s) = 1 + 1
          /\ \A i \in 1..(1 + 1) : s[i] = IF i <= 1 THEN <<a>>[i] ELSE <<b>>[i - 1]
      BY <1>1, <1>2, ConcatProperties
    <3> HIDE DEF s
    <3> QED BY <3>1
  <2> HIDE DEF s
  <2>2. \A i \in 1..2 : s[i] = <<a, b>>[i]
    BY <2>1
  <2> QED BY <1>1, <1>2, <2>1, <2>2, SeqEqual DEF s
<1>4. <<a, b>> \o <<c>> = <<a, b, c>>
  <2> DEFINE s == <<a, b>> \o <<c>>
  <2>1. s \in Seq(Byte) /\ Len(s) = 3
        /\ s[1] = a /\ s[2] = b /\ s[3] = c
    <3>1. s \in Seq(Byte) /\ Len(s) = 2 + 1
          /\ \A i \in 1..(2 + 1) : s[i] = IF i <= 2 THEN <<a, b>>[i] ELSE <<c>>[i - 2]
      BY <1>1, <1>2, ConcatProperties
    <3> HIDE DEF s
    <3> QED BY <3>1
  <2> HIDE DEF s
  <2>2. \A i \in 1..3 : s[i] = <<a, b, c>>[i]
    BY <2>1
  <2> QED BY <1>1, <1>2, <2>1, <2>2, SeqEqual DEF s
<1> QED
  BY <1>1, <1>3, <1>4

(* Two bytes, and three. *)
LEMMA FilterTwo ==
  ASSUME NEW f \in Filters, NEW a \in Byte, NEW b \in Byte
  PROVE  LET t == FilterByte(f, a)
             u == FilterByte(t.filter, b)
         IN  /\ t.filter \in Filters
             /\ Filter(f, <<a, b>>).filter = u.filter
             /\ Filter(f, <<a, b>>).filtered = t.filtered \o u.filtered
<1>1. <<a>> \in Seq(Byte) /\ <<a>> \o <<b>> = <<a, b>>
  BY Written
<1>2. FilterByte(f, a).filter \in Filters
  BY FilterTotal
<1>3. /\ Filter(f, <<a>> \o <<b>>).filter = FilterByte(Filter(f, <<a>>).filter, b).filter
      /\ Filter(f, <<a>> \o <<b>>).filtered
           = Filter(f, <<a>>).filtered \o FilterByte(Filter(f, <<a>>).filter, b).filtered
  BY <1>1, FilterMore, Zenon
<1> QED
  BY <1>1, <1>2, <1>3, FilterOne, Zenon

LEMMA FilterThree ==
  ASSUME NEW f \in Filters, NEW a \in Byte, NEW b \in Byte, NEW c \in Byte
  PROVE  LET t == FilterByte(f, a)
             u == FilterByte(t.filter, b)
             v == FilterByte(u.filter, c)
         IN  /\ t.filter \in Filters /\ u.filter \in Filters
             /\ Filter(f, <<a, b, c>>).filter = v.filter
             /\ Filter(f, <<a, b, c>>).filtered = (t.filtered \o u.filtered) \o v.filtered
<1>1. <<a, b>> \in Seq(Byte) /\ <<a, b>> \o <<c>> = <<a, b, c>>
  BY Written
<1>2. FilterByte(f, a).filter \in Filters
  BY FilterTotal
<1>3. FilterByte(FilterByte(f, a).filter, b).filter \in Filters
  BY <1>2, FilterTotal
<1>4. /\ Filter(f, <<a, b>> \o <<c>>).filter = FilterByte(Filter(f, <<a, b>>).filter, c).filter
      /\ Filter(f, <<a, b>> \o <<c>>).filtered
           = Filter(f, <<a, b>>).filtered \o FilterByte(Filter(f, <<a, b>>).filter, c).filtered
  BY <1>1, FilterMore, Zenon
<1> QED
  BY <1>1, <1>2, <1>3, <1>4, FilterTwo, Zenon

LEMMA Learnt ==
  ASSUME NEW f \in Filters, NEW b \in Byte, f.learnPeer
  PROVE  LET g == noteDataByte(f, b)
         IN  /\ g \in Filters /\ g.state = f.state /\ g.learnPeer
             /\ g.peerNegotiated = f.peerNegotiated
             /\ g.peerLocked <=> f.peerLocked \/ (f.frame = <<ZPAD, ZDLE>> /\ b \in ZKinds)
             /\ g.frame = <<f.frame[2], b>>
<1>1. noteDataByte(f, b) =
        [f EXCEPT !.peerLocked = @ \/ (f.frame = <<ZPAD, ZDLE>> /\ b \in ZKinds),
                  !.frame = <<f.frame[2], b>>]
  BY DEF noteDataByte
<1>2. <<f.frame[2], b>> \in Byte \X Byte
  BY DEF Filters
<1>3. (f.frame = <<ZPAD, ZDLE>> /\ b \in ZKinds) \in BOOLEAN
  OBVIOUS
<1> HIDE DEF noteDataByte
<1> QED
  BY <1>1, <1>2, <1>3 DEF Filters

(* A byte of data, as the filter takes it between commands. *)
LEMMA DataByte ==
  ASSUME NEW f \in Filters, NEW b \in Byte, f.state = "data", b # IAC \/ iacIsData(f)
  PROVE  FilterByte(f, b).filter = noteDataByte(f, b) /\ FilterByte(f, b).filtered = <<b>>
<1>1. FilterByte(f, b) = Taken(noteDataByte(f, b), <<b>>, <<>>)
  BY Dispatch DEF InData
<1> QED
  BY <1>1, TakenFields

LEMMA CommandBegins ==
  ASSUME NEW f \in Filters, f.state = "data", ~iacIsData(f)
  PROVE  FilterByte(f, IAC).filter = To(f, "IAC") /\ FilterByte(f, IAC).filtered = <<>>
<1>1. FilterByte(f, IAC) = Taken(To(f, "IAC"), <<>>, <<>>)
  BY Dispatch DEF InData
<1> QED
  BY <1>1, TakenFields

(* To leaves the rest of the filter as it is. *)
LEMMA ToFields ==
  ASSUME NEW f \in Filters, NEW s \in FilterStates
  PROVE  LET g == To(f, s)
         IN  /\ g \in Filters /\ g.state = s /\ g.learnPeer = f.learnPeer
             /\ g.peerNegotiated = f.peerNegotiated /\ g.peerLocked = f.peerLocked
             /\ g.frame = f.frame /\ g.optData = f.optData /\ g.command = f.command
BY DEF To, Filters

LEMMA NegotiatedFields ==
  ASSUME NEW f \in Filters
  PROVE  LET g == Negotiated(f)
         IN  /\ g \in Filters /\ g.learnPeer = f.learnPeer
             /\ g.peerNegotiated <=> f.peerNegotiated \/ ~f.peerLocked
             /\ g.peerLocked = f.peerLocked /\ g.frame = f.frame
BY DEF Negotiated, Filters

LEMMA ReadyForCommand ==
  ASSUME NEW kind, NEW shown, NEW f, Ready(kind, shown, f), kind # "raw"
  PROVE  ~iacIsData(f)
BY DEF Ready, iacIsData

(* A byte of data other than 255, and other than what might begin a frame    *)
(* before the board has negotiated; or any byte of a raw board's file.       *)
LEMMA PlainByte ==
  ASSUME NEW kind, NEW shown, NEW f, Ready(kind, shown, f), NEW b \in Byte,
         kind = "raw" /\ b = IAC => shown = "frame",
         kind # "raw" => b # IAC /\ (shown = "nothing" => b # ZDLE)
  PROVE  Ready(kind, shown, FilterByte(f, b).filter) /\ FilterByte(f, b).filtered = <<b>>
<1>1. f \in Filters /\ f.state = "data" /\ f.learnPeer
  BY DEF Ready
<1>2. b # IAC \/ iacIsData(f)
  BY DEF Ready, iacIsData
<1>3. FilterByte(f, b).filter = noteDataByte(f, b) /\ FilterByte(f, b).filtered = <<b>>
  BY <1>1, <1>2, DataByte
<1> DEFINE g == noteDataByte(f, b)
<1>4. /\ g \in Filters /\ g.state = "data" /\ g.learnPeer
      /\ g.peerNegotiated = f.peerNegotiated
      /\ g.peerLocked <=> f.peerLocked \/ (f.frame = <<ZPAD, ZDLE>> /\ b \in ZKinds)
      /\ g.frame = <<f.frame[2], b>>
  BY <1>1, Learnt
<1> HIDE DEF g
<1>5. f.frame[2] # ZDLE => f.frame # <<ZPAD, ZDLE>>
  OBVIOUS
<1>6. CASE kind = "raw"
  <2>1. ~g.peerNegotiated /\ (shown = "frame" => g.peerLocked)
    BY <1>4, <1>6 DEF Ready
  <2> QED BY <1>3, <1>4, <1>6, <2>1 DEF g, Ready
<1>7. CASE kind # "raw" /\ shown = "nothing"
  <2>1. ~g.peerLocked /\ g.frame[2] # ZDLE
    BY <1>4, <1>5, <1>7 DEF Ready
  <2> QED BY <1>3, <1>4, <1>7, <2>1 DEF g, Ready
<1>8. CASE kind # "raw" /\ shown # "nothing"
  <2>1. g.peerNegotiated
    BY <1>4, <1>8 DEF Ready
  <2> QED BY <1>3, <1>4, <1>8, <2>1 DEF g, Ready
<1> QED
  BY <1>6, <1>7, <1>8

(* The filter after the first byte of a command. *)
LEMMA InCommand ==
  ASSUME NEW kind, NEW shown, NEW f, Ready(kind, shown, f), ~iacIsData(f)
  PROVE  LET g == FilterByte(f, IAC).filter
         IN  /\ g = To(f, "IAC") /\ g \in Filters /\ g.state = "IAC" /\ g.learnPeer
             /\ g.peerNegotiated = f.peerNegotiated /\ g.peerLocked = f.peerLocked
             /\ g.frame = f.frame /\ FilterByte(f, IAC).filtered = <<>>
<1>1. f \in Filters /\ f.state = "data" /\ f.learnPeer
  BY DEF Ready
<1>2. FilterByte(f, IAC).filter = To(f, "IAC") /\ FilterByte(f, IAC).filtered = <<>>
  BY <1>1, CommandBegins
<1>3. "IAC" \in FilterStates
  BY DEF FilterStates
<1> QED
  BY <1>1, <1>2, <1>3, ToFields

(* A doubled 255 is one 255. *)
LEMMA DoubledHeard ==
  ASSUME NEW kind, NEW shown, NEW f, Ready(kind, shown, f), kind # "raw"
  PROVE  /\ Ready(kind, shown, Filter(f, <<IAC, IAC>>).filter)
         /\ Filter(f, <<IAC, IAC>>).filtered = <<IAC>>
<1> DEFINE t == FilterByte(f, IAC)
           u == FilterByte(t.filter, IAC)
           h == noteDataByte(t.filter, IAC)
<1>1. ~iacIsData(f) /\ IAC \in Byte /\ f \in Filters
  BY ReadyForCommand, Bytes DEF Ready
<1>2. /\ t.filter \in Filters /\ t.filter.state = "IAC" /\ t.filter.learnPeer
      /\ t.filter.peerNegotiated = f.peerNegotiated /\ t.filter.peerLocked = f.peerLocked
      /\ t.filter.frame = f.frame /\ t.filtered = <<>>
  BY <1>1, InCommand
<1>3. u.filter = To(h, "data") /\ u.filtered = <<IAC>>
  <2>1. u = InIAC(t.filter, IAC)
    BY <1>2, Dispatch
  <2>2. InIAC(t.filter, IAC) = Taken(To(h, "data"), <<IAC>>, <<>>)
    BY AfterIAC
  <2> QED BY <2>1, <2>2, TakenFields
<1>4. /\ Filter(f, <<IAC, IAC>>).filter = u.filter
      /\ Filter(f, <<IAC, IAC>>).filtered = t.filtered \o u.filtered
  BY <1>1, FilterTwo
<1> HIDE DEF t
<1>5. /\ h \in Filters /\ h.learnPeer /\ h.peerNegotiated = f.peerNegotiated
      /\ h.peerLocked <=> f.peerLocked \/ (f.frame = <<ZPAD, ZDLE>> /\ IAC \in ZKinds)
      /\ h.frame = <<f.frame[2], IAC>>
  BY <1>1, <1>2, Learnt
<1> HIDE DEF h, u
<1>6. LET g == To(h, "data")
      IN  /\ g \in Filters /\ g.state = "data" /\ g.learnPeer
          /\ g.peerNegotiated = f.peerNegotiated
          /\ g.peerLocked = h.peerLocked /\ g.frame = h.frame
  BY <1>5, ToFields DEF FilterStates
<1>7. IAC \notin ZKinds /\ IAC # ZDLE
  BY DEF IAC, ZKinds, ZDLE
<1> DEFINE g == To(h, "data")
<1>8. Ready(kind, shown, g)
  <2> HIDE DEF g
  <2>1. CASE shown = "nothing"
    BY <1>5, <1>6, <1>7, <2>1 DEF Ready, g
  <2>2. CASE shown # "nothing"
    BY <1>5, <1>6, <2>2 DEF Ready, g
  <2> QED BY <2>1, <2>2
<1>9. <<>> \o <<IAC>> = <<IAC>>
  BY <1>1, ConcatEmptySeq
<1> QED
  BY <1>2, <1>3, <1>4, <1>8, <1>9

(* A command of two bytes is taken out. *)
LEMMA OtherHeard ==
  ASSUME NEW kind, NEW shown, NEW f, Ready(kind, shown, f), kind # "raw",
         NEW b \in SE .. SB - 1
  PROVE  /\ Ready(kind, shown, Filter(f, <<IAC, b>>).filter)
         /\ Filter(f, <<IAC, b>>).filtered = <<>>
<1> DEFINE t == FilterByte(f, IAC)
           u == FilterByte(t.filter, b)
<1>1. ~iacIsData(f) /\ IAC \in Byte /\ f \in Filters /\ b \in Byte
  BY ReadyForCommand, Bytes DEF Ready, SE, SB, Byte
<1>2. /\ t.filter \in Filters /\ t.filter.state = "IAC" /\ t.filter.learnPeer
      /\ t.filter.peerNegotiated = f.peerNegotiated /\ t.filter.peerLocked = f.peerLocked
      /\ t.filter.frame = f.frame /\ t.filtered = <<>>
  BY <1>1, InCommand
<1>3. u.filter = To(t.filter, "data") /\ u.filtered = <<>>
  <2>1. b \notin {IAC, WILL, WONT, DO, DONT, SB} /\ ~(b < SE)
    BY DEF SE, SB, IAC, WILL, WONT, DO, DONT
  <2>2. u = InIAC(t.filter, b)
    BY <1>2, Dispatch
  <2>3. InIAC(t.filter, b) = Taken(To(t.filter, "data"), <<>>, <<>>)
    BY <2>1, AfterIAC
  <2> QED BY <2>2, <2>3, TakenFields
<1>4. /\ Filter(f, <<IAC, b>>).filter = u.filter
      /\ Filter(f, <<IAC, b>>).filtered = t.filtered \o u.filtered
  BY <1>1, FilterTwo
<1> HIDE DEF t, u
<1> DEFINE g == To(t.filter, "data")
<1>5. /\ g \in Filters /\ g.state = "data" /\ g.learnPeer
      /\ g.peerNegotiated = f.peerNegotiated
      /\ g.peerLocked = f.peerLocked /\ g.frame = f.frame
  BY <1>2, ToFields DEF FilterStates
<1>6. Ready(kind, shown, g)
  <2> HIDE DEF g
  <2> QED BY <1>5 DEF Ready
<1>7. <<>> \o <<>> = <<>>
  OBVIOUS
<1> QED
  BY <1>2, <1>3, <1>4, <1>6, <1>7

(* Once it has negotiated, a board is ready for whatever follows. *)
LEMMA NegotiatedIsReady ==
  ASSUME NEW kind, NEW shown, NEW f, Ready(kind, shown, f), kind # "raw",
         NEW g \in Filters, g.learnPeer, g.peerNegotiated = f.peerNegotiated,
         g.peerLocked = f.peerLocked, NEW next, next # "nothing"
  PROVE  Ready(kind, next, To(Negotiated(g), "data"))
<1> DEFINE n == Negotiated(g)
<1>1. /\ n \in Filters /\ n.learnPeer
      /\ n.peerNegotiated <=> g.peerNegotiated \/ ~g.peerLocked
  BY NegotiatedFields
<1> HIDE DEF n
<1>2. LET h == To(n, "data")
      IN  h \in Filters /\ h.state = "data" /\ h.learnPeer /\ h.peerNegotiated = n.peerNegotiated
  BY <1>1, ToFields DEF FilterStates
<1>3. f.peerNegotiated \/ ~f.peerLocked
  BY DEF Ready
<1>4. n.peerNegotiated
  BY <1>1, <1>3
<1> QED
  BY <1>2, <1>4 DEF Ready, n

(* An option is answered and taken out; the board has negotiated. *)
LEMMA OptionHeard ==
  ASSUME NEW kind, NEW shown, NEW f, Ready(kind, shown, f), kind # "raw",
         NEW c \in Byte, c \in {WILL, WONT, DO, DONT}, NEW o \in Byte, NEW next, next # "nothing"
  PROVE  /\ Ready(kind, next, Filter(f, <<IAC, c, o>>).filter)
         /\ Filter(f, <<IAC, c, o>>).filtered = <<>>
<1> DEFINE t == FilterByte(f, IAC)
           u == FilterByte(t.filter, c)
           v == FilterByte(u.filter, o)
           k == [To(t.filter, "command") EXCEPT !.command = c]
<1>1. ~iacIsData(f) /\ IAC \in Byte /\ f \in Filters /\ c \in Byte
  BY ReadyForCommand, Bytes DEF Ready
<1>2. /\ t.filter \in Filters /\ t.filter.state = "IAC" /\ t.filter.learnPeer
      /\ t.filter.peerNegotiated = f.peerNegotiated /\ t.filter.peerLocked = f.peerLocked
      /\ t.filter.frame = f.frame /\ t.filtered = <<>>
  BY <1>1, InCommand
<1>3. u.filter = k /\ u.filtered = <<>>
  <2>1. u = InIAC(t.filter, c)
    BY <1>2, Dispatch
  <2>2. InIAC(t.filter, c) = Taken(k, <<>>, <<>>)
    BY AfterIAC
  <2> QED BY <2>1, <2>2, TakenFields
<1>4. /\ Filter(f, <<IAC, c, o>>).filter = v.filter
      /\ Filter(f, <<IAC, c, o>>).filtered = (t.filtered \o u.filtered) \o v.filtered
  <2> HIDE DEF t, u, v
  <2>1. LET t3 == FilterByte(f, IAC)
            u3 == FilterByte(t3.filter, c)
            v3 == FilterByte(u3.filter, o)
        IN  /\ Filter(f, <<IAC, c, o>>).filter = v3.filter
            /\ Filter(f, <<IAC, c, o>>).filtered = (t3.filtered \o u3.filtered) \o v3.filtered
    BY <1>1, FilterThree
  <2> QED BY <2>1, Zenon DEF t, u, v
<1> HIDE DEF t
<1>5. /\ k \in Filters /\ k.state = "command" /\ k.learnPeer
      /\ k.peerNegotiated = f.peerNegotiated /\ k.peerLocked = f.peerLocked
  <2> DEFINE g == To(t.filter, "command")
  <2>1. /\ g \in Filters /\ g.state = "command" /\ g.learnPeer
        /\ g.peerNegotiated = f.peerNegotiated /\ g.peerLocked = f.peerLocked
    BY <1>2, ToFields DEF FilterStates
  <2> HIDE DEF g
  <2>2. [g EXCEPT !.command = c] \in Filters /\ [g EXCEPT !.command = c].state = "command"
        /\ [g EXCEPT !.command = c].learnPeer
        /\ [g EXCEPT !.command = c].peerNegotiated = f.peerNegotiated
        /\ [g EXCEPT !.command = c].peerLocked = f.peerLocked
    BY <1>1, <2>1 DEF Filters
  <2> QED BY <2>2 DEF g
<1> HIDE DEF k
<1>6. v.filter = To(Negotiated(k), "data") /\ v.filtered = <<>>
  <2>1. FilterByte(k, o) = Taken(To(Negotiated(k), "data"), <<>>, respondToOption(k.command, o))
    BY <1>5, Dispatch
  <2> QED BY <1>3, <2>1, TakenFields
<1> HIDE DEF u, v
<1>7. Ready(kind, next, To(Negotiated(k), "data"))
  BY <1>5, NegotiatedIsReady
<1>8. (<<>> \o <<>>) \o <<>> = <<>>
  OBVIOUS
<1> QED
  BY <1>2, <1>3, <1>4, <1>6, <1>7, <1>8

LEMMA OptDataFields ==
  ASSUME NEW f \in Filters, NEW s \in FilterStates, NEW o \in Seq(Byte)
  PROVE  LET g == [To(f, s) EXCEPT !.optData = o]
         IN  /\ g \in Filters /\ g.state = s /\ g.learnPeer = f.learnPeer
             /\ g.peerNegotiated = f.peerNegotiated /\ g.peerLocked = f.peerLocked
             /\ g.optData = o
<1> DEFINE h == To(f, s)
<1>1. /\ h \in Filters /\ h.state = s /\ h.learnPeer = f.learnPeer
      /\ h.peerNegotiated = f.peerNegotiated /\ h.peerLocked = f.peerLocked
  BY ToFields
<1> HIDE DEF h
<1>2. LET g == [h EXCEPT !.optData = o]
      IN  /\ g \in Filters /\ g.state = s /\ g.learnPeer = f.learnPeer
          /\ g.peerNegotiated = f.peerNegotiated /\ g.peerLocked = f.peerLocked
          /\ g.optData = o
  BY <1>1 DEF Filters
<1> QED
  BY <1>2 DEF h

(* The filter in the middle of a subnegotiation of which it has kept j bytes. *)
Midway(f, r, state, j) ==
  /\ r.filter \in Filters /\ r.filter.state = state /\ r.filter.learnPeer
  /\ r.filter.peerNegotiated = f.peerNegotiated /\ r.filter.peerLocked = f.peerLocked
  /\ Len(r.filter.optData) = j /\ r.filtered = <<>>

(* Each step emits nothing. *)
LEMMA Silently ==
  ASSUME NEW r, NEW b, NEW g, NEW back, r.filtered = <<>>,
         FilterByte(r.filter, b) = Taken(g, <<>>, back)
  PROVE  Further(r, b).filter = g /\ Further(r, b).filtered = <<>>
<1>1. FilterByte(r.filter, b).filter = g /\ FilterByte(r.filter, b).filtered = <<>>
  <2>1. Taken(g, <<>>, back).filter = g /\ Taken(g, <<>>, back).filtered = <<>>
    BY TakenFields
  <2> QED BY <2>1, Zenon
<1>2. /\ Further(r, b).filter = FilterByte(r.filter, b).filter
      /\ Further(r, b).filtered = r.filtered \o FilterByte(r.filter, b).filtered
  BY FurtherFields, Zenon
<1>3. <<>> \o <<>> = <<>>
  OBVIOUS
<1> QED
  BY <1>1, <1>2, <1>3, Zenon

LEMMA MidwayStep ==
  ASSUME NEW f \in Filters, NEW r, NEW j \in 0 .. MaxOptData - 1, NEW b \in Byte \ {IAC},
         Midway(f, r, IF j = 0 THEN "SB" ELSE "SBData", j)
  PROVE  Midway(f, Further(r, b), "SBData", j + 1)
<1> DEFINE g == r.filter
           o == Append(g.optData, b)
<1>1. g \in Filters /\ g.optData \in Seq(Byte) /\ r.filtered = <<>> /\ j \in Nat
  BY DEF Midway, Filters
<1>2. o \in Seq(Byte) /\ Len(o) = j + 1
  BY <1>1, AppendProperties DEF Midway
<1> HIDE DEF o
<1>3. CASE j = 0
  <2>1. FilterByte(g, b) = Taken([To(g, "SBData") EXCEPT !.optData = Append(@, b)], <<>>, <<>>)
    BY <1>3, Dispatch DEF Midway
  <2>2. To(g, "SBData").optData = g.optData
    BY <1>1, ToFields DEF FilterStates
  <2>3. [To(g, "SBData") EXCEPT !.optData = Append(@, b)] = [To(g, "SBData") EXCEPT !.optData = o]
    BY <2>2 DEF o
  <2>4. Further(r, b).filter = [To(g, "SBData") EXCEPT !.optData = o] /\ Further(r, b).filtered = <<>>
    BY <1>1, <2>1, <2>3, Silently
  <2> QED
    BY <1>1, <1>2, <2>4, OptDataFields DEF Midway, FilterStates
<1>4. CASE j # 0
  <2>1. FilterByte(g, b) = InSBData(g, b)
    BY <1>4, Dispatch DEF Midway
  <2>2. InSBData(g, b) = Taken([g EXCEPT !.optData = Append(@, b)], <<>>, <<>>)
    <3>1. b # IAC /\ Len(g.optData) < MaxOptData
      BY <1>1, <1>4, MaxOptDataAssumption DEF Midway
    <3> QED BY <3>1 DEF InSBData
  <2>3. [g EXCEPT !.optData = Append(@, b)] = [To(g, "SBData") EXCEPT !.optData = o]
    BY <1>1, <1>4 DEF Midway, o, To, Filters
  <2>4. Further(r, b).filter = [To(g, "SBData") EXCEPT !.optData = o] /\ Further(r, b).filtered = <<>>
    BY <1>1, <2>1, <2>2, <2>3, Silently
  <2> QED
    BY <1>1, <1>2, <2>4, OptDataFields DEF Midway, FilterStates
<1> QED
  BY <1>3, <1>4

(* A subnegotiation within the limit is taken out; the board has negotiated. *)
LEMMA SubnegotiationHeard ==
  ASSUME NEW kind, NEW shown, NEW f, Ready(kind, shown, f), kind # "raw",
         NEW w \in Seq(Byte), Subnegotiation(w), NEW next, next # "nothing"
  PROVE  /\ Ready(kind, next, Filter(f, w).filter)
         /\ Filter(f, w).filtered = <<>>
<1> DEFINE n == Len(w)
           R == Filtering(f, w)
<1>1. ~iacIsData(f) /\ IAC \in Byte /\ f \in Filters
  BY ReadyForCommand, Bytes DEF Ready
<1>2. /\ R[0] = Taken(f, <<>>, <<>>)
      /\ \A i \in 1..n : R[i] = Further(R[i - 1], w[i])
  BY <1>1, FilteringRuns
<1>3. /\ n \in 5 .. MaxOptData + 4 /\ MaxOptData \in Nat /\ n \in Nat
      /\ w[1] = IAC /\ w[2] = SB /\ w[n - 1] = IAC /\ w[n] = SE
      /\ \A i \in 3 .. n - 2 : w[i] \in Byte \ {IAC}
  BY MaxOptDataAssumption DEF Subnegotiation
<1>4. Filter(f, w) = R[n]
  BY DEF Filter
<1> HIDE DEF R, n
<1>5. R[1].filter = To(f, "IAC") /\ R[1].filtered = <<>>
  <2>1. R[0].filter = f /\ R[0].filtered = <<>>
    BY <1>2, TakenFields
  <2>2. R[1] = Further(R[0], IAC)
    BY <1>2, <1>3
  <2>3. FilterByte(f, IAC) = Taken(To(f, "IAC"), <<>>, <<>>)
    BY <1>1, Dispatch DEF InData, Ready
  <2> QED BY <2>1, <2>2, <2>3, Silently
<1>6. Midway(f, R[2], "SB", 0)
  <2> DEFINE g == To(f, "IAC")
  <2>1. /\ g \in Filters /\ g.state = "IAC" /\ g.learnPeer = f.learnPeer
        /\ g.peerNegotiated = f.peerNegotiated /\ g.peerLocked = f.peerLocked
    BY <1>1, ToFields DEF FilterStates
  <2> HIDE DEF g
  <2>2. FilterByte(g, SB) = InIAC(g, SB)
    BY <2>1, Dispatch
  <2>3. InIAC(g, SB) = Taken([To(g, "SB") EXCEPT !.optData = <<>>], <<>>, <<>>)
    BY AfterIAC
  <2>4. R[2] = Further(R[1], SB)
    BY <1>2, <1>3
  <2>5. R[2].filter = [To(g, "SB") EXCEPT !.optData = <<>>] /\ R[2].filtered = <<>>
    BY <1>5, <2>2, <2>3, <2>4, Silently DEF g
  <2>6. <<>> \in Seq(Byte) /\ Len(<<>>) = 0 /\ "SB" \in FilterStates /\ f.learnPeer
    BY DEF FilterStates, Ready
  <2> DEFINE h == [To(g, "SB") EXCEPT !.optData = <<>>]
  <2>7. /\ h \in Filters /\ h.state = "SB" /\ h.learnPeer = g.learnPeer
        /\ h.peerNegotiated = g.peerNegotiated /\ h.peerLocked = g.peerLocked
        /\ h.optData = <<>>
    BY <2>1, <2>6, OptDataFields
  <2> HIDE DEF h
  <2>8. R[2].filter = h /\ R[2].filtered = <<>>
    BY <2>5 DEF h
  <2> QED
    BY <2>1, <2>6, <2>7, <2>8 DEF Midway
<1>7. Midway(f, R[n - 2], "SBData", n - 4)
  <2> DEFINE T == {j \in 0 .. n - 4 : Midway(f, R[j + 2], IF j = 0 THEN "SB" ELSE "SBData", j)}
  <2>1. 0 \in T
    BY <1>3, <1>6
  <2>2. ASSUME NEW j \in 1 .. n - 4, j - 1 \in T PROVE j \in T
    <3>1. Midway(f, R[j + 1], IF j - 1 = 0 THEN "SB" ELSE "SBData", j - 1)
      BY <1>3, <2>2
    <3>2. R[j + 2] = Further(R[j + 1], w[j + 2]) /\ w[j + 2] \in Byte \ {IAC}
      BY <1>2, <1>3
    <3>3. j - 1 \in 0 .. MaxOptData - 1 /\ (j - 1) + 1 = j
      BY <1>3
    <3>4. Midway(f, Further(R[j + 1], w[j + 2]), "SBData", (j - 1) + 1)
      BY <1>1, <3>1, <3>2, <3>3, MidwayStep
    <3> QED BY <3>2, <3>3, <3>4
  <2>3. n - 4 \in Nat
    BY <1>3
  <2>4. \A j \in 0 .. n - 4 : j \in T
    <3> HIDE DEF T
    <3> QED BY <2>1, <2>2, <2>3, Induction
  <2>5. n - 4 \in T /\ (n - 4) + 2 = n - 2 /\ n - 4 # 0
    BY <1>3, <2>4
  <2> QED
    BY <2>5
<1>8. /\ R[n - 1].filter \in Filters /\ R[n - 1].filter.state = "SBIAC"
      /\ R[n - 1].filter.learnPeer /\ R[n - 1].filter.peerNegotiated = f.peerNegotiated
      /\ R[n - 1].filter.peerLocked = f.peerLocked /\ R[n - 1].filtered = <<>>
  <2> DEFINE r == R[n - 2]
             g == r.filter
  <2>1. R[n - 1] = Further(r, IAC)
    BY <1>2, <1>3
  <2>2. FilterByte(g, IAC) = InSBData(g, IAC)
    BY <1>7, Dispatch DEF Midway
  <2>3. InSBData(g, IAC) = Taken(To(g, "SBIAC"), <<>>, <<>>)
    BY DEF InSBData
  <2>4. Midway(f, r, "SBData", n - 4)
    BY <1>7
  <2> HIDE DEF r
  <2>5. R[n - 1].filter = To(g, "SBIAC") /\ R[n - 1].filtered = <<>>
    BY <2>1, <2>2, <2>3, <2>4, Silently DEF Midway
  <2> QED
    BY <2>4, <2>5, ToFields DEF Midway, FilterStates
<1>9. R[n].filter = To(Negotiated(R[n - 1].filter), "data") /\ R[n].filtered = <<>>
  <2> DEFINE r == R[n - 1]
             g == r.filter
  <2>1. R[n] = Further(r, SE)
    BY <1>2, <1>3
  <2>2. FilterByte(g, SE) = InSBIAC(g, SE)
    BY <1>8, Dispatch
  <2>3. InSBIAC(g, SE) = Taken(To(Negotiated(g), "data"), <<>>, handleSubnegotiation(g))
    BY AfterSBIAC
  <2>4. r.filtered = <<>>
    BY <1>8
  <2> HIDE DEF r
  <2> QED BY <2>1, <2>2, <2>3, <2>4, Silently DEF r
<1> QED
  BY <1>1, <1>4, <1>8, <1>9, NegotiatedIsReady

(* A frame header passes, and fixes the verdict on the board. *)
LEMMA HeaderHeard ==
  ASSUME NEW kind, NEW shown, NEW f, Ready(kind, shown, f), kind # "raw" => shown # "nothing",
         NEW c \in ZKinds
  PROVE  /\ Ready(kind, "frame", Filter(f, <<ZPAD, ZDLE, c>>).filter)
         /\ Filter(f, <<ZPAD, ZDLE, c>>).filtered = <<ZPAD, ZDLE, c>>
<1> DEFINE t == FilterByte(f, ZPAD)
           u == FilterByte(t.filter, ZDLE)
           v == FilterByte(u.filter, c)
<1>1. /\ ZPAD \in Byte \ {IAC} /\ ZDLE \in Byte \ {IAC} /\ c \in Byte \ {IAC}
      /\ f \in Filters /\ f.state = "data" /\ f.learnPeer
  BY DEF Ready, ZPAD, ZDLE, ZKinds, Byte, IAC
<1>9. ASSUME NEW g, Ready(kind, shown, g), NEW b \in Byte \ {IAC}
      PROVE  Ready(kind, shown, FilterByte(g, b).filter) /\ FilterByte(g, b).filtered = <<b>>
  <2>1. /\ b \in Byte /\ (kind = "raw" /\ b = IAC => shown = "frame")
        /\ (kind # "raw" => b # IAC /\ (shown = "nothing" => b # ZDLE))
    OBVIOUS
  <2> QED BY <1>9, <2>1, PlainByte
<1>2. Ready(kind, shown, t.filter) /\ t.filtered = <<ZPAD>>
  <2>1. ZPAD \in Byte \ {IAC}
    BY <1>1
  <2> QED BY <2>1, <1>9, Zenon
<1>3. Ready(kind, shown, u.filter) /\ u.filtered = <<ZDLE>>
  <2>1. ZDLE \in Byte \ {IAC} /\ Ready(kind, shown, t.filter)
    BY <1>1, <1>2
  <2> HIDE DEF t
  <2> QED BY <2>1, <1>9, Zenon
<1>4. Ready(kind, shown, v.filter) /\ v.filtered = <<c>>
  <2>1. c \in Byte \ {IAC} /\ Ready(kind, shown, u.filter)
    BY <1>1, <1>3
  <2> HIDE DEF t, u
  <2> QED BY <2>1, <1>9, Zenon
<1>5. /\ Filter(f, <<ZPAD, ZDLE, c>>).filter = v.filter
      /\ Filter(f, <<ZPAD, ZDLE, c>>).filtered = (t.filtered \o u.filtered) \o v.filtered
  <2>1. f \in Filters /\ ZPAD \in Byte /\ ZDLE \in Byte /\ c \in Byte
    BY <1>1
  <2> HIDE DEF t, u, v
  <2>2. LET t3 == FilterByte(f, ZPAD)
            u3 == FilterByte(t3.filter, ZDLE)
            v3 == FilterByte(u3.filter, c)
        IN  /\ Filter(f, <<ZPAD, ZDLE, c>>).filter = v3.filter
            /\ Filter(f, <<ZPAD, ZDLE, c>>).filtered = (t3.filtered \o u3.filtered) \o v3.filtered
    BY <2>1, FilterThree
  <2> QED BY <2>2, Zenon DEF t, u, v
<1>6. v.filter.peerLocked
  <2>1. t.filter = noteDataByte(f, ZPAD)
    BY <1>1, DataByte
  <2>2. t.filter.frame = <<f.frame[2], ZPAD>>
    BY <1>1, <2>1, Learnt
  <2> HIDE DEF t
  <2>3. t.filter \in Filters /\ t.filter.state = "data" /\ t.filter.learnPeer
    BY <1>2 DEF Ready
  <2>4. u.filter = noteDataByte(t.filter, ZDLE)
    BY <1>1, <2>3, DataByte
  <2>5. u.filter.frame = <<ZPAD, ZDLE>>
    <3>1. noteDataByte(t.filter, ZDLE).frame = <<t.filter.frame[2], ZDLE>>
      BY <1>1, <2>3, Learnt
    <3>2. t.filter.frame[2] = ZPAD
      BY <2>2
    <3> QED BY <2>4, <3>1, <3>2
  <2> HIDE DEF u
  <2>6. u.filter \in Filters /\ u.filter.state = "data" /\ u.filter.learnPeer
    BY <1>3 DEF Ready
  <2>7. v.filter = noteDataByte(u.filter, c)
    BY <1>1, <2>6, DataByte
  <2> QED
    BY <1>1, <2>5, <2>6, <2>7, Learnt
<1> HIDE DEF t, u, v
<1>7. Ready(kind, "frame", v.filter)
  BY <1>4, <1>6 DEF Ready
<1>8. (<<ZPAD>> \o <<ZDLE>>) \o <<c>> = <<ZPAD, ZDLE, c>>
  <2>1. \A x, y, z \in Byte :
          <<x>> \o <<y>> = <<x, y>> /\ <<x, y>> \o <<z>> = <<x, y, z>>
    BY Written
  <2>2. ZPAD \in Byte /\ ZDLE \in Byte /\ c \in Byte
    BY <1>1
  <2>3. <<ZPAD>> \o <<ZDLE>> = <<ZPAD, ZDLE>> /\ <<ZPAD, ZDLE>> \o <<c>> = <<ZPAD, ZDLE, c>>
    BY <2>1, <2>2, Zenon
  <2> QED BY <2>3, Zenon
<1> QED
  BY <1>2, <1>3, <1>4, <1>5, <1>7, <1>8

(* A 255 that no command follows passes from a raw board, in a file or not. *)
LEMMA StrayHeard ==
  ASSUME NEW shown, NEW f, Ready("raw", shown, f), NEW b \in 0 .. SE - 1
  PROVE  /\ Ready("raw", shown, Filter(f, <<IAC, b>>).filter)
         /\ Filter(f, <<IAC, b>>).filtered = <<IAC, b>>
<1> DEFINE t == FilterByte(f, IAC)
           u == FilterByte(t.filter, b)
<1>1. /\ b \in Byte \ {IAC} /\ IAC \in Byte /\ <<>> \o <<IAC, b>> = <<IAC, b>>
      /\ <<IAC>> \o <<b>> = <<IAC, b>>
  <2>1. b \in Byte \ {IAC} /\ IAC \in Byte
    BY DEF SE, Byte, IAC
  <2>2. <<IAC, b>> \in Seq(Byte)
    BY <2>1
  <2> QED BY <2>1, <2>2, Written, ConcatEmptySeq
<1>2. f \in Filters /\ f.state = "data" /\ f.learnPeer
  BY DEF Ready
<1>3. /\ Filter(f, <<IAC, b>>).filter = u.filter
      /\ Filter(f, <<IAC, b>>).filtered = t.filtered \o u.filtered
  BY <1>1, <1>2, FilterTwo
<1>4. CASE iacIsData(f)
  <2>1. t.filter = noteDataByte(f, IAC) /\ t.filtered = <<IAC>>
    BY <1>1, <1>2, <1>4, DataByte
  <2>2. Ready("raw", shown, t.filter)
    <3> DEFINE g == noteDataByte(f, IAC)
    <3>1. /\ g \in Filters /\ g.state = "data" /\ g.learnPeer
          /\ g.peerNegotiated = f.peerNegotiated /\ (f.peerLocked => g.peerLocked)
      BY <1>1, <1>2, Learnt
    <3> HIDE DEF g
    <3>2. Ready("raw", shown, g)
      BY <3>1 DEF Ready
    <3> QED BY <2>1, <3>2 DEF g
  <2> HIDE DEF t
  <2>3. Ready("raw", shown, u.filter) /\ u.filtered = <<b>>
    BY <1>1, <2>2, PlainByte
  <2> HIDE DEF u
  <2> QED BY <1>1, <1>3, <2>1, <2>3
<1>5. CASE ~iacIsData(f)
  <2>1. /\ t.filter \in Filters /\ t.filter.state = "IAC" /\ t.filter.learnPeer
        /\ t.filter.peerNegotiated = f.peerNegotiated /\ t.filter.peerLocked = f.peerLocked
        /\ t.filtered = <<>>
    BY <1>5, InCommand
  <2> HIDE DEF t
  <2>2. u = InIAC(t.filter, b)
    BY <2>1, Dispatch
  <2>3. b \notin {IAC, WILL, WONT, DO, DONT, SB} /\ b < SE
    BY DEF SE, SB, IAC, WILL, WONT, DO, DONT
  <2>4. InIAC(t.filter, b) = Taken(To(t.filter, "data"), <<IAC, b>>, <<>>)
    BY <2>3, AfterIAC
  <2>5. u.filter = To(t.filter, "data") /\ u.filtered = <<IAC, b>>
    BY <2>2, <2>4, TakenFields
  <2> HIDE DEF u
  <2>6. Ready("raw", shown, To(t.filter, "data"))
    <3> DEFINE g == To(t.filter, "data")
    <3>1. /\ g \in Filters /\ g.state = "data" /\ g.learnPeer
          /\ g.peerNegotiated = f.peerNegotiated /\ g.peerLocked = f.peerLocked
      BY <2>1, ToFields DEF FilterStates
    <3> HIDE DEF g
    <3>2. Ready("raw", shown, g)
      BY <3>1 DEF Ready
    <3> QED BY <3>2 DEF g
  <2> QED BY <1>1, <1>3, <2>1, <2>5, <2>6
<1> QED
  BY <1>4, <1>5

Shown(shown, m) == IF shown = "frame" \/ m.shows = "nothing" THEN shown ELSE m.shows

(* What the filter makes of a message is its content, and it is ready for    *)
(* the next one, whichever kind of board sends it.                           *)
LEMMA MessageHeard ==
  ASSUME NEW m \in Messages, NEW shown, NEW f, Ready(m.from, shown, f), shown \in m.after
  PROVE  /\ Filter(f, m.wire).filtered = m.content
         /\ Ready(m.from, Shown(shown, m), Filter(f, m.wire).filter)
<1> DEFINE Fine(g, out) == out = m.content /\ Ready(m.from, Shown(shown, m), g)
           w == m.wire
           kind == m.from
<1>1. w \in Seq(Byte) /\ IF kind = "raw" THEN RawMessage(m) ELSE TelnetMessage(m)
  BY MessagesAssumption
<1>2. m.shows = "nothing" => Shown(shown, m) = shown
  BY DEF Shown
<1>3. ASSUME NEW b \in Byte, w = <<b>>, m.content = w, m.shows = "nothing",
             kind = "raw" /\ b = IAC => shown = "frame",
             kind # "raw" => b # IAC /\ (shown = "nothing" => b # ZDLE)
      PROVE  Fine(Filter(f, w).filter, Filter(f, w).filtered)
  <2>1. Ready(kind, shown, FilterByte(f, b).filter) /\ FilterByte(f, b).filtered = <<b>>
    BY <1>3, PlainByte
  <2>2. /\ Filter(f, <<b>>).filter = FilterByte(f, b).filter
        /\ Filter(f, <<b>>).filtered = FilterByte(f, b).filtered
    BY FilterOne DEF Ready
  <2> QED
    BY <1>2, <1>3, <2>1, <2>2
<1>4. ASSUME FrameHeader(w), m.content = w, m.shows = "frame", kind # "raw" => shown # "nothing"
      PROVE  Fine(Filter(f, w).filter, Filter(f, w).filtered)
  <2>1. w = <<ZPAD, ZDLE, w[3]>> /\ w[3] \in ZKinds
    BY <1>1, <1>4 DEF FrameHeader
  <2>2. Ready(kind, "frame", Filter(f, w).filter) /\ Filter(f, w).filtered = w
    <3> DEFINE c == w[3]
    <3>1. /\ Ready(kind, "frame", Filter(f, <<ZPAD, ZDLE, c>>).filter)
          /\ Filter(f, <<ZPAD, ZDLE, c>>).filtered = <<ZPAD, ZDLE, c>>
      BY <1>4, <2>1, HeaderHeard
    <3> HIDE DEF w
    <3> QED BY <2>1, <3>1
  <2>3. Shown(shown, m) = "frame"
    BY <1>4 DEF Shown
  <2> QED
    BY <1>4, <2>2, <2>3
<1>5. CASE kind = "raw"
  <2>1. RawMessage(m)
    BY <1>1, <1>5
  <2>2. ASSUME NEW b \in 0 .. SE - 1, w = <<IAC, b>>, m.content = w, m.shows = "nothing"
        PROVE  Fine(Filter(f, w).filter, Filter(f, w).filtered)
    BY <1>2, <1>5, <2>2, StrayHeard
  <2> QED
    BY <1>3, <1>4, <1>5, <2>1, <2>2 DEF RawMessage
<1>6. CASE kind # "raw"
  <2>1. TelnetMessage(m)
    BY <1>1, <1>6
  <2>2. ASSUME w = <<IAC, IAC>>, m.content = <<IAC>>, m.shows = "nothing"
        PROVE  Fine(Filter(f, w).filter, Filter(f, w).filtered)
    BY <1>2, <1>6, <2>2, DoubledHeard
  <2>3. ASSUME OtherCommand(w), m.content = <<>>, m.shows = "nothing"
        PROVE  Fine(Filter(f, w).filter, Filter(f, w).filtered)
    <3>1. w = <<IAC, w[2]>> /\ w[2] \in SE .. SB - 1
      BY <1>1, <2>3 DEF OtherCommand
    <3> DEFINE c == w[2]
    <3>2. /\ Ready(kind, shown, Filter(f, <<IAC, c>>).filter)
          /\ Filter(f, <<IAC, c>>).filtered = <<>>
      BY <1>6, <3>1, OtherHeard
    <3> QED BY <1>2, <2>3, <3>1, <3>2
  <2>4. m.shows = "negotiation" => Shown(shown, m) # "nothing"
    BY DEF Shown
  <2>5. ASSUME Option(w), m.content = <<>>, m.shows = "negotiation"
        PROVE  Fine(Filter(f, w).filter, Filter(f, w).filtered)
    <3> DEFINE c == w[2]
               o == w[3]
               next == Shown(shown, m)
    <3>1. /\ w = <<IAC, c, o>> /\ c \in Byte /\ c \in {WILL, WONT, DO, DONT} /\ o \in Byte
          /\ next # "nothing"
      BY <1>1, <2>4, <2>5 DEF Option
    <3> HIDE DEF c, o, next, w
    <3>2. /\ Ready(kind, next, Filter(f, <<IAC, c, o>>).filter)
          /\ Filter(f, <<IAC, c, o>>).filtered = <<>>
      BY <1>6, <3>1, OptionHeard
    <3>3. Ready(kind, next, Filter(f, w).filter) /\ Filter(f, w).filtered = m.content
      BY <2>5, <3>1, <3>2, Zenon
    <3> QED BY <3>3, Zenon DEF next
  <2>6. ASSUME Subnegotiation(w), m.content = <<>>, m.shows = "negotiation"
        PROVE  Fine(Filter(f, w).filter, Filter(f, w).filtered)
    <3>1. /\ Ready(kind, Shown(shown, m), Filter(f, w).filter)
          /\ Filter(f, w).filtered = <<>>
      BY <1>1, <1>6, <2>4, <2>6, SubnegotiationHeard
    <3> QED BY <2>6, <3>1
  <2> QED
    BY <1>3, <1>4, <1>6, <2>1, <2>2, <2>3, <2>5, <2>6 DEF TelnetMessage
<1> QED
  BY <1>5, <1>6

-----------------------------------------------------------------------------
(* What the board makes of the bytes written to it.                        *)

Receivers == [iac : BOOLEAN, data : Seq(Byte)]

LEMMA TakeTyped ==
  ASSUME NEW r \in Receivers, NEW b \in Byte
  PROVE  Take(r, b) \in Receivers
<1>1. IAC \in Byte /\ Append(r.data, IAC) \in Seq(Byte) /\ Append(r.data, b) \in Seq(Byte)
  BY Bytes DEF Receivers
<1> QED
  BY <1>1 DEF Take, Receivers

(* Receiving is what its recursive definition says. *)
LEMMA ReceivingRuns ==
  ASSUME NEW d \in Seq(Byte)
  PROVE  /\ \A i \in 0..Len(d) : Receiving(d)[i] \in Receivers
         /\ Receiving(d)[0] = [iac |-> FALSE, data |-> <<>>]
         /\ \A i \in 1..Len(d) : Receiving(d)[i] = Take(Receiving(d)[i - 1], d[i])
<1> DEFINE n == Len(d)
           s == [iac |-> FALSE, data |-> <<>>]
           step == [i \in 1..n |-> [r \in Receivers |-> Take(r, d[i])]]
           Eq(r) == r = [i \in 0..n |-> IF i = 0 THEN s ELSE Take(r[i - 1], d[i])]
           F == Receiving(d)
<1>1. s \in Receivers /\ n \in Nat /\ \A i \in 1..n : d[i] \in Byte
  BY DEF Receivers
<1>2. F = CHOOSE q : Eq(q)
  BY DEF Receiving
<1>3. \A r \in Receivers, i \in 1..n : Take(r, d[i]) \in Receivers
  BY <1>1, TakeTyped
<1> HIDE DEF s, n, F
<1>4. Steps(Receivers, n, step)
  BY <1>1, <1>3 DEF Steps
<1>5. PICK r : Solves(Receivers, s, n, step, r)
  <2> HIDE DEF step
  <2> QED BY <1>1, <1>4, Iteration
<1>6. Eq(r)
  <2>1. ASSUME NEW i \in 1..n PROVE r[i] = Take(r[i - 1], d[i])
    <3>1. r[i] = step[i][r[i - 1]] /\ r[i - 1] \in Receivers
      BY <1>1, <1>5 DEF Solves
    <3> QED BY <3>1
  <2>2. \A i \in 0..n : r[i] = IF i = 0 THEN s ELSE Take(r[i - 1], d[i])
    BY <1>1, <1>5, <2>1 DEF Solves
  <2> QED BY <1>5, <2>2 DEF Solves
<1>7. Eq(F)
  <2> HIDE DEF Eq
  <2> QED BY <1>2, <1>6
<1> HIDE DEF step
<1>8. F[0] = s /\ \A i \in 1..n : F[i] = Take(F[i - 1], d[i])
  BY <1>1, <1>7
<1> HIDE DEF Eq
<1>9. \A i \in 1..n : F[i - 1] \in Receivers => F[i] \in Receivers
  BY <1>1, <1>3, <1>8
<1>10. \A i \in 0..n : F[i] \in Receivers
  BY <1>1, <1>8, <1>9, Stays
<1> QED
  BY <1>8, <1>10 DEF F, s, n

(* A byte more is written. *)
LEMMA ReceivingMore ==
  ASSUME NEW d \in Seq(Byte), NEW b \in Byte
  PROVE  Receiving(d \o <<b>>)[Len(d \o <<b>>)] = Take(Receiving(d)[Len(d)], b)
<1> DEFINE n == Len(d)
           e == d \o <<b>>
           R == Receiving(d)
           Q == Receiving(e)
           T == {i \in 0..n : Q[i] = R[i]}
<1>1. /\ e \in Seq(Byte) /\ Len(e) = n + 1 /\ n \in Nat
      /\ \A i \in 1..n : e[i] = d[i]
      /\ e[n + 1] = b
  <2>1. <<b>> \in Seq(Byte) /\ Len(<<b>>) = 1 /\ <<b>>[1] = b
    OBVIOUS
  <2>2. /\ d \o <<b>> \in Seq(Byte) /\ Len(d \o <<b>>) = Len(d) + 1
        /\ \A i \in 1 .. Len(d) + 1 : (d \o <<b>>)[i] = IF i <= Len(d) THEN d[i] ELSE <<b>>[i - Len(d)]
    BY <2>1, ConcatProperties
  <2> HIDE DEF e
  <2> QED BY <2>1, <2>2 DEF e
<1> HIDE DEF e
<1>2. /\ R[0] = [iac |-> FALSE, data |-> <<>>]
      /\ \A i \in 1..n : R[i] = Take(R[i - 1], d[i])
  BY ReceivingRuns
<1>3. /\ Q[0] = [iac |-> FALSE, data |-> <<>>]
      /\ \A i \in 1..(n + 1) : Q[i] = Take(Q[i - 1], e[i])
  BY <1>1, ReceivingRuns
<1> HIDE DEF n, R, Q
<1>4. 0 \in T /\ \A i \in 1..n : i - 1 \in T => i \in T
  BY <1>1, <1>2, <1>3
<1>5. \A i \in 0..n : i \in T
  <2> HIDE DEF T
  <2> QED BY <1>1, <1>4, Induction
<1>6. Q[n] = R[n] /\ Q[n + 1] = Take(Q[n + 1 - 1], e[n + 1]) /\ n + 1 - 1 = n
  BY <1>1, <1>3, <1>5
<1>7. Q[n + 1] = Take(R[n], b)
  BY <1>1, <1>6
<1> QED
  BY <1>1, <1>7 DEF e, n, R, Q

(* out, written to the board of the call, is data for it, with no telnet     *)
(* command begun.                                                            *)
Gets(out, data) ==
  /\ out \in Seq(Byte) /\ data \in Seq(Byte)
  /\ IF entry[2] = "raw" THEN out = data
     ELSE Receiving(out)[Len(out)] = [iac |-> FALSE, data |-> data]

LEMMA GetsReceived ==
  ASSUME NEW out, NEW data, Gets(out, data)
  PROVE  Received(out) = data
BY DEF Gets, Received

LEMMA GetsNothing == Gets(<<>>, <<>>)
<1>1. <<>> \in Seq(Byte) /\ Len(<<>>) = 0
  OBVIOUS
<1>2. Receiving(<<>>)[0] = [iac |-> FALSE, data |-> <<>>]
  BY <1>1, ReceivingRuns
<1> QED
  BY <1>1, <1>2 DEF Gets

(* A byte that is no 255. *)
LEMMA GetsPlain ==
  ASSUME NEW out, NEW data, Gets(out, data), NEW b \in Byte \ {IAC}
  PROVE  Gets(out \o <<b>>, data \o <<b>>)
<1>1. <<b>> \in Seq(Byte) /\ out \in Seq(Byte) /\ data \in Seq(Byte)
  BY DEF Gets
<1>2. out \o <<b>> \in Seq(Byte) /\ data \o <<b>> \in Seq(Byte)
  BY <1>1, ConcatProperties
<1>3. CASE entry[2] = "raw"
  BY <1>2, <1>3 DEF Gets
<1>4. CASE entry[2] # "raw"
  <2> DEFINE r == [iac |-> FALSE, data |-> data]
             e == out \o <<b>>
  <2>1. Receiving(out)[Len(out)] = r
    BY <1>4 DEF Gets
  <2>2. Receiving(e)[Len(e)] = Take(r, b)
    BY <1>1, <2>1, ReceivingMore
  <2>3. Take(r, b) = [iac |-> FALSE, data |-> Append(data, b)]
    BY DEF Take
  <2>4. Append(data, b) = data \o <<b>>
    BY <1>1, AppendIsConcat
  <2> HIDE DEF e, r
  <2>5. Receiving(e)[Len(e)] = [iac |-> FALSE, data |-> data \o <<b>>]
    BY <2>2, <2>3, <2>4
  <2> QED BY <1>2, <1>4, <2>5 DEF Gets, e
<1> QED
  BY <1>3, <1>4

(* A byte of data: a 255 is doubled for a telnet board, and for no other.    *)
LEMMA GetsByte ==
  ASSUME NEW out, NEW data, Gets(out, data), NEW b \in Byte,
         b = IAC => (doubleIAC <=> entry[2] # "raw")
  PROVE  Gets(out \o appendRemote(b), data \o <<b>>)
<1>1. /\ IAC \in Byte /\ <<b>> \in Seq(Byte) /\ <<IAC>> \in Seq(Byte)
      /\ out \in Seq(Byte) /\ data \in Seq(Byte)
  BY Bytes DEF Gets
<1>2. CASE b # IAC
  <2>1. appendRemote(b) = <<b>>
    BY <1>2 DEF appendRemote
  <2> QED BY <1>2, <2>1, GetsPlain
<1>3. CASE b = IAC /\ entry[2] = "raw"
  <2>1. appendRemote(b) = <<b>>
    BY <1>3 DEF appendRemote
  <2>2. out = data /\ out \o <<b>> \in Seq(Byte)
    BY <1>1, <1>3, ConcatProperties DEF Gets
  <2> QED BY <1>3, <2>1, <2>2 DEF Gets
<1>4. CASE b = IAC /\ entry[2] # "raw"
  <2> DEFINE r == [iac |-> FALSE, data |-> data]
             q == [iac |-> TRUE, data |-> data]
             e == out \o <<IAC>>
             d == e \o <<IAC>>
  <2>1. appendRemote(b) = <<IAC, IAC>>
    BY <1>4 DEF appendRemote
  <2>2. <<IAC, IAC>> = <<IAC>> \o <<IAC>>
    BY <1>1, Written
  <2>3. out \o <<IAC, IAC>> = d
    BY <1>1, <2>2, ConcatAssociative
  <2>4. e \in Seq(Byte) /\ d \in Seq(Byte) /\ data \o <<b>> \in Seq(Byte)
    BY <1>1, ConcatProperties
  <2>5. Receiving(out)[Len(out)] = r
    BY <1>4 DEF Gets
  <2>6. Receiving(e)[Len(e)] = Take(r, IAC)
    BY <1>1, <2>5, ReceivingMore
  <2>7. Take(r, IAC) = q
    BY DEF Take
  <2> HIDE DEF e
  <2>8. Receiving(d)[Len(d)] = Take(q, IAC)
    BY <1>1, <2>4, <2>6, <2>7, ReceivingMore
  <2>9. Take(q, IAC) = [iac |-> FALSE, data |-> Append(data, IAC)]
    BY DEF Take
  <2>10. Append(data, IAC) = data \o <<b>>
    BY <1>1, <1>4, AppendIsConcat
  <2> HIDE DEF d, q, r
  <2>11. Receiving(d)[Len(d)] = [iac |-> FALSE, data |-> data \o <<b>>]
    BY <2>8, <2>9, <2>10
  <2> QED BY <1>4, <2>1, <2>3, <2>4, <2>11 DEF Gets
<1> QED
  BY <1>2, <1>3, <1>4

(* Escape characters are plain bytes, and one more is one more. *)
LEMMA CharsTyped ==
  ASSUME modem \in Modems, NEW n \in Nat
  PROVE  /\ EscapeChar \in Byte \ {IAC} /\ Chars(n) \in Seq(Byte) /\ Len(Chars(n)) = n
         /\ Chars(0) = <<>> /\ Chars(n + 1) = Chars(n) \o <<EscapeChar>>
<1>1. EscapeChar \in Byte \ {IAC}
  BY GetTyped DEF EscapeChar, Byte, IAC
<1> HIDE DEF EscapeChar
<1>2. \A k \in Nat : Chars(k) \in Seq(Byte) /\ Len(Chars(k)) = k
  BY <1>1 DEF Chars
<1>3. Chars(0) = <<>>
  BY <1>1 DEF Chars
<1>4. Chars(n + 1) = Append(Chars(n), EscapeChar)
  <2>1. /\ Append(Chars(n), EscapeChar) \in Seq(Byte)
        /\ Len(Append(Chars(n), EscapeChar)) = n + 1
        /\ \A i \in 1 .. n : Append(Chars(n), EscapeChar)[i] = Chars(n)[i]
        /\ Append(Chars(n), EscapeChar)[n + 1] = EscapeChar
    BY <1>1, <1>2, AppendProperties
  <2>2. \A i \in 1 .. n : Chars(n)[i] = EscapeChar
    BY DEF Chars
  <2>3. \A i \in 1 .. n + 1 : Chars(n + 1)[i] = EscapeChar
    BY DEF Chars
  <2> DEFINE s == Append(Chars(n), EscapeChar)
             t == Chars(n + 1)
  <2>4. \A i \in 1 .. n + 1 : s[i] = EscapeChar
    BY <2>1, <2>2
  <2>5. t \in Seq(Byte) /\ Len(t) = n + 1
    BY <1>2
  <2> HIDE DEF s, t
  <2>6. t = s
    BY <2>1, <2>3, <2>4, <2>5, SeqEqual DEF s, t
  <2> QED BY <2>6 DEF s, t
<1>5. Append(Chars(n), EscapeChar) = Chars(n) \o <<EscapeChar>>
  BY <1>1, <1>2, AppendIsConcat
<1> QED
  BY <1>1, <1>2, <1>3, <1>4, <1>5

LEMMA GetsChars ==
  ASSUME modem \in Modems, NEW out, NEW data, Gets(out, data), NEW n \in Nat
  PROVE  Gets(out \o Chars(n), data \o Chars(n))
<1> DEFINE T == {k \in 0..n : Gets(out \o Chars(k), data \o Chars(k))}
<1>1. out \in Seq(Byte) /\ data \in Seq(Byte)
  BY DEF Gets
<1>2. 0 \in T
  <2>1. out \o Chars(0) = out /\ data \o Chars(0) = data
    BY <1>1, CharsTyped, ConcatEmptySeq
  <2>2. Gets(out \o Chars(0), data \o Chars(0))
    BY <2>1, Zenon
  <2> HIDE DEF Gets, Chars
  <2> QED BY <2>2
<1>3. ASSUME NEW k \in 1..n, k - 1 \in T PROVE k \in T
  <2> DEFINE c == Chars(k - 1)
             e == <<EscapeChar>>
  <2>1. k - 1 \in Nat /\ (k - 1) + 1 = k
    OBVIOUS
  <2>2. c \in Seq(Byte) /\ EscapeChar \in Byte \ {IAC} /\ Chars(k) = c \o e
    BY <2>1, CharsTyped
  <2>3. e \in Seq(Byte)
    BY <2>2
  <2>4. Gets((out \o c) \o e, (data \o c) \o e)
    BY <1>3, <2>2, GetsPlain
  <2> HIDE DEF c, e
  <2>5. (out \o c) \o e = out \o (c \o e) /\ (data \o c) \o e = data \o (c \o e)
    BY <1>1, <2>2, <2>3, Regroup
  <2>6. Gets(out \o Chars(k), data \o Chars(k))
    BY <2>2, <2>4, <2>5, Zenon
  <2> QED BY <2>6
<1>4. \A k \in 0..n : k \in T
  <2> HIDE DEF T
  <2> QED BY <1>2, <1>3, Induction
<1> QED
  BY <1>4

-----------------------------------------------------------------------------
(* The escape detection, one byte and one chunk.                           *)

Detections ==
  [count : Nat, sinceEscape : 0 .. Long, sinceInput : 0 .. Long, out : Seq(Byte), late : BOOLEAN]
Typings == [age : 0 .. Long, run : 0 .. 3, silence : 0 .. Long]

LEMMA Times == Guard \in Nat /\ Guard > 0 /\ Long = Guard + 1 /\ BulkQuiet \in Nat
BY TimesAssumption DEF Long

LEMMA AppendRemoteTyped ==
  ASSUME NEW b \in Byte
  PROVE  appendRemote(b) \in Seq(Byte)
<1>1. <<b>> \in Seq(Byte) /\ <<IAC, b>> \in Seq(Byte) /\ <<IAC, IAC>> \in Seq(Byte)
  BY Bytes, Written
<1> QED
  BY <1>1 DEF appendRemote

(* The five things that a byte can be to the detection.                      *)
StartsEscape(r, b, bulkAge) ==
  b = EscapeChar /\ bulkAge >= BulkQuiet /\ r.count = 0 /\ r.sinceInput > Guard
NoEscape(r, b, bulkAge) ==
  b = EscapeChar /\ bulkAge >= BulkQuiet /\ r.count = 0 /\ r.sinceInput <= Guard
NextEscape(r, b, bulkAge) ==
  b = EscapeChar /\ bulkAge >= BulkQuiet /\ r.count > 0 /\ r.sinceEscape < Guard
LateEscape(r, b, bulkAge) ==
  b = EscapeChar /\ bulkAge >= BulkQuiet /\ r.count > 0 /\ r.sinceEscape >= Guard
Ordinary(b, bulkAge) == b # EscapeChar \/ bulkAge < BulkQuiet

LEMMA OneByteCases ==
  ASSUME modem \in Modems, NEW r \in Detections, NEW b \in Byte, NEW bulkAge \in Nat
  PROVE  LET n == OneByte(r, b, bulkAge)
         IN  /\ n \in Detections /\ n.sinceInput = 0
             /\ StartsEscape(r, b, bulkAge) =>
                  n.count = 1 /\ n.sinceEscape = 0 /\ n.out = r.out /\ (n.late <=> r.late)
             /\ NoEscape(r, b, bulkAge) =>
                  n.count = 0 /\ n.out = r.out \o appendRemote(b) /\ (n.late <=> r.late)
             /\ NextEscape(r, b, bulkAge) =>
                  n.count = r.count + 1 /\ n.sinceEscape = 0 /\ n.out = r.out /\ (n.late <=> r.late)
             /\ LateEscape(r, b, bulkAge) => n.count = 1 /\ n.sinceEscape = 0 /\ n.late
             /\ Ordinary(b, bulkAge) =>
                  /\ n.count = 0 /\ (n.late <=> r.late)
                  /\ n.out = (r.out \o Chars(r.count)) \o appendRemote(b)
<1> DEFINE seen == [r EXCEPT !.sinceInput = 0]
           plain == r.out \o appendRemote(b)
           all == (r.out \o Chars(r.count)) \o appendRemote(b)
           n == OneByte(r, b, bulkAge)
<1>1. /\ r.count \in Nat /\ r.sinceEscape \in 0 .. Long /\ r.sinceInput \in 0 .. Long
      /\ r.out \in Seq(Byte) /\ r.late \in BOOLEAN /\ Guard \in Nat /\ BulkQuiet \in Nat
      /\ 0 \in 0 .. Long
  BY Times DEF Detections
<1>2. plain \in Seq(Byte) /\ all \in Seq(Byte)
  <2>1. Chars(r.count) \in Seq(Byte) /\ appendRemote(b) \in Seq(Byte)
    BY <1>1, CharsTyped, AppendRemoteTyped
  <2>2. r.out \o Chars(r.count) \in Seq(Byte)
    BY <1>1, <2>1, ConcatProperties
  <2> QED BY <1>1, <2>1, <2>2, ConcatProperties
<1>3. \/ StartsEscape(r, b, bulkAge) \/ NoEscape(r, b, bulkAge) \/ NextEscape(r, b, bulkAge)
      \/ LateEscape(r, b, bulkAge) \/ Ordinary(b, bulkAge)
  BY <1>1, Times DEF StartsEscape, NoEscape, NextEscape, LateEscape, Ordinary
<1>4. CASE StartsEscape(r, b, bulkAge)
  <2>1. n = [[r EXCEPT !.sinceInput = 0] EXCEPT !.count = 1, !.sinceEscape = 0]
    BY <1>1, <1>4 DEF StartsEscape, OneByte
  <2> HIDE DEF n
  <2>2. /\ n \in Detections /\ n.sinceInput = 0 /\ n.count = 1 /\ n.sinceEscape = 0
        /\ n.out = r.out /\ n.late = r.late
    BY <1>1, <2>1 DEF Detections
  <2>3. ~NoEscape(r, b, bulkAge) /\ ~NextEscape(r, b, bulkAge) /\ ~LateEscape(r, b, bulkAge)
        /\ ~Ordinary(b, bulkAge)
    BY <1>1, <1>4 DEF StartsEscape, NoEscape, NextEscape, LateEscape, Ordinary
  <2> QED BY <2>2, <2>3 DEF n
<1>5. CASE NoEscape(r, b, bulkAge)
  <2>1. n = [[r EXCEPT !.sinceInput = 0] EXCEPT !.out = r.out \o appendRemote(b)]
    <3>1. [seen EXCEPT !.out = @ \o appendRemote(b)] = [seen EXCEPT !.out = r.out \o appendRemote(b)]
      BY DEF Detections
    <3>2. n = [seen EXCEPT !.out = @ \o appendRemote(b)]
      BY <1>1, <1>5 DEF NoEscape, OneByte
    <3> QED BY <3>1, <3>2, Zenon
  <2> HIDE DEF n, plain
  <2>2. n = [[r EXCEPT !.sinceInput = 0] EXCEPT !.out = plain]
    BY <2>1 DEF plain
  <2>3. /\ n \in Detections /\ n.sinceInput = 0 /\ n.count = r.count /\ n.out = plain
        /\ n.late = r.late
    BY <1>1, <1>2, <2>2 DEF Detections
  <2>4. ~StartsEscape(r, b, bulkAge) /\ ~NextEscape(r, b, bulkAge) /\ ~LateEscape(r, b, bulkAge)
        /\ ~Ordinary(b, bulkAge) /\ r.count = 0
    BY <1>1, <1>5 DEF StartsEscape, NoEscape, NextEscape, LateEscape, Ordinary
  <2> QED BY <2>3, <2>4 DEF n, plain
<1>6. CASE NextEscape(r, b, bulkAge)
  <2>1. n = [[r EXCEPT !.sinceInput = 0] EXCEPT !.count = r.count + 1, !.sinceEscape = 0]
    <3>1. [seen EXCEPT !.count = @ + 1, !.sinceEscape = 0]
            = [seen EXCEPT !.count = r.count + 1, !.sinceEscape = 0]
      BY DEF Detections
    <3>2. n = [seen EXCEPT !.count = @ + 1, !.sinceEscape = 0]
      BY <1>1, <1>6 DEF NextEscape, OneByte
    <3> QED BY <3>1, <3>2, Zenon
  <2> DEFINE more == r.count + 1
  <2>4. more \in Nat
    BY <1>1
  <2> HIDE DEF n, more
  <2>5. n = [[r EXCEPT !.sinceInput = 0] EXCEPT !.count = more, !.sinceEscape = 0]
    BY <2>1 DEF more
  <2>2. /\ n \in Detections /\ n.sinceInput = 0 /\ n.count = more /\ n.sinceEscape = 0
        /\ n.out = r.out /\ n.late = r.late
    BY <1>1, <2>4, <2>5 DEF Detections
  <2>3. ~StartsEscape(r, b, bulkAge) /\ ~NoEscape(r, b, bulkAge) /\ ~LateEscape(r, b, bulkAge)
        /\ ~Ordinary(b, bulkAge)
    BY <1>1, <1>6 DEF StartsEscape, NoEscape, NextEscape, LateEscape, Ordinary
  <2> QED BY <2>2, <2>3 DEF n, more
<1>7. CASE LateEscape(r, b, bulkAge)
  <2>1. n = [[r EXCEPT !.sinceInput = 0] EXCEPT !.count = 1, !.sinceEscape = 0, !.late = TRUE]
    BY <1>1, <1>7 DEF LateEscape, OneByte
  <2> HIDE DEF n
  <2>2. n \in Detections /\ n.sinceInput = 0 /\ n.count = 1 /\ n.sinceEscape = 0 /\ n.late
    BY <1>1, <2>1 DEF Detections
  <2>3. ~StartsEscape(r, b, bulkAge) /\ ~NoEscape(r, b, bulkAge) /\ ~NextEscape(r, b, bulkAge)
        /\ ~Ordinary(b, bulkAge)
    BY <1>1, <1>7 DEF StartsEscape, NoEscape, NextEscape, LateEscape, Ordinary
  <2> QED BY <2>2, <2>3 DEF n
<1>8. CASE Ordinary(b, bulkAge)
  <2>1. n = [[r EXCEPT !.sinceInput = 0] EXCEPT !.out = (r.out \o Chars(r.count)) \o appendRemote(b),
                                               !.count = 0, !.sinceEscape = 0]
    <3>1. [seen EXCEPT !.out = @ \o Chars(r.count) \o appendRemote(b), !.count = 0, !.sinceEscape = 0]
            = [seen EXCEPT !.out = r.out \o Chars(r.count) \o appendRemote(b),
                           !.count = 0, !.sinceEscape = 0]
      BY DEF Detections
    <3>2. n = [seen EXCEPT !.out = @ \o Chars(r.count) \o appendRemote(b), !.count = 0, !.sinceEscape = 0]
      BY <1>1, <1>8 DEF Ordinary, OneByte
    <3> QED BY <3>1, <3>2, Zenon
  <2> HIDE DEF n, all
  <2>2. n = [[r EXCEPT !.sinceInput = 0] EXCEPT !.out = all, !.count = 0, !.sinceEscape = 0]
    BY <2>1 DEF all
  <2>3. /\ n \in Detections /\ n.sinceInput = 0 /\ n.count = 0 /\ n.out = all
        /\ n.late = r.late
    BY <1>1, <1>2, <2>2 DEF Detections
  <2>4. ~StartsEscape(r, b, bulkAge) /\ ~NoEscape(r, b, bulkAge) /\ ~NextEscape(r, b, bulkAge)
        /\ ~LateEscape(r, b, bulkAge)
    BY <1>1, <1>8 DEF StartsEscape, NoEscape, NextEscape, LateEscape, Ordinary
  <2> QED BY <2>3, <2>4 DEF n, all
<1> QED
  BY <1>3, <1>4, <1>5, <1>6, <1>7, <1>8

LEMMA TypingFields ==
  ASSUME NEW t \in Typings, NEW b, NEW bulkAge \in Nat
  PROVE  LET n == Typing(t, b, bulkAge)
             goesOn == t.run > 0 /\ t.age < Guard
         IN  /\ n \in Typings /\ n.age = 0
             /\ n.run = IF b # EscapeChar THEN 0
                        ELSE IF goesOn THEN (IF t.run < 3 THEN t.run + 1 ELSE 3) ELSE 1
             /\ n.silence = IF b # EscapeChar \/ bulkAge < BulkQuiet THEN 0
                            ELSE IF goesOn THEN t.silence ELSE t.age
<1> DEFINE goesOn == t.run > 0 /\ t.age < Guard
           run == IF b # EscapeChar THEN 0
                  ELSE IF goesOn THEN (IF t.run < 3 THEN t.run + 1 ELSE 3) ELSE 1
           silence == IF b # EscapeChar \/ bulkAge < BulkQuiet THEN 0
                      ELSE IF goesOn THEN t.silence ELSE t.age
<1>1. t.run \in 0 .. 3 /\ t.age \in 0 .. Long /\ t.silence \in 0 .. Long /\ 0 \in 0 .. Long
  BY Times DEF Typings
<1>2. run \in 0 .. 3 /\ silence \in 0 .. Long
  BY <1>1
<1>3. Typing(t, b, bulkAge) = [age |-> 0, run |-> run, silence |-> silence]
  BY Zenon DEF Typing
<1> HIDE DEF run, silence
<1>4. LET n == [age |-> 0, run |-> run, silence |-> silence]
      IN  n \in Typings /\ n.age = 0 /\ n.run = run /\ n.silence = silence
  BY <1>1, <1>2 DEF Typings
<1> QED
  BY <1>3, <1>4 DEF run, silence

(* What the caller has typed, and what the detection has made of it.         *)
Agree(r, t) ==
  /\ t.age = r.sinceInput
  /\ r.count > 0 => /\ t.run = (IF r.count < 3 THEN r.count ELSE 3)
                    /\ t.silence >= Guard /\ r.sinceEscape = r.sinceInput
  /\ r.count = 0 /\ t.run > 0 /\ t.silence > Guard => t.run < 3 /\ r.sinceInput > Guard

LEMMA ByteAgrees ==
  ASSUME modem \in Modems, NEW r \in Detections, NEW t \in Typings, Agree(r, t),
         NEW b \in Byte, NEW bulkAge \in Nat
  PROVE  Agree(OneByte(r, b, bulkAge), Typing(t, b, bulkAge))
<1> DEFINE n == OneByte(r, b, bulkAge)
           u == Typing(t, b, bulkAge)
           goesOn == t.run > 0 /\ t.age < Guard
<1>1. /\ r.count \in Nat /\ r.sinceEscape \in 0 .. Long /\ r.sinceInput \in 0 .. Long
      /\ t.run \in 0 .. 3 /\ t.age \in 0 .. Long /\ t.silence \in 0 .. Long
      /\ Guard \in Nat /\ Guard > 0 /\ Long = Guard + 1 /\ BulkQuiet \in Nat
  BY Times DEF Detections, Typings
<1>2. /\ u.age = 0
      /\ u.run = IF b # EscapeChar THEN 0
                 ELSE IF goesOn THEN (IF t.run < 3 THEN t.run + 1 ELSE 3) ELSE 1
      /\ u.silence = IF b # EscapeChar \/ bulkAge < BulkQuiet THEN 0
                     ELSE IF goesOn THEN t.silence ELSE t.age
  BY TypingFields, Zenon
<1>3. \/ StartsEscape(r, b, bulkAge) \/ NoEscape(r, b, bulkAge) \/ NextEscape(r, b, bulkAge)
      \/ LateEscape(r, b, bulkAge) \/ Ordinary(b, bulkAge)
  BY <1>1 DEF StartsEscape, NoEscape, NextEscape, LateEscape, Ordinary
<1>4. n \in Detections /\ n.sinceInput = 0
  BY OneByteCases, Zenon
<1> SUFFICES Agree(n, u)
  OBVIOUS
<1> HIDE DEF u, n
<1>5. CASE StartsEscape(r, b, bulkAge)
  <2>1. n.count = 1 /\ n.sinceEscape = 0
    BY <1>5, OneByteCases, Zenon DEF n
  <2> QED BY <1>1, <1>2, <1>4, <1>5, <2>1 DEF Agree, StartsEscape
<1>6. CASE NoEscape(r, b, bulkAge)
  <2>1. n.count = 0
    BY <1>6, OneByteCases, Zenon DEF n
  <2> QED BY <1>1, <1>2, <1>4, <1>6, <2>1 DEF Agree, NoEscape
<1>7. CASE NextEscape(r, b, bulkAge)
  <2>1. n.count = r.count + 1 /\ n.sinceEscape = 0
    BY <1>7, OneByteCases, Zenon DEF n
  <2> QED BY <1>1, <1>2, <1>4, <1>7, <2>1 DEF Agree, NextEscape
<1>8. CASE LateEscape(r, b, bulkAge)
  <2>1. n.count = 1 /\ n.sinceEscape = 0
    BY <1>8, OneByteCases, Zenon DEF n
  <2> QED BY <1>1, <1>2, <1>4, <1>8, <2>1 DEF Agree, LateEscape
<1>9. CASE Ordinary(b, bulkAge)
  <2>1. n.count = 0
    BY <1>9, OneByteCases, Zenon DEF n
  <2> QED BY <1>1, <1>2, <1>4, <1>9, <2>1 DEF Agree, Ordinary
<1> QED
  BY <1>3, <1>5, <1>6, <1>7, <1>8, <1>9

(* Of the bytes of whole, those that the board has not got are the ones kept *)
(* back.                                                                     *)
Keeps(r, whole) ==
  r.late \/ \E got \in Seq(Byte) : Gets(r.out, got) /\ got \o Chars(r.count) = whole

LEMMA ByteKept ==
  ASSUME modem \in Modems, NEW r \in Detections, NEW whole \in Seq(Byte), Keeps(r, whole),
         NEW b \in Byte, NEW bulkAge \in Nat, b = IAC => (doubleIAC <=> entry[2] # "raw")
  PROVE  Keeps(OneByte(r, b, bulkAge), whole \o <<b>>)
<1> DEFINE n == OneByte(r, b, bulkAge)
           w == whole \o <<b>>
<1> SUFFICES Keeps(n, w)
  OBVIOUS
<1>1. r.count \in Nat /\ Guard \in Nat /\ BulkQuiet \in Nat /\ r.sinceEscape \in 0 .. Long
      /\ r.sinceInput \in 0 .. Long /\ Long = Guard + 1
  BY Times DEF Detections
<1>2. \/ StartsEscape(r, b, bulkAge) \/ NoEscape(r, b, bulkAge) \/ NextEscape(r, b, bulkAge)
      \/ LateEscape(r, b, bulkAge) \/ Ordinary(b, bulkAge)
  BY <1>1 DEF StartsEscape, NoEscape, NextEscape, LateEscape, Ordinary
<1>3. CASE r.late \/ LateEscape(r, b, bulkAge)
  <2>1. n.late
    BY <1>2, <1>3, OneByteCases, Zenon
  <2> QED BY <2>1 DEF Keeps
<1>4. CASE ~r.late /\ ~LateEscape(r, b, bulkAge)
  <2>1. PICK got \in Seq(Byte) : Gets(r.out, got) /\ got \o Chars(r.count) = whole
    BY <1>4 DEF Keeps
  <2>2. /\ EscapeChar \in Byte \ {IAC} /\ <<b>> \in Seq(Byte)
        /\ Chars(0) = <<>> /\ Chars(0 + 1) = Chars(0) \o <<EscapeChar>>
        /\ Chars(r.count) \in Seq(Byte)
        /\ Chars(r.count + 1) = Chars(r.count) \o <<EscapeChar>>
    <3>1. <<b>> \in Seq(Byte) /\ 0 \in Nat
      OBVIOUS
    <3> QED BY <1>1, <3>1, CharsTyped
  <2>3. ASSUME NEW g \in Seq(Byte), Gets(n.out, g), g \o Chars(n.count) = w
        PROVE  Keeps(n, w)
    BY <2>3 DEF Keeps
  <2>4. CASE StartsEscape(r, b, bulkAge) \/ NextEscape(r, b, bulkAge)
    <3>1. n.count = r.count + 1 /\ n.out = r.out /\ b = EscapeChar
      <4>1. CASE StartsEscape(r, b, bulkAge)
        <5>1. n.count = 1 /\ n.out = r.out
          BY <4>1, OneByteCases, Zenon
        <5> HIDE DEF n
        <5> QED BY <4>1, <5>1 DEF StartsEscape
      <4>2. CASE NextEscape(r, b, bulkAge)
        <5>1. n.count = r.count + 1 /\ n.out = r.out
          BY <4>2, OneByteCases, Zenon
        <5> HIDE DEF n
        <5> QED BY <4>2, <5>1 DEF NextEscape
      <4> QED BY <2>4, <4>1, <4>2
    <3>2. got \o (Chars(r.count) \o <<b>>) = (got \o Chars(r.count)) \o <<b>>
      BY <2>2, Regroup
    <3> HIDE DEF n
    <3>3. got \o Chars(n.count) = w
      BY <2>1, <2>2, <3>1, <3>2, Zenon DEF w
    <3> HIDE DEF w
    <3>4. Gets(n.out, got)
      BY <2>1, <3>1, Zenon
    <3> QED BY <2>3, <3>3, <3>4, Zenon
  <2>5. CASE NoEscape(r, b, bulkAge) \/ Ordinary(b, bulkAge)
    <3> DEFINE mid == r.out \o Chars(r.count)
    <3>1. n.count = 0 /\ n.out = mid \o appendRemote(b)
      <4>1. CASE NoEscape(r, b, bulkAge)
        <5>1. n.count = 0 /\ n.out = r.out \o appendRemote(b)
          BY <4>1, OneByteCases, Zenon
        <5>2. r.out \in Seq(Byte) /\ r.count = 0
          BY <4>1 DEF NoEscape, Detections
        <5>3. r.out \o Chars(0) = r.out
          BY <2>2, <5>2, ConcatEmptySeq
        <5> HIDE DEF n
        <5> QED BY <5>1, <5>2, <5>3, Zenon
      <4>2. CASE Ordinary(b, bulkAge)
        BY <4>2, OneByteCases, Zenon
      <4> QED BY <2>5, <4>1, <4>2
    <3>2. Gets(mid, whole)
      BY <1>1, <2>1, GetsChars, Zenon
    <3> HIDE DEF n, mid
    <3>3. Gets(mid \o appendRemote(b), w)
      BY <3>2, GetsByte
    <3> HIDE DEF w
    <3>4. w \in Seq(Byte)
      BY <3>3 DEF Gets
    <3>5. w \o Chars(n.count) = w
      BY <2>2, <3>1, <3>4, ConcatEmptySeq
    <3>6. Gets(n.out, w)
      BY <3>1, <3>3, Zenon
    <3> QED BY <2>3, <3>4, <3>5, <3>6, Zenon
  <2> QED BY <1>2, <1>4, <2>4, <2>5
<1> QED
  BY <1>3, <1>4

(* Detecting and TypingOn are what their recursive definitions say.          *)
LEMMA DetectingRuns ==
  ASSUME modem \in Modems, EscapeTypes, NEW d \in Seq(Byte), NEW bulkAge \in Nat
  PROVE  LET R == Detecting(d, bulkAge)
         IN  /\ \A i \in 0..Len(d) : R[i] \in Detections
             /\ R[0] = [count |-> escapeCount, sinceEscape |-> sinceEscape,
                      sinceInput |-> sinceInput, out |-> <<>>, late |-> FALSE]
             /\ \A i \in 1..Len(d) : R[i] = OneByte(R[i - 1], d[i], bulkAge)
<1> DEFINE n == Len(d)
           s == [count |-> escapeCount, sinceEscape |-> sinceEscape,
                      sinceInput |-> sinceInput, out |-> <<>>, late |-> FALSE]
           Then(r, i) == OneByte(r, d[i], bulkAge)
           step == [i \in 1..n |-> [r \in Detections |-> Then(r, i)]]
           Eq(r) == r = [i \in 0..n |-> IF i = 0 THEN s ELSE Then(r[i - 1], i)]
           F == Detecting(d, bulkAge)
<1>1. s \in Detections /\ n \in Nat /\ \A i \in 1..n : d[i] \in Byte
  BY Times DEF Detections, EscapeTypes
<1>2. F = CHOOSE q : Eq(q)
  BY DEF Detecting
<1>3. \A r \in Detections, i \in 1..n : Then(r, i) \in Detections
  BY <1>1, OneByteCases
<1> HIDE DEF Then, s, n, F
<1>4. Steps(Detections, n, step)
  BY <1>1, <1>3 DEF Steps
<1>5. PICK r : Solves(Detections, s, n, step, r)
  <2> HIDE DEF step
  <2> QED BY <1>1, <1>4, Iteration
<1>6. Eq(r)
  <2>1. ASSUME NEW i \in 1..n PROVE r[i] = Then(r[i - 1], i)
    <3>1. r[i] = step[i][r[i - 1]] /\ r[i - 1] \in Detections
      BY <1>1, <1>5 DEF Solves
    <3> QED BY <3>1
  <2>2. \A i \in 0..n : r[i] = IF i = 0 THEN s ELSE Then(r[i - 1], i)
    BY <1>1, <1>5, <2>1 DEF Solves
  <2> QED BY <1>5, <2>2 DEF Solves
<1>7. Eq(F)
  <2> HIDE DEF Eq
  <2> QED BY <1>2, <1>6
<1> HIDE DEF step
<1>8. F[0] = s /\ \A i \in 1..n : F[i] = Then(F[i - 1], i)
  BY <1>1, <1>7
<1> HIDE DEF Eq
<1>9. \A i \in 1..n : F[i - 1] \in Detections => F[i] \in Detections
  BY <1>1, <1>3, <1>8
<1>10. \A i \in 0..n : F[i] \in Detections
  BY <1>1, <1>8, <1>9, Stays
<1> QED
  BY <1>8, <1>10 DEF F, s, n, Then

LEMMA TypingRuns ==
  ASSUME modem \in Modems, EscapeTypes, NEW d \in Seq(Byte), NEW bulkAge \in Nat
  PROVE  LET R == TypingOn(d, bulkAge)
         IN  /\ \A i \in 0..Len(d) : R[i] \in Typings
             /\ R[0] = [age |-> sinceInput, run |-> typed.run, silence |-> typed.silence]
             /\ \A i \in 1..Len(d) : R[i] = Typing(R[i - 1], d[i], bulkAge)
<1> DEFINE n == Len(d)
           s == [age |-> sinceInput, run |-> typed.run, silence |-> typed.silence]
           Then(r, i) == Typing(r, d[i], bulkAge)
           step == [i \in 1..n |-> [r \in Typings |-> Then(r, i)]]
           Eq(r) == r = [i \in 0..n |-> IF i = 0 THEN s ELSE Then(r[i - 1], i)]
           F == TypingOn(d, bulkAge)
<1>1. s \in Typings /\ n \in Nat /\ \A i \in 1..n : d[i] \in Byte
  BY Times DEF Typings, EscapeTypes
<1>2. F = CHOOSE q : Eq(q)
  BY DEF TypingOn
<1>3. \A r \in Typings, i \in 1..n : Then(r, i) \in Typings
  BY <1>1, TypingFields
<1> HIDE DEF Then, s, n, F
<1>4. Steps(Typings, n, step)
  BY <1>1, <1>3 DEF Steps
<1>5. PICK r : Solves(Typings, s, n, step, r)
  <2> HIDE DEF step
  <2> QED BY <1>1, <1>4, Iteration
<1>6. Eq(r)
  <2>1. ASSUME NEW i \in 1..n PROVE r[i] = Then(r[i - 1], i)
    <3>1. r[i] = step[i][r[i - 1]] /\ r[i - 1] \in Typings
      BY <1>1, <1>5 DEF Solves
    <3> QED BY <3>1
  <2>2. \A i \in 0..n : r[i] = IF i = 0 THEN s ELSE Then(r[i - 1], i)
    BY <1>1, <1>5, <2>1 DEF Solves
  <2> QED BY <1>5, <2>2 DEF Solves
<1>7. Eq(F)
  <2> HIDE DEF Eq
  <2> QED BY <1>2, <1>6
<1> HIDE DEF step
<1>8. F[0] = s /\ \A i \in 1..n : F[i] = Then(F[i - 1], i)
  BY <1>1, <1>7
<1> HIDE DEF Eq
<1>9. \A i \in 1..n : F[i - 1] \in Typings => F[i] \in Typings
  BY <1>1, <1>3, <1>8
<1>10. \A i \in 0..n : F[i] \in Typings
  BY <1>1, <1>8, <1>9, Stays
<1> QED
  BY <1>8, <1>10 DEF F, s, n, Then

(* A 255 is doubled for a board that takes it for a command, and no other.   *)
Suited(d) == \A i \in 1..Len(d) : d[i] = IAC => (doubleIAC <=> entry[2] # "raw")

(* A chunk of d, with the bytes kept back before it: what is kept back now is *)
(* what the caller typed last, and it is all that the board has not got.     *)
LEMMA ChunkHeard ==
  ASSUME modem \in Modems, EscapeTypes, EscapeInv, NEW d \in Seq(Byte), NEW bulkAge \in Nat
  PROVE  LET r == Detected(d, bulkAge)
             t == TypingOn(d, bulkAge)[Len(d)]
         IN  /\ r \in Detections /\ t \in Typings /\ Agree(r, t)
             /\ Suited(d) => Keeps(r, Chars(escapeCount) \o d)
<1> DEFINE n == Len(d)
           R == Detecting(d, bulkAge)
           Q == TypingOn(d, bulkAge)
           Whole(i) == Chars(escapeCount) \o SubSeq(d, 1, i)
           T == {i \in 0..n : Agree(R[i], Q[i]) /\ (Suited(d) => Keeps(R[i], Whole(i)))}
<1>1. n \in Nat /\ \A i \in 1..n : d[i] \in Byte
  OBVIOUS
<1>2. /\ \A i \in 0..n : R[i] \in Detections
      /\ R[0] = [count |-> escapeCount, sinceEscape |-> sinceEscape,
                 sinceInput |-> sinceInput, out |-> <<>>, late |-> FALSE]
      /\ \A i \in 1..n : R[i] = OneByte(R[i - 1], d[i], bulkAge)
  BY DetectingRuns, Zenon
<1>3. /\ \A i \in 0..n : Q[i] \in Typings
      /\ Q[0] = [age |-> sinceInput, run |-> typed.run, silence |-> typed.silence]
      /\ \A i \in 1..n : Q[i] = Typing(Q[i - 1], d[i], bulkAge)
  BY TypingRuns, Zenon
<1>4. Detected(d, bulkAge) = R[n]
  BY DEF Detected
<1> HIDE DEF R, Q
<1>5. /\ Chars(escapeCount) \in Seq(Byte) /\ escapeCount \in Nat
      /\ SubSeq(d, 1, 0) = <<>> /\ SubSeq(d, 1, n) = d
  <2>1. escapeCount \in Nat
    BY TimesAssumption DEF EscapeTypes
  <2>2. 1 \in Int /\ 0 \in Int /\ 0 < 1
    OBVIOUS
  <2> QED BY <2>1, <2>2, CharsTyped, SubSeqEmpty, SubSeqFull
<1>6. \A i \in 0..n : SubSeq(d, 1, i) \in Seq(Byte) /\ Whole(i) \in Seq(Byte)
  <2>1. ASSUME NEW i \in 0..n PROVE SubSeq(d, 1, i) \in Seq(Byte)
    BY <1>1, SubSeqProperties
  <2> QED BY <1>5, <2>1, ConcatProperties
<1>7. 0 \in T
  <2>1. Agree(R[0], Q[0])
    BY <1>2, <1>3 DEF Agree, EscapeInv
  <2>2. R[0].out = <<>> /\ R[0].count = escapeCount
    BY <1>2
  <2>3. <<>> \in Seq(Byte) /\ <<>> \o Chars(escapeCount) = Whole(0)
    BY <1>5, ConcatEmptySeq
  <2> HIDE DEF Whole
  <2>4. Keeps(R[0], Whole(0))
    BY <2>2, <2>3, GetsNothing DEF Keeps
  <2> QED BY <1>1, <2>1, <2>4
<1>8. ASSUME NEW i \in 1..n, i - 1 \in T PROVE i \in T
  <2> DEFINE r == R[i - 1]
             q == Q[i - 1]
             w == Whole(i - 1)
             e == <<d[i]>>
  <2>1. /\ i - 1 \in 0..n /\ i \in 0..n /\ d[i] \in Byte
        /\ R[i] = OneByte(r, d[i], bulkAge) /\ Q[i] = Typing(q, d[i], bulkAge)
        /\ r \in Detections /\ q \in Typings /\ Agree(r, q) /\ (Suited(d) => Keeps(r, w))
        /\ w \in Seq(Byte)
    <3>1. i - 1 \in 0..n /\ i \in 0..n /\ d[i] \in Byte
      BY <1>1
    <3>2. Agree(r, q) /\ (Suited(d) => Keeps(r, w))
      BY <1>8, Zenon
    <3> HIDE DEF Whole
    <3>3. w \in Seq(Byte) /\ r \in Detections /\ q \in Typings
      BY <1>2, <1>3, <1>6, <3>1, Zenon
    <3>4. R[i] = OneByte(r, d[i], bulkAge) /\ Q[i] = Typing(q, d[i], bulkAge)
      BY <1>2, <1>3, Zenon
    <3> QED BY <3>1, <3>2, <3>3, <3>4, Zenon
  <2>2. w \o e = Whole(i)
    <3>1. SubSeq(d, 1, i) = SubSeq(d, 1, i - 1) \o <<d[i]>>
      <4>1. 1 \in 1..n /\ i \in 1..n
        BY <1>1
      <4> QED BY <4>1, SubSeqRecursiveSecond
    <3>2. e \in Seq(Byte) /\ SubSeq(d, 1, i - 1) \in Seq(Byte)
      BY <1>6, <2>1
    <3> HIDE DEF e
    <3>3. (Chars(escapeCount) \o SubSeq(d, 1, i - 1)) \o e
            = Chars(escapeCount) \o (SubSeq(d, 1, i - 1) \o e)
      BY <1>5, <3>2, Regroup
    <3> QED BY <3>1, <3>3, Zenon DEF e
  <2> HIDE DEF r, q, w
  <2>3. Agree(OneByte(r, d[i], bulkAge), Typing(q, d[i], bulkAge))
    BY <2>1, ByteAgrees
  <2>4. Suited(d) => Keeps(OneByte(r, d[i], bulkAge), w \o <<d[i]>>)
    <3> SUFFICES ASSUME Suited(d) PROVE Keeps(OneByte(r, d[i], bulkAge), w \o <<d[i]>>)
      OBVIOUS
    <3>1. d[i] = IAC => (doubleIAC <=> entry[2] # "raw")
      BY DEF Suited
    <3> QED BY <2>1, <3>1, ByteKept
  <2> HIDE DEF Whole
  <2>5. Agree(R[i], Q[i]) /\ (Suited(d) => Keeps(R[i], Whole(i)))
    BY <2>1, <2>2, <2>3, <2>4, Zenon
  <2> QED BY <2>1, <2>5
<1>9. \A i \in 0..n : i \in T
  <2> HIDE DEF T
  <2> QED BY <1>1, <1>7, <1>8, Induction
<1>10. n \in 0..n
  BY <1>1
<1>11. Whole(n) = Chars(escapeCount) \o d
  BY <1>5, Zenon
<1> HIDE DEF Whole
<1>12. /\ Agree(R[n], Q[n]) /\ (Suited(d) => Keeps(R[n], Whole(n)))
       /\ R[n] \in Detections /\ Q[n] \in Typings
  BY <1>2, <1>3, <1>9, <1>10
<1> QED
  BY <1>4, <1>11, <1>12, Zenon DEF Q

-----------------------------------------------------------------------------
(* What an action leaves alone, it leaves fine.                            *)

LEMMA Same ==
  ASSUME TypeInv
  PROVE  /\ UNCHANGED prompt => PromptTypes'
         /\ UNCHANGED <<mode, call, entry>> => CallTypes'
         /\ UNCHANGED escape => EscapeTypes'
         /\ UNCHANGED upload => UploadTypes'
         /\ UNCHANGED download => DownloadTypes'
BY DEF TypeInv, prompt, escape, upload, download, PromptTypes, CallTypes, EscapeTypes,
       UploadTypes, DownloadTypes

LEMMA SameTurn ==
  ASSUME PromptInv, UNCHANGED <<mode, call>>
  PROVE  PromptInv'
BY DEF PromptInv

LEMMA SameWire ==
  ASSUME WireInv, UNCHANGED <<mode, call, entry, download>>
  PROVE  WireInv'
BY DEF WireInv, InCall, download

LEMMA SameKept ==
  ASSUME UploadIntact, UNCHANGED <<modem, mode, call, escapeCount, owed, excused>>
  PROVE  UploadIntact'
BY DEF UploadIntact, InCall, Withheld, Chars, EscapeChar

LEMMA SameEscape ==
  ASSUME EscapeInv, UNCHANGED <<escapeCount, sinceEscape, sinceInput, typed>>
  PROVE  EscapeInv'
BY DEF EscapeInv

(* Outside a call nothing is on its way. *)
LEMMA NoCall ==
  ASSUME mode' # "data" \/ call' # "open"
  PROVE  WireInv' /\ UploadIntact'
BY DEF WireInv, UploadIntact, InCall

-----------------------------------------------------------------------------
(* The prompt.                                                             *)

LEMMA Counted ==
  ASSUME NEW S, NEW s \in Seq(S), NEW x
  PROVE  Cardinality({i \in DOMAIN s : s[i] = x}) \in Nat
<1>1. IsFiniteSet(DOMAIN s)
  <2>1. Len(s) \in Nat /\ DOMAIN s = 1 .. Len(s)
    OBVIOUS
  <2> QED BY <2>1, FS_Interval
<1> DEFINE T == {i \in DOMAIN s : s[i] = x}
<1>2. T \subseteq DOMAIN s
  OBVIOUS
<1> HIDE DEF T
<1>3. IsFiniteSet(T)
  BY <1>1, <1>2, FS_Subset
<1>4. Cardinality(T) \in Nat
  BY <1>3, FS_CardinalityType
<1> QED
  BY <1>4 DEF T

LEMMA OneLess == \A k \in Int : k - 1 \in Int
OBVIOUS

(* What is read ahead stays a sequence of items. *)
LEMMA AfterLineTyped ==
  ASSUME buffered \in Seq(Items), buffered # <<>>
  PROVE  AfterLine \in Seq(Items) /\ Tail(buffered) \in Seq(Items) /\ Head(buffered) \in Items
<1>1. Tail(buffered) \in Seq(Items) /\ Head(buffered) \in Items
  BY HeadTailProperties
<1>2. SubSeq(buffered, 3, Len(buffered)) \in Seq(Items)
  <2>1. Len(buffered) \in Nat /\ \A i \in 3 .. Len(buffered) : buffered[i] \in Items
    OBVIOUS
  <2> QED BY <2>1, SubSeqProperties
<1> QED
  BY <1>1, <1>2 DEF AfterLine

LEMMA TypeKeeps ==
  ASSUME IInv, NEW seg \in Segments, Type(seg)
  PROVE  IInv'
<1>1. PromptTypes'
  <2>1. seg \in Seq(Items) /\ Cardinality({i \in DOMAIN seg : seg[i] = "CR"}) \in Nat
    <3>1. seg \in Seq(DOMAIN Text \union {"CR", "LF"})
      BY SegmentsAssumption
    <3>2. DOMAIN Text \union {"CR", "LF"} \subseteq Items
      BY DEF Items
    <3>3. seg \in Seq(Items)
      BY <3>1, <3>2, SeqMonotonic
    <3> QED BY <3>3, Counted
  <2> DEFINE more == Cardinality({i \in DOMAIN seg : seg[i] = "CR"})
  <2>2. lateLF' \in BOOLEAN /\ presses' = presses + more /\ buffered' = seg
        /\ UNCHANGED <<modem, line>>
    BY DEF Type
  <2>4. more \in Nat /\ presses \in Int
    BY <2>1 DEF IInv, TypeInv, PromptTypes
  <2> HIDE DEF more
  <2>3. presses' \in Int
    BY <2>2, <2>4
  <2> QED BY <2>1, <2>2, <2>3 DEF IInv, TypeInv, PromptTypes
<1>2. UNCHANGED <<modem, line, heard, mode, call, entry, escape, upload, download>>
      /\ mode # "data"
  BY DEF Type
<1>3. TypeInv'
  BY <1>1, <1>2, Same DEF IInv, TypeInv
<1>4. PromptInv' /\ EscapeInv' /\ WireInv' /\ UploadIntact'
  BY <1>2, SameTurn, SameEscape, NoCall DEF IInv, escape
<1> QED
  BY <1>3, <1>4 DEF IInv

LEMMA TypeLateLFKeeps ==
  ASSUME IInv, TypeLateLF
  PROVE  IInv'
<1>1. PromptTypes'
  <2>1. "lateLF" \in Items
    BY DEF Items
  <2>2. Append(buffered, "lateLF") \in Seq(Items) /\ buffered \in Seq(Items)
    BY <2>1, AppendProperties DEF IInv, TypeInv, PromptTypes
  <2> QED BY <2>2 DEF IInv, TypeInv, PromptTypes, TypeLateLF
<1>2. UNCHANGED <<modem, line, heard, presses, mode, call, entry, escape, upload, download>>
  BY DEF TypeLateLF
<1>3. TypeInv'
  BY <1>1, <1>2, Same DEF IInv, TypeInv
<1>4. PromptInv' /\ EscapeInv' /\ WireInv' /\ UploadIntact'
  BY <1>2, SameTurn, SameEscape, SameWire, SameKept DEF IInv, escape, upload, download
<1> QED
  BY <1>3, <1>4 DEF IInv

LEMMA ReadTextKeeps ==
  ASSUME IInv, ReadText
  PROVE  IInv'
<1>1. PromptTypes'
  <2>1. buffered \in Seq(Items) /\ buffered # <<>> /\ line \in Lines \union Passwords \union {""}
        /\ UNCHANGED <<modem, lateLF, presses>>
    BY DEF ReadText, IInv, TypeInv, PromptTypes
  <2>2. Tail(buffered) \in Seq(Items) /\ Head(buffered) \in Items
    BY <2>1, AfterLineTyped
  <2>3. line' \in Lines \union Passwords \union {""}
    <3>1. DOMAIN Code = {"CR", "LF", "lateLF"}
      BY DEF Code
    <3>2. Items = Lines \union Passwords \union {"CR", "LF", "lateLF"}
      BY LinesAssumption DEF Items
    <3>3. line' = IF Head(buffered) \in DOMAIN Code THEN line ELSE Head(buffered)
      BY DEF ReadText
    <3> QED BY <2>1, <2>2, <3>1, <3>2, <3>3
  <2>4. buffered' = Tail(buffered)
    BY DEF ReadText
  <2> QED BY <2>1, <2>2, <2>3, <2>4 DEF IInv, TypeInv, PromptTypes
<1>2. UNCHANGED <<modem, heard, lateLF, presses, mode, call, entry, escape, upload, download>>
      /\ mode # "data"
  BY DEF ReadText
<1>3. TypeInv'
  BY <1>1, <1>2, Same DEF IInv, TypeInv
<1>4. PromptInv' /\ EscapeInv' /\ WireInv' /\ UploadIntact'
  BY <1>2, SameTurn, SameEscape, NoCall DEF IInv, escape
<1> QED
  BY <1>3, <1>4 DEF IInv

LEMMA ReadEmptyLineKeeps ==
  ASSUME IInv, ReadEmptyLine
  PROVE  IInv'
<1>1. PromptTypes'
  <2>1. buffered \in Seq(Items) /\ buffered # <<>> /\ presses \in Int
        /\ buffered' = AfterLine /\ presses' \in {presses, presses - 1}
        /\ UNCHANGED <<modem, line, lateLF>>
    BY DEF ReadEmptyLine, IInv, TypeInv, PromptTypes
  <2>2. AfterLine \in Seq(Items) /\ presses' \in Int
    BY <2>1, AfterLineTyped
  <2>3. modem \in Modems /\ line \in Lines \union Passwords \union {""} /\ lateLF \in BOOLEAN
    BY DEF IInv, TypeInv, PromptTypes
  <2> QED BY <2>1, <2>2, <2>3 DEF PromptTypes
<1>2. UNCHANGED <<modem, line, heard, lateLF, mode, call, entry, escape, upload, download>>
      /\ mode # "data"
  BY DEF ReadEmptyLine
<1>3. TypeInv'
  BY <1>1, <1>2, Same DEF IInv, TypeInv
<1>4. PromptInv' /\ EscapeInv' /\ WireInv' /\ UploadIntact'
  BY <1>2, SameTurn, SameEscape, NoCall DEF IInv, escape
<1> QED
  BY <1>3, <1>4 DEF IInv

(* A line is processed: the settings stay within their limits.               *)
LEMMA ReadCommandTypes ==
  ASSUME IInv, NEW told, ReadCommand(told)
  PROVE  PromptTypes' /\ Processed.then \in {"prompt", "dial", "data"} /\ mode = "command"
<1>1. /\ buffered \in Seq(Items) /\ buffered # <<>> /\ presses \in Int /\ modem \in Modems
      /\ line \in Lines \union Passwords /\ lateLF \in BOOLEAN
  BY DEF ReadCommand, IInv, TypeInv, PromptTypes
<1>2. AfterLine \in Seq(Items)
  BY <1>1, AfterLineTyped
<1>3. Text[line] \in [at : BOOLEAN, subs : Seq(Subs)]
  <2>1. line \in DOMAIN Text
    BY <1>1, LinesAssumption
  <2>2. Text[line] \in [at : BOOLEAN, subs : Seq([type : STRING, n : Nat, v : Nat])]
    BY <2>1, LinesAssumption
  <2> QED BY <2>2 DEF Subs
<1> DEFINE open == call # "none"
           typedLine == Text[line]
           p == processCommand(modem, typedLine, open)
<1>4. Processed = p
  BY DEF Processed
<1>5. p \in Progresses /\ p.then # "more"
  <2> HIDE DEF open, typedLine
  <2>1. typedLine \in [at : BOOLEAN, subs : Seq(Subs)]
    BY <1>3 DEF typedLine
  <2> QED BY <1>1, <2>1, ProcessedTyped
<1> HIDE DEF p
<1>6. p.modem \in Modems /\ p.then \in {"prompt", "dial", "data"}
  BY <1>5 DEF Progresses
<1>7. /\ buffered' = AfterLine /\ line' = "" /\ presses' = presses - 1 /\ modem' = p.modem
      /\ lateLF' = lateLF /\ mode = "command"
  BY <1>4 DEF ReadCommand
<1>8. PromptTypes'
  <2>1. presses' \in Int
    BY <1>1, <1>7, OneLess
  <2> QED BY <1>1, <1>2, <1>6, <1>7, <2>1 DEF PromptTypes
<1> QED
  BY <1>4, <1>6, <1>7, <1>8

(* A new filter is ready for any board. *)
LEMMA NewFilterReady ==
  /\ NewTelnetFilter \in Filters /\ NewRemoteTelnetFilter \in Filters
  /\ \A kind : Ready(kind, "nothing", NewRemoteTelnetFilter)
<1>1. 0 \in Byte /\ ZDLE # 0
  BY DEF Byte, ZDLE
<1> DEFINE f == NewRemoteTelnetFilter
           g == NewTelnetFilter
<1>2. g \in Filters /\ g.state = "data" /\ ~g.peerNegotiated /\ ~g.peerLocked /\ g.frame = <<0, 0>>
  <2>1. <<>> \in Seq(Byte) /\ <<0, 0>> \in Byte \X Byte
    BY <1>1
  <2>2. /\ g.state = "data" /\ g.command = 0 /\ g.optData = <<>> /\ g.frame = <<0, 0>>
        /\ ~g.learnPeer /\ ~g.peerNegotiated /\ ~g.peerLocked
    BY DEF NewTelnetFilter
  <2>3. g \in Filters
    BY <1>1, <2>1, Zenon DEF NewTelnetFilter, Filters, FilterStates
  <2> QED BY <2>2, <2>3
<1>3. f = [g EXCEPT !.learnPeer = TRUE]
  BY DEF NewRemoteTelnetFilter
<1> HIDE DEF f, g
<1>4. f \in Filters /\ f.state = "data" /\ ~f.peerNegotiated /\ ~f.peerLocked /\ f.frame = <<0, 0>>
  BY <1>2, <1>3 DEF Filters
<1>5. f.learnPeer
  BY <1>2, <1>3 DEF Filters
<1>6. \A kind : Ready(kind, "nothing", f)
  BY <1>1, <1>4, <1>5 DEF Ready
<1> QED
  BY <1>2, <1>4, <1>6 DEF f, g

(* A call begins with nothing on its way, in either direction.               *)
LEMMA ConnectedFine ==
  ASSUME IInv, NEW e \in Entries, Connected(e)
  PROVE  /\ CallTypes' /\ EscapeTypes' /\ UploadTypes' /\ DownloadTypes'
         /\ PromptInv' /\ WireInv' /\ UploadIntact' /\ EscapeInv'
<1>1. CallTypes' /\ PromptInv'
  BY DEF Connected, CallTypes, PromptInv
<1>2. EscapeTypes' /\ EscapeInv'
  <2>1. typed' = [run |-> 0, silence |-> 0]
    BY DEF Connected
  <2>2. typed' \in [run : 0 .. 3, silence : 0 .. Long] /\ typed'.run = 0
    BY <2>1, Times
  <2>3. /\ escapeCount' = 0 /\ sinceEscape' = 0 /\ sinceInput' = Long /\ sinceBulk' = BulkQuiet
        /\ waited' = FALSE
    BY DEF Connected
  <2>4. 0 \in 0 .. MaxEscapes /\ 0 \in 0 .. Long /\ Long \in 0 .. Long
        /\ BulkQuiet \in 0 .. BulkQuiet
    BY Times, TimesAssumption
  <2>5. EscapeTypes'
    BY <2>2, <2>3, <2>4 DEF EscapeTypes
  <2>6. EscapeInv'
    BY <2>2, <2>3 DEF EscapeInv
  <2> QED BY <2>5, <2>6
<1>3. UploadTypes'
  BY DEF Connected, UploadTypes, IInv, TypeInv
<1>4. NewRemoteTelnetFilter \in Filters /\ \A kind : Ready(kind, "nothing", NewRemoteTelnetFilter)
  BY NewFilterReady
<1>5. DownloadTypes'
  BY <1>4 DEF Connected, DownloadTypes
<1>6. WireInv'
  <2>1. Filter(NewRemoteTelnetFilter, <<>>) = Taken(NewRemoteTelnetFilter, <<>>, <<>>)
    BY <1>4, FilterNone
  <2>2. /\ Filter(NewRemoteTelnetFilter, <<>>).filtered = <<>>
        /\ Filter(NewRemoteTelnetFilter, <<>>).filter = NewRemoteTelnetFilter
    BY <2>1, TakenFields
  <2>3. /\ filter' = NewRemoteTelnetFilter /\ wire' = <<>> /\ spoken' = "nothing" /\ due' = <<>>
    BY DEF Connected
  <2> QED BY <1>4, <2>2, <2>3 DEF WireInv
<1>7. UploadIntact'
  <2>1. escapeCount' = 0 /\ owed' = <<>>
    BY DEF Connected
  <2>2. Withheld' = <<>>
    BY <2>1 DEF Withheld, Chars
  <2> QED BY <2>1, <2>2 DEF UploadIntact
<1> QED
  BY <1>1, <1>2, <1>3, <1>5, <1>6, <1>7

LEMMA ProcessLineKeeps ==
  ASSUME IInv, ProcessLine
  PROVE  IInv'
<1>1. PromptTypes' /\ mode = "command" /\ mode' \in {"command", "data"} /\ call # "open"
      /\ UNCHANGED <<call, entry, escape, upload, download>>
  BY ReadCommandTypes DEF ProcessLine, IInv, PromptInv
<1>2. CallTypes' /\ PromptInv'
  BY <1>1 DEF IInv, TypeInv, CallTypes, PromptInv
<1>3. TypeInv'
  BY <1>1, <1>2, Same DEF IInv, TypeInv
<1>4. EscapeInv' /\ WireInv' /\ UploadIntact'
  BY <1>1, SameEscape, NoCall DEF IInv, escape
<1> QED
  BY <1>2, <1>3, <1>4 DEF IInv

LEMMA DialFailsKeeps ==
  ASSUME IInv, DialFails
  PROVE  IInv'
<1>1. PromptTypes' /\ mode = "command"
      /\ UNCHANGED <<mode, call, entry, escape, upload, download>>
  BY ReadCommandTypes DEF DialFails
<1>2. TypeInv'
  BY <1>1, Same DEF IInv, TypeInv
<1>3. PromptInv' /\ EscapeInv' /\ WireInv' /\ UploadIntact'
  BY <1>1, SameTurn, SameEscape, NoCall DEF IInv, escape
<1> QED
  BY <1>2, <1>3 DEF IInv

LEMMA DialAsksKeeps ==
  ASSUME IInv, DialAsks
  PROVE  IInv'
<1>1. PromptTypes' /\ mode = "command" /\ mode' = "password" /\ call # "open"
      /\ UNCHANGED <<call, entry, escape, upload, download>>
  BY ReadCommandTypes DEF DialAsks, IInv, PromptInv
<1>2. CallTypes' /\ PromptInv'
  BY <1>1 DEF IInv, TypeInv, CallTypes, PromptInv
<1>3. TypeInv'
  BY <1>1, <1>2, Same DEF IInv, TypeInv
<1>4. EscapeInv' /\ WireInv' /\ UploadIntact'
  BY <1>1, SameEscape, NoCall DEF IInv, escape
<1> QED
  BY <1>2, <1>3, <1>4 DEF IInv

LEMMA DialConnectsKeeps ==
  ASSUME IInv, DialConnects
  PROVE  IInv'
<1>1. PICK e \in Entries : Connected(e)
  BY DEF DialConnects
<1>2. PromptTypes'
  BY ReadCommandTypes DEF DialConnects
<1> QED
  BY <1>1, <1>2, ConnectedFine DEF IInv, TypeInv

LEMMA ReadPasswordKeeps ==
  ASSUME IInv, ReadPassword
  PROVE  IInv'
<1>1. PromptTypes'
  <2>1. buffered \in Seq(Items) /\ buffered # <<>> /\ presses \in Int
        /\ buffered' = Tail(buffered) /\ line' = "" /\ presses' \in {presses, presses - 1}
        /\ UNCHANGED <<modem, lateLF>>
    BY DEF ReadPassword, IInv, TypeInv, PromptTypes
  <2>2. Tail(buffered) \in Seq(Items)
    BY <2>1, AfterLineTyped
  <2>4. presses' \in Int
    BY <2>1, OneLess
  <2>3. modem \in Modems /\ lateLF \in BOOLEAN
    BY DEF IInv, TypeInv, PromptTypes
  <2> QED BY <2>1, <2>2, <2>3, <2>4 DEF PromptTypes
<1>2. CASE \E e \in Entries : Connected(e)
  BY <1>1, <1>2, ConnectedFine DEF IInv, TypeInv
<1>3. CASE mode' = "command" /\ UNCHANGED <<call, entry, escape, upload, download>>
  <2>1. call # "open"
    BY DEF ReadPassword, IInv, PromptInv
  <2>2. CallTypes' /\ PromptInv'
    BY <1>3, <2>1 DEF IInv, TypeInv, CallTypes, PromptInv
  <2>3. TypeInv'
    BY <1>1, <1>3, <2>2, Same DEF IInv, TypeInv
  <2>4. EscapeInv' /\ WireInv' /\ UploadIntact'
    BY <1>3, SameEscape, NoCall DEF IInv, escape
  <2> QED BY <2>2, <2>3, <2>4 DEF IInv
<1> QED
  BY <1>2, <1>3 DEF ReadPassword

-----------------------------------------------------------------------------
(* The call.                                                               *)

(* What follows a prefix. *)
LEMMA PrefixRest ==
  ASSUME NEW S, NEW s \in Seq(S), NEW t \in Seq(S)
  PROVE  IsPrefix(s, s \o t) /\ SubSeq(s \o t, Len(s) + 1, Len(s \o t)) = t
<1> DEFINE w == s \o t
           m == Len(s)
           n == Len(t)
<1>1. /\ m \in Nat /\ n \in Nat /\ w \in Seq(S) /\ Len(w) = m + n
      /\ \A i \in 1 .. m : w[i] = s[i]
      /\ \A i \in 1 .. n : w[m + i] = t[i]
  <2>1. /\ w \in Seq(S) /\ Len(w) = Len(s) + Len(t)
        /\ \A i \in 1 .. Len(s) + Len(t) : w[i] = IF i <= Len(s) THEN s[i] ELSE t[i - Len(s)]
    BY ConcatProperties
  <2>2. m \in Nat /\ n \in Nat
    OBVIOUS
  <2> HIDE DEF w, m, n
  <2>3. Len(w) = m + n /\ \A i \in 1 .. m + n : w[i] = IF i <= m THEN s[i] ELSE t[i - m]
    BY <2>1 DEF m, n
  <2>4. \A i \in 1 .. m : w[i] = s[i]
    BY <2>2, <2>3
  <2>5. ASSUME NEW i \in 1 .. n PROVE w[m + i] = t[i]
    <3>1. m + i \in 1 .. m + n /\ ~(m + i <= m) /\ (m + i) - m = i
      BY <2>2
    <3> QED BY <2>3, <3>1
  <2> QED BY <2>1, <2>2, <2>3, <2>4, <2>5
<1> HIDE DEF w
<1>2. SubSeq(w, 1, m) = s
  <2> DEFINE a == SubSeq(w, 1, m)
  <2>1. \A i \in 1 .. m : w[i] \in S
    BY <1>1
  <2>2. a \in Seq(S) /\ Len(a) = m /\ \A i \in 1 .. m : a[i] = w[i]
    <3>1. /\ a \in Seq(S) /\ Len(a) = IF 1 <= m THEN m - 1 + 1 ELSE 0
          /\ \A i \in 1 .. m - 1 + 1 : a[i] = w[1 + i - 1]
      BY <1>1, <2>1, SubSeqProperties
    <3> HIDE DEF a
    <3> QED BY <1>1, <3>1
  <2> HIDE DEF a
  <2>3. a = s
    BY <1>1, <2>2, SeqEqual
  <2> QED BY <2>3 DEF a
<1>3. SubSeq(w, m + 1, m + n) = t
  <2> DEFINE a == SubSeq(w, m + 1, m + n)
  <2>1. \A i \in m + 1 .. m + n : w[i] \in S
    BY <1>1
  <2>2. a \in Seq(S) /\ Len(a) = n /\ \A i \in 1 .. n : a[i] = w[m + i]
    <3>1. /\ a \in Seq(S) /\ Len(a) = IF m + 1 <= m + n THEN m + n - (m + 1) + 1 ELSE 0
          /\ \A i \in 1 .. m + n - (m + 1) + 1 : a[i] = w[m + 1 + i - 1]
      BY <1>1, <2>1, SubSeqProperties
    <3> HIDE DEF a, m, n
    <3>2. m + 1 <= m + n <=> 1 <= n
      BY <1>1
    <3>3. m + n - (m + 1) + 1 = n
      BY <1>1
    <3>4. Len(a) = n
      BY <1>1, <3>1, <3>2, <3>3
    <3>5. ASSUME NEW i \in 1 .. n PROVE a[i] = w[m + i]
      <4>1. i \in 1 .. m + n - (m + 1) + 1 /\ m + 1 + i - 1 = m + i
        BY <1>1, <3>3
      <4> QED BY <3>1, <4>1
    <3> QED BY <3>1, <3>4, <3>5
  <2> HIDE DEF a
  <2>3. a = t
    BY <1>1, <2>2, SeqEqual
  <2> QED BY <2>3 DEF a
<1>4. SubSeq(s, 1, m) = s
  BY SubSeqFull
<1> QED
  BY <1>1, <1>2, <1>3, <1>4 DEF IsPrefix, w

LEMMA ReceivedTyped ==
  ASSUME NEW out \in Seq(Byte)
  PROVE  Received(out) \in Seq(Byte)
<1>1. Len(out) \in 0 .. Len(out)
  OBVIOUS
<1>2. Receiving(out)[Len(out)] \in Receivers
  BY <1>1, ReceivingRuns
<1> QED
  BY <1>2 DEF Received, Receivers

LEMMA OwingTyped ==
  ASSUME owed \in Seq(Nat), NEW more \in Seq(Byte), NEW out \in Seq(Byte)
  PROVE  Owing(more, out) \in Seq(Nat)
<1> DEFINE all == owed \o more
           got == Received(out)
           rest == SubSeq(all, Len(got) + 1, Len(all))
<1>1. more \in Seq(Nat)
  <2>1. Byte \subseteq Nat
    BY DEF Byte
  <2> QED BY <2>1, SeqMonotonic
<1>2. all \in Seq(Nat) /\ got \in Seq(Byte)
  BY <1>1, ConcatProperties, ReceivedTyped
<1> HIDE DEF all, got
<1>3. Len(all) \in Nat /\ Len(got) \in Nat /\ \A i \in Len(got) + 1 .. Len(all) : all[i] \in Nat
  BY <1>2
<1>4. rest \in Seq(Nat)
  BY <1>3, SubSeqProperties
<1>5. Append(all, 256) \in Seq(Nat) /\ <<>> \in Seq(Nat)
  BY <1>2, AppendProperties
<1> HIDE DEF rest
<1>6. Owing(more, out) = IF excused # "no" THEN <<>>
                         ELSE IF IsPrefix(got, all) THEN rest ELSE Append(all, 256)
  BY Zenon DEF Owing, all, got, rest
<1> QED
  BY <1>4, <1>5, <1>6

(* What the board has got is no longer owed to it. *)
LEMMA OwingKept ==
  ASSUME excused = "no", NEW more, NEW out, NEW got, Gets(out, got), NEW rest \in Seq(Byte),
         got \o rest = owed \o more
  PROVE  Owing(more, out) = rest
<1>1. Received(out) = got /\ got \in Seq(Byte)
  BY GetsReceived DEF Gets
<1>2. IsPrefix(got, got \o rest) /\ SubSeq(got \o rest, Len(got) + 1, Len(got \o rest)) = rest
  BY <1>1, PrefixRest
<1>3. Owing(more, out) = IF IsPrefix(got, got \o rest)
                         THEN SubSeq(got \o rest, Len(got) + 1, Len(got \o rest))
                         ELSE Append(got \o rest, 256)
  BY <1>1, Zenon DEF Owing
<1> QED
  BY <1>2, <1>3

(* A filter that has taken its board for a telnet one never takes it for a   *)
(* raw one again; so a raw board's filter has never done so.                 *)
LEMMA NotMisled ==
  ASSUME IInv, InCall, entry[2] = "raw"
  PROVE  ~filter.peerNegotiated
<1>1. filter \in Filters /\ wire \in Seq(Byte)
  BY DEF IInv, TypeInv, DownloadTypes
<1>2. ~Filter(filter, wire).filter.peerNegotiated
  BY DEF IInv, WireInv, Ready
<1> QED
  BY <1>1, <1>2, NegotiationLasts

LEMMA DoublingSuits ==
  ASSUME IInv, InCall, NEW d \in Seq(Byte), ~Misjudged(d)
  PROVE  Suited(d)
<1> SUFFICES ASSUME NEW i \in 1..Len(d), d[i] = IAC
             PROVE  doubleIAC <=> entry[2] # "raw"
  BY DEF Suited
<1>1. Contains(d, IAC)
  BY DEF Contains
<1>2. entry # <<"auto", "telnet">> \/ filter.peerNegotiated
  BY <1>1 DEF Misjudged, PeerSpeaksTelnet
<1>3. entry \in {<<"auto", "telnet">>, <<"auto", "raw">>, <<"yes", "telnet">>,
                 <<"yes", "telnet frontend">>, <<"no", "raw">>}
  BY EntriesAssumption DEF IInv, TypeInv, CallTypes, NoEntry
<1>4. CASE entry = <<"auto", "telnet">>
  <2>1. entry[1] = "auto" /\ entry[2] = "telnet" /\ filter.peerNegotiated
    BY <1>2, <1>4
  <2> QED BY <2>1 DEF doubleIAC, PeerSpeaksTelnet
<1>5. CASE entry = <<"auto", "raw">>
  <2>1. entry[1] = "auto" /\ entry[2] = "raw"
    BY <1>5
  <2> QED BY <2>1, NotMisled DEF doubleIAC, PeerSpeaksTelnet
<1>6. CASE entry = <<"yes", "telnet">>
  <2>1. entry[1] = "yes" /\ entry[2] = "telnet"
    BY <1>6
  <2> QED BY <2>1 DEF doubleIAC
<1>8. CASE entry = <<"yes", "telnet frontend">>
  <2>1. entry[1] = "yes" /\ entry[2] = "telnet frontend"
    BY <1>8
  <2> QED BY <2>1 DEF doubleIAC
<1>7. CASE entry = <<"no", "raw">>
  <2>1. entry[1] = "no" /\ entry[2] = "raw"
    BY <1>7
  <2> QED BY <2>1 DEF doubleIAC
<1> QED
  BY <1>3, <1>4, <1>5, <1>6, <1>7, <1>8

LEMMA ChunkKeeps ==
  ASSUME IInv, NEW c \in Chunks, Chunk(c)
  PROVE  IInv'
<1> DEFINE b == Filter(clientFilter, c.bytes)
           d == b.filtered
           bulkAge == IF c.bulk THEN 0 ELSE sinceBulk
           r == Detected(d, bulkAge)
           t == TypingOn(d, bulkAge)[Len(d)]
<1>1. /\ InCall /\ r.count <= MaxEscapes
      /\ clientFilter' = b.filter
      /\ escapeCount' = r.count /\ sinceEscape' = r.sinceEscape
      /\ sinceInput' = r.sinceInput /\ sinceBulk' = bulkAge
      /\ waited' = FALSE
      /\ owed' = Owing(d, r.out)
      /\ excused' = IF r.late THEN "late"
                    ELSE IF excused = "no" /\ Misjudged(d) THEN "misjudged" ELSE excused
      /\ typed' = [run |-> t.run, silence |-> t.silence]
      /\ UNCHANGED <<prompt, mode, call, entry, download>>
  BY Zenon DEF Chunk
<1>2. /\ modem \in Modems /\ EscapeTypes /\ EscapeInv /\ UploadIntact
      /\ clientFilter \in Filters /\ owed \in Seq(Nat) /\ excused \in {"no", "late", "misjudged"}
      /\ sinceBulk \in 0 .. BulkQuiet /\ BulkQuiet \in Nat /\ escapeCount \in Nat
  <2>1. EscapeTypes /\ EscapeInv /\ UploadIntact /\ PromptTypes /\ UploadTypes
    BY DEF IInv, TypeInv
  <2>2. sinceBulk \in 0 .. BulkQuiet /\ escapeCount \in Nat
    BY <2>1, TimesAssumption DEF EscapeTypes
  <2>3. modem \in Modems /\ clientFilter \in Filters /\ owed \in Seq(Nat)
        /\ excused \in {"no", "late", "misjudged"}
    BY <2>1 DEF PromptTypes, UploadTypes
  <2> QED BY <2>1, <2>2, <2>3, Times
<1>3. b.filter \in Filters /\ d \in Seq(Byte)
  <2>1. c.bytes \in Seq(Byte)
    BY ChunksAssumption
  <2> QED BY <1>2, <2>1, FilterTyped DEF Passed
<1>4. bulkAge \in 0 .. BulkQuiet /\ bulkAge \in Nat
  BY <1>2
<1> HIDE DEF b, d, bulkAge
<1>5. /\ r \in Detections /\ t \in Typings /\ Agree(r, t)
      /\ Suited(d) => Keeps(r, Chars(escapeCount) \o d)
  BY <1>2, <1>3, <1>4, ChunkHeard, Zenon
<1>6. ~Misjudged(d) => Suited(d)
  BY <1>1, <1>3, DoublingSuits
<1> HIDE DEF r, t
<1>7. /\ r.count \in Nat /\ r.sinceEscape \in 0 .. Long /\ r.sinceInput \in 0 .. Long
      /\ r.out \in Seq(Byte) /\ r.late \in BOOLEAN
      /\ t.run \in 0 .. 3 /\ t.silence \in 0 .. Long
  BY <1>5 DEF Detections, Typings
<1>8. EscapeTypes'
  <2>1. typed' \in [run : 0 .. 3, silence : 0 .. Long]
    BY <1>1, <1>7
  <2>2. r.count \in 0 .. MaxEscapes
    BY <1>1, <1>7, TimesAssumption
  <2>3. sinceEscape' \in 0 .. Long /\ sinceInput' \in 0 .. Long /\ sinceBulk' \in 0 .. BulkQuiet
    BY <1>1, <1>4, <1>7
  <2> QED BY <1>1, <2>1, <2>2, <2>3 DEF EscapeTypes
<1>9. EscapeInv'
  <2>1. typed'.run = t.run /\ typed'.silence = t.silence
    BY <1>1
  <2>2. r.sinceInput \in Nat /\ Guard \in Nat
    BY <1>7, Times
  <2> QED BY <1>1, <1>5, <2>1, <2>2 DEF EscapeInv, Agree
<1>10. UploadTypes'
  <2>1. Owing(d, r.out) \in Seq(Nat)
    BY <1>2, <1>3, <1>7, OwingTyped
  <2>2. excused' \in {"no", "late", "misjudged"}
    BY <1>1, <1>2
  <2> QED BY <1>1, <1>3, <2>1, <2>2 DEF UploadTypes
<1>11. UploadIntact'
  <2> SUFFICES ASSUME excused' = "no" PROVE owed' = Withheld'
    BY DEF UploadIntact
  <2>1. excused = "no" /\ ~r.late /\ ~Misjudged(d)
    BY <1>1
  <2>2. owed = Chars(escapeCount)
    BY <1>1, <1>2, <2>1 DEF UploadIntact, Withheld
  <2>3. PICK got \in Seq(Byte) : Gets(r.out, got) /\ got \o Chars(r.count) = Chars(escapeCount) \o d
    BY <1>5, <1>6, <2>1 DEF Keeps
  <2>4. Chars(r.count) \in Seq(Byte)
    BY <1>2, <1>7, CharsTyped
  <2>5. Owing(d, r.out) = Chars(r.count)
    <3>1. got \o Chars(r.count) = owed \o d
      BY <2>2, <2>3
    <3> QED BY <2>1, <2>3, <2>4, <3>1, OwingKept
  <2>6. Withheld' = Chars(r.count)
    <3>1. modem' = modem
      BY <1>1 DEF prompt
    <3> QED BY <1>1, <3>1 DEF Withheld, Chars, EscapeChar
  <2> QED BY <1>1, <2>5, <2>6
<1>12. TypeInv'
  BY <1>1, <1>8, <1>10, Same DEF IInv, TypeInv
<1>13. PromptInv' /\ WireInv'
  BY <1>1, SameTurn, SameWire DEF IInv
<1> QED
  BY <1>9, <1>11, <1>12, <1>13 DEF IInv

-----------------------------------------------------------------------------
(* The session leaves a call. *)
LEMMA LeaveDataKeeps ==
  ASSUME IInv, NEW c \in {"none", "dead"}, NEW result, LeaveData(c, result)
  PROVE  IInv'
<1>1. /\ mode' = "command" /\ call' = c /\ entry' = NoEntry
      /\ escapeCount' = 0 /\ sinceEscape' = 0 /\ sinceInput' = 0 /\ sinceBulk' = 0
      /\ waited' = FALSE /\ typed' = [run |-> 0, silence |-> 0]
      /\ owed' = <<>> /\ excused' = "no" /\ clientFilter' = clientFilter
      /\ filter' = NewRemoteTelnetFilter /\ wire' = <<>> /\ spoken' = "nothing" /\ due' = <<>>
      /\ UNCHANGED <<modem, buffered, line, lateLF, presses>>
  BY DEF LeaveData
<1>2. PromptTypes' /\ CallTypes' /\ PromptInv' /\ UploadTypes'
  <2>1. PromptTypes' /\ PromptInv'
    BY <1>1 DEF IInv, TypeInv, PromptTypes, PromptInv
  <2>2. CallTypes'
    BY <1>1 DEF CallTypes, NoEntry
  <2>3. owed' \in Seq(Nat)
    BY <1>1
  <2> QED BY <1>1, <2>1, <2>2, <2>3 DEF IInv, TypeInv, UploadTypes
<1>3. EscapeTypes' /\ EscapeInv'
  <2>1. typed' \in [run : 0 .. 3, silence : 0 .. Long] /\ typed'.run = 0
    BY <1>1, Times
  <2>2. 0 \in 0 .. MaxEscapes /\ 0 \in 0 .. Long /\ 0 \in 0 .. BulkQuiet
    BY Times, TimesAssumption
  <2>3. EscapeTypes'
    BY <1>1, <2>1, <2>2 DEF EscapeTypes
  <2>4. EscapeInv'
    BY <1>1, <2>1 DEF EscapeInv
  <2> QED BY <2>3, <2>4
<1>4. DownloadTypes'
  BY <1>1, NewFilterReady DEF DownloadTypes, Ready
<1>5. WireInv' /\ UploadIntact'
  BY <1>1, NoCall
<1> QED
  BY <1>2, <1>3, <1>4, <1>5 DEF IInv, TypeInv

LEMMA EscapeKeeps ==
  ASSUME IInv, Escape
  PROVE  IInv'
BY LeaveDataKeeps DEF Escape

LEMMA RemoteGoneKeeps ==
  ASSUME IInv, RemoteGone
  PROVE  IInv'
BY LeaveDataKeeps DEF RemoteGone

(* What was kept back and is no escape reaches the board. *)
LEMMA ReleaseKeeps ==
  ASSUME IInv, Release
  PROVE  IInv'
<1>1. /\ escapeCount > 0 /\ sinceEscape > Guard /\ escapeCount < 3 /\ InCall
      /\ escapeCount' = 0 /\ sinceEscape' = 0 /\ owed' = Owing(<<>>, Withheld) /\ waited' = FALSE
      /\ UNCHANGED <<prompt, mode, call, entry, download, clientFilter, excused,
                     sinceInput, sinceBulk, typed>>
  BY DEF Release, GuardOver
<1>2. /\ escapeCount \in Nat /\ sinceEscape \in Nat /\ modem \in Modems
      /\ owed \in Seq(Nat) /\ EscapeTypes /\ EscapeInv /\ <<>> \in Seq(Byte)
  <2>1. EscapeTypes /\ EscapeInv /\ PromptTypes /\ UploadTypes
    BY DEF IInv, TypeInv
  <2>2. escapeCount \in Nat /\ sinceEscape \in Nat
    BY <2>1, Times, TimesAssumption DEF EscapeTypes
  <2>3. modem \in Modems /\ owed \in Seq(Nat)
    BY <2>1 DEF PromptTypes, UploadTypes
  <2>4. <<>> \in Seq(Byte)
    OBVIOUS
  <2> QED BY <2>1, <2>2, <2>3, <2>4
<1>3. Withheld \in Seq(Byte)
  BY <1>2, CharsTyped DEF Withheld
<1>4. EscapeTypes'
  <2>1. 0 \in 0 .. MaxEscapes /\ 0 \in 0 .. Long
    BY Times, TimesAssumption
  <2> QED BY <1>1, <1>2, <2>1 DEF EscapeTypes
<1>5. EscapeInv'
  BY <1>1, <1>2 DEF EscapeInv
<1>6. UploadTypes'
  <2>1. Owing(<<>>, Withheld) \in Seq(Nat)
    BY <1>2, <1>3, OwingTyped
  <2> QED BY <1>1, <2>1 DEF IInv, TypeInv, UploadTypes
<1>7. UploadIntact'
  <2> SUFFICES ASSUME excused = "no" PROVE owed' = Withheld'
    BY <1>1 DEF UploadIntact
  <2>1. owed = Withheld
    BY <1>1 DEF IInv, UploadIntact
  <2>2. Gets(Withheld, Withheld)
    <3>1. Gets(<<>> \o Chars(escapeCount), <<>> \o Chars(escapeCount))
      BY <1>2, GetsNothing, GetsChars
    <3>2. <<>> \o Chars(escapeCount) = Withheld
      BY <1>3, ConcatEmptySeq DEF Withheld
    <3> QED BY <3>1, <3>2, Zenon
  <2>3. Withheld \o <<>> = owed \o <<>>
    BY <2>1
  <2>4. owed' = <<>>
    BY <1>1, <1>2, <2>2, <2>3, OwingKept
  <2>5. Withheld' = <<>>
    BY <1>1 DEF Withheld, Chars
  <2> QED BY <2>4, <2>5
<1>8. TypeInv'
  BY <1>1, <1>4, <1>6, Same DEF IInv, TypeInv
<1>9. PromptInv' /\ WireInv'
  BY <1>1, SameTurn, SameWire DEF IInv
<1> QED
  BY <1>5, <1>7, <1>8, <1>9 DEF IInv

LEMMA PollAgainKeeps ==
  ASSUME IInv, PollAgain
  PROVE  IInv'
<1>1. /\ waited' = FALSE
      /\ UNCHANGED <<prompt, mode, call, entry, upload, download,
                     escapeCount, sinceEscape, sinceInput, sinceBulk, typed>>
  BY DEF PollAgain
<1>2. EscapeTypes'
  BY <1>1 DEF IInv, TypeInv, EscapeTypes
<1>3. TypeInv'
  BY <1>1, <1>2, Same DEF IInv, TypeInv
<1>4. PromptInv' /\ EscapeInv' /\ WireInv' /\ UploadIntact'
  BY <1>1, SameTurn, SameEscape, SameWire, SameKept DEF IInv, prompt, upload
<1> QED
  BY <1>3, <1>4 DEF IInv

LEMMA TickKeeps ==
  ASSUME IInv, Tick
  PROVE  IInv'
<1>1. /\ waited' = TRUE
      /\ sinceEscape' = IF escapeCount > 0 THEN Older(sinceEscape, Long) ELSE 0
      /\ sinceInput' = Older(sinceInput, Long)
      /\ sinceBulk' = Older(sinceBulk, BulkQuiet)
      /\ UNCHANGED <<prompt, mode, call, entry, upload, download, escapeCount, typed>>
  BY DEF Tick
<1>2. ASSUME NEW most \in Nat, NEW age \in 0 .. most PROVE Older(age, most) \in 0 .. most
  BY DEF Older
<1>3. Long \in Nat /\ BulkQuiet \in Nat /\ Guard \in Nat /\ Long = Guard + 1
  BY Times
<1>4. EscapeTypes
  BY DEF IInv, TypeInv
<1>5. EscapeTypes'
  <2>1. /\ Older(sinceEscape, Long) \in 0 .. Long /\ Older(sinceInput, Long) \in 0 .. Long
        /\ Older(sinceBulk, BulkQuiet) \in 0 .. BulkQuiet /\ 0 \in 0 .. Long
    BY <1>2, <1>3, <1>4 DEF EscapeTypes
  <2>2. sinceEscape' \in 0 .. Long
    BY <1>1, <2>1
  <2> QED BY <1>1, <1>4, <2>1, <2>2 DEF EscapeTypes
<1>6. EscapeInv'
  <2>1. EscapeInv
    BY DEF IInv
  <2>2. sinceInput > Guard => Older(sinceInput, Long) > Guard
    BY <1>3, <1>4 DEF Older, EscapeTypes
  <2> QED BY <1>1, <2>1, <2>2 DEF EscapeInv
<1>7. TypeInv'
  BY <1>1, <1>5, Same DEF IInv, TypeInv
<1>8. PromptInv' /\ WireInv' /\ UploadIntact'
  BY <1>1, SameTurn, SameWire, SameKept DEF IInv, prompt, upload
<1> QED
  BY <1>6, <1>7, <1>8 DEF IInv

(* A message of the board, when what came before it has not all been read.   *)
LEMMA BoardSendsKeeps ==
  ASSUME IInv, NEW m \in Messages, BoardSends(m)
  PROVE  IInv'
<1>1. /\ InCall /\ entry[2] = m.from /\ spoken \in m.after
      /\ wire' = wire \o m.wire /\ due' = due \o m.content /\ spoken' = Shown(spoken, m)
      /\ UNCHANGED <<prompt, mode, call, entry, escape, upload, filter>>
  BY DEF BoardSends, Shown
<1>2. /\ filter \in Filters /\ wire \in Seq(Byte) /\ due \in Seq(Nat)
      /\ spoken \in {"nothing", "negotiation", "frame"}
      /\ due = Filter(filter, wire).filtered
      /\ Ready(m.from, spoken, Filter(filter, wire).filter)
  BY <1>1 DEF IInv, TypeInv, DownloadTypes, WireInv
<1> DEFINE f == Filter(filter, wire).filter
           w == m.wire
<1>3. w \in Seq(Byte) /\ m.shows \in {"nothing", "negotiation", "frame"}
  BY MessagesAssumption DEF RawMessage, TelnetMessage
<1>4. Filter(f, w).filtered = m.content /\ Ready(m.from, Shown(spoken, m), Filter(f, w).filter)
  BY <1>1, <1>2, MessageHeard
<1>5. f \in Filters /\ Filter(f, w).filtered \in Seq(Byte)
  BY <1>2, <1>3, FilterTyped DEF Passed
<1>6. /\ Filter(filter, wire \o w).filter = Filter(f, w).filter
      /\ Filter(filter, wire \o w).filtered = Filter(filter, wire).filtered \o Filter(f, w).filtered
  BY <1>2, <1>3, CutsDoNotMatter, Zenon
<1> HIDE DEF f
<1>7. DownloadTypes'
  <2>1. wire \o w \in Seq(Byte)
    BY <1>2, <1>3, ConcatProperties
  <2>2. due \o m.content \in Seq(Nat)
    <3>1. Byte \subseteq Nat
      BY DEF Byte
    <3>2. m.content \in Seq(Nat)
      BY <1>4, <1>5, <3>1, SeqMonotonic
    <3> QED BY <1>2, <3>2, ConcatProperties
  <2>3. Shown(spoken, m) \in {"nothing", "negotiation", "frame"}
    BY <1>2, <1>3 DEF Shown
  <2> QED BY <1>1, <1>2, <2>1, <2>2, <2>3 DEF DownloadTypes
<1>8. WireInv'
  <2>1. due' = Filter(filter', wire').filtered
    BY <1>1, <1>2, <1>4, <1>6, Zenon DEF w
  <2>2. Ready(entry'[2], spoken', Filter(filter', wire').filter)
    BY <1>1, <1>4, <1>6, Zenon DEF w
  <2> QED BY <2>1, <2>2 DEF WireInv
<1>9. TypeInv'
  BY <1>1, <1>7, Same DEF IInv, TypeInv
<1>10. PromptInv' /\ EscapeInv' /\ UploadIntact'
  BY <1>1, SameTurn, SameEscape, SameKept DEF IInv, prompt, escape, upload
<1> QED
  BY <1>8, <1>9, <1>10 DEF IInv

(* A read, wherever it cuts what the board has sent. *)
LEMMA RemoteReadsKeeps ==
  ASSUME IInv, NEW n \in 1 .. Len(wire), RemoteReads(n)
  PROVE  IInv'
<1> DEFINE a == SubSeq(wire, 1, n)
           b == SubSeq(wire, n + 1, Len(wire))
           t == Filter(filter, a)
           u == Filter(t.filter, b)
<1>1. /\ InCall
      /\ filter' = t.filter /\ wire' = b
      /\ due' = IF IsPrefix(t.filtered, due)
                THEN SubSeq(due, Len(t.filtered) + 1, Len(due)) ELSE <<256>>
      /\ UNCHANGED <<prompt, mode, call, entry, escape, upload, spoken>>
  BY Zenon DEF RemoteReads
<1>2. /\ filter \in Filters /\ wire \in Seq(Byte) /\ spoken \in {"nothing", "negotiation", "frame"}
      /\ due = Filter(filter, wire).filtered
      /\ Ready(entry[2], spoken, Filter(filter, wire).filter)
  <2>1. InCall
    BY <1>1, Zenon
  <2> HIDE DEF a, b, t, u
  <2> QED BY <2>1 DEF IInv, TypeInv, DownloadTypes, WireInv
<1>3. a \in Seq(Byte) /\ b \in Seq(Byte) /\ a \o b = wire
  <2>1. Len(wire) \in Nat /\ \A i \in 1 .. Len(wire) : wire[i] \in Byte
    BY <1>2
  <2>2. a \in Seq(Byte)
    BY <2>1, SubSeqProperties
  <2>3. b \in Seq(Byte)
    BY <2>1, SubSeqProperties
  <2>4. SubSeq(wire, 1, Len(wire)) = wire
    BY <1>2, SubSeqFull
  <2>5. 1 \in 1 .. Len(wire) + 1 /\ n \in 1 - 1 .. Len(wire) /\ Len(wire) \in n .. Len(wire)
    BY <2>1
  <2>6. SubSeq(wire, 1, n) \o SubSeq(wire, n + 1, Len(wire)) = SubSeq(wire, 1, Len(wire))
    BY <1>2, <2>5, ConcatAdjacentSubSeq
  <2> QED BY <2>2, <2>3, <2>4, <2>6
<1> HIDE DEF a, b
<1>4. t.filter \in Filters /\ t.filtered \in Seq(Byte)
  BY <1>2, <1>3, FilterTyped DEF Passed
<1>5. u.filtered \in Seq(Byte)
  BY <1>3, <1>4, FilterTyped DEF Passed
<1>6. Filter(filter, wire).filter = u.filter /\ due = t.filtered \o u.filtered
  <2>1. /\ Filter(filter, a \o b).filter = u.filter
        /\ Filter(filter, a \o b).filtered = t.filtered \o u.filtered
    BY <1>2, <1>3, CutsDoNotMatter, Zenon
  <2> QED BY <1>2, <1>3, <2>1
<1>7. due' = u.filtered
  <2> DEFINE s == t.filtered
             v == u.filtered
  <2> HIDE DEF s, v
  <2>1. IsPrefix(s, s \o v) /\ SubSeq(s \o v, Len(s) + 1, Len(s \o v)) = v
    BY <1>4, <1>5, PrefixRest DEF s, v
  <2> QED BY <1>1, <1>6, <2>1 DEF s, v
<1>8. DownloadTypes'
  <2>1. Byte \subseteq Nat
    BY DEF Byte
  <2>2. u.filtered \in Seq(Nat)
    BY <1>5, <2>1, SeqMonotonic
  <2> QED BY <1>1, <1>2, <1>3, <1>4, <1>7, <2>2 DEF DownloadTypes
<1>9. WireInv'
  <2>1. due' = Filter(filter', wire').filtered
    BY <1>1, <1>7
  <2>2. Ready(entry'[2], spoken', Filter(filter', wire').filter)
    BY <1>1, <1>2, <1>6
  <2> QED BY <2>1, <2>2 DEF WireInv
<1>10. TypeInv'
  BY <1>1, <1>8, Same DEF IInv, TypeInv
<1>11. PromptInv' /\ EscapeInv' /\ UploadIntact'
  BY <1>1, SameTurn, SameEscape, SameKept DEF IInv, prompt, escape, upload
<1> QED
  BY <1>9, <1>10, <1>11 DEF IInv

LEMMA BoardHangsUpKeeps ==
  ASSUME IInv, BoardHangsUp
  PROVE  IInv'
<1>1. mode = "data" /\ call' = "dead"
      /\ UNCHANGED <<prompt, mode, entry, escape, upload, download>>
  BY DEF BoardHangsUp, InCall
<1>2. CallTypes' /\ PromptInv'
  BY <1>1 DEF IInv, TypeInv, CallTypes, PromptInv
<1>3. TypeInv'
  BY <1>1, <1>2, Same DEF IInv, TypeInv
<1>4. EscapeInv' /\ WireInv' /\ UploadIntact'
  BY <1>1, SameEscape, NoCall DEF IInv, escape
<1> QED
  BY <1>2, <1>3, <1>4 DEF IInv

-----------------------------------------------------------------------------
(* The inductive invariant, and what it shows.                             *)

LEMMA InitHolds == Init => IInv
<1> SUFFICES ASSUME Init PROVE IInv
  OBVIOUS
<1>1. /\ modem = PowerOn /\ mode = "command" /\ call = "none" /\ entry = NoEntry
      /\ buffered = <<>> /\ line = "" /\ clientFilter = NewTelnetFilter
      /\ filter = NewRemoteTelnetFilter
      /\ escapeCount = 0 /\ sinceEscape = 0 /\ sinceInput = 0 /\ sinceBulk = 0 /\ waited = FALSE
      /\ wire = <<>> /\ spoken = "nothing"
      /\ lateLF = FALSE /\ presses = 0 /\ owed = <<>> /\ due = <<>>
      /\ typed = [run |-> 0, silence |-> 0] /\ excused = "no"
  BY DEF Init
<1>2. PromptTypes
  <2>1. <<>> \in Seq(Items) /\ 0 \in Int
    OBVIOUS
  <2>2. modem \in Modems /\ buffered \in Seq(Items)
    BY <1>1, <2>1, PowerOnFine, Zenon
  <2>3. line \in Lines \union Passwords \union {""} /\ lateLF \in BOOLEAN /\ presses \in Int
    BY <1>1, <2>1, Zenon
  <2> QED BY <2>2, <2>3 DEF PromptTypes
<1>3. CallTypes /\ PromptInv
  BY <1>1 DEF CallTypes, PromptInv
<1>4. EscapeTypes
  <2>1. 0 \in 0 .. MaxEscapes /\ 0 \in 0 .. Long /\ 0 \in 0 .. BulkQuiet /\ 0 \in 0 .. 3
    BY Times, TimesAssumption
  <2>2. [run |-> 0, silence |-> 0] \in [run : 0 .. 3, silence : 0 .. Long]
    BY <2>1
  <2>3. typed \in [run : 0 .. 3, silence : 0 .. Long]
    BY <1>1, <2>2, Zenon
  <2> QED BY <1>1, <2>1, <2>3, Zenon DEF EscapeTypes
<1>5. EscapeInv
  <2>1. [run |-> 0, silence |-> 0].run = 0
    OBVIOUS
  <2>2. typed.run = 0
    BY <1>1, <2>1, Zenon
  <2>3. escapeCount = 0
    BY <1>1
  <2> QED BY <2>2, <2>3 DEF EscapeInv
<1>6. UploadTypes /\ DownloadTypes
  <2>1. <<>> \in Seq(Nat) /\ <<>> \in Seq(Byte)
    OBVIOUS
  <2>2. UploadTypes
    BY <1>1, <2>1, NewFilterReady DEF UploadTypes
  <2>3. DownloadTypes
    BY <1>1, <2>1, NewFilterReady DEF DownloadTypes
  <2> QED BY <2>2, <2>3
<1>7. WireInv /\ UploadIntact
  BY <1>1 DEF WireInv, UploadIntact, InCall
<1> QED
  BY <1>2, <1>3, <1>4, <1>5, <1>6, <1>7 DEF IInv, TypeInv

LEMMA StepHolds == IInv /\ [Next]_vars => IInv'
<1> SUFFICES ASSUME IInv, [Next]_vars PROVE IInv'
  OBVIOUS
<1>1. ASSUME NEW seg \in Segments, Type(seg) PROVE IInv'
  BY <1>1, TypeKeeps
<1>2. CASE TypeLateLF
  BY <1>2, TypeLateLFKeeps
<1>3. CASE ReadText
  BY <1>3, ReadTextKeeps
<1>4. CASE ReadEmptyLine
  BY <1>4, ReadEmptyLineKeeps
<1>5. CASE ProcessLine
  BY <1>5, ProcessLineKeeps
<1>6. CASE DialFails
  BY <1>6, DialFailsKeeps
<1>7. CASE DialAsks
  BY <1>7, DialAsksKeeps
<1>8. CASE DialConnects
  BY <1>8, DialConnectsKeeps
<1>9. CASE ReadPassword
  BY <1>9, ReadPasswordKeeps
<1>10. ASSUME NEW c \in Chunks, Chunk(c) PROVE IInv'
  BY <1>10, ChunkKeeps
<1>11. CASE Escape
  BY <1>11, EscapeKeeps
<1>12. CASE Release
  BY <1>12, ReleaseKeeps
<1>13. CASE PollAgain
  BY <1>13, PollAgainKeeps
<1>14. CASE Tick
  BY <1>14, TickKeeps
<1>15. ASSUME NEW m \in Messages, BoardSends(m) PROVE IInv'
  BY <1>15, BoardSendsKeeps
<1>16. ASSUME NEW n \in 1 .. Len(wire), RemoteReads(n) PROVE IInv'
  BY <1>16, RemoteReadsKeeps
<1>17. CASE BoardHangsUp
  BY <1>17, BoardHangsUpKeeps
<1>18. CASE RemoteGone
  BY <1>18, RemoteGoneKeeps
<1>19. CASE UNCHANGED vars
  <2>1. UNCHANGED <<prompt, mode, call, entry, escape, upload, download>>
    BY <1>19 DEF vars
  <2>2. TypeInv'
    BY <2>1, Same DEF IInv, TypeInv
  <2>3. PromptInv' /\ EscapeInv' /\ WireInv' /\ UploadIntact'
    BY <2>1, SameTurn, SameEscape, SameWire, SameKept DEF IInv, prompt, escape, upload
  <2> QED BY <2>2, <2>3 DEF IInv
<1> QED
  BY <1>1, <1>2, <1>3, <1>4, <1>5, <1>6, <1>7, <1>8, <1>9, <1>10, <1>11, <1>12, <1>13, <1>14,
     <1>15, <1>16, <1>17, <1>18, <1>19 DEF Next

LEMMA Invariance == Spec => []IInv
BY InitHolds, StepHolds, PTL DEF Spec

(* Whatever a caller types, each register stays within its limits and the    *)
(* settings, clocks and filters are well-formed (sregisters.go, commands.go,  *)
(* session.go).                                                              *)
THEOREM TypeCorrect == Spec => []TypeOK
<1>1. IInv => TypeOK
  <2> SUFFICES ASSUME TypeInv PROVE TypeOK
    BY DEF IInv
  <2>1. PromptTypes /\ CallTypes /\ EscapeTypes /\ UploadTypes /\ DownloadTypes
    BY DEF TypeInv
  <2>2. modem \in Modems
    BY <2>1 DEF PromptTypes
  <2>3. modem.registers \in RegisterFiles
    BY <2>2 DEF Modems
  <2>4. WithinLimits(modem.registers)
    BY <2>3, RegistersTyped
  <2>5. /\ modem.echo \in BOOLEAN /\ modem.verbose \in BOOLEAN /\ modem.quiet \in BOOLEAN
        /\ modem.xlevel \in 0 .. 4 /\ modem.errorCorrection \in {0, 5}
    BY <2>2 DEF Modems
  <2>6. line \in Lines \union Passwords \union {""}
    BY <2>1 DEF PromptTypes
  <2>7. /\ mode \in {"command", "password", "data"} /\ call \in {"none", "open", "dead"}
        /\ entry \in Entries \union {NoEntry}
    BY <2>1 DEF CallTypes
  <2>8. /\ escapeCount \in 0 .. MaxEscapes /\ waited \in BOOLEAN
        /\ sinceEscape \in 0 .. Long /\ sinceInput \in 0 .. Long /\ sinceBulk \in 0 .. BulkQuiet
        /\ typed \in [run : 0 .. 3, silence : 0 .. Long]
    BY <2>1 DEF EscapeTypes
  <2>9. /\ filter \in Filters /\ clientFilter \in Filters
        /\ spoken \in {"nothing", "negotiation", "frame"}
        /\ excused \in {"no", "late", "misjudged"}
    BY <2>1 DEF UploadTypes, DownloadTypes
  <2> QED
    BY <2>4, <2>5, <2>6, <2>7, <2>8, <2>9 DEF TypeOK, WithinLimits
<1> QED
  BY Invariance, <1>1, PTL

(* What any board sends, raw or telnet, reaches the caller byte for byte with *)
(* the telnet commands taken out, wherever reads cut it and across the start  *)
(* of a transfer (session.go:600-660, dialer.go:238-327).                     *)
THEOREM DownloadAlwaysIntact == Spec => []DownloadIntact
<1>1. IInv => DownloadIntact
  <2> SUFFICES ASSUME IInv, InCall PROVE ~Contains(due, 256) /\ (wire = <<>> => due = <<>>)
    BY DEF DownloadIntact
  <2>1. filter \in Filters /\ wire \in Seq(Byte) /\ due = Filter(filter, wire).filtered
    BY DEF IInv, TypeInv, DownloadTypes, WireInv
  <2>2. due \in Seq(Byte)
    BY <2>1, FilterTyped DEF Passed
  <2>3. ~Contains(due, 256)
    <3>1. 256 \notin Byte
      BY DEF Byte
    <3> QED BY <2>2, <3>1 DEF Contains
  <2>4. ASSUME wire = <<>> PROVE due = <<>>
    <3>1. Filter(filter, <<>>) = Taken(filter, <<>>, <<>>)
      BY <2>1, FilterNone
    <3>2. Filter(filter, <<>>).filtered = <<>>
      BY <3>1, TakenFields
    <3> QED BY <2>1, <2>4, <3>2
  <2> QED BY <2>3, <2>4
<1> QED
  BY Invariance, <1>1, PTL

(* Every data byte of the caller reaches the board once and in order, 255     *)
(* doubled for a board that expects it, except the escape characters kept     *)
(* back: for any register S2, any chunks and any phonebook entry whose mode   *)
(* is right for its board (session.go:760-835).                               *)
THEOREM UploadAlwaysIntact == Spec => []UploadIntact
BY Invariance, PTL DEF IInv

(* A poll returns to the prompt only when the caller has typed the escape,    *)
(* and always when it has, for any guard time (session.go:730-760).           *)
THEOREM EscapeAlwaysTyped == Spec => EscapeIsTyped
<1> DEFINE Right == /\ mode' = "command" => Typed(Guard)
                    /\ Typed(Guard + 1) => mode' = "command"
<1>1. IInv /\ [Next]_vars => [Poll => Right]_vars
  <2> SUFFICES ASSUME IInv, Poll PROVE Right
    OBVIOUS
  <2>1. EscapeInv /\ EscapeTypes
    BY DEF IInv, TypeInv
  <2>2. /\ escapeCount \in Nat /\ sinceEscape \in Nat /\ sinceInput \in Nat
        /\ typed.run \in 0 .. 3 /\ typed.silence \in Nat /\ Guard \in Nat
    BY <2>1, Times, TimesAssumption DEF EscapeTypes
  <2>3. CASE Escape
    <3>1. mode' = "command" /\ escapeCount >= 3 /\ sinceEscape > Guard
      BY <2>3 DEF Escape, LeaveData, GuardOver
    <3>2. Typed(Guard)
      BY <2>1, <2>2, <3>1 DEF EscapeInv, Typed
    <3> QED BY <3>1, <3>2
  <2>4. CASE Release
    <3>1. mode' = "data" /\ escapeCount > 0 /\ escapeCount < 3
      BY <2>4 DEF Release, GuardOver, InCall
    <3>2. ~Typed(Guard + 1)
      BY <2>1, <2>2, <3>1 DEF EscapeInv, Typed
    <3> QED BY <3>1, <3>2
  <2>5. CASE PollAgain
    <3>1. mode' = "data" /\ ~GuardOver
      BY <2>5 DEF PollAgain, InCall
    <3>2. ~Typed(Guard + 1)
      BY <2>1, <2>2, <3>1 DEF EscapeInv, Typed, GuardOver
    <3> QED BY <3>1, <3>2
  <2> QED BY <2>3, <2>4, <2>5 DEF Poll
<1> QED
  BY Invariance, <1>1, PTL DEF Spec, EscapeIsTyped

-----------------------------------------------------------------------------
(* What is written for a line, counted: its results and its information.   *)

Count(q, X) == Cardinality({i \in DOMAIN q : q[i] \in X})

LEMMA CountConcat ==
  ASSUME NEW S, NEW s \in Seq(S), NEW t \in Seq(S), NEW X
  PROVE  Count(s, X) \in Nat /\ Count(t, X) \in Nat /\ Count(s \o t, X) = Count(s, X) + Count(t, X)
<1> DEFINE w == s \o t
           m == Len(s)
           n == Len(t)
           A == {i \in DOMAIN s : s[i] \in X}
           B == {i \in DOMAIN t : t[i] \in X}
           C == {m + i : i \in B}
           U == {i \in DOMAIN w : w[i] \in X}
<1>1. m \in Nat /\ n \in Nat /\ DOMAIN s = 1 .. m /\ DOMAIN t = 1 .. n
  OBVIOUS
<1>2. /\ DOMAIN w = 1 .. m + n
      /\ \A i \in 1 .. m + n : w[i] = IF i <= m THEN s[i] ELSE t[i - m]
  <2>1. /\ w \in Seq(S) /\ Len(w) = Len(s) + Len(t)
        /\ \A i \in 1 .. Len(s) + Len(t) : w[i] = IF i <= Len(s) THEN s[i] ELSE t[i - Len(s)]
    BY ConcatProperties
  <2> HIDE DEF w
  <2> QED BY <2>1
<1> HIDE DEF w, m, n
<1>3. A \subseteq 1 .. m /\ B \subseteq 1 .. n /\ \A i \in C : i \in m + 1 .. m + n /\ i - m \in B
  BY <1>1
<1>4. U = A \union C /\ A \cap C = {}
  <2>1. ASSUME NEW i \in U PROVE i \in A \union C
    <3>1. i \in 1 .. m + n /\ w[i] \in X
      BY <1>2
    <3>2. CASE i <= m
      BY <1>1, <1>2, <3>1, <3>2
    <3>3. CASE ~(i <= m)
      <4>1. i - m \in 1 .. n /\ m + (i - m) = i /\ t[i - m] \in X
        BY <1>1, <1>2, <3>1, <3>3
      <4>2. i - m \in B
        BY <1>1, <4>1
      <4> QED BY <4>1, <4>2
    <3> QED BY <3>2, <3>3
  <2>2. ASSUME NEW i \in A PROVE i \in U
    BY <1>1, <1>2
  <2>3. ASSUME NEW i \in B PROVE m + i \in U
    <3>1. i \in 1 .. n /\ t[i] \in X
      BY <1>1
    <3>2. m + i \in 1 .. m + n /\ ~(m + i <= m) /\ (m + i) - m = i
      BY <1>1, <3>1
    <3> QED BY <1>2, <3>1, <3>2
  <2>4. A \cap C = {}
    BY <1>1, <1>3
  <2> HIDE DEF A, U
  <2>5. \A i \in C : i \in U
    BY <2>3
  <2> QED BY <2>1, <2>2, <2>4, <2>5
<1>5. IsFiniteSet(A) /\ IsFiniteSet(B)
  <2>1. IsFiniteSet(1 .. m) /\ IsFiniteSet(1 .. n)
    BY <1>1, FS_Interval
  <2> HIDE DEF A, B
  <2> QED BY <1>3, <2>1, FS_Subset
<1>6. IsFiniteSet(C) /\ Cardinality(C) = Cardinality(B)
  <2> DEFINE f == [i \in B |-> m + i]
  <2>1. f \in [B -> C]
    OBVIOUS
  <2>2. \A i, j \in B : f[i] = f[j] => i = j
    BY <1>1, <1>3
  <2>3. \A k \in C : \E i \in B : f[i] = k
    OBVIOUS
  <2> HIDE DEF f, B, C
  <2>4. f \in Bijection(B, C)
    BY <2>1, <2>2, <2>3 DEF Bijection, Injection, IsInjective, Surjection
  <2>5. ExistsBijection(B, C)
    BY <2>4 DEF ExistsBijection
  <2> QED BY <1>5, <2>5, FS_Bijection
<1> HIDE DEF A, B, C
<1>7. Cardinality(A) \in Nat /\ Cardinality(B) \in Nat /\ Cardinality({}) = 0
  BY <1>5, FS_CardinalityType, FS_EmptySet
<1> HIDE DEF U
<1>8. Cardinality(U) = Cardinality(A) + Cardinality(B)
  <2>1. Cardinality(A \union C) = Cardinality(A) + Cardinality(C) - Cardinality(A \cap C)
    BY <1>5, <1>6, FS_Union
  <2>2. Cardinality(A \cap C) = 0
    BY <1>4, <1>7
  <2>3. Cardinality(U) = Cardinality(A) + Cardinality(B) - 0
    BY <1>4, <1>6, <2>1, <2>2
  <2> QED BY <1>7, <2>3
<1> QED
  BY <1>7, <1>8 DEF A, B, U, w, Count

One(m) == IF m.quiet THEN 0 ELSE 1

LEMMA Counts ==
  ASSUME NEW s \in Seq(Writings), NEW t \in Seq(Writings)
  PROVE  /\ Results(s) \in Nat /\ Infos(s) \in Nat
         /\ Results(s \o t) = Results(s) + Results(t)
         /\ Infos(s \o t) = Infos(s) + Infos(t)
<1>1. \A q \in Seq(Writings) :
        Results(q) = Count(q, Writings \ {Info}) /\ Infos(q) = Count(q, {Info})
  <2> SUFFICES ASSUME NEW q \in Seq(Writings)
               PROVE  Results(q) = Count(q, Writings \ {Info}) /\ Infos(q) = Count(q, {Info})
    OBVIOUS
  <2>1. /\ {i \in DOMAIN q : q[i] # Info} = {i \in DOMAIN q : q[i] \in Writings \ {Info}}
        /\ {i \in DOMAIN q : q[i] = Info} = {i \in DOMAIN q : q[i] \in {Info}}
    OBVIOUS
  <2> QED BY <2>1, Zenon DEF Results, Infos, Count
<1>2. s \o t \in Seq(Writings)
  BY ConcatProperties
<1> DEFINE A == Writings \ {Info}
           B == {Info}
<1> HIDE DEF A, B
<1>3. /\ Count(s, A) \in Nat /\ Count(s, B) \in Nat
      /\ Count(s \o t, A) = Count(s, A) + Count(t, A)
      /\ Count(s \o t, B) = Count(s, B) + Count(t, B)
  BY CountConcat
<1>4. /\ Results(s) = Count(s, A) /\ Results(t) = Count(t, A) /\ Results(s \o t) = Count(s \o t, A)
      /\ Infos(s) = Count(s, B) /\ Infos(t) = Count(t, B) /\ Infos(s \o t) = Count(s \o t, B)
  BY <1>1, <1>2, Zenon DEF A, B
<1> QED
  BY <1>3, <1>4, Zenon

LEMMA CountsOfFew ==
  /\ Results(<<>>) = 0 /\ Infos(<<>>) = 0
  /\ Results(<<Info>>) = 0 /\ Infos(<<Info>>) = 1
  /\ \A w : w # Info => Results(<<w>>) = 1 /\ Infos(<<w>>) = 0
<1>1. Cardinality({}) = 0 /\ \A x : Cardinality({x}) = 1
  BY FS_EmptySet, FS_Singleton
<1>2. {i \in DOMAIN <<>> : <<>>[i] # Info} = {} /\ {i \in DOMAIN <<>> : <<>>[i] = Info} = {}
  OBVIOUS
<1>3. \A w : DOMAIN <<w>> = {1} /\ <<w>>[1] = w
  OBVIOUS
<1>4. /\ {i \in DOMAIN <<Info>> : <<Info>>[i] # Info} = {}
      /\ {i \in DOMAIN <<Info>> : <<Info>>[i] = Info} = {1}
  BY <1>3
<1>5. \A w : w # Info => /\ {i \in DOMAIN <<w>> : <<w>>[i] # Info} = {1}
                         /\ {i \in DOMAIN <<w>> : <<w>>[i] = Info} = {}
  BY <1>3
<1> QED
  BY <1>1, <1>2, <1>4, <1>5, Zenon DEF Results, Infos

(* A result is written once, or not at all in quiet mode. *)
LEMMA ResultCounts ==
  ASSUME NEW m \in Modems, NEW code \in Codes \ {"info"}
  PROVE  /\ Results(formatResult(m, code)) = One(m) /\ Infos(formatResult(m, code)) = 0
         /\ formatResult(m, code) = <<>> <=> m.quiet
<1> DEFINE w == [code |-> code, verbose |-> m.verbose, cr |-> GetCR(m),
                 lf |-> IF m.verbose THEN GetLF(m) ELSE 0]
<1>1. w # Info
  <2>1. w.code = code /\ Info.code = "info"
    BY DEF Info
  <2> HIDE DEF w
  <2> QED BY <2>1
<1>2. formatResult(m, code) = IF m.quiet THEN <<>> ELSE <<w>>
  BY DEF formatResult
<1>3. <<w>> # <<>>
  OBVIOUS
<1> HIDE DEF w
<1> QED
  BY <1>1, <1>2, <1>3, CountsOfFew DEF One

LEMMA EndsWith ==
  ASSUME NEW S, NEW s \in Seq(S), NEW w \in S
  PROVE  IsSuffix(<<w>>, s \o <<w>>) /\ SubSeq(s \o <<w>>, 1, Len(s \o <<w>>) - Len(<<w>>)) = s
<1> DEFINE e == s \o <<w>>
           n == Len(s)
           R == Reverse(e)
           Q == Reverse(<<w>>)
<1>1. n \in Nat /\ <<w>> \in Seq(S) /\ Len(<<w>>) = 1 /\ <<w>>[1] = w
  OBVIOUS
<1>2. e \in Seq(S) /\ Len(e) = n + 1 /\ e[n + 1] = w
  <2>1. /\ e \in Seq(S) /\ Len(e) = Len(s) + Len(<<w>>)
        /\ \A i \in 1 .. Len(s) + Len(<<w>>) :
             e[i] = IF i <= Len(s) THEN s[i] ELSE <<w>>[i - Len(s)]
    BY <1>1, ConcatProperties
  <2> HIDE DEF e
  <2>2. n + 1 \in 1 .. Len(s) + Len(<<w>>) /\ ~(n + 1 <= Len(s)) /\ (n + 1) - Len(s) = 1
    BY <1>1
  <2> QED BY <1>1, <2>1, <2>2
<1>3. SubSeq(e, 1, Len(e) - 1) = s
  <2>1. Len(e) - 1 = n
    BY <1>1, <1>2
  <2>2. CASE n = 0
    <3>1. s = <<>> /\ SubSeq(e, 1, 0) = <<>>
      BY <2>2, SubSeqEmpty
    <3> QED BY <2>1, <2>2, <3>1
  <2>3. CASE n # 0
    <3>1. 1 \in 1 .. Len(s) /\ n \in 1 .. Len(s)
      BY <1>1, <2>3
    <3>2. SubSeq(e, 1, n) = SubSeq(s, 1, n)
      BY <1>1, <3>1, SubSeqOfConcat1
    <3>3. SubSeq(s, 1, n) = s
      BY SubSeqFull
    <3> QED BY <2>1, <3>2, <3>3
  <2> QED BY <2>2, <2>3
<1> HIDE DEF e
<1>4. R \in Seq(S) /\ Len(R) = n + 1 /\ R[1] = w
  <2>1. R = [i \in 1 .. n + 1 |-> e[(n + 1) - i + 1]]
    BY <1>2 DEF Reverse
  <2>2. \A i \in 1 .. n + 1 : (n + 1) - i + 1 \in 1 .. n + 1
    BY <1>1
  <2>3. \A i \in 1 .. n + 1 : e[i] \in S
    BY <1>2
  <2>4. 1 \in 1 .. n + 1 /\ (n + 1) - 1 + 1 = n + 1
    BY <1>1
  <2> HIDE DEF R, n
  <2> QED BY <1>1, <1>2, <2>1, <2>2, <2>3, <2>4
<1>5. Q \in Seq(S) /\ Len(Q) = 1 /\ Q[1] = w
  BY <1>1 DEF Reverse
<1> HIDE DEF R, Q
<1>6. SubSeq(R, 1, 1) = SubSeq(Q, 1, 1)
  <2> DEFINE a == SubSeq(R, 1, 1)
             b == SubSeq(Q, 1, 1)
  <2>1. a \in Seq(S) /\ Len(a) = 1 /\ a[1] = w
    <3>1. \A i \in 1 .. 1 : R[i] \in S
      BY <1>4
    <3>2. /\ a \in Seq(S) /\ Len(a) = IF 1 <= 1 THEN 1 - 1 + 1 ELSE 0
          /\ \A i \in 1 .. 1 - 1 + 1 : a[i] = R[1 + i - 1]
      BY <3>1, SubSeqProperties
    <3> HIDE DEF a
    <3> QED BY <1>4, <3>2
  <2>2. b \in Seq(S) /\ Len(b) = 1 /\ b[1] = w
    <3>1. \A i \in 1 .. 1 : Q[i] \in S
      BY <1>5
    <3>2. /\ b \in Seq(S) /\ Len(b) = IF 1 <= 1 THEN 1 - 1 + 1 ELSE 0
          /\ \A i \in 1 .. 1 - 1 + 1 : b[i] = Q[1 + i - 1]
      BY <3>1, SubSeqProperties
    <3> HIDE DEF b
    <3> QED BY <1>5, <3>2
  <2> HIDE DEF a, b
  <2>3. a = b
    BY <2>1, <2>2, SeqEqual
  <2> QED BY <2>3 DEF a, b
<1>7. IsSuffix(<<w>>, e)
  BY <1>1, <1>4, <1>5, <1>6 DEF IsSuffix, IsPrefix, R, Q
<1> QED
  BY <1>1, <1>3, <1>7 DEF e

(* A suffix of one writing takes off one writing or none. *)
LEMMA Trimmed ==
  ASSUME NEW s \in Seq(Writings), NEW w \in Writings, NEW v \in Writings
  PROVE  /\ TrimSuffix(s \o <<w>>, <<v>>) \in {s, s \o <<w>>}
         /\ v = w => TrimSuffix(s \o <<w>>, <<v>>) = s
<1> DEFINE e == s \o <<w>>
           t == TrimSuffix(e, <<v>>)
<1>1. <<v>> # <<>> /\ Len(<<v>>) = 1 /\ Len(<<w>>) = 1
  OBVIOUS
<1>2. IsSuffix(<<w>>, e) /\ SubSeq(e, 1, Len(e) - Len(<<w>>)) = s
  BY EndsWith
<1> HIDE DEF e
<1>3. SubSeq(e, 1, Len(e) - Len(<<v>>)) = s
  BY <1>1, <1>2
<1>4. t = IF <<v>> # <<>> /\ IsSuffix(<<v>>, e) THEN SubSeq(e, 1, Len(e) - Len(<<v>>)) ELSE e
  BY DEF TrimSuffix
<1> HIDE DEF t
<1>5. t = s \/ t = e
  BY <1>3, <1>4, Zenon
<1>6. v = w => t = s
  BY <1>1, <1>2, <1>3, <1>4, Zenon
<1> QED
  BY <1>5, <1>6, Zenon DEF t, e

Asking(cmd) == IF HasInfo(cmd) THEN 1 ELSE 0
SameEnds(m, after) == <<GetCR(m), GetLF(m)>> = <<GetCR(after), GetLF(after)>>

(* What a command answers: its information, and one result, which is taken   *)
(* off again unless the command has changed how results end.                *)
LEMMA AnswerCounts ==
  ASSUME NEW m \in Modems, NEW cmd \in Commands
  PROVE  LET x == Execute(m, cmd)
             kept == TrimSuffix(x.response, formatResult(x.modem, "OK"))
         IN  /\ x.modem = Effect(m, cmd)
             /\ Results(x.response) = One(x.modem) /\ Infos(x.response) = Asking(cmd)
             /\ x.response = <<>> => x.modem.quiet /\ Asking(cmd) = 0
             /\ Infos(kept) = Asking(cmd)
             /\ x.modem.quiet \/ SameEnds(m, x.modem) => Results(kept) = 0
<1> DEFINE after == Effect(m, cmd)
           shown == [after EXCEPT !.registers = m.registers]
           info == IF HasInfo(cmd) THEN <<Info>> ELSE <<>>
           response == info \o formatResult(shown, "OK")
           kept == TrimSuffix(response, formatResult(after, "OK"))
           Goal == /\ Results(response) = One(after) /\ Infos(response) = Asking(cmd)
                   /\ response = <<>> => after.quiet /\ Asking(cmd) = 0
                   /\ Infos(kept) = Asking(cmd)
                   /\ after.quiet \/ SameEnds(m, after) => Results(kept) = 0
<1>1. /\ Execute(m, cmd).modem = after
      /\ Execute(m, cmd).response = response
  BY DEF Execute
<1>2. after \in Modems
  BY EffectTyped
<1> HIDE DEF after
<1>3. /\ shown \in Modems /\ shown.quiet = after.quiet /\ shown.verbose = after.verbose
      /\ shown.registers = m.registers
  BY <1>2 DEF Modems
<1> HIDE DEF shown
<1>4. GetCR(shown) = GetCR(m) /\ GetLF(shown) = GetLF(m)
  BY <1>3 DEF GetCR, GetLF
<1>5. /\ info \in Seq(Writings) /\ Results(info) = 0 /\ Infos(info) = Asking(cmd)
      /\ info = <<>> => Asking(cmd) = 0
  <2>1. CASE HasInfo(cmd)
    <3>1. <<Info>> \in Seq(Writings) /\ <<Info>> # <<>>
      BY InfoTyped
    <3> QED BY <2>1, <3>1, CountsOfFew, Zenon DEF Asking
  <2>2. CASE ~HasInfo(cmd)
    <3>1. <<>> \in Seq(Writings)
      OBVIOUS
    <3> QED BY <2>2, <3>1, CountsOfFew, Zenon DEF Asking
  <2> QED BY <2>1, <2>2
<1>9. /\ response = info \o formatResult(shown, "OK")
      /\ kept = TrimSuffix(response, formatResult(after, "OK"))
  OBVIOUS
<1> HIDE DEF info, response, kept
<1>10. LET r == Execute(m, cmd).response
           t == TrimSuffix(r, formatResult(Execute(m, cmd).modem, "OK"))
       IN  r = response /\ t = kept
  BY <1>1, <1>9, Zenon
<1>11. SUFFICES Goal
  BY <1>1, <1>10, Zenon DEF after
<1> HIDE DEF Goal
<1>6. CASE after.quiet
  <2>1. formatResult(shown, "OK") = <<>> /\ formatResult(after, "OK") = <<>> /\ One(after) = 0
    BY <1>3, <1>6 DEF formatResult, One
  <2>2. response = info
    <3>1. info \o <<>> = info
      BY <1>5, ConcatEmptySeq
    <3> QED BY <1>9, <2>1, <3>1, Zenon
  <2>3. TrimSuffix(info, <<>>) = info
    BY Zenon DEF TrimSuffix
  <2>4. kept = info
    BY <1>9, <2>1, <2>2, <2>3, Zenon
  <2>5. /\ Results(response) = One(after) /\ Infos(response) = Asking(cmd)
        /\ Infos(kept) = Asking(cmd) /\ Results(kept) = 0
    BY <1>5, <2>1, <2>2, <2>4, Zenon
  <2>6. response = <<>> => Asking(cmd) = 0
    BY <1>5, <2>2, Zenon
  <2> QED BY <1>6, <2>5, <2>6 DEF Goal
<1>7. CASE ~after.quiet
  <2> DEFINE w == [code |-> "OK", verbose |-> shown.verbose, cr |-> GetCR(shown),
                   lf |-> IF shown.verbose THEN GetLF(shown) ELSE 0]
             v == [code |-> "OK", verbose |-> after.verbose, cr |-> GetCR(after),
                   lf |-> IF after.verbose THEN GetLF(after) ELSE 0]
  <2>1. formatResult(shown, "OK") = <<w>> /\ formatResult(after, "OK") = <<v>> /\ One(after) = 1
    BY <1>3, <1>7 DEF formatResult, One
  <2>2. w \in Writings /\ v \in Writings
    <3>1. ASSUME NEW n \in Modems PROVE n.verbose \in BOOLEAN /\ GetCR(n) \in Nat /\ GetLF(n) \in Nat
      BY GetTyped DEF Modems
    <3> QED BY <1>2, <1>3, <3>1 DEF Writings, Codes
  <2>3. w # Info
    <3>1. w.code = "OK" /\ Info.code = "info"
      BY DEF Info
    <3> HIDE DEF w
    <3> QED BY <3>1
  <2>4. SameEnds(m, after) => v = w
    BY <1>3, <1>4 DEF SameEnds
  <2> HIDE DEF w, v
  <2>5. <<w>> \in Seq(Writings) /\ Results(<<w>>) = 1 /\ Infos(<<w>>) = 0
    BY <2>2, <2>3, CountsOfFew
  <2>6. Asking(cmd) \in Nat
    BY DEF Asking
  <2>7. Results(info \o <<w>>) = 1 /\ Infos(info \o <<w>>) = Asking(cmd)
    <3>1. /\ Results(info \o <<w>>) = Results(info) + Results(<<w>>)
          /\ Infos(info \o <<w>>) = Infos(info) + Infos(<<w>>)
      BY <1>5, <2>5, Counts, Zenon
    <3> QED BY <1>5, <2>5, <2>6, <3>1
  <2>8. info \o <<w>> # <<>>
    <3>1. Len(info \o <<w>>) = Len(info) + Len(<<w>>) /\ Len(info) \in Nat /\ Len(<<w>>) = 1
      BY <1>5, <2>5, ConcatProperties
    <3>2. Len(<<>>) = 0
      OBVIOUS
    <3>3. Len(info \o <<w>>) # 0
      BY <3>1
    <3> QED BY <3>2, <3>3, Zenon
  <2>9. kept \in {info, info \o <<w>>} /\ (v = w => kept = info)
    <3>1. kept = TrimSuffix(info \o <<w>>, <<v>>)
      BY <1>9, <2>1, Zenon
    <3>2. /\ TrimSuffix(info \o <<w>>, <<v>>) \in {info, info \o <<w>>}
          /\ v = w => TrimSuffix(info \o <<w>>, <<v>>) = info
      BY <1>5, <2>2, Trimmed
    <3> QED BY <3>1, <3>2, Zenon
  <2>10. response = info \o <<w>>
    BY <1>9, <2>1, Zenon
  <2>11. Infos(kept) = Asking(cmd) /\ (SameEnds(m, after) => Results(kept) = 0)
    BY <1>5, <2>4, <2>7, <2>9, Zenon
  <2>12. Results(response) = One(after) /\ Infos(response) = Asking(cmd) /\ response # <<>>
    BY <2>1, <2>7, <2>8, <2>10, Zenon
  <2> QED BY <1>7, <2>11, <2>12 DEF Goal
<1> QED
  BY <1>6, <1>7

(* A line ends with a command that is unknown, dials or goes back to a call. *)
Ends(cmd) == cmd = Unknown \/ cmd.type \in {"D", "O"}
Asks(cmd) == HasInfo(cmd) \/ cmd.type = "CLS"
Num(b) == IF b THEN 1 ELSE 0

LEMMA NoEffect ==
  ASSUME NEW m, NEW cmd, Ends(cmd) \/ cmd.type = "CLS"
  PROVE  Effect(m, cmd) = m /\ ~HasInfo(cmd)
<1>1. cmd.type \in {"unknown", "D", "O", "CLS"}
  BY UnknownType DEF Ends
<1> QED
  BY <1>1, EffectCases DEF HasInfo

LEMMA FlushedCounts ==
  ASSUME NEW p \in Progresses, NEW text \in Seq(Writings)
  PROVE  LET q == Flushed(p, text)
         IN  /\ q \in Progresses /\ q.modem = p.modem /\ q.then = p.then
             /\ Results(q.out) = (Results(p.out) + Results(p.infoOut)) + Results(text)
             /\ Infos(q.out) = (Infos(p.out) + Infos(p.infoOut)) + Infos(text)
             /\ Results(q.infoOut) = 0 /\ Infos(q.infoOut) = 0
<1> DEFINE q == Flushed(p, text)
           k == p.out \o p.infoOut
<1>1. p.out \in Seq(Writings) /\ p.infoOut \in Seq(Writings)
  BY DEF Progresses
<1>2. /\ q \in Progresses /\ q.modem = p.modem /\ q.then = p.then
      /\ q.out = k \o text /\ q.infoOut = <<>>
  BY FlushedTyped
<1>3. /\ k \in Seq(Writings) /\ Results(k) = Results(p.out) + Results(p.infoOut)
      /\ Infos(k) = Infos(p.out) + Infos(p.infoOut)
  BY <1>1, Counts, ConcatProperties
<1> HIDE DEF q, k
<1>4. Results(k \o text) = Results(k) + Results(text) /\ Infos(k \o text) = Infos(k) + Infos(text)
  BY <1>3, Counts
<1> QED
  BY <1>2, <1>3, <1>4, CountsOfFew, Zenon DEF q

LEMMA ProgressCounts ==
  ASSUME NEW p \in Progresses
  PROVE  /\ Results(p.out) \in Nat /\ Results(p.infoOut) \in Nat
         /\ Infos(p.out) \in Nat /\ Infos(p.infoOut) \in Nat
<1>1. p.out \in Seq(Writings) /\ p.infoOut \in Seq(Writings)
  BY DEF Progresses
<1> QED
  BY <1>1, Counts

(* The command that ends a line tells what was kept back, and its result     *)
(* unless it dials.                                                          *)
LEMMA EndAnswers ==
  ASSUME NEW p \in Progresses, NEW cmd \in Commands, NEW isLast, NEW hasRemote, Ends(cmd)
  PROVE  LET q == OneCommand(p, cmd, isLast, hasRemote)
         IN  /\ q.modem = p.modem /\ q.then # "more"
             /\ Infos(q.out) = Infos(p.out) + Infos(p.infoOut)
             /\ Results(q.out) = (Results(p.out) + Results(p.infoOut))
                                 + (IF q.then = "dial" THEN 0 ELSE One(p.modem))
<1> DEFINE q == OneCommand(p, cmd, isLast, hasRemote)
           Ending(text, next) == q = Ended(Flushed(p, text), next)
           ri == Results(p.out) + Results(p.infoOut)
           ii == Infos(p.out) + Infos(p.infoOut)
           Goal == /\ q.modem = p.modem /\ q.then # "more" /\ Infos(q.out) = ii
                   /\ Results(q.out) = ri + (IF q.then = "dial" THEN 0 ELSE One(p.modem))
<1>1. p.modem \in Modems
  BY DEF Progresses
<1>2. ASSUME NEW text \in Seq(Writings), NEW next \in {"prompt", "dial", "data"},
             Infos(text) = 0, Results(text) = (IF next = "dial" THEN 0 ELSE One(p.modem)),
             Ending(text, next)
      PROVE  Goal
  <2> DEFINE f == Flushed(p, text)
             e == Ended(f, next)
  <2>1. /\ f \in Progresses /\ f.modem = p.modem
        /\ Results(f.out) = ri + Results(text) /\ Infos(f.out) = ii + Infos(text)
    BY FlushedCounts
  <2> HIDE DEF f
  <2>2. e.modem = f.modem /\ e.then = next /\ e.out = f.out
    BY <2>1, EndedTyped
  <2> HIDE DEF e
  <2>3. q = e
    BY <1>2, Zenon DEF e, f
  <2>4. ii \in Nat
    BY ProgressCounts
  <2> HIDE DEF q, ii, ri
  <2>5. Infos(f.out) = ii
    BY <1>2, <2>1, <2>4
  <2>6. next # "more"
    BY <1>2
  <2> QED BY <1>2, <2>1, <2>2, <2>3, <2>5, <2>6, Zenon
<1>3. \A code \in {"ERROR", "CONNECT", "NO CARRIER"} :
        /\ formatResult(p.modem, code) \in Seq(Writings)
        /\ Results(formatResult(p.modem, code)) = One(p.modem)
        /\ Infos(formatResult(p.modem, code)) = 0
  BY <1>1, ResultTyped, ResultCounts DEF Codes
<1>4. <<>> \in Seq(Writings)
  OBVIOUS
<1> SUFFICES Goal
  OBVIOUS
<1> HIDE DEF Goal
<1>5. CASE cmd = Unknown
  <2>1. Ending(formatResult(p.modem, "ERROR"), "prompt")
    BY <1>5, UnknownType DEF OneCommand
  <2> HIDE DEF Ending
  <2> QED BY <1>2, <1>3, <2>1
<1>6. CASE cmd # Unknown /\ cmd.type = "D"
  <2>1. Ending(<<>>, "dial")
    BY <1>6, UnknownType DEF OneCommand
  <2> HIDE DEF Ending
  <2> QED BY <1>2, <1>4, <2>1, CountsOfFew
<1>7. CASE cmd # Unknown /\ cmd.type = "O"
  <2>1. \/ Ending(formatResult(p.modem, "CONNECT"), "data")
        \/ Ending(formatResult(p.modem, "NO CARRIER"), "prompt")
    BY <1>7, UnknownType DEF OneCommand
  <2> HIDE DEF Ending
  <2> QED BY <1>2, <1>3, <2>1
<1> QED
  BY <1>5, <1>6, <1>7 DEF Ends

LEMMA KeptCounts ==
  ASSUME NEW q \in Progresses, NEW kept \in Seq(Writings)
  PROVE  LET e == [q EXCEPT !.infoOut = @ \o kept]
         IN  /\ e.modem = q.modem /\ e.then = q.then /\ e.out = q.out
             /\ Results(e.infoOut) = Results(q.infoOut) + Results(kept)
             /\ Infos(e.infoOut) = Infos(q.infoOut) + Infos(kept)
<1> DEFINE info == q.infoOut \o kept
           e == [q EXCEPT !.infoOut = info]
<1>1. q.infoOut \in Seq(Writings)
  BY DEF Progresses
<1>2. Results(info) = Results(q.infoOut) + Results(kept) /\ Infos(info) = Infos(q.infoOut) + Infos(kept)
  BY <1>1, Counts, Zenon
<1>3. [q EXCEPT !.infoOut = @ \o kept] = e
  BY Zenon
<1> HIDE DEF info
<1>4. e.modem = q.modem /\ e.then = q.then /\ e.out = q.out /\ e.infoOut = info
  BY DEF Progresses
<1> HIDE DEF e
<1> QED
  BY <1>2, <1>3, <1>4, Zenon

(* A command that does not end the line: the last one's result is told, that *)
(* of an earlier one is not, and no information is lost.                     *)
LEMMA GoOnAnswers ==
  ASSUME NEW p \in Progresses, NEW cmd \in Commands, NEW isLast, NEW hasRemote, ~Ends(cmd)
  PROVE  LET q == OneCommand(p, cmd, isLast, hasRemote)
             after == Effect(p.modem, cmd)
             told == (Infos(p.out) + Infos(p.infoOut)) + Num(Asks(cmd))
             results == Results(p.out) + Results(p.infoOut)
         IN  /\ q.modem = after /\ q.then = p.then
             /\ isLast => /\ ~after.quiet => Infos(q.out) = told
                          /\ results = 0 => Results(q.out) = One(after)
             /\ ~isLast => /\ Infos(q.out) + Infos(q.infoOut) = told
                           /\ results = 0 /\ (after.quiet \/ SameEnds(p.modem, after)) =>
                                Results(q.out) + Results(q.infoOut) = 0
<1> DEFINE q == OneCommand(p, cmd, isLast, hasRemote)
           after == Effect(p.modem, cmd)
           told == (Infos(p.out) + Infos(p.infoOut)) + Num(Asks(cmd))
           results == Results(p.out) + Results(p.infoOut)
           Goal == /\ q.modem = after /\ q.then = p.then
                   /\ isLast => /\ ~after.quiet => Infos(q.out) = told
                                /\ results = 0 => Results(q.out) = One(after)
                   /\ ~isLast => /\ Infos(q.out) + Infos(q.infoOut) = told
                                 /\ results = 0 /\ (after.quiet \/ SameEnds(p.modem, after)) =>
                                      Results(q.out) + Results(q.infoOut) = 0
<1>1. p.modem \in Modems /\ cmd # Unknown /\ cmd.type \notin {"D", "O"}
  BY DEF Progresses, Ends
<1>2. /\ Results(p.out) \in Nat /\ Results(p.infoOut) \in Nat
      /\ Infos(p.out) \in Nat /\ Infos(p.infoOut) \in Nat
  BY ProgressCounts
<1>3. \A m : One(m) \in Nat /\ (m.quiet => One(m) = 0)
  BY DEF One
<1> SUFFICES Goal
  OBVIOUS
<1>4. CASE cmd.type = "CLS"
  <2> DEFINE last == IF isLast THEN formatResult(p.modem, "OK") ELSE <<>>
             text == <<Info>> \o last
  <2>1. q = Flushed(p, text)
    BY <1>1, <1>4, UnknownType DEF OneCommand
  <2>2. after = p.modem /\ Num(Asks(cmd)) = 1
    BY <1>4, NoEffect DEF Asks, Num
  <2>3. /\ last \in Seq(Writings) /\ Infos(last) = 0
        /\ Results(last) = IF isLast THEN One(p.modem) ELSE 0
    <3>1. "OK" \in Codes \ {"info"} /\ <<>> \in Seq(Writings)
      BY DEF Codes
    <3>2. /\ formatResult(p.modem, "OK") \in Seq(Writings) /\ Infos(formatResult(p.modem, "OK")) = 0
          /\ Results(formatResult(p.modem, "OK")) = One(p.modem)
      BY <1>1, <3>1, ResultTyped, ResultCounts
    <3> QED BY <3>1, <3>2, CountsOfFew, Zenon
  <2> HIDE DEF last
  <2>4. text \in Seq(Writings) /\ Results(text) = Results(last) /\ Infos(text) = 1
    <3>1. <<Info>> \in Seq(Writings)
      BY InfoTyped
    <3>2. /\ Results(text) = Results(<<Info>>) + Results(last)
          /\ Infos(text) = Infos(<<Info>>) + Infos(last) /\ Results(last) \in Nat
      BY <2>3, <3>1, Counts
    <3>3. Results(<<Info>>) = 0 /\ Infos(<<Info>>) = 1
      BY CountsOfFew
    <3>4. text \in Seq(Writings)
      BY <2>3, <3>1, ConcatProperties
    <3> HIDE DEF text
    <3> QED BY <2>3, <3>2, <3>3, <3>4
  <2> HIDE DEF text, q
  <2>5. /\ q.modem = p.modem /\ q.then = p.then
        /\ Results(q.out) = results + Results(text)
        /\ Infos(q.out) = (Infos(p.out) + Infos(p.infoOut)) + 1
        /\ Results(q.infoOut) = 0 /\ Infos(q.infoOut) = 0
    BY <2>1, <2>4, FlushedCounts
  <2> HIDE DEF after
  <2> QED BY <1>2, <1>3, <2>2, <2>3, <2>4, <2>5
<1>5. CASE cmd.type # "CLS"
  <2> DEFINE x == Execute(p.modem, cmd)
             o == [p EXCEPT !.modem = x.modem]
             kept == TrimSuffix(x.response, formatResult(x.modem, "OK"))
             asks == Asking(cmd)
  <2>1. q = Answered(o, x.response, isLast)
    BY <1>1, <1>5, UnknownType DEF OneCommand
  <2>2. Num(Asks(cmd)) = asks /\ asks \in Nat
    BY <1>5 DEF Num, Asks, Asking
  <2>3. /\ x.modem = after
        /\ Results(x.response) = One(after) /\ Infos(x.response) = asks
        /\ x.response = <<>> => after.quiet /\ asks = 0
        /\ Infos(kept) = asks
        /\ after.quiet \/ SameEnds(p.modem, after) => Results(kept) = 0
    BY <1>1, AnswerCounts
  <2>4. x.modem \in Modems /\ x.response \in Seq(Writings)
    BY <1>1, ExecuteTyped
  <2>5. kept \in Seq(Writings)
    BY <2>4, ResultTyped, TrimSuffixTyped DEF Codes
  <2> HIDE DEF x, asks, after
  <2>6. /\ o \in Progresses /\ o.modem = after /\ o.then = p.then
        /\ o.out = p.out /\ o.infoOut = p.infoOut
    BY <2>3, <2>4 DEF Progresses
  <2> HIDE DEF o, q
  <2>7. CASE x.response = <<>>
    <3>1. q = o
      BY <2>1, <2>7, Zenon DEF Answered
    <3>2. q.modem = after /\ q.then = p.then /\ q.out = p.out /\ q.infoOut = p.infoOut
      BY <2>6, <3>1, Zenon
    <3>3. Num(Asks(cmd)) = 0 /\ after.quiet /\ One(after) = 0
      BY <1>3, <2>2, <2>3, <2>7
    <3> QED BY <1>2, <3>2, <3>3
  <2>8. CASE x.response # <<>> /\ isLast
    <3>1. q = Flushed(o, x.response)
      BY <2>1, <2>8, Zenon DEF Answered
    <3>2. /\ q.modem = o.modem /\ q.then = o.then
          /\ Results(q.out) = (Results(o.out) + Results(o.infoOut)) + Results(x.response)
          /\ Infos(q.out) = (Infos(o.out) + Infos(o.infoOut)) + Infos(x.response)
      BY <2>4, <2>6, <3>1, FlushedCounts, Zenon
    <3>3. /\ q.modem = after /\ q.then = p.then
          /\ Results(q.out) = results + One(after)
          /\ Infos(q.out) = (Infos(p.out) + Infos(p.infoOut)) + asks
      BY <2>3, <2>6, <3>2, Zenon
    <3> QED BY <1>2, <1>3, <2>2, <2>8, <3>3
  <2>9. CASE x.response # <<>> /\ ~isLast
    <3>1. q = [o EXCEPT !.infoOut = @ \o kept]
      BY <2>1, <2>3, <2>6, <2>9, Zenon DEF Answered
    <3> HIDE DEF kept
    <3>2. /\ q.modem = o.modem /\ q.then = o.then /\ q.out = o.out
          /\ Results(q.infoOut) = Results(o.infoOut) + Results(kept)
          /\ Infos(q.infoOut) = Infos(o.infoOut) + Infos(kept)
      BY <2>5, <2>6, <3>1, KeptCounts, Zenon
    <3>3. Results(kept) \in Nat
      BY <2>5, Counts
    <3> QED BY <1>2, <2>2, <2>3, <2>6, <2>9, <3>2, <3>3
  <2> QED BY <2>7, <2>8, <2>9
<1> QED
  BY <1>4, <1>5

-----------------------------------------------------------------------------
(* A line, command by command.                                             *)

(* Every command before the last is known, and dials no number. *)
LEMMA OnlyLastEnds ==
  ASSUME NEW entered, entered \in [at : BOOLEAN, subs : Seq(Subs)]
  PROVE  LET cmds == ParseCommandLine(entered)
         IN  \A i \in 1 .. Len(cmds) - 1 : cmds[i] # Unknown /\ cmds[i].type # "D"
<1>1. CASE ~entered.at
  <2>1. ParseCommandLine(entered) = <<Unknown>>
    BY <1>1 DEF ParseCommandLine
  <2>2. 1 .. Len(<<Unknown>>) - 1 = {}
    OBVIOUS
  <2> QED BY <2>1, <2>2
<1>2. CASE entered.at /\ entered.subs = <<>>
  <2>1. ParseCommandLine(entered) = <<Plain("AT")>>
    BY <1>2 DEF ParseCommandLine
  <2>2. 1 .. Len(<<Plain("AT")>>) - 1 = {}
    OBVIOUS
  <2> QED BY <2>1, <2>2
<1>3. CASE entered.at /\ entered.subs # <<>>
  <2> DEFINE cmd(i) == ParseCommand(entered.subs[i])
             ends == {i \in DOMAIN entered.subs : entered.subs[i].type = "D" \/ cmd(i) = Unknown}
             last == IF ends = {} THEN Len(entered.subs)
                     ELSE CHOOSE i \in ends : \A j \in ends : i <= j
             cmds == [i \in 1 .. last |-> cmd(i)]
  <2>1. ParseCommandLine(entered) = cmds
    BY <1>3, Zenon DEF ParseCommandLine
  <2>2. Len(entered.subs) \in Nat \ {0} /\ DOMAIN entered.subs = 1 .. Len(entered.subs)
    BY <1>3
  <2>3. ends \subseteq 1 .. Len(entered.subs)
    BY <2>2
  <2>4. \A i \in 1 .. Len(entered.subs) :
          i \notin ends => entered.subs[i].type # "D" /\ cmd(i) # Unknown
    BY <2>2
  <2>5. \A i \in 1 .. Len(entered.subs) : cmd(i) # Unknown => cmd(i) = entered.subs[i]
    BY DEF ParseCommand
  <2> HIDE DEF ends
  <2>6. last \in 1 .. Len(entered.subs) /\ \A i \in ends : last <= i
    <3>1. CASE ends = {}
      BY <2>2, <3>1
    <3>2. CASE ends # {}
      <4>1. \E i \in ends : \A j \in ends : i <= j
        <5>1. ends \subseteq Nat
          BY <2>3
        <5> QED BY <3>2, <5>1, Least
      <4> QED BY <2>3, <3>2, <4>1
    <3> QED BY <3>1, <3>2
  <2> HIDE DEF last
  <2>7. ASSUME NEW i \in 1 .. last - 1 PROVE cmd(i) # Unknown /\ cmd(i).type # "D"
    <3>1. i \in 1 .. Len(entered.subs) /\ ~(last <= i)
      BY <2>2, <2>6
    <3> HIDE DEF cmd
    <3> QED BY <2>4, <2>5, <2>6, <3>1
  <2> HIDE DEF cmd
  <2>8. Len(cmds) = last /\ \A i \in 1 .. last - 1 : cmds[i] = cmd(i)
    BY <2>2, <2>6
  <2> QED BY <2>1, <2>7, <2>8
<1> QED
  BY <1>1, <1>2, <1>3

(* How far a line's reformatting has been counted. *)
Reformats == [m : Modems, n : Nat]

LEMMA ReformatTyped ==
  ASSUME NEW r \in Reformats, NEW cmd \in Commands, NEW isLast
  PROVE  LET t == Reformat(r, cmd, isLast)
             after == Effect(r.m, cmd)
         IN  /\ t \in Reformats /\ t.m = after
             /\ t.n = 0 => r.n = 0 /\ (isLast \/ after.quiet \/ SameEnds(r.m, after))
<1> DEFINE after == Effect(r.m, cmd)
           changed == /\ ~isLast /\ ~after.quiet
                      /\ <<GetCR(r.m), GetLF(r.m)>> # <<GetCR(after), GetLF(after)>>
           n == r.n + IF changed THEN 1 ELSE 0
           t == [m |-> after, n |-> n]
<1>1. Reformat(r, cmd, isLast) = t
  BY Zenon DEF Reformat
<1>2. r.m \in Modems /\ r.n \in Nat
  BY DEF Reformats
<1>3. after \in Modems
  BY <1>2, EffectTyped
<1>4. ~changed => isLast \/ after.quiet \/ SameEnds(r.m, after)
  BY Zenon DEF SameEnds
<1> HIDE DEF after, changed
<1>5. n \in Nat /\ (n = 0 => r.n = 0 /\ ~changed)
  BY <1>2
<1> HIDE DEF n
<1>6. t \in Reformats /\ t.m = after /\ t.n = n
  BY <1>3, <1>5 DEF Reformats
<1> HIDE DEF t
<1> QED
  BY <1>1, <1>4, <1>5, <1>6, Zenon DEF after

LEMMA ReformattingRuns ==
  ASSUME NEW m \in Modems, NEW cmds \in Seq(Commands)
  PROVE  LET R == Reformatting(m, cmds)
         IN  /\ \A i \in 0..Len(cmds) : R[i] \in Reformats
             /\ R[0] = [m |-> m, n |-> 0]
             /\ \A i \in 1..Len(cmds) : R[i] = Reformat(R[i - 1], cmds[i], i = Len(cmds))
<1> DEFINE n == Len(cmds)
           s == [m |-> m, n |-> 0]
           Then(p, i) == Reformat(p, cmds[i], i = n)
           step == [i \in 1..n |-> [p \in Reformats |-> Then(p, i)]]
           Eq(r) == r = [i \in 0..n |-> IF i = 0 THEN s ELSE Then(r[i - 1], i)]
           F == Reformatting(m, cmds)
<1>1. s \in Reformats /\ n \in Nat /\ \A i \in 1..n : cmds[i] \in Commands
  BY DEF Reformats
<1>2. F = CHOOSE q : Eq(q)
  BY DEF Reformatting
<1>3. \A p \in Reformats, i \in 1..n : Then(p, i) \in Reformats
  BY <1>1, ReformatTyped
<1> HIDE DEF Then, s, n, F
<1>4. Steps(Reformats, n, step)
  BY <1>1, <1>3 DEF Steps
<1>5. PICK r : Solves(Reformats, s, n, step, r)
  <2> HIDE DEF step
  <2> QED BY <1>1, <1>4, Iteration
<1>6. Eq(r)
  <2>1. ASSUME NEW i \in 1..n PROVE r[i] = Then(r[i - 1], i)
    <3>1. r[i] = step[i][r[i - 1]] /\ r[i - 1] \in Reformats
      BY <1>1, <1>5 DEF Solves
    <3> QED BY <3>1
  <2>2. \A i \in 0..n : r[i] = IF i = 0 THEN s ELSE Then(r[i - 1], i)
    BY <1>1, <1>5, <2>1 DEF Solves
  <2> QED BY <1>5, <2>2 DEF Solves
<1>7. Eq(F)
  <2> HIDE DEF Eq
  <2> QED BY <1>2, <1>6
<1> HIDE DEF step
<1>8. F[0] = s /\ \A i \in 1..n : F[i] = Then(F[i - 1], i)
  BY <1>1, <1>7
<1> HIDE DEF Eq
<1>9. \A i \in 1..n : F[i - 1] \in Reformats => F[i] \in Reformats
  BY <1>1, <1>3, <1>8
<1>10. \A i \in 0..n : F[i] \in Reformats
  BY <1>1, <1>8, <1>9, Stays
<1> QED
  BY <1>8, <1>10 DEF F, s, n, Then

(* The commands so far that ask for information, up to the first that goes   *)
(* back to a call.                                                           *)
Over(cmds, i) == \E k \in 1 .. i : cmds[k].type = "O"
Asked(cmds, i) ==
  Cardinality({k \in 1 .. i : Asks(cmds[k]) /\ \A j \in 1 .. k - 1 : cmds[j].type # "O"})

LEMMA AskedCounts ==
  ASSUME NEW cmds, NEW i \in Nat
  PROVE  /\ Asked(cmds, i) \in Nat /\ Asked(cmds, 0) = 0
         /\ i > 0 => Asked(cmds, i) = Asked(cmds, i - 1) + Num(Asks(cmds[i]) /\ ~Over(cmds, i - 1))
<1> DEFINE Good(k) == Asks(cmds[k]) /\ \A j \in 1 .. k - 1 : cmds[j].type # "O"
           A(k) == {j \in 1 .. k : Good(j)}
<1>1. \A k : Asked(cmds, k) = Cardinality(A(k))
  BY Zenon DEF Asked
<1>2. \A k \in Nat : IsFiniteSet(A(k)) /\ Cardinality(A(k)) \in Nat
  <2> SUFFICES ASSUME NEW k \in Nat PROVE IsFiniteSet(A(k)) /\ Cardinality(A(k)) \in Nat
    OBVIOUS
  <2> DEFINE B == A(k)
  <2>1. IsFiniteSet(1 .. k) /\ B \subseteq 1 .. k
    BY FS_Interval
  <2> HIDE DEF B
  <2>2. IsFiniteSet(B) /\ Cardinality(B) \in Nat
    BY <2>1, FS_Subset, FS_CardinalityType
  <2> QED BY <2>2 DEF B
<1>3. Good(i) <=> Asks(cmds[i]) /\ ~Over(cmds, i - 1)
  BY DEF Over
<1> HIDE DEF Good
<1>4. A(0) = {}
  OBVIOUS
<1>5. ASSUME i > 0
      PROVE  Cardinality(A(i)) = Cardinality(A(i - 1)) + Num(Good(i))
  <2>1. i - 1 \in Nat /\ i \notin A(i - 1)
    BY <1>5
  <2>2. CASE Good(i)
    <3>1. A(i) = A(i - 1) \union {i}
      BY <1>5, <2>2
    <3> DEFINE B == A(i - 1)
    <3>2. IsFiniteSet(B) /\ Cardinality(B) \in Nat
      BY <1>2, <2>1
    <3>3. i \notin B
      BY <2>1
    <3> HIDE DEF B
    <3>4. Cardinality(B \union {i}) = Cardinality(B) + 1
      BY <3>2, <3>3, FS_AddElement
    <3> QED BY <2>2, <3>1, <3>4 DEF B, Num
  <2>3. CASE ~Good(i)
    <3>1. A(i) = A(i - 1)
      BY <1>5, <2>3
    <3> DEFINE c == Cardinality(A(i - 1))
    <3>2. c \in Nat
      BY <1>2, <2>1
    <3> HIDE DEF A
    <3> QED BY <2>3, <3>1, <3>2 DEF Num
  <2> QED BY <2>2, <2>3
<1> HIDE DEF A
<1>6. Num(Good(i)) = Num(Asks(cmds[i]) /\ ~Over(cmds, i - 1))
  BY <1>3 DEF Num
<1>7. Cardinality(A(0)) = 0
  BY <1>4, FS_EmptySet
<1> QED
  BY <1>1, <1>2, <1>5, <1>6, <1>7

(* What has been told when i of the commands are done: p, and r of their     *)
(* reformatting.                                                             *)
ToldSoFar(cmds, i, p, r) ==
  LET n == Len(cmds)
      results == Results(p.out) + Results(p.infoOut)
      infos == Infos(p.out) + Infos(p.infoOut)
  IN  IF p.then = "more"
      THEN /\ ~Over(cmds, i) /\ r.m = p.modem
           /\ i < n => infos = Asked(cmds, i) /\ (r.n = 0 => results = 0)
           /\ i = n => /\ ~p.modem.quiet => Infos(p.out) = Asked(cmds, i)
                       /\ r.n = 0 => Results(p.out) = One(p.modem)
      ELSE /\ i = n \/ Over(cmds, i)
           /\ Infos(p.out) = Asked(cmds, i)
           /\ r.n = 0 => Results(p.out) = IF p.then = "dial" THEN 0 ELSE One(p.modem)

LEMMA OneMoreTold ==
  ASSUME NEW cmds \in Seq(Commands), NEW i \in 1 .. Len(cmds),
         NEW p \in Progresses, NEW r \in Reformats, NEW hasRemote,
         i < Len(cmds) => cmds[i] # Unknown /\ cmds[i].type # "D",
         ToldSoFar(cmds, i - 1, p, r)
  PROVE  ToldSoFar(cmds, i, NextCommand(p, cmds[i], i = Len(cmds), hasRemote),
                   Reformat(r, cmds[i], i = Len(cmds)))
<1> DEFINE n == Len(cmds)
           cmd == cmds[i]
           q == NextCommand(p, cmd, i = n, hasRemote)
           t == Reformat(r, cmd, i = n)
           before == Asked(cmds, i - 1)
           now == Asked(cmds, i)
           Goal == ToldSoFar(cmds, i, q, t)
<1>1. n \in Nat /\ i \in 1 .. n /\ i - 1 \in Nat /\ i - 1 < n /\ i - 1 # n /\ cmd \in Commands
  OBVIOUS
<1>2. before \in Nat /\ now = before + Num(Asks(cmd) /\ ~Over(cmds, i - 1))
  BY AskedCounts
<1>3. \A k \in 1 .. i : k \in 1 .. i - 1 \/ k = i
  OBVIOUS
<1>4. Over(cmds, i) <=> Over(cmds, i - 1) \/ cmd.type = "O"
  BY <1>3 DEF Over
<1>5. /\ t.m = Effect(r.m, cmd)
      /\ t.n = 0 => r.n = 0 /\ (i = n \/ Effect(r.m, cmd).quiet \/ SameEnds(r.m, Effect(r.m, cmd)))
  BY <1>1, ReformatTyped, Zenon
<1>6. /\ Results(p.out) \in Nat /\ Results(p.infoOut) \in Nat
      /\ Infos(p.out) \in Nat /\ Infos(p.infoOut) \in Nat
  BY ProgressCounts
<1>7. \A m : One(m) \in Nat
  BY DEF One
<1>8. Num(FALSE) = 0
  BY DEF Num
<1> DEFINE isLast == i = n
<1> SUFFICES Goal
  OBVIOUS
<1> HIDE DEF Goal
<1>9. CASE p.then # "more"
  <2>1. q = p
    BY <1>9 DEF NextCommand
  <2>2. /\ i - 1 = n \/ Over(cmds, i - 1)
        /\ Infos(p.out) = before
        /\ r.n = 0 => Results(p.out) = IF p.then = "dial" THEN 0 ELSE One(p.modem)
    BY <1>9, Zenon DEF ToldSoFar
  <2>3. Over(cmds, i - 1) /\ Over(cmds, i) /\ now = before
    <3>1. Over(cmds, i - 1) /\ Over(cmds, i)
      BY <1>1, <1>4, <2>2, Zenon
    <3>2. Num(Asks(cmd) /\ ~Over(cmds, i - 1)) = 0
      BY <3>1, Zenon DEF Num
    <3> HIDE DEF before, now
    <3>3. now = before
      BY <1>2, <3>2
    <3> QED BY <3>1, <3>3
  <2> HIDE DEF q, t, before, now
  <2>4. /\ i = n \/ Over(cmds, i)
        /\ Infos(q.out) = now
        /\ t.n = 0 => Results(q.out) = IF q.then = "dial" THEN 0 ELSE One(q.modem)
    BY <1>5, <2>1, <2>2, <2>3, Zenon
  <2> QED BY <1>9, <2>1, <2>4, Zenon DEF ToldSoFar, Goal, now
<1>10. CASE p.then = "more"
  <2>1. /\ ~Over(cmds, i - 1) /\ r.m = p.modem
        /\ Infos(p.out) + Infos(p.infoOut) = before
        /\ r.n = 0 => Results(p.out) + Results(p.infoOut) = 0
    BY <1>1, <1>10, Zenon DEF ToldSoFar
  <2>2. q = OneCommand(p, cmd, isLast, hasRemote)
    BY <1>10, Zenon DEF NextCommand
  <2>3. now = before + Num(Asks(cmd))
    BY <1>2, <2>1 DEF Num
  <2>4. CASE Ends(cmd)
    <3>1. /\ q.modem = p.modem /\ q.then # "more"
          /\ Infos(q.out) = Infos(p.out) + Infos(p.infoOut)
          /\ Results(q.out) = (Results(p.out) + Results(p.infoOut))
                              + (IF q.then = "dial" THEN 0 ELSE One(p.modem))
      <4> HIDE DEF isLast, q, cmd, n
      <4>1. LET o == OneCommand(p, cmd, isLast, hasRemote)
            IN  /\ o.modem = p.modem /\ o.then # "more"
                /\ Infos(o.out) = Infos(p.out) + Infos(p.infoOut)
                /\ Results(o.out) = (Results(p.out) + Results(p.infoOut))
                                    + (IF o.then = "dial" THEN 0 ELSE One(p.modem))
        BY <1>1, <2>4, EndAnswers
      <4> QED BY <2>2, <4>1, Zenon
    <3>2. Num(Asks(cmd)) = 0
      <4>1. ~HasInfo(cmd)
        BY <2>4, NoEffect
      <4>2. cmd.type # "CLS"
        BY <2>4, UnknownType DEF Ends
      <4> QED BY <4>1, <4>2 DEF Asks, Num
    <3>3. i = n \/ Over(cmds, i)
      <4>1. i < n => cmd.type = "O"
        BY <2>4 DEF Ends
      <4> QED BY <1>1, <1>4, <4>1
    <3> HIDE DEF q, t, before, now, n, cmd
    <3>4. Infos(q.out) = now
      BY <1>2, <2>1, <2>3, <3>1, <3>2
    <3>5. t.n = 0 => Results(q.out) = IF q.then = "dial" THEN 0 ELSE One(q.modem)
      BY <1>5, <1>7, <2>1, <3>1
    <3> QED BY <3>1, <3>3, <3>4, <3>5, Zenon DEF ToldSoFar, Goal, now, n
  <2>5. CASE ~Ends(cmd)
    <3> DEFINE after == Effect(p.modem, cmd)
               told == (Infos(p.out) + Infos(p.infoOut)) + Num(Asks(cmd))
               results == Results(p.out) + Results(p.infoOut)
    <3>1. /\ q.modem = after /\ q.then = p.then
          /\ isLast => /\ ~after.quiet => Infos(q.out) = told
                       /\ results = 0 => Results(q.out) = One(after)
          /\ ~isLast => /\ Infos(q.out) + Infos(q.infoOut) = told
                        /\ results = 0 /\ (after.quiet \/ SameEnds(p.modem, after)) =>
                             Results(q.out) + Results(q.infoOut) = 0
      <4> HIDE DEF isLast, q, cmd, n
      <4>1. LET o == OneCommand(p, cmd, isLast, hasRemote)
            IN  /\ o.modem = after /\ o.then = p.then
                /\ isLast => /\ ~after.quiet => Infos(o.out) = told
                             /\ results = 0 => Results(o.out) = One(after)
                /\ ~isLast => /\ Infos(o.out) + Infos(o.infoOut) = told
                              /\ results = 0 /\ (after.quiet \/ SameEnds(p.modem, after)) =>
                                   Results(o.out) + Results(o.infoOut) = 0
        BY <1>1, <2>5, GoOnAnswers
      <4> QED BY <2>2, <4>1, Zenon
    <3>2. told = now
      BY <2>1, <2>3, Zenon
    <3>3. ~Over(cmds, i)
      BY <1>4, <2>1, <2>5 DEF Ends
    <3> HIDE DEF q, t, before, now, n, cmd, told
    <3>4. t.m = q.modem
      BY <1>5, <2>1, <3>1, Zenon
    <3>5. t.n = 0 => results = 0 /\ (i = n \/ after.quiet \/ SameEnds(p.modem, after))
      BY <1>5, <2>1, Zenon
    <3> HIDE DEF after, results
    <3>6. i < n => /\ Infos(q.out) + Infos(q.infoOut) = now
                   /\ t.n = 0 => Results(q.out) + Results(q.infoOut) = 0
      <4>1. i < n => ~(i = n)
        BY <1>1
      <4> QED BY <3>1, <3>2, <3>5, <4>1, Zenon
    <3>7. i = n => /\ ~q.modem.quiet => Infos(q.out) = now
                   /\ t.n = 0 => Results(q.out) = One(q.modem)
      BY <3>1, <3>2, <3>5, Zenon
    <3>8. q.then = "more"
      BY <1>10, <3>1, Zenon
    <3> QED BY <3>3, <3>4, <3>6, <3>7, <3>8, Zenon DEF ToldSoFar, Goal, now, n
  <2> QED BY <2>4, <2>5
<1> QED
  BY <1>9, <1>10

(* What processCommand has written for a line: all information that was      *)
(* asked for, and one result unless a dial is still to tell its own.         *)
LEMMA ProcessedAnswers ==
  ASSUME NEW m \in Modems, NEW entered, entered \in [at : BOOLEAN, subs : Seq(Subs)], NEW hasRemote
  PROVE  LET p == processCommand(m, entered, hasRemote)
             cmds == ParseCommandLine(entered)
             n == Len(cmds)
         IN  /\ ~p.modem.quiet => Infos(p.out) = Asked(cmds, n)
             /\ Reformatting(m, cmds)[n].n = 0 =>
                  Results(p.out) = IF p.then = "dial" THEN 0 ELSE One(p.modem)
<1> DEFINE cmds == ParseCommandLine(entered)
           n == Len(cmds)
           P == Processing(m, cmds, hasRemote)
           R == Reformatting(m, cmds)
           end == P[n]
           Holds(i) == ToldSoFar(cmds, i, P[i], R[i])
           p == [end EXCEPT !.then = IF @ = "more" THEN "prompt" ELSE @]
<1>1. cmds \in Seq(Commands) /\ n > 0 /\ n \in Nat
  BY Parsed
<1>2. \A i \in 1 .. n - 1 : cmds[i] # Unknown /\ cmds[i].type # "D"
  BY OnlyLastEnds
<1> HIDE DEF cmds
<1>3. /\ \A i \in 0..n : P[i] \in Progresses
      /\ P[0] = Progress(m)
      /\ \A i \in 1..n : P[i] = NextCommand(P[i - 1], cmds[i], i = n, hasRemote)
  BY <1>1, ProcessingRuns
<1>4. /\ \A i \in 0..n : R[i] \in Reformats
      /\ R[0] = [m |-> m, n |-> 0]
      /\ \A i \in 1..n : R[i] = Reformat(R[i - 1], cmds[i], i = n)
  BY <1>1, ReformattingRuns
<1> HIDE DEF P, R
<1>5. Holds(0)
  <2>1. /\ P[0].then = "more" /\ P[0].modem = m /\ P[0].out = <<>> /\ P[0].infoOut = <<>>
    BY <1>3 DEF Progress
  <2>2. R[0].m = m /\ ~Over(cmds, 0)
    BY <1>4 DEF Over
  <2>3. /\ Infos(P[0].out) + Infos(P[0].infoOut) = 0
        /\ Results(P[0].out) + Results(P[0].infoOut) = 0
    BY <2>1, CountsOfFew
  <2>4. Asked(cmds, 0) = 0 /\ 0 # n
    BY <1>1, AskedCounts
  <2> QED BY <2>1, <2>2, <2>3, <2>4, Zenon DEF ToldSoFar
<1>6. ASSUME NEW i \in 1..n, Holds(i - 1) PROVE Holds(i)
  <2>1. P[i - 1] \in Progresses /\ R[i - 1] \in Reformats
    BY <1>1, <1>3, <1>4
  <2>2. i < n => cmds[i] # Unknown /\ cmds[i].type # "D"
    BY <1>1, <1>2
  <2>3. ToldSoFar(cmds, i, NextCommand(P[i - 1], cmds[i], i = n, hasRemote),
                  Reformat(R[i - 1], cmds[i], i = n))
    BY <1>1, <1>6, <2>1, <2>2, OneMoreTold
  <2> HIDE DEF n
  <2> QED BY <1>3, <1>4, <2>3, Zenon
<1> DEFINE T == {i \in 0..n : Holds(i)}
           r == [i \in 0..n |-> i]
<1>7. Holds(n)
  <2>1. r[0] \in T /\ \A i \in 1..n : r[i - 1] \in T => r[i] \in T
    <3> HIDE DEF Holds
    <3> QED BY <1>1, <1>5, <1>6
  <2> HIDE DEF T, r
  <2>2. \A i \in 0..n : r[i] \in T
    BY <1>1, <2>1, Stays
  <2>3. n \in 0..n
    BY <1>1
  <2> HIDE DEF Holds, n
  <2> QED BY <2>2, <2>3 DEF T, r
<1>8. processCommand(m, entered, hasRemote) = p
  BY Zenon DEF processCommand, cmds, P
<1>9. end \in Progresses
  BY <1>1, <1>3
<1>10. /\ ~end.modem.quiet => Infos(end.out) = Asked(cmds, n)
       /\ R[n].n = 0 => Results(end.out) = IF end.then = "dial" THEN 0 ELSE One(end.modem)
  <2>1. "more" # "dial"
    OBVIOUS
  <2> HIDE DEF n
  <2> QED BY <1>7, <2>1, Zenon DEF ToldSoFar, n
<1> HIDE DEF end
<1>11. /\ p.modem = end.modem /\ p.out = end.out
       /\ p.then = "dial" <=> end.then = "dial"
  BY <1>9 DEF Progresses
<1> HIDE DEF p
<1>12. /\ ~p.modem.quiet => Infos(p.out) = Asked(cmds, n)
       /\ R[n].n = 0 => Results(p.out) = IF p.then = "dial" THEN 0 ELSE One(p.modem)
  BY <1>10, <1>11, Zenon
<1> QED
  BY <1>8, <1>12, Zenon DEF cmds, R

-----------------------------------------------------------------------------
(* What the terminal has been told, as an invariant.                       *)

ToldInv == OneResultPerLine /\ InfoTold

LEMMA SameTold ==
  ASSUME ToldInv, UNCHANGED <<modem, heard>>
  PROVE  ToldInv'
BY DEF ToldInv, OneResultPerLine, InfoTold

(* A result by itself: a call has ended, or a password was wrong. *)
LEMMA ResultTold ==
  ASSUME modem \in Modems, modem' = modem, NEW code \in Codes \ {"info"},
         heard' = [Silent EXCEPT !.results = Results(formatResult(modem, code))]
  PROVE  ToldInv'
<1> DEFINE k == Results(formatResult(modem, code))
<1>1. k = IF modem.quiet THEN 0 ELSE 1
  BY ResultCounts DEF One
<1> HIDE DEF k
<1>2. heard'.results = k /\ heard'.infos = heard'.asked
  BY DEF Silent, k
<1> QED
  BY <1>1, <1>2 DEF ToldInv, OneResultPerLine, InfoTold

(* A line with what a dial tells after it. *)
LEMMA LineTold ==
  ASSUME IInv, NEW told \in Seq(Writings), ReadCommand(told), Infos(told) = 0,
         Results(told) = IF Processed.then = "dial" THEN One(Processed.modem) ELSE 0
  PROVE  ToldInv'
<1> DEFINE entered == Text[line]
           cmds == ParseCommandLine(entered)
           n == Len(cmds)
           open == call # "none"
           p == processCommand(modem, entered, open)
           R == Reformatting(modem, cmds)
           all == p.out \o told
           h == Heard(line, all)
<1>1. entered \in [at : BOOLEAN, subs : Seq(Subs)] /\ modem \in Modems
  <2>1. line \in DOMAIN Text /\ modem \in Modems
    BY LinesAssumption DEF ReadCommand, IInv, TypeInv, PromptTypes
  <2>2. Text[line] \in [at : BOOLEAN, subs : Seq([type : STRING, n : Nat, v : Nat])]
    BY <2>1, LinesAssumption
  <2> QED BY <2>1, <2>2 DEF Subs
<1>2. Processed = p
  BY DEF Processed
<1>3. heard' = h /\ modem' = p.modem
  BY <1>2, Zenon DEF ReadCommand
<1>4. Results(told) = IF p.then = "dial" THEN One(p.modem) ELSE 0
  BY <1>2, Zenon
<1>5. cmds \in Seq(Commands) /\ n \in Nat /\ DOMAIN cmds = 1 .. n
  <2> HIDE DEF entered
  <2>1. cmds \in Seq(Commands)
    BY <1>1, Parsed
  <2> HIDE DEF cmds
  <2> QED BY <2>1
<1>6. /\ h.results = Results(all) /\ h.infos = Infos(all) /\ h.reformats = R[n].n
      /\ h.asked = Cardinality({i \in DOMAIN cmds :
                     /\ HasInfo(cmds[i]) \/ cmds[i].type = "CLS"
                     /\ \A j \in 1 .. i - 1 : cmds[j].type # "O"})
  BY DEF Heard
<1> HIDE DEF entered, open
<1>7. p \in Progresses
  BY <1>1, ProcessedTyped
<1>8. /\ ~p.modem.quiet => Infos(p.out) = Asked(cmds, n)
      /\ R[n].n = 0 => Results(p.out) = IF p.then = "dial" THEN 0 ELSE One(p.modem)
  BY <1>1, ProcessedAnswers
<1> HIDE DEF p, cmds, R, n, h
<1>9. p.out \in Seq(Writings)
  BY <1>7 DEF Progresses
<1>10. /\ Results(p.out) \in Nat /\ Infos(p.out) \in Nat
       /\ Results(all) = Results(p.out) + Results(told) /\ Infos(all) = Infos(p.out) + Infos(told)
  BY <1>9, Counts
<1> HIDE DEF all
<1>11. h.asked = Asked(cmds, n)
  BY <1>5, <1>6, Zenon DEF Asked, Asks
<1>12. ~p.modem.quiet => h.infos = h.asked
  <2>1. h.infos = Infos(p.out) + 0
    BY <1>6, <1>10, Zenon
  <2>2. h.infos = Infos(p.out)
    BY <1>10, <2>1
  <2> QED BY <1>8, <1>11, <2>2, Zenon
<1>13. h.reformats = 0 => h.results = One(p.modem)
  <2>1. One(p.modem) \in Nat
    BY DEF One
  <2> QED BY <1>4, <1>6, <1>8, <1>10, <2>1
<1> QED
  BY <1>3, <1>12, <1>13, Zenon DEF ToldInv, OneResultPerLine, InfoTold, One

LEMMA DialTold ==
  ASSUME IInv, NEW code \in Codes \ {"info"}, ReadCommand(Told(code)), Processed.then = "dial"
  PROVE  ToldInv'
<1> DEFINE m == Processed.modem
           told == formatResult(m, code)
<1>1. Told(code) = told
  BY Zenon DEF Told
<1>2. m \in Modems
  <2>1. ReadCommand(told)
    BY <1>1
  <2>2. modem' = m
    BY <2>1 DEF ReadCommand
  <2>3. PromptTypes'
    BY <2>1, ReadCommandTypes
  <2> QED BY <2>2, <2>3 DEF PromptTypes
<1> HIDE DEF m
<1>3. told \in Seq(Writings) /\ Results(told) = One(m) /\ Infos(told) = 0
  BY <1>2, ResultTyped, ResultCounts
<1> HIDE DEF told
<1>4. ReadCommand(told) /\ Results(told) = IF Processed.then = "dial" THEN One(Processed.modem) ELSE 0
  BY <1>1, <1>3, Zenon DEF m
<1> QED
  BY <1>3, <1>4, LineTold

LEMMA ToldHolds == IInv /\ ToldInv /\ [Next]_vars => ToldInv'
<1> SUFFICES ASSUME IInv, ToldInv, [Next]_vars PROVE ToldInv'
  OBVIOUS
<1>1. modem \in Modems /\ {"OK", "NO CARRIER", "CONNECT"} \subseteq Codes \ {"info"}
  BY DEF IInv, TypeInv, PromptTypes, Codes
<1>2. CASE ProcessLine
  <2>1. <<>> \in Seq(Writings)
    OBVIOUS
  <2>2. ReadCommand(<<>>) /\ Processed.then # "dial"
    BY <1>2 DEF ProcessLine
  <2> QED BY <2>1, <2>2, CountsOfFew, LineTold
<1>3. CASE DialFails \/ DialAsks \/ DialConnects
  <2>1. /\ Processed.then = "dial"
        /\ ReadCommand(Told("NO CARRIER")) \/ ReadCommand(Told("CONNECT"))
    BY <1>3 DEF DialFails, DialAsks, DialConnects
  <2> QED BY <1>1, <2>1, DialTold
<1>4. CASE ReadPassword
  <2>1. /\ modem' = modem
        /\ \/ heard' = heard
           \/ heard' = [Silent EXCEPT !.results = Results(formatResult(modem, "NO CARRIER"))]
    BY <1>4 DEF ReadPassword
  <2> QED BY <1>1, <2>1, SameTold, ResultTold
<1>5. CASE Escape \/ RemoteGone
  <2>1. /\ modem' = modem
        /\ \E code \in {"OK", "NO CARRIER"} :
             heard' = [Silent EXCEPT !.results = Results(formatResult(modem, code))]
    BY <1>5 DEF Escape, RemoteGone, LeaveData
  <2> QED BY <1>1, <2>1, ResultTold
<1>6. CASE \/ \E seg \in Segments : Type(seg)
           \/ TypeLateLF \/ ReadText \/ ReadEmptyLine
  <2>1. UNCHANGED <<modem, heard>>
    BY <1>6 DEF Type, TypeLateLF, ReadText, ReadEmptyLine
  <2> QED BY <2>1, SameTold
<1>7. CASE \/ \E c \in Chunks : Chunk(c)
           \/ Release \/ PollAgain \/ Tick
           \/ \E m \in Messages : BoardSends(m)
           \/ \E n \in 1 .. Len(wire) : RemoteReads(n)
           \/ BoardHangsUp \/ UNCHANGED vars
  <2>1. UNCHANGED prompt
    BY <1>7 DEF Chunk, Release, PollAgain, Tick, BoardSends, RemoteReads, BoardHangsUp, vars
  <2> QED BY <2>1, SameTold DEF prompt
<1> QED
  BY <1>2, <1>3, <1>4, <1>5, <1>6, <1>7 DEF Next

LEMMA ToldAlways == Spec => []ToldInv
<1>1. Init => ToldInv
  <2> SUFFICES ASSUME Init PROVE ToldInv
    OBVIOUS
  <2>1. modem = PowerOn /\ heard = [Silent EXCEPT !.results = 1]
    BY DEF Init
  <2>2. ~PowerOn.quiet
    BY DEF PowerOn
  <2>3. heard.results = 1 /\ heard.infos = heard.asked
    BY <2>1 DEF Silent
  <2> QED BY <2>1, <2>2, <2>3, Zenon DEF ToldInv, OneResultPerLine, InfoTold
<1> QED
  BY Invariance, ToldHolds, <1>1, PTL DEF Spec

(* Whatever commands a line holds, it is answered with exactly one result, or *)
(* with none in quiet mode, unless a command before the last has changed how  *)
(* results end (session.go:470-560, modem.go): any line, any registers, with  *)
(* a call to go back to or without.                                          *)
THEOREM OneResultAlways == Spec => []OneResultPerLine
BY ToldAlways, PTL DEF ToldInv

(* All information that a line's commands have produced reaches the terminal, *)
(* once, whatever follows them on the line: an error, a dial or the return to *)
(* a call (session.go:470-560), unless the line leaves the modem in quiet     *)
(* mode.                                                                     *)
THEOREM InfoAlwaysTold == Spec => []InfoTold
BY ToldAlways, PTL DEF ToldInv

-----------------------------------------------------------------------------
(* Enter, pressed and acted upon.                                          *)

LineFeeds == {"LF", "lateLF"}

(* An LF that has arrived follows its CR. *)
Paired(s) == \A i \in 2 .. Len(s) : s[i] \in LineFeeds => s[i - 1] = "CR"

(* An LF whose CR has been taken finds an empty line, and no password prompt *)
(* that would take it for an answer; presses counts at least the CRs not     *)
(* read yet. (With S4 = S3 a CR can take another with it.)                   *)
PressInv ==
  /\ Paired(buffered)
  /\ buffered # <<>> /\ buffered[1] \in LineFeeds => line = ""
  /\ mode = "password" /\ buffered # <<>> /\ buffered[1] = "LF" => GetLF(modem) # 10
  /\ lateLF => IF buffered = <<>> THEN line = "" ELSE buffered[Len(buffered)] = "CR"
  /\ presses >= Count(buffered, {"CR"})

LEMMA Dropped ==
  ASSUME NEW s \in Seq(Items), s # <<>>, Paired(s)
  PROVE  LET t == Tail(s)
         IN  /\ t \in Seq(Items) /\ Head(s) = s[1] /\ Paired(t)
             /\ t # <<>> => /\ t[Len(t)] = s[Len(s)] /\ t[1] = s[2] /\ Len(s) > 1
                            /\ t[1] \in LineFeeds => s[1] = "CR"
             /\ t = <<>> => s[Len(s)] = s[1]
             /\ Count(t, {"CR"}) \in Nat
             /\ Count(s, {"CR"}) = Num(s[1] = "CR") + Count(t, {"CR"})
<1> DEFINE t == Tail(s)
           n == Len(s)
           h == <<Head(s)>>
<1>1. /\ Head(s) \in Items /\ t \in Seq(Items) /\ Len(t) = n - 1 /\ n \in Nat \ {0}
      /\ \A i \in 1 .. Len(t) : t[i] = s[i + 1]
  BY HeadTailProperties
<1>2. Head(s) = s[1] /\ h \in Seq(Items) /\ Len(h) = 1 /\ h[1] = s[1]
  BY <1>1
<1>3. s = h \o t
  <2> HIDE DEF t, h
  <2>1. /\ h \o t \in Seq(Items) /\ Len(h \o t) = Len(h) + Len(t)
        /\ \A i \in 1 .. Len(h) + Len(t) : (h \o t)[i] = IF i <= Len(h) THEN h[i] ELSE t[i - Len(h)]
    BY <1>1, <1>2, ConcatProperties
  <2> DEFINE u == h \o t
  <2> HIDE DEF u
  <2>2. /\ u \in Seq(Items) /\ Len(u) = Len(h) + Len(t)
        /\ \A i \in 1 .. Len(h) + Len(t) : u[i] = IF i <= Len(h) THEN h[i] ELSE t[i - Len(h)]
    BY <2>1 DEF u
  <2>3. Len(u) = Len(s) /\ \A i \in 1 .. Len(s) : u[i] = s[i]
    BY <1>1, <1>2, <2>2
  <2>4. u = s
    BY <2>2, <2>3, SeqEqual
  <2> QED BY <2>4 DEF u
<1> HIDE DEF t
<1>4. Paired(t)
  <2> SUFFICES ASSUME NEW i \in 2 .. Len(t), t[i] \in LineFeeds PROVE t[i - 1] = "CR"
    BY DEF Paired
  <2>1. i + 1 \in 2 .. n /\ i \in 1 .. Len(t) /\ i - 1 \in 1 .. Len(t) /\ (i + 1) - 1 = i
        /\ (i - 1) + 1 = i
    BY <1>1
  <2> QED BY <1>1, <2>1, Zenon DEF Paired
<1>5. ASSUME t # <<>>
      PROVE  t[Len(t)] = s[n] /\ t[1] = s[2] /\ n > 1 /\ (t[1] \in LineFeeds => s[1] = "CR")
  <2>1. n > 1 /\ Len(t) \in 1 .. Len(t) /\ Len(t) + 1 = n /\ 1 \in 1 .. Len(t) /\ 1 + 1 = 2
        /\ 2 \in 2 .. n /\ 2 - 1 = 1
    BY <1>1, <1>5
  <2>2. t[Len(t)] = s[n] /\ t[1] = s[2]
    BY <1>1, <2>1, Zenon
  <2> QED BY <2>1, <2>2, Zenon DEF Paired
<1>6. t = <<>> => s[n] = s[1]
  <2>1. t = <<>> => n = 1
    BY <1>1
  <2> QED BY <2>1, Zenon
<1>7. /\ Count(h, {"CR"}) \in Nat /\ Count(t, {"CR"}) \in Nat
      /\ Count(h \o t, {"CR"}) = Count(h, {"CR"}) + Count(t, {"CR"})
  <2> HIDE DEF h
  <2> DEFINE X == {"CR"}
  <2> HIDE DEF X
  <2>1. /\ Count(h, X) \in Nat /\ Count(t, X) \in Nat
        /\ Count(h \o t, X) = Count(h, X) + Count(t, X)
    BY <1>1, <1>2, CountConcat
  <2> QED BY <2>1 DEF X
<1>8. Count(h, {"CR"}) = Num(s[1] = "CR")
  <2> HIDE DEF h
  <2> DEFINE A == {i \in DOMAIN h : h[i] \in {"CR"}}
  <2>1. DOMAIN h = {1}
    BY <1>2
  <2>2. CASE s[1] = "CR"
    <3>1. A = {1}
      BY <1>2, <2>1, <2>2
    <3> QED BY <2>2, <3>1, FS_Singleton DEF Count, Num
  <2>3. CASE s[1] # "CR"
    <3>1. A = {}
      BY <1>2, <2>1, <2>3
    <3> QED BY <2>3, <3>1, FS_EmptySet DEF Count, Num
  <2> QED BY <2>2, <2>3
<1>9. Count(s, {"CR"}) = Num(s[1] = "CR") + Count(t, {"CR"})
  BY <1>3, <1>7, <1>8, Zenon
<1> HIDE DEF n, h
<1> QED
  BY <1>1, <1>2, <1>4, <1>5, <1>6, <1>7, <1>9, Zenon DEF t, n

(* Terminators, with S3 as it is at power-on. *)
LEMMA Terminators ==
  ASSUME GetCR(modem) = 13
  PROVE  /\ \A item : IsTerminator(item) => item = "CR" \/ (item \in LineFeeds /\ GetLF(modem) = 10)
         /\ IsTerminator("CR") /\ Code["CR"] = GetCR(modem)
         /\ \A item \in LineFeeds : Code[item] # GetCR(modem) /\ (IsLF(item) <=> GetLF(modem) = 10)
         /\ \A item : IsLF(item) => item = "CR" \/ item \in LineFeeds
         /\ IsLF("CR") => GetLF(modem) # 10
<1>1. /\ DOMAIN Code = {"CR", "LF", "lateLF"}
      /\ Code["CR"] = 13 /\ Code["LF"] = 10 /\ Code["lateLF"] = 10
  BY DEF Code
<1> QED
  BY <1>1 DEF IsTerminator, IsLF, LineFeeds

(* What is left when a line has ended: one CR less, or an LF less. *)
LEMMA AfterLineDropped ==
  ASSUME buffered \in Seq(Items), buffered # <<>>, Paired(buffered), GetCR(modem) = 13,
         IsTerminator(Head(buffered))
  PROVE  LET t == AfterLine
         IN  /\ Paired(t)
             /\ t # <<>> => t[Len(t)] = buffered[Len(buffered)]
             /\ t # <<>> /\ t[1] = "LF" => Head(buffered) # "CR" \/ GetLF(modem) # 10
             /\ Count(t, {"CR"}) \in Nat
             /\ Count(buffered, {"CR"}) >= Num(Head(buffered) = "CR") + Count(t, {"CR"})
<1> DEFINE s == buffered
           t == Tail(s)
           u == Tail(t)
           r == AfterLine
           Goal == /\ Paired(r)
                   /\ r # <<>> => r[Len(r)] = s[Len(s)]
                   /\ r # <<>> /\ r[1] = "LF" => Head(s) # "CR" \/ GetLF(modem) # 10
                   /\ Count(r, {"CR"}) \in Nat
                   /\ Count(s, {"CR"}) >= Num(Head(s) = "CR") + Count(r, {"CR"})
<1>1. /\ t \in Seq(Items) /\ Head(s) = s[1] /\ Paired(t)
      /\ t # <<>> => /\ t[Len(t)] = s[Len(s)] /\ t[1] = s[2] /\ Len(s) > 1
                     /\ t[1] \in LineFeeds => s[1] = "CR"
      /\ t = <<>> => s[Len(s)] = s[1]
      /\ Count(t, {"CR"}) \in Nat
      /\ Count(s, {"CR"}) = Num(s[1] = "CR") + Count(t, {"CR"})
  BY Dropped
<1> SUFFICES Goal
  OBVIOUS
<1> HIDE DEF Goal
<1>2. CASE Head(s) = "CR" /\ Len(s) > 1 /\ IsLF(s[2])
  <2>1. SubSeq(s, 3, Len(s)) = u /\ t # <<>>
    <3>1. s \in Seq(Items) /\ Len(s) \in Nat /\ Len(s) > 1
      BY <1>2
    <3>2. 1 \in 1 .. Len(s) /\ 2 \in 1 .. Len(s) /\ Len(s) \in 1 .. Len(s) /\ Len(s) \in 2 .. Len(s)
      BY <3>1
    <3>3. SubSeq(s, 1, Len(s)) = s
      BY SubSeqFull
    <3>4. Tail(SubSeq(s, 1, Len(s))) = SubSeq(s, 1 + 1, Len(s))
      BY <3>2, HeadTailOfSubSeq
    <3>5. Tail(SubSeq(s, 2, Len(s))) = SubSeq(s, 2 + 1, Len(s))
      BY <3>2, HeadTailOfSubSeq
    <3>6. t # <<>>
      <4>1. Len(t) = Len(s) - 1
        BY HeadTailProperties
      <4> HIDE DEF t, s
      <4> QED BY <3>1, <4>1
    <3>7. 1 + 1 = 2 /\ 2 + 1 = 3
      OBVIOUS
    <3> QED BY <3>3, <3>4, <3>5, <3>6, <3>7, Zenon
  <2>2. r = u
    <3>1. Code[Head(s)] = GetCR(modem)
      BY <1>2, Terminators
    <3> QED BY <1>2, <2>1, <3>1, Zenon DEF AfterLine
  <2>3. /\ Paired(u)
        /\ u # <<>> => /\ u[Len(u)] = t[Len(t)]
                       /\ u[1] \in LineFeeds => t[1] = "CR"
        /\ Count(u, {"CR"}) \in Nat
        /\ Count(t, {"CR"}) = Num(t[1] = "CR") + Count(u, {"CR"})
    BY <1>1, <2>1, Dropped
  <2>4. u # <<>> /\ u[1] = "LF" => GetLF(modem) # 10
    <3>1. u # <<>> /\ u[1] = "LF" => s[2] = "CR"
      BY <1>1, <2>1, <2>3, Zenon DEF LineFeeds
    <3> QED BY <1>2, <3>1, Terminators
  <2>5. Num(t[1] = "CR") \in Nat
    BY DEF Num
  <2> HIDE DEF r, t, u, s
  <2>6. Num(Head(s) = "CR") \in Nat
    BY DEF Num
  <2> DEFINE a == Num(t[1] = "CR")
             b == Num(Head(s) = "CR")
  <2>7. Count(s, {"CR"}) = b + Count(t, {"CR"})
    BY <1>1, Zenon
  <2> HIDE DEF a, b
  <2>8. Count(s, {"CR"}) >= b + Count(u, {"CR"})
    BY <2>3, <2>5, <2>6, <2>7 DEF a, b
  <2> QED BY <1>1, <2>1, <2>2, <2>3, <2>4, <2>8, Zenon DEF Goal, b
<1>3. CASE ~(Head(s) = "CR" /\ Len(s) > 1 /\ IsLF(s[2]))
  <2>1. r = t
    <3>1. Code[Head(s)] = GetCR(modem) => Head(s) = "CR"
      BY Terminators
    <3> QED BY <1>3, <3>1, Zenon DEF AfterLine
  <2>2. t # <<>> /\ t[1] = "LF" => Head(s) # "CR" \/ GetLF(modem) # 10
    <3>1. "LF" \in LineFeeds
      BY DEF LineFeeds
    <3> QED BY <1>1, <1>3, <3>1, Terminators
  <2> HIDE DEF r, t, s
  <2> DEFINE b == Num(Head(s) = "CR")
  <2>3. b \in Nat /\ Count(s, {"CR"}) = b + Count(t, {"CR"})
    BY <1>1, Zenon DEF Num
  <2> HIDE DEF b
  <2>4. Count(s, {"CR"}) >= b + Count(t, {"CR"})
    BY <1>1, <2>3
  <2> QED BY <1>1, <2>1, <2>2, <2>4, Zenon DEF Goal, b
<1> QED
  BY <1>2, <1>3

(* A segment is typed. *)
LEMMA TypePressed ==
  ASSUME TypeInv, PressInv, NEW seg \in Segments, Type(seg)
  PROVE  PressInv'
<1>1. /\ seg \in Seq(DOMAIN Text \union {"CR", "LF"}) /\ seg # <<>>
      /\ \A i \in DOMAIN seg : seg[i] = "LF" => i > 1 /\ seg[i - 1] = "CR"
      /\ seg \in Split => seg[Len(seg)] = "CR"
  BY SegmentsAssumption
<1>2. /\ buffered = <<>> /\ buffered' = seg /\ presses' = presses + Count(seg, {"CR"})
      /\ lateLF' => seg \in Split
      /\ Head(seg) \in Lines \union Passwords \union {"CR"}
      /\ UNCHANGED <<modem, line, mode>>
  <2>1. {i \in DOMAIN seg : seg[i] = "CR"} = {i \in DOMAIN seg : seg[i] \in {"CR"}}
    OBVIOUS
  <2> QED BY <2>1 DEF Type, Count
<1>3. "LF" \notin DOMAIN Text /\ "lateLF" \notin DOMAIN Text /\ DOMAIN Text = Lines \union Passwords
  BY LinesAssumption
<1>4. Len(seg) \in Nat /\ DOMAIN seg = 1 .. Len(seg) /\ seg[1] = Head(seg)
      /\ \A i \in 1 .. Len(seg) : seg[i] \in DOMAIN Text \union {"CR", "LF"}
  BY <1>1
<1>5. Paired(seg)
  <2> SUFFICES ASSUME NEW i \in 2 .. Len(seg), seg[i] \in LineFeeds PROVE seg[i - 1] = "CR"
    BY DEF Paired
  <2>1. i \in 1 .. Len(seg) /\ seg[i] = "LF"
    BY <1>3, <1>4 DEF LineFeeds
  <2> QED BY <1>1, <1>4, <2>1
<1>6. seg[1] \notin LineFeeds
  BY <1>2, <1>3, <1>4 DEF LineFeeds
<1>7. presses' >= Count(seg, {"CR"})
  <2> DEFINE k == Count(seg, {"CR"})
  <2>1. seg \in Seq(Items)
    <3>1. DOMAIN Text \union {"CR", "LF"} \subseteq Items
      BY DEF Items
    <3> QED BY <1>1, <3>1, SeqMonotonic
  <2>2. k \in Nat
    <3> DEFINE X == {"CR"}
    <3> HIDE DEF X
    <3>1. Count(seg, X) \in Nat
      BY <2>1, CountConcat
    <3> QED BY <3>1 DEF X
  <2>3. Count(<<>>, {"CR"}) = 0
    <3>1. {i \in DOMAIN <<>> : <<>>[i] \in {"CR"}} = {}
      OBVIOUS
    <3> QED BY <3>1, FS_EmptySet, Zenon DEF Count
  <2>4. presses >= 0 /\ presses \in Int
    BY <1>2, <2>3 DEF PressInv, TypeInv, PromptTypes
  <2>5. presses' = presses + k
    BY <1>2
  <2> HIDE DEF k
  <2>6. presses' >= k
    BY <2>2, <2>4, <2>5
  <2> QED BY <2>6 DEF k
<1> QED
  <2>1. Paired(seg)' /\ Count(seg, {"CR"})' = Count(seg, {"CR"})
    BY <1>5
  <2>2. seg # <<>> /\ seg[1] # "LF"
    BY <1>1, <1>6 DEF LineFeeds
  <2> QED BY <1>1, <1>2, <1>5, <1>6, <1>7, <2>2, Zenon DEF PressInv

(* The LF of a CR arrives late. *)
LEMMA TypeLateLFPressed ==
  ASSUME TypeInv, PressInv, TypeLateLF
  PROVE  PressInv'
<1>1. lateLF /\ ~lateLF' /\ UNCHANGED <<modem, line, mode, presses>>
  BY DEF TypeLateLF
<1>2. CASE mode = "data"
  <2>1. buffered' = buffered
    BY <1>2 DEF TypeLateLF
  <2> QED BY <1>1, <2>1 DEF PressInv
<1>3. CASE mode # "data"
  <2> DEFINE e == <<"lateLF">>
             t == buffered \o e
             n == Len(buffered)
  <2>1. buffered \in Seq(Items) /\ e \in Seq(Items) /\ n \in Nat /\ Len(e) = 1 /\ e[1] = "lateLF"
    <3>1. buffered \in Seq(Items)
      BY DEF TypeInv, PromptTypes
    <3>2. "lateLF" \in Items
      BY DEF Items
    <3> QED BY <3>1, <3>2
  <2>2. /\ t \in Seq(Items) /\ Len(t) = n + 1
        /\ \A i \in 1 .. n + 1 : t[i] = IF i <= n THEN buffered[i] ELSE "lateLF"
    <3>1. /\ t \in Seq(Items) /\ Len(t) = Len(buffered) + Len(e)
          /\ \A i \in 1 .. Len(buffered) + Len(e) :
               t[i] = IF i <= Len(buffered) THEN buffered[i] ELSE e[i - Len(buffered)]
      BY <2>1, ConcatProperties
    <3>2. \A i \in 1 .. n + 1 : ~(i <= n) => i - n = 1
      BY <2>1
    <3> HIDE DEF t, e
    <3> QED BY <2>1, <3>1, <3>2
  <2>3. buffered' = t
    <3>1. Append(buffered, "lateLF") = t
      <4>1. "lateLF" \in Items
        BY DEF Items
      <4> QED BY <2>1, <4>1, AppendIsConcat
    <3> QED BY <1>3, <3>1 DEF TypeLateLF
  <2> DEFINE X == {"CR"}
             k == Count(buffered, X)
  <2>4. Count(t, X) = k
    <3>1. Count(e, X) = 0
      <4>1. {i \in DOMAIN e : e[i] \in X} = {}
        BY <2>1
      <4> QED BY <4>1, FS_EmptySet, Zenon DEF Count
    <3> HIDE DEF X, e
    <3>2. Count(buffered, X) \in Nat /\ Count(t, X) = Count(buffered, X) + Count(e, X)
      BY <2>1, CountConcat
    <3> HIDE DEF t
    <3> QED BY <3>1, <3>2
  <2> HIDE DEF e, t, X
  <2>5. Paired(t)
    <3> SUFFICES ASSUME NEW i \in 2 .. n + 1, t[i] \in LineFeeds PROVE t[i - 1] = "CR"
      BY <2>2 DEF Paired
    <3>1. i \in 1 .. n + 1 /\ i - 1 \in 1 .. n + 1 /\ i - 1 <= n
      BY <2>1
    <3>2. t[i - 1] = buffered[i - 1]
      BY <2>2, <3>1
    <3>3. CASE i <= n
      <4>1. t[i] = buffered[i] /\ i \in 2 .. Len(buffered)
        BY <2>2, <3>1, <3>3
      <4> QED BY <3>2, <4>1 DEF PressInv, Paired
    <3>4. CASE ~(i <= n)
      <4>1. i - 1 = n /\ buffered # <<>>
        BY <2>1, <3>4
      <4> QED BY <1>1, <3>2, <4>1 DEF PressInv
    <3> QED BY <3>3, <3>4
  <2>6. t # <<>> /\ (t[1] \in LineFeeds => line = "") /\ (t[1] = "LF" => buffered # <<>> /\ buffered[1] = "LF")
    <3>1. CASE n = 0
      <4>1. buffered = <<>> /\ t[1] = "lateLF" /\ t # <<>>
        BY <2>1, <2>2, <3>1
      <4> QED BY <1>1, <4>1 DEF PressInv
    <3>2. CASE n # 0
      <4>1. buffered # <<>> /\ t[1] = buffered[1] /\ t # <<>>
        BY <2>1, <2>2, <3>2
      <4> QED BY <4>1 DEF PressInv
    <3> QED BY <3>1, <3>2
  <2>7. presses >= Count(t, {"CR"})
    BY <2>4 DEF PressInv, X
  <2>8. (mode = "password" /\ t[1] = "LF" => GetLF(modem) # 10)
    BY <2>6 DEF PressInv
  <2> HIDE DEF n
  <2> QED BY <1>1, <2>3, <2>5, <2>6, <2>7, <2>8, Zenon DEF PressInv
<1> QED
  BY <1>2, <1>3

(* What is read ahead when a part of it is taken. *)
LEMMA TakenPressed ==
  ASSUME NEW t, buffered' = t, Paired(t), UNCHANGED lateLF,
         buffered # <<>>, PressInv,
         t # <<>> => t[Len(t)] = buffered[Len(buffered)],
         t # <<>> /\ t[1] \in LineFeeds => line' = "",
         t = <<>> /\ lateLF => line' = "",
         mode' = "password" /\ t # <<>> /\ t[1] = "LF" => GetLF(modem)' # 10,
         presses' >= Count(t, {"CR"})
  PROVE  PressInv'
<1>1. lateLF => buffered[Len(buffered)] = "CR"
  BY DEF PressInv
<1> QED
  BY <1>1, Zenon DEF PressInv

LEMMA ReadTextPressed ==
  ASSUME TypeInv, PressInv, GetCR(modem) = 13, ReadText
  PROVE  PressInv'
<1> DEFINE t == Tail(buffered)
<1>1. buffered \in Seq(Items) /\ buffered # <<>> /\ Paired(buffered) /\ presses \in Int
      /\ presses >= Count(buffered, {"CR"})
  BY DEF TypeInv, PromptTypes, ReadText, PressInv
<1>2. buffered' = t /\ ~IsTerminator(Head(buffered)) /\ UNCHANGED <<modem, lateLF, presses, mode>>
  BY DEF ReadText
<1>3. /\ t \in Seq(Items) /\ Head(buffered) = buffered[1] /\ Paired(t)
      /\ t # <<>> => /\ t[Len(t)] = buffered[Len(buffered)] /\ t[1] = buffered[2] /\ Len(buffered) > 1
                     /\ t[1] \in LineFeeds => buffered[1] = "CR"
      /\ t = <<>> => buffered[Len(buffered)] = buffered[1]
      /\ Count(t, {"CR"}) \in Nat
      /\ Count(buffered, {"CR"}) = Num(buffered[1] = "CR") + Count(t, {"CR"})
  BY <1>1, Dropped
<1>4. buffered[1] # "CR"
  BY <1>2, <1>3, Terminators
<1> HIDE DEF t
<1>5. Count(buffered, {"CR"}) = Count(t, {"CR"})
  BY <1>3, <1>4 DEF Num
<1>6. presses' >= Count(t, {"CR"})
  BY <1>1, <1>2, <1>5
<1>7. t # <<>> => t[1] \notin LineFeeds /\ t[1] # "LF"
  BY <1>3, <1>4 DEF LineFeeds
<1>8. ~(t = <<>> /\ lateLF)
  BY <1>1, <1>3, <1>4 DEF PressInv
<1> QED
  BY <1>1, <1>2, <1>3, <1>6, <1>7, <1>8, TakenPressed, Zenon

LEMMA EnoughLeft ==
  \A p \in Int, k \in Nat, j \in Nat :
    p >= k => (k >= 1 + j => p - 1 >= j) /\ (k >= 0 + j => p >= j)
OBVIOUS

(* A line is ended. *)
LEMMA LinePressed ==
  ASSUME TypeInv, PressInv, GetCR(modem) = 13,
         mode = "command", buffered # <<>>, IsTerminator(Head(buffered)),
         buffered' = AfterLine, line' = "", UNCHANGED lateLF,
         \/ presses' = presses - 1 /\ (line # "" \/ Head(buffered) = "CR")
         \/ presses' = presses /\ Head(buffered) # "CR",
         mode' = "password" => line # "" /\ (GetLF(modem)' = 10 => GetLF(modem) = 10)
  PROVE  PressInv'
<1> DEFINE t == AfterLine
<1>1. buffered \in Seq(Items) /\ Paired(buffered) /\ presses \in Int
      /\ presses >= Count(buffered, {"CR"})
  BY DEF TypeInv, PromptTypes, PressInv
<1>2. /\ Paired(t)
      /\ t # <<>> => t[Len(t)] = buffered[Len(buffered)]
      /\ t # <<>> /\ t[1] = "LF" => Head(buffered) # "CR" \/ GetLF(modem) # 10
      /\ Count(t, {"CR"}) \in Nat
      /\ Count(buffered, {"CR"}) >= Num(Head(buffered) = "CR") + Count(t, {"CR"})
  BY <1>1, AfterLineDropped
<1>3. line # "" => Head(buffered) = "CR"
  <2>1. Head(buffered) = buffered[1]
    BY <1>1, Dropped
  <2>2. Head(buffered) = "CR" \/ Head(buffered) \in LineFeeds
    BY Terminators
  <2> QED BY <2>1, <2>2, Zenon DEF PressInv
<1> HIDE DEF t
<1>4. presses' >= Count(t, {"CR"})
  <2> DEFINE k == Count(buffered, {"CR"})
             j == Count(t, {"CR"})
  <2>1. k \in Nat
    <3> DEFINE X == {"CR"}
    <3> HIDE DEF X
    <3>1. Count(buffered, X) \in Nat
      BY <1>1, CountConcat
    <3> QED BY <3>1 DEF X
  <2>2. /\ Head(buffered) = "CR" => k >= 1 + j /\ presses' = presses - 1
        /\ Head(buffered) # "CR" => k >= 0 + j /\ presses' = presses
    BY <1>2, <1>3, Zenon DEF Num
  <2>3. presses \in Int /\ presses >= k /\ j \in Nat
    BY <1>1, <1>2
  <2> HIDE DEF k, j
  <2>4. (k >= 1 + j => presses - 1 >= j) /\ (k >= 0 + j => presses >= j)
    BY <2>1, <2>3, EnoughLeft, Zenon
  <2>5. presses' >= j
    BY <2>2, <2>4, Zenon
  <2> QED BY <2>5 DEF j
<1>5. mode' = "password" /\ t # <<>> /\ t[1] = "LF" => GetLF(modem)' # 10
  BY <1>2, <1>3, Zenon
<1>6. buffered' = t
  BY DEF t
<1> QED
  BY <1>2, <1>4, <1>5, <1>6, TakenPressed, Zenon

LEMMA ReadPasswordPressed ==
  ASSUME TypeInv, PressInv, GetCR(modem) = 13, ReadPassword
  PROVE  PressInv'
<1> DEFINE t == Tail(buffered)
<1>1. buffered \in Seq(Items) /\ buffered # <<>> /\ Paired(buffered) /\ presses \in Int
      /\ presses >= Count(buffered, {"CR"})
  BY DEF TypeInv, PromptTypes, ReadPassword, PressInv
<1>2. /\ mode = "password" /\ IsTerminator(Head(buffered)) /\ buffered' = t /\ line' = ""
      /\ presses' = IF Head(buffered) = "lateLF" THEN presses ELSE presses - 1
      /\ lateLF' = lateLF
  BY DEF ReadPassword
<1>3. mode' # "password"
  BY DEF ReadPassword, Connected
<1>4. /\ Head(buffered) = buffered[1] /\ Paired(t)
      /\ t # <<>> => t[Len(t)] = buffered[Len(buffered)]
      /\ Count(t, {"CR"}) \in Nat
      /\ Count(buffered, {"CR"}) = Num(buffered[1] = "CR") + Count(t, {"CR"})
  BY <1>1, Dropped
<1>5. Head(buffered) \in {"CR", "lateLF"}
  <2>1. Head(buffered) = "CR" \/ (Head(buffered) \in LineFeeds /\ GetLF(modem) = 10)
    BY <1>2, Terminators
  <2> QED BY <1>1, <1>2, <1>4, <2>1 DEF PressInv, LineFeeds
<1> HIDE DEF t
<1>6. presses' >= Count(t, {"CR"})
  <2>1. CASE Head(buffered) = "CR"
    <3>1. Num(buffered[1] = "CR") = 1 /\ presses' = presses - 1
      BY <1>2, <1>4, <2>1 DEF Num
    <3> QED BY <1>1, <1>4, <3>1
  <2>2. CASE Head(buffered) = "lateLF"
    <3>1. Num(buffered[1] = "CR") = 0 /\ presses' = presses
      BY <1>2, <1>4, <2>2 DEF Num
    <3> QED BY <1>1, <1>4, <3>1
  <2> QED BY <1>5, <2>1, <2>2
<1> QED
  BY <1>1, <1>2, <1>3, <1>4, <1>6, TakenPressed, Zenon

LEMMA SamePressed ==
  ASSUME PressInv, UNCHANGED <<modem, buffered, line, lateLF, presses>>,
         mode' = "password" => mode = "password"
  PROVE  PressInv'
BY DEF PressInv

(* A dial that asks for a password leaves S4 alone, or changes it from LF. *)
Steady == DialAsks => (GetLF(modem)' = 10 => GetLF(modem) = 10)

LEMMA PressHolds ==
  TypeInv /\ PressInv /\ GetCR(modem) = 13 /\ [Next]_vars /\ [Steady]_vars => PressInv'
<1> SUFFICES ASSUME TypeInv, PressInv, GetCR(modem) = 13, [Next]_vars, [Steady]_vars
             PROVE  PressInv'
  OBVIOUS
<1>1. ASSUME NEW seg \in Segments, Type(seg) PROVE PressInv'
  BY <1>1, TypePressed
<1>2. CASE TypeLateLF
  BY <1>2, TypeLateLFPressed
<1>3. CASE ReadText
  BY <1>3, ReadTextPressed
<1>4. CASE ReadEmptyLine
  <2>1. /\ mode = "command" /\ buffered # <<>> /\ IsTerminator(Head(buffered)) /\ line = ""
        /\ buffered' = AfterLine /\ UNCHANGED <<modem, line, lateLF, mode>>
        /\ presses' = IF Head(buffered) = "CR" THEN presses - 1 ELSE presses
    BY <1>4 DEF ReadEmptyLine
  <2> QED BY <2>1, LinePressed
<1>5. ASSUME NEW told, ReadCommand(told),
             mode' = "password" => (GetLF(modem)' = 10 => GetLF(modem) = 10)
      PROVE  PressInv'
  <2>1. /\ mode = "command" /\ buffered # <<>> /\ IsTerminator(Head(buffered)) /\ line # ""
        /\ buffered' = AfterLine /\ line' = "" /\ presses' = presses - 1 /\ lateLF' = lateLF
    BY <1>5 DEF ReadCommand
  <2> QED BY <1>5, <2>1, LinePressed
<1>6. CASE ProcessLine \/ DialFails \/ DialConnects
  <2>1. mode' # "password" /\ \E told : ReadCommand(told)
    BY <1>6 DEF ProcessLine, DialFails, DialConnects, Connected, ReadCommand
  <2> QED BY <1>5, <2>1
<1>7. CASE DialAsks
  <2>1. ReadCommand(Told("CONNECT")) /\ mode = "command" /\ mode' = "password"
    BY <1>7 DEF DialAsks, ReadCommand
  <2>2. Steady
    <3>1. mode' # mode
      BY <2>1
    <3> QED BY <3>1 DEF vars
  <2> QED BY <1>5, <1>7, <2>1, <2>2 DEF Steady
<1>8. CASE ReadPassword
  BY <1>8, ReadPasswordPressed
<1>9. CASE \/ \E c \in Chunks : Chunk(c)
           \/ Release \/ PollAgain \/ Tick
           \/ \E m \in Messages : BoardSends(m)
           \/ \E n \in 1 .. Len(wire) : RemoteReads(n)
           \/ BoardHangsUp \/ UNCHANGED vars
  <2>1. UNCHANGED <<prompt, mode>>
    BY <1>9 DEF Chunk, Release, PollAgain, Tick, BoardSends, RemoteReads, BoardHangsUp, vars
  <2> QED BY <2>1, SamePressed DEF prompt
<1>10. CASE Escape \/ RemoteGone
  <2>1. mode' = "command" /\ UNCHANGED <<modem, buffered, line, lateLF, presses>>
    BY <1>10 DEF Escape, RemoteGone, LeaveData
  <2> QED BY <2>1, SamePressed
<1> QED
  BY <1>1, <1>2, <1>3, <1>4, <1>6, <1>7, <1>8, <1>9, <1>10 DEF Next

(* Each Enter ends one line or answers one password prompt: an LF that has    *)
(* come with its CR never answers one (session.go:357-376), whatever else is  *)
(* typed and in whatever segments. It takes that S3 stays at CR, and that no  *)
(* line that dials into a password prompt changes S4 back to LF: the LF left  *)
(* behind while S4 was another would then be read as an answer.              *)
THEOREM AnswersAlwaysPressed ==
  Spec /\ [](GetCR(modem) = 13) /\ [][Steady]_vars => []AnswersWerePressed
<1>1. Init => PressInv
  <2> SUFFICES ASSUME Init PROVE PressInv
    OBVIOUS
  <2>1. buffered = <<>> /\ line = "" /\ presses = 0 /\ mode = "command"
    BY DEF Init
  <2>2. Count(<<>>, {"CR"}) = 0
    <3>1. {i \in DOMAIN <<>> : <<>>[i] \in {"CR"}} = {}
      OBVIOUS
    <3> QED BY <3>1, FS_EmptySet, Zenon DEF Count
  <2>3. Paired(<<>>)
    BY DEF Paired
  <2>4. lateLF = FALSE /\ 0 >= 0 /\ "command" # "password"
    <3>1. lateLF = FALSE
      BY Zenon DEF Init
    <3>2. 0 >= 0 /\ "command" # "password"
      OBVIOUS
    <3> QED BY <3>1, <3>2, Zenon
  <2> QED BY <2>1, <2>2, <2>3, <2>4, Zenon DEF PressInv
<1>2. IInv /\ PressInv => AnswersWerePressed
  <2> SUFFICES ASSUME TypeInv, PressInv PROVE presses >= 0
    BY DEF IInv, AnswersWerePressed
  <2>1. buffered \in Seq(Items) /\ presses \in Int /\ presses >= Count(buffered, {"CR"})
    BY DEF TypeInv, PromptTypes, PressInv
  <2> DEFINE X == {"CR"}
  <2> HIDE DEF X
  <2>2. Count(buffered, X) \in Nat
    BY <2>1, CountConcat
  <2>3. presses >= Count(buffered, X)
    BY <2>1 DEF X
  <2> QED BY <2>1, <2>2, <2>3
<1>3. IInv => TypeInv
  BY DEF IInv
<1> QED
  BY Invariance, PressHolds, <1>1, <1>2, <1>3, PTL DEF Spec
=============================================================================
