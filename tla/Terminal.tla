------------------------------ MODULE Terminal ------------------------------
(***************************************************************************)
(* The bytes of one session (internal/server/session.go): what a caller    *)
(* types at the modem's prompt and at its password prompt, what it sends   *)
(* during a call, and what travels between it and the board, through the   *)
(* escape detection of dataLoop and the telnet filters.  How calls are     *)
(* placed, ended and cleaned up is module Session's; here a call is placed *)
(* in one step, and the terminal stays.                                    *)
(* Time is counted in read deadlines of dataLoop (100 ms).                 *)
(***************************************************************************)
EXTENDS TelnetFilter, CommandLine

CONSTANTS
  Text,          \* the lines a caller types, by name
  Lines,         \* names of commands
  Passwords,     \* names of the lines typed at a password prompt
  Segments,      \* what the terminal sends at a prompt, one segment each
  Split,         \* those that end in a CR whose LF comes in a segment of its own
  CallProfiles,  \* bound: the modem settings with which calls are placed
  Entries,       \* phonebook entries: <<telnet mode, kind of board>>
  Gated,         \* the numbers whose entries ask for a password
  Chunks,        \* what the terminal sends during a call: [bytes, bulk, mid]
  Messages,      \* what boards send: [from, after, wire, content, shows]
  Guard,         \* guard time, in ticks
  BulkQuiet,     \* how long bulk traffic disables the escape, in ticks
  MaxEscapes,    \* bound: escape characters kept back
  MaxUnread      \* bound: bytes not read yet to which the board adds more

ASSUME TimesAssumption ==
  /\ Guard \in Nat \ {0} /\ BulkQuiet \in Nat \ {0}
  /\ MaxEscapes \in Nat \ {0} /\ MaxUnread \in Nat

ASSUME LinesAssumption ==
  /\ DOMAIN Text = Lines \union Passwords
  /\ \A l \in DOMAIN Text : Text[l] \in [at : BOOLEAN, subs : Seq([type : STRING, n : Nat, v : Nat])]
  /\ {"", "CR", "LF", "lateLF"} \intersect DOMAIN Text = {}

(* An LF is the second half of a CR LF, in its segment or in one of its own.  *)
ASSUME SegmentsAssumption ==
  \A seg \in Segments :
    /\ seg \in Seq(DOMAIN Text \union {"CR", "LF"}) \ {<<>>}
    /\ \A i \in DOMAIN seg : seg[i] = "LF" => i > 1 /\ seg[i - 1] = "CR"
    /\ seg \in Split => seg[Len(seg)] = "CR"

ASSUME ChunksAssumption ==
  \A c \in Chunks : c.bytes \in Seq(Byte)

(* What telnet takes for a command, and what begins a file transfer. *)
Option(w) == Len(w) = 3 /\ w[1] = IAC /\ w[2] \in {WILL, WONT, DO, DONT} /\ w[3] \in Byte
Subnegotiation(w) ==
  /\ Len(w) \in 5 .. MaxOptData + 4
  /\ w[1] = IAC /\ w[2] = SB /\ w[Len(w) - 1] = IAC /\ w[Len(w)] = SE
  /\ \A i \in 3 .. Len(w) - 2 : w[i] \in Byte \ {IAC}
OtherCommand(w) == Len(w) = 2 /\ w[1] = IAC /\ w[2] \in SE .. SB - 1
FrameHeader(w) == Len(w) = 3 /\ w[1] = ZPAD /\ w[2] = ZDLE /\ w[3] \in ZKinds

(* A telnet board doubles a 255, and has negotiated before it sends a file.  *)
TelnetMessage(m) ==
  \/ /\ \E b \in Byte \ {IAC} : m.wire = <<b>> /\ ("nothing" \in m.after => b # ZDLE)
     /\ m.content = m.wire /\ m.shows = "nothing"
  \/ m.wire = <<IAC, IAC>> /\ m.content = <<IAC>> /\ m.shows = "nothing"
  \/ OtherCommand(m.wire) /\ m.content = <<>> /\ m.shows = "nothing"
  \/ (Option(m.wire) \/ Subnegotiation(m.wire)) /\ m.content = <<>> /\ m.shows = "negotiation"
  \/ FrameHeader(m.wire) /\ m.content = m.wire /\ m.shows = "frame" /\ "nothing" \notin m.after

(* A raw board sends any bytes in a file, and no telnet command before one.  *)
RawMessage(m) ==
  /\ m.content = m.wire
  /\ \/ \E b \in Byte : m.wire = <<b>> /\ m.shows = "nothing" /\ (b = IAC => m.after = {"frame"})
     \/ \E b \in 0 .. SE - 1 : m.wire = <<IAC, b>> /\ m.shows = "nothing"
     \/ FrameHeader(m.wire) /\ m.shows = "frame"

ASSUME MessagesAssumption ==
  \A m \in Messages : /\ m.wire \in Seq(Byte)
                       /\ IF m.from = "raw" THEN RawMessage(m) ELSE TelnetMessage(m)

(* The entry's telnet mode is right for its board (session.go:615-620).       *)
ASSUME EntriesAssumption ==
  Entries \subseteq {<<"auto", "telnet">>, <<"auto", "raw">>, <<"yes", "telnet">>,
                    <<"yes", "telnet frontend">>, <<"no", "raw">>}

VARIABLES
  (* the session *)
  modem,        \* settings of the modem
  mode,         \* what the session goroutine reads: a command, a password, data
  call,         \* remoteConn: none, open, or a socket that is closed already
  entry,        \* the phonebook entry of the call
  buffered,     \* what the buffered reader has read ahead
  line,         \* the line being typed
  heard,        \* the last command line and what was written for it
  clientFilter,
  (* locals of dataLoop, clocks as ages *)
  filter, escapeCount, sinceEscape, sinceInput, sinceBulk,
  waited,       \* a read deadline has passed since the last read
  (* the board *)
  wire,         \* bytes on their way to the gateway
  spoken,       \* what the board has shown of itself: nothing, negotiation, a frame
  (* ghosts *)
  lateLF,       \* the terminal still owes the LF of a CR LF
  presses,      \* times Enter was pressed and has not been acted upon
  owed,         \* data bytes of the caller that the board has not received
  due,          \* data bytes of the board that the caller has not received
  typed,        \* escape characters last typed, and the silence before them
  excused       \* why owed is not kept any longer

prompt == <<modem, buffered, line, heard, lateLF, presses>>
escape == <<escapeCount, sinceEscape, sinceInput, sinceBulk, waited, typed>>
upload == <<clientFilter, owed, excused>>
download == <<filter, wire, spoken, due>>
vars == <<prompt, mode, call, entry, escape, upload, download>>

(* Ages are told apart up to here. *)
Long == Guard + 1

EscapeChar == GetEscapeChar(modem)
NoEntry == <<"auto", "raw">>

(* dialTelnet and the verdict of the filter. *)
doubleIAC ==
  CASE entry[1] = "yes"  -> TRUE
    [] entry[1] = "no"   -> FALSE
    [] OTHER             -> PeerSpeaksTelnet(filter)

appendRemote(b) == IF b = IAC /\ doubleIAC THEN <<IAC, IAC>> ELSE <<b>>

Chars(n) == [i \in 1 .. n |-> EscapeChar]
Withheld == Chars(escapeCount)

(* What the application behind a board makes of the bytes sent to it; a      *)
(* telnet board, or a telnet front end, takes every 255 for a command.      *)
Take(r, b) ==
  CASE r.iac /\ b = IAC  -> [iac |-> FALSE, data |-> Append(r.data, IAC)]
    [] r.iac /\ b # IAC  -> [r EXCEPT !.iac = FALSE]
    [] ~r.iac /\ b = IAC -> [r EXCEPT !.iac = TRUE]
    [] OTHER             -> [r EXCEPT !.data = Append(@, b)]

Receiving(bytes) ==
  LET at[i \in 0 .. Len(bytes)] ==
        IF i = 0 THEN [iac |-> FALSE, data |-> <<>>] ELSE Take(at[i - 1], bytes[i])
  IN  at

Received(bytes) ==
  IF entry[2] = "raw" THEN bytes ELSE Receiving(bytes)[Len(bytes)].data

(* owed, after more bytes from the caller and some written to the board; 256 *)
(* marks bytes that were not owed.                                          *)
Owing(more, written) ==
  LET all == owed \o more
      got == Received(written)
  IN  IF excused # "no" THEN <<>>
      ELSE IF IsPrefix(got, all) THEN SubSeq(all, Len(got) + 1, Len(all))
      ELSE Append(all, 256)

(* A board that has not negotiated yet is taken for a raw one. *)
Misjudged(bytes) ==
  entry = <<"auto", "telnet">> /\ ~PeerSpeaksTelnet(filter) /\ Contains(bytes, IAC)

-----------------------------------------------------------------------------
(* The prompt.                                                             *)

Code == [CR |-> 13, LF |-> 10, lateLF |-> 10]
IsTerminator(item) == item \in DOMAIN Code /\ Code[item] \in {GetCR(modem), GetLF(modem)}
IsLF(item) == item \in DOMAIN Code /\ Code[item] = GetLF(modem)

Silent == [results |-> 0, infos |-> 0, asked |-> 0, reformats |-> 0]

(* A segment arrives; the buffered reader takes it whole. *)
Type(seg) ==
  /\ mode \in {"command", "password"}
  /\ buffered = <<>> /\ ~lateLF
  /\ Head(seg) \in (IF mode = "command" THEN Lines ELSE Passwords) \union {"CR"}
  /\ buffered' = seg
  /\ lateLF' \in IF seg \in Split THEN BOOLEAN ELSE {FALSE}
  /\ presses' = presses + Cardinality({i \in DOMAIN seg : seg[i] = "CR"})
  /\ UNCHANGED <<modem, line, heard, mode, call, entry, escape, upload, download>>

(* The LF of a line whose CR came in an earlier segment. During a call it is *)
(* data like any other.                                                     *)
TypeLateLF ==
  /\ lateLF /\ lateLF' = FALSE
  /\ buffered' = IF mode = "data" THEN buffered ELSE Append(buffered, "lateLF")
  /\ UNCHANGED <<modem, line, heard, presses, mode, call, entry, escape, upload, download>>

(* readLine and readPassword, one item.  Other characters of a line, and     *)
(* control characters that end none, change nothing here.                   *)
ReadText ==
  /\ mode \in {"command", "password"}
  /\ buffered # <<>> /\ ~IsTerminator(Head(buffered))
  /\ buffered' = Tail(buffered)
  /\ line' = IF Head(buffered) \in DOMAIN Code THEN line ELSE Head(buffered)
  /\ UNCHANGED <<modem, heard, lateLF, presses, mode, call, entry, escape, upload, download>>

(* Mutant: only the CR is taken, the bug that session.go:361-369 tells of. *)
AfterLine_LeavesLF == Tail(buffered)

(* readLine ends a line at CR or LF, and takes the LF of a CR LF with it if   *)
(* it has arrived.                                                          *)
AfterLine ==
  IF Code[Head(buffered)] = GetCR(modem) /\ Len(buffered) > 1 /\ IsLF(buffered[2])
  THEN SubSeq(buffered, 3, Len(buffered)) ELSE Tail(buffered)

(* The call that starts: a new filter, and nothing on the line yet. *)
Connected(e) ==
  /\ call' = "open" /\ entry' = e /\ mode' = "data"
  /\ filter' = NewRemoteTelnetFilter /\ wire' = <<>> /\ spoken' = "nothing" /\ due' = <<>>
  /\ escapeCount' = 0 /\ sinceEscape' = 0
  /\ sinceInput' = Long /\ sinceBulk' = BulkQuiet /\ waited' = FALSE
  /\ typed' = [run |-> 0, silence |-> 0]
  /\ owed' = <<>> /\ excused' = "no" /\ UNCHANGED clientFilter

(* Of what is written, the results and the rest. *)
Results(out) == Cardinality({i \in DOMAIN out : out[i] # Info})
Infos(out) == Cardinality({i \in DOMAIN out : out[i] = Info})

(* Commands before the last that change how a result is written. *)
Reformat(p, cmd, isLast) ==
  LET after == Effect(p.m, cmd)
      changed == /\ ~isLast /\ ~after.quiet
                 /\ <<GetCR(p.m), GetLF(p.m)>> # <<GetCR(after), GetLF(after)>>
  IN  [m |-> after, n |-> p.n + IF changed THEN 1 ELSE 0]

Reformatting(m, cmds) ==
  LET at[i \in 0 .. Len(cmds)] ==
        IF i = 0 THEN [m |-> m, n |-> 0] ELSE Reformat(at[i - 1], cmds[i], i = Len(cmds))
  IN  at

Heard(l, out) ==
  LET cmds == ParseCommandLine(Text[l])
  IN  [results |-> Results(out), infos |-> Infos(out),
       asked |-> Cardinality({i \in DOMAIN cmds :
                    /\ HasInfo(cmds[i]) \/ cmds[i].type = "CLS"
                    /\ \A j \in 1 .. i - 1 : cmds[j].type # "O"}),
       reformats |-> Reformatting(modem, cmds)[Len(cmds)].n]

(* commandLoop: a line is read and processed. An empty one does nothing.     *)
ReadEmptyLine ==
  /\ mode = "command" /\ buffered # <<>> /\ IsTerminator(Head(buffered)) /\ line = ""
  /\ buffered' = AfterLine
  /\ presses' = IF Head(buffered) = "CR" THEN presses - 1 ELSE presses
  /\ UNCHANGED <<modem, line, heard, lateLF, mode, call, entry, escape, upload, download>>

Processed == processCommand(modem, Text[line], call # "none")

(* told is what the rest of the line's command says, if it is a dial. *)
ReadCommand(told) ==
  /\ mode = "command" /\ buffered # <<>> /\ IsTerminator(Head(buffered)) /\ line # ""
  /\ buffered' = AfterLine /\ line' = ""
  /\ presses' = presses - 1
  /\ modem' = Processed.modem
  /\ heard' = Heard(line, Processed.out \o told)
  /\ UNCHANGED lateLF

ProcessLine ==
  /\ ReadCommand(<<>>)
  /\ Processed.then \in {"prompt", "data"}
  /\ mode' = IF Processed.then = "data" THEN "data" ELSE "command"
  /\ UNCHANGED <<call, entry, escape, upload, download>>

(* The dial fails, connects and asks for a password, or connects. One result  *)
(* stands for what a dial says: RING, BUSY and the rest are Session's.        *)
Number == Last(ParseCommandLine(Text[line])).n
Told(code) == formatResult(Processed.modem, code)

DialFails ==
  /\ ReadCommand(Told("NO CARRIER")) /\ Processed.then = "dial"
  /\ UNCHANGED <<mode, call, entry, escape, upload, download>>

DialAsks ==
  /\ ReadCommand(Told("CONNECT")) /\ Processed.then = "dial"
  /\ Number \in Gated
  /\ modem' \in CallProfiles
  /\ mode' = "password"
  /\ UNCHANGED <<call, entry, escape, upload, download>>

DialConnects ==
  /\ ReadCommand(Told("CONNECT")) /\ Processed.then = "dial"
  /\ Number \notin Gated
  /\ modem' \in CallProfiles
  /\ \E e \in Entries : Connected(e)

(* readPassword takes the CR alone. The right answer places the call, which   *)
(* may fail; any other ends the dial.                                        *)
ReadPassword ==
  /\ mode = "password" /\ buffered # <<>> /\ IsTerminator(Head(buffered))
  /\ buffered' = Tail(buffered) /\ line' = ""
  /\ presses' = IF Head(buffered) = "lateLF" THEN presses ELSE presses - 1
  /\ UNCHANGED <<modem, lateLF>>
  /\ \/ /\ line = "right"
        /\ \E e \in Entries : Connected(e)
        /\ UNCHANGED heard
     \/ /\ heard' = [Silent EXCEPT !.results = Results(formatResult(modem, "NO CARRIER"))]
        /\ mode' = "command"
        /\ UNCHANGED <<call, entry, escape, upload, download>>

-----------------------------------------------------------------------------
(* The call: dataLoop.                                                     *)

InCall == mode = "data" /\ call = "open"

(* Mutant: characters kept back are forgotten when ordinary data follows. *)
OneByte_Forgets(r, b, bulkAge) ==
  LET seen == [r EXCEPT !.sinceInput = 0, !.sinceEscape = 0]
  IN  IF b = EscapeChar /\ bulkAge >= BulkQuiet
      THEN IF r.count > 0 \/ r.sinceInput > Guard THEN [seen EXCEPT !.count = @ + 1]
           ELSE [seen EXCEPT !.out = @ \o appendRemote(b)]
      ELSE [seen EXCEPT !.out = @ \o appendRemote(b), !.count = 0]

(* Mutant: bulk traffic is asked about only for the first character. *)
OneByte_GatesFirst(r, b, bulkAge) ==
  LET seen == [r EXCEPT !.sinceInput = 0, !.sinceEscape = 0]
      quiet == r.sinceInput > Guard /\ bulkAge >= BulkQuiet
  IN  IF b = EscapeChar
      THEN IF r.count > 0 \/ quiet THEN [seen EXCEPT !.count = @ + 1]
           ELSE [seen EXCEPT !.out = @ \o appendRemote(b)]
      ELSE [seen EXCEPT !.out = @ \o Chars(r.count) \o appendRemote(b), !.count = 0]

(* One data byte from the caller. The clocks of r stand at the byte's time.  *)
OneByte(r, b, bulkAge) ==
  LET seen == [r EXCEPT !.sinceInput = 0]
  IN  IF b = EscapeChar /\ bulkAge >= BulkQuiet
      THEN CASE r.count = 0 /\ r.sinceInput > Guard ->
                  [seen EXCEPT !.count = 1, !.sinceEscape = 0]
             [] r.count = 0 /\ r.sinceInput <= Guard ->
                  [seen EXCEPT !.out = @ \o appendRemote(b)]
             [] r.count > 0 /\ r.sinceEscape < Guard ->
                  [seen EXCEPT !.count = @ + 1, !.sinceEscape = 0]
             [] OTHER ->
                  [seen EXCEPT !.count = 1, !.sinceEscape = 0, !.late = TRUE]
      ELSE [seen EXCEPT !.out = @ \o Chars(r.count) \o appendRemote(b),
                        !.count = 0, !.sinceEscape = 0]

Detecting(data, bulkAge) ==
  LET at[i \in 0 .. Len(data)] ==
        IF i = 0 THEN [count |-> escapeCount, sinceEscape |-> sinceEscape,
                       sinceInput |-> sinceInput, out |-> <<>>, late |-> FALSE]
        ELSE OneByte(at[i - 1], data[i], bulkAge)
  IN  at

Detected(data, bulkAge) == Detecting(data, bulkAge)[Len(data)]

(* What an escape is, told from the caller's side: escape characters in a    *)
(* row, each within the guard time of the one before, the first after        *)
(* silence, while nothing streams.                                          *)
Typing(t, b, bulkAge) ==
  LET goesOn == t.run > 0 /\ t.age < Guard
  IN  [age |-> 0,
       run |-> IF b # EscapeChar THEN 0
               ELSE IF goesOn THEN (IF t.run < 3 THEN t.run + 1 ELSE 3) ELSE 1,
       silence |-> IF b # EscapeChar \/ bulkAge < BulkQuiet THEN 0
                   ELSE IF goesOn THEN t.silence ELSE t.age]

TypingOn(data, bulkAge) ==
  LET at[i \in 0 .. Len(data)] ==
        IF i = 0 THEN [age |-> sinceInput, run |-> typed.run, silence |-> typed.silence]
        ELSE Typing(at[i - 1], data[i], bulkAge)
  IN  at

(* A chunk from the terminal; a bulk one is at least 64 bytes long, of which *)
(* these stand for all, and one that is mid goes on with a telnet command    *)
(* that the chunk before it began.                                          *)
Chunk(c) ==
  LET bytes == Filter(clientFilter, c.bytes)
      bulkAge == IF c.bulk THEN 0 ELSE sinceBulk
      r == Detected(bytes.filtered, bulkAge)
      t == TypingOn(bytes.filtered, bulkAge)[Len(bytes.filtered)]
  IN  /\ InCall /\ ~lateLF
      /\ c.mid <=> clientFilter.state # "data"
      /\ r.count <= MaxEscapes
      /\ clientFilter' = bytes.filter
      /\ escapeCount' = r.count /\ sinceEscape' = r.sinceEscape
      /\ sinceInput' = r.sinceInput /\ sinceBulk' = bulkAge
      /\ waited' = FALSE
      /\ owed' = Owing(bytes.filtered, r.out)
      /\ excused' = IF r.late THEN "late"
                    ELSE IF excused = "no" /\ Misjudged(bytes.filtered) THEN "misjudged"
                    ELSE excused
      /\ typed' = [run |-> t.run, silence |-> t.silence]
      /\ UNCHANGED <<prompt, mode, call, entry, download>>

(* Back at the prompt: the locals of dataLoop are gone. *)
LeaveData(c, result) ==
  /\ mode' = "command" /\ call' = c
  /\ heard' = [Silent EXCEPT !.results = Results(formatResult(modem, result))]
  /\ escapeCount' = 0 /\ sinceEscape' = 0 /\ sinceInput' = 0 /\ sinceBulk' = 0
  /\ waited' = FALSE /\ typed' = [run |-> 0, silence |-> 0]
  /\ owed' = <<>> /\ excused' = "no" /\ clientFilter' = clientFilter
  /\ filter' = NewRemoteTelnetFilter /\ wire' = <<>> /\ spoken' = "nothing" /\ due' = <<>>
  /\ entry' = NoEntry
  /\ UNCHANGED <<modem, buffered, line, lateLF, presses>>

(* Mutant: fewer than three characters are kept back for ever. *)
GuardOver_OnlyEscapes == escapeCount >= 3 /\ sinceEscape > Guard

(* The read deadline passes: the guard time after the escape characters may  *)
(* have run out.                                                            *)
GuardOver == escapeCount > 0 /\ sinceEscape > Guard

Escape ==
  /\ InCall /\ waited /\ GuardOver /\ escapeCount >= 3
  /\ LeaveData("dead", "OK")

Release ==
  /\ InCall /\ waited /\ GuardOver /\ escapeCount < 3
  /\ escapeCount' = 0 /\ sinceEscape' = 0
  /\ owed' = Owing(<<>>, Withheld)
  /\ waited' = FALSE
  /\ UNCHANGED <<prompt, mode, call, entry, download, clientFilter, excused,
                 sinceInput, sinceBulk, typed>>

PollAgain ==
  /\ InCall /\ waited /\ ~GuardOver
  /\ waited' = FALSE
  /\ UNCHANGED <<prompt, mode, call, entry, upload, download,
                 escapeCount, sinceEscape, sinceInput, sinceBulk, typed>>

Poll == Escape \/ Release \/ PollAgain

Older(age, most) == IF age < most THEN age + 1 ELSE most

Tick ==
  /\ InCall /\ ~waited /\ ~lateLF
  /\ waited' = TRUE
  /\ sinceEscape' = IF escapeCount > 0 THEN Older(sinceEscape, Long) ELSE 0
  /\ sinceInput' = Older(sinceInput, Long)
  /\ sinceBulk' = Older(sinceBulk, BulkQuiet)
  /\ UNCHANGED <<prompt, mode, call, entry, upload, download, escapeCount, typed>>

(* The board, and the goroutine that reads from it. *)
BoardSends(m) ==
  /\ InCall /\ Len(wire) <= MaxUnread
  /\ entry[2] = m.from /\ spoken \in m.after
  /\ wire' = wire \o m.wire /\ due' = due \o m.content
  /\ spoken' = IF spoken = "frame" \/ m.shows = "nothing" THEN spoken ELSE m.shows
  /\ UNCHANGED <<prompt, mode, call, entry, escape, upload, filter>>

(* A read returns some of the bytes; they are filtered and written at once.  *)
RemoteReads(n) ==
  LET t == Filter(filter, SubSeq(wire, 1, n))
  IN  /\ InCall /\ n \in 1 .. Len(wire)
      /\ filter' = t.filter
      /\ wire' = SubSeq(wire, n + 1, Len(wire))
      /\ due' = IF IsPrefix(t.filtered, due)
                THEN SubSeq(due, Len(t.filtered) + 1, Len(due)) ELSE <<256>>
      /\ UNCHANGED <<prompt, mode, call, entry, escape, upload, spoken>>

BoardHangsUp ==
  /\ InCall
  /\ call' = "dead"
  /\ UNCHANGED <<prompt, mode, entry, escape, upload, download>>

RemoteGone ==
  /\ mode = "data" /\ call = "dead"
  /\ LeaveData("none", "NO CARRIER")

-----------------------------------------------------------------------------
Init ==
  /\ modem = PowerOn /\ mode = "command" /\ call = "none"
  /\ entry = NoEntry
  /\ buffered = <<>> /\ line = "" /\ heard = [Silent EXCEPT !.results = 1]
  /\ clientFilter = NewTelnetFilter
  /\ filter = NewRemoteTelnetFilter
  /\ escapeCount = 0 /\ sinceEscape = 0 /\ sinceInput = 0 /\ sinceBulk = 0 /\ waited = FALSE
  /\ wire = <<>> /\ spoken = "nothing"
  /\ lateLF = FALSE /\ presses = 0 /\ owed = <<>> /\ due = <<>>
  /\ typed = [run |-> 0, silence |-> 0] /\ excused = "no"

Next ==
  \/ \E seg \in Segments : Type(seg)
  \/ TypeLateLF \/ ReadText \/ ReadEmptyLine
  \/ ProcessLine \/ DialFails \/ DialAsks \/ DialConnects \/ ReadPassword
  \/ \E c \in Chunks : Chunk(c)
  \/ Escape \/ Release \/ PollAgain \/ Tick
  \/ \E m \in Messages : BoardSends(m)
  \/ \E n \in 1 .. Len(wire) : RemoteReads(n)
  \/ BoardHangsUp \/ RemoteGone

(* Time passes, a read deadline that has passed is noticed, and a closed      *)
(* socket ends the call. Strong fairness: the terminal's bytes do not beat,   *)
(* time after time, the deadline that follows the guard time.                 *)
Fairness ==
  /\ WF_vars(Tick) /\ WF_vars(TypeLateLF) /\ WF_vars(PollAgain) /\ WF_vars(RemoteGone)
  /\ SF_vars(Escape \/ Release)

Spec == Init /\ [][Next]_vars /\ Fairness

-----------------------------------------------------------------------------
(* Types; every register is within its limits, whatever was typed. *)
TypeOK ==
  /\ \A r \in DOMAIN modem.registers \cap DOMAIN registerLimits :
        modem.registers[r] \in registerLimits[r][1] .. registerLimits[r][2]
  /\ modem.echo \in BOOLEAN /\ modem.verbose \in BOOLEAN /\ modem.quiet \in BOOLEAN
  /\ modem.xlevel \in 0 .. 4 /\ modem.errorCorrection \in {0, 5}
  /\ mode \in {"command", "password", "data"} /\ call \in {"none", "open", "dead"}
  /\ entry \in Entries \union {NoEntry}
  /\ line \in Lines \union Passwords \union {""}
  /\ escapeCount \in 0 .. MaxEscapes /\ waited \in BOOLEAN
  /\ sinceEscape \in 0 .. Long /\ sinceInput \in 0 .. Long /\ sinceBulk \in 0 .. BulkQuiet
  /\ filter \in Filters /\ clientFilter \in Filters
  /\ spoken \in {"nothing", "negotiation", "frame"}
  /\ typed \in [run : 0 .. 3, silence : 0 .. Long]
  /\ excused \in {"no", "late", "misjudged"}

(* Every data byte read from the caller has reached the board, once and in    *)
(* order, except the escape characters kept back; the doubling of 255 is the  *)
(* one the board expects. Two cases are excepted: an escape character that    *)
(* comes between the guard time and the poll after it (NothingLost), and a    *)
(* board that has not negotiated when a 255 is sent.                          *)
UploadIntact == InCall /\ excused = "no" => owed = Withheld

(* session.go:721-724: characters kept back that turn out to be no escape     *)
(* "are ordinary data and still have to reach the BBS". They are dropped when *)
(* one more comes after the guard time and before the read deadline that      *)
(* would have released them (session.go:797-800).                             *)
NothingLost == InCall /\ excused # "misjudged" => owed = Withheld

(* What the board sends reaches the caller byte for byte, telnet commands     *)
(* taken out, however its bytes are cut into reads and whatever kind of board *)
(* it is, across the start of a file transfer.                                *)
DownloadIntact == InCall => /\ ~Contains(due, 256)
                            /\ wire = <<>> => due = <<>>

(* The session leaves the call for the prompt exactly when the caller has     *)
(* typed the escape: three characters or more, silence before, silence after, *)
(* no transfer. (A silence of exactly the guard time may count or not.)       *)
Typed(silence) == typed.run = 3 /\ typed.silence >= silence /\ sinceInput > Guard
EscapeIsTyped == [][Poll => /\ mode' = "command" => Typed(Guard)
                            /\ Typed(Guard + 1) => mode' = "command"]_vars

(* Characters kept back do not stay: they are an escape, or reach the board,  *)
(* or the call ends. (A caller who goes on sending one just after each guard  *)
(* time is the case of NothingLost.)                                          *)
WithheldReleased == (escapeCount > 0) ~> (escapeCount = 0 \/ excused = "late")

(* A line gets one result, however many commands are in it, and none in quiet *)
(* mode (session.go:477-480). The exception: a command before the last that   *)
(* changes S3 or S4 leaves its own OK behind.                                 *)
OneResultPerLine ==
  heard.reformats = 0 => heard.results = IF modem.quiet THEN 0 ELSE 1

(* All information that the commands of a line have produced reaches the      *)
(* terminal, once. The exception: in quiet mode the last command may have     *)
(* nothing to say, and what was kept back for it is dropped.                  *)
InfoTold == ~modem.quiet => heard.infos = heard.asked

(* Each Enter ends one line or one password: the LF behind a CR never answers *)
(* a prompt (session.go:361-369). The exception: an LF that comes in a later  *)
(* segment.                                                                   *)
AnswersWerePressed == presses >= 0
=============================================================================
