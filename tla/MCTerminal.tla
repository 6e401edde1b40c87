---------------------------- MODULE MCTerminal ----------------------------
(* Constants of Terminal for TLC. *)
EXTENDS Terminal

AT(subs) == [at |-> TRUE, subs |-> subs]

MCText ==
  [plain    |-> AT(<<>>),
   right    |-> [at |-> FALSE, subs |-> <<>>],
   wrongly  |-> [at |-> FALSE, subs |-> <<>>],
   setup    |-> AT(<<Plain("V1"), Sub("X", 0, 4), Sub("S=", 12, 5)>>),
   terse    |-> AT(<<Plain("V0"), Plain("I")>>),
   quiet    |-> AT(<<Plain("I"), Plain("Q1")>>),
   talk     |-> AT(<<Plain("Q0"), Sub("S?", 12, 0), Plain("H")>>),
   linefeed |-> AT(<<Plain("I"), Sub("S=", 4, 11), Plain("&V")>>),
   reset    |-> AT(<<Plain("I"), Plain("Z"), Plain("CLS")>>),
   wrong    |-> AT(<<Plain("I"), Sub("&N", 0, 5), Plain("V0")>>),
   dial     |-> AT(<<Plain("I"), Sub("D", 1, 0)>>),
   gated    |-> AT(<<Sub("D", 2, 0)>>),
   online   |-> AT(<<Plain("O"), Plain("Z")>>),
   factory  |-> AT(<<Plain("&F")>>)]

MCPasswords == {"right", "wrongly"}
MCLines == DOMAIN MCText \ MCPasswords

MCSegments ==
  {<<"CR">>, <<"CR", "LF">>}
    \union {<<l, "CR">> : l \in MCLines \union MCPasswords}
    \union {<<l, "CR", "LF">> : l \in {"gated", "linefeed", "right"}}
    \union {<<"gated", "CR", "LF", "right", "CR">>}

MCSplit == {<<"gated", "CR">>, <<"reset", "CR">>}

(* Calls are placed with the settings of power-on. *)
MCCallProfiles == {PowerOn}

MCEntries == {<<"auto", "telnet">>, <<"auto", "raw">>, <<"yes", "telnet frontend">>}

(* 120 is an x, 43 the escape character, 241 a telnet NOP. *)
C(bytes, bulk, mid) == [bytes |-> bytes, bulk |-> bulk, mid |-> mid]

MCChunks ==
  { C(<<120>>, FALSE, FALSE), C(<<43>>, FALSE, FALSE), C(<<43, 43, 43>>, FALSE, FALSE),
    C(<<120, 43, 43, 43>>, FALSE, FALSE), C(<<43, 255, 255>>, FALSE, FALSE),
    C(<<255>>, FALSE, FALSE), C(<<255, 43>>, FALSE, TRUE), C(<<241>>, FALSE, TRUE),
    C(<<43, 43, 43, 120>>, TRUE, FALSE) }

M(from, after, wireBytes, content, shows) ==
  [from |-> from, after |-> after, wire |-> wireBytes, content |-> content, shows |-> shows]

MCMessages ==
  { M("telnet", {"nothing"}, <<IAC, DO, NAWS>>, <<>>, "negotiation"),
    M("telnet", {"nothing"}, <<IAC, SB, 24, 1, IAC, SE>>, <<>>, "negotiation"),
    M("telnet", {"negotiation"}, <<ZPAD, ZDLE, 66>>, <<ZPAD, ZDLE, 66>>, "frame"),
    M("telnet", {"nothing", "frame"}, <<IAC, IAC>>, <<IAC>>, "nothing"),
    M("raw", {"nothing"}, <<IAC, 120>>, <<IAC, 120>>, "nothing"),
    M("raw", {"nothing"}, <<ZPAD, ZDLE, 65>>, <<ZPAD, ZDLE, 65>>, "frame"),
    M("raw", {"frame"}, <<IAC>>, <<IAC>>, "nothing"),
    M("raw", {"frame"}, <<WILL>>, <<WILL>>, "nothing"),
    M("telnet frontend", {"nothing"}, <<120>>, <<120>>, "nothing"),
    M("telnet frontend", {"nothing"}, <<IAC, 241>>, <<>>, "nothing") }
===========================================================================
