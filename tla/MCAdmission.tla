---------------------------- MODULE MCAdmission ----------------------------
(* Model checking of Admission: two callers behind one address and one     *)
(* behind another, under three configurations.  The first lets one caller  *)
(* per address in, the second lowers the total but trusts the shared       *)
(* address, the third raises everything and trusts nobody.                 *)
EXTENDS Admission

CONSTANTS c1, c2, c3, proxy, home

MCConns    == {c1, c2, c3}
MCHosts    == {proxy, home}
MCHostOf   == [c \in MCConns |-> IF c = c3 THEN home ELSE proxy]
MCVersions == 1..3
MCMaxTotal == <<2, 1, 3>>
MCMaxPerIP == <<1, 1, 1>>
MCTrusted  == <<{}, {proxy}, {}>>

=============================================================================
