------------------------- MODULE TelnetFilterProofs -------------------------
(***************************************************************************)
(* Theorems about TelnetFilter, for every state of the filter: about one   *)
(* byte, and about whole reads.  For the reads, induction over sequences   *)
(* comes first, from the well-foundedness of the natural numbers.          *)
(***************************************************************************)
EXTENDS TelnetFilter, SequenceTheorems, WellFoundedInduction, TLAPS

-----------------------------------------------------------------------------
(* A set of natural numbers has a least element. *)
LEMMA Least ==
  ASSUME NEW T, T \subseteq Nat, T # {}
  PROVE  \E m \in T : \A k \in T : m <= k
<1> DEFINE R == {p \in Nat \X Nat : p[1] < p[2]}
<1>1. IsWellFoundedOn(R, Nat)
  BY NatLessThanWellFounded DEF OpToRel
<1>2. \A i, j \in Nat : i < j => <<i, j>> \in R
  OBVIOUS
<1> HIDE DEF R
<1>3. \E m \in T : \A k \in T : ~ (<<k, m>> \in R)
  BY <1>1, WFMin
<1>4. \A m, k \in T : ~ (<<k, m>> \in R) => m <= k
  BY <1>2
<1> QED
  BY <1>3, <1>4

(* What holds of 0, and of a number after its predecessor, holds up to n. *)
LEMMA Induction ==
  ASSUME NEW n \in Nat, NEW T, 0 \in T,
         \A i \in 1..n : i - 1 \in T => i \in T
  PROVE  \A i \in 0..n : i \in T
<1> DEFINE Missing == (0..n) \ T
<1> SUFFICES ASSUME Missing # {} PROVE FALSE
  OBVIOUS
<1>1. PICK m \in Missing : \A k \in Missing : m <= k
  <2> Missing \subseteq Nat
    OBVIOUS
  <2> HIDE DEF Missing
  <2> QED BY Least
<1>2. m \in 1..n /\ m - 1 \in T
  BY <1>1
<1> QED
  BY <1>1, <1>2

(* A recursion over 1..n has a solution. *)
Steps(S, n, step) == step \in [1..n -> [S -> S]]
Solves(S, s, n, step, r) ==
  r \in [0..n -> S] /\ r[0] = s /\ \A i \in 1..n : r[i] = step[i][r[i - 1]]

LEMMA Iteration ==
  ASSUME NEW S, NEW s \in S, NEW n \in Nat, NEW step, Steps(S, n, step)
  PROVE  \E r : Solves(S, s, n, step, r)
<1> USE DEF Steps
<1> DEFINE Runs(k, r) == r[0] = s /\ \A i \in 1..k : r[i] = step[i][r[i - 1]]
           T == {k \in 0..n : \E r \in [0..k -> S] : Runs(k, r)}
<1>1. 0 \in T
  <2> DEFINE q == [i \in 0..0 |-> s]
  <2>1. q \in [0..0 -> S] /\ Runs(0, q)
    OBVIOUS
  <2> HIDE DEF q, Runs
  <2> QED
    BY <2>1
<1>2. ASSUME NEW k \in 1..n, k - 1 \in T PROVE k \in T
  <2>1. PICK r \in [0..(k - 1) -> S] : Runs(k - 1, r)
    BY <1>2
  <2> DEFINE q == [i \in 0..k |-> IF i <= k - 1 THEN r[i] ELSE step[k][r[k - 1]]]
  <2>2. q \in [0..k -> S]
    <3>2. step[k][r[k - 1]] \in S
      OBVIOUS
    <3> QED BY <3>2
  <2>3. Runs(k, q)
    <3>1. q[0] = s
      BY <2>1
    <3>2. ASSUME NEW i \in 1..k PROVE q[i] = step[i][q[i - 1]]
      <4>1. CASE i <= k - 1
        BY <4>1, <2>1
      <4>2. CASE i = k
        <5>1. q[k] = step[k][r[k - 1]] /\ q[k - 1] = r[k - 1]
          OBVIOUS
        <5> QED BY <4>2, <5>1
      <4> QED BY <4>1, <4>2
    <3> QED BY <3>1, <3>2
  <2> HIDE DEF q, Runs
  <2> QED
    BY <2>2, <2>3
<1> HIDE DEF Runs
<1>3. n \in T
  <2> HIDE DEF T, Steps
  <2> QED BY <1>1, <1>2, Induction
<1> QED
  BY <1>3 DEF Runs, Solves

(* What holds at first, and is kept by each step, holds throughout. *)
LEMMA Stays ==
  ASSUME NEW S, NEW r, NEW n \in Nat, r[0] \in S,
         \A i \in 1..n : r[i - 1] \in S => r[i] \in S
  PROVE  \A i \in 0..n : r[i] \in S
<1> DEFINE T == {i \in 0..n : r[i] \in S}
<1>1. 0 \in T
  OBVIOUS
<1>3. \A i \in 1..n : i - 1 \in T => i \in T
  OBVIOUS
<1>2. \A i \in 0..n : i \in T
  <2> HIDE DEF T
  <2> QED BY <1>1, <1>3, Induction
<1> QED
  BY <1>2

-----------------------------------------------------------------------------
LEMMA Bytes ==
  /\ {IAC, DONT, DO, WONT, WILL, SB, SE} \subseteq Byte
  /\ {ECHO, SUPPRESS_GO_AHEAD, TERMINAL_TYPE, NAWS, TTYPE_IS, TTYPE_SEND} \subseteq Byte
BY DEF Byte, IAC, DONT, DO, WONT, WILL, SB, SE, ECHO, SUPPRESS_GO_AHEAD, TERMINAL_TYPE, NAWS,
       TTYPE_IS, TTYPE_SEND

(* noteDataByte moves nothing but the frame, and the lock one way. *)
LEMMA Noted ==
  ASSUME NEW f \in Filters, NEW b \in Byte
  PROVE  LET g == noteDataByte(f, b)
         IN  /\ g \in Filters
             /\ g.state = f.state /\ g.learnPeer = f.learnPeer
             /\ g.peerNegotiated = f.peerNegotiated
             /\ f.peerLocked => g.peerLocked
BY DEF noteDataByte, Filters

LEMMA Answers ==
  ASSUME NEW f \in Filters, NEW cmd \in Byte, NEW opt \in Byte
  PROVE  respondToOption(cmd, opt) \in Seq(Byte) /\ handleSubnegotiation(f) \in Seq(Byte)
<1>1. respondToOption(cmd, opt) \in Seq(Byte)
  BY Bytes DEF respondToOption
<1>2. 65 \in Byte /\ 78 \in Byte /\ 83 \in Byte /\ 73 \in Byte
  BY DEF Byte
<1>3. handleSubnegotiation(f) \in Seq(Byte)
  BY Bytes, <1>2 DEF handleSubnegotiation
<1> QED
  BY <1>1, <1>3

LEMMA Moves ==
  ASSUME NEW f \in Filters, NEW state \in FilterStates
  PROVE  /\ To(f, state) \in Filters
         /\ To(f, state) = [f EXCEPT !.state = state] /\ To(f, state).state = state
         /\ Negotiated(f) \in Filters /\ Negotiated(f).learnPeer = f.learnPeer
         /\ Negotiated(f).peerLocked = f.peerLocked
         /\ f.peerLocked => Negotiated(f).peerNegotiated = f.peerNegotiated
BY DEF To, Negotiated, Filters

(* The branch that a state takes. *)
LEMMA Dispatch ==
  ASSUME NEW f, NEW b
  PROVE  /\ f.state = "data" => FilterByte(f, b) = InData(f, b)
         /\ f.state = "IAC" => FilterByte(f, b) = InIAC(f, b)
         /\ f.state = "command" => FilterByte(f, b) =
              Taken(To(Negotiated(f), "data"), <<>>, respondToOption(f.command, b))
         /\ f.state = "SB" => FilterByte(f, b) =
              Taken([To(f, "SBData") EXCEPT !.optData = Append(@, b)], <<>>, <<>>)
         /\ f.state = "SBData" => FilterByte(f, b) = InSBData(f, b)
         /\ f.state = "SBIAC" => FilterByte(f, b) = InSBIAC(f, b)
BY DEF FilterByte

(* The branch that a byte takes after a 255. *)
LEMMA AfterIAC ==
  ASSUME NEW f, NEW b
  PROVE  /\ b = IAC => InIAC(f, b) = Taken(To(noteDataByte(f, IAC), "data"), <<IAC>>, <<>>)
         /\ b \in {WILL, WONT, DO, DONT} =>
              InIAC(f, b) = Taken([To(f, "command") EXCEPT !.command = b], <<>>, <<>>)
         /\ b = SB => InIAC(f, b) = Taken([To(f, "SB") EXCEPT !.optData = <<>>], <<>>, <<>>)
         /\ b \notin {IAC, WILL, WONT, DO, DONT, SB} =>
              InIAC(f, b) = Taken(To(f, "data"), IF b < SE THEN <<IAC, b>> ELSE <<>>, <<>>)
BY DEF InIAC, IAC, WILL, WONT, DO, DONT, SB

LEMMA AfterSBIAC ==
  ASSUME NEW f, NEW b
  PROVE  /\ b = SE =>
              InSBIAC(f, b) = Taken(To(Negotiated(f), "data"), <<>>, handleSubnegotiation(f))
         /\ b = IAC =>
              InSBIAC(f, b) = Taken([To(f, "SBData") EXCEPT !.optData = Append(@, IAC)], <<>>, <<>>)
         /\ b \notin {SE, IAC} => InSBIAC(f, b) = Taken(To(f, "data"), <<>>, <<>>)
BY DEF InSBIAC, SE, IAC

LEMMA OptData ==
  ASSUME NEW f \in Filters, NEW b \in Byte
  PROVE  [f EXCEPT !.optData = Append(@, b)] \in Filters /\ [f EXCEPT !.optData = <<>>] \in Filters
<1>1. Append(f.optData, b) \in Seq(Byte) /\ <<>> \in Seq(Byte)
  BY DEF Filters
<1> QED
  BY <1>1 DEF Filters

LEMMA TakenFields ==
  ASSUME NEW f, NEW out, NEW back
  PROVE  /\ Taken(f, out, back).filter = f /\ Taken(f, out, back).filtered = out
         /\ Taken(f, out, back).responses = back
BY DEF Taken

-----------------------------------------------------------------------------
(* Whatever its state, the filter takes any byte: it stays well formed and   *)
(* emits bytes, with no byte for which a state has no case (dialer.go:243-324). *)
THEOREM FilterTotal ==
  ASSUME NEW f \in Filters, NEW b \in Byte
  PROVE  LET t == FilterByte(f, b)
         IN  t.filter \in Filters /\ t.filtered \in Seq(Byte) /\ t.responses \in Seq(Byte)
<1> DEFINE Fine(t) == /\ t.filter \in Filters /\ t.filtered \in Seq(Byte)
                      /\ t.responses \in Seq(Byte)
<1> SUFFICES Fine(FilterByte(f, b))
  OBVIOUS
<1>0. \A g \in Filters, out \in Seq(Byte), back \in Seq(Byte) : Fine(Taken(g, out, back))
  BY TakenFields
<1>9. <<>> \in Seq(Byte) /\ <<b>> \in Seq(Byte) /\ <<IAC>> \in Seq(Byte)
  BY Bytes
<1> HIDE DEF Fine
<1>1. \A s \in FilterStates : To(f, s) \in Filters /\ To(Negotiated(f), s) \in Filters
  BY Moves
<1>2. CASE f.state = "data"
  <2>1. FilterByte(f, b) = InData(f, b)
    BY <1>2, Dispatch
  <2>2. noteDataByte(f, b) \in Filters
    BY Noted
  <2> QED
    BY <1>0, <1>1, <1>9, <2>1, <2>2 DEF InData, FilterStates
<1>3. CASE f.state = "IAC"
  <2> FilterByte(f, b) = InIAC(f, b)
    BY <1>3, Dispatch
  <2>1. CASE b = IAC
    <3>1. noteDataByte(f, IAC) \in Filters
      BY Noted, Bytes
    <3>2. To(noteDataByte(f, IAC), "data") \in Filters
      BY <3>1, Moves DEF FilterStates
    <3>3. InIAC(f, b) = Taken(To(noteDataByte(f, IAC), "data"), <<IAC>>, <<>>)
      BY <2>1, AfterIAC
    <3> QED
      BY <1>0, <1>9, <3>2, <3>3
  <2>2. CASE b \in {WILL, WONT, DO, DONT}
    <3>1. [To(f, "command") EXCEPT !.command = b] \in Filters
      BY <1>1 DEF Filters, FilterStates
    <3>2. InIAC(f, b) = Taken([To(f, "command") EXCEPT !.command = b], <<>>, <<>>)
      BY <2>2, AfterIAC
    <3> QED
      BY <1>0, <1>9, <3>1, <3>2
  <2>3. CASE b = SB
    <3>1. [To(f, "SB") EXCEPT !.optData = <<>>] \in Filters
      BY <1>1, OptData DEF FilterStates
    <3>2. InIAC(f, b) = Taken([To(f, "SB") EXCEPT !.optData = <<>>], <<>>, <<>>)
      BY <2>3, AfterIAC
    <3> QED
      BY <1>0, <1>9, <3>1, <3>2
  <2>4. CASE b \notin {IAC, WILL, WONT, DO, DONT, SB}
    <3>1. (IF b < SE THEN <<IAC, b>> ELSE <<>>) \in Seq(Byte)
      BY Bytes
    <3>2. InIAC(f, b) = Taken(To(f, "data"), IF b < SE THEN <<IAC, b>> ELSE <<>>, <<>>)
      BY <2>4, AfterIAC
    <3>3. To(f, "data") \in Filters
      BY <1>1 DEF FilterStates
    <3> QED
      BY <1>0, <1>9, <3>1, <3>2, <3>3
  <2> QED
    BY <2>1, <2>2, <2>3, <2>4
<1>4. CASE f.state = "command"
  <2>1. respondToOption(f.command, b) \in Seq(Byte)
    BY Answers DEF Filters
  <2>2. FilterByte(f, b) = Taken(To(Negotiated(f), "data"), <<>>, respondToOption(f.command, b))
    BY <1>4, Dispatch
  <2>3. To(Negotiated(f), "data") \in Filters
    BY <1>1 DEF FilterStates
  <2> QED
    BY <1>0, <1>9, <2>1, <2>2, <2>3
<1>5. CASE f.state = "SB"
  <2>1. [To(f, "SBData") EXCEPT !.optData = Append(@, b)] \in Filters
    <3>1. To(f, "SBData") \in Filters
      BY <1>1 DEF FilterStates
    <3> QED
      BY <3>1, OptData
  <2>2. FilterByte(f, b) =
          Taken([To(f, "SBData") EXCEPT !.optData = Append(@, b)], <<>>, <<>>)
    BY <1>5, Dispatch
  <2> QED
    BY <1>0, <1>9, <2>1, <2>2
<1>6. CASE f.state = "SBData"
  <2>1. [f EXCEPT !.optData = Append(@, b)] \in Filters
    BY OptData
  <2>2. [To(f, "data") EXCEPT !.optData = <<>>] \in Filters
    BY <1>1, OptData DEF FilterStates
  <2>3. To(f, "IAC") \in Filters /\ To(f, "SBIAC") \in Filters
    BY <1>1 DEF FilterStates
  <2>4. FilterByte(f, b) = InSBData(f, b)
    BY <1>6, Dispatch
  <2> QED
    BY <1>0, <1>9, <2>1, <2>2, <2>3, <2>4 DEF InSBData
<1>7. CASE f.state = "SBIAC"
  <2>1. [To(f, "SBData") EXCEPT !.optData = Append(@, IAC)] \in Filters
    <3>1. To(f, "SBData") \in Filters /\ IAC \in Byte
      BY <1>1, Bytes DEF FilterStates
    <3> QED
      BY <3>1, OptData
  <2>2. handleSubnegotiation(f) \in Seq(Byte)
    BY Answers
  <2>3. To(f, "data") \in Filters /\ To(Negotiated(f), "data") \in Filters
    BY <1>1 DEF FilterStates
  <2>4. FilterByte(f, b) = InSBIAC(f, b)
    BY <1>7, Dispatch
  <2>5. CASE b = SE
    <3>1. InSBIAC(f, b) = Taken(To(Negotiated(f), "data"), <<>>, handleSubnegotiation(f))
      BY <2>5, AfterSBIAC
    <3> QED
      BY <1>0, <1>9, <2>2, <2>3, <2>4, <3>1
  <2>6. CASE b = IAC
    <3>1. InSBIAC(f, b) = Taken([To(f, "SBData") EXCEPT !.optData = Append(@, IAC)], <<>>, <<>>)
      BY <2>6, AfterSBIAC
    <3> QED
      BY <1>0, <1>9, <2>1, <2>4, <3>1
  <2>7. CASE b \notin {SE, IAC}
    <3>1. InSBIAC(f, b) = Taken(To(f, "data"), <<>>, <<>>)
      BY <2>7, AfterSBIAC
    <3> QED
      BY <1>0, <1>9, <2>3, <2>4, <3>1
  <2> QED
    BY <2>5, <2>6, <2>7
<1> QED
  BY <1>2, <1>3, <1>4, <1>5, <1>6, <1>7 DEF Filters, FilterStates

(* How a byte can change what the filter thinks of the peer. *)
LEMMA VerdictMoves ==
  ASSUME NEW f \in Filters, NEW b \in Byte
  PROVE  LET g == FilterByte(f, b).filter
         IN  /\ f.peerLocked => g.peerLocked /\ (g.peerNegotiated <=> f.peerNegotiated)
             /\ f.peerNegotiated => g.peerNegotiated
             /\ g.learnPeer = f.learnPeer
<1> DEFINE Kept(g) ==
             /\ f.peerLocked => g.peerLocked /\ (g.peerNegotiated <=> f.peerNegotiated)
             /\ f.peerNegotiated => g.peerNegotiated
             /\ g.learnPeer = f.learnPeer
<1> SUFFICES Kept(FilterByte(f, b).filter)
  OBVIOUS
<1>0. \A g, out, back : Kept(g) => Kept(Taken(g, out, back).filter)
  BY TakenFields
<1>1. ASSUME NEW g \in Filters, Kept(g), NEW s \in FilterStates, NEW o, NEW c
      PROVE  /\ Kept(To(g, s)) /\ Kept([g EXCEPT !.optData = o])
             /\ Kept([To(g, s) EXCEPT !.optData = o]) /\ Kept([To(g, s) EXCEPT !.command = c])
  BY <1>1 DEF To, Filters
<1>2. Kept(f) /\ Kept(Negotiated(f)) /\ Negotiated(f) \in Filters
  <2>1. f.peerNegotiated => Negotiated(f).peerNegotiated
    BY DEF Negotiated, Filters
  <2> QED BY <2>1, Moves DEF FilterStates
<1>3. ASSUME NEW d \in Byte PROVE Kept(noteDataByte(f, d)) /\ noteDataByte(f, d) \in Filters
  BY <1>3, Noted
<1> HIDE DEF Kept
<1>4. CASE f.state = "data"
  <2>1. FilterByte(f, b) = InData(f, b)
    BY <1>4, Dispatch
  <2>2. Kept(To(f, "IAC"))
    BY <1>1, <1>2 DEF FilterStates
  <2> QED
    BY <1>0, <1>3, <2>1, <2>2 DEF InData
<1>5. CASE f.state = "IAC"
  <2>1. FilterByte(f, b) = InIAC(f, b)
    BY <1>5, Dispatch
  <2>2. Kept(To(noteDataByte(f, IAC), "data"))
    BY <1>1, <1>3, Bytes DEF FilterStates
  <2>3. Kept([To(f, "command") EXCEPT !.command = b])
    BY <1>1, <1>2 DEF FilterStates
  <2>4. Kept([To(f, "SB") EXCEPT !.optData = <<>>])
    BY <1>1, <1>2 DEF FilterStates
  <2>5. Kept(To(f, "data"))
    BY <1>1, <1>2 DEF FilterStates
  <2>6. \/ InIAC(f, b) = Taken(To(noteDataByte(f, IAC), "data"), <<IAC>>, <<>>)
        \/ InIAC(f, b) = Taken([To(f, "command") EXCEPT !.command = b], <<>>, <<>>)
        \/ InIAC(f, b) = Taken([To(f, "SB") EXCEPT !.optData = <<>>], <<>>, <<>>)
        \/ InIAC(f, b) = Taken(To(f, "data"), IF b < SE THEN <<IAC, b>> ELSE <<>>, <<>>)
    BY AfterIAC
  <2> QED
    BY <1>0, <2>1, <2>2, <2>3, <2>4, <2>5, <2>6
<1>6. CASE f.state = "command"
  <2>1. Kept(To(Negotiated(f), "data"))
    BY <1>1, <1>2 DEF FilterStates
  <2>2. FilterByte(f, b) = Taken(To(Negotiated(f), "data"), <<>>, respondToOption(f.command, b))
    BY <1>6, Dispatch
  <2> QED
    BY <1>0, <2>1, <2>2
<1>7. CASE f.state = "SB"
  <2>1. Kept([To(f, "SBData") EXCEPT !.optData = Append(@, b)])
    BY <1>1, <1>2 DEF FilterStates
  <2>2. FilterByte(f, b) =
          Taken([To(f, "SBData") EXCEPT !.optData = Append(@, b)], <<>>, <<>>)
    BY <1>7, Dispatch
  <2> QED
    BY <1>0, <2>1, <2>2
<1>8. CASE f.state = "SBData"
  <2>1. Kept([f EXCEPT !.optData = Append(@, b)]) /\ Kept([To(f, "data") EXCEPT !.optData = <<>>])
    BY <1>1, <1>2 DEF FilterStates
  <2>2. Kept(To(f, "SBIAC"))
    BY <1>1, <1>2 DEF FilterStates
  <2>3. FilterByte(f, b) = InSBData(f, b)
    BY <1>8, Dispatch
  <2> QED
    BY <1>0, <2>1, <2>2, <2>3 DEF InSBData
<1>9. CASE f.state = "SBIAC"
  <2>1. Kept([To(f, "SBData") EXCEPT !.optData = Append(@, IAC)])
    BY <1>1, <1>2 DEF FilterStates
  <2>2. Kept(To(f, "data")) /\ Kept(To(Negotiated(f), "data"))
    BY <1>1, <1>2 DEF FilterStates
  <2>3. FilterByte(f, b) = InSBIAC(f, b)
    BY <1>9, Dispatch
  <2>4. \/ InSBIAC(f, b) = Taken(To(Negotiated(f), "data"), <<>>, handleSubnegotiation(f))
        \/ InSBIAC(f, b) = Taken([To(f, "SBData") EXCEPT !.optData = Append(@, IAC)], <<>>, <<>>)
        \/ InSBIAC(f, b) = Taken(To(f, "data"), <<>>, <<>>)
    BY AfterSBIAC
  <2> QED
    BY <1>0, <2>1, <2>2, <2>3, <2>4
<1> QED
  BY <1>4, <1>5, <1>6, <1>7, <1>8, <1>9 DEF Filters, FilterStates

(* Once a file transfer has begun, nothing in its bytes changes the verdict  *)
(* on the peer: not a 255 followed by a WILL, nor a whole subnegotiation     *)
(* (dialer.go:171-174).                                                      *)
THEOREM VerdictIsFinal ==
  ASSUME NEW f \in Filters, NEW b \in Byte, f.peerLocked
  PROVE  LET g == FilterByte(f, b).filter
         IN  g.peerLocked /\ g.peerNegotiated = f.peerNegotiated /\ g.learnPeer = f.learnPeer
<1>1. f.peerNegotiated \in BOOLEAN /\ FilterByte(f, b).filter.peerNegotiated \in BOOLEAN
  BY FilterTotal DEF Filters
<1> QED
  BY <1>1, VerdictMoves

(* A raw board's file passes untouched: each byte, 255 too, comes out as it  *)
(* went in, draws no answer, and leaves the filter ready for the next one in *)
(* the same way (dialer.go:199-203).                                         *)
THEOREM RawBytesUntouched ==
  ASSUME NEW f \in Filters, NEW b \in Byte, f.state = "data", iacIsData(f)
  PROVE  LET t == FilterByte(f, b)
         IN  /\ t.filtered = <<b>> /\ t.responses = <<>>
             /\ t.filter.state = "data" /\ iacIsData(t.filter)
BY Noted DEF FilterByte, InData, Taken, iacIsData

(* A telnet peer's data passes, and its doubling of 255 is undone: the bytes *)
(* that stand for b come out as b alone, at any verdict but raw              *)
(* (dialer.go:210-212, 255-259).                                             *)
THEOREM DoublingUndone ==
  ASSUME NEW f \in Filters, NEW b \in Byte, f.state = "data", ~iacIsData(f)
  PROVE  LET t == FilterByte(f, b)
             u == FilterByte(t.filter, IAC)
         IN  /\ b # IAC => /\ t.filtered = <<b>> /\ t.responses = <<>>
                           /\ t.filter.state = "data"
             /\ b = IAC => /\ t.filtered = <<>> /\ u.filtered = <<IAC>>
                           /\ t.responses = <<>> /\ u.responses = <<>>
                           /\ u.filter.state = "data"
<1>1. CASE b # IAC
  BY <1>1, Noted DEF FilterByte, InData, Taken
<1>2. CASE b = IAC
  <2>1. FilterByte(f, b) = Taken(To(f, "IAC"), <<>>, <<>>)
    BY <1>2 DEF FilterByte, InData
  <2>2. To(f, "IAC") \in Filters /\ To(f, "IAC").state = "IAC"
    BY DEF To, Filters, FilterStates
  <2>3. FilterByte(To(f, "IAC"), IAC) =
          Taken(To(noteDataByte(To(f, "IAC"), IAC), "data"), <<IAC>>, <<>>)
    <3>1. FilterByte(To(f, "IAC"), IAC) = InIAC(To(f, "IAC"), IAC)
      BY <2>2, Dispatch
    <3> QED
      BY <3>1, AfterIAC
  <2>4. To(noteDataByte(To(f, "IAC"), IAC), "data").state = "data"
    BY <2>2, Noted, Bytes DEF To, Filters
  <2> QED
    BY <1>2, <2>1, <2>3, <2>4 DEF Taken
<1> QED
  BY <1>1, <1>2

-----------------------------------------------------------------------------
(* Whole reads.                                                            *)

Passed == [filter : Filters, filtered : Seq(Byte), responses : Seq(Byte)]

LEMMA FurtherTyped ==
  ASSUME NEW r \in Passed, NEW b \in Byte
  PROVE  Further(r, b) \in Passed
<1>1. LET t == FilterByte(r.filter, b)
      IN  t.filter \in Filters /\ t.filtered \in Seq(Byte) /\ t.responses \in Seq(Byte)
  BY FilterTotal DEF Passed
<1> QED
  BY <1>1 DEF Further, Taken, Passed

LEMMA FurtherFields ==
  ASSUME NEW r, NEW b
  PROVE  /\ Further(r, b).filter = FilterByte(r.filter, b).filter
         /\ Further(r, b).filtered = r.filtered \o FilterByte(r.filter, b).filtered
         /\ Further(r, b).responses = r.responses \o FilterByte(r.filter, b).responses
BY Zenon DEF Further, Taken

LEMMA Regroup == \A s, t, u \in Seq(Byte) : (s \o t) \o u = s \o (t \o u)
BY ConcatAssociative

(* Filtering is what its recursive definition says. *)
LEMMA FilteringRuns ==
  ASSUME NEW f \in Filters, NEW d \in Seq(Byte)
  PROVE  /\ Filtering(f, d) \in [0..Len(d) -> Passed]
         /\ Filtering(f, d)[0] = Taken(f, <<>>, <<>>)
         /\ \A i \in 1..Len(d) : Filtering(f, d)[i] = Further(Filtering(f, d)[i - 1], d[i])
<1> DEFINE n == Len(d)
           s == Taken(f, <<>>, <<>>)
           step == [i \in 1..n |-> [x \in Passed |-> Further(x, d[i])]]
           Eq(r) == r = [i \in 0..n |-> IF i = 0 THEN s ELSE Further(r[i - 1], d[i])]
           F == Filtering(f, d)
<1>1. s \in Passed /\ n \in Nat /\ \A i \in 1..n : d[i] \in Byte
  BY DEF Taken, Passed
<1>2. Steps(Passed, n, step)
  BY <1>1, FurtherTyped DEF Steps
<1>3. PICK r : Solves(Passed, s, n, step, r)
  <2> HIDE DEF s, step, n
  <2> QED BY <1>1, <1>2, Iteration
<1>4. Eq(r)
  <2>1. ASSUME NEW i \in 1..n PROVE r[i] = Further(r[i - 1], d[i])
    <3> HIDE DEF s, n
    <3>1. r[i] = step[i][r[i - 1]] /\ r[i - 1] \in Passed
      BY <1>1, <1>3 DEF Solves
    <3> QED BY <3>1
  <2>2. \A i \in 0..n : r[i] = IF i = 0 THEN s ELSE Further(r[i - 1], d[i])
    <3> HIDE DEF s, n
    <3> QED BY <1>1, <1>3, <2>1 DEF Solves
  <2> HIDE DEF s, n
  <2> QED BY <1>3, <2>2 DEF Solves
<1>5. F = CHOOSE q : Eq(q)
  BY DEF Filtering
<1>6. Eq(F)
  <2> HIDE DEF Eq, F
  <2> QED BY <1>4, <1>5
<1> HIDE DEF F, s, n, step
<1>7. /\ F[0] = s /\ F = [i \in 0..n |-> F[i]]
      /\ \A i \in 1..n : F[i] = Further(F[i - 1], d[i])
  BY <1>1, <1>6
<1> HIDE DEF Eq
<1>8. \A i \in 1..n : F[i - 1] \in Passed => F[i] \in Passed
  BY <1>1, <1>7, FurtherTyped
<1>9. \A i \in 0..n : F[i] \in Passed
  BY <1>1, <1>7, <1>8, Stays
<1> QED
  BY <1>7, <1>9 DEF F, s, n

LEMMA FilterTyped ==
  ASSUME NEW f \in Filters, NEW d \in Seq(Byte)
  PROVE  Filter(f, d) \in Passed
BY FilteringRuns DEF Filter

(* What every byte of a read leaves of a filter, the read leaves of it. *)
LEMMA FilterStays ==
  ASSUME NEW K, K \subseteq Filters, NEW D, D \subseteq Byte, NEW f \in K, NEW d \in Seq(D),
         \A g \in K, b \in D : FilterByte(g, b).filter \in K
  PROVE  Filter(f, d).filter \in K
<1> DEFINE R == Filtering(f, d)
           F == [i \in 0..Len(d) |-> R[i].filter]
<1>1. d \in Seq(Byte) /\ Len(d) \in Nat /\ \A i \in 1..Len(d) : d[i] \in D
  OBVIOUS
<1>2. /\ R[0] = Taken(f, <<>>, <<>>)
      /\ \A i \in 1..Len(d) : R[i] = Further(R[i - 1], d[i])
  BY <1>1, FilteringRuns
<1> HIDE DEF R
<1>3. F[0] \in K
  BY <1>2 DEF Taken
<1>4. ASSUME NEW i \in 1..Len(d), F[i - 1] \in K PROVE F[i] \in K
  <2>1. R[i].filter = FilterByte(R[i - 1].filter, d[i]).filter
    <3>1. R[i] = Further(R[i - 1], d[i])
      BY <1>2
    <3>2. Further(R[i - 1], d[i]).filter = FilterByte(R[i - 1].filter, d[i]).filter
      BY FurtherFields, Zenon
    <3> QED
      BY <3>1, <3>2, Zenon
  <2>2. i - 1 \in 0..Len(d) /\ i \in 0..Len(d)
    BY <1>1
  <2> QED BY <1>1, <1>4, <2>1, <2>2
<1>5. \A i \in 0..Len(d) : F[i] \in K
  <2> HIDE DEF F
  <2> QED BY <1>1, <1>3, <1>4, Stays
<1> QED
  BY <1>1, <1>5 DEF Filter, R

(* A board that has negotiated is a telnet board for the rest of the call.   *)
LEMMA NegotiationLasts ==
  ASSUME NEW f \in Filters, NEW d \in Seq(Byte), f.peerNegotiated
  PROVE  Filter(f, d).filter.peerNegotiated
<1> DEFINE K == {g \in Filters : g.peerNegotiated}
<1>1. K \subseteq Filters /\ f \in K /\ Byte \subseteq Byte
  OBVIOUS
<1>2. \A g \in K, b \in Byte : FilterByte(g, b).filter \in K
  BY VerdictMoves, FilterTotal
<1>3. Filter(f, d).filter \in K
  <2> HIDE DEF K
  <2> QED BY <1>1, <1>2, FilterStays
<1> QED
  BY <1>3

(* A read q that follows a read t, as one. *)
Joined(t, q) == Taken(q.filter, t.filtered \o q.filtered, t.responses \o q.responses)

LEMMA JoinedFields ==
  ASSUME NEW t, NEW q
  PROVE  /\ Joined(t, q).filter = q.filter
         /\ Joined(t, q).filtered = t.filtered \o q.filtered
         /\ Joined(t, q).responses = t.responses \o q.responses
BY Zenon DEF Joined, Taken

LEMMA FurtherJoined ==
  ASSUME NEW t \in Passed, NEW q \in Passed, NEW b \in Byte
  PROVE  Further(Joined(t, q), b) = Joined(t, Further(q, b))
<1> DEFINE v == FilterByte(q.filter, b)
<1>1. /\ t.filtered \in Seq(Byte) /\ q.filtered \in Seq(Byte)
      /\ t.responses \in Seq(Byte) /\ q.responses \in Seq(Byte) /\ q.filter \in Filters
  BY DEF Passed
<1>2. v.filtered \in Seq(Byte) /\ v.responses \in Seq(Byte)
  BY <1>1, FilterTotal
<1>3. (t.filtered \o q.filtered) \o v.filtered = t.filtered \o (q.filtered \o v.filtered)
  <2>1. t.filtered \in Seq(Byte)
    BY <1>1
  <2>2. q.filtered \in Seq(Byte)
    BY <1>1
  <2>3. v.filtered \in Seq(Byte)
    BY <1>2
  <2> HIDE DEF v
  <2> QED BY <2>1, <2>2, <2>3, Regroup, Zenon
<1>4. (t.responses \o q.responses) \o v.responses = t.responses \o (q.responses \o v.responses)
  <2>1. t.responses \in Seq(Byte)
    BY <1>1
  <2>2. q.responses \in Seq(Byte)
    BY <1>1
  <2>3. v.responses \in Seq(Byte)
    BY <1>2
  <2> HIDE DEF v
  <2> QED BY <2>1, <2>2, <2>3, Regroup, Zenon
<1> QED
  BY <1>3, <1>4, Zenon DEF Further, Joined, Taken

(* However the bytes from the other side are cut into reads, the filter ends *)
(* in the same state, lets the same bytes through and gives the same answers *)
(* (dialer.go:158-177: its state is kept from one read to the next).         *)
THEOREM CutsDoNotMatter ==
  ASSUME NEW f \in Filters, NEW a \in Seq(Byte), NEW b \in Seq(Byte)
  PROVE  LET t == Filter(f, a)
             u == Filter(t.filter, b)
         IN  /\ Filter(f, a \o b).filter = u.filter
             /\ Filter(f, a \o b).filtered = t.filtered \o u.filtered
             /\ Filter(f, a \o b).responses = t.responses \o u.responses
<1> DEFINE n == Len(a)
           m == Len(b)
           ab == a \o b
           t == Filter(f, a)
           R == Filtering(f, ab)
           P == Filtering(f, a)
           Q == Filtering(t.filter, b)
           Both(j) == Joined(t, Q[j])
<1>1. /\ n \in Nat /\ m \in Nat /\ ab \in Seq(Byte) /\ Len(ab) = n + m
      /\ \A i \in 1..n : ab[i] = a[i]
      /\ \A j \in 1..m : ab[n + j] = b[j]
  BY ConcatProperties
<1>2. /\ R[0] = Taken(f, <<>>, <<>>)
      /\ \A i \in 1..(n + m) : R[i] = Further(R[i - 1], ab[i])
  BY <1>1, FilteringRuns
<1>3. /\ P \in [0..n -> Passed] /\ P[0] = Taken(f, <<>>, <<>>)
      /\ \A i \in 1..n : P[i] = Further(P[i - 1], a[i])
  BY FilteringRuns
<1>4. t = P[n] /\ t \in Passed
  BY FilterTyped DEF Filter
<1>5. /\ Q \in [0..m -> Passed] /\ Q[0] = Taken(t.filter, <<>>, <<>>)
      /\ \A j \in 1..m : Q[j] = Further(Q[j - 1], b[j])
  BY <1>4, FilteringRuns DEF Passed
<1> HIDE DEF n, m, ab, t, R, P, Q
<1>6. R[n] = t
  <2> DEFINE T == {i \in 0..n : R[i] = P[i]}
  <2>1. 0 \in T /\ \A i \in 1..n : i - 1 \in T => i \in T
    BY <1>1, <1>2, <1>3
  <2>2. n \in Nat
    BY <1>1
  <2>3. \A i \in 0..n : i \in T
    <3> HIDE DEF T
    <3> QED BY <2>1, <2>2, Induction
  <2> QED
    BY <1>4, <2>2, <2>3
<1>7. R[n + m] = Both(m)
  <2> DEFINE T == {j \in 0..m : R[n + j] = Both(j)}
  <2>1. 0 \in T
    <3>1. t.filtered \o <<>> = t.filtered /\ t.responses \o <<>> = t.responses
      BY <1>4, ConcatEmptySeq DEF Passed
    <3>2. t = Taken(t.filter, t.filtered, t.responses)
      BY <1>4 DEF Passed, Taken
    <3>3. Q[0].filter = t.filter /\ Q[0].filtered = <<>> /\ Q[0].responses = <<>>
      BY <1>5 DEF Taken
    <3>4. Both(0) = t
      BY <3>1, <3>2, <3>3 DEF Joined
    <3>5. n + 0 = n
      BY <1>1
    <3> QED
      BY <1>1, <1>6, <3>4, <3>5
  <2>2. ASSUME NEW j \in 1..m, j - 1 \in T PROVE j \in T
    <3>1. R[n + j] = Further(Both(j - 1), b[j])
      BY <1>1, <1>2, <2>2
    <3>2. Q[j] = Further(Q[j - 1], b[j]) /\ Q[j - 1] \in Passed /\ b[j] \in Byte
      BY <1>1, <1>5 DEF m
    <3>3. R[n + j] = Both(j)
      BY <1>4, <3>1, <3>2, FurtherJoined
    <3> QED
      BY <3>3
  <2>3. m \in Nat
    BY <1>1
  <2>4. \A j \in 0..m : j \in T
    <3> HIDE DEF T
    <3> QED BY <2>1, <2>2, <2>3, Induction
  <2> QED
    BY <2>3, <2>4
<1>8. Filter(f, a \o b) = R[n + m] /\ Filter(t.filter, b) = Q[m]
  BY <1>1, Zenon DEF Filter, R, Q, m, ab
<1>9. /\ Filter(f, a \o b).filter = Filter(t.filter, b).filter
      /\ Filter(f, a \o b).filtered = t.filtered \o Filter(t.filter, b).filtered
      /\ Filter(f, a \o b).responses = t.responses \o Filter(t.filter, b).responses
  <2>1. Filter(f, a \o b) = Joined(t, Filter(t.filter, b))
    BY <1>7, <1>8, Zenon
  <2> QED
    BY <2>1, JoinedFields, Zenon
<1> QED
  BY <1>9, Zenon DEF t
=============================================================================
