------------------------- MODULE RateLimiterProofs -------------------------
(***************************************************************************)
(* The table, the blocks and the two rates of module RateLimiter, proved   *)
(* for every set of addresses, every settings a reload may push, every     *)
(* interleaving and any length of time.                                    *)
(***************************************************************************)
EXTENDS RateLimiter, FiniteSetTheorems, TLAPS

-----------------------------------------------------------------------------
(* Cutting off the old ages leaves a sequence of ages that is no longer.     *)
LEMMA WithinShrinks ==
  ASSUME NEW s \in Seq(Ages), NEW w \in Int
  PROVE  Within(s, w) \in Seq(Ages) /\ Len(Within(s, w)) <= Len(s)
<1> DEFINE old == {i \in DOMAIN s : s[i] >= w}
<1>1. DOMAIN s = 1..Len(s) /\ Len(s) \in Nat
  OBVIOUS
<1>2. IsFiniteSet(1..Len(s)) /\ Cardinality(1..Len(s)) = Len(s)
  <2>1. IsFiniteSet(1..Len(s))
    BY <1>1, FS_Interval
  <2>2. Cardinality(1..Len(s)) = IF 1 > Len(s) THEN 0 ELSE Len(s) - 1 + 1
    BY <1>1, FS_Interval
  <2> QED
    BY <1>1, <2>1, <2>2
<1>3. old \subseteq 1..Len(s)
  BY <1>1
<1>4. Cardinality(old) \in Nat
  BY <1>2, <1>3, FS_Subset, FS_CardinalityType
<1> HIDE DEF old
<1>5. SubSeq(s, Cardinality(old) + 1, Len(s)) \in Seq(Ages)
  BY <1>1, <1>4
<1>6. Len(SubSeq(s, Cardinality(old) + 1, Len(s))) <= Len(s)
  BY <1>1, <1>4
<1> QED
  BY <1>5, <1>6 DEF Within, old

(* An address without attempts has no recent ones.                           *)
LEMMA WithinEmpty == \A w \in Int : Within(<<>>, w) = <<>>
<1> TAKE w \in Int
<1>1. <<>> \in Seq(Ages) /\ Len(<<>>) = 0
  OBVIOUS
<1>2. \A s \in Seq(Ages) : Within(s, w) \in Seq(Ages) /\ Len(Within(s, w)) <= Len(s)
  BY WithinShrinks
<1>3. Within(<<>>, w) \in Seq(Ages) /\ Len(Within(<<>>, w)) <= 0
  BY <1>1, <1>2
<1> QED
  BY <1>3

LEMMA AgedKeepsLength ==
  ASSUME NEW s \in Seq(Ages)
  PROVE  Aged(s) \in Seq(Ages) /\ Len(Aged(s)) = Len(s)
<1>1. Horizon \in Nat
  BY LimitsAssumption
<1>2. \A i \in 1..Len(s) : Older(s[i]) \in Ages
  BY <1>1 DEF Older, Ages
<1>3. Aged(s) = [i \in 1..Len(s) |-> Older(s[i])]
  BY DEF Aged
<1> QED
  BY <1>2, <1>3

-----------------------------------------------------------------------------
LEMMA InitTyped == Init => TypeOK
  BY LimitsAssumption DEF Init, TypeOK, Ages, Never, Past

(* The settings in force are well-formed.                                    *)
LEMMA LimitsTyped ==
  ASSUME TypeOK
  PROVE  /\ limits.window \in Nat /\ limits.max \in Nat /\ limits.block \in Nat
         /\ Count \in 0..GlobalMax /\ GlobalMax \in Nat /\ MaxTracked \in Nat /\ MaxTracked > 0
         /\ 0 \in Ages
BY LimitsAssumption DEF TypeOK, Count, Ages

LEMMA CountingTyped ==
  ASSUME TypeOK, NEW n \in 0..GlobalMax, Counting(n)
  PROVE  globalCount' \in 0..GlobalMax /\ globalAge' \in Ages
BY LimitsAssumption DEF TypeOK, Counting, Ages

LEMMA RecentTyped ==
  ASSUME TypeOK, NEW ip \in Ips
  PROVE  Recent(ip) \in Seq(Ages) /\ (attempts[ip] = <<>> => Recent(ip) = <<>>)
<1>1. attempts[ip] \in Seq(Ages) /\ limits.window \in Int
  BY LimitsTyped DEF TypeOK
<1> QED
  BY <1>1, WithinShrinks, WithinEmpty DEF Recent

LEMMA RewriteTyped ==
  ASSUME NEW f \in [Ips -> Seq(Ages)], NEW ip, NEW gone, NEW mine \in Seq(Ages)
  PROVE  Rewrite(f, ip, gone, mine) \in [Ips -> Seq(Ages)]
BY DEF Rewrite

LEMMA TypeStep == TypeOK /\ [Next]_vars => TypeOK'
<1> SUFFICES ASSUME TypeOK, [Next]_vars PROVE TypeOK'
  OBVIOUS
<1> USE DEF settings, table, global, ghosts
<1>1. ASSUME NEW ip \in Ips, Enter(ip)  PROVE TypeOK'
  BY <1>1 DEF Enter, TypeOK
<1>2. ASSUME NEW ip \in Ips, RefuseAll(ip)  PROVE TypeOK'
  BY <1>2, CountingTyped, LimitsTyped DEF RefuseAll, Locked, TypeOK
<1>3. ASSUME NEW ip \in Ips, PassTrusted(ip)  PROVE TypeOK'
  <2>1. Count + 1 \in 0..GlobalMax
    BY <1>3, LimitsTyped DEF PassTrusted
  <2>2. globalCount' \in 0..GlobalMax /\ globalAge' \in Ages
    BY <1>3, <2>1, CountingTyped DEF PassTrusted
  <2>3. passes' \in Seq(Ages)
    BY <1>3, LimitsTyped DEF PassTrusted, TypeOK
  <2> QED
    BY <1>3, <2>2, <2>3 DEF PassTrusted, Locked, TypeOK
<1>4. ASSUME NEW ip \in Ips, StillBlocked(ip)  PROVE TypeOK'
  BY <1>4, CountingTyped, LimitsTyped DEF StillBlocked, Locked, TypeOK
<1>5. ASSUME NEW ip \in Ips, Block(ip)  PROVE TypeOK'
  <2>1. globalCount' \in 0..GlobalMax /\ globalAge' \in Ages
    BY <1>5, CountingTyped, LimitsTyped DEF Block
  <2>2. attempts' \in [Ips -> Seq(Ages)] /\ log' \in [Ips -> Seq(Ages)]
    <3>1. PICK gone \in Victims(ip) : /\ attempts' = Rewrite(attempts, ip, gone, <<>>)
                                     /\ log' = Rewrite(log, ip, gone, log[ip])
      BY <1>5 DEF Block
    <3>2. <<>> \in Seq(Ages) /\ log[ip] \in Seq(Ages)
      BY DEF TypeOK
    <3> QED
      BY <3>1, <3>2, RewriteTyped DEF TypeOK
  <2>3. blocked' \in [Ips -> {Never, Past} \union Nat] /\ sentence' \in [Ips -> Nat]
    BY <1>5, LimitsTyped DEF Block, TypeOK
  <2> QED
    BY <1>5, <2>1, <2>2, <2>3 DEF Block, Judged, Locked, TypeOK
<1>6. ASSUME NEW ip \in Ips, Record(ip)  PROVE TypeOK'
  <2>1. Count + 1 \in 0..GlobalMax
    BY <1>6, LimitsTyped DEF Record, Judged
  <2>2. globalCount' \in 0..GlobalMax /\ globalAge' \in Ages
    BY <1>6, <2>1, CountingTyped DEF Record
  <2>3. /\ Append(Recent(ip), 0) \in Seq(Ages)
        /\ Append(log[ip], 0) \in Seq(Ages)
        /\ passes' \in Seq(Ages)
    BY <1>6, LimitsTyped, RecentTyped DEF Record, TypeOK
  <2>4. attempts' \in [Ips -> Seq(Ages)] /\ log' \in [Ips -> Seq(Ages)]
    <3>1. PICK gone \in Victims(ip) :
            /\ attempts' = Rewrite(attempts, ip, gone, Append(Recent(ip), 0))
            /\ log' = Rewrite(log, ip, gone, Append(log[ip], 0))
      BY <1>6 DEF Record
    <3> QED
      BY <2>3, <3>1, RewriteTyped DEF TypeOK
  <2>5. blocked' \in [Ips -> {Never, Past} \union Nat]
    BY <1>6 DEF Record, TypeOK
  <2> QED
    BY <1>6, <2>2, <2>3, <2>4, <2>5 DEF Record, Judged, Locked, TypeOK
<1>7. ASSUME NEW l \in Limits, SetLimits(l)  PROVE TypeOK'
  BY <1>7 DEF SetLimits, TypeOK
<1>8. ASSUME NEW nets \in TrustedSets, SetTrustedProxies(nets)  PROVE TypeOK'
  BY <1>8 DEF SetTrustedProxies, TypeOK
<1>9. CASE Cleanup
  <2>1. attempts' \in [Ips -> Seq(Ages)]
    BY <1>9, RecentTyped DEF Cleanup
  <2>2. blocked' \in [Ips -> {Never, Past} \union Nat]
    BY <1>9 DEF Cleanup, TypeOK
  <2> QED
    BY <1>9, <2>1, <2>2 DEF Cleanup, TypeOK
<1>10. CASE StopLimiter
  BY <1>10 DEF StopLimiter, TypeOK
<1>11. CASE Tick
  <2>1. Horizon \in Nat
    BY LimitsAssumption
  <2>2. \A s \in Seq(Ages) : Aged(s) \in Seq(Ages) /\ Within(Aged(s), Horizon) \in Seq(Ages)
    BY <2>1, AgedKeepsLength, WithinShrinks
  <2>3. attempts' \in [Ips -> Seq(Ages)] /\ log' \in [Ips -> Seq(Ages)] /\ passes' \in Seq(Ages)
    BY <1>11, <2>2 DEF Tick, TypeOK
  <2>4. blocked' \in [Ips -> {Never, Past} \union Nat] /\ sentence' \in [Ips -> Nat]
    BY <1>11 DEF Tick, TypeOK, Never, Past
  <2>5. globalAge' \in Ages
    BY <1>11, <2>1 DEF Tick, TypeOK, Older, Ages
  <2> QED
    BY <1>11, <2>3, <2>4, <2>5 DEF Tick, TypeOK
<1>12. CASE UNCHANGED vars
  BY <1>12 DEF vars, TypeOK
<1> QED
  BY <1>1, <1>2, <1>3, <1>4, <1>5, <1>6, <1>7, <1>8, <1>9, <1>10, <1>11, <1>12 DEF Next, Allow

(* Whatever calls, reloads and cleanups come in whatever order, the limiter *)
(* holds well-formed times and never counts past the global ceiling.        *)
THEOREM LimiterTypeCorrect == Spec => []TypeOK
  BY InitTyped, TypeStep, PTL DEF Spec

-----------------------------------------------------------------------------
(* A block that is still being served is in the table, to the same time.     *)
InForce == \A ip \in Ips : sentence[ip] > 0 => blocked[ip] = sentence[ip]

IInv == TypeOK /\ TableBounded /\ BlockedStartsAfresh /\ InForce

LEMMA InitHolds == Init => IInv
<1> SUFFICES ASSUME Init PROVE IInv
  OBVIOUS
<1>1. Tracked = {}
  BY DEF Init, Tracked
<1>2. TableBounded
  BY <1>1, FS_EmptySet, LimitsAssumption DEF TableBounded
<1> QED
  BY <1>2, InitTyped DEF Init, IInv, BlockedStartsAfresh, InForce

LEMMA TrackedFinite == IsFiniteSet(Tracked) /\ Cardinality(Tracked) \in Nat
<1>1. Tracked \subseteq Ips
  BY DEF Tracked
<1> QED
  BY <1>1, LimitsAssumption, FS_Subset, FS_CardinalityType

LEMMA FewerTracked ==
  ASSUME TableBounded, Tracked' \subseteq Tracked
  PROVE  TableBounded'
<1>1. Cardinality(Tracked') <= Cardinality(Tracked) /\ Cardinality(Tracked') \in Nat
  BY TrackedFinite, FS_Subset, FS_CardinalityType
<1> QED
  BY <1>1, TrackedFinite, LimitsAssumption DEF TableBounded

(* Room is made before an address enters the table: one that is new to a    *)
(* full table replaces another.                                              *)
LEMMA RoomIsMade ==
  ASSUME TypeOK, TableBounded, NEW ip \in Ips, NEW gone \in Victims(ip), NEW mine,
         attempts' = Rewrite(attempts, ip, gone, mine)
  PROVE  TableBounded'
<1>1. Tracked' \subseteq (Tracked \ gone) \union {ip}
  BY DEF Tracked, Rewrite
<1>2. CASE ip \in Tracked
  <2>1. gone = {}
    BY <1>2 DEF Victims
  <2> QED
    BY <1>1, <1>2, <2>1, FewerTracked
<1>3. CASE ip \notin Tracked /\ ~(Cardinality(Tracked) >= MaxTracked)
  <2>1. /\ IsFiniteSet(Tracked \union {ip})
        /\ Cardinality(Tracked \union {ip}) = Cardinality(Tracked) + 1
    BY <1>3, TrackedFinite, FS_AddElement
  <2>2. Tracked' \subseteq Tracked \union {ip}
    BY <1>1
  <2>3. Cardinality(Tracked') <= Cardinality(Tracked) + 1 /\ Cardinality(Tracked') \in Nat
    BY <2>1, <2>2, FS_Subset, FS_CardinalityType
  <2> QED
    BY <1>3, <2>3, TrackedFinite, LimitsTyped, LimitsAssumption DEF TableBounded
<1>4. CASE ip \notin Tracked /\ Cardinality(Tracked) >= MaxTracked
  <2>1. PICK v \in Tracked : gone = {v}
    BY <1>4 DEF Victims
  <2>2. IsFiniteSet(Tracked \ {v}) /\ Cardinality(Tracked \ {v}) = Cardinality(Tracked) - 1
    BY <2>1, TrackedFinite, FS_RemoveElement
  <2>3. /\ IsFiniteSet((Tracked \ {v}) \union {ip})
        /\ Cardinality((Tracked \ {v}) \union {ip}) = Cardinality(Tracked) - 1 + 1
    BY <1>4, <2>2, FS_AddElement
  <2>4. Cardinality(Tracked') <= Cardinality(Tracked) /\ Cardinality(Tracked') \in Nat
    <3>1. Cardinality(Tracked) - 1 + 1 = Cardinality(Tracked)
      BY TrackedFinite
    <3> QED
      BY <1>1, <2>1, <2>3, <3>1, FS_Subset, FS_CardinalityType
  <2> QED
    BY <2>4, TrackedFinite, LimitsAssumption DEF TableBounded
<1> QED
  BY <1>2, <1>3, <1>4

(* What leaves the table, the blocks and the sentences alone preserves the  *)
(* three parts.                                                              *)
LEMMA TableAlone ==
  ASSUME IInv, UNCHANGED <<attempts, blocked, sentence>>
  PROVE  TableBounded' /\ BlockedStartsAfresh' /\ InForce'
BY DEF IInv, TableBounded, Tracked, BlockedStartsAfresh, InForce

LEMMA BlockKeepsInv ==
  ASSUME IInv, NEW ip \in Ips, Block(ip)
  PROVE  TableBounded' /\ BlockedStartsAfresh' /\ InForce'
<1>1. PICK gone \in Victims(ip) : attempts' = Rewrite(attempts, ip, gone, <<>>)
  BY DEF Block
<1>2. TableBounded'
  BY <1>1, RoomIsMade DEF IInv
<1>3. /\ blocked' = [blocked EXCEPT ![ip] = limits.block]
      /\ sentence' = [sentence EXCEPT ![ip] = limits.block]
  BY DEF Block
<1>4. BlockedStartsAfresh'
  BY <1>1, <1>3 DEF IInv, TypeOK, BlockedStartsAfresh, Rewrite
<1>5. InForce'
  BY <1>3 DEF IInv, TypeOK, InForce
<1> QED
  BY <1>2, <1>4, <1>5

(* An attempt is counted only of an address whose sentence is over.          *)
LEMMA RecordAfterSentence ==
  ASSUME IInv, NEW ip \in Ips, Record(ip)
  PROVE  sentence[ip] = 0
<1>1. blocked[ip] <= 0
  BY DEF Record, Judged
<1>2. sentence[ip] \in Nat /\ (sentence[ip] > 0 => blocked[ip] = sentence[ip])
  BY DEF IInv, TypeOK, InForce
<1> QED
  BY <1>1, <1>2

LEMMA RecordKeepsInv ==
  ASSUME IInv, NEW ip \in Ips, Record(ip)
  PROVE  TableBounded' /\ BlockedStartsAfresh' /\ InForce'
<1>1. PICK gone \in Victims(ip) :
        attempts' = Rewrite(attempts, ip, gone, Append(Recent(ip), 0))
  BY DEF Record
<1>2. TableBounded'
  BY <1>1, RoomIsMade DEF IInv
<1>3. blocked' = [blocked EXCEPT ![ip] = Never] /\ sentence' = sentence
  BY DEF Record
<1>4. BlockedStartsAfresh'
  BY <1>1, <1>3 DEF IInv, TypeOK, BlockedStartsAfresh, Rewrite
<1>5. InForce'
  BY <1>3, RecordAfterSentence DEF IInv, TypeOK, InForce
<1> QED
  BY <1>2, <1>4, <1>5

LEMMA CleanupKeepsInv ==
  ASSUME IInv, Cleanup
  PROVE  TableBounded' /\ BlockedStartsAfresh' /\ InForce'
<1>1. \A ip \in Ips : attempts[ip] = <<>> => attempts'[ip] = <<>>
  BY RecentTyped DEF IInv, Cleanup
<1>2. \A ip \in Ips : blocked'[ip] = IF blocked[ip] = Past THEN Never ELSE blocked[ip]
  BY DEF Cleanup
<1>3. Tracked' \subseteq Tracked
  BY <1>1 DEF Tracked
<1>4. InForce'
  BY <1>2 DEF IInv, TypeOK, InForce, Cleanup, ghosts, Past
<1> QED
  BY <1>1, <1>2, <1>3, <1>4, FewerTracked DEF IInv, BlockedStartsAfresh

LEMMA TickKeepsInv ==
  ASSUME IInv, Tick
  PROVE  TableBounded' /\ BlockedStartsAfresh' /\ InForce'
<1>1. \A ip \in Ips : attempts[ip] = <<>> => attempts'[ip] = <<>>
  <2>1. \A ip \in Ips : attempts'[ip] = Aged(attempts[ip]) /\ attempts[ip] \in Seq(Ages)
    BY DEF Tick, IInv, TypeOK
  <2>2. \A ip \in Ips : attempts'[ip] \in Seq(Ages) /\ Len(attempts'[ip]) = Len(attempts[ip])
    BY <2>1, AgedKeepsLength
  <2> QED
    BY <2>2
<1>2. \A ip \in Ips : blocked'[ip] = IF blocked[ip] > Past THEN blocked[ip] - 1 ELSE blocked[ip]
  BY DEF Tick
<1>3. Tracked' \subseteq Tracked
  BY <1>1 DEF Tracked
<1>4. InForce'
  <2>1. \A ip \in Ips : sentence'[ip] = IF sentence[ip] > 0 THEN sentence[ip] - 1 ELSE 0
    BY DEF Tick
  <2> QED
    BY <1>2, <2>1 DEF IInv, TypeOK, InForce, Past
<1>5. \A ip \in Ips : blocked'[ip] # Never => blocked[ip] # Never
  BY <1>2 DEF Never, Past
<1> QED
  BY <1>1, <1>3, <1>4, <1>5, FewerTracked DEF IInv, BlockedStartsAfresh

LEMMA StepHolds == IInv /\ [Next]_vars => IInv'
<1> SUFFICES ASSUME IInv, [Next]_vars PROVE IInv'
  OBVIOUS
<1>0. TypeOK'
  BY TypeStep DEF IInv
<1> USE DEF settings, table, global, ghosts
<1>1. ASSUME NEW ip \in Ips,
             Enter(ip) \/ RefuseAll(ip) \/ PassTrusted(ip) \/ StillBlocked(ip)  PROVE IInv'
  <2>1. UNCHANGED <<attempts, blocked, sentence>>
    BY <1>1 DEF Enter, RefuseAll, PassTrusted, StillBlocked
  <2> QED
    BY <1>0, <2>1, TableAlone DEF IInv
<1>2. ASSUME NEW ip \in Ips, Block(ip)  PROVE IInv'
  BY <1>0, <1>2, BlockKeepsInv DEF IInv
<1>3. ASSUME NEW ip \in Ips, Record(ip)  PROVE IInv'
  BY <1>0, <1>3, RecordKeepsInv DEF IInv
<1>4. ASSUME \/ \E l \in Limits : SetLimits(l)
             \/ \E nets \in TrustedSets : SetTrustedProxies(nets)
             \/ StopLimiter \/ UNCHANGED vars
      PROVE  IInv'
  <2>1. UNCHANGED <<attempts, blocked, sentence>>
    BY <1>4 DEF SetLimits, SetTrustedProxies, StopLimiter, vars
  <2> QED
    BY <1>0, <2>1, TableAlone DEF IInv
<1>5. CASE Cleanup
  BY <1>0, <1>5, CleanupKeepsInv DEF IInv
<1>6. CASE Tick
  BY <1>0, <1>6, TickKeepsInv DEF IInv
<1> QED
  BY <1>1, <1>2, <1>3, <1>4, <1>5, <1>6 DEF Next, Allow

LEMMA Holds == Spec => []IInv
  BY InitHolds, StepHolds, PTL DEF Spec

(* A flood of addresses, however large and however interleaved with reloads *)
(* and cleanups, never makes the table exceed maxTrackedIPs.                *)
THEOREM TableStaysBounded == Spec => []TableBounded
<1>1. IInv => TableBounded
  BY DEF IInv
<1> QED
  BY <1>1, Holds, PTL

(* A blocked address never has attempts on record.                           *)
THEOREM BlockedAlwaysAfresh == Spec => []BlockedStartsAfresh
<1>1. IInv => BlockedStartsAfresh
  BY DEF IInv
<1> QED
  BY <1>1, Holds, PTL

(* The log of an address grows by no other step than Record.                 *)
LEMMA OnlyRecordLogs ==
  ASSUME TypeOK, [Next]_vars, NEW ip \in Ips, Len(log'[ip]) > Len(log[ip])
  PROVE  Record(ip)
<1> USE DEF settings, table, global, ghosts
<1>0. log[ip] \in Seq(Ages) /\ Len(log[ip]) \in Nat
  BY DEF TypeOK
<1>1. log'[ip] # log[ip]
  BY <1>0
<1>2. ASSUME NEW other \in Ips, Block(other) PROVE FALSE
  <2>1. PICK gone : log' = Rewrite(log, other, gone, log[other])
    BY <1>2 DEF Block
  <2>2. log'[ip] = log[ip] \/ log'[ip] = <<>>
    BY <2>1 DEF Rewrite
  <2> QED
    BY <1>0, <1>1, <2>2
<1>3. ASSUME NEW other \in Ips, Record(other) PROVE other = ip
  <2>1. PICK gone : log' = Rewrite(log, other, gone, Append(log[other], 0))
    BY <1>3 DEF Record
  <2>2. other # ip => log'[ip] = log[ip] \/ log'[ip] = <<>>
    BY <2>1 DEF Rewrite
  <2> QED
    BY <1>0, <1>1, <2>2
<1>4. ASSUME Tick PROVE FALSE
  <2>1. log'[ip] = Within(Aged(log[ip]), Horizon)
    BY <1>4 DEF Tick
  <2>2. Aged(log[ip]) \in Seq(Ages) /\ Len(Aged(log[ip])) = Len(log[ip])
    BY <1>0, AgedKeepsLength
  <2>3. Horizon \in Int
    BY LimitsAssumption
  <2>4. Len(log'[ip]) <= Len(log[ip]) /\ log'[ip] \in Seq(Ages)
    BY <2>1, <2>2, <2>3, WithinShrinks
  <2> QED
    BY <1>0, <2>4
<1>5. ASSUME NEW l \in Limits, SetLimits(l) PROVE FALSE
  <2>1. log'[ip] = <<>>
    BY <1>5 DEF SetLimits
  <2> QED
    BY <1>0, <2>1
<1>6. ASSUME \/ \E x \in Ips : Enter(x) \/ RefuseAll(x) \/ PassTrusted(x) \/ StillBlocked(x)
             \/ \E nets \in TrustedSets : SetTrustedProxies(nets)
             \/ Cleanup \/ StopLimiter \/ UNCHANGED vars
      PROVE  FALSE
  BY <1>1, <1>6 DEF Enter, RefuseAll, PassTrusted, StillBlocked, SetTrustedProxies, Cleanup,
                    StopLimiter, vars
<1> QED
  BY <1>2, <1>3, <1>4, <1>5, <1>6 DEF Next, Allow

(* No step counts an attempt of an address whose block is still running,    *)
(* whatever reloads have changed since: raising a limit forgives nobody.    *)
THEOREM BlocksAreServed == Spec => BlockServed
<1>1. IInv /\ [Next]_vars
        => [\A ip \in Ips : Len(log'[ip]) > Len(log[ip]) => sentence[ip] = 0]_vars
  <2> SUFFICES ASSUME IInv, [Next]_vars, NEW ip \in Ips, Len(log'[ip]) > Len(log[ip])
               PROVE  sentence[ip] = 0
    OBVIOUS
  <2>1. Record(ip)
    BY OnlyRecordLogs DEF IInv
  <2> QED
    BY <2>1, RecordAfterSentence
<1> QED
  BY <1>1, Holds, PTL DEF Spec, BlockServed

-----------------------------------------------------------------------------
(* The two rates that the limiter promises, per address and in all, are      *)
(* statements about how many ages of a sequence lie below the window.  The   *)
(* ghosts that record what was allowed are compared, from their newest entry *)
(* backwards, with what the limiter itself remembers: its attempts for one   *)
(* address, its two last windows for all.                                    *)

(* Oldest first. *)
Sorted(s) == \A i, j \in 1..Len(s) : i <= j => s[i] >= s[j]

(* Within cuts off the front of a sequence. *)
LEMMA WithinCuts ==
  ASSUME NEW s \in Seq(Ages), NEW w \in Int
  PROVE  \E c \in 0..Len(s) :
           /\ c = Cardinality({i \in DOMAIN s : s[i] >= w})
           /\ Len(Within(s, w)) = Len(s) - c
           /\ \A i \in 1..(Len(s) - c) : Within(s, w)[i] = s[i + c]
<1> DEFINE old == {i \in DOMAIN s : s[i] >= w}
           c == Cardinality(old)
<1>1. DOMAIN s = 1..Len(s) /\ Len(s) \in Nat
  OBVIOUS
<1>2. IsFiniteSet(1..Len(s)) /\ Cardinality(1..Len(s)) = Len(s)
  <2>1. IsFiniteSet(1..Len(s))
    BY <1>1, FS_Interval
  <2>2. Cardinality(1..Len(s)) = IF 1 > Len(s) THEN 0 ELSE Len(s) - 1 + 1
    BY <1>1, FS_Interval
  <2> QED
    BY <1>1, <2>1, <2>2
<1>3. c \in 0..Len(s)
  <2>1. old \subseteq 1..Len(s)
    BY <1>1
  <2>2. IsFiniteSet(old) /\ Cardinality(old) <= Cardinality(1..Len(s))
    BY <1>2, <2>1, FS_Subset
  <2> QED
    BY <1>1, <1>2, <2>2, FS_CardinalityType
<1>4. Within(s, w) = SubSeq(s, c + 1, Len(s))
  BY DEF Within
<1> HIDE DEF c
<1>5. /\ Len(SubSeq(s, c + 1, Len(s))) = Len(s) - c
      /\ \A i \in 1..(Len(s) - c) : SubSeq(s, c + 1, Len(s))[i] = s[i + c]
  BY <1>1, <1>3
<1> QED
  BY <1>3, <1>4, <1>5 DEF c

(* As many as are known to be old are cut off at least. *)
LEMMA OldAreCut ==
  ASSUME NEW s \in Seq(Ages), NEW w \in Int, NEW p \in 0..Len(s),
         \A i \in 1..p : s[i] >= w
  PROVE  Len(Within(s, w)) <= Len(s) - p
<1> DEFINE old == {i \in DOMAIN s : s[i] >= w}
<1>1. DOMAIN s = 1..Len(s) /\ Len(s) \in Nat
  OBVIOUS
<1>2. 1..p \subseteq old
  BY <1>1
<1>3. IsFiniteSet(old)
  <2>1. IsFiniteSet(1..Len(s)) /\ old \subseteq 1..Len(s)
    BY <1>1, FS_Interval
  <2> QED
    BY <2>1, FS_Subset
<1>4. Cardinality(1..p) = p
  <2>1. Cardinality(1..p) = IF 1 > p THEN 0 ELSE p - 1 + 1
    BY FS_Interval
  <2> QED
    BY <1>1, <2>1
<1>5. p <= Cardinality(old)
  BY <1>2, <1>3, <1>4, FS_Subset
<1>6. PICK c \in 0..Len(s) : c = Cardinality(old) /\ Len(Within(s, w)) = Len(s) - c
  BY WithinCuts
<1> QED
  BY <1>1, <1>5, <1>6

(* Of a sorted sequence exactly the old are cut off. *)
LEMMA SortedCut ==
  ASSUME NEW s \in Seq(Ages), NEW w \in Int, Sorted(s)
  PROVE  \E c \in 0..Len(s) :
           /\ Len(Within(s, w)) = Len(s) - c
           /\ \A i \in 1..(Len(s) - c) : Within(s, w)[i] = s[i + c]
           /\ \A i \in 1..Len(s) : s[i] >= w <=> i <= c
<1> DEFINE old == {i \in DOMAIN s : s[i] >= w}
<1>1. DOMAIN s = 1..Len(s) /\ Len(s) \in Nat /\ \A i \in 1..Len(s) : s[i] \in Int
  BY LimitsAssumption DEF Ages
<1>2. PICK c \in 0..Len(s) :
        /\ c = Cardinality(old)
        /\ Len(Within(s, w)) = Len(s) - c
        /\ \A i \in 1..(Len(s) - c) : Within(s, w)[i] = s[i + c]
  BY WithinCuts
<1>3. IsFiniteSet(old)
  <2>1. IsFiniteSet(1..Len(s)) /\ old \subseteq 1..Len(s)
    BY <1>1, FS_Interval
  <2> QED
    BY <2>1, FS_Subset
<1>4. \A n \in Nat : IsFiniteSet(1..n) /\ Cardinality(1..n) = n
  <2> TAKE n \in Nat
  <2>1. IsFiniteSet(1..n) /\ Cardinality(1..n) = IF 1 > n THEN 0 ELSE n - 1 + 1
    BY FS_Interval
  <2> QED
    BY <2>1
<1>5. ASSUME NEW i \in 1..Len(s), s[i] >= w PROVE i <= c
  <2>1. 1..i \subseteq old
    BY <1>1, <1>5 DEF Sorted
  <2>2. Cardinality(1..i) <= Cardinality(old)
    BY <1>3, <2>1, FS_Subset
  <2> QED
    BY <1>1, <1>2, <1>4, <2>2
<1>6. ASSUME NEW i \in 1..Len(s), ~(s[i] >= w) PROVE c < i
  <2>1. old \subseteq 1..(i - 1)
    <3> SUFFICES ASSUME NEW j \in old PROVE j \in 1..(i - 1)
      OBVIOUS
    <3>1. j \in 1..Len(s) /\ s[j] >= w
      BY <1>1
    <3>2. ~(i <= j)
      BY <1>1, <1>6, <3>1 DEF Sorted
    <3> QED
      BY <1>1, <3>1, <3>2
  <2>2. i - 1 \in Nat
    BY <1>1
  <2>3. Cardinality(old) <= Cardinality(1..(i - 1))
    BY <1>4, <2>1, <2>2, FS_Subset
  <2> QED
    BY <1>1, <1>2, <1>4, <2>2, <2>3
<1>7. \A i \in 1..Len(s) : s[i] >= w <=> i <= c
  BY <1>1, <1>2, <1>5, <1>6
<1> QED
  BY <1>2, <1>7

LEMMA AgedAges ==
  ASSUME NEW s \in Seq(Ages)
  PROVE  /\ Aged(s) \in Seq(Ages) /\ Len(Aged(s)) = Len(s)
         /\ \A i \in 1..Len(s) : Aged(s)[i] = Older(s[i])
BY AgedKeepsLength DEF Aged

LEMMA OlderGrows ==
  \A a, b \in Ages : /\ Older(a) \in Ages /\ Older(a) >= a
                     /\ a >= b => Older(a) >= Older(b)
                     /\ a < Horizon => Older(a) = a + 1
BY LimitsAssumption DEF Ages, Older

-----------------------------------------------------------------------------
(* The global rate.  What passed is in three parts: up to p, too old to     *)
(* matter; from there up to q, in the window before the current one; after  *)
(* q, in the current window, where globalCount counts it.                   *)
Parted(p, q) ==
  /\ p \in 0..Len(passes) /\ q \in p..Len(passes)
  /\ \A i \in 1..p : passes[i] >= limits.window
  /\ \A i \in 1..q : passes[i] >= globalAge
  /\ q - p <= GlobalMax
  /\ Len(passes) - q <= globalCount

PartedInv == \E p \in 0..Len(passes), q \in 0..Len(passes) : Parted(p, q)

LEMMA PartedInit == Init => PartedInv
<1> SUFFICES ASSUME Init PROVE PartedInv
  OBVIOUS
<1>1. passes = <<>> /\ Len(passes) = 0 /\ globalCount = 0
  BY DEF Init
<1>2. Parted(0, 0)
  BY <1>1, LimitsAssumption DEF Parted
<1> QED
  BY <1>1, <1>2 DEF PartedInv

(* A verdict under the lock, which may roll the window over and may let one *)
(* more pass.                                                               *)
LEMMA CountingKeepsParted ==
  ASSUME TypeOK, PartedInv, UNCHANGED limits,
         \/ Counting(Count) /\ UNCHANGED passes
         \/ Counting(Count + 1) /\ passes' = Append(passes, 0)
  PROVE  PartedInv'
<1>1. PICK p \in 0..Len(passes), q \in 0..Len(passes) : Parted(p, q)
  BY DEF PartedInv
<1>2. /\ Len(passes) \in Nat /\ \A i \in 1..Len(passes) : passes[i] \in Nat
      /\ limits.window \in Nat /\ globalAge \in Nat /\ globalCount \in Nat
      /\ globalCount <= GlobalMax /\ GlobalMax \in Nat
  <2>1. passes \in Seq(Ages) /\ globalAge \in Ages /\ globalCount \in 0..GlobalMax
    BY DEF TypeOK
  <2>2. Ages \subseteq Nat
    BY LimitsAssumption DEF Ages
  <2>3. Len(passes) \in Nat /\ \A i \in 1..Len(passes) : passes[i] \in Ages
    BY <2>1
  <2>4. ASSUME NEW i \in 1..Len(passes) PROVE passes[i] \in Nat
    BY <2>2, <2>3
  <2>5. globalAge \in Nat
    BY <2>1, <2>2
  <2> QED
    BY <2>1, <2>3, <2>4, <2>5, LimitsTyped, LimitsAssumption
<1>3. /\ Len(passes') \in Nat /\ Len(passes') >= Len(passes)
      /\ \A i \in 1..Len(passes) : passes'[i] = passes[i]
  BY DEF TypeOK
<1>4. CASE WindowOver
  <2>1. globalAge' = 0 /\ Len(passes') - Len(passes) <= globalCount'
    BY <1>2, <1>4 DEF Counting, Count, TypeOK
  <2>2. /\ q \in 0..Len(passes') /\ Len(passes) \in q..Len(passes')
        /\ Len(passes) - q <= GlobalMax
    BY <1>1, <1>2, <1>3 DEF Parted
  <2>3. \A i \in 1..q : passes'[i] >= limits'.window
    BY <1>1, <1>2, <1>3, <1>4 DEF Parted, WindowOver
  <2>4. ASSUME NEW i \in 1..Len(passes) PROVE passes'[i] >= globalAge'
    <3>1. passes'[i] = passes[i] /\ passes[i] \in Nat
      BY <1>2, <1>3
    <3>2. passes'[i] \in Nat /\ globalAge' = 0
      BY <2>1, <3>1
    <3> QED
      BY <3>2
  <2>5. PICK m \in Nat : m = Len(passes)
    BY <1>2
  <2>6. Parted(q, m)'
    BY <2>1, <2>2, <2>3, <2>4, <2>5 DEF Parted
  <2> QED
    BY <1>1, <1>2, <1>3, <2>5, <2>6 DEF PartedInv
<1>5. CASE ~WindowOver
  <2>1. globalAge' = globalAge
        /\ Len(passes') - Len(passes) = globalCount' - globalCount
        /\ globalCount' \in Nat
    BY <1>2, <1>5 DEF Counting, Count, TypeOK
  <2>2. /\ p \in 0..Len(passes') /\ q \in p..Len(passes') /\ q - p <= GlobalMax
        /\ Len(passes') - q <= globalCount'
    BY <1>1, <1>2, <1>3, <2>1 DEF Parted
  <2>3. \A i \in 1..p : passes'[i] >= limits'.window
    BY <1>1, <1>2, <1>3 DEF Parted
  <2>4. ASSUME NEW i \in 1..q PROVE passes'[i] >= globalAge'
    <3>1. i \in 1..Len(passes) /\ passes[i] >= globalAge
      BY <1>1, <1>2 DEF Parted
    <3> QED
      BY <1>3, <2>1, <3>1
  <2>5. Parted(p, q)'
    BY <2>2, <2>3, <2>4 DEF Parted
  <2> QED
    BY <1>1, <1>2, <1>3, <2>5 DEF PartedInv
<1> QED
  BY <1>4, <1>5

LEMMA TickKeepsParted ==
  ASSUME TypeOK, PartedInv, Tick
  PROVE  PartedInv'
<1> DEFINE s == Aged(passes)
<1>1. PICK p \in 0..Len(passes), q \in 0..Len(passes) : Parted(p, q)
  BY DEF PartedInv
<1>2. /\ s \in Seq(Ages) /\ Len(s) = Len(passes) /\ Len(s) \in Nat
      /\ \A i \in 1..Len(s) : s[i] = Older(passes[i])
  BY AgedAges DEF TypeOK
<1>3. PICK c \in 0..Len(s) :
        /\ Len(Within(s, Horizon)) = Len(s) - c
        /\ \A i \in 1..(Len(s) - c) : Within(s, Horizon)[i] = s[i + c]
  <2>1. Horizon \in Int
    BY LimitsAssumption
  <2> QED
    BY <1>2, <2>1, WithinCuts
<1> HIDE DEF s
<1> DEFINE Less(n) == IF n >= c THEN n - c ELSE 0
<1>4. /\ passes' = Within(s, Horizon) /\ globalAge' = Older(globalAge)
      /\ UNCHANGED <<limits, globalCount>>
  BY DEF Tick, settings, s
<1>5. /\ limits.window \in Nat /\ globalAge \in Ages /\ GlobalMax \in Nat
      /\ globalCount \in Nat /\ \A i \in 1..Len(passes) : passes[i] \in Ages
  BY LimitsTyped, LimitsAssumption DEF TypeOK
<1>6. ASSUME NEW i \in 1..Less(p) PROVE passes'[i] >= limits.window
  <2>1. i + c \in 1..p /\ i \in 1..(Len(s) - c)
    BY <1>1, <1>2
  <2>2. /\ passes'[i] = Older(passes[i + c]) /\ i + c \in 1..Len(s)
        /\ passes[i + c] >= limits.window
    BY <1>1, <1>2, <1>3, <1>4, <2>1 DEF Parted
  <2>3. passes[i + c] \in Ages /\ Older(passes[i + c]) >= passes[i + c]
    BY <1>1, <1>5, <2>1, OlderGrows
  <2>4. passes[i + c] \in Int /\ Older(passes[i + c]) \in Int
    BY <2>3, OlderGrows, LimitsAssumption DEF Ages
  <2> QED
    BY <1>5, <2>2, <2>3, <2>4
<1>7. ASSUME NEW i \in 1..Less(q) PROVE passes'[i] >= globalAge'
  <2>1. i + c \in 1..q /\ i \in 1..(Len(s) - c)
    BY <1>1, <1>2
  <2>2. passes'[i] = Older(passes[i + c]) /\ i + c \in 1..Len(s)
    BY <1>2, <1>3, <1>4, <2>1
  <2>3. passes[i + c] >= globalAge
    BY <1>1, <2>1 DEF Parted
  <2>4. passes[i + c] \in Ages
    BY <1>2, <1>5, <2>2
  <2> QED
    BY <1>4, <1>5, <2>2, <2>3, <2>4, OlderGrows
<1>8. Parted(Less(p), Less(q))'
  <2>1. /\ p \in 0..Len(passes) /\ q \in p..Len(passes) /\ q - p <= GlobalMax
        /\ Len(passes) - q <= globalCount /\ Len(passes') = Len(passes) - c
    BY <1>1, <1>2, <1>3, <1>4 DEF Parted
  <2>2. /\ Less(p) \in 0..Len(passes') /\ Less(q) \in Less(p)..Len(passes')
        /\ Less(q) - Less(p) <= GlobalMax /\ Len(passes') - Less(q) <= globalCount
    BY <1>2, <1>5, <2>1
  <2> QED
    BY <1>4, <1>6, <1>7, <2>2 DEF Parted
<1>9. Less(p) \in 0..Len(passes') /\ Less(q) \in 0..Len(passes')
  BY <1>1, <1>2, <1>3, <1>4
<1> QED
  BY <1>8, <1>9 DEF PartedInv

LEMMA PartedStep == TypeOK /\ PartedInv /\ [Next]_vars => PartedInv'
<1> SUFFICES ASSUME TypeOK, PartedInv, [Next]_vars PROVE PartedInv'
  OBVIOUS
<1> USE DEF settings, table, global, ghosts
<1>1. ASSUME NEW ip \in Ips,
             RefuseAll(ip) \/ PassTrusted(ip) \/ StillBlocked(ip) \/ Block(ip) \/ Record(ip)
      PROVE  PartedInv'
  <2>1. /\ UNCHANGED limits
        /\ \/ Counting(Count) /\ UNCHANGED passes
           \/ Counting(Count + 1) /\ passes' = Append(passes, 0)
    BY <1>1 DEF RefuseAll, PassTrusted, StillBlocked, Block, Record
  <2> QED
    BY <2>1, CountingKeepsParted
<1>2. ASSUME UNCHANGED <<limits, passes, globalAge, globalCount>> PROVE PartedInv'
  BY <1>2 DEF PartedInv, Parted
<1>3. ASSUME NEW ip \in Ips, Enter(ip) PROVE PartedInv'
  BY <1>2, <1>3 DEF Enter
<1>4. ASSUME NEW nets \in TrustedSets, SetTrustedProxies(nets) PROVE PartedInv'
  BY <1>2, <1>4 DEF SetTrustedProxies
<1>5. ASSUME NEW l \in Limits, SetLimits(l) PROVE PartedInv'
  <2>1. passes' = <<>> /\ Len(passes') = 0 /\ globalCount' = globalCount
    BY <1>5 DEF SetLimits
  <2>2. Parted(0, 0)'
    BY <2>1, LimitsAssumption DEF Parted, TypeOK
  <2> QED
    BY <2>1, <2>2 DEF PartedInv
<1>6. CASE Cleanup \/ StopLimiter
  BY <1>2, <1>6 DEF Cleanup, StopLimiter
<1>7. CASE Tick
  BY <1>7, TickKeepsParted
<1>8. CASE UNCHANGED vars
  BY <1>2, <1>8 DEF vars
<1> QED
  BY <1>1, <1>3, <1>4, <1>5, <1>6, <1>7, <1>8 DEF Next, Allow

(* No stretch of time as long as a window sees more than twice the global   *)
(* ceiling, however it lies over the fixed windows (ratelimit.go:115-124).  *)
THEOREM BurstsAreBounded == Spec => []BurstBounded
<1>1. ASSUME TypeOK, PartedInv PROVE BurstBounded
  <2>1. PICK p \in 0..Len(passes), q \in 0..Len(passes) : Parted(p, q)
    BY <1>1 DEF PartedInv
  <2>2. /\ passes \in Seq(Ages) /\ limits.window \in Int /\ Len(passes) \in Nat
        /\ globalCount \in Nat /\ globalCount <= GlobalMax /\ GlobalMax \in Nat
    BY <1>1, LimitsTyped, LimitsAssumption DEF TypeOK
  <2>3. Within(passes, limits.window) \in Seq(Ages)
    BY <2>2, WithinShrinks
  <2>4. Len(Within(passes, limits.window)) <= Len(passes) - p
    BY <2>1, <2>2, OldAreCut DEF Parted
  <2>5. Len(passes) - p <= 2 * GlobalMax
    BY <2>1, <2>2 DEF Parted
  <2> QED
    BY <2>2, <2>3, <2>4, <2>5 DEF BurstBounded
<1> QED
  BY <1>1, PartedInit, PartedStep, LimiterTypeCorrect, PTL DEF Spec

-----------------------------------------------------------------------------
(* The rate of one address.  Counted from its newest entry backwards, every *)
(* entry of l below w is matched by one of a that is no older.              *)
Covers(a, l, w) ==
  \A k \in Nat :
    k < Len(l) /\ l[Len(l) - k] < w => k < Len(a) /\ a[Len(a) - k] <= l[Len(l) - k]

LEMMA OldNeedNoCover ==
  ASSUME NEW a, NEW l \in Seq(Ages), NEW w \in Int, \A i \in 1..Len(l) : l[i] >= w
  PROVE  Covers(a, l, w)
<1> SUFFICES ASSUME NEW k \in Nat, k < Len(l), l[Len(l) - k] < w PROVE FALSE
  BY DEF Covers
<1>1. Len(l) - k \in 1..Len(l) /\ l[Len(l) - k] >= w
  OBVIOUS
<1>2. l[Len(l) - k] \in Int
  BY <1>1, LimitsAssumption DEF Ages
<1> QED
  BY <1>1, <1>2

(* Cleaning a sorted sequence takes nothing away that covers. *)
LEMMA CleaningCovers ==
  ASSUME NEW a \in Seq(Ages), NEW l \in Seq(Ages), NEW w \in Int, Sorted(a),
         Covers(a, l, w)
  PROVE  Covers(Within(a, w), l, w) /\ Sorted(Within(a, w))
<1> DEFINE r == Within(a, w)
<1>1. PICK c \in 0..Len(a) :
        /\ Len(r) = Len(a) - c
        /\ \A i \in 1..(Len(a) - c) : r[i] = a[i + c]
        /\ \A i \in 1..Len(a) : a[i] >= w <=> i <= c
  BY SortedCut
<1>2. /\ r \in Seq(Ages) /\ Len(a) \in Nat /\ Len(l) \in Nat
      /\ \A i \in 1..Len(a) : a[i] \in Int
      /\ \A i \in 1..Len(l) : l[i] \in Int
  BY WithinShrinks, LimitsAssumption DEF Ages
<1> HIDE DEF r
<1>3. Sorted(r)
  <2> SUFFICES ASSUME NEW i \in 1..Len(r), NEW j \in 1..Len(r), i <= j PROVE r[i] >= r[j]
    BY DEF Sorted
  <2>1. i + c \in 1..Len(a) /\ j + c \in 1..Len(a) /\ i + c <= j + c
    BY <1>1, <1>2
  <2>2. a[i + c] >= a[j + c]
    BY <2>1 DEF Sorted
  <2> QED
    BY <1>1, <2>2
<1>4. ASSUME NEW k \in Nat, k < Len(l), l[Len(l) - k] < w
      PROVE  k < Len(r) /\ r[Len(r) - k] <= l[Len(l) - k]
  <2>1. k < Len(a) /\ a[Len(a) - k] <= l[Len(l) - k]
    BY <1>4 DEF Covers
  <2>2. Len(a) - k \in 1..Len(a) /\ Len(l) - k \in 1..Len(l)
    BY <1>2, <1>4, <2>1
  <2>3. a[Len(a) - k] \in Int /\ l[Len(l) - k] \in Int
    BY <1>2, <2>2
  <2>4. ~(a[Len(a) - k] >= w)
    BY <1>4, <2>1, <2>3
  <2>5. ~(Len(a) - k <= c)
    BY <1>1, <2>2, <2>4
  <2>6. k < Len(r) /\ Len(r) - k \in 1..(Len(a) - c) /\ Len(r) - k + c = Len(a) - k
    BY <1>1, <1>2, <2>2, <2>5
  <2>7. r[Len(r) - k] = a[Len(a) - k]
    BY <1>1, <2>6
  <2> QED
    BY <2>1, <2>6, <2>7
<1> QED
  BY <1>3, <1>4 DEF Covers, r

(* One more attempt, recorded and allowed. *)
LEMMA AppendCovers ==
  ASSUME NEW a \in Seq(Ages), NEW l \in Seq(Ages), NEW w \in Int, Covers(a, l, w)
  PROVE  Covers(Append(a, 0), Append(l, 0), w)
<1> DEFINE b == Append(a, 0)
           m == Append(l, 0)
<1>1. /\ Len(b) = Len(a) + 1 /\ Len(m) = Len(l) + 1 /\ Len(a) \in Nat /\ Len(l) \in Nat
      /\ b[Len(b)] = 0 /\ m[Len(m)] = 0
      /\ \A i \in 1..Len(a) : b[i] = a[i]
      /\ \A i \in 1..Len(l) : m[i] = l[i]
  OBVIOUS
<1> HIDE DEF b, m
<1> SUFFICES ASSUME NEW k \in Nat, k < Len(m), m[Len(m) - k] < w
             PROVE  k < Len(b) /\ b[Len(b) - k] <= m[Len(m) - k]
  BY DEF Covers, b, m
<1>2. CASE k = 0
  <2>1. Len(b) - k = Len(b) /\ Len(m) - k = Len(m)
    BY <1>1, <1>2
  <2> QED
    BY <1>1, <1>2, <2>1
<1>3. CASE k # 0
  <2>1. /\ k - 1 \in Nat /\ k - 1 < Len(l) /\ Len(l) - (k - 1) \in 1..Len(l)
        /\ Len(m) - k = Len(l) - (k - 1) /\ Len(b) - k = Len(a) - (k - 1)
    BY <1>1, <1>3
  <2>2. l[Len(l) - (k - 1)] < w
    BY <1>1, <2>1
  <2>3. k - 1 < Len(a) /\ a[Len(a) - (k - 1)] <= l[Len(l) - (k - 1)]
    BY <2>1, <2>2 DEF Covers
  <2>4. Len(a) - (k - 1) \in 1..Len(a) /\ k < Len(b)
    BY <1>1, <2>1, <2>3
  <2> QED
    BY <1>1, <2>1, <2>3, <2>4
<1> QED
  BY <1>2, <1>3

LEMMA AppendSorted ==
  ASSUME NEW s \in Seq(Ages), Sorted(s)
  PROVE  Sorted(Append(s, 0))
<1>1. /\ Len(Append(s, 0)) = Len(s) + 1 /\ Len(s) \in Nat /\ Append(s, 0)[Len(s) + 1] = 0
      /\ \A i \in 1..Len(s) : Append(s, 0)[i] = s[i] /\ s[i] \in Nat
  BY LimitsAssumption DEF Ages
<1> QED
  BY <1>1 DEF Sorted

(* Time passes, and what is out of any reach is forgotten. *)
LEMMA AgingCovers ==
  ASSUME NEW a \in Seq(Ages), NEW l \in Seq(Ages), NEW w \in Nat, w < Horizon,
         Sorted(a), Sorted(l), Covers(a, l, w)
  PROVE  /\ Sorted(Aged(a)) /\ Sorted(Within(Aged(l), Horizon))
         /\ Covers(Aged(a), Within(Aged(l), Horizon), w)
         /\ Len(Within(Within(Aged(l), Horizon), w)) <= Len(Within(l, w))
<1> DEFINE b == Aged(a)
           g == Aged(l)
           m == Within(g, Horizon)
<1>0. w \in Int /\ Horizon \in Int
  BY LimitsAssumption
<1>1. /\ Len(a) \in Nat /\ Len(l) \in Nat
      /\ \A i \in 1..Len(a) : a[i] \in Ages
      /\ \A i \in 1..Len(l) : l[i] \in Ages
  BY LimitsAssumption
<1>2. /\ b \in Seq(Ages) /\ Len(b) = Len(a) /\ \A i \in 1..Len(a) : b[i] = Older(a[i])
      /\ g \in Seq(Ages) /\ Len(g) = Len(l) /\ \A i \in 1..Len(l) : g[i] = Older(l[i])
  BY AgedAges
<1> HIDE DEF b, g
<1>3. Sorted(b) /\ Sorted(g)
  BY <1>1, <1>2, OlderGrows DEF Sorted
<1>4. PICK c \in 0..Len(g) :
        /\ Len(m) = Len(g) - c
        /\ \A i \in 1..(Len(g) - c) : m[i] = g[i + c]
        /\ \A i \in 1..Len(g) : g[i] >= Horizon <=> i <= c
  BY <1>0, <1>2, <1>3, SortedCut
<1>5. m \in Seq(Ages)
  BY <1>0, <1>2, WithinShrinks
<1> HIDE DEF m
<1>6. Sorted(m)
  <2> SUFFICES ASSUME NEW i \in 1..Len(m), NEW j \in 1..Len(m), i <= j PROVE m[i] >= m[j]
    BY DEF Sorted
  <2>1. i + c \in 1..Len(g) /\ j + c \in 1..Len(g) /\ i + c <= j + c
    BY <1>1, <1>2, <1>4
  <2>2. g[i + c] >= g[j + c]
    BY <1>3, <2>1 DEF Sorted
  <2> QED
    BY <1>4, <2>2
<1>7. Ages \subseteq Int
  BY LimitsAssumption DEF Ages
<1>8. ASSUME NEW k \in Nat, k < Len(m), m[Len(m) - k] < w
      PROVE  k < Len(b) /\ b[Len(b) - k] <= m[Len(m) - k]
  <2>1. /\ Len(m) - k \in 1..(Len(g) - c) /\ Len(m) - k + c = Len(l) - k
        /\ k < Len(l) /\ Len(l) - k \in 1..Len(l)
    BY <1>1, <1>2, <1>4, <1>8
  <2>2. m[Len(m) - k] = Older(l[Len(l) - k]) /\ l[Len(l) - k] \in Ages
    BY <1>1, <1>2, <1>4, <2>1
  <2>3. l[Len(l) - k] < w
    <3>1. /\ Older(l[Len(l) - k]) >= l[Len(l) - k] /\ Older(l[Len(l) - k]) \in Int
          /\ l[Len(l) - k] \in Int
      BY <1>7, <2>2, OlderGrows
    <3> QED
      BY <1>8, <2>2, <3>1
  <2>4. k < Len(a) /\ a[Len(a) - k] <= l[Len(l) - k]
    BY <2>1, <2>3 DEF Covers
  <2>5. Len(a) - k \in 1..Len(a) /\ Len(b) - k = Len(a) - k /\ a[Len(a) - k] \in Ages
    BY <1>1, <1>2, <2>4
  <2>6. b[Len(b) - k] = Older(a[Len(a) - k])
    BY <1>2, <2>5
  <2>7. l[Len(l) - k] >= a[Len(a) - k]
    BY <1>7, <2>2, <2>4, <2>5
  <2>8. Older(l[Len(l) - k]) >= Older(a[Len(a) - k])
    BY <2>2, <2>5, <2>7, OlderGrows
  <2>9. Older(l[Len(l) - k]) \in Int /\ Older(a[Len(a) - k]) \in Int
    BY <1>7, <2>2, <2>5, OlderGrows
  <2> QED
    BY <1>2, <2>2, <2>4, <2>6, <2>8, <2>9
<1>9. Len(Within(m, w)) <= Len(Within(l, w))
  <2>1. PICK d \in 0..Len(l) :
          /\ Len(Within(l, w)) = Len(l) - d
          /\ \A i \in 1..Len(l) : l[i] >= w <=> i <= d
    BY <1>0, SortedCut
  <2> DEFINE p == IF d >= c THEN d - c ELSE 0
  <2>2. p \in 0..Len(m)
    BY <1>1, <1>2, <1>4, <2>1
  <2>3. ASSUME NEW i \in 1..p PROVE m[i] >= w
    <3>1. i + c \in 1..Len(l) /\ i + c <= d /\ i \in 1..(Len(g) - c)
      BY <1>1, <1>2, <1>4, <2>1
    <3>2. m[i] = Older(l[i + c]) /\ l[i + c] >= w /\ l[i + c] \in Ages
      BY <1>1, <1>2, <1>4, <2>1, <3>1
    <3>3. Older(l[i + c]) >= l[i + c] /\ Older(l[i + c]) \in Int /\ l[i + c] \in Int
      BY <1>7, <3>2, OlderGrows
    <3> QED
      BY <3>2, <3>3
  <2>4. Len(Within(m, w)) <= Len(m) - p
    <3> HIDE DEF p
    <3> QED
      BY <1>0, <1>5, <2>2, <2>3, OldAreCut
  <2>5. Within(m, w) \in Seq(Ages)
    BY <1>0, <1>5, WithinShrinks
  <2> QED
    BY <1>1, <1>2, <1>4, <2>1, <2>4, <2>5
<1> QED
  BY <1>3, <1>6, <1>8, <1>9 DEF Covers, b, g, m

(* What covers is at least as much. *)
LEMMA CoversCount ==
  ASSUME NEW a \in Seq(Ages), NEW l \in Seq(Ages), NEW w \in Int,
         Sorted(a), Sorted(l), Covers(a, l, w)
  PROVE  Len(Within(l, w)) <= Len(Within(a, w))
<1>1. PICK c \in 0..Len(a) :
        /\ Len(Within(a, w)) = Len(a) - c
        /\ \A i \in 1..Len(a) : a[i] >= w <=> i <= c
  BY SortedCut
<1>2. PICK d \in 0..Len(l) :
        /\ Len(Within(l, w)) = Len(l) - d
        /\ \A i \in 1..Len(l) : l[i] >= w <=> i <= d
  BY SortedCut
<1>3. CASE d = Len(l)
  BY <1>1, <1>2, <1>3
<1>4. CASE d # Len(l)
  <2> DEFINE k == Len(l) - d - 1
  <2>1. k \in Nat /\ k < Len(l) /\ Len(l) - k = d + 1 /\ d + 1 \in 1..Len(l)
    BY <1>2, <1>4
  <2>2. ~(l[d + 1] >= w) /\ l[d + 1] \in Int
    BY <1>2, <2>1, LimitsAssumption DEF Ages
  <2>3. l[Len(l) - k] < w
    BY <2>1, <2>2
  <2> HIDE DEF k
  <2>4. k < Len(a) /\ a[Len(a) - k] <= l[Len(l) - k]
    BY <2>1, <2>3 DEF Covers
  <2>5. Len(a) - k \in 1..Len(a) /\ a[Len(a) - k] \in Int /\ l[Len(l) - k] \in Int
    <3>1. Len(a) - k \in 1..Len(a)
      BY <2>1, <2>4
    <3>2. a[Len(a) - k] \in Ages /\ Ages \subseteq Int
      BY <3>1, LimitsAssumption DEF Ages
    <3>3. a[Len(a) - k] \in Int
      BY <3>2
    <3>4. l[Len(l) - k] \in Int
      BY <2>1, <2>2
    <3> QED
      BY <3>1, <3>3, <3>4
  <2>6. ~(a[Len(a) - k] >= w)
    BY <2>3, <2>4, <2>5
  <2>7. ~(Len(a) - k <= c)
    BY <1>1, <2>5, <2>6
  <2> QED
    BY <1>1, <1>2, <2>1, <2>7
<1> QED
  BY <1>3, <1>4

(* The log of an address is covered by its attempts; once it is blocked, it *)
(* has none, and what is in the log grows old as the block runs out.        *)
AddressInv(ip) ==
  /\ Sorted(attempts[ip]) /\ Sorted(log[ip])
  /\ limits.block >= limits.window =>
       /\ Len(Within(log[ip], limits.window)) <= limits.max
       /\ blocked[ip] = Never => Covers(attempts[ip], log[ip], limits.window)
       /\ blocked[ip] # Never =>
            \A i \in 1..Len(log[ip]) :
              log[ip][i] >= limits.window \/ log[ip][i] + blocked[ip] >= limits.block

RateInv == \A ip \in Ips : AddressInv(ip)

LEMMA EmptyIsFine ==
  ASSUME NEW w \in Int
  PROVE  /\ Sorted(<<>>) /\ Within(<<>>, w) = <<>> /\ Len(<<>>) = 0
         /\ \A a : Covers(a, <<>>, w)
<1>1. Len(<<>>) = 0
  OBVIOUS
<1> QED
  BY <1>1, WithinEmpty DEF Sorted, Covers

LEMMA BlocksTyped ==
  ASSUME TypeOK, NEW ip \in Ips
  PROVE  blocked[ip] \in Int /\ limits.block \in Int /\ limits.block # Never
<1>1. Never \in Int /\ Past \in Int /\ \A n \in Nat : n # Never
  BY DEF Never, Past
<1>2. blocked[ip] \in {Never, Past} \union Nat
  BY DEF TypeOK
<1>3. limits.block \in Nat
  BY LimitsTyped
<1> QED
  BY <1>1, <1>2, <1>3

(* When no block is left to serve, what covers the log are the attempts. *)
LEMMA UnblockedCovers ==
  ASSUME TypeOK, NEW ip \in Ips, AddressInv(ip), limits.block >= limits.window,
         blocked[ip] <= 0
  PROVE  Covers(attempts[ip], log[ip], limits.window)
<1>1. CASE blocked[ip] = Never
  BY <1>1 DEF AddressInv
<1>2. CASE blocked[ip] # Never
  <2>1. /\ log[ip] \in Seq(Ages) /\ limits.window \in Int /\ limits.block \in Int
        /\ blocked[ip] \in Int
    BY LimitsTyped, BlocksTyped DEF TypeOK
  <2>2. Ages \subseteq Int
    BY LimitsAssumption DEF Ages
  <2>3. ASSUME NEW i \in 1..Len(log[ip]) PROVE log[ip][i] >= limits.window
    <3>1. log[ip][i] >= limits.window \/ log[ip][i] + blocked[ip] >= limits.block
      BY <1>2 DEF AddressInv
    <3>2. log[ip][i] \in Ages
      BY <2>1
    <3>3. log[ip][i] \in Int
      BY <2>2, <3>2
    <3> QED
      BY <2>1, <3>1, <3>3
  <2> QED
    BY <2>1, <2>3, OldNeedNoCover
<1> QED
  BY <1>1, <1>2

LEMMA RateInit == Init => RateInv
<1> SUFFICES ASSUME Init, NEW ip \in Ips PROVE AddressInv(ip)
  BY DEF RateInv
<1>1. attempts[ip] = <<>> /\ log[ip] = <<>> /\ blocked[ip] = Never
  BY DEF Init
<1>2. limits.window \in Int /\ limits.max \in Nat
  BY LimitsTyped, InitTyped
<1> QED
  BY <1>1, <1>2, EmptyIsFine DEF AddressInv

(* An address that an eviction or a new setting has forgiven. *)
LEMMA ForgivenIsFine ==
  ASSUME TypeOK', NEW ip \in Ips, Sorted(attempts'[ip]), log'[ip] = <<>>
  PROVE  AddressInv(ip)'
<1>1. limits'.window \in Int /\ limits'.max \in Nat
  BY LimitsAssumption DEF TypeOK
<1>2. /\ Sorted(log'[ip]) /\ Within(log'[ip], limits'.window) = <<>> /\ Len(log'[ip]) = 0
      /\ Len(<<>>) = 0
      /\ Covers(attempts'[ip], log'[ip], limits'.window)
  BY <1>1, EmptyIsFine
<1> QED
  BY <1>1, <1>2 DEF AddressInv

LEMMA AddressAlone ==
  ASSUME NEW ip \in Ips, AddressInv(ip), UNCHANGED limits,
         attempts'[ip] = attempts[ip], log'[ip] = log[ip], blocked'[ip] = blocked[ip]
  PROVE  AddressInv(ip)'
BY DEF AddressInv

LEMMA BlockKeepsRate ==
  ASSUME TypeOK, TypeOK', RateInv, NEW ip \in Ips, Block(ip)
  PROVE  RateInv'
<1>1. PICK gone \in Victims(ip) :
        /\ attempts' = Rewrite(attempts, ip, gone, <<>>)
        /\ log' = Rewrite(log, ip, gone, log[ip])
  BY DEF Block
<1>2. UNCHANGED limits /\ blocked' = [blocked EXCEPT ![ip] = limits.block]
  BY DEF Block, settings
<1> SUFFICES ASSUME NEW x \in Ips PROVE AddressInv(x)'
  BY DEF RateInv
<1>3. CASE x = ip
  <2>1. attempts'[x] = <<>> /\ log'[x] = log[x] /\ blocked'[x] = limits.block
    BY <1>1, <1>2, <1>3 DEF Rewrite, TypeOK
  <2>2. /\ limits.block \in Nat /\ limits.window \in Nat /\ log[x] \in Seq(Ages)
        /\ limits.block # Never
    BY LimitsTyped, BlocksTyped DEF TypeOK
  <2>3. ASSUME NEW i \in 1..Len(log[x]) PROVE log[x][i] + limits.block >= limits.block
    <3>1. log[x][i] \in Ages
      BY <2>2
    <3>2. log[x][i] \in Nat
      BY <3>1, LimitsAssumption DEF Ages
    <3> QED
      BY <2>2, <3>2
  <2>4. Sorted(attempts'[x])
    BY <2>1, EmptyIsFine
  <2> QED
    BY <1>2, <2>1, <2>2, <2>3, <2>4 DEF AddressInv, RateInv
<1>4. CASE x # ip /\ x \in gone
  <2>1. attempts'[x] = <<>> /\ log'[x] = <<>>
    BY <1>1, <1>4 DEF Rewrite
  <2> QED
    BY <2>1, EmptyIsFine, ForgivenIsFine
<1>5. CASE x # ip /\ x \notin gone
  <2>1. attempts'[x] = attempts[x] /\ log'[x] = log[x] /\ blocked'[x] = blocked[x]
    BY <1>1, <1>2, <1>5 DEF Rewrite, TypeOK
  <2> QED
    BY <1>2, <2>1, AddressAlone DEF RateInv
<1> QED
  BY <1>3, <1>4, <1>5

LEMMA RecordKeepsRate ==
  ASSUME TypeOK, TypeOK', RateInv, NEW ip \in Ips, Record(ip)
  PROVE  RateInv'
<1>1. PICK gone \in Victims(ip) :
        /\ attempts' = Rewrite(attempts, ip, gone, Append(Recent(ip), 0))
        /\ log' = Rewrite(log, ip, gone, Append(log[ip], 0))
  BY DEF Record
<1>2. /\ UNCHANGED limits /\ blocked' = [blocked EXCEPT ![ip] = Never]
      /\ blocked[ip] <= 0 /\ Len(Recent(ip)) < limits.max
  BY DEF Record, Judged, settings
<1> SUFFICES ASSUME NEW x \in Ips PROVE AddressInv(x)'
  BY DEF RateInv
<1>3. CASE x = ip
  <2> DEFINE a == attempts[ip]
             l == log[ip]
             w == limits.window
  <2>1. /\ attempts'[x] = Append(Within(a, w), 0) /\ log'[x] = Append(l, 0)
        /\ blocked'[x] = Never
    BY <1>1, <1>2, <1>3 DEF Rewrite, TypeOK, Recent
  <2>2. /\ a \in Seq(Ages) /\ l \in Seq(Ages) /\ w \in Int /\ limits.max \in Nat
        /\ Within(a, w) \in Seq(Ages) /\ Len(Within(a, w)) < limits.max
    <3>1. a \in Seq(Ages) /\ l \in Seq(Ages) /\ w \in Int /\ limits.max \in Nat
      <4>1. attempts \in [Ips -> Seq(Ages)] /\ log \in [Ips -> Seq(Ages)]
        BY DEF TypeOK
      <4>2. limits.window \in Nat /\ limits.max \in Nat
        BY LimitsTyped
      <4> QED
        BY <4>1, <4>2
    <3>2. Within(a, w) \in Seq(Ages)
      BY <3>1, WithinShrinks
    <3> QED
      BY <1>2, <3>1, <3>2 DEF Recent
  <2>3. AddressInv(ip)
    BY DEF RateInv
  <2>4. Sorted(a) /\ Sorted(l)
    BY <2>3 DEF AddressInv
  <2>5. Sorted(Within(a, w))
    <3>1. Covers(a, <<>>, w) /\ <<>> \in Seq(Ages)
      BY <2>2, EmptyIsFine
    <3> QED
      BY <2>2, <2>4, <3>1, CleaningCovers
  <2>6. Sorted(Append(Within(a, w), 0)) /\ Sorted(Append(l, 0))
    BY <2>2, <2>4, <2>5, AppendSorted
  <2>7. ASSUME limits.block >= w
        PROVE  /\ Covers(Append(Within(a, w), 0), Append(l, 0), w)
               /\ Len(Within(Append(l, 0), w)) <= limits.max
    <3>1. Covers(a, l, w)
      BY <1>2, <2>3, <2>7, UnblockedCovers
    <3>2. Covers(Within(a, w), l, w)
      BY <2>2, <2>4, <3>1, CleaningCovers
    <3>3. Len(Within(l, w)) <= Len(Within(a, w))
      BY <2>2, <2>4, <3>1, CoversCount
    <3>4. PICK d \in 0..Len(l) :
            /\ Len(Within(l, w)) = Len(l) - d
            /\ \A i \in 1..Len(l) : l[i] >= w <=> i <= d
      BY <2>2, <2>4, SortedCut
    <3>5. /\ Append(l, 0) \in Seq(Ages) /\ Len(Append(l, 0)) = Len(l) + 1
          /\ Len(l) \in Nat
          /\ \A i \in 1..Len(l) : Append(l, 0)[i] = l[i]
      BY <2>2, LimitsTyped
    <3>6. Len(Within(Append(l, 0), w)) <= Len(Append(l, 0)) - d
      <4>1. d \in 0..Len(Append(l, 0)) /\ \A i \in 1..d : Append(l, 0)[i] >= w
        BY <3>4, <3>5
      <4> QED
        BY <2>2, <3>5, <4>1, OldAreCut
    <3>7. Within(Append(l, 0), w) \in Seq(Ages)
      BY <2>2, <3>5, WithinShrinks
    <3>8. Len(Within(Append(l, 0), w)) <= limits.max
      BY <2>2, <3>3, <3>4, <3>5, <3>6, <3>7
    <3> QED
      BY <2>2, <3>2, <3>8, AppendCovers
  <2> HIDE DEF a, l
  <2> QED
    BY <1>2, <2>1, <2>6, <2>7 DEF AddressInv
<1>4. CASE x # ip /\ x \in gone
  <2>1. attempts'[x] = <<>> /\ log'[x] = <<>>
    BY <1>1, <1>4 DEF Rewrite
  <2> QED
    BY <2>1, EmptyIsFine, ForgivenIsFine
<1>5. CASE x # ip /\ x \notin gone
  <2>1. attempts'[x] = attempts[x] /\ log'[x] = log[x] /\ blocked'[x] = blocked[x]
    BY <1>1, <1>2, <1>5 DEF Rewrite, TypeOK
  <2> QED
    BY <1>2, <2>1, AddressAlone DEF RateInv
<1> QED
  BY <1>3, <1>4, <1>5

LEMMA CleanupKeepsRate ==
  ASSUME TypeOK, TypeOK', RateInv, Cleanup
  PROVE  RateInv'
<1> SUFFICES ASSUME NEW ip \in Ips PROVE AddressInv(ip)'
  BY DEF RateInv
<1> DEFINE a == attempts[ip]
           l == log[ip]
           w == limits.window
<1>1. /\ UNCHANGED <<limits, log>> /\ attempts'[ip] = Within(a, w)
      /\ blocked'[ip] = IF blocked[ip] = Past THEN Never ELSE blocked[ip]
  BY DEF Cleanup, Recent, settings, ghosts
<1>2. /\ a \in Seq(Ages) /\ l \in Seq(Ages) /\ w \in Int /\ limits.max \in Nat
  BY LimitsTyped DEF TypeOK
<1>3. AddressInv(ip)
  BY DEF RateInv
<1>4. Sorted(a) /\ Sorted(l)
  BY <1>3 DEF AddressInv
<1>5. Sorted(Within(a, w))
  <2>1. Covers(a, <<>>, w) /\ <<>> \in Seq(Ages)
    BY <1>2, EmptyIsFine
  <2> QED
    BY <1>2, <1>4, <2>1, CleaningCovers
<1>6. ASSUME limits.block >= w, blocked'[ip] = Never
      PROVE  Covers(Within(a, w), l, w)
  <2>1. blocked[ip] <= 0
    BY <1>1, <1>6 DEF Never, Past
  <2>2. Covers(a, l, w)
    BY <1>3, <1>6, <2>1, UnblockedCovers
  <2> QED
    BY <1>2, <1>4, <2>2, CleaningCovers
<1>7. blocked'[ip] # Never => blocked'[ip] = blocked[ip]
  BY <1>1
<1>8. l = log'[ip] /\ w = limits'.window
  BY <1>1
<1> QED
  BY <1>1, <1>3, <1>4, <1>5, <1>6, <1>7, <1>8 DEF AddressInv

LEMMA TickKeepsRate ==
  ASSUME TypeOK, TypeOK', RateInv, Tick
  PROVE  RateInv'
<1> SUFFICES ASSUME NEW ip \in Ips PROVE AddressInv(ip)'
  BY DEF RateInv
<1> DEFINE a == attempts[ip]
           l == log[ip]
           w == limits.window
           m == Within(Aged(l), Horizon)
<1>1. /\ UNCHANGED limits /\ attempts'[ip] = Aged(a) /\ log'[ip] = m
      /\ blocked'[ip] = IF blocked[ip] > Past THEN blocked[ip] - 1 ELSE blocked[ip]
  BY DEF Tick, settings
<1>2. /\ a \in Seq(Ages) /\ l \in Seq(Ages) /\ w \in Nat /\ w < Horizon /\ w \in Int
      /\ limits.max \in Nat /\ limits.block \in Int /\ blocked[ip] \in Int
      /\ Horizon \in Int
  <2>1. limits \in Limits /\ Horizon \in Nat
    BY LimitsAssumption DEF TypeOK
  <2>2. limits.window \in 0..(Horizon - 1)
    BY <2>1, LimitsAssumption
  <2>3. w \in Nat /\ w < Horizon /\ w \in Int /\ Horizon \in Int
    BY <2>1, <2>2
  <2> QED
    BY <2>3, LimitsTyped, BlocksTyped DEF TypeOK
<1>3. AddressInv(ip)
  BY DEF RateInv
<1>4. Sorted(a) /\ Sorted(l)
  BY <1>3 DEF AddressInv
<1>5. Covers(l, l, w) /\ Covers(a, a, w)
  <2>1. ASSUME NEW s \in Seq(Ages) PROVE Covers(s, s, w)
    <3> SUFFICES ASSUME NEW k \in Nat, k < Len(s) PROVE s[Len(s) - k] <= s[Len(s) - k]
      BY DEF Covers
    <3>1. Len(s) - k \in 1..Len(s)
      OBVIOUS
    <3>2. s[Len(s) - k] \in Int
      BY <3>1, LimitsAssumption DEF Ages
    <3> QED
      BY <3>2
  <2> QED
    BY <1>2, <2>1
<1>6. Sorted(m) /\ Len(Within(m, w)) <= Len(Within(l, w))
  BY <1>2, <1>4, <1>5, AgingCovers
<1>7. Sorted(Aged(a))
  BY <1>2, <1>4, <1>5, AgingCovers
<1>8. limits.block >= w => Len(Within(m, w)) <= limits.max
  <2>1. m \in Seq(Ages)
    BY <1>2, AgedAges, WithinShrinks
  <2>2. Within(l, w) \in Seq(Ages) /\ Within(m, w) \in Seq(Ages)
    BY <1>2, <2>1, WithinShrinks
  <2>3. limits.block >= w => Len(Within(l, w)) <= limits.max
    BY <1>3 DEF AddressInv
  <2> QED
    BY <1>2, <1>6, <2>2, <2>3
<1>9. ASSUME limits.block >= w, blocked'[ip] = Never PROVE Covers(Aged(a), m, w)
  <2>1. blocked[ip] = Never
    BY <1>1, <1>2, <1>9 DEF Never, Past
  <2>2. Covers(a, l, w)
    BY <1>3, <1>9, <2>1 DEF AddressInv
  <2> QED
    BY <1>2, <1>4, <2>2, AgingCovers
<1>10. ASSUME limits.block >= w, blocked'[ip] # Never, NEW i \in 1..Len(m)
       PROVE  m[i] >= w \/ m[i] + blocked'[ip] >= limits.block
  <2>1. /\ Aged(l) \in Seq(Ages) /\ Len(Aged(l)) = Len(l) /\ Len(l) \in Nat
        /\ \A j \in 1..Len(l) : Aged(l)[j] = Older(l[j])
    BY <1>2, AgedAges
  <2>2. PICK c \in 0..Len(Aged(l)) :
          /\ Len(m) = Len(Aged(l)) - c
          /\ \A j \in 1..(Len(Aged(l)) - c) : m[j] = Aged(l)[j + c]
    BY <1>2, <2>1, WithinCuts
  <2> HIDE DEF m
  <2>3. i + c \in 1..Len(l) /\ m[i] = Older(l[i + c]) /\ l[i + c] \in Ages
    <3>1. i + c \in 1..Len(l) /\ i \in 1..(Len(Aged(l)) - c)
      BY <2>1, <2>2
    <3>2. m[i] = Aged(l)[i + c] /\ Aged(l)[i + c] = Older(l[i + c])
      BY <2>1, <2>2, <3>1
    <3> QED
      BY <1>2, <3>1, <3>2
  <2>4. Ages \subseteq Int
    BY LimitsAssumption DEF Ages
  <2>5. /\ l[i + c] \in Int /\ m[i] \in Int /\ m[i] >= l[i + c]
        /\ l[i + c] < Horizon => m[i] = l[i + c] + 1
    BY <2>3, <2>4, OlderGrows
  <2>6. blocked[ip] # Never /\ blocked'[ip] >= blocked[ip] - 1 /\ blocked'[ip] \in Int
    BY <1>1, <1>2, <1>10 DEF Never, Past
  <2>7. l[i + c] >= w \/ l[i + c] + blocked[ip] >= limits.block
    BY <1>3, <1>10, <2>3, <2>6 DEF AddressInv
  <2> HIDE DEF l, w
  <2>8. CASE l[i + c] >= w
    <3>1. m[i] >= w
      BY <1>2, <2>5, <2>8
    <3> QED
      BY <3>1
  <2>9. CASE ~(l[i + c] >= w)
    <3>1. m[i] = l[i + c] + 1
      BY <1>2, <2>5, <2>9
    <3>2. l[i + c] + blocked[ip] >= limits.block
      BY <2>7, <2>9
    <3>3. \A x, y, u, v, k \in Int : x = y + 1 /\ v >= u - 1 /\ y + u >= k => x + v >= k
      OBVIOUS
    <3>4. /\ m[i] \in Int /\ l[i + c] \in Int /\ blocked[ip] \in Int
          /\ blocked'[ip] \in Int /\ limits.block \in Int
      BY <1>2, <2>5, <2>6
    <3>5. blocked'[ip] >= blocked[ip] - 1
      BY <2>6
    <3> QED
      BY <3>1, <3>2, <3>3, <3>4, <3>5
  <2> QED
    BY <2>8, <2>9
<1> HIDE DEF a, m
<1> QED
  BY <1>1, <1>6, <1>7, <1>8, <1>9, <1>10 DEF AddressInv

LEMMA RateStep == TypeOK /\ TypeOK' /\ RateInv /\ [Next]_vars => RateInv'
<1> SUFFICES ASSUME TypeOK, TypeOK', RateInv, [Next]_vars PROVE RateInv'
  OBVIOUS
<1> USE DEF settings, table, global, ghosts
<1>1. ASSUME UNCHANGED <<limits, attempts, blocked, log>> PROVE RateInv'
  BY <1>1 DEF RateInv, AddressInv
<1>2. ASSUME NEW ip \in Ips,
             Enter(ip) \/ RefuseAll(ip) \/ PassTrusted(ip) \/ StillBlocked(ip)
      PROVE  RateInv'
  BY <1>1, <1>2 DEF Enter, RefuseAll, PassTrusted, StillBlocked
<1>3. ASSUME NEW ip \in Ips, Block(ip) PROVE RateInv'
  BY <1>3, BlockKeepsRate
<1>4. ASSUME NEW ip \in Ips, Record(ip) PROVE RateInv'
  BY <1>4, RecordKeepsRate
<1>5. ASSUME NEW l \in Limits, SetLimits(l) PROVE RateInv'
  <2>1. ASSUME NEW ip \in Ips PROVE AddressInv(ip)'
    <3>1. attempts'[ip] = attempts[ip] /\ log'[ip] = <<>> /\ Sorted(attempts[ip])
      BY <1>5 DEF SetLimits, RateInv, AddressInv
    <3> QED
      BY <3>1, ForgivenIsFine
  <2> QED
    BY <2>1 DEF RateInv
<1>6. ASSUME NEW nets \in TrustedSets, SetTrustedProxies(nets) PROVE RateInv'
  BY <1>1, <1>6 DEF SetTrustedProxies
<1>7. CASE Cleanup
  BY <1>7, CleanupKeepsRate
<1>8. CASE Tick
  BY <1>8, TickKeepsRate
<1>9. CASE StopLimiter \/ UNCHANGED vars
  BY <1>1, <1>9 DEF StopLimiter, vars
<1> QED
  BY <1>2, <1>3, <1>4, <1>5, <1>6, <1>7, <1>8, <1>9 DEF Next, Allow

(* While a block lasts at least a window, no more than maxAttempts          *)
(* connections of an address pass in any window (README.md:582), however    *)
(* reloads, cleanups and other addresses come between them.                 *)
THEOREM AddressesAreLimited == Spec => []AddressWithinLimit
<1>1. RateInv => AddressWithinLimit
  BY DEF RateInv, AddressInv, AddressWithinLimit
<1> QED
  BY <1>1, RateInit, RateStep, LimiterTypeCorrect, PTL DEF Spec
=============================================================================
