-------------------------- MODULE AdmissionProofs --------------------------
(***************************************************************************)
(* The bookkeeping of module Admission, proved for every set of callers,   *)
(* every sequence of configurations and every interleaving.  TypeOK and    *)
(* BooksBalance are inductive together: a counter stays a natural number   *)
(* only because it counts something.                                       *)
(***************************************************************************)
EXTENDS Admission, FiniteSetTheorems, TLAPS

(* The connections of S whose stage, according to f, is in P. *)
In(S, f, P) == {d \in S : f[d] \in P}

(* How the number of connections in the stages P changes when one           *)
(* connection c moves: f before, g after.                                   *)
Moved(S, P, f, g, c) ==
  /\ Cardinality(In(S, f, P)) \in Nat
  /\ (c \notin S \/ (f[c] \in P <=> g[c] \in P)) => In(S, g, P) = In(S, f, P)
  /\ (c \in S /\ f[c] \notin P /\ g[c] \in P)
       => Cardinality(In(S, g, P)) = Cardinality(In(S, f, P)) + 1
  /\ (c \in S /\ f[c] \in P /\ g[c] \notin P)
       => /\ Cardinality(In(S, g, P)) = Cardinality(In(S, f, P)) - 1
          /\ Cardinality(In(S, f, P)) > 0

(* That much is true of every two such stages, however many callers there are. *)
LEMMA CountMoved ==
  ASSUME NEW S \in SUBSET Conns, NEW P, NEW f \in [Conns -> Stages],
         NEW g \in [Conns -> Stages], NEW c \in Conns,
         \A d \in Conns \ {c} : g[d] = f[d]
  PROVE  Moved(S, P, f, g, c)
<1> DEFINE A == In(S, f, P)
           B == In(S, g, P)
<1>1. IsFiniteSet(A) /\ Cardinality(A) \in Nat
  <2>1. A \in SUBSET Conns
    BY DEF In
  <2>2. IsFiniteSet(A)
    BY <2>1, ConnsAssumption, FS_Subset
  <2> QED
    BY <2>2, FS_CardinalityType
<1>2. ASSUME c \notin S \/ (f[c] \in P <=> g[c] \in P)  PROVE B = A
  BY <1>2 DEF In
<1>3. ASSUME c \in S, f[c] \notin P, g[c] \in P  PROVE Cardinality(B) = Cardinality(A) + 1
  <2>1. B = A \union {c} /\ c \notin A
    BY <1>3 DEF In
  <2> QED
    BY <2>1, <1>1, FS_AddElement
<1>4. ASSUME c \in S, f[c] \in P, g[c] \notin P
      PROVE  Cardinality(B) = Cardinality(A) - 1 /\ Cardinality(A) > 0
  <2>1. B = A \ {c} /\ c \in A
    BY <1>4 DEF In
  <2>2. Cardinality(A \ {c}) = IF c \in A THEN Cardinality(A) - 1 ELSE Cardinality(A)
    BY <1>1, FS_RemoveElement
  <2>3. Cardinality(A) # 0
    BY <2>1, <1>1, FS_EmptySet
  <2> HIDE DEF A, B
  <2> QED
    BY <2>1, <2>2, <2>3, <1>1
<1> QED
  BY <1>1, <1>2, <1>3, <1>4 DEF Moved

(* The three sets that the counters count, in that form. *)
Of(h) == {d \in Conns : HostOf[d] = h}

LEMMA CountedSets ==
  /\ Holding = In(Conns, at, HoldingStages) /\ Holding' = In(Conns, at', HoldingStages)
  /\ Running = In(Conns, at, {"running"}) /\ Running' = In(Conns, at', {"running"})
  /\ \A h \in Hosts : /\ HoldingFrom(h) = In(Of(h), at, HoldingStages)
                      /\ HoldingFrom(h)' = In(Of(h), at', HoldingStages)
BY DEF Holding, HoldingFrom, Running, In, Of

(* How they change when one connection moves to the stage to. *)
LEMMA BooksMoved ==
  ASSUME TypeOK, NEW c \in Conns, NEW to \in Stages, at' = [at EXCEPT ![c] = to]
  PROVE  /\ Cardinality(Holding) \in Nat /\ Cardinality(Running) \in Nat
         /\ \A h \in Hosts : Cardinality(HoldingFrom(h)) \in Nat
         /\ (at[c] \in HoldingStages <=> to \in HoldingStages)
              => Holding' = Holding /\ \A h \in Hosts : HoldingFrom(h)' = HoldingFrom(h)
         /\ (at[c] \notin HoldingStages /\ to \in HoldingStages)
              => /\ Cardinality(Holding') = Cardinality(Holding) + 1
                 /\ \A h \in Hosts : Cardinality(HoldingFrom(h)') =
                      Cardinality(HoldingFrom(h)) + (IF h = HostOf[c] THEN 1 ELSE 0)
         /\ (at[c] \in HoldingStages /\ to \notin HoldingStages)
              => /\ Cardinality(Holding') = Cardinality(Holding) - 1
                 /\ Cardinality(Holding) > 0 /\ Cardinality(HoldingFrom(HostOf[c])) > 0
                 /\ \A h \in Hosts : Cardinality(HoldingFrom(h)') =
                      Cardinality(HoldingFrom(h)) - (IF h = HostOf[c] THEN 1 ELSE 0)
         /\ (at[c] = "running" <=> to = "running") => Running' = Running
         /\ (at[c] # "running" /\ to = "running")
              => Cardinality(Running') = Cardinality(Running) + 1
         /\ (at[c] = "running" /\ to # "running")
              => /\ Cardinality(Running') = Cardinality(Running) - 1
                 /\ Cardinality(Running) > 0
<1>1. /\ at \in [Conns -> Stages] /\ at' \in [Conns -> Stages]
      /\ at'[c] = to /\ \A d \in Conns \ {c} : at'[d] = at[d]
  BY DEF TypeOK
<1>2. ASSUME NEW S \in SUBSET Conns, NEW P
      PROVE  /\ Cardinality(In(S, at, P)) \in Nat
             /\ (c \notin S \/ (at[c] \in P <=> to \in P)) => In(S, at', P) = In(S, at, P)
             /\ (c \in S /\ at[c] \notin P /\ to \in P)
                  => Cardinality(In(S, at', P)) = Cardinality(In(S, at, P)) + 1
             /\ (c \in S /\ at[c] \in P /\ to \notin P)
                  => /\ Cardinality(In(S, at', P)) = Cardinality(In(S, at, P)) - 1
                     /\ Cardinality(In(S, at, P)) > 0
  <2>1. /\ at \in [Conns -> Stages] /\ at' \in [Conns -> Stages]
        /\ \A d \in Conns \ {c} : at'[d] = at[d]
    BY <1>1
  <2>2. Moved(S, P, at, at', c)
    BY <2>1, CountMoved
  <2>3. at'[c] = to
    BY <1>1
  <2> QED
    BY <2>2, <2>3 DEF Moved
<1>3. \A h \in Hosts : Of(h) \in SUBSET Conns /\ (c \in Of(h) <=> h = HostOf[c])
  BY DEF Of
<1>4. HostOf[c] \in Hosts
  BY ConnsAssumption
<1>5. /\ Cardinality(Holding) \in Nat
      /\ (at[c] \in HoldingStages <=> to \in HoldingStages) => Holding' = Holding
      /\ (at[c] \notin HoldingStages /\ to \in HoldingStages)
           => Cardinality(Holding') = Cardinality(Holding) + 1
      /\ (at[c] \in HoldingStages /\ to \notin HoldingStages)
           => Cardinality(Holding') = Cardinality(Holding) - 1 /\ Cardinality(Holding) > 0
  BY <1>2, CountedSets
<1>6. /\ Cardinality(Running) \in Nat
      /\ (at[c] = "running" <=> to = "running") => Running' = Running
      /\ (at[c] # "running" /\ to = "running")
           => Cardinality(Running') = Cardinality(Running) + 1
      /\ (at[c] = "running" /\ to # "running")
           => Cardinality(Running') = Cardinality(Running) - 1 /\ Cardinality(Running) > 0
  BY <1>2, CountedSets
<1>7. ASSUME NEW h \in Hosts
      PROVE  /\ Cardinality(HoldingFrom(h)) \in Nat
             /\ (at[c] \in HoldingStages <=> to \in HoldingStages)
                  => HoldingFrom(h)' = HoldingFrom(h)
             /\ (at[c] \notin HoldingStages /\ to \in HoldingStages)
                  => Cardinality(HoldingFrom(h)') =
                       Cardinality(HoldingFrom(h)) + (IF h = HostOf[c] THEN 1 ELSE 0)
             /\ (at[c] \in HoldingStages /\ to \notin HoldingStages)
                  => /\ Cardinality(HoldingFrom(h)') =
                          Cardinality(HoldingFrom(h)) - (IF h = HostOf[c] THEN 1 ELSE 0)
                     /\ h = HostOf[c] => Cardinality(HoldingFrom(h)) > 0
  <2>1. Of(h) \in SUBSET Conns /\ (c \in Of(h) <=> h = HostOf[c])
    BY <1>3
  <2>2. /\ HoldingFrom(h) = In(Of(h), at, HoldingStages)
        /\ HoldingFrom(h)' = In(Of(h), at', HoldingStages)
    BY CountedSets
  <2>3. /\ Cardinality(HoldingFrom(h)) \in Nat
        /\ (h # HostOf[c] \/ (at[c] \in HoldingStages <=> to \in HoldingStages))
             => HoldingFrom(h)' = HoldingFrom(h)
        /\ (h = HostOf[c] /\ at[c] \notin HoldingStages /\ to \in HoldingStages)
             => Cardinality(HoldingFrom(h)') = Cardinality(HoldingFrom(h)) + 1
        /\ (h = HostOf[c] /\ at[c] \in HoldingStages /\ to \notin HoldingStages)
             => /\ Cardinality(HoldingFrom(h)') = Cardinality(HoldingFrom(h)) - 1
                /\ Cardinality(HoldingFrom(h)) > 0
    BY <1>2, <2>1, <2>2
  <2> QED
    BY <2>3
<1> QED
  BY <1>4, <1>5, <1>6, <1>7

-----------------------------------------------------------------------------
(* A move between stages that count alike leaves the books balanced. *)
LEMMA BooksKept ==
  ASSUME TypeOK, BooksBalance, NEW c \in Conns, NEW to \in Stages,
         at' = [at EXCEPT ![c] = to], UNCHANGED <<countVars, active>>,
         at[c] \in HoldingStages <=> to \in HoldingStages,
         at[c] = "running" <=> to = "running"
  PROVE  BooksBalance'
<1>1. Holding' = Holding /\ Running' = Running
      /\ \A h \in Hosts : HoldingFrom(h)' = HoldingFrom(h)
  BY BooksMoved
<1> QED
  BY <1>1 DEF BooksBalance, countVars

(* So does a step that moves no connection and touches no counter. *)
LEMMA BooksUntouched ==
  ASSUME BooksBalance, UNCHANGED <<countVars, at, active>>
  PROVE  BooksBalance'
BY DEF BooksBalance, countVars, Holding, HoldingFrom, Running

LEMMA BooksInit == Init => TypeOK /\ BooksBalance
<1> SUFFICES ASSUME Init PROVE TypeOK /\ BooksBalance
  OBVIOUS
<1>1. TypeOK
  BY ConfigAssumption DEF Init, TypeOK, Stages
<1>2. Holding = {} /\ Running = {} /\ \A h \in Hosts : HoldingFrom(h) = {}
  BY DEF Init, Holding, HoldingFrom, Running, HoldingStages
<1>3. BooksBalance
  BY <1>2, FS_EmptySet DEF Init, BooksBalance
<1> QED
  BY <1>1, <1>3

LEMMA BooksStep == TypeOK /\ BooksBalance /\ [Next]_vars => (TypeOK /\ BooksBalance)'
<1> SUFFICES ASSUME TypeOK, BooksBalance, [Next]_vars PROVE (TypeOK /\ BooksBalance)'
  OBVIOUS
<1> USE DEF confVars, countVars, connVars, srvVars, stopVars
<1>1. ASSUME NEW c \in Conns, Accept(c) PROVE (TypeOK /\ BooksBalance)'
  <2>1. TypeOK'
    BY <1>1 DEF Accept, Move, TypeOK, Stages
  <2>2. /\ "new" \in Stages /\ "throttled" \in Stages
        /\ "new" \in HoldingStages <=> "throttled" \in HoldingStages
    BY DEF Stages, HoldingStages
  <2> QED
    BY <1>1, <2>1, <2>2, BooksKept DEF Accept, Move
<1>2. ASSUME NEW c \in Conns, Throttle(c) PROVE (TypeOK /\ BooksBalance)'
  <2>1. TypeOK'
    BY <1>2 DEF Throttle, Move, TypeOK, Stages
  <2>2. /\ "throttled" \in Stages /\ "allow" \in Stages
        /\ "throttled" \in HoldingStages <=> "allow" \in HoldingStages
    BY DEF Stages, HoldingStages
  <2> QED
    BY <1>2, <2>1, <2>2, BooksKept DEF Throttle, Move
<1>3. ASSUME NEW c \in Conns, ThrottleCancelled(c) PROVE (TypeOK /\ BooksBalance)'
  <2>1. TypeOK'
    BY <1>3 DEF ThrottleCancelled, Move, TypeOK, Stages
  <2>2. /\ "throttled" \in Stages /\ "rejected" \in Stages
        /\ "throttled" \in HoldingStages <=> "rejected" \in HoldingStages
    BY DEF Stages, HoldingStages
  <2> QED
    BY <1>3, <2>1, <2>2, BooksKept DEF ThrottleCancelled, Move
<1>4. ASSUME NEW c \in Conns, Allow(c) PROVE (TypeOK /\ BooksBalance)'
  <2>1. TypeOK'
    BY <1>4 DEF Allow, Move, TypeOK, Stages
  <2>2. /\ "allow" \in Stages /\ "add" \in Stages
        /\ "allow" \in HoldingStages <=> "add" \in HoldingStages
    BY DEF Stages, HoldingStages
  <2> QED
    BY <1>4, <2>1, <2>2, BooksKept DEF Allow, Move
<1>5. ASSUME NEW c \in Conns, RateLimited(c) PROVE (TypeOK /\ BooksBalance)'
  <2>1. TypeOK'
    BY <1>5 DEF RateLimited, Move, TypeOK, Stages
  <2>2. /\ "allow" \in Stages /\ "rejected" \in Stages
        /\ "allow" \in HoldingStages <=> "rejected" \in HoldingStages
    BY DEF Stages, HoldingStages
  <2> QED
    BY <1>5, <2>1, <2>2, BooksKept DEF RateLimited, Move
<1>6. ASSUME NEW c \in Conns, LimitExceeded(c) PROVE (TypeOK /\ BooksBalance)'
  <2>1. TypeOK'
    BY <1>6 DEF LimitExceeded, Move, TypeOK, Stages
  <2>2. /\ "add" \in Stages /\ "rejected" \in Stages
        /\ "add" \in HoldingStages <=> "rejected" \in HoldingStages
    BY DEF Stages, HoldingStages
  <2> QED
    BY <1>6, <2>1, <2>2, BooksKept DEF LimitExceeded, Move
<1>7. ASSUME NEW c \in Conns, NewSession(c) PROVE (TypeOK /\ BooksBalance)'
  <2>1. TypeOK'
    BY <1>7 DEF NewSession, Move, TypeOK, Stages
  <2>2. /\ "build" \in Stages /\ "register" \in Stages
        /\ "build" \in HoldingStages <=> "register" \in HoldingStages
    BY DEF Stages, HoldingStages
  <2> QED
    BY <1>7, <2>1, <2>2, BooksKept DEF NewSession, Move
<1>8. ASSUME NEW c \in Conns, Register(c) PROVE (TypeOK /\ BooksBalance)'
  <2>1. TypeOK'
    BY <1>8 DEF Register, Move, TypeOK, Stages
  <2>2. /\ "register" \in Stages /\ "start" \in Stages
        /\ "register" \in HoldingStages <=> "start" \in HoldingStages
    BY DEF Stages, HoldingStages
  <2> QED
    BY <1>8, <2>1, <2>2, BooksKept DEF Register, Move
<1>9. ASSUME NEW c \in Conns, Unregister(c) PROVE (TypeOK /\ BooksBalance)'
  <2>1. TypeOK'
    BY <1>9 DEF Unregister, Move, TypeOK, Stages
  <2>2. /\ "ended" \in Stages /\ "unregistered" \in Stages
        /\ "ended" \in HoldingStages <=> "unregistered" \in HoldingStages
    BY DEF Stages, HoldingStages
  <2> QED
    BY <1>9, <2>1, <2>2, BooksKept DEF Unregister, Move
<1>10. ASSUME NEW c \in Conns, Add(c) PROVE (TypeOK /\ BooksBalance)'
  <2>0. conns' \in [Hosts -> Nat]
    <3>1. HostOf[c] \in Hosts /\ conns \in [Hosts -> Nat]
      BY ConnsAssumption DEF TypeOK
    <3>2. conns' = [conns EXCEPT ![HostOf[c]] = @ + 1]
      BY <1>10 DEF Add
    <3> QED
      BY <3>1, <3>2
  <2>1. TypeOK'
    BY <1>10, <2>0 DEF Add, Move, TypeOK, Stages
  <2>2. "build" \in Stages /\ "add" \notin HoldingStages /\ "build" \in HoldingStages
    BY DEF Stages, HoldingStages
  <2>3. /\ Cardinality(Holding') = Cardinality(Holding) + 1
        /\ Running' = Running
        /\ \A h \in Hosts : Cardinality(HoldingFrom(h)') =
             Cardinality(HoldingFrom(h)) + (IF h = HostOf[c] THEN 1 ELSE 0)
    BY <1>10, <2>2, BooksMoved DEF Add, Move
  <2>4. \A h \in Hosts : conns'[h] = conns[h] + (IF h = HostOf[c] THEN 1 ELSE 0)
    BY <1>10 DEF Add, TypeOK
  <2>5. active' = active /\ total' = total + 1
    BY <1>10 DEF Add
  <2>6. total' = Cardinality(Holding') /\ active' = Cardinality(Running')
    BY <2>3, <2>5 DEF BooksBalance
  <2>7. \A h \in Hosts : conns'[h] = Cardinality(HoldingFrom(h)')
    BY <2>3, <2>4 DEF BooksBalance
  <2> QED
    BY <2>1, <2>6, <2>7 DEF BooksBalance
<1>11. ASSUME NEW c \in Conns, SessionStarts(c) PROVE (TypeOK /\ BooksBalance)'
  <2>1. TypeOK'
    BY <1>11 DEF SessionStarts, Move, TypeOK, Stages
  <2>2. "running" \in Stages /\ "start" \in HoldingStages /\ "running" \in HoldingStages
    BY DEF Stages, HoldingStages
  <2>3. /\ Holding' = Holding /\ \A h \in Hosts : HoldingFrom(h)' = HoldingFrom(h)
        /\ Cardinality(Running') = Cardinality(Running) + 1
    BY <1>11, <2>2, BooksMoved DEF SessionStarts, Move
  <2> QED
    BY <1>11, <2>1, <2>3 DEF BooksBalance, SessionStarts
<1>12. ASSUME NEW c \in Conns, SessionEnds(c) PROVE (TypeOK /\ BooksBalance)'
  <2>1. "ended" \in Stages /\ "running" \in HoldingStages /\ "ended" \in HoldingStages
    BY DEF Stages, HoldingStages
  <2>2. /\ Holding' = Holding /\ \A h \in Hosts : HoldingFrom(h)' = HoldingFrom(h)
        /\ Cardinality(Running') = Cardinality(Running) - 1
        /\ Cardinality(Running) > 0
    BY <1>12, <2>1, BooksMoved DEF SessionEnds, Move
  <2>3. active' \in Nat
    BY <1>12, <2>2 DEF BooksBalance, SessionEnds, TypeOK
  <2>4. TypeOK'
    BY <1>12, <2>3 DEF SessionEnds, Move, TypeOK, Stages
  <2> QED
    BY <1>12, <2>2, <2>4 DEF BooksBalance, SessionEnds
<1>13. ASSUME NEW c \in Conns, Remove(c) PROVE (TypeOK /\ BooksBalance)'
  <2>1. "finished" \in Stages /\ "unregistered" \in HoldingStages /\ "finished" \notin HoldingStages
    BY DEF Stages, HoldingStages
  <2>2. /\ Cardinality(Holding') = Cardinality(Holding) - 1
        /\ Cardinality(Holding) > 0 /\ Cardinality(HoldingFrom(HostOf[c])) > 0
        /\ Running' = Running
        /\ \A h \in Hosts : Cardinality(HoldingFrom(h)') =
             Cardinality(HoldingFrom(h)) - (IF h = HostOf[c] THEN 1 ELSE 0)
    BY <1>13, <2>1, BooksMoved DEF Remove, Move
  <2>3. HostOf[c] \in Hosts /\ conns[HostOf[c]] > 0
    BY <2>2, ConnsAssumption DEF BooksBalance
  <2>4. /\ active' = active /\ total' = total - 1
        /\ conns' = [conns EXCEPT ![HostOf[c]] = @ - 1]
    BY <1>13, <2>3 DEF Remove
  <2>5. \A h \in Hosts : conns'[h] = conns[h] - (IF h = HostOf[c] THEN 1 ELSE 0)
    BY <2>4 DEF TypeOK
  <2>6. total' = Cardinality(Holding') /\ active' = Cardinality(Running') /\ total' \in Nat
    BY <2>2, <2>4 DEF BooksBalance, TypeOK
  <2>7. \A h \in Hosts : conns'[h] = Cardinality(HoldingFrom(h)')
    BY <2>2, <2>5 DEF BooksBalance
  <2>8. conns' \in [Hosts -> Nat]
    BY <2>3, <2>4 DEF TypeOK
  <2>9. TypeOK'
    BY <1>13, <2>6, <2>8 DEF Remove, Move, TypeOK, Stages
  <2> QED
    BY <2>6, <2>7, <2>9 DEF BooksBalance
<1>14. CASE AcceptorReturns
  BY <1>14, BooksUntouched DEF AcceptorReturns, TypeOK
<1>15. CASE PushLimits
  BY <1>15, BooksUntouched DEF PushLimits, TypeOK
<1>16. CASE PushTrusted
  BY <1>16, BooksUntouched DEF PushTrusted, TypeOK
<1>17. CASE StoreConfig
  BY <1>17, BooksUntouched DEF StoreConfig, TypeOK
<1>18. CASE StopDone
  BY <1>18, BooksUntouched DEF StopDone, TypeOK
<1>19. CASE StopListener
  BY <1>19, BooksUntouched DEF StopListener, TypeOK
<1>20. CASE StopSweep
  BY <1>20, BooksUntouched DEF StopSweep, TypeOK
<1>21. CASE Quiet
  BY <1>21, BooksUntouched DEF Quiet, vars, TypeOK
<1>22. CASE UNCHANGED vars
  BY <1>22, BooksUntouched DEF vars, TypeOK
<1> QED
  BY <1>1, <1>2, <1>3, <1>4, <1>5, <1>6, <1>7, <1>8, <1>9, <1>10, <1>11, <1>12, <1>13, <1>14, <1>15, <1>16, <1>17, <1>18, <1>19, <1>20, <1>21, <1>22
     DEF Next, AcceptLoop, Handle, Reload, Stop

(* Types are respected: in particular no counter goes negative, however the *)
(* handlers interleave.                                                     *)
THEOREM TypeCorrect == Spec => []TypeOK
<1>1. TypeOK /\ BooksBalance /\ [Next]_vars => (TypeOK /\ BooksBalance)'
  BY BooksStep
<1> QED
  BY BooksInit, <1>1, PTL DEF Spec

(* The tracker and the session gauge count exactly what they should. *)
THEOREM BooksBalanced == Spec => []BooksBalance
<1>1. TypeOK /\ BooksBalance /\ [Next]_vars => (TypeOK /\ BooksBalance)'
  BY BooksStep
<1> QED
  BY BooksInit, <1>1, PTL DEF Spec

-----------------------------------------------------------------------------
(* Where a reload stands says how far the tracker is ahead of the pointer. *)
ReloadInv ==
  /\ reload = "idle"  => limits = config /\ trust = config
  /\ reload = "trust" => limits = config + 1 /\ trust = config
  /\ reload = "store" => limits = config + 1 /\ trust = config + 1

LEMMA ReloadInit == Init => ReloadInv
BY DEF Init, ReloadInv

LEMMA ReloadStep == TypeOK /\ ReloadInv /\ [Next]_vars => ReloadInv'
<1> SUFFICES ASSUME TypeOK, ReloadInv, [Next]_vars PROVE ReloadInv'
  OBVIOUS
<1>1. CASE UNCHANGED confVars
  BY <1>1 DEF ReloadInv, confVars
<1>2. CASE PushLimits
  BY <1>2 DEF ReloadInv, PushLimits
<1>3. CASE PushTrusted
  BY <1>3 DEF ReloadInv, PushTrusted
<1>4. CASE StoreConfig
  BY <1>4 DEF ReloadInv, StoreConfig
<1> QED
  BY <1>1, <1>2, <1>3, <1>4
     DEF Next, AcceptLoop, Handle, Reload, Stop, Quiet, vars, Accept, Throttle,
         ThrottleCancelled, AcceptorReturns, Allow, RateLimited, Add, LimitExceeded,
         NewSession, Register, SessionStarts, SessionEnds, Unregister, Remove,
         StopDone, StopListener, StopSweep

(* A caller cannot read a configuration whose ceilings are not in force yet. *)
THEOREM ReloadOrdered == Spec => []ReloadOrder
<1>1. TypeOK /\ BooksBalance /\ [Next]_vars => (TypeOK /\ BooksBalance)'
  BY BooksStep
<1>2. TypeOK /\ ReloadInv /\ [Next]_vars => ReloadInv'
  BY ReloadStep
<1>3. TypeOK /\ ReloadInv => ReloadOrder
  <2> SUFFICES ASSUME TypeOK, ReloadInv PROVE ReloadOrder
    OBVIOUS
  <2>1. config \in Nat /\ reload \in {"idle", "trust", "store"}
    BY ConfigAssumption DEF TypeOK
  <2> QED
    BY <2>1 DEF ReloadInv, ReloadOrder
<1> QED
  BY BooksInit, ReloadInit, <1>1, <1>2, <1>3, PTL DEF Spec

-----------------------------------------------------------------------------
(* Limits and trusted lists only ever move forward. *)
LEMMA Forward == TypeOK /\ ReloadInv /\ [Next]_vars => limits <= limits' /\ trust <= trust'
<1> SUFFICES ASSUME TypeOK, ReloadInv, [Next]_vars PROVE limits <= limits' /\ trust <= trust'
  OBVIOUS
<1>0. limits \in Nat /\ trust \in Nat /\ config \in Nat
  BY ConfigAssumption DEF TypeOK
<1>1. CASE UNCHANGED confVars
  BY <1>0, <1>1 DEF confVars
<1>2. CASE PushLimits
  BY <1>0, <1>2 DEF ReloadInv, PushLimits
<1>3. CASE PushTrusted
  BY <1>0, <1>3 DEF ReloadInv, PushTrusted
<1>4. CASE StoreConfig
  BY <1>0, <1>4 DEF StoreConfig
<1> QED
  BY <1>1, <1>2, <1>3, <1>4
     DEF Next, AcceptLoop, Handle, Reload, Stop, Quiet, vars, Accept, Throttle,
         ThrottleCancelled, AcceptorReturns, Allow, RateLimited, Add, LimitExceeded,
         NewSession, Register, SessionStarts, SessionEnds, Unregister, Remove,
         StopDone, StopListener, StopSweep

(* A step that admits nobody cannot break a ceiling. *)
CountersShrink == total' <= total /\ \A h \in Hosts : conns'[h] <= conns[h]

(* Every step either admits one caller for whom there was room, or counts   *)
(* nobody in.                                                               *)
LEMMA OnlyAddCounts ==
  TypeOK /\ [Next]_vars => CountersShrink \/ \E c \in Conns : Add(c)
<1> SUFFICES ASSUME TypeOK, [Next]_vars, ~ \E c \in Conns : Add(c) PROVE CountersShrink
  OBVIOUS
<1>1. CASE UNCHANGED countVars
  BY <1>1 DEF CountersShrink, countVars, TypeOK
<1>2. ASSUME NEW c \in Conns, Remove(c) PROVE CountersShrink
  BY <1>2, ConnsAssumption DEF Remove, CountersShrink, countVars, TypeOK
<1> QED
  BY <1>1, <1>2
     DEF Next, AcceptLoop, Handle, Reload, Stop, Quiet, vars, Accept, Throttle,
         ThrottleCancelled, AcceptorReturns, Allow, RateLimited, LimitExceeded,
         NewSession, Register, SessionStarts, SessionEnds, Unregister,
         PushLimits, PushTrusted, StoreConfig, StopDone, StopListener, StopSweep

(* CeilingsHold, in terms of the counters. *)
CountersBounded ==
  /\ \E v \in Versions : v <= limits /\ total <= MaxTotal[v]
  /\ \A h \in Hosts :
       \/ \E v \in Versions : v <= limits /\ conns[h] <= MaxPerIP[v]
       \/ \E v \in Versions : v <= trust /\ h \in Trusted[v]

LEMMA BoundsInit == Init => CountersBounded
BY ConfigAssumption DEF Init, CountersBounded

LEMMA BoundsStep ==
  TypeOK /\ ReloadInv /\ CountersBounded /\ [Next]_vars /\ TypeOK' => CountersBounded'
<1> SUFFICES ASSUME TypeOK, ReloadInv, CountersBounded, [Next]_vars, TypeOK'
             PROVE  CountersBounded'
  OBVIOUS
<1>1. limits <= limits' /\ trust <= trust'
  BY Forward
<1>2. limits \in Nat /\ limits' \in Nat /\ trust \in Nat /\ trust' \in Nat /\ Versions \subseteq Nat
  BY ConfigAssumption DEF TypeOK
<1>3. /\ total \in Nat /\ total' \in Nat /\ conns \in [Hosts -> Nat] /\ conns' \in [Hosts -> Nat]
      /\ MaxTotal \in [Versions -> Nat] /\ MaxPerIP \in [Versions -> Nat]
  BY ConfigAssumption DEF TypeOK
<1>4. CASE CountersShrink
  <2>1. PICK v \in Versions : v <= limits /\ total <= MaxTotal[v]
    BY DEF CountersBounded
  <2>2. v <= limits' /\ total' <= MaxTotal[v]
    BY <1>1, <1>2, <1>3, <1>4, <2>1 DEF CountersShrink
  <2>3. ASSUME NEW h \in Hosts
        PROVE  \/ \E w \in Versions : w <= limits' /\ conns'[h] <= MaxPerIP[w]
               \/ \E w \in Versions : w <= trust' /\ h \in Trusted[w]
    <3>1. ASSUME NEW w \in Versions, w <= limits, conns[h] <= MaxPerIP[w]
          PROVE  w <= limits' /\ conns'[h] <= MaxPerIP[w]
      BY <1>1, <1>2, <1>3, <1>4, <3>1 DEF CountersShrink
    <3>2. ASSUME NEW w \in Versions, w <= trust PROVE w <= trust'
      BY <1>1, <1>2, <3>2
    <3> QED
      BY <3>1, <3>2 DEF CountersBounded
  <2> QED
    BY <2>2, <2>3 DEF CountersBounded
<1>5. ASSUME NEW c \in Conns, Add(c) PROVE CountersBounded'
  <2>1. /\ total < MaxTotal[limits] /\ total' = total + 1
        /\ conns[HostOf[c]] < MaxPerIP[limits] \/ HostOf[c] \in Trusted[trust]
        /\ conns' = [conns EXCEPT ![HostOf[c]] = @ + 1]
        /\ limits' = limits /\ trust' = trust
    BY <1>5 DEF Add, HasRoom, confVars
  <2>2. limits \in Versions /\ trust \in Versions
    BY DEF TypeOK
  <2>3. limits <= limits' /\ total' <= MaxTotal[limits]
    BY <1>2, <1>3, <2>1, <2>2
  <2>4. ASSUME NEW h \in Hosts
        PROVE  \/ \E w \in Versions : w <= limits' /\ conns'[h] <= MaxPerIP[w]
               \/ \E w \in Versions : w <= trust' /\ h \in Trusted[w]
    <3>1. CASE h # HostOf[c]
      <4>1. conns'[h] = conns[h]
        BY <1>3, <2>1, <3>1
      <4> QED
        BY <2>1, <4>1 DEF CountersBounded
    <3>2. CASE h = HostOf[c] /\ h \in Trusted[trust]
      BY <1>2, <2>1, <2>2, <3>2
    <3>3. CASE h = HostOf[c] /\ conns[h] < MaxPerIP[limits]
      <4>1. conns'[h] = conns[h] + 1
        BY <1>3, <2>1, <3>3
      <4>2. MaxPerIP[limits] \in Nat /\ conns[h] \in Nat
        BY <1>3, <2>2
      <4>3. conns'[h] <= MaxPerIP[limits] /\ limits <= limits'
        BY <1>2, <2>1, <3>3, <4>1, <4>2
      <4> QED
        BY <2>2, <4>3
    <3> QED
      BY <2>1, <3>1, <3>2, <3>3
  <2> QED
    BY <2>2, <2>3, <2>4 DEF CountersBounded
<1> QED
  BY <1>4, <1>5, OnlyAddCounts

(* No ceiling that was ever in force is exceeded by the callers really held. *)
THEOREM CeilingsRespected == Spec => []CeilingsHold
<1>1. TypeOK /\ BooksBalance /\ [Next]_vars => (TypeOK /\ BooksBalance)'
  BY BooksStep
<1>2. TypeOK /\ ReloadInv /\ [Next]_vars => ReloadInv'
  BY ReloadStep
<1>3. TypeOK /\ ReloadInv /\ CountersBounded /\ [Next]_vars /\ TypeOK' => CountersBounded'
  BY BoundsStep
<1>4. BooksBalance /\ CountersBounded => CeilingsHold
  BY DEF BooksBalance, CountersBounded, CeilingsHold
<1> QED
  BY BooksInit, ReloadInit, BoundsInit, <1>1, <1>2, <1>3, <1>4, PTL DEF Spec

-----------------------------------------------------------------------------
(* The part that makes SessionsReachable inductive: only a connection that  *)
(* was registered is ever closed, and only Stop's one sweep closes.         *)
ReachInv ==
  /\ SessionsReachable
  /\ closed # {} => stop = "swept"
  /\ \A c \in closed : at[c] \notin {"new", "throttled", "allow", "add", "build", "register"}

LEMMA ReachInit == Init => ReachInv
BY DEF Init, ReachInv, SessionsReachable

LEMMA ReachStep == TypeOK /\ ReachInv /\ [Next]_vars => ReachInv'
<1> SUFFICES ASSUME TypeOK, ReachInv, [Next]_vars PROVE ReachInv'
  OBVIOUS
<1> USE DEF confVars, countVars, connVars, srvVars, stopVars, TypeOK, Stages, Move,
            ReachInv, SessionsReachable
<1>1. ASSUME NEW c \in Conns, Accept(c) PROVE ReachInv'
  BY <1>1 DEF Accept
<1>2. ASSUME NEW c \in Conns, Throttle(c) PROVE ReachInv'
  BY <1>2 DEF Throttle
<1>3. ASSUME NEW c \in Conns, ThrottleCancelled(c) PROVE ReachInv'
  BY <1>3 DEF ThrottleCancelled
<1>4. ASSUME NEW c \in Conns, Allow(c) PROVE ReachInv'
  BY <1>4 DEF Allow
<1>5. ASSUME NEW c \in Conns, RateLimited(c) PROVE ReachInv'
  BY <1>5 DEF RateLimited
<1>6. ASSUME NEW c \in Conns, Add(c) PROVE ReachInv'
  BY <1>6 DEF Add
<1>7. ASSUME NEW c \in Conns, LimitExceeded(c) PROVE ReachInv'
  BY <1>7 DEF LimitExceeded
<1>8. ASSUME NEW c \in Conns, NewSession(c) PROVE ReachInv'
  BY <1>8 DEF NewSession
<1>9. ASSUME NEW c \in Conns, Register(c) PROVE ReachInv'
  BY <1>9 DEF Register
<1>10. ASSUME NEW c \in Conns, SessionStarts(c) PROVE ReachInv'
  BY <1>10 DEF SessionStarts
<1>11. ASSUME NEW c \in Conns, SessionEnds(c) PROVE ReachInv'
  BY <1>11 DEF SessionEnds
<1>12. ASSUME NEW c \in Conns, Unregister(c) PROVE ReachInv'
  BY <1>12 DEF Unregister
<1>13. ASSUME NEW c \in Conns, Remove(c) PROVE ReachInv'
  BY <1>13 DEF Remove
<1>14. CASE AcceptorReturns
  BY <1>14 DEF AcceptorReturns
<1>15. CASE PushLimits
  BY <1>15 DEF PushLimits
<1>16. CASE PushTrusted
  BY <1>16 DEF PushTrusted
<1>17. CASE StoreConfig
  BY <1>17 DEF StoreConfig
<1>18. CASE StopDone
  BY <1>18 DEF StopDone
<1>19. CASE StopListener
  BY <1>19 DEF StopListener
<1>20. CASE StopSweep
  BY <1>20 DEF StopSweep
<1>21. CASE Quiet
  BY <1>21 DEF Quiet, vars
<1>22. CASE UNCHANGED vars
  BY <1>22 DEF vars
<1> QED
  BY <1>1, <1>2, <1>3, <1>4, <1>5, <1>6, <1>7, <1>8, <1>9, <1>10, <1>11, <1>12, <1>13, <1>14, <1>15, <1>16, <1>17, <1>18, <1>19, <1>20, <1>21, <1>22
     DEF Next, AcceptLoop, Handle, Reload, Stop

(* Stop can reach every session that is registered, and closes none twice. *)
THEOREM SessionsAlwaysReachable == Spec => []SessionsReachable
<1>1. TypeOK /\ BooksBalance /\ [Next]_vars => (TypeOK /\ BooksBalance)'
  BY BooksStep
<1>2. TypeOK /\ ReachInv /\ [Next]_vars => ReachInv'
  BY ReachStep
<1>3. ReachInv => SessionsReachable
  BY DEF ReachInv
<1> QED
  BY BooksInit, ReachInit, <1>1, <1>2, <1>3, PTL DEF Spec

=============================================================================
