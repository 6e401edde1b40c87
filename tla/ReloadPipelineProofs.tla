------------------------ MODULE ReloadPipelineProofs ------------------------
(***************************************************************************)
(* Theorems about ReloadPipeline, for any boards and any number of reloads. *)
(***************************************************************************)
EXTENDS ReloadPipeline, TLAPS

Alive(g) == loop[g] \in {"cycle", "select"}

(* Where a reload and the shutdown can be at the same time, and which        *)
(* version is served meanwhile.                                             *)
StageInv ==
  /\ reload = "idle" => prober = config
  /\ reload # "idle" => config = prober + 1
  /\ watcher = "returned" => reload = "idle"
  /\ main = "serving" => watcher = "polling"
  /\ main \in {"prober", "join", "server", "ended"} => watcher = "returned"

(* The current prober alone may run; it is stopped once, by a reload or by   *)
(* main; those to come are untouched.                                       *)
ProberInv ==
  /\ \A g \in Versions : g > prober => loop[g] = "none" /\ stops[g] = 0
  /\ \A g \in Versions : Alive(g) => g = prober
  /\ stops[prober] = (IF reload = "join" \/ main \in {"join", "server", "ended"} THEN 1 ELSE 0)
  /\ main \in {"server", "ended"} => loop[prober] = "done"

(* A prober asks only the boards of its own version. *)
SeriesInv ==
  /\ \A g \in Versions : pending[g] \subseteq Targets[g]
  /\ StaleOnceAtMost

IInv == TypeOK /\ StageInv /\ ProberInv /\ SeriesInv

USE VersionsAssumption

LEMMA InitHolds == Init => IInv
<1> SUFFICES ASSUME Init PROVE IInv
  OBVIOUS
<1> USE DEF Init
<1>1. TypeOK
  BY DEF TypeOK
<1>2. StageInv
  BY DEF StageInv
<1>3. ProberInv
  BY DEF ProberInv, Alive
<1>4. SeriesInv
  BY DEF SeriesInv, StaleOnceAtMost
<1> QED
  BY <1>1, <1>2, <1>3, <1>4 DEF IInv

-----------------------------------------------------------------------------
(* One lemma for each goroutine. *)

LEMMA ReloadKeeps == IInv /\ (ReloadServer \/ OnReload) => IInv'
<1> SUFFICES ASSUME IInv, ReloadServer \/ OnReload PROVE IInv'
  OBVIOUS
<1> USE DEF IInv, mainVars, probeVars, series
<1>1. CASE ReloadServer
  <2> USE <1>1 DEF ReloadServer
  <2>1. TypeOK'
    BY DEF TypeOK
  <2>2. StageInv'
    BY DEF StageInv, TypeOK
  <2>3. ProberInv'
    BY DEF ProberInv, StageInv, Alive
  <2>4. SeriesInv'
    BY DEF SeriesInv, StaleOnceAtMost
  <2> QED
    BY <2>1, <2>2, <2>3, <2>4
<1>2. CASE ResetPhonebookSeries
  <2> USE <1>2 DEF ResetPhonebookSeries
  <2>1. TypeOK'
    BY DEF TypeOK
  <2>2. StageInv'
    BY DEF StageInv
  <2>3. ProberInv'
    BY DEF ProberInv, Alive
  <2>4. SeriesInv'
    BY DEF SeriesInv, StaleOnceAtMost
  <2> QED
    BY <2>1, <2>2, <2>3, <2>4
<1>3. CASE PublishPhonebook
  <2> USE <1>3 DEF PublishPhonebook
  <2>1. TypeOK'
    BY DEF TypeOK
  <2>2. StageInv'
    BY DEF StageInv
  <2>3. ProberInv'
    BY DEF ProberInv, Alive
  <2>4. SeriesInv'
    BY DEF SeriesInv, StaleOnceAtMost
  <2> QED
    BY <2>1, <2>2, <2>3, <2>4
<1>4. CASE ReplaceStop
  <2> USE <1>4 DEF ReplaceStop, Lock, CloseProber
  <2>1. main \notin {"join", "server", "ended"} /\ stops[prober] = 0
    BY DEF StageInv, ProberInv, TypeOK
  <2>2. TypeOK'
    BY <2>1 DEF TypeOK
  <2>3. StageInv'
    BY DEF StageInv
  <2>4. ProberInv'
    BY <2>1 DEF ProberInv, Alive, TypeOK
  <2>5. SeriesInv'
    BY DEF SeriesInv, StaleOnceAtMost
  <2> QED
    BY <2>2, <2>3, <2>4, <2>5
<1>5. CASE ReplaceStart
  <2> USE <1>5 DEF ReplaceStart, Start, Joined
  <2>1. config > prober /\ main \notin {"join", "server", "ended"} /\ stops[config] = 0
    BY DEF StageInv, ProberInv, TypeOK
  <2>2. TypeOK'
    BY DEF TypeOK
  <2>3. StageInv'
    BY DEF StageInv
  <2>4. ProberInv'
    <3>1. \A g \in Versions : g > config => loop'[g] = "none" /\ stops'[g] = 0
      BY <2>1 DEF ProberInv, TypeOK
    <3>2. \A g \in Versions : Alive(g)' => g = config
      BY <2>1 DEF ProberInv, TypeOK, Alive
    <3> QED
      BY <2>1, <3>1, <3>2 DEF ProberInv
  <2>5. SeriesInv'
    BY DEF SeriesInv, StaleOnceAtMost, TypeOK
  <2> QED
    BY <2>2, <2>3, <2>4, <2>5
<1> QED
  BY <1>1, <1>2, <1>3, <1>4, <1>5 DEF OnReload

LEMMA ProbersKeep ==
  ASSUME NEW g \in Versions,
         (\E b \in Boards : BBSProbed(g, b)) \/ CycleOver(g) \/ Tick(g) \/ LoopReturns(g), IInv
  PROVE  IInv'
<1> USE DEF IInv, reloadVars, mainVars, series
<1>1. ASSUME NEW b \in Boards, BBSProbed(g, b) PROVE IInv'
  <2> USE <1>1 DEF BBSProbed
  <2>1. g = prober /\ b \in Targets[g]
    BY DEF ProberInv, SeriesInv, Alive
  <2>2. TypeOK'
    BY DEF TypeOK
  <2>3. StageInv'
    BY DEF StageInv
  <2>4. ProberInv'
    BY DEF ProberInv, Alive
  <2>5. SeriesInv'
    <3>1. \A h \in Versions : pending'[h] \subseteq Targets[h]
      BY DEF SeriesInv, TypeOK
    <3>2. prober = config \/ (config # 1 /\ prober = config - 1)
      BY DEF StageInv, TypeOK
    <3>3. StaleOnceAtMost'
      BY <2>1, <3>2 DEF SeriesInv, StaleOnceAtMost
    <3> QED
      BY <3>1, <3>3 DEF SeriesInv
  <2> QED
    BY <2>2, <2>3, <2>4, <2>5
<1>2. CASE CycleOver(g)
  <2> USE <1>2 DEF CycleOver
  <2>1. TypeOK'
    BY DEF TypeOK
  <2>2. ProberInv'
    BY DEF ProberInv, Alive, TypeOK
  <2> QED
    BY <2>1, <2>2 DEF StageInv, SeriesInv, StaleOnceAtMost
<1>3. CASE Tick(g)
  <2> USE <1>3 DEF Tick
  <2>1. TypeOK'
    BY DEF TypeOK
  <2>2. ProberInv'
    BY DEF ProberInv, Alive, TypeOK
  <2>3. SeriesInv'
    BY DEF SeriesInv, StaleOnceAtMost, TypeOK
  <2> QED
    BY <2>1, <2>2, <2>3 DEF StageInv
<1>4. CASE LoopReturns(g)
  <2> USE <1>4 DEF LoopReturns
  <2>1. TypeOK'
    BY DEF TypeOK
  <2>2. ProberInv'
    BY DEF ProberInv, Alive, TypeOK
  <2> QED
    BY <2>1, <2>2 DEF StageInv, SeriesInv, StaleOnceAtMost
<1> QED
  BY <1>1, <1>2, <1>3, <1>4

LEMMA ShutdownKeeps == IInv /\ (Signal \/ WatcherReturns \/ Shutdown) => IInv'
<1> SUFFICES ASSUME IInv, Signal \/ WatcherReturns \/ Shutdown PROVE IInv'
  OBVIOUS
<1> USE DEF IInv, reloadVars, mainVars, probeVars, series
<1>1. CASE Signal
  BY <1>1 DEF Signal, TypeOK, StageInv, ProberInv, Alive, SeriesInv, StaleOnceAtMost
<1>2. CASE WatcherReturns
  BY <1>2 DEF WatcherReturns, TypeOK, StageInv, ProberInv, Alive, SeriesInv, StaleOnceAtMost
<1>3. CASE WatcherStopped
  BY <1>3 DEF WatcherStopped, TypeOK, StageInv, ProberInv, Alive, SeriesInv, StaleOnceAtMost
<1>4. CASE StopProber
  <2> USE <1>4 DEF StopProber, Lock, CloseProber
  <2>1. reload = "idle" /\ stops[prober] = 0
    BY DEF StageInv, ProberInv
  <2>2. TypeOK'
    BY <2>1 DEF TypeOK
  <2>3. StageInv'
    BY DEF StageInv
  <2>4. ProberInv'
    BY <2>1 DEF ProberInv, Alive, TypeOK
  <2>5. SeriesInv'
    BY DEF SeriesInv, StaleOnceAtMost
  <2> QED
    BY <2>2, <2>3, <2>4, <2>5
<1>5. CASE ProberStopped
  BY <1>5 DEF ProberStopped, Joined, TypeOK, StageInv, ProberInv, Alive, SeriesInv,
              StaleOnceAtMost
<1>6. CASE StopServer
  BY <1>6 DEF StopServer, TypeOK, StageInv, ProberInv, Alive, SeriesInv, StaleOnceAtMost
<1> QED
  BY <1>1, <1>2, <1>3, <1>4, <1>5, <1>6 DEF Shutdown

LEMMA Inductive == Spec => []IInv
<1>1. IInv /\ [Next]_vars => IInv'
  <2> SUFFICES ASSUME IInv, [Next]_vars PROVE IInv'
    OBVIOUS
  <2>1. CASE UNCHANGED vars
    BY <2>1 DEF vars, reloadVars, mainVars, probeVars, series, IInv, TypeOK, StageInv, ProberInv,
                Alive, SeriesInv, StaleOnceAtMost
  <2> QED
    BY <2>1, ReloadKeeps, ProbersKeep, ShutdownKeeps DEF Next, Rest
<1> QED
  BY InitHolds, <1>1, PTL DEF Spec

-----------------------------------------------------------------------------
(* No stop channel is ever closed twice, which would panic, and every        *)
(* variable keeps its type, for any sequence of configurations.              *)
THEOREM TypeCorrect == Spec => []TypeOK
BY Inductive, PTL DEF IInv

(* A reload and the shutdown share one prober: at most one runs, and neither *)
(* of the two finds it stopped already (main.go:215-234).                    *)
THEOREM ProbersAlwaysTakeTurns == Spec => []ProbersTakeTurns
<1>1. IInv => ProbersTakeTurns
  BY DEF IInv, StageInv, ProberInv, Alive, ProbersTakeTurns
<1> QED
  BY Inductive, <1>1, PTL

(* The series of a board that was deleted do not outlive the next reload,    *)
(* though the old prober goes on while they are reset (metrics.go:277-300).  *)
THEOREM StaleForOneReload == Spec => []StaleOnceAtMost
BY Inductive, PTL DEF IInv, SeriesInv

(* When main goes on to stop the server no prober runs and no reload is      *)
(* under way, whenever the signal came (main.go:248-256).                    *)
THEOREM ShutdownAlwaysOrderly == Spec => []ShutdownIsOrderly
<1>1. IInv => ShutdownIsOrderly
  BY DEF IInv, TypeOK, StageInv, ProberInv, Alive, ShutdownIsOrderly
<1> QED
  BY Inductive, <1>1, PTL
=============================================================================
