------------------------ MODULE ConfigWatcherProofs ------------------------
(***************************************************************************)
(* Theorems about ConfigWatcher, for any contents and any number of saves. *)
(***************************************************************************)
EXTENDS ConfigWatcher, TLAPS

(* What a poll may still report of the file as it is now: the Load under     *)
(* way, and the file itself, unless it has been seen already.               *)
One(condition) == IF condition THEN 1 ELSE 0
Unseen == IF file = Absent THEN ~lastErr ELSE lastHash # file
ReportsLeft == One(pc = "load") + One(Unseen)

FloodInv == reports + ReportsLeft =< 2

StopInv == stop = "returned" => pc = "returned"

IInv == TypeOK /\ FloodInv /\ StopInv

LEMMA InitHolds == Init => IInv
<1> SUFFICES ASSUME Init PROVE IInv
  OBVIOUS
<1> USE DEF Init
<1>1. TypeOK
  <2>1. First \in Good /\ First \in Contents
    BY ContentsAssumption DEF Contents, Complete
  <2>2. saves \in 0 .. MaxSaves
    BY MaxSavesAssumption
  <2> QED
    BY <2>1, <2>2 DEF TypeOK
<1>2. FloodInv
  <2>1. First # Absent
    BY ContentsAssumption DEF Contents, Complete
  <2> QED
    BY <2>1 DEF FloodInv, ReportsLeft, One, Unseen
<1>3. StopInv
  BY DEF StopInv
<1> QED
  BY <1>1, <1>2, <1>3 DEF IInv

-----------------------------------------------------------------------------
LEMMA TypeKept == TypeOK /\ [Next]_vars => TypeOK'
<1> SUFFICES ASSUME TypeOK, [Next]_vars PROVE TypeOK'
  OBVIOUS
<1> USE DEF TypeOK
<1>1. CASE Save
  <2> USE MaxSavesAssumption DEF Becomes, watchVars, Contents, Complete, Partial
  <2>1. CASE \E c \in Complete : Rename(c)
    BY <2>1 DEF Rename
  <2>2. CASE \E c \in Complete : StartSave(c)
    BY <2>2 DEF StartSave
  <2>3. CASE WriteOn
    BY <2>3 DEF WriteOn
  <2>4. CASE FinishSave
    BY <2>4 DEF FinishSave
  <2> QED
    BY <1>1, <2>1, <2>2, <2>3, <2>4 DEF Save
<1>2. CASE Poll
  <2> USE DEF fileVars, outVars, OnError
  <2>1. CASE PollReadFails
    BY <2>1 DEF PollReadFails
  <2>2. CASE PollReads
    BY <2>2 DEF PollReads
  <2>3. CASE LoadFails
    BY <2>3 DEF LoadFails
  <2>4. CASE LoadSucceeds
    BY <2>4 DEF LoadSucceeds, Accepts, Contents, Complete, Partial
  <2>5. CASE Apply
    BY <2>5 DEF Apply
  <2> QED
    BY <1>2, <2>1, <2>2, <2>3, <2>4, <2>5 DEF Poll
<1>3. CASE Return
  BY <1>3 DEF Return, fileVars, outVars
<1>4. CASE CloseStop
  BY <1>4 DEF CloseStop, fileVars, watchVars, outVars
<1>5. CASE StopReturns
  BY <1>5 DEF StopReturns, fileVars, watchVars, outVars
<1>6. CASE UNCHANGED vars
  BY <1>6 DEF vars, fileVars, watchVars, outVars
<1> QED
  BY <1>1, <1>2, <1>3, <1>4, <1>5, <1>6 DEF Next, Rest

(* Whoever changes the file starts the count anew; a poll pays for what it   *)
(* reports out of what it may still report.                                  *)
LEMMA FloodKept == TypeOK /\ FloodInv /\ [Next]_vars => FloodInv'
<1> SUFFICES ASSUME TypeOK, FloodInv, [Next]_vars PROVE FloodInv'
  OBVIOUS
<1> USE DEF TypeOK, FloodInv, ReportsLeft, One, Unseen
<1>1. ASSUME NEW c, Becomes(c) PROVE FloodInv'
  BY <1>1 DEF Becomes
<1>2. CASE Save
  BY <1>1, <1>2 DEF Save, Rename, StartSave, WriteOn, FinishSave
<1>3. CASE Poll
  <2> USE DEF fileVars, outVars, OnError
  <2>1. CASE PollReadFails
    BY <2>1 DEF PollReadFails
  <2>2. CASE PollReads
    BY <2>2 DEF PollReads
  <2>3. CASE LoadFails
    BY <2>3 DEF LoadFails
  <2>4. CASE LoadSucceeds
    BY <2>4 DEF LoadSucceeds
  <2>5. CASE Apply
    BY <2>5 DEF Apply
  <2> QED
    BY <1>3, <2>1, <2>2, <2>3, <2>4, <2>5 DEF Poll
<1>4. CASE Return
  BY <1>4 DEF Return, fileVars, outVars
<1>5. CASE CloseStop
  BY <1>5 DEF CloseStop, fileVars, watchVars, outVars
<1>6. CASE StopReturns
  BY <1>6 DEF StopReturns, fileVars, watchVars, outVars
<1>7. CASE UNCHANGED vars
  BY <1>7 DEF vars, fileVars, watchVars, outVars
<1> QED
  BY <1>2, <1>3, <1>4, <1>5, <1>6, <1>7 DEF Next, Rest

LEMMA StopKept == StopInv /\ [Next]_vars => StopInv'
BY DEF StopInv, Next, Save, Rename, StartSave, WriteOn, FinishSave, Becomes, Poll, PollReadFails,
       PollReads, LoadFails, LoadSucceeds, Apply, Return, CloseStop, StopReturns, Rest, vars,
       fileVars, watchVars, outVars

LEMMA Inductive == Spec => []IInv
<1>1. IInv /\ [Next]_vars => IInv'
  BY TypeKept, FloodKept, StopKept DEF IInv
<1> QED
  BY InitHolds, <1>1, PTL DEF Spec

-----------------------------------------------------------------------------
(* Whatever the operator saves and however polls and saves interleave, the   *)
(* watcher keeps well-formed digests, and hands onReload only configurations *)
(* that Load accepts (watch.go:95-120).                                      *)
THEOREM TypeCorrect == Spec => []TypeOK
BY Inductive, PTL DEF IInv

(* A file that stays broken or missing is reported at most twice, for any    *)
(* contents (watch.go:36-41).                                                *)
THEOREM NoFloodEver == Spec => []NoErrorFlood
<1>1. IInv => NoErrorFlood
  BY DEF IInv, TypeOK, FloodInv, ReportsLeft, One, NoErrorFlood
<1> QED
  BY Inductive, <1>1, PTL

(* Once Stop has returned the running configuration never changes again: the *)
(* goroutine has returned, though its select may have taken further ticks    *)
(* after the channel was closed (watch.go:80-85).                            *)
THEOREM QuietForGood == Spec => QuietAfterStop
<1>1. IInv /\ [Next]_vars => [stop = "returned" => UNCHANGED running]_vars
  <2> SUFFICES ASSUME StopInv, Next, stop = "returned" PROVE UNCHANGED running
    BY DEF IInv
  <2> QED
    BY DEF StopInv, Next, Save, Rename, StartSave, WriteOn, FinishSave, Becomes, Poll,
           PollReadFails, PollReads, LoadFails, LoadSucceeds, Apply, Return, CloseStop,
           StopReturns, Rest, vars, outVars, watchVars
<1> QED
  BY Inductive, <1>1, PTL DEF Spec, QuietAfterStop
=============================================================================
