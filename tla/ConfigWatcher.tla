--------------------------- MODULE ConfigWatcher ---------------------------
(***************************************************************************)
(* The configuration watcher: internal/config/watch.go and Load of         *)
(* config.go, against an operator who saves the file while it is polled.   *)
(*                                                                         *)
(* A content stands for its bytes, so for its digest too.  An editor that  *)
(* writes in place leaves partial contents behind until it is done: torn   *)
(* ones, which Load rejects, and the truncated, empty file, which Load     *)
(* accepts: no bytes are valid YAML, every server setting has a default,   *)
(* and validate asks nothing of an empty phonebook.  An editor that        *)
(* renames may leave no file for a moment, or none at all.                 *)
(***************************************************************************)
EXTENDS Naturals, FiniteSets

CONSTANTS
  Good,        \* complete contents that Load accepts
  Broken,      \* complete contents that it rejects
  Torn,        \* partial contents that it rejects
  Empty,       \* the truncated file
  Absent,      \* the reading of a path where there is no file
  First,       \* the content the gateway started with
  MaxSaves     \* bound: saves by the operator

Complete == Good \union Broken
Partial  == Torn \union {Empty}
Contents == Complete \union Partial
None     == "none"

ASSUME ContentsAssumption ==
  /\ First \in Good /\ Empty \notin Complete \union Torn
  /\ Good \intersect Broken = {} /\ Complete \intersect Torn = {}
  /\ Absent \notin Contents /\ None \notin Contents \union {Absent}
ASSUME MaxSavesAssumption == MaxSaves \in Nat

VARIABLES
  file,        \* what a reader of the path gets now
  saving,      \* the content an unfinished save will end in, or None
  saves,       \* saves begun
  pc,          \* the watcher: "select", "load", "apply" or "returned"
  lastHash,    \* Watcher.lastHash
  lastErr,     \* Watcher.lastErr is set
  loaded,      \* poll's local cfg
  running,     \* the content of the configuration last handed to onReload
  skipped,     \* the digest recorded by the last poll whose Load failed
  reports,     \* onError calls since the file last changed
  stop         \* Stop: "no", "closed" (its channel), "returned"

fileVars  == <<file, saving, saves>>
watchVars == <<pc, lastHash, lastErr, loaded>>
outVars   == <<running, skipped, reports>>
vars == <<fileVars, watchVars, outVars, stop>>

Init ==
  /\ file = First /\ saving = None /\ saves = 0
  /\ pc = "select" /\ lastHash = First /\ lastErr = FALSE /\ loaded = First
  /\ running = First /\ skipped = None /\ reports = 0
  /\ stop = "no"

-----------------------------------------------------------------------------
(* The operator *)

Becomes(c) ==
  /\ file' = c
  /\ reports' = 0
  /\ UNCHANGED <<watchVars, running, skipped, stop>>

(* A save in one piece: the new file is renamed over the old one. *)
Rename(c) ==
  /\ saving = None /\ saves < MaxSaves
  /\ saves' = saves + 1
  /\ Becomes(c)
  /\ UNCHANGED saving

StartSave(c) ==
  /\ saving = None /\ saves < MaxSaves
  /\ saves' = saves + 1 /\ saving' = c
  /\ \E p \in Partial \union {Absent} : Becomes(p)

WriteOn ==
  /\ saving # None
  /\ \E p \in Partial : Becomes(p)
  /\ UNCHANGED <<saving, saves>>

FinishSave ==
  /\ saving # None
  /\ Becomes(saving)
  /\ saving' = None
  /\ UNCHANGED saves

-----------------------------------------------------------------------------
(* The watcher's goroutine *)

OnError == reports' = reports + 1

(* Mutant: a config that does not validate is applied all the same. *)
AcceptsAnything(c) == c \in Contents

Accepts(c) == c \in Good \union {Empty}

(* poll: the file cannot be read; the same message is not repeated. *)
PollReadFails ==
  /\ pc = "select" /\ file = Absent
  /\ lastErr' = TRUE
  /\ IF lastErr THEN UNCHANGED reports ELSE OnError
  /\ UNCHANGED <<fileVars, pc, lastHash, loaded, running, skipped, stop>>

(* Mutant: the digest is only recorded once Load has accepted the file. *)
PollReadsUnrecorded ==
  /\ pc = "select" /\ file # Absent
  /\ lastErr' = FALSE
  /\ pc' = IF file = lastHash THEN "select" ELSE "load"
  /\ UNCHANGED <<fileVars, lastHash, loaded, outVars, stop>>

(* poll: the digest of what was read is compared, and recorded. *)
PollReads ==
  /\ pc = "select" /\ file # Absent
  /\ lastErr' = FALSE
  /\ lastHash' = file
  /\ pc' = IF file = lastHash THEN "select" ELSE "load"
  /\ UNCHANGED <<fileVars, loaded, outVars, stop>>

(* Load reads the file again, which may have changed since. *)
LoadFails ==
  /\ pc = "load" /\ ~Accepts(file)
  /\ OnError
  /\ skipped' = lastHash
  /\ pc' = "select"
  /\ UNCHANGED <<fileVars, lastHash, lastErr, loaded, running, stop>>

(* Mutant: keeps the digest of the first read. *)
LoadSucceedsStale ==
  /\ pc = "load" /\ Accepts(file)
  /\ loaded' = file
  /\ pc' = "apply"
  /\ UNCHANGED <<fileVars, lastHash, lastErr, outVars, stop>>

LoadSucceeds ==
  /\ pc = "load" /\ Accepts(file)
  /\ loaded' = file
  /\ lastHash' = file
  /\ pc' = "apply"
  /\ UNCHANGED <<fileVars, lastErr, outVars, stop>>

(* onReload, which runs in this goroutine and takes its time. *)
Apply ==
  /\ pc = "apply"
  /\ running' = loaded
  /\ pc' = "select"
  /\ UNCHANGED <<fileVars, lastHash, lastErr, loaded, skipped, reports, stop>>

(* With both channels ready the select takes either, so polls may follow    *)
(* the close.                                                               *)
Return ==
  /\ pc = "select" /\ stop = "closed"
  /\ pc' = "returned"
  /\ UNCHANGED <<fileVars, lastHash, lastErr, loaded, outVars, stop>>

-----------------------------------------------------------------------------
CloseStop ==
  /\ stop = "no"
  /\ stop' = "closed"
  /\ UNCHANGED <<fileVars, watchVars, outVars>>

(* Mutant: does not wait for the poll in flight. *)
StopReturnsEarly ==
  /\ stop = "closed"
  /\ stop' = "returned"
  /\ UNCHANGED <<fileVars, watchVars, outVars>>

StopReturns ==
  /\ stop = "closed" /\ pc = "returned"
  /\ stop' = "returned"
  /\ UNCHANGED <<fileVars, watchVars, outVars>>

Save == (\E c \in Complete : Rename(c) \/ StartSave(c)) \/ WriteOn \/ FinishSave

Poll == PollReadFails \/ PollReads \/ LoadFails \/ LoadSucceeds \/ Apply

Rest == pc = "returned" /\ stop = "returned" /\ UNCHANGED vars

Next == Save \/ Poll \/ Return \/ CloseStop \/ StopReturns \/ Rest

Spec == Init /\ [][Next]_vars

(* The ticker ticks and polls come to an end; the select, which waits for   *)
(* seconds between ticks, sees a closed stop channel sooner or later.  The  *)
(* operator owes nothing, not even the end of a save.                       *)
FairSpec == Spec /\ WF_vars(Poll) /\ SF_vars(Return) /\ WF_vars(StopReturns)

-----------------------------------------------------------------------------
(* Properties *)

TypeOK ==
  /\ file \in Contents \union {Absent}
  /\ saving \in Complete \union {None} /\ saves \in 0..MaxSaves
  /\ pc \in {"select", "load", "apply", "returned"}
  /\ lastHash \in Contents /\ lastErr \in BOOLEAN
  /\ loaded \in Good \union {Empty} /\ running \in Good \union {Empty}
  /\ skipped \in Contents \union {None} /\ reports \in Nat /\ stop \in {"no", "closed", "returned"}

(* However often it is polled, a file that stays broken or missing is        *)
(* reported at most twice: once by the poll that was half way through when   *)
(* it broke, once under its own digest or message (watch.go:36-41).          *)
NoErrorFlood == reports <= 2

(* No reload lands once Stop has returned to the shutdown that called it     *)
(* (watch.go:80-85).                                                         *)
QuietAfterStop == [][stop = "returned" => UNCHANGED running]_vars

(* Where the file is whole and valid. *)
Saved == saving = None /\ file \in Good

(* A completed save is applied, whatever the polls before it caught: a torn  *)
(* file, no file, another save, a revert.  The one exception is the content  *)
(* whose digest a poll recorded just before its Load failed (watch.go:98-118). *)
SaveApplied ==
  (Saved /\ file # skipped)
    ~> (running = file \/ ~Saved \/ file = skipped \/ pc = "returned")

(* "the completed save hashes differently [and] is picked up on the very     *)
(* next poll rather than being remembered as already-seen" (watch.go:20-22). *)
CompletedSaveApplied == Saved ~> (running = file \/ ~Saved \/ pc = "returned")

(* "a file caught mid-save is rejected" (watch.go:19-20). *)
MidSaveRejected == running \in Complete

=============================================================================
