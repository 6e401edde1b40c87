--------------------------- MODULE ReloadPipeline ---------------------------
(***************************************************************************)
(* What a reload and a shutdown do to the running gateway: startConfig-    *)
(* Watcher and main of cmd/telix/main.go, the prober of internal/probe and *)
(* the phonebook series of internal/metrics.                               *)
(*                                                                         *)
(* The goroutines are the watcher's, in onReload; main, in its shutdown;   *)
(* and the loop of each prober ever started, with one probe per board of   *)
(* the cycle.  Configurations, and the probers built from them, are        *)
(* numbered in the order of the reloads.  A series stands for the gauges   *)
(* of one board; their values do not matter.                               *)
(***************************************************************************)
EXTENDS Naturals, FiniteSets

CONSTANTS
  Boards,      \* the boards of all the phonebooks
  Versions,    \* the successive configurations, 1..k
  Lines,       \* Lines[v]: the boards in the phonebook of v
  Targets,     \* Targets[v]: those a prober of v dials: not the busy ones
  Enabled      \* the versions with probe.enabled

ASSUME VersionsAssumption ==
  /\ Versions \subseteq Nat \ {0} /\ 1 \in Versions
  /\ Lines \in [Versions -> SUBSET Boards] /\ Targets \in [Versions -> SUBSET Boards]
  /\ Enabled \subseteq Versions

VARIABLES
  config,      \* the version srv serves
  reload,      \* the next step of onReload, "idle" outside it
  watcher,     \* "polling", "stopping" (its channel is closed) or "returned"
  main,        \* where main is: "serving", "watcher", "prober", "join", "server", "ended"
  proberMu,    \* who holds it: "nobody", "reload", "main"
  prober,      \* the prober main's variable points to
  loop,        \* loop[g]: prober g's goroutine: "none", "cycle", "select", "done"
  pending,     \* pending[g]: the probes of its cycle that are still out
  stops,       \* stops[g]: how many times its stop channel was closed
  listed,      \* boards with a phonebook series
  reachable    \* boards with a reachability series

reloadVars == <<config, reload, watcher>>
mainVars   == <<main, proberMu>>
probeVars  == <<prober, loop, pending, stops>>
series     == <<listed, reachable>>
vars == <<reloadVars, mainVars, probeVars, series>>

(* New and Start: the first cycle runs at once, a disabled prober not at all. *)
Start(g) ==
  /\ loop' = [loop EXCEPT ![g] = IF g \in Enabled THEN "cycle" ELSE "done"]
  /\ pending' = [pending EXCEPT ![g] = IF g \in Enabled THEN Targets[g] ELSE {}]

Init ==
  /\ config = 1 /\ reload = "idle" /\ watcher = "polling"
  /\ main = "serving" /\ proberMu = "nobody"
  /\ prober = 1
  /\ loop = [g \in Versions |-> IF g # 1 THEN "none" ELSE IF 1 \in Enabled THEN "cycle" ELSE "done"]
  /\ pending = [g \in Versions |-> IF g = 1 /\ 1 \in Enabled THEN Targets[1] ELSE {}]
  /\ stops = [g \in Versions |-> 0]
  /\ listed = Lines[1] /\ reachable = {}

-----------------------------------------------------------------------------
(* onReload, in the watcher's goroutine *)

(* poll found an edit: srv.Reload.  A closed stop channel does not keep the *)
(* select from taking one more tick.                                        *)
ReloadServer ==
  /\ reload = "idle" /\ watcher # "returned"
  /\ config + 1 \in Versions
  /\ config' = config + 1
  /\ reload' = "reset"
  /\ UNCHANGED <<watcher, mainVars, probeVars, series>>

(* Mutant: the inventory only. *)
ResetListedOnly ==
  /\ reload = "reset"
  /\ listed' = {}
  /\ reload' = "publish"
  /\ UNCHANGED <<config, watcher, mainVars, probeVars, reachable>>

ResetPhonebookSeries ==
  /\ reload = "reset"
  /\ listed' = {} /\ reachable' = {}
  /\ reload' = "publish"
  /\ UNCHANGED <<config, watcher, mainVars, probeVars>>

PublishPhonebook ==
  /\ reload = "publish"
  /\ listed' = listed \union Lines[config]
  /\ reload' = "replace"
  /\ UNCHANGED <<config, watcher, mainVars, probeVars, reachable>>

Lock(who) == proberMu = "nobody" /\ proberMu' = who

(* Mutant: the old prober is left running. *)
CloseProberNot == UNCHANGED stops

(* Prober.Stop: close the channel, then wait for the goroutine. *)
CloseProber == stops' = [stops EXCEPT ![prober] = @ + 1]

(* Mutant: does not wait for the cycle in flight. *)
JoinedEarly == stops[prober] > 0

Joined == loop[prober] = "done"

(* replaceProber *)
ReplaceStop ==
  /\ reload = "replace"
  /\ Lock("reload")
  /\ CloseProber
  /\ reload' = "join"
  /\ UNCHANGED <<config, watcher, main, prober, loop, pending, series>>

(* Mutant: the new prober is never started. *)
ReplaceNoStart ==
  /\ reload = "join" /\ Joined
  /\ prober' = config
  /\ proberMu' = "nobody"
  /\ reload' = "idle"
  /\ UNCHANGED <<config, watcher, main, loop, pending, stops, series>>

ReplaceStart ==
  /\ reload = "join" /\ Joined
  /\ prober' = config
  /\ Start(config)
  /\ proberMu' = "nobody"
  /\ reload' = "idle"
  /\ UNCHANGED <<config, watcher, main, stops, series>>

-----------------------------------------------------------------------------
(* The loop of prober g *)

(* A probe comes back, and its gauges are set, whatever the verdict. *)
BBSProbed(g, b) ==
  /\ loop[g] = "cycle" /\ b \in pending[g]
  /\ pending' = [pending EXCEPT ![g] = @ \ {b}]
  /\ reachable' = reachable \union {b}
  /\ UNCHANGED <<reloadVars, mainVars, prober, loop, stops, listed>>

CycleOver(g) ==
  /\ loop[g] = "cycle" /\ pending[g] = {}
  /\ loop' = [loop EXCEPT ![g] = "select"]
  /\ UNCHANGED <<reloadVars, mainVars, prober, pending, stops, series>>

(* The ticker; with a closed stop channel as well, select takes either. *)
Tick(g) ==
  /\ loop[g] = "select"
  /\ loop' = [loop EXCEPT ![g] = "cycle"]
  /\ pending' = [pending EXCEPT ![g] = Targets[g]]
  /\ UNCHANGED <<reloadVars, mainVars, prober, stops, series>>

LoopReturns(g) ==
  /\ loop[g] = "select" /\ stops[g] > 0
  /\ loop' = [loop EXCEPT ![g] = "done"]
  /\ UNCHANGED <<reloadVars, mainVars, prober, pending, stops, series>>

-----------------------------------------------------------------------------
(* main, after the signal: the watcher first, then the prober, then the server *)

Signal ==
  /\ main = "serving"
  /\ main' = "watcher" /\ watcher' = "stopping"
  /\ UNCHANGED <<config, reload, proberMu, probeVars, series>>

WatcherReturns ==
  /\ watcher = "stopping" /\ reload = "idle"
  /\ watcher' = "returned"
  /\ UNCHANGED <<config, reload, mainVars, probeVars, series>>

(* Mutant: does not wait for a reload in flight. *)
WatcherLeft ==
  /\ main = "watcher"
  /\ main' = "prober"
  /\ UNCHANGED <<reloadVars, proberMu, probeVars, series>>

WatcherStopped ==
  /\ main = "watcher" /\ watcher = "returned"
  /\ main' = "prober"
  /\ UNCHANGED <<reloadVars, proberMu, probeVars, series>>

(* stopProber *)
StopProber ==
  /\ main = "prober"
  /\ Lock("main")
  /\ CloseProber
  /\ main' = "join"
  /\ UNCHANGED <<reloadVars, prober, loop, pending, series>>

ProberStopped ==
  /\ main = "join" /\ Joined
  /\ proberMu' = "nobody"
  /\ main' = "server"
  /\ UNCHANGED <<reloadVars, probeVars, series>>

(* srv.Stop, and main returns. *)
StopServer ==
  /\ main = "server"
  /\ main' = "ended"
  /\ UNCHANGED <<reloadVars, proberMu, probeVars, series>>

Rest == main = "ended" /\ UNCHANGED vars

-----------------------------------------------------------------------------
OnReload == ResetPhonebookSeries \/ PublishPhonebook \/ ReplaceStop \/ ReplaceStart

Shutdown == WatcherStopped \/ StopProber \/ ProberStopped \/ StopServer

Next ==
  \/ ReloadServer \/ OnReload
  \/ \E g \in Versions :
       (\E b \in Boards : BBSProbed(g, b)) \/ CycleOver(g) \/ Tick(g) \/ LoopReturns(g)
  \/ Signal \/ WatcherReturns \/ Shutdown \/ Rest

Spec == Init /\ [][Next]_vars

(* Goroutines run on, probes come back by their timeout, and the select of  *)
(* a prober that waits between cycles sees a closed stop channel in the     *)
(* end.  Nobody has to edit the file or to send the signal.                 *)
FairSpec ==
  /\ Spec
  /\ WF_vars(OnReload) /\ SF_vars(WatcherReturns) /\ WF_vars(Shutdown)
  /\ \A g \in Versions :
       /\ \A b \in Boards : WF_vars(BBSProbed(g, b))
       /\ WF_vars(CycleOver(g)) /\ SF_vars(LoopReturns(g))

-----------------------------------------------------------------------------
(* Properties *)

TypeOK ==
  /\ config \in Versions /\ prober \in Versions
  /\ reload \in {"idle", "reset", "publish", "replace", "join"}
  /\ watcher \in {"polling", "stopping", "returned"}
  /\ main \in {"serving", "watcher", "prober", "join", "server", "ended"}
  /\ proberMu \in {"nobody", "reload", "main"}
  /\ loop \in [Versions -> {"none", "cycle", "select", "done"}]
  /\ pending \in [Versions -> SUBSET Boards]
  /\ stops \in [Versions -> {0, 1}]
  /\ listed \subseteq Boards /\ reachable \subseteq Boards

(* No two probers run at once, and closing a prober's channel twice, which   *)
(* would panic, is impossible: neither replaceProber nor stopProber ever     *)
(* finds the current one stopped already (main.go:215-234).                  *)
ProbersTakeTurns ==
  /\ \A g, h \in Versions : loop[g] \in {"cycle", "select"} /\ loop[h] \in {"cycle", "select"} => g = h
  /\ reload = "replace" \/ main = "prober" => stops[prober] = 0

(* Between reloads the phone list on the dashboard, the prober and the       *)
(* server's phonebook are of one version (main.go:115-122).                  *)
ReloadIsWhole == reload = "idle" => prober = config /\ listed = Lines[config]

(* A board that left the phonebook keeps a reachability series at most until *)
(* the next reload resets it (metrics.go:277-300).                           *)
StaleOnceAtMost ==
  reload # "reset" =>
    reachable \subseteq Targets[config] \union (IF config = 1 THEN {} ELSE Targets[config - 1])

(* Once main is done with the prober, nothing probes, and no reload lands on *)
(* the half that is already down (main.go:248-256).                          *)
ShutdownIsOrderly ==
  main \in {"server", "ended"} =>
    /\ reload = "idle"
    /\ \A g \in Versions : loop[g] \in {"none", "done"}

(* A reload ends, though it waits for a probe cycle. *)
ReloadEnds == (reload # "idle") ~> (reload = "idle")

(* So does a shutdown, though it waits for a reload and for a cycle. *)
ShutdownEnds == (main = "watcher") ~> (main = "ended")

(* Every board of the phonebook gets its reachability series, unless the     *)
(* next reload or the shutdown comes first (probe.go:104-136).               *)
BoardsProbed ==
  \A v \in Versions : \A b \in Boards :
    (config = v /\ v \in Enabled /\ b \in Targets[v])
      ~> (b \in reachable \/ config # v \/ main # "serving")

(* "metrics are republished from a clean slate so a deleted board stops      *)
(* reporting itself configured and reachable" (main.go:96-97).               *)
DeletedBoardForgotten == reload = "idle" => reachable \subseteq Targets[config]

=============================================================================
