----------------------------- MODULE Admission -----------------------------
(***************************************************************************)
(* Admission to the gateway: internal/server/server.go and the             *)
(* ConnectionTracker of ratelimit.go.                                      *)
(*                                                                         *)
(* The goroutines are acceptLoop, one handleConnection per accepted        *)
(* connection, the watcher's goroutine inside Reload, and main inside      *)
(* Stop.  Each critical section of the tracker's and the server's mutex is *)
(* one action.  A session is what runs between SessionStarted and          *)
(* SessionEnded; module Session says what happens in it.  The verdict of   *)
(* the rate limiter is arbitrary here.                                     *)
(*                                                                         *)
(* Configurations are numbered in the order the watcher loads them; of     *)
(* each only the ceilings and the trusted proxies matter here.             *)
(***************************************************************************)
EXTENDS Integers, FiniteSets

CONSTANTS
  Conns,       \* the connections that callers make
  Hosts,       \* the peer addresses they come from
  HostOf,      \* HostOf[c]: the address of connection c
  Versions,    \* the successive configurations, 1..k
  MaxTotal,    \* MaxTotal[v]: server.max_connections
  MaxPerIP,    \* MaxPerIP[v]: server.max_per_ip
  Trusted      \* Trusted[v]: the addresses inside server.trusted_proxies

ASSUME ConnsAssumption ==
  /\ IsFiniteSet(Conns)
  /\ HostOf \in [Conns -> Hosts]
ASSUME ConfigAssumption ==
  /\ Versions \subseteq Nat /\ 1 \in Versions
  /\ MaxTotal \in [Versions -> Nat] /\ MaxPerIP \in [Versions -> Nat]
  /\ Trusted \in [Versions -> SUBSET Hosts]

VARIABLES
  config,      \* the version s.config points to
  limits,      \* the version the tracker's ceilings come from
  trust,       \* the version the tracker's trusted list comes from
  reload,      \* the next step of a Reload under way: "idle", "trust", "store"
  total,       \* ConnectionTracker.total
  conns,       \* ConnectionTracker.conns; an absent address counts 0
  at,          \* at[c]: how far the handling of connection c has come
  admitted,    \* admitted[c]: the ceilings' version when Add let c in, or 0
  phonebook,   \* phonebook[c]: the version NewSession captured, or 0
  sessions,    \* the keys of Server.sessions
  closed,      \* the sessions whose Close was called
  active,      \* telix_sessions_active
  acceptor,    \* acceptLoop: "accepting" or "returned"
  stop         \* how far Stop has come: "no", "done", "listener", "swept"

confVars  == <<config, limits, trust, reload>>
countVars == <<total, conns>>
connVars  == <<at, admitted, phonebook>>
srvVars   == <<sessions, closed, active>>
stopVars  == <<acceptor, stop>>
vars == <<confVars, countVars, connVars, srvVars, stopVars>>

(* Where a connection can be: still to come, accepted but throttled,        *)
(* before Allow, before Add, before NewSession, before registration, before *)
(* SessionStarted, running, over, unregistered, finished, turned away.      *)
Stages == {"new", "throttled", "allow", "add", "build", "register", "start", "running",
           "ended", "unregistered", "finished", "rejected"}

(* Between a successful Add and Remove. *)
HoldingStages == {"build", "register", "start", "running", "ended", "unregistered"}
Holding == {c \in Conns : at[c] \in HoldingStages}
HoldingFrom(h) == {c \in Holding : HostOf[c] = h}
Running == {c \in Conns : at[c] = "running"}

Init ==
  /\ config = 1 /\ limits = 1 /\ trust = 1 /\ reload = "idle"
  /\ total = 0 /\ conns = [h \in Hosts |-> 0]
  /\ at = [c \in Conns |-> "new"]
  /\ admitted = [c \in Conns |-> 0] /\ phonebook = [c \in Conns |-> 0]
  /\ sessions = {} /\ closed = {} /\ active = 0
  /\ acceptor = "accepting" /\ stop = "no"

-----------------------------------------------------------------------------
Move(c, from, to) ==
  /\ at[c] = from
  /\ at' = [at EXCEPT ![c] = to]

(* acceptLoop: Accept, then the token bucket.  The listener's close makes   *)
(* Accept fail; the closed done channel cancels the wait.                   *)
Accept(c) ==
  /\ acceptor = "accepting" /\ stop \in {"no", "done"}
  /\ \A d \in Conns : at[d] # "throttled"
  /\ Move(c, "new", "throttled")
  /\ UNCHANGED <<confVars, countVars, admitted, phonebook, srvVars, stopVars>>

Throttle(c) ==
  /\ Move(c, "throttled", "allow")
  /\ UNCHANGED <<confVars, countVars, admitted, phonebook, srvVars, stopVars>>

ThrottleCancelled(c) ==
  /\ stop # "no"
  /\ Move(c, "throttled", "rejected")
  /\ acceptor' = "returned"
  /\ UNCHANGED <<confVars, countVars, admitted, phonebook, srvVars, stop>>

AcceptorReturns ==
  /\ acceptor = "accepting" /\ stop # "no"
  /\ \A d \in Conns : at[d] # "throttled"
  /\ acceptor' = "returned"
  /\ UNCHANGED <<confVars, countVars, connVars, srvVars, stop>>

-----------------------------------------------------------------------------
(* handleConnection *)

Allow(c) ==
  /\ Move(c, "allow", "add")
  /\ UNCHANGED <<confVars, countVars, admitted, phonebook, srvVars, stopVars>>

RateLimited(c) ==
  /\ Move(c, "allow", "rejected")
  /\ UNCHANGED <<confVars, countVars, admitted, phonebook, srvVars, stopVars>>

(* Mutant: one caller too many. *)
HasRoomOffByOne(h) ==
  /\ total <= MaxTotal[limits]
  /\ conns[h] <= MaxPerIP[limits] \/ h \in Trusted[trust]

(* ConnectionTracker.Add *)
HasRoom(h) ==
  /\ total < MaxTotal[limits]
  /\ conns[h] < MaxPerIP[limits] \/ h \in Trusted[trust]

(* Mutant: forgets the total. *)
AddUncounted(c) ==
  /\ HasRoom(HostOf[c])
  /\ Move(c, "add", "build")
  /\ conns' = [conns EXCEPT ![HostOf[c]] = @ + 1]
  /\ admitted' = [admitted EXCEPT ![c] = limits]
  /\ UNCHANGED <<confVars, total, phonebook, srvVars, stopVars>>

Add(c) ==
  /\ HasRoom(HostOf[c])
  /\ Move(c, "add", "build")
  /\ total' = total + 1
  /\ conns' = [conns EXCEPT ![HostOf[c]] = @ + 1]
  /\ admitted' = [admitted EXCEPT ![c] = limits]
  /\ UNCHANGED <<confVars, phonebook, srvVars, stopVars>>

LimitExceeded(c) ==
  /\ ~HasRoom(HostOf[c])
  /\ Move(c, "add", "rejected")
  /\ UNCHANGED <<confVars, countVars, admitted, phonebook, srvVars, stopVars>>

(* NewSession(conn, s.Config(), ...): the one read of the config pointer. *)
NewSession(c) ==
  /\ Move(c, "build", "register")
  /\ phonebook' = [phonebook EXCEPT ![c] = config]
  /\ UNCHANGED <<confVars, countVars, admitted, srvVars, stopVars>>

Register(c) ==
  /\ Move(c, "register", "start")
  /\ sessions' = sessions \union {c}
  /\ UNCHANGED <<confVars, countVars, admitted, phonebook, closed, active, stopVars>>

SessionStarts(c) ==
  /\ Move(c, "start", "running")
  /\ active' = active + 1
  /\ UNCHANGED <<confVars, countVars, admitted, phonebook, sessions, closed, stopVars>>

(* sess.Run returns, for whatever reason, and SessionEnded is counted. *)
SessionEnds(c) ==
  /\ Move(c, "running", "ended")
  /\ active' = active - 1
  /\ UNCHANGED <<confVars, countVars, admitted, phonebook, sessions, closed, stopVars>>

(* Mutant: leaves the session in the map. *)
UnregisterNot(c) ==
  /\ Move(c, "ended", "unregistered")
  /\ UNCHANGED <<confVars, countVars, admitted, phonebook, srvVars, stopVars>>

Unregister(c) ==
  /\ Move(c, "ended", "unregistered")
  /\ sessions' = sessions \ {c}
  /\ UNCHANGED <<confVars, countVars, admitted, phonebook, closed, active, stopVars>>

(* Mutant: forgets the total. *)
RemoveFromHost(c) ==
  /\ Move(c, "unregistered", "finished")
  /\ conns' = [conns EXCEPT ![HostOf[c]] = @ - 1]
  /\ UNCHANGED <<confVars, total, admitted, phonebook, srvVars, stopVars>>

(* Mutant: a session that Stop closed does not give its slot back. *)
RemoveUnlessClosed(c) ==
  /\ Move(c, "unregistered", "finished")
  /\ IF c \notin closed
     THEN /\ conns' = [conns EXCEPT ![HostOf[c]] = @ - 1]
          /\ total' = total - 1
     ELSE UNCHANGED countVars
  /\ UNCHANGED <<confVars, admitted, phonebook, srvVars, stopVars>>

(* ConnectionTracker.Remove *)
Remove(c) ==
  /\ Move(c, "unregistered", "finished")
  /\ IF conns[HostOf[c]] > 0
     THEN /\ conns' = [conns EXCEPT ![HostOf[c]] = @ - 1]
          /\ total' = total - 1
     ELSE UNCHANGED countVars
  /\ UNCHANGED <<confVars, admitted, phonebook, srvVars, stopVars>>

(* Reload, from the watcher's goroutine: ceilings, trusted list, and last   *)
(* the pointer.  Main stops the watcher, and waits for it, before Stop.     *)
PushLimits ==
  /\ reload = "idle" /\ stop = "no"
  /\ config + 1 \in Versions
  /\ limits' = config + 1
  /\ reload' = "trust"
  /\ UNCHANGED <<config, trust, countVars, connVars, srvVars, stopVars>>

PushTrusted ==
  /\ reload = "trust"
  /\ trust' = limits
  /\ reload' = "store"
  /\ UNCHANGED <<config, limits, countVars, connVars, srvVars, stopVars>>

StoreConfig ==
  /\ reload = "store"
  /\ config' = limits
  /\ reload' = "idle"
  /\ UNCHANGED <<limits, trust, countVars, connVars, srvVars, stopVars>>

-----------------------------------------------------------------------------
(* Stop *)

StopDone ==
  /\ stop = "no" /\ reload = "idle"
  /\ stop' = "done"
  /\ UNCHANGED <<confVars, countVars, connVars, srvVars, acceptor>>

StopListener ==
  /\ stop = "done"
  /\ stop' = "listener"
  /\ UNCHANGED <<confVars, countVars, connVars, srvVars, acceptor>>

(* Under the mutex: Close and forget every registered session. *)
StopSweep ==
  /\ stop = "listener"
  /\ closed' = closed \union sessions
  /\ sessions' = {}
  /\ stop' = "swept"
  /\ UNCHANGED <<confVars, countVars, connVars, active, acceptor>>

-----------------------------------------------------------------------------
Handle(c) ==
  \/ Allow(c) \/ RateLimited(c) \/ Add(c) \/ LimitExceeded(c)
  \/ NewSession(c) \/ Register(c) \/ SessionStarts(c)
  \/ Unregister(c) \/ Remove(c)

AcceptLoop ==
  \/ \E c \in Conns : Accept(c) \/ Throttle(c) \/ ThrottleCancelled(c)
  \/ AcceptorReturns

Reload == PushLimits \/ PushTrusted \/ StoreConfig

Stop == StopDone \/ StopListener \/ StopSweep

(* Nothing is left to do but to wait for callers who are on the line. *)
Quiet ==
  /\ stop = "swept" /\ acceptor = "returned"
  /\ \A c \in Conns : at[c] \in {"new", "rejected", "finished"}
  /\ UNCHANGED vars

Next ==
  \/ AcceptLoop
  \/ \E c \in Conns : Handle(c) \/ SessionEnds(c)
  \/ Reload \/ Stop \/ Quiet

Spec == Init /\ [][Next]_vars

(* Every goroutine that can run does; a session that was closed comes back  *)
(* from Run (Session!CloseEndsSession).  No caller has to call, to hang up  *)
(* or to be let in, and nobody has to stop the server.                      *)
FairSpec ==
  /\ Spec
  /\ \A c \in Conns :
       WF_vars(Handle(c)) /\ WF_vars(c \in closed /\ SessionEnds(c))
  /\ WF_vars(\E c \in Conns : Throttle(c) \/ ThrottleCancelled(c))
  /\ WF_vars(AcceptorReturns)
  /\ WF_vars(PushTrusted \/ StoreConfig)
  /\ WF_vars(StopListener \/ StopSweep)

-----------------------------------------------------------------------------
(* Properties *)

TypeOK ==
  /\ config \in Versions /\ limits \in Versions /\ trust \in Versions
  /\ reload \in {"idle", "trust", "store"}
  /\ total \in Nat /\ conns \in [Hosts -> Nat]
  /\ at \in [Conns -> Stages]
  /\ admitted \in [Conns -> Versions \union {0}]
  /\ phonebook \in [Conns -> Versions \union {0}]
  /\ sessions \subseteq Conns /\ closed \subseteq Conns /\ active \in Nat
  /\ acceptor \in {"accepting", "returned"}
  /\ stop \in {"no", "done", "listener", "swept"}

(* The tracker's counters are exactly the handlers between their Add and     *)
(* their Remove, in total and per address, and the session gauge is exactly  *)
(* the sessions running, however admissions, departures, reloads and Stop    *)
(* interleave (ratelimit.go:301-332, server.go:258-269).  A slot counted     *)
(* twice or never returned would close the gateway to callers for good.      *)
BooksBalance ==
  /\ total = Cardinality(Holding)
  /\ \A h \in Hosts : conns[h] = Cardinality(HoldingFrom(h))
  /\ active = Cardinality(Running)

(* The connections really held never exceed a ceiling that was in force:     *)
(* max_connections binds everyone, max_per_ip everyone but the trusted       *)
(* proxies (ratelimit.go:305-313).  A lowered ceiling does not drop callers  *)
(* already counted, hence the versions up to the present one.                *)
CeilingsHold ==
  /\ \E v \in Versions : v <= limits /\ Cardinality(Holding) <= MaxTotal[v]
  /\ \A h \in Hosts :
       \/ \E v \in Versions : v <= limits /\ Cardinality(HoldingFrom(h)) <= MaxPerIP[v]
       \/ \E v \in Versions : v <= trust /\ h \in Trusted[v]

(* Server.sessions is what Stop will close: whoever is in it has a slot and  *)
(* a live handler, whoever has a live session is in it or has been closed,   *)
(* and nobody is closed twice, which would panic (server.go:167-172,254-267). *)
SessionsReachable ==
  /\ sessions \subseteq {c \in Conns : at[c] \in {"start", "running", "ended"}}
  /\ \A c \in Conns : at[c] \in {"start", "running"} => c \in sessions \union closed
  /\ sessions \intersect closed = {}

(* At no moment of a reload can a caller meet the new phonebook together     *)
(* with old ceilings or an old trusted list (server.go:120-137).             *)
ReloadOrder == config <= trust /\ trust <= limits

(* Once Stop has swept, the slot of every session it closed is returned.     *)
SlotsDrain == (stop = "swept") ~> (total = Cardinality(Holding \ closed))

(* "a caller arriving mid-reload meets the new ceilings with the new         *)
(* phonebook, never a mix of new phonebook and old ceilings" (server.go:120). *)
NoMixedAdmission ==
  \A c \in Conns : phonebook[c] # 0 => phonebook[c] <= admitted[c]

=============================================================================
