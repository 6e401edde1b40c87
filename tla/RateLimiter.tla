---------------------------- MODULE RateLimiter ----------------------------
(***************************************************************************)
(* The rate limiter of internal/server/ratelimit.go: Allow, called by one  *)
(* goroutine per connection, SetLimits and SetTrustedProxies, called by a  *)
(* reload, the cleanup goroutine, and Stop.                                *)
(*                                                                         *)
(* Time is kept as ages: an attempt recorded at t is the number now - t,   *)
(* the global window is the age of its start, a block is the time it still *)
(* has to run.  Ages stop at Horizon, which is past every window, so the   *)
(* clock itself needs no bound.  An address without attempts is one that   *)
(* is not in the map: no operation leaves an empty slice behind.           *)
(***************************************************************************)
EXTENDS Integers, FiniteSets, Sequences

CONSTANTS
  Ips,          \* peer addresses
  Limits,       \* the settings a reload may push: [enabled, max, window, block]
  TrustedSets,  \* the trusted-proxy sets a reload may push
  MaxTracked,   \* maxTrackedIPs
  GlobalMax,    \* globalMaxRate
  Horizon       \* bound: ages stop here

ASSUME LimitsAssumption ==
  /\ IsFiniteSet(Ips) /\ TrustedSets \subseteq SUBSET Ips
  /\ MaxTracked \in Nat \ {0} /\ GlobalMax \in Nat /\ Horizon \in Nat
  /\ Limits \subseteq [enabled : BOOLEAN, max : Nat, window : 0..(Horizon - 1), block : Nat]

VARIABLES
  limits,       \* enabled, maxAttempts, window, blockDuration
  trusted,      \* the trusted-proxy set
  attempts,     \* attempts[ip]: the ages of its attempts, oldest first
  blocked,      \* blocked[ip]: time left of its block, or Never
  globalCount,  \* allows counted in the current global window
  globalAge,    \* age of the current global window
  inside,       \* calls of Allow that have read enabled and wait for the lock
  cleaner,      \* the cleanup goroutine: "running" or "stopped"
  log,          \* ghost: log[ip], ages of the attempts allowed since the last amnesty
  passes,       \* ghost: ages of all counted allows since the last SetLimits
  sentence      \* ghost: sentence[ip], what is left of its last block

settings == <<limits, trusted>>
table    == <<attempts, blocked>>
global   == <<globalCount, globalAge>>
ghosts   == <<log, passes, sentence>>
vars == <<settings, table, global, inside, cleaner, ghosts>>

Never == -2     \* not in the blocked map
Past  == -1     \* in it, and strictly over

Init ==
  /\ limits \in Limits /\ trusted \in TrustedSets
  /\ attempts = [ip \in Ips |-> <<>>] /\ blocked = [ip \in Ips |-> Never]
  /\ globalCount = 0 /\ globalAge = 0
  /\ inside = {} /\ cleaner = "running"
  /\ log = [ip \in Ips |-> <<>>] /\ passes = <<>> /\ sentence = [ip \in Ips |-> 0]

-----------------------------------------------------------------------------
(* The ages are oldest first: the first one below w and all after it. *)
Within(ages, w) ==
  LET old == {i \in DOMAIN ages : ages[i] >= w}
  IN SubSeq(ages, Cardinality(old) + 1, Len(ages))

(* cleanAttemptsLocked: t.After(now - window). *)
Recent(ip) == Within(attempts[ip], limits.window)

Tracked == {ip \in Ips : attempts[ip] # <<>>}

LastAge(ip) == attempts[ip][Len(attempts[ip])]

(* Mutant: evicts one entry too late. *)
VictimsLate(ip) ==
  IF ip \notin Tracked /\ Cardinality(Tracked) > MaxTracked
  THEN {{v} : v \in {x \in Tracked : \A y \in Tracked : LastAge(x) >= LastAge(y)}}
  ELSE {{}}

(* The entries evictOldestLocked may remove to make room for ip: of several *)
(* with the same last time, the one the map's iteration meets first.        *)
Victims(ip) ==
  IF ip \notin Tracked /\ Cardinality(Tracked) >= MaxTracked
  THEN {{v} : v \in {x \in Tracked : \A y \in Tracked : LastAge(x) >= LastAge(y)}}
  ELSE {{}}

(* The global window has run out: the count starts anew. *)
WindowOver == globalAge > limits.window
Count      == IF WindowOver THEN 0 ELSE globalCount

(* What every verdict under the lock does to the global window. *)
Counting(n) ==
  /\ globalCount' = n
  /\ globalAge' = IF WindowOver THEN 0 ELSE globalAge

-----------------------------------------------------------------------------
(* Allow *)

(* enabled is read before the lock is taken.  A call that finds it off       *)
(* returns true and leaves no trace, so it is not a step.                    *)
Enter(ip) ==
  /\ ip \notin inside /\ limits.enabled
  /\ inside' = inside \union {ip}
  /\ UNCHANGED <<settings, table, global, cleaner, ghosts>>

Locked(ip) ==
  /\ ip \in inside
  /\ inside' = inside \ {ip}

RefuseAll(ip) ==
  /\ Locked(ip)
  /\ Count >= GlobalMax
  /\ Counting(Count)
  /\ UNCHANGED <<settings, table, cleaner, ghosts>>

(* Mutant: a proxy is let in before the global ceiling is looked at. *)
PassTrustedFirst(ip) ==
  /\ Locked(ip)
  /\ ip \in trusted
  /\ Counting(Count + 1)
  /\ passes' = Append(passes, 0)
  /\ UNCHANGED <<settings, table, cleaner, log, sentence>>

(* Mutant: a proxy's connection is not counted. *)
PassTrustedUncounted(ip) ==
  /\ Locked(ip)
  /\ Count < GlobalMax /\ ip \in trusted
  /\ Counting(Count)
  /\ passes' = Append(passes, 0)
  /\ UNCHANGED <<settings, table, cleaner, log, sentence>>

(* A trusted proxy is counted, and not limited by address. *)
PassTrusted(ip) ==
  /\ Locked(ip)
  /\ Count < GlobalMax /\ ip \in trusted
  /\ Counting(Count + 1)
  /\ passes' = Append(passes, 0)
  /\ UNCHANGED <<settings, table, cleaner, log, sentence>>

StillBlocked(ip) ==
  /\ Locked(ip)
  /\ Count < GlobalMax /\ ip \notin trusted /\ blocked[ip] > 0
  /\ Counting(Count)
  /\ UNCHANGED <<settings, table, cleaner, ghosts>>

(* Not blocked, or no longer: the attempts of the address are cleaned and   *)
(* room is made for it in the table.                                        *)
Judged(ip) ==
  /\ Locked(ip)
  /\ Count < GlobalMax /\ ip \notin trusted /\ blocked[ip] <= 0

(* ip's entry becomes mine, and those of the victims are gone; so is, for   *)
(* the ghost, what is held against them.                                    *)
Rewrite(f, ip, gone, mine) ==
  [x \in Ips |-> IF x = ip THEN mine ELSE IF x \in gone THEN <<>> ELSE f[x]]

(* Too many attempts: the address is blocked, its attempts forgotten. *)
Block(ip) ==
  /\ Judged(ip)
  /\ Len(Recent(ip)) >= limits.max
  /\ \E gone \in Victims(ip) :
       /\ attempts' = Rewrite(attempts, ip, gone, <<>>)
       /\ log' = Rewrite(log, ip, gone, log[ip])
  /\ blocked' = [blocked EXCEPT ![ip] = limits.block]
  /\ sentence' = [sentence EXCEPT ![ip] = limits.block]
  /\ Counting(Count)
  /\ UNCHANGED <<settings, cleaner, passes>>

(* Mutant: records no attempt for an address that was just blocked. *)
RecordForgets(ip) ==
  /\ Judged(ip)
  /\ Len(Recent(ip)) < limits.max
  /\ \E gone \in Victims(ip) :
       /\ attempts' = Rewrite(attempts, ip, gone,
                              IF blocked[ip] = Never THEN Append(Recent(ip), 0) ELSE Recent(ip))
       /\ log' = Rewrite(log, ip, gone, Append(log[ip], 0))
  /\ blocked' = [blocked EXCEPT ![ip] = Never]
  /\ Counting(Count + 1)
  /\ passes' = Append(passes, 0)
  /\ UNCHANGED <<settings, cleaner, sentence>>

Record(ip) ==
  /\ Judged(ip)
  /\ Len(Recent(ip)) < limits.max
  /\ \E gone \in Victims(ip) :
       /\ attempts' = Rewrite(attempts, ip, gone, Append(Recent(ip), 0))
       /\ log' = Rewrite(log, ip, gone, Append(log[ip], 0))
  /\ blocked' = [blocked EXCEPT ![ip] = Never]
  /\ Counting(Count + 1)
  /\ passes' = Append(passes, 0)
  /\ UNCHANGED <<settings, cleaner, sentence>>

Allow(ip) ==
  Enter(ip) \/ RefuseAll(ip) \/ PassTrusted(ip) \/ StillBlocked(ip) \/ Block(ip) \/ Record(ip)

-----------------------------------------------------------------------------
(* Mutant: rebuilds the limiter, which forgives the blocked. *)
SetLimitsRebuilds(l) ==
  /\ limits' = l
  /\ blocked' = [ip \in Ips |-> Never]
  /\ log' = [ip \in Ips |-> <<>>] /\ passes' = <<>>
  /\ UNCHANGED <<trusted, attempts, global, inside, cleaner, sentence>>

(* SetLimits changes the thresholds and keeps the table.  What was allowed  *)
(* under other limits is not held against the new ones: the ghosts restart. *)
SetLimits(l) ==
  /\ limits' = l
  /\ log' = [ip \in Ips |-> <<>>] /\ passes' = <<>>
  /\ UNCHANGED <<trusted, table, global, inside, cleaner, sentence>>

SetTrustedProxies(nets) ==
  /\ trusted' = nets
  /\ UNCHANGED <<limits, table, global, inside, cleaner, ghosts>>

(* Mutant: looks at the attempts only. *)
CleanupSkipsBlocks ==
  /\ cleaner = "running"
  /\ attempts' = [ip \in Ips |-> Recent(ip)]
  /\ UNCHANGED <<settings, blocked, global, inside, cleaner, ghosts>>

(* One tick of the cleanup goroutine; now.After(blockedUntil) is strict. *)
Cleanup ==
  /\ cleaner = "running"
  /\ blocked' = [ip \in Ips |-> IF blocked[ip] = Past THEN Never ELSE blocked[ip]]
  /\ attempts' = [ip \in Ips |-> Recent(ip)]
  /\ UNCHANGED <<settings, global, inside, cleaner, ghosts>>

(* The cleanup goroutine returns once Stop has closed done: Stop does        *)
(* nothing else, and a tick that is due may still be taken before.           *)
StopLimiter ==
  /\ cleaner = "running"
  /\ cleaner' = "stopped"
  /\ UNCHANGED <<settings, table, global, inside, ghosts>>

Older(a) == IF a < Horizon THEN a + 1 ELSE a
Aged(ages) == [i \in DOMAIN ages |-> Older(ages[i])]

(* Time passes.  The ghosts forget what no window reaches any more. *)
Tick ==
  /\ attempts' = [ip \in Ips |-> Aged(attempts[ip])]
  /\ blocked' = [ip \in Ips |-> IF blocked[ip] > Past THEN blocked[ip] - 1 ELSE blocked[ip]]
  /\ globalAge' = Older(globalAge)
  /\ log' = [ip \in Ips |-> Within(Aged(log[ip]), Horizon)]
  /\ passes' = Within(Aged(passes), Horizon)
  /\ sentence' = [ip \in Ips |-> IF sentence[ip] > 0 THEN sentence[ip] - 1 ELSE 0]
  /\ UNCHANGED <<settings, globalCount, inside, cleaner>>

Next ==
  \/ \E ip \in Ips : Allow(ip)
  \/ \E l \in Limits : SetLimits(l)
  \/ \E nets \in TrustedSets : SetTrustedProxies(nets)
  \/ Cleanup \/ StopLimiter \/ Tick

Spec == Init /\ [][Next]_vars

(* The ticker of the cleanup goroutine goes on, and so does time. *)
FairSpec == Spec /\ WF_vars(Cleanup) /\ WF_vars(Tick)

-----------------------------------------------------------------------------
(* Properties *)

Ages == 0..Horizon

TypeOK ==
  /\ limits \in Limits /\ trusted \in TrustedSets
  /\ attempts \in [Ips -> Seq(Ages)]
  /\ blocked \in [Ips -> {Never, Past} \union Nat]
  /\ globalCount \in 0..GlobalMax /\ globalAge \in Ages
  /\ inside \subseteq Ips /\ cleaner \in {"running", "stopped"}
  /\ log \in [Ips -> Seq(Ages)] /\ passes \in Seq(Ages)
  /\ sentence \in [Ips -> Nat]

(* The table of attempts never outgrows maxTrackedIPs, however many         *)
(* addresses knock, and also when an address that was cleaned to nothing    *)
(* comes back at capacity (ratelimit.go:152-156).                           *)
TableBounded == Cardinality(Tracked) <= MaxTracked

(* An address that is blocked has no attempts on record, so that it starts  *)
(* afresh when its block ends and cannot be evicted while it lasts.         *)
BlockedStartsAfresh == \A ip \in Ips : blocked[ip] # Never => attempts[ip] = <<>>

(* A block lasts: until it is over no attempt of the address is counted,    *)
(* whatever a reload, the cleanup or a flood of other addresses does        *)
(* meanwhile ("raising a limit should not thereby forgive whoever is        *)
(* currently blocked", ratelimit.go:90-93).  Switching the limiter off or   *)
(* trusting the address lets it in without counting it.                     *)
BlockServed ==
  [][\A ip \in Ips : Len(log'[ip]) > Len(log[ip]) => sentence[ip] = 0]_vars

(* No more than maxAttempts connections of an address pass in any window    *)
(* (README.md:582), provided a block lasts at least a window, as it does    *)
(* with the defaults: a shorter block forgets the attempts that led to it.  *)
(* An eviction and a change of the limits are the two other amnesties.      *)
AddressWithinLimit ==
  limits.block >= limits.window =>
    \A ip \in Ips : Len(Within(log[ip], limits.window)) <= limits.max

(* The global ceiling holds per window, and the windows do not slide: any   *)
(* stretch of time as long as a window sees at most twice the ceiling,      *)
(* trusted proxies included (ratelimit.go:60-62, 121-124).                  *)
BurstBounded == Len(Within(passes, limits.window)) <= 2 * GlobalMax

(* What no longer says anything of an address is forgotten, even if the     *)
(* address never calls again.                                               *)
Stale(ip) == blocked[ip] = Past \/ (attempts[ip] # <<>> /\ Recent(ip) = <<>>)
StaleForgotten == \A ip \in Ips : Stale(ip) ~> (~Stale(ip) \/ cleaner = "stopped")

=============================================================================
