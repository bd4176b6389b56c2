------------------------------ MODULE TraceyBan ------------------------------
(***************************************************************************)
(* One jail of TraceyBan (src/src/tracey_ban.rs) on several hosts: the     *)
(* runtime task that turns detections, operator requests and the peers'    *)
(* advertisements into bans, the firewall it commands, the file it saves   *)
(* its bans to, and the intelligence hub through which discovery           *)
(* advertises them.                                                        *)
(*                                                                         *)
(* The runtime is one task, so a handler is one step; what comes between   *)
(* two of them is time, discovery, a stop or a crash.  A ban is the time   *)
(* it expires.  The clock is common to the hosts and bounded.              *)
(***************************************************************************)
EXTENDS Naturals, FiniteSets

CONSTANTS
  Agents,         \* hosts with this jail
  Addresses,      \* source addresses
  IgnoreLists,    \* what the hosts' ignore_ips may be
  MaxRetry,       \* max_retry
  Softened,       \* fuzzy and API assessments may lower the threshold
  Durations,      \* what compute_ban_duration_ms may return
  EnforceRemote,  \* enforce_remote_bans
  Lag,            \* bound: the age of a detection when it is processed
  Horizon,        \* bound: the last time at which bans are imposed
  EndOfTime,      \* bound of the clock
  Restarting,     \* the hosts whose agent stops and starts
  Operated,       \* the hosts with an operator
  BanFaults,      \* which of "firewall", "crash", "torn" may happen
  Never,          \* the expiry of a permanent ban
  NoBan

Times == 0 .. EndOfTime
Expiries == Times \cup {Never}
NoBans == [x \in Addresses |-> NoBan]
NoFailures == [x \in Addresses |-> 0]

ASSUME BanAssumption ==
  /\ IgnoreLists \subseteq [Agents -> SUBSET Addresses]
  /\ MaxRetry \in Nat \ {0} /\ Lag \in Nat
  /\ Softened \in BOOLEAN /\ EnforceRemote \in BOOLEAN
  /\ Horizon \in Nat /\ EndOfTime \in Nat
  /\ Durations \subseteq 1 .. EndOfTime
  /\ \A d \in Durations : Horizon + d <= EndOfTime
  /\ NoBan \notin Expiries /\ Never \notin Nat

VARIABLES
  ignored,    \* the addresses each host ignores
  now,        \* now_ms
  running,    \* the hosts whose agent runs
  firewall,   \* the addresses each host's firewall blocks for this jail
  active,     \* JailRuntime.active_bans: when each ban expires
  failures,   \* length of each of JailRuntime.failure_windows
  local,      \* BanIntelState.local, read through cleanup_expired
  remote,     \* BanIntelState.remote: what each peer advertised last
  saved,      \* the bans in the state file
  granted,    \* history: the expiries detections and operators imposed
  ordered,    \* history: the addresses operators of each host banned
  lost        \* history: a crash has lost changes that were not saved

banMemory  == <<active, failures, local, remote>>
banHistory == <<granted, ordered, lost>>
banVars == <<ignored, now, running, firewall, banMemory, saved, banHistory>>

Over(expiry) == expiry \in Times /\ expiry <= now
Holds(bans, x) == bans[x] # NoBan
InForce(bans, x) == Holds(bans, x) /\ ~Over(bans[x])
Unexpired(bans) == [x \in Addresses |-> IF InForce(bans, x) THEN bans[x] ELSE NoBan]

BanInit ==
  /\ ignored \in IgnoreLists
  /\ now = 0
  /\ running = Agents
  /\ firewall = [a \in Agents |-> {}]
  /\ active = [a \in Agents |-> NoBans]
  /\ failures = [a \in Agents |-> NoFailures]
  /\ local = [a \in Agents |-> NoBans]
  /\ remote = [a \in Agents |-> [b \in Agents |-> NoBans]]
  /\ saved = [a \in Agents |-> NoBans]
  /\ granted = {}
  /\ ordered = [a \in Agents |-> {}]
  /\ lost = [a \in Agents |-> FALSE]

-----------------------------------------------------------------------------
(* install_ban_record and uninstall_ban_record                             *)

\* run_jail_action: whether the firewall accepts a command
Outcomes == {TRUE} \cup {"firewall" \notin BanFaults}

\* nothing is recorded unless the firewall accepted the rule
InstallBan(a, x, expiry, accepted) ==
  IF accepted
    THEN /\ firewall' = [firewall EXCEPT ![a] = @ \cup {x}]
         /\ active' = [active EXCEPT ![a][x] = expiry]
         /\ local' = [local EXCEPT ![a][x] = expiry]
    ELSE UNCHANGED <<firewall, active, local>>

Without(bans, released) == [x \in Addresses |-> IF x \in released THEN NoBan ELSE bans[x]]

\* mutant: the hub goes on advertising
StillAdvertised(a, released) == local[a]

\* remove_local_ban
AdvertisedWithout(a, released) == Without(local[a], released)

-----------------------------------------------------------------------------
(* process_detection                                                       *)

RemoteSupport(a, x) == Cardinality({b \in Agents : InForce(remote[a][b], x)})

\* effective_retry, which the assessments may lower down to one
Thresholds(a, x) ==
  LET base == IF RemoteSupport(a, x) >= MaxRetry THEN 1 ELSE MaxRetry - RemoteSupport(a, x)
  IN IF Softened THEN 1 .. base ELSE {base}

\* A detection that waited in the channel since ts; find_time_ms may have
\* dropped any number of the failures before it.
Detect(a, x, ts) ==
  /\ a \in running /\ x \notin ignored[a] /\ ~Holds(active[a], x)
  /\ ts <= now /\ now <= ts + Lag /\ now <= Horizon
  /\ \E kept \in 0 .. failures[a][x], threshold \in Thresholds(a, x) :
       LET attempts == IF kept < MaxRetry THEN kept + 1 ELSE MaxRetry
       IN \/ /\ attempts < threshold
             /\ failures' = [failures EXCEPT ![a][x] = attempts]
             /\ UNCHANGED <<firewall, active, local, granted>>
          \/ /\ attempts >= threshold
             /\ \E duration \in Durations, accepted \in Outcomes :
                  /\ InstallBan(a, x, ts + duration, accepted)
                  /\ failures' = [failures EXCEPT ![a][x] = IF accepted THEN 0 ELSE attempts]
                  /\ granted' = granted \cup (IF accepted THEN {<<x, ts + duration>>} ELSE {})
  /\ UNCHANGED <<ignored, now, running, remote, saved, ordered, lost>>

-----------------------------------------------------------------------------
(* process_control_request: ignore_ips do not bind the operator            *)

OperatorBan(a, x, expiry) ==
  /\ a \in running \cap Operated /\ ~Holds(active[a], x) /\ now <= Horizon
  /\ \E accepted \in Outcomes :
       /\ InstallBan(a, x, expiry, accepted)
       /\ granted' = granted \cup (IF accepted THEN {<<x, expiry>>} ELSE {})
  /\ ordered' = [ordered EXCEPT ![a] = @ \cup {x}]
  /\ UNCHANGED <<ignored, now, running, failures, remote, saved, lost>>

\* the rule is deleted whether or not a ban is recorded
OperatorUnban(a, x) ==
  /\ a \in running \cap Operated
  /\ firewall' = [firewall EXCEPT ![a] = @ \ {x}]
  /\ active' = [active EXCEPT ![a] = Without(@, {x})]
  /\ local' = [local EXCEPT ![a] = AdvertisedWithout(a, {x})]
  /\ UNCHANGED <<ignored, now, running, failures, remote, saved, banHistory>>

-----------------------------------------------------------------------------
(* The unban tick: process_unbans, then process_remote_bans                *)

\* mutant: a ban that leaves the advertisement is due
DueWhileAdvertised(a) == {x \in Addresses : InForce(local[a], x) /\ Over(active[a][x])}

Due(a) == {x \in Addresses : Holds(active[a], x) /\ Over(active[a][x])}

Enforceable(a, x) == EnforceRemote /\ x \notin ignored[a]

\* mutant: a peer's ban starts anew
AdoptedAnew(a, b, x) ==
  LET d == CHOOSE d \in Durations : TRUE
  IN IF now + d <= EndOfTime THEN now + d ELSE EndOfTime

\* a peer's ban keeps its expiry
Adopted(a, b, x) == remote[a][b][x]

\* The peers whose ban of x is adopted after the bans in released are gone: the
\* newest is tried first, an older one when the firewall refused.
Sources(a, x, released) ==
  IF Enforceable(a, x) /\ (Holds(active[a], x) => x \in released)
    THEN {b \in Agents : InForce(remote[a][b], x)} ELSE {}

Adoptable(a, released) == {x \in Addresses : Sources(a, x, released) # {}}

UnbanTick(a) ==
  /\ a \in running
  /\ \E released \in SUBSET Due(a) : \E adopted \in SUBSET Adoptable(a, released) :
       /\ "firewall" \notin BanFaults => released = Due(a) /\ adopted = Adoptable(a, released)
       /\ \E source \in [adopted -> Agents] :
            LET After(bans) == [x \in Addresses |->
                  IF x \in adopted THEN Adopted(a, source[x], x) ELSE bans[x]]
            IN /\ \A x \in adopted : source[x] \in Sources(a, x, released)
               /\ firewall' = [firewall EXCEPT ![a] = (@ \ released) \cup adopted]
               /\ active' = [active EXCEPT ![a] = After(Without(@, released))]
               /\ local' = [local EXCEPT ![a] = After(AdvertisedWithout(a, released))]
  /\ UNCHANGED <<ignored, now, running, failures, remote, saved, banHistory>>

-----------------------------------------------------------------------------
(* Discovery: build_advertisement of b's hub, ingest_remote of a's         *)

Hear(a, b) ==
  /\ a \in running /\ b \in running /\ a # b
  /\ remote' = [remote EXCEPT ![a][b] = Unexpired(local[b])]
  /\ UNCHANGED <<ignored, now, running, firewall, active, failures, local, saved, banHistory>>

\* cleanup_expired: remote_ttl_ms without an announcement of b
Forget(a, b) ==
  /\ a \in running
  /\ remote' = [remote EXCEPT ![a][b] = NoBans]
  /\ UNCHANGED <<ignored, now, running, firewall, active, failures, local, saved, banHistory>>

-----------------------------------------------------------------------------
(* The state file, stops, crashes and restarts                             *)

\* persist_runtime_state
Persist(a) ==
  /\ a \in running \cap Restarting
  /\ saved' = [saved EXCEPT ![a] = active[a]]
  /\ UNCHANGED <<ignored, now, running, firewall, banMemory, banHistory>>

LoseMemory(a) ==
  /\ running' = running \ {a}
  /\ active' = [active EXCEPT ![a] = NoBans]
  /\ failures' = [failures EXCEPT ![a] = NoFailures]
  /\ local' = [local EXCEPT ![a] = NoBans]
  /\ remote' = [remote EXCEPT ![a] = [b \in Agents |-> NoBans]]

SavedOnStop(a) == active[a]

\* shutdown: the built-in stop actions leave the firewall as it is
StopAgent(a) ==
  /\ a \in running \cap Restarting
  /\ saved' = [saved EXCEPT ![a] = SavedOnStop(a)]
  /\ LoseMemory(a)
  /\ UNCHANGED <<ignored, now, firewall, banHistory>>

CrashAgent(a) ==
  /\ a \in running \cap Restarting /\ "crash" \in BanFaults
  /\ LoseMemory(a)
  /\ lost' = [lost EXCEPT ![a] = @ \/ saved[a] # active[a]]
  /\ UNCHANGED <<ignored, now, firewall, saved, granted, ordered>>

\* a crash while the file is written in place: load_state finds no JSON
TearAgent(a) ==
  /\ a \in running \cap Restarting /\ "torn" \in BanFaults
  /\ LoseMemory(a)
  /\ saved' = [saved EXCEPT ![a] = NoBans]
  /\ lost' = [lost EXCEPT ![a] = TRUE]
  /\ UNCHANGED <<ignored, now, firewall, granted, ordered>>

\* restore_persisted_bans: bans that have expired are skipped, no action runs
StartAgent(a) ==
  /\ a \in Agents \ running
  /\ running' = running \cup {a}
  /\ active' = [active EXCEPT ![a] = Unexpired(saved[a])]
  /\ local' = [local EXCEPT ![a] = Unexpired(saved[a])]
  /\ UNCHANGED <<ignored, now, firewall, failures, remote, saved, banHistory>>

Advance ==
  /\ now < EndOfTime
  /\ now' = now + 1
  /\ UNCHANGED <<ignored, running, firewall, banMemory, saved, banHistory>>

BanNext ==
  \/ \E a \in Agents, x \in Addresses :
       \/ \E ts \in Times : Detect(a, x, ts)
       \/ \E duration \in Durations : OperatorBan(a, x, now + duration)
       \/ OperatorBan(a, x, Never)
       \/ OperatorUnban(a, x)
  \/ \E a \in Agents : \/ UnbanTick(a) \/ Persist(a) \/ StopAgent(a)
                       \/ CrashAgent(a) \/ TearAgent(a) \/ StartAgent(a)
  \/ \E a, b \in Agents : Hear(a, b) \/ Forget(a, b)
  \/ Advance

\* Time passes, the ticker of unban_check_ms never stops, and a firewall that
\* is asked again at every tick does not refuse for ever.
BanFairness ==
  WF_banVars(Advance) /\ \A a \in Agents : WF_banVars(UnbanTick(a))

BanSpec == BanInit /\ [][BanNext]_banVars
FairBanSpec == BanSpec /\ BanFairness

-----------------------------------------------------------------------------
(* Properties                                                              *)

BanTables == [Addresses -> Expiries \cup {NoBan}]

\* The values of the jail's state; an agent that is down holds no memory.
BanTypeOK ==
  /\ ignored \in IgnoreLists /\ now \in Times /\ running \subseteq Agents
  /\ firewall \in [Agents -> SUBSET Addresses]
  /\ active \in [Agents -> BanTables] /\ local \in [Agents -> BanTables]
  /\ failures \in [Agents -> [Addresses -> 0 .. MaxRetry]]
  /\ remote \in [Agents -> [Agents -> BanTables]]
  /\ saved \in [Agents -> BanTables]
  /\ granted \subseteq Addresses \X Expiries
  /\ ordered \in [Agents -> SUBSET Addresses] /\ lost \in [Agents -> BOOLEAN]
  /\ \A a \in Agents \ running : active[a] = NoBans /\ local[a] = NoBans

\* install_ban_record, uninstall_ban_record, restore_persisted_bans: an active
\* ban is enforced by the firewall, through refused commands and restarts, unless
\* a crash has come between a change and the next save; and what a host
\* advertises is a ban it has itself, with the same expiry.
BansAreEnforced ==
  \A a \in Agents, x \in Addresses :
    /\ a \in running /\ ~lost[a] /\ Holds(active[a], x) => x \in firewall[a]
    /\ InForce(local[a], x) => active[a][x] = local[a][x]

\* process_remote_bans: bans travel in circles between hosts that adopt each
\* other's, but no host ever holds one that ends later than some detection or
\* operator meant it to.
NoBanOutlivesItsOrigin ==
  \A a \in Agents, x \in Addresses :
    Holds(active[a], x) => <<x, active[a][x]>> \in granted

\* process_detection and process_remote_bans: an address a host ignores is
\* blocked there only by its own operator, whatever the peers advertise.
IgnoredUnlessOrdered ==
  \A a \in Agents : ignored[a] \cap firewall[a] \subseteq ordered[a]

\* process_unbans and process_remote_bans: on a host whose agent keeps running
\* the rules of temporary bans are removed for good in the end, although the
\* peers pass the bans on to each other.
BansRunOut ==
  \A a \in Agents \ Restarting, x \in Addresses :
    <>[](x \in firewall[a] => <<x, Never>> \in granted)

\* "only clear bans when unban succeeds"
\* (docs/TRACEYBAN_PRACTICAL_PARITY_CHECKLIST.md:19): while the agent runs, an
\* address the firewall blocks for the jail has a ban on record.
ClearedOnlyByUnban ==
  \A a \in running, x \in Addresses : x \in firewall[a] => Holds(active[a], x)
=============================================================================
