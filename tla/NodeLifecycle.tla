---------------------------- MODULE NodeLifecycle ----------------------------
(***************************************************************************)
(* The host side of Bitheim: any number of `bitheim start`, `bitheim stop` *)
(* and `bitheim status` processes working on one managed node.             *)
(*                                                                         *)
(* A command is NodeLifecycleService (application/service.py) over         *)
(* ComposeLifecycleAdapter (infrastructure/compose/adapter.py).  One step  *)
(* is one subprocess the adapter waits for, with the Python that follows   *)
(* it; between two steps anything may happen to the node.  Time is what a  *)
(* call takes off the deadline it was given, in ticks: a call takes any    *)
(* part of its budget, and times out at exactly its budget.                *)
(*                                                                         *)
(* Here and in the other modules, a definition such as AcceptsAnyCookie    *)
(* that stands right before the one it varies, Accepts, and is used        *)
(* nowhere is that code with a plausible bug in it.  It is kept to show    *)
(* that a property would notice the bug.                                   *)
(***************************************************************************)
EXTENDS ContainerState, Naturals

CONSTANTS
  Procs,           (* host processes, each of which runs one command        *)
  Timeout,         (* --timeout of start and stop                           *)
  StateBudget,     (* get_lifecycle_state's own 10 s                        *)
  StatusProbe,     (* probe_health's default 5 s                            *)
  PollProbe,       (* start_node's cap of 2 s on one readiness probe        *)
  PollSleep,       (* start_node's 0.5 s between probes                     *)
  TicksPerSecond

ASSUME BudgetAssumption ==
  /\ Timeout \in Nat \ {0}
  /\ StateBudget \in Nat \ {0}
  /\ StatusProbe \in Nat \ {0}
  /\ PollProbe \in Nat \ {0}
  /\ PollSleep \in Nat \ {0}
  /\ TicksPerSecond \in Nat \ {0}

VARIABLES
  cmd,      (* the command of a process                                     *)
  pc,       (* the call it waits for                                        *)
  budget,   (* time left to the deadline that call shares                   *)
  left,     (* time left to start_node's readiness deadline while it polls  *)
  seen,     (* the container state get_status will combine with the probe's *)
            (* health; "none" in a poll, which takes the health alone       *)
  auth,     (* the cookie the delegated probe has read                      *)
  req,      (* the process's `compose up` or `compose stop` at the daemon   *)
  outcome,  (* what the command returned or raised                          *)
  witness,  (* history: the facts that held at some moment of the command   *)
  solo      (* history: no other start or stop has run, or had a request at *)
            (* the daemon, since this one began                             *)

hostVars == <<cmd, pc, budget, left, seen, auth, req, outcome, solo>>
vars == <<runtimeVars, hostVars, witness>>

Commands == {"start", "stop", "status"}
ProbeCalls == {"cookie", "chain", "version"}
Labels ==
  {"idle", "state", "probe", "probeState", "preflight", "upWait", "sleep",
   "stopState", "stopWait", "postState", "done"} \cup ProbeCalls
NodeStates ==
  {"stopped", "starting", "healthy", "unhealthy", "incompatible", "unknown"}
Errors ==
  {"RuntimeUnavailable", "LifecycleError", "StartupTimeout", "ShutdownTimeout",
   "NodeIncompatible"}

Least(a, b) == IF a < b THEN a ELSE b
Most(a, b) == IF a < b THEN b ELSE a

Active(p) == pc[p] \notin {"idle", "done"}
InFlight(p) == req[p] \in {"up", "stop"}
Polling(p) == seen[p] = "none"

(* A start or a stop that may still act on the node.                        *)
Disturbs(p) == InFlight(p) \/ (Active(p) /\ cmd[p] # "status")

Init ==
  /\ RuntimeInit
  /\ cmd = [p \in Procs |-> "status"]
  /\ pc = [p \in Procs |-> "idle"]
  /\ budget = [p \in Procs |-> 0]
  /\ left = [p \in Procs |-> 0]
  /\ seen = [p \in Procs |-> "none"]
  /\ auth = [p \in Procs |-> "none"]
  /\ req = [p \in Procs |-> "none"]
  /\ outcome = [p \in Procs |-> "none"]
  /\ witness = [p \in Procs |-> {}]
  /\ solo = [p \in Procs |-> FALSE]

-----------------------------------------------------------------------------
(* How a host step ends: the process goes on to wait for another call, or    *)
(* its command is over.                                                      *)

Await(p, call, b, l) ==
  /\ pc' = [pc EXCEPT ![p] = call]
  /\ budget' = [budget EXCEPT ![p] = b]
  /\ left' = [left EXCEPT ![p] = l]
  /\ UNCHANGED <<cmd, outcome, solo, runtimeVars, witness>>

Finish(p, result) ==
  /\ pc' = [pc EXCEPT ![p] = "done"]
  /\ outcome' = [outcome EXCEPT ![p] = result]
  /\ budget' = [budget EXCEPT ![p] = 0]
  /\ left' = [left EXCEPT ![p] = 0]
  /\ seen' = [seen EXCEPT ![p] = "none"]
  /\ auth' = [auth EXCEPT ![p] = "none"]
  /\ UNCHANGED <<cmd, solo, runtimeVars, witness>>

(* get_status is over without HEALTHY and start_node calls adapter.start.    *)
Launch(p) ==
  /\ cmd[p] = "start"
  /\ Await(p, "preflight", Timeout, 0)
  /\ seen' = [seen EXCEPT ![p] = "none"]
  /\ auth' = [auth EXCEPT ![p] = "none"]
  /\ UNCHANGED req

(* probe_budget: 2 s, or what is left of the readiness deadline.             *)
ProbeBudget(l) == Least(PollProbe, l)

(* The next round of start_node's loop, with l left to its deadline.         *)
Poll(p, l) ==
  \/ /\ l > 0
     /\ Await(p, "probe", ProbeBudget(l), l)
     /\ UNCHANGED <<seen, auth>>
  \/ /\ l = 0
     /\ Finish(p, "StartupTimeout")

CombinedTrustsProbe(p, health) == health

(* get_status keeps UNKNOWN when `compose ps` was not conclusive.            *)
Combined(p, health) == IF seen[p] = "unknown" THEN "unknown" ELSE health

ConcludeStatusUnready(p, health) ==
  /\ ~Polling(p)
  /\ \/ /\ cmd[p] = "status" \/ Combined(p, health) # "unknown"
        /\ Finish(p, Combined(p, health))
        /\ UNCHANGED req
     \/ /\ Combined(p, health) = "unknown"
        /\ Launch(p)

(* probe_health has returned, with l left to the caller's deadline.          *)
ConcludeStatus(p, health) ==
  /\ ~Polling(p)
  /\ \/ /\ cmd[p] = "status" \/ Combined(p, health) = "healthy"
        /\ Finish(p, Combined(p, health))
        /\ UNCHANGED req
     \/ /\ Combined(p, health) # "healthy"
        /\ Launch(p)

ConcludePoll(p, health, l) ==
  /\ Polling(p)
  /\ \/ health = "healthy" /\ Finish(p, "healthy")
     \/ health = "incompatible" /\ Finish(p, "NodeIncompatible")
     \/ /\ health \notin {"healthy", "incompatible"}
        /\ l = 0
        /\ Finish(p, "StartupTimeout")
     \/ /\ health \notin {"healthy", "incompatible"}
        /\ l > 0
        /\ Await(p, "sleep", 0, l)
        /\ auth' = [auth EXCEPT ![p] = "none"]
        /\ UNCHANGED seen
  /\ UNCHANGED req

Conclude(p, health, d) ==
  ConcludeStatus(p, health) \/ ConcludePoll(p, health, left[p] - d)

-----------------------------------------------------------------------------
(* Commands begin.                                                           *)

Begin(p, c) ==
  /\ pc[p] = "idle"
  /\ cmd' = [cmd EXCEPT ![p] = c]
  /\ pc' = [pc EXCEPT ![p] = IF c = "stop" THEN "stopState" ELSE "state"]
  /\ budget' = [budget EXCEPT ![p] = IF c = "stop" THEN Timeout ELSE StateBudget]
  /\ witness' = [witness EXCEPT ![p] = Facts]
  /\ solo' = IF c = "status"
             THEN solo
             ELSE [q \in Procs |-> q = p /\ \A r \in Procs \ {p} : ~Disturbs(r)]
  /\ UNCHANGED <<runtimeVars, left, seen, auth, req, outcome>>

-----------------------------------------------------------------------------
(* _get_lifecycle_state_deadline: `docker info`, then `compose ps`.          *)

(* Every way the query has of failing raises RuntimeUnavailableError, which  *)
(* none of its callers catches: also the deadline having passed before it.   *)
QueryFails(p) ==
  /\ pc[p] \in {"state", "probeState", "stopState", "postState"}
  /\ Finish(p, "RuntimeUnavailable")
  /\ UNCHANGED req

(* get_status                                                                *)
StateQueried(p, d) ==
  /\ pc[p] = "state"
  /\ budget[p] > 0
  /\ \E s \in Reading :
       \/ /\ s = "stopped"
          /\ \/ /\ cmd[p] = "status"
                /\ Finish(p, "stopped")
                /\ UNCHANGED req
             \/ Launch(p)
       \/ /\ s # "stopped"
          /\ Await(p, "probe", StatusProbe, 0)
          /\ seen' = [seen EXCEPT ![p] = s]
          /\ UNCHANGED <<auth, req>>

(* probe_health up to its `compose run`                                      *)
ProbeStateQueried(p, d) ==
  /\ pc[p] = "probeState"
  /\ budget[p] > 0
  /\ \E s \in Reading :
       \/ s = "stopped" /\ Conclude(p, "stopped", d)
       \/ s # "stopped" /\ d = budget[p] /\ Conclude(p, "unknown", d)
       \/ /\ s # "stopped"
          /\ d < budget[p]
          /\ Await(p, "cookie", budget[p] - d, Most(left[p], d) - d)
          /\ UNCHANGED <<seen, auth, req>>

StopStateQueriedOnlyRunning(p, d) ==
  /\ pc[p] = "stopState"
  /\ budget[p] > 0
  /\ \E s \in Reading :
       \/ /\ s \in {"stopped", "unknown"}
          /\ Finish(p, "stopped")
          /\ UNCHANGED req
       \/ /\ s \in {"starting", "unhealthy"}
          /\ d < budget[p]
          /\ Await(p, "stopWait", budget[p] - d, 0)
          /\ req' = [req EXCEPT ![p] = "stop"]
          /\ UNCHANGED <<seen, auth>>

(* adapter.stop up to its `compose stop`                                     *)
StopStateQueried(p, d) ==
  /\ pc[p] = "stopState"
  /\ budget[p] > 0
  /\ \E s \in Reading :
       \/ /\ s = "stopped"
          /\ Finish(p, "stopped")
          /\ UNCHANGED req
       \/ /\ s # "stopped"
          /\ d = budget[p]
          /\ Finish(p, "ShutdownTimeout")
          /\ UNCHANGED req
       \/ /\ s # "stopped"
          /\ d < budget[p]
          /\ Await(p, "stopWait", budget[p] - d, 0)
          /\ req' = [req EXCEPT ![p] = "stop"]
          /\ UNCHANGED <<seen, auth>>

(* adapter.stop after its `compose stop`                                     *)
PostStateQueried(p, d) ==
  /\ pc[p] = "postState"
  /\ budget[p] > 0
  /\ \E s \in Reading :
       Finish(p, IF s = "stopped" THEN "stopped" ELSE "ShutdownTimeout")
  /\ UNCHANGED req

-----------------------------------------------------------------------------
(* probe_health: `docker info`, then the query above, then `compose run`.    *)

ProbeChecked(p, d) ==
  /\ pc[p] = "probe"
  /\ \/ Conclude(p, "unknown", d)
     \/ /\ Await(p, "probeState", budget[p] - d, Most(left[p], d) - d)
        /\ UNCHANGED <<seen, auth, req>>

(* The `compose run` could not be executed or reached its timeout, which     *)
(* kills it at whatever RPC call it was; or it exited with an error.         *)
ProbeRunFails(p, d) ==
  /\ pc[p] \in ProbeCalls
  /\ \/ d = budget[p] /\ Conclude(p, "unknown", d)
     \/ pc[p] = "cookie" /\ Conclude(p, "unknown", d)
     \/ Conclude(p, "unhealthy", d)

(* probe_rpc_http in the container.  The cookie is read once, for both calls.*)
CookieRead(p, d) ==
  /\ pc[p] = "cookie"
  /\ \/ cookie = "absent" /\ Conclude(p, "starting", d)
     \/ /\ cookie # "absent"
        /\ Await(p, "chain", budget[p] - d, Most(left[p], d) - d)
        /\ auth' = [auth EXCEPT ![p] = IF cookie = "current" THEN "valid" ELSE "stale"]
        /\ UNCHANGED <<seen, req>>

AcceptsAnyCookie(p) == rpc = "ready"
AcceptsWarming(p) == rpc # "closed" /\ auth[p] = "valid"

(* The RPC server executes the call it is sent with the cookie p has read.   *)
Accepts(p) == rpc = "ready" /\ auth[p] = "valid"

(* _categorize_rpc_failure: no connection or warming up is "starting"; a     *)
(* refused cookie, another HTTP status or a malformed answer "unhealthy".    *)
RpcFails(p, d) ==
  /\ pc[p] \in {"chain", "version"}
  /\ \/ Conclude(p, "starting", d)
     \/ rpc # "closed" /\ Conclude(p, "unhealthy", d)

ChainChecked(p, d) ==
  /\ pc[p] = "chain"
  /\ Accepts(p)
  /\ \/ image = "wrongChain" /\ Conclude(p, "incompatible", d)
     \/ /\ image # "wrongChain"
        /\ Await(p, "version", budget[p] - d, Most(left[p], d) - d)
        /\ UNCHANGED <<seen, auth, req>>

VersionUnchecked(p, d) ==
  /\ pc[p] = "version"
  /\ Accepts(p)
  /\ Conclude(p, "healthy", d)

VersionChecked(p, d) ==
  /\ pc[p] = "version"
  /\ Accepts(p)
  /\ Conclude(p, IF image = "wrongVersion" THEN "incompatible" ELSE "healthy", d)

-----------------------------------------------------------------------------
(* adapter.start and adapter.stop                                            *)

PreflightFreshDeadline(p, d) ==
  /\ pc[p] = "preflight"
  /\ \/ d = budget[p] /\ Finish(p, "StartupTimeout") /\ UNCHANGED req
     \/ /\ d < budget[p]
        /\ Await(p, "upWait", Timeout, 0)
        /\ req' = [req EXCEPT ![p] = "up"]
        /\ UNCHANGED <<seen, auth>>

(* `docker info`, the subnet check and both images, up to spawning           *)
(* `compose up`; module Preflight has what is inside.                        *)
Preflight(p, d) ==
  /\ pc[p] = "preflight"
  /\ \/ \E e \in {"RuntimeUnavailable", "LifecycleError"} : Finish(p, e) /\ UNCHANGED req
     \/ d = budget[p] /\ Finish(p, "StartupTimeout") /\ UNCHANGED req
     \/ /\ d < budget[p]
        /\ Await(p, "upWait", budget[p] - d, 0)
        /\ req' = [req EXCEPT ![p] = "up"]
        /\ UNCHANGED <<seen, auth>>

(* A request whose CLI has reported an error goes no further.                *)
Withdrawn(p) == IF InFlight(p) THEN "none" ELSE req[p]

UpReturnsPollsAnyway(p, d) ==
  /\ pc[p] = "upWait"
  /\ req[p] = "done" \/ d = budget[p]
  /\ Poll(p, Timeout)
  /\ UNCHANGED req

UpReturns(p, d) ==
  /\ pc[p] = "upWait"
  /\ \/ /\ req[p] = "done"
        /\ Poll(p, Timeout)
        /\ UNCHANGED req
     \/ /\ Finish(p, "LifecycleError")
        /\ req' = [req EXCEPT ![p] = Withdrawn(p)]
     \/ /\ d = budget[p]
        /\ Finish(p, "StartupTimeout")
        /\ UNCHANGED req

SleptNotAtAll(p, d) ==
  /\ pc[p] = "sleep"
  /\ d \in 0..left[p]
  /\ Poll(p, left[p] - d)
  /\ UNCHANGED req

(* time.sleep(min(0.5, remaining)) and the check that follows it.            *)
Slept(p, d) ==
  /\ pc[p] = "sleep"
  /\ d \in Least(PollSleep, left[p])..left[p]
  /\ Poll(p, left[p] - d)
  /\ UNCHANGED req

StopReturns(p, d) ==
  /\ pc[p] = "stopWait"
  /\ \/ /\ req[p] \in {"done", "killed"}
        /\ Await(p, "postState", budget[p] - d, 0)
        /\ UNCHANGED <<seen, auth, req>>
     \/ /\ Finish(p, "LifecycleError")
        /\ req' = [req EXCEPT ![p] = Withdrawn(p)]
     \/ /\ d = budget[p]
        /\ Finish(p, "ShutdownTimeout")
        /\ UNCHANGED req

(* One step of the command of p, which takes d ticks.                        *)
HostStep(p, d) ==
  /\ pc[p] = "sleep" \/ d <= budget[p]
  /\ \/ QueryFails(p)
     \/ StateQueried(p, d)
     \/ ProbeStateQueried(p, d)
     \/ StopStateQueried(p, d)
     \/ PostStateQueried(p, d)
     \/ ProbeChecked(p, d)
     \/ ProbeRunFails(p, d)
     \/ CookieRead(p, d)
     \/ RpcFails(p, d)
     \/ ChainChecked(p, d)
     \/ VersionChecked(p, d)
     \/ Preflight(p, d)
     \/ UpReturns(p, d)
     \/ Slept(p, d)
     \/ StopReturns(p, d)

-----------------------------------------------------------------------------
(* The daemon carries out the requests, also those whose CLI was killed at   *)
(* its timeout, and the node goes on by itself.                              *)

(* A change of the node: every command under way witnesses what becomes      *)
(* true, and no cookie read before outlives the process that wrote it.       *)
NodeChanges ==
  /\ witness' = [p \in Procs |-> IF Active(p) THEN witness[p] \cup Facts' ELSE witness[p]]
  /\ auth' = [p \in Procs |->
                IF auth[p] = "valid" /\ rpc' = "closed" THEN "stale" ELSE auth[p]]
  /\ UNCHANGED <<cmd, pc, left, seen, outcome, solo>>

Settle(p, how) == req' = [req EXCEPT ![p] = how]

(* Compose starts what is not running, leaves alone what is, and replaces a  *)
(* container whose image has since been rebuilt: the old one is stopped and, *)
(* if the CLI is still there to ask for it, a new one started.               *)
DaemonStarts(p) ==
  /\ req[p] = "up"
  /\ \E img \in Images : Boot(img)
  /\ NodeChanges
  /\ Settle(p, "done")
  /\ UNCHANGED budget

DaemonReplaces(p) ==
  /\ req[p] = "up"
  /\ Halt
  /\ NodeChanges
  /\ Settle(p, IF Active(p) THEN "up" ELSE "done")
  /\ UNCHANGED budget

DaemonLeaves(p) ==
  /\ \/ req[p] = "up" /\ container # "down"
     \/ req[p] = "stop" /\ container = "down"
  /\ Settle(p, "done")
  /\ UNCHANGED <<runtimeVars, witness, cmd, pc, budget, left, seen, auth, outcome, solo>>

DaemonStops(p) ==
  /\ req[p] = "stop"
  /\ Halt
  /\ NodeChanges
  /\ Settle(p, "done")
  /\ UNCHANGED budget

(* `compose stop -t max(1, int(r))`: whole seconds of the budget of the call.*)
Grace(p) == TicksPerSecond * Most(1, budget[p] \div TicksPerSecond)

DaemonKillsPastTimeout(p, d) ==
  /\ req[p] = "stop"
  /\ Killed
  /\ NodeChanges
  /\ Settle(p, "killed")
  /\ d = IF Active(p) THEN Grace(p) ELSE 0
  /\ budget' = [budget EXCEPT ![p] = @ - d]

(* SIGKILL, Grace(p) after the call began and before the call's own timeout, *)
(* which is the remaining budget; no clock binds an orphaned stop.           *)
DaemonKills(p, d) ==
  /\ req[p] = "stop"
  /\ Killed
  /\ NodeChanges
  /\ Settle(p, "killed")
  /\ d = IF Active(p) THEN Grace(p) ELSE 0
  /\ d <= budget[p]
  /\ budget' = [budget EXCEPT ![p] = @ - d]

DaemonStep(p) ==
  \/ DaemonStarts(p)
  \/ DaemonReplaces(p)
  \/ DaemonLeaves(p)
  \/ DaemonStops(p)

NodeStep ==
  /\ Listen \/ WarmedUp \/ Crash \/ Restart
  /\ NodeChanges
  /\ UNCHANGED <<budget, req>>

Ticks == 0..Most(Timeout, Most(StateBudget, Most(StatusProbe, PollProbe)))

Next ==
  \/ \E p \in Procs, c \in Commands : Begin(p, c)
  \/ \E p \in Procs, d \in Ticks : HostStep(p, d)
  \/ \E p \in Procs, d \in Ticks : DaemonKills(p, d)
  \/ \E p \in Procs : DaemonStep(p)
  \/ NodeStep

Spec == Init /\ [][Next]_vars

(* subprocess.run returns by its timeout and time.sleep returns: a command   *)
(* that has begun is never left waiting.  Nothing else is promised: neither  *)
(* that a command is issued nor that the daemon or the node ever moves.      *)
FairSpec == Spec /\ \A p \in Procs : WF_vars(\E d \in Ticks : HostStep(p, d))

-----------------------------------------------------------------------------
TypeOK ==
  /\ RuntimeTypeOK
  /\ cmd \in [Procs -> Commands]
  /\ pc \in [Procs -> Labels]
  /\ budget \in [Procs -> Nat]
  /\ left \in [Procs -> Nat]
  /\ seen \in [Procs -> {"none", "starting", "unhealthy", "unknown"}]
  /\ auth \in [Procs -> {"none", "valid", "stale"}]
  /\ req \in [Procs -> {"none", "up", "stop", "done", "killed"}]
  /\ outcome \in [Procs -> {"none"} \cup NodeStates \cup Errors]
  /\ witness \in [Procs -> SUBSET {"down", "compatible", "incompatible"}]
  /\ solo \in [Procs -> BOOLEAN]

(* SPEC-0004 10.2: `start` and `status` report HEALTHY only of a node that,  *)
(* at one moment of the command, had its RPC server ready and reported both  *)
(* chain regtest and version 310100.  probe_rpc_http asks for the two in two *)
(* calls, and the node may be replaced between them.                         *)
HealthyWasSeen ==
  \A p \in Procs : outcome[p] = "healthy" => "compatible" \in witness[p]

(* A node is called incompatible only if it was: a crash, a rotated cookie   *)
(* or a slow start never ends a `start` with NodeIncompatibleError.          *)
IncompatibleWasSeen ==
  \A p \in Procs :
    outcome[p] \in {"incompatible", "NodeIncompatible"} => "incompatible" \in witness[p]

(* stop_node's "verified STOPPED state", and the STOPPED of `status`: the    *)
(* container really was down at some moment of the command.                  *)
StoppedWasSeen ==
  \A p \in Procs : outcome[p] = "stopped" => "down" \in witness[p]

(* A stop that no other start or stop has disturbed since it began leaves    *)
(* the node down for good: neither the restart policy nor a request of its   *)
(* own still at the daemon brings it back.                                   *)
StopHolds ==
  \A p \in Procs :
    solo[p] /\ cmd[p] = "stop" /\ outcome[p] = "stopped" => container = "down"

(* A start that no other start or stop has disturbed since it began leaves a *)
(* compatible node in place, if only between a crash and its restart.        *)
StartHolds ==
  \A p \in Procs :
    solo[p] /\ cmd[p] = "start" /\ outcome[p] = "healthy"
      => container # "down" /\ image = "good"

(* Once every command has ended with success, none of their requests is left *)
(* at the daemon to change the node behind the user's back.                  *)
SuccessLeavesNothing ==
  \A p \in Procs : outcome[p] \in NodeStates => ~InFlight(p)

(* SPEC-0004 10.2: `unknown` "when the runtime itself cannot be inspected     *)
(* safely".  Once `compose ps` has been inconclusive, neither the queries of  *)
(* the probe that follows, which may well be conclusive, nor what the node    *)
(* then answers lets the command claim a state: start_node launches, and      *)
(* get_status says "unknown" or fails with the runtime.                       *)
UnknownStateIsKept ==
  [][\A p \in Procs :
       seen[p] = "unknown" /\ outcome'[p] # outcome[p]
         => outcome'[p] \in {"unknown", "RuntimeUnavailable"}]_vars

(* What the service promises, apart from how it keeps it: module             *)
(* LifecycleContract, whose commands end with a result of their own docstring *)
(* and a claim about the node only if it was so.                             *)
Phase ==
  [p \in Procs |-> IF Active(p) THEN "active" ELSE pc[p]]

Contract == INSTANCE LifecycleContract WITH facts <- Facts, phase <- Phase

KeepsContract == Contract!Spec

(* Every command that has begun ends, whatever Docker and the node do.       *)
CommandsEnd == \A p \in Procs : Active(p) ~> pc[p] = "done"

-----------------------------------------------------------------------------
(* What the documentation says and the code does not do.                     *)

(* SPEC-0004 10.1: concurrent operations "must not race into duplicate or    *)
(* destructive Compose operations".                                          *)
NoRacingRequests ==
  \A p, q \in Procs : p # q => ~(InFlight(p) /\ InFlight(q))

(* probe_health "returns UNKNOWN on expired budget": it does not raise.      *)
ExpiredProbeIsUnknown ==
  [][\A p \in Procs :
       pc[p] = "probeState" /\ budget[p] = 0 => outcome'[p] # "RuntimeUnavailable"]_vars

(* SPEC-0004 10.3: a forceful termination "must be reported distinctly" from *)
(* a graceful one, so a plain STOPPED says the node was not killed.          *)
KillIsReported ==
  \A p \in Procs : outcome[p] = "stopped" => req[p] # "killed"

=============================================================================
