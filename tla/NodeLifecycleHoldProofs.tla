------------------------ MODULE NodeLifecycleHoldProofs ------------------------
(***************************************************************************)
(* Proofs that what a start or a stop has achieved holds, for any number   *)
(* of processes and any budgets.  Only a Compose request takes the node    *)
(* down or brings another one up; so it is enough to know whose requests   *)
(* there can be, which is what HoldInv says.                               *)
(***************************************************************************)
EXTENDS LifecycleContractProofs

(* A request at the daemon is one its process waits for, or one it gave up.  *)
RequestInv ==
  \A p \in Procs :
    InFlight(p) =>
      /\ cmd[p] # "status"
      /\ pc[p] \in {"upWait", "stopWait"} \/ outcome[p] \in Errors

(* solo means what it says.                                                  *)
SoloInv == \A p \in Procs : solo[p] => \A q \in Procs \ {p} : ~Disturbs(q)

HoldInv ==
  /\ RequestInv
  /\ SoloInv
  /\ StopHolds
  /\ StartHolds

(* What a host step of p does to the state HoldInv is about.                 *)
Effects(p) ==
  /\ UNCHANGED <<cmd, solo, runtimeVars>>
  /\ \A q \in Procs \ {p} : pc'[q] = pc[q] /\ req'[q] = req[q] /\ outcome'[q] = outcome[q]
  /\ InFlight(p)' =>
       /\ cmd[p] # "status"
       /\ pc'[p] \in {"upWait", "stopWait"} \/ outcome'[p] \in Errors
  /\ outcome'[p] = "stopped" => container = "down"
  /\ outcome'[p] = "healthy" => container # "down" /\ image = "good"

-----------------------------------------------------------------------------
(* A command ends, with no request of its own or with an error.              *)
LEMMA FinishEffects ==
  ASSUME IInv, RequestInv, NEW p \in Procs, Active(p), NEW result, Finish(p, result),
         req' \in [Procs -> {"none", "up", "stop", "done", "killed"}],
         \A q \in Procs \ {p} : req'[q] = req[q],
         InFlight(p)' => cmd[p] # "status" /\ result \in Errors,
         result = "stopped" => container = "down",
         result = "healthy" => container # "down" /\ image = "good"
  PROVE  Effects(p)
  BY DEF IInv, TypeOK, Finish, Effects, InFlight

(* A command goes on, with a request only if it will wait for it.            *)
LEMMA AwaitEffects ==
  ASSUME IInv, RequestInv, NEW p \in Procs, Active(p), NEW call, NEW b, NEW l,
         Await(p, call, b, l),
         req' \in [Procs -> {"none", "up", "stop", "done", "killed"}],
         \A q \in Procs \ {p} : req'[q] = req[q],
         InFlight(p)' => cmd[p] # "status" /\ call \in {"upWait", "stopWait"}
  PROVE  Effects(p)
  BY DEF IInv, TypeOK, NoResultYet, Await, Effects, InFlight, Active

(* Away from the two calls that wait for Compose, there is no request.       *)
LEMMA NoRequest ==
  ASSUME IInv, RequestInv, NEW p \in Procs, Active(p), pc[p] \notin {"upWait", "stopWait"},
         UNCHANGED req
  PROVE  /\ ~InFlight(p)'
         /\ req' \in [Procs -> {"none", "up", "stop", "done", "killed"}]
         /\ \A q \in Procs \ {p} : req'[q] = req[q]
  BY DEF IInv, TypeOK, NoResultYet, RequestInv, InFlight, Active, Errors

LEMMA LaunchEffects ==
  ASSUME IInv, RequestInv, NEW p \in Procs, Active(p),
         pc[p] \notin {"upWait", "stopWait"}, Launch(p)
  PROVE  Effects(p)
  BY NoRequest, AwaitEffects DEF Launch

LEMMA PollEffects ==
  ASSUME IInv, RequestInv, NEW p \in Procs, Active(p), NEW l, Poll(p, l),
         req' \in [Procs -> {"none", "up", "stop", "done", "killed"}],
         \A q \in Procs \ {p} : req'[q] = req[q], ~InFlight(p)'
  PROVE  Effects(p)
  BY AwaitEffects, FinishEffects DEF Poll

LEMMA ConcludeEffects ==
  ASSUME IInv, RequestInv, NEW p \in Procs, Active(p), pc[p] \in ProbeLabels,
         NEW health \in NodeStates, NEW d, Conclude(p, health, d),
         health = "stopped" => container = "down",
         health = "healthy" => container # "down" /\ image = "good"
  PROVE  Effects(p)
  <1>0. pc[p] \notin {"upWait", "stopWait"}
    BY DEF ProbeLabels, ProbeCalls
  <1>1. ASSUME NEW result, Finish(p, result), UNCHANGED req,
               result \in {health, "unknown", "NodeIncompatible", "StartupTimeout"}
        PROVE  Effects(p)
    BY <1>0, <1>1, NoRequest, FinishEffects
  <1>2. ASSUME Launch(p) PROVE Effects(p)
    BY <1>0, <1>2, LaunchEffects
  <1>3. CASE ConcludeStatus(p, health)
    BY <1>1, <1>2, <1>3 DEF ConcludeStatus, Combined
  <1>4. CASE ConcludePoll(p, health, left[p] - d)
    <2>1. ASSUME Await(p, "sleep", 0, left[p] - d), UNCHANGED req
          PROVE  Effects(p)
      BY <1>0, <2>1, NoRequest, AwaitEffects
    <2> QED
      BY <1>1, <1>4, <2>1 DEF ConcludePoll
  <1> QED
    BY <1>3, <1>4 DEF Conclude

-----------------------------------------------------------------------------
(* A probe's call that leads to another.                                     *)
LEMMA ProbeEffects ==
  ASSUME IInv, RequestInv, NEW p \in Procs, pc[p] \in ProbeLabels,
         NEW call, NEW b, NEW l, Await(p, call, b, l), UNCHANGED req
  PROVE  Effects(p)
  <1>1. Active(p) /\ pc[p] \notin {"upWait", "stopWait"}
    BY DEF Active, ProbeLabels, ProbeCalls
  <1> QED
    BY <1>1, NoRequest, AwaitEffects

LEMMA HostEffects ==
  ASSUME IInv, RequestInv, CommandInv, NEW p \in Procs, NEW d, HostStep(p, d)
  PROVE  Effects(p)
  <1> DEFINE ReqOK == /\ req' \in [Procs -> {"none", "up", "stop", "done", "killed"}]
                      /\ \A q \in Procs \ {p} : req'[q] = req[q]
  <1>a. Active(p)
    BY HostStepActive
  <1>b. ASSUME pc[p] \in ProbeLabels,
               NEW h \in {"starting", "unhealthy", "unknown", "incompatible"},
               Conclude(p, h, d)
        PROVE  Effects(p)
    BY <1>a, <1>b, ConcludeEffects DEF NodeStates
  <1>c. ASSUME NEW result, Finish(p, result), UNCHANGED req,
               pc[p] \notin {"upWait", "stopWait"},
               result = "stopped" => container = "down",
               result # "healthy"
        PROVE  Effects(p)
    BY <1>a, <1>c, NoRequest, FinishEffects
  <1>d. ASSUME NEW s \in Reading, s = "stopped" PROVE container = "down"
    BY <1>d, ReadingSound DEF IInv, TypeOK
  <1>e. ASSUME NEW how \in {"none", "up", "stop"}, req' = [req EXCEPT ![p] = how]
        PROVE  ReqOK /\ req'[p] = how
    BY <1>e DEF IInv, TypeOK
  <1>f. ASSUME NEW result \in Errors, Finish(p, result), UNCHANGED req
        PROVE  Effects(p)
    <2>1. ReqOK
      BY <1>f DEF IInv, TypeOK
    <2>2. InFlight(p)' => cmd[p] # "status"
      BY <1>f DEF RequestInv, InFlight
    <2>3. result \notin {"stopped", "healthy"}
      BY DEF Errors
    <2> QED
      BY <1>a, <1>f, <2>1, <2>2, <2>3, FinishEffects
  <1>g. ASSUME Finish(p, "LifecycleError"), req' = [req EXCEPT ![p] = Withdrawn(p)]
        PROVE  Effects(p)
    <2>1. ReqOK /\ ~InFlight(p)'
      BY <1>g DEF IInv, TypeOK, InFlight, Withdrawn
    <2> QED
      BY <1>a, <1>g, <2>1, FinishEffects
  <1>h. {"RuntimeUnavailable", "LifecycleError", "StartupTimeout", "ShutdownTimeout"}
          \subseteq Errors
    BY DEF Errors
  <1>1. CASE QueryFails(p)
    BY <1>1, <1>f, <1>h DEF QueryFails
  <1>2. CASE StateQueried(p, d)
    <2>1. pc[p] \notin {"upWait", "stopWait"}
      BY <1>2 DEF StateQueried
    <2>2. ASSUME Await(p, "probe", StatusProbe, 0), UNCHANGED req PROVE Effects(p)
      BY <1>a, <2>1, <2>2, NoRequest, AwaitEffects
    <2> QED
      BY <1>2, <1>a, <1>c, <1>d, <2>1, <2>2, LaunchEffects DEF StateQueried
  <1>3. CASE ProbeStateQueried(p, d)
    <2>1. pc[p] \in ProbeLabels
      BY <1>3 DEF ProbeStateQueried, ProbeLabels
    <2>2. ASSUME Conclude(p, "stopped", d), container = "down" PROVE Effects(p)
      BY <1>a, <2>1, <2>2, ConcludeEffects DEF NodeStates
    <2> QED
      BY <1>3, <1>b, <1>d, <2>1, <2>2, ProbeEffects DEF ProbeStateQueried
  <1>4. CASE StopStateQueried(p, d)
    <2>1. cmd[p] = "stop" /\ pc[p] \notin {"upWait", "stopWait"}
      BY <1>4 DEF StopStateQueried, CommandInv
    <2>2. ASSUME Await(p, "stopWait", budget[p] - d, 0), req' = [req EXCEPT ![p] = "stop"]
          PROVE  Effects(p)
      BY <1>a, <1>e, <2>1, <2>2, AwaitEffects
    <2> QED
      BY <1>4, <1>c, <1>d, <1>f, <1>h, <2>1, <2>2 DEF StopStateQueried
  <1>5. CASE PostStateQueried(p, d)
    <2>1. UNCHANGED req /\ pc[p] \notin {"upWait", "stopWait"}
      BY <1>5 DEF PostStateQueried
    <2>2. PICK s \in Reading :
            Finish(p, IF s = "stopped" THEN "stopped" ELSE "ShutdownTimeout")
      BY <1>5 DEF PostStateQueried
    <2> QED
      BY <1>c, <1>d, <2>1, <2>2
  <1>6. CASE ProbeChecked(p, d)
    <2>1. pc[p] \in ProbeLabels
      BY <1>6 DEF ProbeChecked, ProbeLabels
    <2> QED
      BY <1>6, <1>b, <2>1, ProbeEffects DEF ProbeChecked
  <1>7. CASE ProbeRunFails(p, d)
    BY <1>7, <1>b DEF ProbeRunFails, ProbeLabels
  <1>8. CASE CookieRead(p, d)
    <2>1. pc[p] \in ProbeLabels
      BY <1>8 DEF CookieRead, ProbeLabels, ProbeCalls
    <2> QED
      BY <1>8, <1>b, <2>1, ProbeEffects DEF CookieRead
  <1>9. CASE RpcFails(p, d)
    BY <1>9, <1>b DEF RpcFails, ProbeLabels, ProbeCalls
  <1>10. CASE ChainChecked(p, d)
    <2>1. pc[p] \in ProbeLabels
      BY <1>10 DEF ChainChecked, ProbeLabels, ProbeCalls
    <2> QED
      BY <1>10, <1>b, <2>1, ProbeEffects DEF ChainChecked
  <1>11. CASE VersionChecked(p, d)
    <2>1. pc[p] \in ProbeLabels /\ pc[p] = "version"
      BY <1>11 DEF VersionChecked, ProbeLabels, ProbeCalls
    <2>2. container # "down" /\ image \in {"good", "wrongVersion"}
      BY <1>11, <2>1 DEF VersionChecked, Accepts, IInv, TypeOK, RuntimeTypeOK, Images,
                         ServerInv, CookieInv
    <2>3. CASE image = "wrongVersion"
      BY <1>11, <1>b, <2>1, <2>3 DEF VersionChecked
    <2>4. CASE image = "good"
      <3>1. Conclude(p, "healthy", d)
        BY <1>11, <2>4 DEF VersionChecked
      <3> QED
        BY <1>a, <2>1, <2>2, <2>4, <3>1, ConcludeEffects DEF NodeStates
    <2> QED
      BY <2>2, <2>3, <2>4
  <1>12. CASE Preflight(p, d)
    <2>1. cmd[p] = "start" /\ pc[p] \notin {"upWait", "stopWait"}
      BY <1>12 DEF Preflight, CommandInv
    <2>2. ASSUME Await(p, "upWait", budget[p] - d, 0), req' = [req EXCEPT ![p] = "up"]
          PROVE  Effects(p)
      BY <1>a, <1>e, <2>1, <2>2, AwaitEffects
    <2> QED
      BY <1>12, <1>f, <1>h, <2>2 DEF Preflight
  <1>13. CASE UpReturns(p, d)
    <2>1. ASSUME req[p] = "done", Poll(p, Timeout), UNCHANGED req PROVE Effects(p)
      <3>1. ReqOK /\ ~InFlight(p)'
        BY <2>1 DEF IInv, TypeOK, InFlight
      <3> QED
        BY <1>a, <2>1, <3>1, PollEffects
    <2> QED
      BY <1>13, <1>f, <1>g, <1>h, <2>1 DEF UpReturns
  <1>14. CASE Slept(p, d)
    <2>1. pc[p] \notin {"upWait", "stopWait"} /\ UNCHANGED req
      BY <1>14 DEF Slept
    <2>2. ReqOK /\ ~InFlight(p)'
      BY <1>a, <2>1, NoRequest
    <2> QED
      BY <1>14, <1>a, <2>2, PollEffects DEF Slept
  <1>15. CASE StopReturns(p, d)
    <2>1. ASSUME req[p] \in {"done", "killed"}, UNCHANGED req,
                 Await(p, "postState", budget[p] - d, 0)
          PROVE  Effects(p)
      <3>1. ReqOK /\ ~InFlight(p)'
        BY <2>1 DEF IInv, TypeOK, InFlight
      <3> QED
        BY <1>a, <2>1, <3>1, AwaitEffects
    <2> QED
      BY <1>15, <1>f, <1>g, <1>h, <2>1 DEF StopReturns
  <1> QED
    BY <1>1, <1>2, <1>3, <1>4, <1>5, <1>6, <1>7, <1>8, <1>9, <1>10, <1>11, <1>12,
       <1>13, <1>14, <1>15 DEF HostStep

-----------------------------------------------------------------------------
LEMMA InitHoldInv == Init => HoldInv
  BY DEF Init, HoldInv, RequestInv, SoloInv, StopHolds, StartHolds, InFlight, Disturbs

LEMMA BeginHolds ==
  ASSUME IInv, HoldInv, NEW p \in Procs, NEW c \in Commands, Begin(p, c)
  PROVE  HoldInv'
  <1> USE DEF IInv, HoldInv, TypeOK, Begin
  <1>0. outcome[p] = "none" /\ ~InFlight(p) /\ UNCHANGED <<req, outcome, container, image>>
    BY DEF NoResultYet, RequestInv, Errors, runtimeVars
  <1>1. RequestInv'
    BY <1>0 DEF RequestInv, InFlight
  <1>2. SoloInv'
    <2>1. ASSUME NEW q \in Procs \ {p} PROVE Disturbs(q)' <=> Disturbs(q)
      BY DEF Disturbs, InFlight, Active
    <2>2. CASE c = "status"
      <3>1. ~Disturbs(p)'
        BY <1>0, <2>2 DEF Disturbs, InFlight
      <3> QED
        BY <2>1, <2>2, <3>1 DEF SoloInv
    <2>3. CASE c # "status"
      <3>1. \A q \in Procs : solo'[q] => q = p /\ \A r \in Procs \ {p} : ~Disturbs(r)
        BY <2>3
      <3> QED
        BY <2>1, <3>1 DEF SoloInv
    <2> QED
      BY <2>2, <2>3
  <1>3. StopHolds' /\ StartHolds'
    BY <1>0 DEF StopHolds, StartHolds
  <1> QED
    BY <1>1, <1>2, <1>3

LEMMA HostHolds ==
  ASSUME IInv, HoldInv, CommandInv, NEW p \in Procs, NEW d, HostStep(p, d)
  PROVE  HoldInv'
  <1> USE DEF HoldInv
  <1>0. Effects(p) /\ Active(p)
    BY HostEffects, HostStepActive
  <1>1. RequestInv'
    BY <1>0 DEF Effects, RequestInv, InFlight
  <1>2. SoloInv'
    <2>1. ASSUME NEW q \in Procs, Disturbs(q)' PROVE Disturbs(q)
      BY <1>0, <2>1 DEF Effects, Disturbs, InFlight, Active
    <2> QED
      BY <1>0, <2>1 DEF SoloInv, Effects
  <1>3. StopHolds' /\ StartHolds'
    BY <1>0 DEF Effects, StopHolds, StartHolds, runtimeVars
  <1> QED
    BY <1>1, <1>2, <1>3

(* Between host steps, the node goes down, comes up or gets another image    *)
(* only by a request, and no request comes into being.                       *)
LEMMA RuntimeHolds ==
  ASSUME IInv, HoldInv, UNCHANGED <<cmd, pc, outcome, solo>>,
         \A p \in Procs : InFlight(p)' => InFlight(p),
         \/ \E p \in Procs : InFlight(p)
         \/ image' = image /\ (container' = "down" <=> container = "down")
  PROVE  HoldInv'
  <1> USE DEF HoldInv
  <1>1. RequestInv'
    BY DEF RequestInv
  <1>2. SoloInv'
    BY DEF SoloInv, Disturbs, Active
  <1>3. CASE image' = image /\ (container' = "down" <=> container = "down")
    BY <1>1, <1>2, <1>3 DEF StopHolds, StartHolds
  <1>4. ASSUME NEW q \in Procs, InFlight(q)
        PROVE  \A p \in Procs : ~(solo[p] /\ outcome[p] \in {"stopped", "healthy"})
    <2> SUFFICES ASSUME NEW p \in Procs, solo[p], outcome[p] \in {"stopped", "healthy"}
                 PROVE  FALSE
      OBVIOUS
    <2>1. pc[p] = "done"
      BY DEF IInv, NoResultYet
    <2>2. q # p
      BY <1>4, <2>1 DEF RequestInv, Errors
    <2> QED
      BY <1>4, <2>2 DEF SoloInv, Disturbs
  <1>5. CASE \E q \in Procs : InFlight(q)
    BY <1>1, <1>2, <1>4, <1>5 DEF StopHolds, StartHolds
  <1> QED
    BY <1>3, <1>5

LEMMA NextHolds ==
  ASSUME IInv, CommandInv, HoldInv, [Next]_vars
  PROVE  HoldInv'
  <1>1. ASSUME NEW p \in Procs, NEW c \in Commands, Begin(p, c) PROVE HoldInv'
    BY <1>1, BeginHolds
  <1>2. ASSUME NEW p \in Procs, NEW d \in Ticks, HostStep(p, d) PROVE HoldInv'
    BY <1>2, HostHolds
  <1>3. ASSUME NEW p \in Procs, NEW how \in {"up", "done", "killed"}, InFlight(p),
               how = "up" => req[p] = "up",
               Settle(p, how), UNCHANGED <<cmd, pc, outcome, solo>>
        PROVE  HoldInv'
    <2>1. \A q \in Procs : InFlight(q)' => InFlight(q)
      BY <1>3 DEF IInv, TypeOK, Settle, InFlight
    <2> QED
      BY <1>3, <2>1, RuntimeHolds
  <1>4. ASSUME NEW p \in Procs, NEW d \in Ticks, DaemonKills(p, d) PROVE HoldInv'
    <2>1. InFlight(p) /\ Settle(p, "killed") /\ UNCHANGED <<cmd, pc, outcome, solo>>
      BY <1>4 DEF DaemonKills, InFlight, NodeChanges
    <2> QED
      BY <1>3, <2>1
  <1>5. ASSUME NEW p \in Procs, DaemonStep(p) PROVE HoldInv'
    <2>1. /\ InFlight(p)
          /\ \/ Settle(p, "done")
             \/ Settle(p, "up") /\ req[p] = "up"
          /\ UNCHANGED <<cmd, pc, outcome, solo>>
      BY <1>5 DEF DaemonStep, DaemonStarts, DaemonReplaces, DaemonLeaves, DaemonStops,
                  InFlight, NodeChanges
    <2> QED
      BY <1>3, <2>1
  <1>6. CASE NodeStep
    <2>1. /\ image' = image
          /\ container' = "down" <=> container = "down"
          /\ UNCHANGED <<cmd, pc, outcome, solo, req>>
      BY <1>6 DEF NodeStep, Listen, WarmedUp, Crash, Restart, Dies, NodeChanges
    <2>2. \A q \in Procs : InFlight(q)' => InFlight(q)
      BY <2>1 DEF InFlight
    <2> QED
      BY <2>1, <2>2, RuntimeHolds
  <1>7. CASE UNCHANGED vars
    <2>1. UNCHANGED <<cmd, pc, outcome, solo, req, image, container>>
      BY <1>7 DEF vars, hostVars, runtimeVars
    <2>2. \A q \in Procs : InFlight(q)' => InFlight(q)
      BY <2>1 DEF InFlight
    <2> QED
      BY <2>1, <2>2, RuntimeHolds
  <1> QED
    BY <1>1, <1>2, <1>4, <1>5, <1>6, <1>7 DEF Next

-----------------------------------------------------------------------------

LEMMA HoldInvariance == Spec => [](IInv /\ HoldInv)
  <1>1. Init => CommandInv /\ HoldInv
    BY InitCommandInv, InitHoldInv
  <1>2. IInv /\ IInv' /\ CommandInv /\ HoldInv /\ [Next]_vars => CommandInv' /\ HoldInv'
    BY Simulation, NextHolds
  <1> QED
    BY <1>1, <1>2, Invariance, PTL DEF Spec

(* A stop that no other start or stop has disturbed leaves the node down for *)
(* good: neither the restart policy nor a request of its own brings it back. *)
THEOREM UndisturbedStopHolds == Spec => []StopHolds
  BY HoldInvariance, PTL DEF HoldInv

(* A start that no other start or stop has disturbed leaves a compatible     *)
(* node in place, if only between a crash and its restart.                   *)
THEOREM UndisturbedStartHolds == Spec => []StartHolds
  BY HoldInvariance, PTL DEF HoldInv

(* A command that ended with success has no request left at the daemon.      *)
THEOREM NothingIsLeft == Spec => []SuccessLeavesNothing
  <1>1. IInv /\ HoldInv => SuccessLeavesNothing
    <2> SUFFICES ASSUME IInv, HoldInv, NEW p \in Procs, outcome[p] \in NodeStates
                 PROVE  ~InFlight(p)
      BY DEF SuccessLeavesNothing
    <2>1. pc[p] = "done" /\ outcome[p] \notin Errors
      BY DEF IInv, NoResultYet, NodeStates, Errors
    <2> QED
      BY <2>1 DEF HoldInv, RequestInv
  <1> QED
    BY <1>1, HoldInvariance, PTL
=============================================================================
