------------------------ MODULE LifecycleContractProofs ------------------------
(***************************************************************************)
(* NodeLifecycle implements LifecycleContract, for any number of processes *)
(* and any budgets: each host step either leaves the contract's state      *)
(* alone or ends the command, with a result of its own docstring that the  *)
(* witness backs; every change of the node is a move the contract knows.   *)
(***************************************************************************)
EXTENDS NodeLifecycleProofs

(* Which command waits for which call, and where the state get_status has    *)
(* read is still to be combined with a health.                               *)
CommandInv ==
  \A p \in Procs :
    /\ pc[p] \in {"stopState", "stopWait", "postState"} => cmd[p] = "stop"
    /\ pc[p] \in {"preflight", "upWait", "sleep"} => cmd[p] = "start"
    /\ pc[p] \in {"state"} \cup ProbeLabels => cmd[p] \in {"start", "status"}
    /\ pc[p] \in ProbeLabels /\ Polling(p) => cmd[p] = "start"
    /\ ~Polling(p) => pc[p] \in ProbeLabels

(* The two things a host step does, in the contract's terms.                 *)
Continues(p) ==
  /\ \E call \in Labels \ {"idle", "done"} : pc' = [pc EXCEPT ![p] = call]
  /\ UNCHANGED <<cmd, outcome, runtimeVars, witness>>

Ends(p) == \E result \in Contract!Results(cmd[p]) : Finish(p, result)

-----------------------------------------------------------------------------
LEMMA InitCommandInv == Init => CommandInv
  BY DEF Init, CommandInv, Polling, ProbeLabels, ProbeCalls

LEMMA FinishEnds ==
  ASSUME TypeOK, CommandInv, NEW p \in Procs, Active(p),
         NEW result \in Contract!Results(cmd[p]), Finish(p, result)
  PROVE  CommandInv' /\ Ends(p)
  <1>1. CommandInv'
    BY DEF TypeOK, CommandInv, Finish, Polling, ProbeLabels, ProbeCalls
  <1> QED
    BY <1>1 DEF Ends

LEMMA AwaitContinues ==
  ASSUME TypeOK, CommandInv, NEW p \in Procs, Active(p),
         NEW call \in Labels \ {"idle", "done"}, NEW b, NEW l, Await(p, call, b, l),
         \A q \in Procs \ {p} : seen'[q] = seen[q],
         call \in {"stopState", "stopWait", "postState"} => cmd[p] = "stop",
         call \in {"preflight", "upWait", "sleep"} => cmd[p] = "start",
         call \in {"state"} \cup ProbeLabels => cmd[p] \in {"start", "status"},
         call \in ProbeLabels /\ seen'[p] = "none" => cmd[p] = "start",
         call \notin ProbeLabels => seen'[p] = "none"
  PROVE  CommandInv' /\ Continues(p)
  <1>1. CommandInv'
    BY DEF TypeOK, CommandInv, Await, Polling
  <1>2. Continues(p)
    BY DEF Await, Continues
  <1> QED
    BY <1>1, <1>2

LEMMA ResultsOfStart ==
  ASSUME NEW p \in Procs, cmd[p] = "start"
  PROVE  {"healthy", "NodeIncompatible", "StartupTimeout", "LifecycleError",
          "RuntimeUnavailable"} \subseteq Contract!Results(cmd[p])
  BY DEF Contract!Results

LEMMA ResultsOfStop ==
  ASSUME NEW p \in Procs, cmd[p] = "stop"
  PROVE  {"stopped", "ShutdownTimeout", "LifecycleError", "RuntimeUnavailable"}
           \subseteq Contract!Results(cmd[p])
  BY DEF Contract!Results

LEMMA ResultsOfStatus ==
  ASSUME NEW p \in Procs, cmd[p] = "status"
  PROVE  NodeStates \cup {"RuntimeUnavailable"} \subseteq Contract!Results(cmd[p])
  BY DEF Contract!Results, NodeStates

LEMMA LaunchContinues ==
  ASSUME TypeOK, CommandInv, NEW p \in Procs, Active(p), Launch(p)
  PROVE  CommandInv' /\ Continues(p)
  <1>1. /\ cmd[p] = "start"
        /\ Await(p, "preflight", Timeout, 0)
        /\ \A q \in Procs \ {p} : seen'[q] = seen[q]
        /\ seen'[p] = "none"
    BY DEF Launch, TypeOK
  <1>2. "preflight" \in Labels \ {"idle", "done"} /\ "preflight" \notin ProbeLabels
    BY DEF Labels, ProbeLabels, ProbeCalls
  <1> QED
    BY <1>1, <1>2, AwaitContinues

LEMMA PollContinuesOrEnds ==
  ASSUME TypeOK, CommandInv, NEW p \in Procs, Active(p), cmd[p] = "start",
         NEW l, Poll(p, l)
  PROVE  CommandInv' /\ (Continues(p) \/ Ends(p))
  <1>1. CASE Await(p, "probe", ProbeBudget(l), l) /\ UNCHANGED <<seen, auth>>
    <2>1. /\ "probe" \in ProbeLabels
          /\ "probe" \in Labels \ {"idle", "done"}
          /\ "probe" \notin {"stopState", "stopWait", "postState"}
          /\ \A q \in Procs \ {p} : seen'[q] = seen[q]
      BY <1>1 DEF Labels, ProbeLabels
    <2> QED
      BY <1>1, <2>1, AwaitContinues
  <1>2. CASE Finish(p, "StartupTimeout")
    BY <1>2, ResultsOfStart, FinishEnds
  <1> QED
    BY <1>1, <1>2 DEF Poll

LEMMA ConcludeContinuesOrEnds ==
  ASSUME TypeOK, CommandInv, NEW p \in Procs, Active(p), pc[p] \in ProbeLabels,
         NEW health \in NodeStates, NEW d, Conclude(p, health, d)
  PROVE  CommandInv' /\ (Continues(p) \/ Ends(p))
  <1>0. cmd[p] \in {"start", "status"}
    BY DEF CommandInv
  <1>1. CASE ConcludeStatus(p, health)
    <2>1. CASE /\ cmd[p] = "status" \/ Combined(p, health) = "healthy"
               /\ Finish(p, Combined(p, health))
      <3>1. Combined(p, health) \in NodeStates
        BY DEF Combined, NodeStates
      <3>2. Combined(p, health) \in Contract!Results(cmd[p])
        BY <1>0, <2>1, <3>1, ResultsOfStart, ResultsOfStatus
      <3> QED
        BY <2>1, <3>2, FinishEnds
    <2>2. CASE Launch(p)
      BY <2>2, LaunchContinues
    <2> QED
      BY <1>1, <2>1, <2>2 DEF ConcludeStatus
  <1>2. CASE ConcludePoll(p, health, left[p] - d)
    <2>1. cmd[p] = "start"
      BY <1>2 DEF ConcludePoll, CommandInv
    <2>2. ASSUME NEW result \in {"healthy", "NodeIncompatible", "StartupTimeout"},
                 Finish(p, result)
          PROVE  CommandInv' /\ Ends(p)
      BY <2>1, <2>2, ResultsOfStart, FinishEnds
    <2>3. CASE Await(p, "sleep", 0, left[p] - d) /\ UNCHANGED seen
      <3>1. "sleep" \in Labels \ {"idle", "done"} /\ "sleep" \notin ProbeLabels
        BY DEF Labels, ProbeLabels, ProbeCalls
      <3>2. /\ \A q \in Procs \ {p} : seen'[q] = seen[q]
            /\ seen'[p] = "none"
        BY <1>2, <2>3 DEF ConcludePoll, Polling
      <3> QED
        BY <2>1, <2>3, <3>1, <3>2, AwaitContinues
    <2> QED
      BY <1>2, <2>2, <2>3 DEF ConcludePoll
  <1> QED
    BY <1>1, <1>2 DEF Conclude

-----------------------------------------------------------------------------
(* A call of the probe that leads to its next call.                          *)
LEMMA ProbeGoesOn ==
  ASSUME TypeOK, CommandInv, NEW p \in Procs, Active(p), pc[p] \in ProbeLabels,
         NEW call \in ProbeLabels, NEW b, NEW l, Await(p, call, b, l), UNCHANGED seen
  PROVE  CommandInv' /\ Continues(p)
  <1>1. /\ call \in Labels \ {"idle", "done"}
        /\ call \notin {"stopState", "stopWait", "postState"}
        /\ call \notin {"preflight", "upWait", "sleep"}
    BY DEF Labels, ProbeLabels, ProbeCalls
  <1>2. /\ cmd[p] \in {"start", "status"}
        /\ seen'[p] = "none" => cmd[p] = "start"
    BY DEF CommandInv, Polling
  <1> QED
    BY <1>1, <1>2, AwaitContinues

LEMMA HostContinuesOrEnds ==
  ASSUME TypeOK, CommandInv, NEW p \in Procs, NEW d, HostStep(p, d)
  PROVE  CommandInv' /\ (Continues(p) \/ Ends(p))
  <1> DEFINE Goal == CommandInv' /\ (Continues(p) \/ Ends(p))
  <1>a. pc[p] \in ProbeLabels => Active(p)
    BY DEF Active, ProbeLabels, ProbeCalls
  <1>b. ASSUME pc[p] \in ProbeLabels, NEW h \in NodeStates, Conclude(p, h, d)
        PROVE  Goal
    BY <1>a, <1>b, ConcludeContinuesOrEnds
  <1>c. ASSUME pc[p] \in ProbeLabels, NEW call \in ProbeLabels,
               Await(p, call, budget[p] - d, Most(left[p], d) - d), UNCHANGED seen
        PROVE  Goal
    BY <1>a, <1>c, ProbeGoesOn
  <1>d. ASSUME Active(p), NEW result \in Contract!Results(cmd[p]), Finish(p, result)
        PROVE  Goal
    BY <1>d, FinishEnds
  <1>e. /\ {"stopped", "starting", "unhealthy", "unknown", "healthy", "incompatible"}
              \subseteq NodeStates
        /\ {"probeState", "cookie", "chain", "version"} \subseteq ProbeLabels
    BY DEF NodeStates, ProbeLabels, ProbeCalls
  <1>1. CASE QueryFails(p)
    <2>1. Active(p)
      BY <1>1 DEF QueryFails, Active
    <2>2. "RuntimeUnavailable" \in Contract!Results(cmd[p])
      BY DEF Contract!Results
    <2> QED
      BY <1>1, <1>d, <2>1, <2>2 DEF QueryFails
  <1>2. CASE StateQueried(p, d)
    <2>1. Active(p) /\ cmd[p] \in {"start", "status"}
      BY <1>2 DEF StateQueried, Active, CommandInv
    <2>2. CASE cmd[p] = "status" /\ Finish(p, "stopped")
      BY <1>d, <1>e, <2>1, <2>2, ResultsOfStatus
    <2>3. CASE Launch(p)
      BY <2>1, <2>3, LaunchContinues
    <2>4. ASSUME NEW s \in Reading, s # "stopped", Await(p, "probe", StatusProbe, 0),
                 seen' = [seen EXCEPT ![p] = s]
          PROVE  Goal
      <3>1. s # "none" /\ seen'[p] # "none"
        BY <2>4, ReadingSound DEF TypeOK
      <3>2. /\ "probe" \in ProbeLabels
            /\ "probe" \in Labels \ {"idle", "done"}
            /\ \A q \in Procs \ {p} : seen'[q] = seen[q]
        BY <2>4 DEF Labels, ProbeLabels, TypeOK
      <3> QED
        BY <2>1, <2>4, <3>1, <3>2, AwaitContinues
    <2> QED
      BY <1>2, <2>2, <2>3, <2>4 DEF StateQueried
  <1>3. CASE ProbeStateQueried(p, d)
    BY <1>3, <1>b, <1>c, <1>e DEF ProbeStateQueried
  <1>4. CASE StopStateQueried(p, d)
    <2>1. Active(p) /\ cmd[p] = "stop"
      BY <1>4 DEF StopStateQueried, Active, CommandInv
    <2>2. ASSUME NEW result \in {"stopped", "ShutdownTimeout"}, Finish(p, result)
          PROVE  Goal
      BY <1>d, <2>1, <2>2, ResultsOfStop
    <2>3. CASE Await(p, "stopWait", budget[p] - d, 0) /\ UNCHANGED seen
      <3>1. "stopWait" \in Labels \ {"idle", "done"} /\ "stopWait" \notin ProbeLabels
        BY DEF Labels, ProbeLabels, ProbeCalls
      <3>2. /\ \A q \in Procs \ {p} : seen'[q] = seen[q]
            /\ seen'[p] = "none"
        BY <1>4, <2>3 DEF StopStateQueried, CommandInv, Polling, ProbeLabels, ProbeCalls
      <3> QED
        BY <2>1, <2>3, <3>1, <3>2, AwaitContinues
    <2> QED
      BY <1>4, <2>2, <2>3 DEF StopStateQueried
  <1>5. CASE PostStateQueried(p, d)
    <2>1. Active(p) /\ cmd[p] = "stop"
      BY <1>5 DEF PostStateQueried, Active, CommandInv
    <2>2. \E result \in {"stopped", "ShutdownTimeout"} : Finish(p, result)
      BY <1>5 DEF PostStateQueried
    <2> QED
      BY <1>d, <2>1, <2>2, ResultsOfStop
  <1>6. CASE ProbeChecked(p, d)
    <2>1. pc[p] \in ProbeLabels
      BY <1>6 DEF ProbeChecked, ProbeLabels
    <2> QED
      BY <1>6, <1>b, <1>c, <1>e, <2>1 DEF ProbeChecked
  <1>7. CASE ProbeRunFails(p, d)
    BY <1>7, <1>b, <1>e DEF ProbeRunFails, ProbeLabels
  <1>8. CASE CookieRead(p, d)
    BY <1>8, <1>b, <1>c, <1>e DEF CookieRead
  <1>9. CASE RpcFails(p, d)
    BY <1>9, <1>b, <1>e DEF RpcFails
  <1>10. CASE ChainChecked(p, d)
    BY <1>10, <1>b, <1>c, <1>e DEF ChainChecked
  <1>11. CASE VersionChecked(p, d)
    BY <1>11, <1>b, <1>e DEF VersionChecked
  <1>12. CASE Preflight(p, d)
    <2>1. Active(p) /\ cmd[p] = "start"
      BY <1>12 DEF Preflight, Active, CommandInv
    <2>2. ASSUME NEW result \in {"RuntimeUnavailable", "LifecycleError", "StartupTimeout"},
                 Finish(p, result)
          PROVE  Goal
      BY <1>d, <2>1, <2>2, ResultsOfStart
    <2>3. CASE Await(p, "upWait", budget[p] - d, 0) /\ UNCHANGED seen
      <3>1. "upWait" \in Labels \ {"idle", "done"} /\ "upWait" \notin ProbeLabels
        BY DEF Labels, ProbeLabels, ProbeCalls
      <3>2. /\ \A q \in Procs \ {p} : seen'[q] = seen[q]
            /\ seen'[p] = "none"
        BY <1>12, <2>3 DEF Preflight, CommandInv, Polling, ProbeLabels, ProbeCalls
      <3> QED
        BY <2>1, <2>3, <3>1, <3>2, AwaitContinues
    <2> QED
      BY <1>12, <2>2, <2>3 DEF Preflight
  <1>13. CASE UpReturns(p, d)
    <2>1. Active(p) /\ cmd[p] = "start"
      BY <1>13 DEF UpReturns, Active, CommandInv
    <2>2. ASSUME NEW result \in {"LifecycleError", "StartupTimeout"}, Finish(p, result)
          PROVE  Goal
      BY <1>d, <2>1, <2>2, ResultsOfStart
    <2> QED
      BY <1>13, <2>1, <2>2, PollContinuesOrEnds DEF UpReturns
  <1>14. CASE Slept(p, d)
    <2>1. Active(p) /\ cmd[p] = "start"
      BY <1>14 DEF Slept, Active, CommandInv
    <2> QED
      BY <1>14, <2>1, PollContinuesOrEnds DEF Slept
  <1>15. CASE StopReturns(p, d)
    <2>1. Active(p) /\ cmd[p] = "stop"
      BY <1>15 DEF StopReturns, Active, CommandInv
    <2>2. ASSUME NEW result \in {"LifecycleError", "ShutdownTimeout"}, Finish(p, result)
          PROVE  Goal
      BY <1>d, <2>1, <2>2, ResultsOfStop
    <2>3. CASE Await(p, "postState", budget[p] - d, 0) /\ UNCHANGED seen
      <3>1. "postState" \in Labels \ {"idle", "done"} /\ "postState" \notin ProbeLabels
        BY DEF Labels, ProbeLabels, ProbeCalls
      <3>2. /\ \A q \in Procs \ {p} : seen'[q] = seen[q]
            /\ seen'[p] = "none"
        BY <1>15, <2>3 DEF StopReturns, CommandInv, Polling, ProbeLabels, ProbeCalls
      <3> QED
        BY <2>1, <2>3, <3>1, <3>2, AwaitContinues
    <2> QED
      BY <1>15, <2>2, <2>3 DEF StopReturns
  <1> QED
    BY <1>1, <1>2, <1>3, <1>4, <1>5, <1>6, <1>7, <1>8, <1>9, <1>10, <1>11, <1>12,
       <1>13, <1>14, <1>15 DEF HostStep

-----------------------------------------------------------------------------
(* The contract's view of a step.                                            *)

LEMMA FactsInWorld ==
  ASSUME TypeOK, ServerInv
  PROVE  Facts \in Contract!World
  BY DEF Facts, ServerInv, TypeOK, RuntimeTypeOK, Images, Contract!World

LEMMA PhaseOf ==
  ASSUME TypeOK
  PROVE  \A p \in Procs :
           /\ Phase[p] = "active" <=> Active(p)
           /\ Phase[p] = "idle" <=> pc[p] = "idle"
  BY DEF Phase, Active

LEMMA EndsIsEnd ==
  ASSUME TypeOK, Evidence', NEW p \in Procs, Active(p), Ends(p)
  PROVE  Contract!End(p)
  <1>1. PICK result \in Contract!Results(cmd[p]) : Finish(p, result)
    BY DEF Ends
  <1>2. Contract!Backed(result, witness[p])
    <2>1. outcome'[p] = result /\ witness' = witness
      BY <1>1 DEF Finish, TypeOK
    <2> QED
      BY <2>1 DEF Evidence, HealthyWasSeen, IncompatibleWasSeen, StoppedWasSeen,
                  Contract!Backed
  <1>3. Phase[p] = "active" /\ Phase' = [Phase EXCEPT ![p] = "done"]
    BY <1>1 DEF Finish, Phase, Active, TypeOK
  <1>4. Facts' = Facts
    BY <1>1 DEF Finish, Facts, runtimeVars
  <1> QED
    BY <1>1, <1>2, <1>3, <1>4 DEF Finish, Contract!End

LEMMA ContinuesIsStutter ==
  ASSUME TypeOK, NEW p \in Procs, Active(p), Continues(p)
  PROVE  UNCHANGED Contract!contractVars
  <1>1. Phase' = Phase
    BY DEF Continues, Phase, Active, TypeOK
  <1>2. Facts' = Facts
    BY DEF Continues, Facts, runtimeVars
  <1> QED
    BY <1>1, <1>2 DEF Continues, Contract!contractVars

LEMMA NodeChangesIsMove ==
  ASSUME TypeOK, TypeOK', ServerInv', NodeChanges
  PROVE  Contract!NodeMoves
  <1>1. Facts' \in Contract!World
    BY DEF Facts, ServerInv, TypeOK, RuntimeTypeOK, Images, Contract!World
  <1>2. witness' = [p \in Procs |->
                     IF Phase[p] = "active" THEN witness[p] \cup Facts' ELSE witness[p]]
    BY PhaseOf DEF NodeChanges
  <1>3. Phase' = Phase
    BY DEF NodeChanges, Phase, Active
  <1> QED
    BY <1>1, <1>2, <1>3 DEF NodeChanges, Contract!NodeMoves

LEMMA BeginIsBegin ==
  ASSUME TypeOK, NEW p \in Procs, NEW c \in Commands, Begin(p, c)
  PROVE  Contract!Begin(p)
  <1>1. Phase[p] = "idle" /\ Phase' = [Phase EXCEPT ![p] = "active"]
    BY DEF Begin, Phase, Active, TypeOK
  <1>2. Facts' = Facts
    BY DEF Begin, Facts, runtimeVars
  <1> QED
    BY <1>1, <1>2 DEF Begin, Commands, Contract!Begin

LEMMA HostStepActive ==
  ASSUME NEW p \in Procs, NEW d, HostStep(p, d)
  PROVE  Active(p)
  BY DEF HostStep, Active, QueryFails, StateQueried, ProbeStateQueried, StopStateQueried,
         PostStateQueried, ProbeChecked, ProbeRunFails, CookieRead, RpcFails,
         ChainChecked, VersionChecked, Preflight, UpReturns, Slept, StopReturns,
         ProbeCalls

-----------------------------------------------------------------------------
(* A step of a process whose `compose ps` was inconclusive.                  *)
LEMMA UnknownConcludesUnknown ==
  ASSUME TypeOK, NEW p \in Procs, seen[p] = "unknown", NEW health, NEW d,
         Conclude(p, health, d)
  PROVE  outcome'[p] \in {outcome[p], "unknown"}
  <1>1. Combined(p, health) = "unknown"
    BY DEF Combined
  <1>2. Finish(p, "unknown") \/ Launch(p)
    BY <1>1 DEF Conclude, ConcludeStatus, ConcludePoll, Polling
  <1> QED
    BY <1>2 DEF Finish, Launch, Await, TypeOK

LEMMA HostKeepsUnknown ==
  ASSUME TypeOK, CommandInv, NEW p \in Procs, NEW d, HostStep(p, d), seen[p] = "unknown"
  PROVE  outcome'[p] \in {outcome[p], "unknown", "RuntimeUnavailable"}
  <1> DEFINE Kept == outcome'[p] \in {outcome[p], "unknown", "RuntimeUnavailable"}
  <1>0. pc[p] \in ProbeLabels
    BY DEF CommandInv, Polling
  <1>a. ASSUME NEW health, Conclude(p, health, d)
        PROVE  Kept
    BY <1>a, UnknownConcludesUnknown
  <1>b. ASSUME NEW call, NEW b, NEW l, Await(p, call, b, l)
        PROVE  Kept
    BY <1>b DEF Await
  <1>1. CASE QueryFails(p)
    BY <1>1 DEF QueryFails, Finish, TypeOK
  <1>2. CASE ProbeStateQueried(p, d)
    BY <1>2, <1>a, <1>b DEF ProbeStateQueried
  <1>3. CASE ProbeChecked(p, d) \/ ProbeRunFails(p, d)
    BY <1>3, <1>a, <1>b DEF ProbeChecked, ProbeRunFails
  <1>4. CASE CookieRead(p, d) \/ RpcFails(p, d)
    BY <1>4, <1>a, <1>b DEF CookieRead, RpcFails
  <1>5. CASE ChainChecked(p, d) \/ VersionChecked(p, d)
    BY <1>5, <1>a, <1>b DEF ChainChecked, VersionChecked
  <1>6. ~(\/ StateQueried(p, d) \/ StopStateQueried(p, d) \/ PostStateQueried(p, d)
          \/ Preflight(p, d) \/ UpReturns(p, d) \/ Slept(p, d) \/ StopReturns(p, d))
    BY <1>0 DEF ProbeLabels, ProbeCalls, StateQueried, StopStateQueried, PostStateQueried,
                Preflight, UpReturns, Slept, StopReturns
  <1> QED
    BY <1>1, <1>2, <1>3, <1>4, <1>5, <1>6 DEF HostStep

LEMMA OthersKeepOutcome ==
  ASSUME TypeOK, CommandInv, NEW p \in Procs, NEW q \in Procs \ {p}, NEW d, HostStep(q, d)
  PROVE  outcome'[p] = outcome[p]
  <1>1. Continues(q) \/ Ends(q)
    BY HostContinuesOrEnds
  <1> QED
    BY <1>1 DEF Continues, Ends, Finish, TypeOK

LEMMA StepKeepsUnknown ==
  ASSUME TypeOK, CommandInv, [Next]_vars, NEW p \in Procs, seen[p] = "unknown",
         outcome'[p] # outcome[p]
  PROVE  outcome'[p] \in {"unknown", "RuntimeUnavailable"}
  <1>1. ASSUME NEW q \in Procs, NEW d \in Ticks, HostStep(q, d)
        PROVE  outcome'[p] \in {"unknown", "RuntimeUnavailable"}
    <2>1. q = p
      BY <1>1, OthersKeepOutcome
    <2> QED
      BY <1>1, <2>1, HostKeepsUnknown
  <1>2. ASSUME NEW q \in Procs, NEW c \in Commands, Begin(q, c)
        PROVE  FALSE
    BY <1>2 DEF Begin
  <1>3. ASSUME NEW q \in Procs, DaemonStep(q) \/ \E d \in Ticks : DaemonKills(q, d)
        PROVE  FALSE
    BY <1>3 DEF DaemonStep, DaemonStarts, DaemonReplaces, DaemonLeaves, DaemonStops,
                DaemonKills, NodeChanges
  <1>4. ~NodeStep /\ ~UNCHANGED vars
    BY DEF NodeStep, NodeChanges, vars, hostVars
  <1> QED
    BY <1>1, <1>2, <1>3, <1>4 DEF Next

-----------------------------------------------------------------------------
(* Every step keeps CommandInv, and is a step of the contract or none.       *)
LEMMA Simulation ==
  ASSUME IInv, IInv', CommandInv, [Next]_vars
  PROVE  CommandInv' /\ [Contract!Next]_(Contract!contractVars)
  <1> USE DEF IInv
  <1>1. ASSUME NEW p \in Procs, NEW c \in Commands, Begin(p, c)
        PROVE  CommandInv' /\ Contract!Next
    <2>1. CommandInv'
      BY <1>1 DEF Begin, Commands, CommandInv, TypeOK, Polling, ProbeLabels, ProbeCalls
    <2> QED
      BY <1>1, <2>1, BeginIsBegin DEF Contract!Next
  <1>2. ASSUME NEW p \in Procs, NEW d \in Ticks, HostStep(p, d)
        PROVE  CommandInv' /\ (Contract!Next \/ UNCHANGED Contract!contractVars)
    <2>1. CommandInv' /\ (Continues(p) \/ Ends(p))
      BY <1>2, HostContinuesOrEnds
    <2>2. Active(p)
      BY <1>2, HostStepActive
    <2> QED
      BY <2>1, <2>2, ContinuesIsStutter, EndsIsEnd DEF Contract!Next
  <1>3. ASSUME NodeChanges
        PROVE  CommandInv' /\ Contract!Next
    <2>1. CommandInv'
      BY <1>3 DEF NodeChanges, CommandInv, Polling
    <2> QED
      BY <1>3, <2>1, NodeChangesIsMove DEF Contract!Next
  <1>4. ASSUME NEW p \in Procs, NEW d \in Ticks, DaemonKills(p, d)
        PROVE  NodeChanges
    BY <1>4 DEF DaemonKills
  <1>5. ASSUME NEW p \in Procs, DaemonStep(p)
        PROVE  NodeChanges \/ DaemonLeaves(p)
    BY <1>5 DEF DaemonStep, DaemonStarts, DaemonReplaces, DaemonStops
  <1>6. ASSUME UNCHANGED <<runtimeVars, witness, cmd, pc, seen, outcome>>
        PROVE  CommandInv' /\ UNCHANGED Contract!contractVars
    BY <1>6 DEF CommandInv, Polling, Contract!contractVars, Phase, Active, Facts, runtimeVars
  <1>7. CASE UNCHANGED vars
    BY <1>6, <1>7 DEF vars, hostVars
  <1>8. ASSUME NEW p \in Procs, DaemonLeaves(p)
        PROVE  CommandInv' /\ UNCHANGED Contract!contractVars
    BY <1>6, <1>8 DEF DaemonLeaves
  <1>9. CASE NodeStep
    BY <1>3, <1>9 DEF NodeStep
  <1> QED
    BY <1>1, <1>2, <1>3, <1>4, <1>5, <1>7, <1>8, <1>9 DEF Next

LEMMA InitSimulation ==
  ASSUME Init, IInv
  PROVE  Contract!Init
  BY FactsInWorld DEF IInv, Init, Contract!Init, Phase, Active

(* The service keeps its contract: each command ends at most once, with a    *)
(* result its docstring lists, and says of the node only what was so.        *)
THEOREM ContractKept == Spec => KeepsContract
  <1>1. Init => Contract!Init /\ CommandInv
    BY InitIInv, InitSimulation, InitCommandInv
  <1>2. IInv /\ IInv' /\ CommandInv /\ [Next]_vars
          => CommandInv' /\ [Contract!Next]_(Contract!contractVars)
    BY Simulation
  <1> QED
    BY <1>1, <1>2, Invariance, PTL DEF Spec, KeepsContract, Contract!Spec

(* A command whose `compose ps` was inconclusive claims no state of the node *)
(* on the strength of the probe that follows.                                *)
THEOREM UnknownStateKept == Spec => UnknownStateIsKept
  <1>1. Init => CommandInv
    BY InitCommandInv
  <1>2. IInv /\ IInv' /\ CommandInv /\ [Next]_vars => CommandInv'
    BY Simulation
  <1>3. IInv /\ CommandInv /\ [Next]_vars
          => [\A p \in Procs :
                seen[p] = "unknown" /\ outcome'[p] # outcome[p]
                  => outcome'[p] \in {"unknown", "RuntimeUnavailable"}]_vars
    BY StepKeepsUnknown DEF IInv
  <1> QED
    BY <1>1, <1>2, <1>3, Invariance, PTL DEF Spec, UnknownStateIsKept
=============================================================================
