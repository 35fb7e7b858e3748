------------------------ MODULE LifecycleTimingProofs ------------------------
(***************************************************************************)
(* The proof that no command outlasts its allowance, whatever the timeout  *)
(* and the budgets and however many commands run at once.  What a command  *)
(* has taken and what it may still take never exceed the allowance: each   *)
(* step takes from the second what it adds to the first.                   *)
(***************************************************************************)
EXTENDS LifecycleTiming, NodeLifecycleHoldProofs

(* What a command c that waits for call has yet to be given, after the        *)
(* deadline it now works to.                                                 *)
After(call, c) ==
  (IF call = "state" THEN StatusProbe ELSE 0)
  + (IF c # "start" THEN 0
     ELSE IF call \in {"preflight", "upWait"} THEN Timeout ELSE 2 * Timeout)

(* What the command of p may still take.                                     *)
Owes(p) ==
  IF pc[p] = "idle" THEN Allowance(cmd[p])
  ELSE IF pc[p] = "done" THEN 0
  ELSE IF pc[p] = "sleep" \/ (pc[p] \in ProbeLabels /\ Polling(p)) THEN left[p]
  ELSE budget[p] + After(pc[p], cmd[p])

LaunchCalls == {"preflight", "upWait", "sleep"}

PollingInv == \A p \in Procs : pc[p] \in LaunchCalls => Polling(p)

TimeInv ==
  /\ elapsed \in [Procs -> Nat]
  /\ \A p \in Procs : elapsed[p] + Owes(p) <= Allowance(cmd[p])

(* A step of p that takes d ticks pays for them.                             *)
Pays(p, d) ==
  /\ Owes(p)' + d <= Owes(p)
  /\ pc'[p] \in LaunchCalls => seen'[p] = "none"
  /\ cmd' = cmd
  /\ \A q \in Procs \ {p} :
       pc'[q] = pc[q] /\ budget'[q] = budget[q] /\ left'[q] = left[q] /\ seen'[q] = seen[q]

-----------------------------------------------------------------------------
LEMMA OwesIsNat ==
  ASSUME TypeOK
  PROVE  \A p \in Procs : Owes(p) \in Nat /\ Allowance(cmd[p]) \in Nat
  <1> SUFFICES ASSUME NEW p \in Procs PROVE Owes(p) \in Nat /\ Allowance(cmd[p]) \in Nat
    OBVIOUS
  <1>1. After(pc[p], cmd[p]) \in Nat /\ Allowance(cmd[p]) \in Nat
    BY BudgetAssumption DEF After, Allowance
  <1>2. budget[p] \in Nat /\ left[p] \in Nat
    BY DEF TypeOK
  <1> QED
    BY <1>1, <1>2 DEF Owes

(* The time a step of p may take is within what p owes.                      *)
LEMMA DeadlineOwed ==
  ASSUME IInv, NEW p \in Procs, Active(p), NEW d \in Nat,
         d <= budget[p] \/ (pc[p] = "sleep" /\ d <= left[p]),
         pc[p] = "sleep" => d <= left[p]
  PROVE  d <= Owes(p)
  <1>1. After(pc[p], cmd[p]) \in Nat /\ budget[p] \in Nat /\ left[p] \in Nat
    BY BudgetAssumption DEF After, IInv, TypeOK
  <1> QED
    BY <1>1 DEF Owes, Active, IInv, Deadlines

LEMMA FinishPays ==
  ASSUME IInv, NEW p \in Procs, Active(p), NEW d \in Nat, d <= Owes(p),
         NEW result, Finish(p, result)
  PROVE  Pays(p, d)
  <1>1. Owes(p)' = 0 /\ pc'[p] = "done"
    BY DEF Finish, Owes, IInv, TypeOK
  <1>2. cmd' = cmd /\ \A q \in Procs \ {p} :
          pc'[q] = pc[q] /\ budget'[q] = budget[q] /\ left'[q] = left[q] /\ seen'[q] = seen[q]
    BY DEF Finish, IInv, TypeOK
  <1> QED
    BY <1>1, <1>2 DEF Pays, LaunchCalls

(* Waiting for another call, on b of its own and l for the polls.            *)
LEMMA AwaitPays ==
  ASSUME IInv, NEW p \in Procs, Active(p), NEW d \in Nat,
         NEW call \in Labels \ {"idle", "done"}, NEW b \in Nat, NEW l \in Nat,
         Await(p, call, b, l),
         \A q \in Procs \ {p} : seen'[q] = seen[q],
         call \in LaunchCalls => seen'[p] = "none",
         IF call = "sleep" \/ (call \in ProbeLabels /\ seen'[p] = "none")
         THEN l + d <= Owes(p)
         ELSE b + After(call, cmd[p]) + d <= Owes(p)
  PROVE  Pays(p, d)
  <1>1. pc'[p] = call /\ budget'[p] = b /\ left'[p] = l /\ cmd' = cmd
    BY DEF Await, IInv, TypeOK
  <1>2. \A q \in Procs \ {p} : pc'[q] = pc[q] /\ budget'[q] = budget[q] /\ left'[q] = left[q]
    BY DEF Await, IInv, TypeOK
  <1>3. Owes(p) \in Nat
    BY OwesIsNat DEF IInv
  <1>4. Owes(p)' + d <= Owes(p)
    BY <1>1, <1>3, BudgetAssumption DEF Owes, After, Polling
  <1> QED
    BY <1>1, <1>2, <1>4 DEF Pays

LEMMA LaunchPays ==
  ASSUME IInv, NEW p \in Procs, NEW d \in Nat, d <= budget[p], Launch(p),
         pc[p] = "state" \/ (pc[p] \in ProbeLabels /\ ~Polling(p))
  PROVE  Pays(p, d)
  <1>1. /\ Active(p)
        /\ cmd[p] = "start"
        /\ Await(p, "preflight", Timeout, 0)
        /\ \A q \in Procs \ {p} : seen'[q] = seen[q]
        /\ seen'[p] = "none"
    BY DEF Launch, IInv, TypeOK, Active, ProbeLabels, ProbeCalls
  <1>2. "preflight" \in Labels \ {"idle", "done"} /\ "preflight" \notin ProbeLabels
    BY DEF Labels, ProbeLabels, ProbeCalls
  <1>3. Timeout + After("preflight", cmd[p]) + d <= Owes(p)
    <2>1. budget[p] \in Nat /\ StatusProbe \in Nat /\ Timeout \in Nat
      BY BudgetAssumption DEF IInv, TypeOK
    <2>2. Owes(p) >= budget[p] + 2 * Timeout
      BY <1>1, <2>1 DEF Owes, After, ProbeLabels, ProbeCalls
    <2>3. After("preflight", cmd[p]) = Timeout
      BY <1>1, <2>1 DEF After
    <2>4. Owes(p) \in Nat
      BY OwesIsNat DEF IInv
    <2> QED
      BY <2>1, <2>2, <2>3, <2>4
  <1> QED
    BY <1>1, <1>2, <1>3, BudgetAssumption, AwaitPays

LEMMA PollPays ==
  ASSUME IInv, PollingInv, NEW p \in Procs, pc[p] \in LaunchCalls,
         NEW d \in Nat, NEW l \in Nat, l + d <= Owes(p), Poll(p, l)
  PROVE  Pays(p, d)
  <1>0. Active(p) /\ seen[p] = "none" /\ Owes(p) \in Nat
    BY OwesIsNat DEF LaunchCalls, Active, PollingInv, Polling, IInv
  <1>1. CASE Await(p, "probe", ProbeBudget(l), l) /\ UNCHANGED <<seen, auth>>
    <2>1. "probe" \in Labels \ {"idle", "done"} /\ "probe" \in ProbeLabels
      BY DEF Labels, ProbeLabels
    <2>2. ProbeBudget(l) \in Nat
      BY BudgetAssumption DEF ProbeBudget, Least
    <2>3. \A q \in Procs : seen'[q] = seen[q]
      BY <1>1
    <2> QED
      BY <1>0, <1>1, <2>1, <2>2, <2>3, AwaitPays
  <1>2. CASE Finish(p, "StartupTimeout")
    <2>1. d <= Owes(p)
      BY <1>0
    <2> QED
      BY <1>0, <1>2, <2>1, FinishPays
  <1> QED
    BY <1>1, <1>2 DEF Poll

LEMMA ConcludePays ==
  ASSUME IInv, NEW p \in Procs, pc[p] \in ProbeLabels, NEW d \in Nat, d <= budget[p],
         NEW health, Conclude(p, health, d)
  PROVE  Pays(p, d)
  <1>0. Active(p) /\ pc[p] # "sleep" /\ pc[p] \notin {"idle", "done"}
    BY DEF Active, ProbeLabels, ProbeCalls
  <1>a. d <= Owes(p)
    BY <1>0, DeadlineOwed
  <1>1. ASSUME NEW result, Finish(p, result) PROVE Pays(p, d)
    BY <1>0, <1>a, <1>1, FinishPays
  <1>2. CASE ConcludeStatus(p, health)
    BY <1>1, <1>2, LaunchPays DEF ConcludeStatus
  <1>3. CASE ConcludePoll(p, health, left[p] - d)
    <2>1. ASSUME Await(p, "sleep", 0, left[p] - d), UNCHANGED seen, Polling(p)
          PROVE  Pays(p, d)
      <3>1. Owes(p) = left[p] /\ d <= left[p] /\ left[p] \in Nat /\ budget[p] \in Nat
        BY <1>0, <2>1 DEF Owes, IInv, Deadlines, TypeOK
      <3>2. "sleep" \in Labels \ {"idle", "done"} /\ left[p] - d \in Nat
        BY <3>1 DEF Labels
      <3>3. /\ left[p] - d + d <= Owes(p)
            /\ \A q \in Procs : seen'[q] = seen[q]
            /\ seen'[p] = "none"
        BY <2>1, <3>1 DEF Polling
      <3> QED
        BY <1>0, <2>1, <3>2, <3>3, AwaitPays
    <2> QED
      BY <1>1, <1>3, <2>1 DEF ConcludePoll
  <1> QED
    BY <1>2, <1>3 DEF Conclude

(* The next call of a probe works to the deadline of the one before it.      *)
LEMMA RestPays ==
  ASSUME IInv, NEW p \in Procs, pc[p] \in ProbeLabels, NEW d \in Nat, d <= budget[p],
         NEW call \in ProbeLabels,
         Await(p, call, budget[p] - d, Most(left[p], d) - d), UNCHANGED seen
  PROVE  Pays(p, d)
  <1>1. /\ Active(p)
        /\ call \in Labels \ {"idle", "done"}
        /\ call \notin {"state", "sleep", "preflight", "upWait"} \cup LaunchCalls
        /\ pc[p] \notin {"idle", "done", "state", "sleep", "preflight", "upWait"}
    BY DEF Active, ProbeLabels, ProbeCalls, Labels, LaunchCalls
  <1>2. /\ budget[p] \in Nat /\ left[p] \in Nat
        /\ budget[p] - d \in Nat /\ Most(left[p], d) - d \in Nat
        /\ Polling(p) => Most(left[p], d) = left[p]
    BY DEF IInv, TypeOK, Deadlines, Most
  <1>3. CASE Polling(p)
    <2>1. Most(left[p], d) - d + d <= Owes(p) /\ seen'[p] = "none"
      BY <1>1, <1>2, <1>3 DEF Owes, Polling
    <2> QED
      BY <1>1, <1>2, <2>1, AwaitPays
  <1>4. CASE ~Polling(p)
    <2>1. /\ Owes(p) = budget[p] + (IF cmd[p] # "start" THEN 0 ELSE 2 * Timeout)
          /\ seen'[p] # "none"
      BY <1>1, <1>2, <1>4, BudgetAssumption DEF Owes, After, Polling
    <2>2. budget[p] - d + After(call, cmd[p]) + d <= Owes(p)
      BY <1>1, <1>2, <2>1, BudgetAssumption DEF After
    <2> QED
      BY <1>1, <1>2, <2>1, <2>2, AwaitPays
  <1> QED
    BY <1>3, <1>4

LEMMA HostPays ==
  ASSUME IInv, CommandInv, PollingInv, NEW p \in Procs, NEW d \in Nat, HostStep(p, d)
  PROVE  Pays(p, d)
  <1>a. Active(p) /\ (pc[p] # "sleep" => d <= budget[p])
    BY HostStepActive DEF HostStep
  <1>b. ASSUME pc[p] # "sleep", NEW result, Finish(p, result) PROVE Pays(p, d)
    <2>1. d <= Owes(p)
      BY <1>a, <1>b, DeadlineOwed
    <2> QED
      BY <1>a, <1>b, <2>1, FinishPays
  <1>c. pc[p] \in ProbeLabels => pc[p] # "sleep"
    BY DEF ProbeLabels, ProbeCalls
  <1>d. ASSUME pc[p] \in ProbeLabels, NEW health, Conclude(p, health, d) PROVE Pays(p, d)
    BY <1>a, <1>c, <1>d, ConcludePays
  <1>e. ASSUME pc[p] \in ProbeLabels, NEW call \in {"probeState", "cookie", "chain", "version"},
               Await(p, call, budget[p] - d, Most(left[p], d) - d), UNCHANGED seen
        PROVE  Pays(p, d)
    <2>1. call \in ProbeLabels
      BY DEF ProbeLabels, ProbeCalls
    <2> QED
      BY <1>a, <1>c, <1>e, <2>1, RestPays
  <1>f. ASSUME pc[p] \in {"preflight", "stopState", "stopWait"},
               NEW call \in {"upWait", "stopWait", "postState"},
               Await(p, call, budget[p] - d, 0), UNCHANGED seen,
               call = "upWait" <=> pc[p] = "preflight"
        PROVE  Pays(p, d)
    <2>1. budget[p] \in Nat /\ budget[p] - d \in Nat
      BY <1>a, <1>f DEF IInv, TypeOK
    <2>2. call \in Labels \ {"idle", "done"} /\ call # "sleep" /\ call \notin ProbeLabels
      BY DEF Labels, ProbeLabels, ProbeCalls
    <2>3. /\ call \in LaunchCalls => seen'[p] = "none"
          /\ \A q \in Procs : seen'[q] = seen[q]
      BY <1>f DEF LaunchCalls, PollingInv, Polling
    <2>4. After(call, cmd[p]) = After(pc[p], cmd[p]) /\ After(call, cmd[p]) \in Nat
      BY <1>f, BudgetAssumption DEF After, CommandInv
    <2>5. Owes(p) = budget[p] + After(pc[p], cmd[p])
      BY <1>f DEF Owes, ProbeLabels, ProbeCalls
    <2>6. budget[p] - d + After(call, cmd[p]) + d <= Owes(p)
      BY <2>1, <2>4, <2>5
    <2> QED
      BY <1>a, <1>f, <2>1, <2>2, <2>3, <2>6, AwaitPays
  <1>1. CASE QueryFails(p)
    BY <1>1, <1>b DEF QueryFails
  <1>2. CASE StateQueried(p, d)
    <2>1. pc[p] = "state" /\ d <= budget[p] /\ pc[p] # "sleep"
      BY <1>2, <1>a DEF StateQueried
    <2>2. ASSUME Launch(p) PROVE Pays(p, d)
      BY <2>1, <2>2, LaunchPays
    <2>3. ASSUME NEW s \in Reading, Await(p, "probe", StatusProbe, 0),
                 seen' = [seen EXCEPT ![p] = s]
          PROVE  Pays(p, d)
      <3>1. seen'[p] # "none" /\ \A q \in Procs \ {p} : seen'[q] = seen[q]
        BY <2>3, ReadingSound DEF IInv, TypeOK
      <3>2. /\ "probe" \in Labels \ {"idle", "done"}
            /\ "probe" \notin LaunchCalls
            /\ StatusProbe \in Nat
        BY BudgetAssumption DEF Labels, LaunchCalls
      <3>3. budget[p] \in Nat /\ Timeout \in Nat
        BY BudgetAssumption DEF IInv, TypeOK
      <3>4. Owes(p) = budget[p] + StatusProbe + After("probe", cmd[p])
        BY <2>1, <3>2, <3>3 DEF Owes, After, ProbeLabels, ProbeCalls
      <3>5. After("probe", cmd[p]) \in Nat
        BY <3>3 DEF After
      <3>6. StatusProbe + After("probe", cmd[p]) + d <= Owes(p)
        BY <2>1, <3>2, <3>3, <3>4, <3>5
      <3> QED
        BY <1>a, <2>3, <3>1, <3>2, <3>6, AwaitPays
    <2> QED
      BY <1>2, <1>b, <2>1, <2>2, <2>3 DEF StateQueried
  <1>3. CASE ProbeStateQueried(p, d)
    <2>1. pc[p] \in ProbeLabels
      BY <1>3 DEF ProbeStateQueried, ProbeLabels
    <2> QED
      BY <1>3, <1>d, <1>e, <2>1 DEF ProbeStateQueried
  <1>4. CASE StopStateQueried(p, d)
    BY <1>4, <1>b, <1>f DEF StopStateQueried
  <1>5. CASE PostStateQueried(p, d)
    BY <1>5, <1>b DEF PostStateQueried
  <1>6. CASE ProbeChecked(p, d)
    <2>1. pc[p] \in ProbeLabels
      BY <1>6 DEF ProbeChecked, ProbeLabels
    <2> QED
      BY <1>6, <1>d, <1>e, <2>1 DEF ProbeChecked
  <1>7. CASE ProbeRunFails(p, d)
    BY <1>7, <1>d DEF ProbeRunFails, ProbeLabels
  <1>8. CASE CookieRead(p, d)
    <2>1. pc[p] \in ProbeLabels
      BY <1>8 DEF CookieRead, ProbeLabels, ProbeCalls
    <2> QED
      BY <1>8, <1>d, <1>e, <2>1 DEF CookieRead
  <1>9. CASE RpcFails(p, d)
    BY <1>9, <1>d DEF RpcFails, ProbeLabels, ProbeCalls
  <1>10. CASE ChainChecked(p, d)
    <2>1. pc[p] \in ProbeLabels
      BY <1>10 DEF ChainChecked, ProbeLabels, ProbeCalls
    <2> QED
      BY <1>10, <1>d, <1>e, <2>1 DEF ChainChecked
  <1>11. CASE VersionChecked(p, d)
    BY <1>11, <1>d DEF VersionChecked, ProbeLabels, ProbeCalls
  <1>12. CASE Preflight(p, d)
    BY <1>12, <1>b, <1>f DEF Preflight
  <1>13. CASE UpReturns(p, d)
    <2>1. pc[p] = "upWait" /\ pc[p] \in LaunchCalls
      BY <1>13 DEF UpReturns, LaunchCalls
    <2>2. Timeout + d <= Owes(p) /\ Timeout \in Nat
      <3>1. budget[p] \in Nat /\ Timeout \in Nat /\ d <= budget[p]
        BY <1>a, <2>1, BudgetAssumption DEF IInv, TypeOK
      <3>2. Owes(p) = budget[p] + Timeout
        BY <2>1, <3>1 DEF Owes, After, CommandInv, ProbeLabels, ProbeCalls
      <3> QED
        BY <3>1, <3>2
    <2> QED
      BY <1>13, <1>b, <2>1, <2>2, PollPays DEF UpReturns
  <1>14. CASE Slept(p, d)
    <2>1. pc[p] = "sleep" /\ pc[p] \in LaunchCalls /\ Poll(p, left[p] - d)
      BY <1>14 DEF Slept, LaunchCalls
    <2>2. left[p] \in Nat /\ d <= left[p]
      BY <1>14, BudgetAssumption DEF Slept, Least, IInv, TypeOK
    <2>3. left[p] - d \in Nat /\ left[p] - d + d <= Owes(p)
      BY <2>1, <2>2 DEF Owes
    <2> QED
      BY <2>1, <2>3, PollPays
  <1>15. CASE StopReturns(p, d)
    BY <1>15, <1>b, <1>f DEF StopReturns
  <1> QED
    BY <1>1, <1>2, <1>3, <1>4, <1>5, <1>6, <1>7, <1>8, <1>9, <1>10, <1>11, <1>12,
       <1>13, <1>14, <1>15 DEF HostStep

(* A SIGKILL comes off the deadline of the `compose stop` it ends.            *)
LEMMA KillPays ==
  ASSUME IInv, RequestInv, PollingInv, NEW p \in Procs, NEW d \in Nat, DaemonKills(p, d)
  PROVE  Pays(p, d)
  <1>1. /\ \A q \in Procs : pc'[q] = pc[q] /\ left'[q] = left[q] /\ seen'[q] = seen[q]
        /\ cmd' = cmd
        /\ \A q \in Procs \ {p} : budget'[q] = budget[q]
        /\ budget[p] \in Nat /\ budget'[p] = budget[p] - d
    BY DEF DaemonKills, NodeChanges, IInv, TypeOK
  <1>2. pc[p] \in LaunchCalls => seen'[p] = "none"
    BY <1>1 DEF PollingInv, Polling
  <1>3. Owes(p)' + d <= Owes(p)
    <2>1. Owes(p) \in Nat /\ After(pc[p], cmd[p]) \in Nat /\ Allowance(cmd[p]) \in Nat
      BY OwesIsNat, BudgetAssumption DEF After, IInv
    <2>2. Allowance(cmd[p])' = Allowance(cmd[p]) /\ Polling(p)' = Polling(p)
      BY <1>1 DEF Allowance, Polling
    <2>3. CASE Active(p)
      <3>1. pc[p] \in {"upWait", "stopWait"}
        BY <2>3 DEF DaemonKills, InFlight, RequestInv, IInv, NoResultYet, Active, Errors
      <3> QED
        BY <1>1, <2>1, <3>1 DEF Owes, After, ProbeLabels, ProbeCalls
    <2>4. CASE ~Active(p)
      <3>1. d = 0 /\ pc[p] \in {"idle", "done"}
        BY <2>4 DEF DaemonKills, Active
      <3> QED
        BY <1>1, <2>1, <2>2, <3>1 DEF Owes
    <2> QED
      BY <2>3, <2>4
  <1> QED
    BY <1>1, <1>2, <1>3 DEF Pays

-----------------------------------------------------------------------------
LEMMA InitTimeInv == TimedInit => PollingInv /\ TimeInv
  <1> SUFFICES ASSUME TimedInit PROVE PollingInv /\ TimeInv
    OBVIOUS
  <1>1. \A p \in Procs : pc[p] = "idle" /\ Owes(p) = Allowance(cmd[p]) /\ elapsed[p] = 0
    BY DEF TimedInit, Init, Owes
  <1>2. \A p \in Procs : Allowance(cmd[p]) \in Nat
    BY InitIInv, OwesIsNat DEF TimedInit, IInv
  <1>3. elapsed \in [Procs -> Nat]
    BY DEF TimedInit
  <1> QED
    BY <1>1, <1>2, <1>3 DEF PollingInv, TimeInv, LaunchCalls

LEMMA PaidKeeps ==
  ASSUME IInv, IInv', PollingInv, TimeInv, NEW p \in Procs, NEW d \in Nat,
         Pays(p, d), Takes(p, d)
  PROVE  PollingInv' /\ TimeInv'
  <1>1. PollingInv'
    BY DEF Pays, PollingInv, Polling
  <1>2. elapsed' \in [Procs -> Nat] /\ elapsed'[p] = elapsed[p] + d
    BY DEF TimeInv, Takes
  <1>3. ASSUME NEW q \in Procs
        PROVE  elapsed'[q] + Owes(q)' <= Allowance(cmd[q])'
    <2>1. Allowance(cmd[q])' = Allowance(cmd[q])
      BY DEF Pays, Allowance
    <2>2. /\ Owes(q) \in Nat /\ Owes(q)' \in Nat /\ Allowance(cmd[q]) \in Nat
          /\ elapsed[q] \in Nat
      <3>1. Owes(q) \in Nat /\ Allowance(cmd[q]) \in Nat /\ elapsed[q] \in Nat
        BY OwesIsNat DEF IInv, TimeInv
      <3>2. Allowance(cmd[q])' \in Nat
        BY <2>1, <3>1
      <3>3. budget'[q] \in Nat /\ left'[q] \in Nat
        BY DEF IInv, TypeOK
      <3>4. After(pc[q], cmd[q])' \in Nat
        BY BudgetAssumption DEF After
      <3>5. Owes(q)' \in Nat
        BY <3>2, <3>3, <3>4 DEF Owes
      <3> QED
        BY <3>1, <3>5
    <2>3. CASE q = p
      <3>1. Owes(q)' + d <= Owes(q) /\ elapsed'[q] = elapsed[q] + d
        BY <1>2, <2>3 DEF Pays
      <3>2. elapsed[q] + Owes(q) <= Allowance(cmd[q])
        BY DEF TimeInv
      <3> QED
        BY <2>1, <2>2, <3>1, <3>2
    <2>4. CASE q # p
      <3>1. Owes(q)' = Owes(q)
        BY <2>1, <2>4 DEF Pays, Owes, After, Polling
      <3>2. elapsed'[q] = elapsed[q]
        BY <2>4 DEF Takes, TimeInv
      <3> QED
        BY <2>1, <2>2, <3>1, <3>2 DEF TimeInv
    <2> QED
      BY <2>3, <2>4
  <1> QED
    BY <1>1, <1>2, <1>3 DEF TimeInv

LEMMA UnhurriedKeeps ==
  ASSUME PollingInv, TimeInv, UNCHANGED <<elapsed, cmd, pc, budget, left, seen>>
  PROVE  PollingInv' /\ TimeInv'
  <1>1. \A q \in Procs : Owes(q)' = Owes(q) /\ Allowance(cmd[q])' = Allowance(cmd[q])
    BY DEF Owes, After, Allowance, Polling
  <1> QED
    BY <1>1 DEF PollingInv, TimeInv, Polling

LEMMA BeginAllots ==
  ASSUME IInv, PollingInv, TimeInv, NEW p \in Procs, NEW c \in Commands, Begin(p, c),
         UNCHANGED elapsed
  PROVE  PollingInv' /\ TimeInv'
  <1>1. /\ pc[p] = "idle" /\ cmd'[p] = c
        /\ pc'[p] = IF c = "stop" THEN "stopState" ELSE "state"
        /\ budget'[p] = IF c = "stop" THEN Timeout ELSE StateBudget
        /\ seen' = seen /\ left' = left
        /\ \A q \in Procs \ {p} : cmd'[q] = cmd[q] /\ pc'[q] = pc[q] /\ budget'[q] = budget[q]
    BY DEF Begin, IInv, TypeOK
  <1>2. elapsed[p] = 0
    <2>1. Owes(p) = Allowance(cmd[p]) /\ Allowance(cmd[p]) \in Nat
      BY <1>1, OwesIsNat DEF Owes, IInv
    <2> QED
      BY <2>1 DEF TimeInv
  <1>3. Owes(p)' = Allowance(cmd[p])' /\ Owes(p)' \in Nat
    BY <1>1, BudgetAssumption DEF Owes, After, Allowance, ProbeLabels, ProbeCalls, Commands
  <1>4. \A q \in Procs \ {p} :
          Owes(q)' = Owes(q) /\ Allowance(cmd[q])' = Allowance(cmd[q])
    BY <1>1 DEF Owes, After, Allowance, Polling
  <1>5. PollingInv'
    BY <1>1 DEF PollingInv, Polling, LaunchCalls
  <1> QED
    BY <1>2, <1>3, <1>4, <1>5 DEF TimeInv

LEMMA TimedStep ==
  ASSUME IInv, IInv', CommandInv, HoldInv, PollingInv, TimeInv, [TimedNext]_timedVars
  PROVE  PollingInv' /\ TimeInv'
  <1>1. ASSUME NEW p \in Procs, NEW c \in Commands, Begin(p, c), UNCHANGED elapsed
        PROVE  PollingInv' /\ TimeInv'
    BY <1>1, BeginAllots
  <1>2. ASSUME NEW p \in Procs, NEW d \in Ticks, HostStep(p, d), Takes(p, d)
        PROVE  PollingInv' /\ TimeInv'
    <2>1. d \in Nat
      BY TicksAreNat
    <2> QED
      BY <1>2, <2>1, HostPays, PaidKeeps
  <1>3. ASSUME NEW p \in Procs, NEW d \in Ticks, DaemonKills(p, d), Takes(p, d)
        PROVE  PollingInv' /\ TimeInv'
    <2>1. d \in Nat
      BY TicksAreNat
    <2> QED
      BY <1>3, <2>1, KillPays, PaidKeeps DEF HoldInv
  <1>4. ASSUME NEW p \in Procs, DaemonStep(p), UNCHANGED elapsed
        PROVE  PollingInv' /\ TimeInv'
    BY <1>4, UnhurriedKeeps DEF DaemonStep, DaemonStarts, DaemonReplaces, DaemonLeaves,
                                DaemonStops, NodeChanges
  <1>5. CASE NodeStep /\ UNCHANGED elapsed
    BY <1>5, UnhurriedKeeps DEF NodeStep, NodeChanges
  <1>6. CASE UNCHANGED timedVars
    BY <1>6, UnhurriedKeeps DEF timedVars, vars, hostVars
  <1> QED
    BY <1>1, <1>2, <1>3, <1>4, <1>5, <1>6 DEF TimedNext

(* Each call is given what is left of a deadline, never a fresh timeout: no  *)
(* command outlasts the budgets of get_status, the one timeout of            *)
(* adapter.start and the one of the polls, or the one timeout of a stop.     *)
THEOREM CommandsKeepTheirAllowance == TimedSpec => []WithinAllowance
  <1> DEFINE Inv == IInv /\ CommandInv /\ HoldInv /\ PollingInv /\ TimeInv
  <1>1. TimedInit => Inv
    BY InitIInv, InitCommandInv, InitHoldInv, InitTimeInv DEF TimedInit
  <1>2. Inv /\ [TimedNext]_timedVars => Inv'
    <2> SUFFICES ASSUME Inv, [TimedNext]_timedVars PROVE Inv'
      OBVIOUS
    <2>1. [Next]_vars
      BY DEF TimedNext, Next, timedVars
    <2>2. IInv'
      BY <2>1, NextKeepsIInv
    <2>3. CommandInv' /\ HoldInv'
      BY <2>1, <2>2, Simulation, NextHolds
    <2> QED
      BY <2>2, <2>3, TimedStep
  <1>3. Inv => WithinAllowance
    <2> SUFFICES ASSUME IInv, TimeInv, NEW p \in Procs
                 PROVE  elapsed[p] <= Allowance(cmd[p])
      BY DEF WithinAllowance
    <2>1. elapsed[p] \in Nat /\ Owes(p) \in Nat /\ Allowance(cmd[p]) \in Nat
      BY OwesIsNat DEF IInv, TimeInv
    <2> QED
      BY <2>1 DEF TimeInv
  <1> QED
    BY <1>1, <1>2, <1>3, PTL DEF TimedSpec
=============================================================================
