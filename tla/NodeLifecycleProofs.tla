------------------------- MODULE NodeLifecycleProofs -------------------------
(***************************************************************************)
(* Proofs about NodeLifecycle for any number of processes, any timeout and *)
(* any budgets.  The inductive invariant says why the evidence survives    *)
(* the interleavings: what a probe has learnt stays true for as long as    *)
(* the cookie it holds is accepted, and what is true is always witnessed.  *)
(***************************************************************************)
EXTENDS NodeLifecycle, TLAPS

ProbeLabels == {"probe", "probeState"} \cup ProbeCalls

(* A poll's probe ends before the readiness deadline; a sleep begins before. *)
Deadlines ==
  \A p \in Procs :
    /\ pc[p] \in ProbeLabels /\ Polling(p) => budget[p] <= left[p]
    /\ pc[p] = "sleep" => left[p] > 0

(* The current cookie is that of the server that listens, in a running       *)
(* container.                                                                *)
ServerInv ==
  /\ cookie = "current" => rpc # "closed"
  /\ rpc # "closed" => container = "up"

(* A cookie that opens the server belongs to this server, and a chain that   *)
(* was checked with it is the chain of this server.                          *)
CookieInv ==
  \A p \in Procs :
    auth[p] = "valid" =>
      /\ rpc # "closed"
      /\ pc[p] = "version" => image # "wrongChain"

WitnessInv == \A p \in Procs : Active(p) => Facts \subseteq witness[p]

NoResultYet == \A p \in Procs : pc[p] # "done" => outcome[p] = "none"

Evidence == HealthyWasSeen /\ IncompatibleWasSeen /\ StoppedWasSeen

IInv ==
  /\ TypeOK
  /\ Deadlines
  /\ ServerInv
  /\ CookieInv
  /\ WitnessInv
  /\ NoResultYet
  /\ Evidence

-----------------------------------------------------------------------------

LEMMA TicksAreNat == Ticks \subseteq Nat
  BY BudgetAssumption DEF Ticks, Most

LEMMA InitIInv == Init => IInv
  <1> SUFFICES ASSUME Init PROVE IInv
    OBVIOUS
  <1>1. TypeOK
    BY DEF Init, TypeOK, RuntimeInit, Commands, Labels, NodeStates, Errors
  <1>2. Deadlines /\ CookieInv /\ WitnessInv /\ NoResultYet /\ Evidence
    BY DEF Init, Deadlines, CookieInv, WitnessInv, NoResultYet, Evidence,
           HealthyWasSeen, IncompatibleWasSeen, StoppedWasSeen, Active,
           ProbeLabels, ProbeCalls
  <1>3. ServerInv
    BY DEF Init, RuntimeInit, RuntimeTypeOK, ServerInv
  <1> QED
    BY <1>1, <1>2, <1>3 DEF IInv

(* What `compose ps` is read as: "stopped" only of a container that is down.  *)
LEMMA ReadingSound ==
  ASSUME RuntimeTypeOK, NEW s \in Reading
  PROVE  /\ s \in {"stopped", "starting", "unhealthy", "unknown"}
         /\ s = "stopped" => container = "down"
  <1>1. CASE s = "unknown"
    BY <1>1
  <1>2. CASE s # "unknown"
    <2>1. PICK l \in Listings(container) : s = StateOfListing(l)
      BY <1>2 DEF Reading, ReadingOf, RuntimeTypeOK
    <2>2. CASE l = {}
      <3>1. container = "down"
        BY <2>1, <2>2 DEF Listings
      <3> QED
        BY <2>1, <2>2, <3>1 DEF StateOfListing
    <2>3. CASE l # {}
      <3>1. PICK e \in l : e.service = "bitcoin-core" /\ s = StateOfEntry(e)
        BY <1>2, <2>1, <2>3 DEF StateOfListing
      <3>2. e \in CoreEntries(container)
        BY <2>1, <3>1 DEF Listings, Entry
      <3>3. CASE container = "down"
        BY <3>1, <3>2, <3>3 DEF CoreEntries, Entry, StateOfEntry
      <3>4. CASE container = "up"
        <4>1. e.state = "running"
          BY <3>2, <3>4 DEF CoreEntries, Entry
        <4> QED
          BY <3>1, <4>1 DEF StateOfEntry
      <3>5. CASE container = "restarting"
        <4>1. e.state = "restarting"
          BY <3>2, <3>5 DEF CoreEntries, Entry
        <4> QED
          BY <3>1, <4>1 DEF StateOfEntry
      <3> QED
        BY <3>3, <3>4, <3>5 DEF RuntimeTypeOK
    <2> QED
      BY <2>2, <2>3
  <1> QED
    BY <1>1, <1>2

(* A command may end with any result its witness backs.                      *)
LEMMA FinishKeeps ==
  ASSUME IInv, NEW p \in Procs, Active(p),
         NEW result \in NodeStates \cup Errors, Finish(p, result),
         req' \in [Procs -> {"none", "up", "stop", "done", "killed"}],
         result = "healthy" => "compatible" \in witness[p],
         result \in {"incompatible", "NodeIncompatible"} => "incompatible" \in witness[p],
         result = "stopped" => "down" \in witness[p]
  PROVE  IInv'
  <1> USE DEF IInv, Finish
  <1>1. TypeOK'
    BY DEF TypeOK, RuntimeTypeOK, runtimeVars, Labels
  <1>2. Deadlines'
    BY DEF TypeOK, Deadlines, Polling, ProbeLabels, ProbeCalls
  <1>3. ServerInv'
    BY DEF ServerInv, runtimeVars
  <1>4. CookieInv'
    BY DEF TypeOK, CookieInv, runtimeVars
  <1>5. WitnessInv'
    BY DEF TypeOK, WitnessInv, Active, Facts, runtimeVars
  <1>6. NoResultYet'
    BY DEF TypeOK, NoResultYet
  <1>7. Evidence'
    BY DEF TypeOK, Evidence, HealthyWasSeen, IncompatibleWasSeen, StoppedWasSeen
  <1> QED
    BY <1>1, <1>2, <1>3, <1>4, <1>5, <1>6, <1>7

(* A command may go on to any call whose deadline is within the command's,   *)
(* and to the version check only with the chain known.                       *)
LEMMA AwaitKeeps ==
  ASSUME IInv, NEW p \in Procs, Active(p),
         NEW call \in Labels \ {"idle", "done"}, NEW b \in Nat, NEW l \in Nat,
         Await(p, call, b, l),
         seen' \in [Procs -> {"none", "starting", "unhealthy", "unknown"}],
         auth' \in [Procs -> {"none", "valid", "stale"}],
         req' \in [Procs -> {"none", "up", "stop", "done", "killed"}],
         \A q \in Procs \ {p} : seen'[q] = seen[q] /\ auth'[q] = auth[q],
         call \in ProbeLabels /\ seen'[p] = "none" => b <= l,
         call = "sleep" => l > 0,
         auth'[p] = "valid" => rpc # "closed",
         auth'[p] = "valid" /\ call = "version" => image # "wrongChain"
  PROVE  IInv'
  <1> USE DEF IInv, Await
  <1>1. TypeOK'
    BY DEF TypeOK, RuntimeTypeOK, runtimeVars, Labels
  <1>2. Deadlines'
    BY DEF TypeOK, Deadlines, Polling
  <1>3. ServerInv'
    BY DEF ServerInv, runtimeVars
  <1>4. CookieInv'
    BY DEF TypeOK, CookieInv, runtimeVars
  <1>5. WitnessInv'
    BY DEF TypeOK, WitnessInv, Active, Facts, runtimeVars
  <1>6. NoResultYet'
    BY DEF TypeOK, NoResultYet, Active
  <1>7. Evidence'
    BY DEF TypeOK, Evidence, HealthyWasSeen, IncompatibleWasSeen, StoppedWasSeen
  <1> QED
    BY <1>1, <1>2, <1>3, <1>4, <1>5, <1>6, <1>7

LEMMA LaunchKeeps ==
  ASSUME IInv, NEW p \in Procs, Active(p), Launch(p)
  PROVE  IInv'
  <1>1. Await(p, "preflight", Timeout, 0)
    BY DEF Launch
  <1>2. /\ seen' \in [Procs -> {"none", "starting", "unhealthy", "unknown"}]
        /\ auth' \in [Procs -> {"none", "valid", "stale"}]
        /\ req' \in [Procs -> {"none", "up", "stop", "done", "killed"}]
        /\ \A q \in Procs \ {p} : seen'[q] = seen[q] /\ auth'[q] = auth[q]
        /\ auth'[p] = "none"
    BY DEF Launch, IInv, TypeOK
  <1>3. /\ "preflight" \in Labels \ {"idle", "done"}
        /\ "preflight" \notin ProbeLabels
        /\ Timeout \in Nat
    BY BudgetAssumption DEF Labels, ProbeLabels, ProbeCalls
  <1> QED
    BY <1>1, <1>2, <1>3, AwaitKeeps

LEMMA PollKeeps ==
  ASSUME IInv, NEW p \in Procs, Active(p), NEW l \in Nat, Poll(p, l), UNCHANGED req
  PROVE  IInv'
  <1>0. req' \in [Procs -> {"none", "up", "stop", "done", "killed"}]
    BY DEF IInv, TypeOK
  <1>1. CASE l > 0 /\ Await(p, "probe", ProbeBudget(l), l) /\ UNCHANGED <<seen, auth>>
    <2>1. /\ seen' \in [Procs -> {"none", "starting", "unhealthy", "unknown"}]
          /\ auth' \in [Procs -> {"none", "valid", "stale"}]
          /\ \A q \in Procs : seen'[q] = seen[q] /\ auth'[q] = auth[q]
          /\ auth'[p] = "valid" => rpc # "closed"
      BY <1>1 DEF IInv, TypeOK, CookieInv
    <2>2. ProbeBudget(l) \in Nat /\ ProbeBudget(l) <= l
      BY BudgetAssumption DEF ProbeBudget, Least
    <2>3. "probe" \in Labels \ {"idle", "done"}
      BY DEF Labels
    <2> QED
      BY <1>0, <1>1, <2>1, <2>2, <2>3, AwaitKeeps
  <1>2. CASE l = 0 /\ Finish(p, "StartupTimeout")
    <2>1. /\ "StartupTimeout" \in NodeStates \cup Errors
          /\ "StartupTimeout" \notin {"healthy", "incompatible", "NodeIncompatible", "stopped"}
      BY DEF Errors
    <2> QED
      BY <1>0, <1>2, <2>1, FinishKeeps
  <1> QED
    BY <1>1, <1>2 DEF Poll

(* probe_health returns to its caller: the caller's claim is the probe's.    *)
LEMMA ConcludeKeeps ==
  ASSUME IInv, NEW p \in Procs, Active(p), NEW health \in NodeStates, NEW d \in Nat,
         pc[p] \in ProbeLabels, d <= budget[p],
         Conclude(p, health, d),
         health = "healthy" => "compatible" \in witness[p],
         health = "incompatible" => "incompatible" \in witness[p],
         health = "stopped" => "down" \in witness[p]
  PROVE  IInv'
  <1>0. CASE ConcludeStatus(p, health)
    <2>1. CASE Finish(p, Combined(p, health)) /\ UNCHANGED req
      <3>1. Combined(p, health) \in {health, "unknown"}
        BY DEF Combined
      <3>2. /\ Combined(p, health) \in NodeStates \cup Errors
            /\ Combined(p, health) # "NodeIncompatible"
        BY <3>1 DEF NodeStates, Errors
      <3>3. req' \in [Procs -> {"none", "up", "stop", "done", "killed"}]
        BY <2>1 DEF IInv, TypeOK
      <3> QED
        BY <2>1, <3>1, <3>2, <3>3, FinishKeeps
    <2>2. CASE Launch(p)
      BY <2>2, LaunchKeeps
    <2> QED
      BY <1>0, <2>1, <2>2 DEF ConcludeStatus
  <1>1. CASE ConcludePoll(p, health, left[p] - d)
    <2>0. /\ UNCHANGED req
          /\ req' \in [Procs -> {"none", "up", "stop", "done", "killed"}]
          /\ left[p] - d \in Nat
      <3>1. d <= left[p] /\ left[p] \in Nat /\ budget[p] \in Nat
        BY <1>1 DEF ConcludePoll, IInv, TypeOK, Deadlines
      <3> QED
        BY <1>1, <3>1 DEF ConcludePoll, IInv, TypeOK
    <2>1. CASE health = "healthy" /\ Finish(p, "healthy")
      BY <2>0, <2>1, FinishKeeps DEF NodeStates
    <2>2. CASE health = "incompatible" /\ Finish(p, "NodeIncompatible")
      BY <2>0, <2>2, FinishKeeps DEF Errors
    <2>3. CASE Finish(p, "StartupTimeout")
      BY <2>0, <2>3, FinishKeeps DEF Errors
    <2>4. CASE /\ left[p] - d > 0
               /\ Await(p, "sleep", 0, left[p] - d)
               /\ auth' = [auth EXCEPT ![p] = "none"]
               /\ UNCHANGED seen
      <3>1. /\ seen' \in [Procs -> {"none", "starting", "unhealthy", "unknown"}]
            /\ auth' \in [Procs -> {"none", "valid", "stale"}]
            /\ \A q \in Procs \ {p} : seen'[q] = seen[q] /\ auth'[q] = auth[q]
            /\ auth'[p] = "none"
        BY <2>4 DEF IInv, TypeOK
      <3>2. "sleep" \in Labels \ {"idle", "done"} /\ "sleep" \notin ProbeLabels
        BY DEF Labels, ProbeLabels, ProbeCalls
      <3> QED
        BY <2>0, <2>4, <3>1, <3>2, AwaitKeeps
    <2> QED
      BY <1>1, <2>1, <2>2, <2>3, <2>4 DEF ConcludePoll
  <1> QED
    BY <1>0, <1>1 DEF Conclude

-----------------------------------------------------------------------------
(* The host steps, one by one.                                               *)

(* The calls a probe goes on to share its caller's deadline.                 *)
LEMMA RestKeeps ==
  ASSUME IInv, NEW p \in Procs, Active(p), NEW call \in ProbeLabels, NEW d \in Nat,
         pc[p] \in ProbeLabels, d <= budget[p],
         Await(p, call, budget[p] - d, Most(left[p], d) - d),
         UNCHANGED <<seen, req>>,
         auth' \in [Procs -> {"none", "valid", "stale"}],
         \A q \in Procs \ {p} : auth'[q] = auth[q],
         auth'[p] = "valid" => rpc # "closed",
         auth'[p] = "valid" /\ call = "version" => image # "wrongChain"
  PROVE  IInv'
  <1>1. /\ budget[p] - d \in Nat
        /\ Most(left[p], d) - d \in Nat
        /\ Polling(p) => budget[p] - d <= Most(left[p], d) - d
    BY DEF IInv, TypeOK, Deadlines, Most
  <1>2. /\ seen' \in [Procs -> {"none", "starting", "unhealthy", "unknown"}]
        /\ req' \in [Procs -> {"none", "up", "stop", "done", "killed"}]
        /\ \A q \in Procs \ {p} : seen'[q] = seen[q] /\ auth'[q] = auth[q]
        /\ seen'[p] = "none" => Polling(p)
    BY DEF IInv, TypeOK, Polling
  <1>3. call \in Labels \ {"idle", "done"} /\ call # "sleep"
    BY DEF Labels, ProbeLabels, ProbeCalls
  <1> QED
    BY <1>1, <1>2, <1>3, AwaitKeeps

LEMMA HostKeeps ==
  ASSUME IInv, NEW p \in Procs, NEW d \in Nat, HostStep(p, d)
  PROVE  IInv'
  <1> DEFINE ReqOK == req' \in [Procs -> {"none", "up", "stop", "done", "killed"}]
  <1>a. UNCHANGED req => ReqOK
    BY DEF IInv, TypeOK
  <1>c. /\ "RuntimeUnavailable" \in Errors /\ "LifecycleError" \in Errors
        /\ "StartupTimeout" \in Errors /\ "ShutdownTimeout" \in Errors
        /\ NodeStates \cap Errors = {}
    BY DEF NodeStates, Errors
  <1>d. ASSUME Active(p), NEW e \in Errors \ {"NodeIncompatible"}, Finish(p, e), ReqOK
        PROVE  IInv'
    BY <1>d, FinishKeeps DEF NodeStates, Errors
  <1>e. ASSUME Active(p), NEW s \in Reading, s = "stopped"
        PROVE  "down" \in witness[p]
    <2>1. container = "down"
      BY <1>e, ReadingSound DEF IInv, TypeOK
    <2> QED
      BY <1>e, <2>1 DEF Facts, IInv, WitnessInv
  <1>1. CASE QueryFails(p)
    <2>1. Active(p)
      BY <1>1 DEF QueryFails, Active
    <2> QED
      BY <1>1, <1>a, <1>c, <1>d, <2>1 DEF QueryFails, Errors
  <1>2. CASE StateQueried(p, d)
    <2>1. Active(p)
      BY <1>2 DEF StateQueried, Active
    <2>2. PICK s \in Reading :
            \/ s = "stopped" /\ Finish(p, "stopped") /\ UNCHANGED req
            \/ Launch(p)
            \/ /\ s # "stopped"
               /\ Await(p, "probe", StatusProbe, 0)
               /\ seen' = [seen EXCEPT ![p] = s]
               /\ UNCHANGED <<auth, req>>
      BY <1>2 DEF StateQueried
    <2>3. CASE s = "stopped" /\ Finish(p, "stopped") /\ UNCHANGED req
      BY <1>a, <1>e, <2>1, <2>3, FinishKeeps DEF NodeStates
    <2>4. CASE Launch(p)
      BY <2>1, <2>4, LaunchKeeps
    <2>5. CASE /\ s # "stopped"
               /\ Await(p, "probe", StatusProbe, 0)
               /\ seen' = [seen EXCEPT ![p] = s]
               /\ UNCHANGED <<auth, req>>
      <3>1. /\ seen' \in [Procs -> {"none", "starting", "unhealthy", "unknown"}]
            /\ seen'[p] # "none"
            /\ auth' \in [Procs -> {"none", "valid", "stale"}]
            /\ \A q \in Procs \ {p} : seen'[q] = seen[q] /\ auth'[q] = auth[q]
            /\ auth'[p] = "valid" => rpc # "closed"
        BY <2>5, ReadingSound DEF IInv, TypeOK, CookieInv
      <3>2. "probe" \in Labels \ {"idle", "done"} /\ StatusProbe \in Nat /\ 0 \in Nat
        BY BudgetAssumption DEF Labels
      <3> QED
        BY <1>a, <2>1, <2>5, <3>1, <3>2, AwaitKeeps
    <2> QED
      BY <2>2, <2>3, <2>4, <2>5
  <1>f. ASSUME Active(p), pc[p] \in ProbeLabels, d <= budget[p],
               NEW h \in {"starting", "unhealthy", "unknown"}, Conclude(p, h, d)
        PROVE  IInv'
    BY <1>f, ConcludeKeeps DEF NodeStates
  <1>g. pc[p] \in ProbeLabels => Active(p) /\ pc[p] # "sleep"
    BY DEF Active, ProbeLabels, ProbeCalls
  <1>h. pc[p] \in ProbeLabels => d <= budget[p]
    BY <1>g DEF HostStep
  <1>k. /\ auth \in [Procs -> {"none", "valid", "stale"}]
        /\ auth[p] = "valid" => rpc # "closed"
        /\ auth[p] = "valid" /\ pc[p] = "version" => image # "wrongChain"
    BY DEF IInv, TypeOK, CookieInv
  <1>l. ASSUME Active(p), Accepts(p)
        PROVE  /\ image = "good" => "compatible" \in witness[p]
               /\ image # "good" => "incompatible" \in witness[p]
    BY <1>l DEF Accepts, Facts, IInv, WitnessInv
  <1>3. CASE ProbeStateQueried(p, d)
    <2>1. pc[p] \in ProbeLabels /\ pc[p] = "probeState"
      BY <1>3 DEF ProbeStateQueried, ProbeLabels
    <2>2. PICK s \in Reading :
            \/ s = "stopped" /\ Conclude(p, "stopped", d)
            \/ Conclude(p, "unknown", d)
            \/ /\ Await(p, "cookie", budget[p] - d, Most(left[p], d) - d)
               /\ UNCHANGED <<seen, auth, req>>
      BY <1>3 DEF ProbeStateQueried
    <2>3. CASE s = "stopped" /\ Conclude(p, "stopped", d)
      BY <1>e, <1>g, <1>h, <2>1, <2>3, ConcludeKeeps DEF NodeStates
    <2>4. CASE Conclude(p, "unknown", d)
      BY <1>f, <1>g, <1>h, <2>1, <2>4
    <2>5. CASE /\ Await(p, "cookie", budget[p] - d, Most(left[p], d) - d)
               /\ UNCHANGED <<seen, auth, req>>
      <3>1. "cookie" \in ProbeLabels
        BY DEF ProbeLabels, ProbeCalls
      <3> QED
        BY <1>g, <1>h, <1>k, <2>1, <2>5, <3>1, RestKeeps
    <2> QED
      BY <2>2, <2>3, <2>4, <2>5
  <1>4. CASE StopStateQueried(p, d)
    <2>1. Active(p) /\ d <= budget[p]
      BY <1>4 DEF StopStateQueried, Active, HostStep
    <2>2. PICK s \in Reading :
            \/ s = "stopped" /\ Finish(p, "stopped") /\ UNCHANGED req
            \/ Finish(p, "ShutdownTimeout") /\ UNCHANGED req
            \/ /\ Await(p, "stopWait", budget[p] - d, 0)
               /\ req' = [req EXCEPT ![p] = "stop"]
               /\ UNCHANGED <<seen, auth>>
      BY <1>4 DEF StopStateQueried
    <2>3. CASE s = "stopped" /\ Finish(p, "stopped") /\ UNCHANGED req
      BY <1>a, <1>e, <2>1, <2>3, FinishKeeps DEF NodeStates
    <2>4. CASE Finish(p, "ShutdownTimeout") /\ UNCHANGED req
      BY <1>a, <1>c, <1>d, <2>1, <2>4
    <2>5. CASE /\ Await(p, "stopWait", budget[p] - d, 0)
               /\ req' = [req EXCEPT ![p] = "stop"]
               /\ UNCHANGED <<seen, auth>>
      <3>1. ReqOK /\ seen' \in [Procs -> {"none", "starting", "unhealthy", "unknown"}]
        BY <2>5 DEF IInv, TypeOK
      <3>2. /\ "stopWait" \in Labels \ {"idle", "done"}
            /\ "stopWait" \notin ProbeLabels
            /\ budget[p] - d \in Nat
        BY <2>1 DEF Labels, ProbeLabels, ProbeCalls, IInv, TypeOK
      <3> QED
        BY <1>k, <2>1, <2>5, <3>1, <3>2, AwaitKeeps
    <2> QED
      BY <2>2, <2>3, <2>4, <2>5
  <1>5. CASE PostStateQueried(p, d)
    <2>1. Active(p)
      BY <1>5 DEF PostStateQueried, Active
    <2>2. PICK s \in Reading :
            Finish(p, IF s = "stopped" THEN "stopped" ELSE "ShutdownTimeout")
      BY <1>5 DEF PostStateQueried
    <2>3. CASE s = "stopped"
      BY <1>5, <1>a, <1>e, <2>1, <2>2, <2>3, FinishKeeps DEF NodeStates, PostStateQueried
    <2>4. CASE s # "stopped"
      BY <1>5, <1>a, <1>c, <1>d, <2>1, <2>2, <2>4 DEF PostStateQueried
    <2> QED
      BY <2>3, <2>4
  <1>6. CASE ProbeChecked(p, d)
    <2>1. pc[p] \in ProbeLabels /\ pc[p] = "probe" /\ "probeState" \in ProbeLabels
      BY <1>6 DEF ProbeChecked, ProbeLabels
    <2>2. CASE Conclude(p, "unknown", d)
      BY <1>f, <1>g, <1>h, <2>1, <2>2
    <2>3. CASE /\ Await(p, "probeState", budget[p] - d, Most(left[p], d) - d)
               /\ UNCHANGED <<seen, auth, req>>
      BY <1>g, <1>h, <1>k, <2>1, <2>3, RestKeeps
    <2> QED
      BY <1>6, <2>2, <2>3 DEF ProbeChecked
  <1>7. CASE ProbeRunFails(p, d)
    <2>1. pc[p] \in ProbeLabels
      BY <1>7 DEF ProbeRunFails, ProbeLabels
    <2> QED
      BY <1>7, <1>f, <1>g, <1>h, <2>1 DEF ProbeRunFails
  <1>8. CASE CookieRead(p, d)
    <2>1. pc[p] \in ProbeLabels /\ pc[p] = "cookie" /\ "chain" \in ProbeLabels
      BY <1>8 DEF CookieRead, ProbeLabels, ProbeCalls
    <2>2. CASE Conclude(p, "starting", d)
      BY <1>f, <1>g, <1>h, <2>1, <2>2
    <2>3. CASE /\ Await(p, "chain", budget[p] - d, Most(left[p], d) - d)
               /\ auth' = [auth EXCEPT ![p] = IF cookie = "current" THEN "valid" ELSE "stale"]
               /\ UNCHANGED <<seen, req>>
      <3>1. /\ auth' \in [Procs -> {"none", "valid", "stale"}]
            /\ \A q \in Procs \ {p} : auth'[q] = auth[q]
            /\ auth'[p] = "valid" => rpc # "closed"
        BY <1>k, <2>3 DEF IInv, ServerInv
      <3> QED
        BY <1>g, <1>h, <2>1, <2>3, <3>1, RestKeeps
    <2> QED
      BY <1>8, <2>2, <2>3 DEF CookieRead
  <1>9. CASE RpcFails(p, d)
    <2>1. pc[p] \in ProbeLabels
      BY <1>9 DEF RpcFails, ProbeLabels, ProbeCalls
    <2> QED
      BY <1>9, <1>f, <1>g, <1>h, <2>1 DEF RpcFails
  <1>10. CASE ChainChecked(p, d)
    <2>1. /\ pc[p] \in ProbeLabels /\ pc[p] = "chain" /\ "version" \in ProbeLabels
          /\ Accepts(p)
      BY <1>10 DEF ChainChecked, ProbeLabels, ProbeCalls
    <2>2. CASE image = "wrongChain" /\ Conclude(p, "incompatible", d)
      BY <1>g, <1>h, <1>l, <2>1, <2>2, ConcludeKeeps DEF NodeStates
    <2>3. CASE /\ image # "wrongChain"
               /\ Await(p, "version", budget[p] - d, Most(left[p], d) - d)
               /\ UNCHANGED <<seen, auth, req>>
      BY <1>g, <1>h, <1>k, <2>1, <2>3, RestKeeps
    <2> QED
      BY <1>10, <2>2, <2>3 DEF ChainChecked
  <1>11. CASE VersionChecked(p, d)
    <2>1. pc[p] \in ProbeLabels /\ pc[p] = "version" /\ Accepts(p)
      BY <1>11 DEF VersionChecked, ProbeLabels, ProbeCalls
    <2>2. CASE image = "wrongVersion"
      <3>1. Conclude(p, "incompatible", d)
        BY <1>11, <2>2 DEF VersionChecked
      <3> QED
        BY <1>g, <1>h, <1>l, <2>1, <2>2, <3>1, ConcludeKeeps DEF NodeStates
    <2>3. CASE image # "wrongVersion"
      <3>1. Conclude(p, "healthy", d)
        BY <1>11, <2>3 DEF VersionChecked
      <3>2. image = "good"
        BY <1>k, <2>1, <2>3 DEF Accepts, IInv, TypeOK, RuntimeTypeOK, Images
      <3> QED
        BY <1>g, <1>h, <1>l, <2>1, <3>1, <3>2, ConcludeKeeps DEF NodeStates
    <2> QED
      BY <2>2, <2>3
  <1>12. CASE Preflight(p, d)
    <2>1. Active(p) /\ d <= budget[p]
      BY <1>12 DEF Preflight, Active, HostStep
    <2>2. CASE \E e \in {"RuntimeUnavailable", "LifecycleError", "StartupTimeout"} :
                 Finish(p, e) /\ UNCHANGED req
      BY <1>a, <1>c, <1>d, <2>1, <2>2
    <2>3. CASE /\ Await(p, "upWait", budget[p] - d, 0)
               /\ req' = [req EXCEPT ![p] = "up"]
               /\ UNCHANGED <<seen, auth>>
      <3>1. ReqOK /\ seen' \in [Procs -> {"none", "starting", "unhealthy", "unknown"}]
        BY <2>3 DEF IInv, TypeOK
      <3>2. /\ "upWait" \in Labels \ {"idle", "done"}
            /\ "upWait" \notin ProbeLabels
            /\ budget[p] - d \in Nat
        BY <2>1 DEF Labels, ProbeLabels, ProbeCalls, IInv, TypeOK
      <3> QED
        BY <1>k, <2>1, <2>3, <3>1, <3>2, AwaitKeeps
    <2> QED
      BY <1>12, <2>2, <2>3 DEF Preflight
  <1>m. req' = [req EXCEPT ![p] = Withdrawn(p)] => ReqOK
    BY DEF IInv, TypeOK, Withdrawn
  <1>13. CASE UpReturns(p, d)
    <2>1. Active(p)
      BY <1>13 DEF UpReturns, Active
    <2>2. CASE Poll(p, Timeout) /\ UNCHANGED req
      BY <2>1, <2>2, PollKeeps, BudgetAssumption
    <2>3. CASE /\ Finish(p, "LifecycleError")
               /\ req' = [req EXCEPT ![p] = Withdrawn(p)]
      BY <1>c, <1>d, <1>m, <2>1, <2>3
    <2>4. CASE Finish(p, "StartupTimeout") /\ UNCHANGED req
      BY <1>a, <1>c, <1>d, <2>1, <2>4
    <2> QED
      BY <1>13, <2>2, <2>3, <2>4 DEF UpReturns
  <1>14. CASE Slept(p, d)
    <2>1. Active(p) /\ Poll(p, left[p] - d) /\ UNCHANGED req
      BY <1>14 DEF Slept, Active
    <2>2. left[p] - d \in Nat
      BY <1>14 DEF Slept, IInv, TypeOK
    <2> QED
      BY <2>1, <2>2, PollKeeps
  <1>15. CASE StopReturns(p, d)
    <2>1. Active(p) /\ d <= budget[p]
      BY <1>15 DEF StopReturns, Active, HostStep
    <2>2. CASE /\ Await(p, "postState", budget[p] - d, 0)
               /\ UNCHANGED <<seen, auth, req>>
      <3>1. seen' \in [Procs -> {"none", "starting", "unhealthy", "unknown"}]
        BY <2>2 DEF IInv, TypeOK
      <3>2. /\ "postState" \in Labels \ {"idle", "done"}
            /\ "postState" \notin ProbeLabels
            /\ budget[p] - d \in Nat
        BY <2>1 DEF Labels, ProbeLabels, ProbeCalls, IInv, TypeOK
      <3> QED
        BY <1>a, <1>k, <2>1, <2>2, <3>1, <3>2, AwaitKeeps
    <2>3. CASE /\ Finish(p, "LifecycleError")
               /\ req' = [req EXCEPT ![p] = Withdrawn(p)]
      BY <1>c, <1>d, <1>m, <2>1, <2>3
    <2>4. CASE Finish(p, "ShutdownTimeout") /\ UNCHANGED req
      BY <1>a, <1>c, <1>d, <2>1, <2>4
    <2> QED
      BY <1>15, <2>2, <2>3, <2>4 DEF StopReturns
  <1> QED
    BY <1>1, <1>2, <1>3, <1>4, <1>5, <1>6, <1>7, <1>8, <1>9, <1>10, <1>11, <1>12,
       <1>13, <1>14, <1>15 DEF HostStep

-----------------------------------------------------------------------------
(* The daemon and the node.                                                  *)

(* A change of the node may do anything as long as it leaves no server       *)
(* behind it that has another image, and a listening server only where one   *)
(* was or where no cookie was valid.                                         *)
LEMMA NodeChangeKeeps ==
  ASSUME IInv, NodeChanges,
         RuntimeTypeOK', ServerInv',
         rpc # "closed" => image' = image,
         budget' \in [Procs -> Nat],
         \A p \in Procs : budget'[p] <= budget[p],
         req' \in [Procs -> {"none", "up", "stop", "done", "killed"}]
  PROVE  IInv'
  <1> USE DEF IInv, NodeChanges
  <1>1. TypeOK'
    <2>1. Facts' \in SUBSET {"down", "compatible", "incompatible"}
      BY DEF Facts
    <2>2. witness' \in [Procs -> SUBSET {"down", "compatible", "incompatible"}]
      BY <2>1 DEF TypeOK
    <2>3. auth' \in [Procs -> {"none", "valid", "stale"}]
      BY DEF TypeOK
    <2> QED
      BY <2>2, <2>3 DEF TypeOK
  <1>2. Deadlines'
    <2> SUFFICES ASSUME NEW p \in Procs
                 PROVE  /\ pc[p] \in ProbeLabels /\ Polling(p) => budget'[p] <= left[p]
                        /\ pc[p] = "sleep" => left[p] > 0
      BY DEF Deadlines, Polling
    <2> QED
      BY DEF Deadlines, TypeOK
  <1>3. CookieInv'
    BY DEF CookieInv, TypeOK
  <1>4. WitnessInv'
    BY DEF WitnessInv, TypeOK, Active
  <1>5. NoResultYet'
    BY DEF NoResultYet
  <1>6. Evidence'
    BY DEF Evidence, HealthyWasSeen, IncompatibleWasSeen, StoppedWasSeen, TypeOK
  <1> QED
    BY <1>1, <1>2, <1>3, <1>4, <1>5, <1>6

LEMMA DaemonKeeps ==
  ASSUME IInv, NEW p \in Procs, DaemonStep(p)
  PROVE  IInv'
  <1>1. ASSUME NEW how \in {"up", "done"}, Settle(p, how), UNCHANGED budget,
               NodeChanges, Halt \/ \E img \in Images : Boot(img)
        PROVE  IInv'
    <2>1. RuntimeTypeOK' /\ ServerInv' /\ (rpc # "closed" => image' = image)
      BY <1>1 DEF Halt, Boot, IInv, TypeOK, RuntimeTypeOK, ServerInv
    <2>2. /\ budget' \in [Procs -> Nat]
          /\ \A q \in Procs : budget'[q] <= budget[q]
          /\ req' \in [Procs -> {"none", "up", "stop", "done", "killed"}]
      BY <1>1 DEF IInv, TypeOK, Settle
    <2> QED
      BY <1>1, <2>1, <2>2, NodeChangeKeeps
  <1>2. CASE DaemonStarts(p)
    BY <1>1, <1>2 DEF DaemonStarts
  <1>3. CASE DaemonReplaces(p)
    BY <1>1, <1>3 DEF DaemonReplaces
  <1>4. CASE DaemonLeaves(p)
    <2> USE <1>4 DEF DaemonLeaves, Settle, runtimeVars, IInv
    <2>1. TypeOK'
      BY DEF TypeOK, RuntimeTypeOK
    <2>2. Deadlines' /\ ServerInv' /\ CookieInv'
      BY DEF Deadlines, Polling, ServerInv, CookieInv
    <2>3. WitnessInv' /\ NoResultYet'
      BY DEF WitnessInv, Active, Facts, NoResultYet
    <2>4. Evidence'
      BY DEF Evidence, HealthyWasSeen, IncompatibleWasSeen, StoppedWasSeen
    <2> QED
      BY <2>1, <2>2, <2>3, <2>4
  <1>5. CASE DaemonStops(p)
    BY <1>1, <1>5 DEF DaemonStops
  <1> QED
    BY <1>2, <1>3, <1>4, <1>5 DEF DaemonStep

LEMMA KillKeeps ==
  ASSUME IInv, NEW p \in Procs, NEW d \in Nat, DaemonKills(p, d)
  PROVE  IInv'
  <1>1. RuntimeTypeOK' /\ ServerInv' /\ (rpc # "closed" => image' = image)
    BY DEF DaemonKills, Killed, Dies, IInv, TypeOK, RuntimeTypeOK, ServerInv
  <1>2. /\ budget' \in [Procs -> Nat]
        /\ \A q \in Procs : budget'[q] <= budget[q]
    BY DEF DaemonKills, IInv, TypeOK
  <1>3. req' \in [Procs -> {"none", "up", "stop", "done", "killed"}]
    BY DEF DaemonKills, Settle, IInv, TypeOK
  <1> QED
    BY <1>1, <1>2, <1>3, NodeChangeKeeps DEF DaemonKills

LEMMA NodeKeeps ==
  ASSUME IInv, NodeStep
  PROVE  IInv'
  <1>1. RuntimeTypeOK' /\ ServerInv' /\ (rpc # "closed" => image' = image)
    BY DEF NodeStep, Listen, WarmedUp, Crash, Restart, Dies, IInv, TypeOK,
           RuntimeTypeOK, ServerInv
  <1>2. /\ budget' \in [Procs -> Nat]
        /\ \A q \in Procs : budget'[q] <= budget[q]
        /\ req' \in [Procs -> {"none", "up", "stop", "done", "killed"}]
    BY DEF NodeStep, IInv, TypeOK
  <1> QED
    BY <1>1, <1>2, NodeChangeKeeps DEF NodeStep

LEMMA BeginKeeps ==
  ASSUME IInv, NEW p \in Procs, NEW c \in Commands, Begin(p, c)
  PROVE  IInv'
  <1> USE DEF IInv, Begin, runtimeVars
  <1>1. TypeOK'
    <2>1. Facts \in SUBSET {"down", "compatible", "incompatible"}
      BY DEF Facts
    <2>2. solo' \in [Procs -> BOOLEAN]
      BY DEF TypeOK
    <2>3. budget' \in [Procs -> Nat]
      BY BudgetAssumption DEF TypeOK
    <2>4. pc' \in [Procs -> Labels]
      BY DEF TypeOK, Labels
    <2> QED
      BY <2>1, <2>2, <2>3, <2>4 DEF TypeOK, RuntimeTypeOK
  <1>2. Deadlines'
    BY DEF TypeOK, Deadlines, Polling, ProbeLabels, ProbeCalls
  <1>3. ServerInv'
    BY DEF ServerInv
  <1>4. CookieInv'
    BY DEF TypeOK, CookieInv
  <1>5. WitnessInv'
    BY DEF TypeOK, WitnessInv, Active, Facts
  <1>6. NoResultYet'
    BY DEF TypeOK, NoResultYet
  <1>7. Evidence'
    BY DEF TypeOK, NoResultYet, Evidence, HealthyWasSeen, IncompatibleWasSeen,
           StoppedWasSeen
  <1> QED
    BY <1>1, <1>2, <1>3, <1>4, <1>5, <1>6, <1>7

LEMMA StutterKeeps ==
  ASSUME IInv, UNCHANGED vars
  PROVE  IInv'
  <1> USE DEF IInv, vars, hostVars, runtimeVars
  <1>1. TypeOK' /\ Deadlines' /\ ServerInv' /\ CookieInv'
    BY DEF TypeOK, RuntimeTypeOK, Deadlines, Polling, ServerInv, CookieInv
  <1>2. WitnessInv' /\ NoResultYet' /\ Evidence'
    BY DEF WitnessInv, Active, Facts, NoResultYet, Evidence, HealthyWasSeen,
           IncompatibleWasSeen, StoppedWasSeen
  <1> QED
    BY <1>1, <1>2

LEMMA NextKeepsIInv == IInv /\ [Next]_vars => IInv'
  <1> SUFFICES ASSUME IInv, [Next]_vars PROVE IInv'
    OBVIOUS
  <1>1. ASSUME NEW p \in Procs, NEW c \in Commands, Begin(p, c) PROVE IInv'
    BY <1>1, BeginKeeps
  <1>2. ASSUME NEW p \in Procs, NEW d \in Ticks, HostStep(p, d) PROVE IInv'
    BY <1>2, HostKeeps, TicksAreNat
  <1>3. ASSUME NEW p \in Procs, NEW d \in Ticks, DaemonKills(p, d) PROVE IInv'
    BY <1>3, KillKeeps, TicksAreNat
  <1>4. ASSUME NEW p \in Procs, DaemonStep(p) PROVE IInv'
    BY <1>4, DaemonKeeps
  <1>5. CASE NodeStep
    BY <1>5, NodeKeeps
  <1>6. CASE UNCHANGED vars
    BY <1>6, StutterKeeps
  <1> QED
    BY <1>1, <1>2, <1>3, <1>4, <1>5, <1>6 DEF Next

-----------------------------------------------------------------------------

LEMMA Invariance == Spec => []IInv
  BY InitIInv, NextKeepsIInv, PTL DEF Spec

(* The state of every process and of the node stays within its type: in      *)
(* particular no budget and no time left to a deadline is ever negative.     *)
THEOREM TypeCorrect == Spec => []TypeOK
  BY Invariance, PTL DEF IInv

(* start and status report HEALTHY only of a node that was, at one moment of *)
(* the command, ready on the right chain and with the right version.         *)
THEOREM HealthyIsBacked == Spec => []HealthyWasSeen
  BY Invariance, PTL DEF IInv, Evidence

(* A command reports an incompatible node only if there was one.             *)
THEOREM IncompatibleIsBacked == Spec => []IncompatibleWasSeen
  BY Invariance, PTL DEF IInv, Evidence

(* stop and status report STOPPED only of a container that was down.         *)
THEOREM StoppedIsBacked == Spec => []StoppedWasSeen
  BY Invariance, PTL DEF IInv, Evidence
=============================================================================
