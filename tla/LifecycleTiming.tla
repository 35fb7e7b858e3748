--------------------------- MODULE LifecycleTiming ---------------------------
(***************************************************************************)
(* How long a command may take.  NodeLifecycle with a stopwatch on every   *)
(* process: each step adds the ticks it takes.                             *)
(*                                                                         *)
(* start_node sets its readiness deadline only once adapter.start is back, *)
(* and asks for the status before that on budgets of its own, so --timeout *)
(* bounds neither the whole start nor any single one of its three parts.   *)
(***************************************************************************)
EXTENDS NodeLifecycle

VARIABLE elapsed  (* history: what the command of a process has taken       *)

timedVars == <<vars, elapsed>>

TimedInit == Init /\ elapsed = [p \in Procs |-> 0]

Takes(p, d) == elapsed' = [elapsed EXCEPT ![p] = @ + d]

TimedNext ==
  \/ \E p \in Procs, c \in Commands : Begin(p, c) /\ UNCHANGED elapsed
  \/ \E p \in Procs : DaemonStep(p) /\ UNCHANGED elapsed
  \/ NodeStep /\ UNCHANGED elapsed
  \/ \E p \in Procs, d \in Ticks : HostStep(p, d) /\ Takes(p, d)
  \/ \E p \in Procs, d \in Ticks : DaemonKills(p, d) /\ Takes(p, d)

TimedSpec == TimedInit /\ [][TimedNext]_timedVars

(* FairSpec's fairness: a call returns or is timed out.                     *)
FairTimedSpec ==
  TimedSpec /\ \A p \in Procs : WF_timedVars(\E d \in Ticks : HostStep(p, d) /\ Takes(p, d))

(* The most a command can take: get_status before a start has 10 s and 5 s  *)
(* of its own, adapter.start has the timeout and the polls have it again.   *)
Allowance(c) ==
  IF c = "stop" THEN Timeout
  ELSE StateBudget + StatusProbe + (IF c = "start" THEN 2 * Timeout ELSE 0)

(* No command outlasts its allowance: every call is given what is left of a *)
(* deadline, never a fresh timeout of its own.                              *)
WithinAllowance == \A p \in Procs : elapsed[p] <= Allowance(cmd[p])

=============================================================================
