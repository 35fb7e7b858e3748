-------------------------- MODULE LifecycleContract --------------------------
(***************************************************************************)
(* What NodeLifecycleService promises of its three operations, with no     *)
(* Docker, no probe and no time in it: each command ends once, with one of *)
(* the results its docstring lists, and a result that says something of    *)
(* the node is backed by the node having been so while the command ran.    *)
(***************************************************************************)

CONSTANTS Procs

VARIABLES
  facts,    (* what is true of the node                                     *)
  cmd,      (* the command of a process                                     *)
  phase,    (* "idle", "active" or "done"                                   *)
  witness,  (* what has been true at some moment of the command             *)
  outcome   (* how it ended                                                 *)

contractVars == <<facts, cmd, phase, witness, outcome>>

(* start_node, stop_node and get_node_status: what each returns or raises.  *)
Results(c) ==
  {"RuntimeUnavailable"} \cup
  (IF c = "start"
   THEN {"healthy", "NodeIncompatible", "StartupTimeout", "LifecycleError"}
   ELSE IF c = "stop"
   THEN {"stopped", "ShutdownTimeout", "LifecycleError"}
   ELSE {"stopped", "starting", "healthy", "unhealthy", "incompatible", "unknown"})

(* Only these three results are claims about the node.                      *)
Backed(result, seen) ==
  /\ result = "healthy" => "compatible" \in seen
  /\ result \in {"incompatible", "NodeIncompatible"} => "incompatible" \in seen
  /\ result = "stopped" => "down" \in seen

(* A node is down, or its RPC server tells what it is, or neither.          *)
World == {{}, {"down"}, {"compatible"}, {"incompatible"}}

Init ==
  /\ facts \in World
  /\ cmd = [p \in Procs |-> "status"]
  /\ phase = [p \in Procs |-> "idle"]
  /\ witness = [p \in Procs |-> {}]
  /\ outcome = [p \in Procs |-> "none"]

Begin(p) ==
  /\ phase[p] = "idle"
  /\ \E c \in {"start", "stop", "status"} : cmd' = [cmd EXCEPT ![p] = c]
  /\ phase' = [phase EXCEPT ![p] = "active"]
  /\ witness' = [witness EXCEPT ![p] = facts]
  /\ UNCHANGED <<facts, outcome>>

NodeMoves ==
  /\ facts' \in World
  /\ witness' = [p \in Procs |->
                   IF phase[p] = "active" THEN witness[p] \cup facts' ELSE witness[p]]
  /\ UNCHANGED <<cmd, phase, outcome>>

End(p) ==
  /\ phase[p] = "active"
  /\ phase' = [phase EXCEPT ![p] = "done"]
  /\ \E result \in Results(cmd[p]) :
       /\ Backed(result, witness[p])
       /\ outcome' = [outcome EXCEPT ![p] = result]
  /\ UNCHANGED <<facts, cmd, witness>>

Next ==
  \/ \E p \in Procs : Begin(p) \/ End(p)
  \/ NodeMoves

Spec == Init /\ [][Next]_contractVars
=============================================================================
