-------------------------- MODULE InspectionContract --------------------------
(***************************************************************************)
(* What NodeObservationPort (application/ports.py) promises of its         *)
(* operations, with no Docker, no RPC client and no time in it: a command  *)
(* ends once, with a result of its own operation.  A block is one of those *)
(* asked for, and what a result says of the node or of its chain was so at *)
(* a moment of the command.                                                *)
(***************************************************************************)

CONSTANTS
  Blocks,      (* all there may be                                          *)
  FactNames    (* what can be true of a node                                *)

VARIABLES
  facts,    (* what is true of the node                                     *)
  best,     (* the blocks on its best chain                                 *)
  known,    (* all the blocks it has                                        *)
  op,       (* the operation                                                *)
  asked,    (* the block it is about, or all of one height                  *)
  phase,    (* "idle", "active" or "done"                                   *)
  witness,  (* the facts that have held at some moment of it                *)
  shown,    (* the blocks that have been on the best chain                  *)
  lacked,   (* the node had nothing of what was asked when it was asked     *)
  outcome,  (* how it ended                                                 *)
  given     (* the block it returned, if any                                *)

nodeVars == <<facts, best, known>>
contractVars == <<nodeVars, op, asked, phase, witness, shown, lacked, outcome, given>>

AboutBlocks(o) == o \in {"hash", "height"}

(* get_node_overview, get_block, get_mempool and get_peers: the errors are   *)
(* RpcErrors, but for RuntimeUnavailableError where Compose cannot be asked. *)
Results(o) ==
  {"ok", "authentication", "timeout", "unavailable", "malformed_response", "error",
   "runtimeUnavailable"}
  \cup {r \in {"incompatible", "not_found", "sizeExceeded"} :
          \/ r = "incompatible" /\ o = "node"
          \/ r = "not_found" /\ AboutBlocks(o)
          \/ r = "sizeExceeded" /\ o = "peers"}

(* A result that says nothing of the node needs nothing to back it.          *)
Backed(result) ==
  /\ result = "ok" /\ op = "node" => {"version", "chain"} \subseteq witness
  /\ result = "incompatible" => "incompatible" \in witness
  /\ result = "authentication" => "closed" \in witness
  /\ result = "not_found" => lacked

Init ==
  /\ facts \subseteq FactNames
  /\ best = {}
  /\ known = {}
  /\ op = "node"
  /\ asked = {}
  /\ phase = "idle"
  /\ witness = {}
  /\ shown = {}
  /\ lacked = FALSE
  /\ outcome = "none"
  /\ given = {}

Begin ==
  /\ phase = "idle"
  /\ phase' = "active"
  /\ op' \in {"node", "height", "hash", "mempool", "peers"}
  /\ asked' \subseteq Blocks
  /\ ~AboutBlocks(op') => asked' = {}
  /\ lacked' = (asked' \cap known = {})
  /\ witness' = facts
  /\ shown' = best
  /\ UNCHANGED <<nodeVars, outcome, given>>

(* A node keeps the blocks it has, whichever of them are on its best chain.  *)
NodeMoves ==
  /\ facts' \subseteq FactNames
  /\ known \subseteq known' /\ known' \subseteq Blocks
  /\ best' \subseteq known'
  /\ witness' = IF phase = "active" THEN witness \cup facts' ELSE witness
  /\ shown' = IF phase = "active" THEN shown \cup best' ELSE shown
  /\ UNCHANGED <<op, asked, phase, lacked, outcome, given>>

End ==
  /\ phase = "active"
  /\ phase' = "done"
  /\ \E result \in Results(op) :
       /\ Backed(result)
       /\ outcome' = result
       /\ \/ result = "ok" /\ AboutBlocks(op) /\ \E b \in asked \cap shown : given' = {b}
          \/ ~(result = "ok" /\ AboutBlocks(op)) /\ given' = {}
  /\ UNCHANGED <<nodeVars, op, asked, witness, shown, lacked>>

Next == Begin \/ NodeMoves \/ End

Spec == Init /\ [][Next]_contractVars
=============================================================================
