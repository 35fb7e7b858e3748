-------------------------------- MODULE Doctor --------------------------------
(***************************************************************************)
(* handle_doctor of interfaces/cli.py: checks in a row, each of which may  *)
(* fail without ending the others.  Most are about a world that stands     *)
(* still.  The last one is about the node: on the host doctor asks for the *)
(* container's state and then, unless that is "stopped", runs a whole      *)
(* inspection (module Inspection), with the node free to change all along; *)
(* in a container it goes straight to the RPC client.                      *)
(***************************************************************************)
EXTENDS Inspection

CONSTANT Depth   (* bound: the levels from the data directory to the root    *)

ASSUME DepthAssumption == Depth \in Nat \ {0, 1}

VARIABLES
  context,   (* "host" or "container"                                        *)
  directory, (* what there is at each level from the data directory up       *)
  check,     (* what doctor waits for                                        *)
  passed,    (* all_passed                                                   *)
  sawDown    (* history: the container was down at a moment of the command   *)

doctorVars == <<context, directory, check, passed, sawDown>>

(* What exists lies in a directory, and the root exists.                     *)
Directories ==
  {d \in [1..Depth -> {"absent", "writable", "readonly", "file"}] :
     /\ d[Depth] \in {"writable", "readonly"}
     /\ \A i \in 1..(Depth - 1) : d[i] # "absent" => d[i + 1] \in {"writable", "readonly"}}

(* The search of _find_nearest_existing_ancestor begins at the parent.       *)
NearestAncestor(d) ==
  CHOOSE i \in 2..Depth : d[i] # "absent" /\ \A j \in 2..(i - 1) : d[j] = "absent"

DirectoryAccepted(d) ==
  IF d[1] # "absent" THEN d[1] = "writable" ELSE d[NearestAncestor(d)] = "writable"

DoctorInit ==
  /\ context \in {"host", "container"}
  /\ directory = [i \in 1..Depth |-> "writable"]
  /\ check = "none"
  /\ passed = TRUE
  /\ sawDown = FALSE

(* Doctor goes on to another check, or ends.                                 *)
Goto(what, ok) ==
  /\ check' = what
  /\ passed' = (passed /\ ok)
  /\ UNCHANGED context

Unmoved == UNCHANGED <<runtimeVars, chainVars, at, hleft, outcome, heard, spent>>

(* From the Python version and the data directory to the first wait.         *)
DoctorBegins ==
  /\ check = "none"
  /\ witness' = Glimpse
  /\ sawDown' = (container = "down")
  /\ Unmoved
  /\ UNCHANGED <<shown, lacked>>
  /\ directory' \in Directories
  /\ \E python \in BOOLEAN :
       \/ /\ context = "container"
          /\ Goto("client", python /\ DirectoryAccepted(directory'))
          /\ ClientStarts
       \/ /\ context = "host"
          /\ Goto("docker", python /\ DirectoryAccepted(directory'))
          /\ UNCHANGED clientVars

(* `docker` is not in the PATH, or `docker info` returns, fails or times out.*)
DockerChecked ==
  /\ check = "docker"
  /\ \/ Goto("done", FALSE)
     \/ \E ok \in BOOLEAN : Goto("compose", ok)
  /\ Unmoved
  /\ UNCHANGED <<clientVars, historyVars, directory, sawDown>>

(* `docker compose version`.  With any failure so far the node is left out.  *)
ComposeChecked ==
  /\ check = "compose"
  /\ \E ok \in BOOLEAN : Goto(IF passed /\ ok THEN "state" ELSE "done", ok)
  /\ Unmoved
  /\ UNCHANGED <<clientVars, historyVars, directory, sawDown>>

DoctorStateQueriedUnknownPasses ==
  /\ check = "state"
  /\ UNCHANGED <<directory, sawDown>>
  /\ \E s \in Reading \cup {"error"} :
       \/ /\ s = "starting"
          /\ Goto("inspect", TRUE)
          /\ BeginOn("node")
       \/ /\ s # "starting"
          /\ Goto("done", s \in {"stopped", "unknown"})
          /\ Unmoved
          /\ UNCHANGED <<clientVars, historyVars>>

(* get_lifecycle_state, which may raise.                                     *)
DoctorStateQueried ==
  /\ check = "state"
  /\ UNCHANGED <<directory, sawDown>>
  /\ \E s \in Reading \cup {"error"} :
       \/ /\ s = "starting"
          /\ Goto("inspect", TRUE)
          /\ BeginOn("node")
       \/ /\ s # "starting"
          /\ Goto("done", s = "stopped")
          /\ Unmoved
          /\ UNCHANGED <<clientVars, historyVars>>

(* inspect_node: a wait of the host's, with the verdict once it has ended.   *)
DoctorInspects(d) ==
  /\ check = "inspect"
  /\ HostStep(d)
  /\ IF at' = "done" THEN Goto("done", outcome' = "ok")
     ELSE UNCHANGED <<context, check, passed>>
  /\ UNCHANGED <<directory, sawDown>>

(* The client, started by the inspection or by doctor in a container.        *)
DelegateActs(d) ==
  /\ check = "inspect"
  /\ RunStarts(d) \/ RunGoesOn(d)
  /\ UNCHANGED doctorVars

DoctorAsks(d) ==
  /\ check = "client"
  /\ ClientStep(d)
  /\ IF call' = "exited" THEN Goto("done", category' = "ok")
     ELSE UNCHANGED <<context, check, passed>>
  /\ Unmoved
  /\ UNCHANGED <<historyVars, directory, sawDown>>

DoctorStep ==
  \/ DockerChecked
  \/ ComposeChecked
  \/ DoctorStateQueried
  \/ \E d \in Ticks : DoctorInspects(d)
  \/ \E d \in 0..ClientDeadline : DoctorAsks(d)

(* The node is watched from the first question doctor asks about it.         *)
NodeMovesOn ==
  /\ check # "done"
  /\ NodeMoves(check \in {"inspect", "client"})
  /\ sawDown' = (check # "none" /\ (sawDown \/ container' = "down"))
  /\ UNCHANGED <<context, directory, check, passed>>

DoctorTypeOK ==
  /\ context \in {"host", "container"}
  /\ directory \in Directories
  /\ check \in {"none", "docker", "compose", "state", "inspect", "client", "done"}
  /\ passed \in BOOLEAN
  /\ sawDown \in BOOLEAN

(* What lies on the way up from a usable data directory: nothing, up to one  *)
(* that is writable.                                                         *)
DirectoryUsable ==
  \E i \in 1..Depth : directory[i] = "writable" /\ \A j \in 1..(i - 1) : directory[j] = "absent"

(* doctor's exit code 0, the "all checks passed" of a script: the node was   *)
(* down at a moment of the command, or nodes that served during it reported  *)
(* version 310100 and chain regtest; "stopped" is never made of a state that *)
(* could not be determined, nor a pass of an inspection that failed.         *)
DoctorPassIsBacked ==
  check = "done" /\ passed =>
    /\ DirectoryUsable
    /\ \/ context = "host" /\ sawDown
       \/ {"version", "chain"} \subseteq witness
=============================================================================
