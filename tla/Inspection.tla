------------------------------ MODULE Inspection ------------------------------
(***************************************************************************)
(* `bitheim inspect node|block|mempool|peers` on the host: the inspect_*   *)
(* methods of ComposeLifecycleAdapter (infrastructure/compose/adapter.py)  *)
(* run the same command in a one-shot container, where module RpcClient    *)
(* takes over, and turn its exit into a result or an error.  An inspection *)
(* shares nothing with another one but the node, so there is one of them;  *)
(* everything else that can befall the node, other commands included, is   *)
(* in NodeMoves.                                                           *)
(***************************************************************************)
EXTENDS ContainerState, RpcClient

CONSTANT Timeout   (* --timeout, at most 60 s                               *)

ASSUME TimeoutAssumption == Timeout \in Nat \ {0}

VARIABLES
  at,       (* what the host waits for                                      *)
  hleft,    (* time left to its deadline                                    *)
  outcome,  (* what the command returned or raised                          *)
  heard,    (* the stderr of a run that has returned: what Compose added    *)
  spent,    (* history: the time the command has taken                      *)
  shown,    (* history: the blocks that were active at a moment of it       *)
  witness,  (* history: the facts that held at a moment of it               *)
  lacked    (* history: the node had no block asked for when it began       *)

historyVars == <<shown, witness, lacked>>
vars == <<runtimeVars, chainVars, clientVars, at, hleft, outcome, heard, spent, historyVars>>

Outcomes ==
  (Categories \ {"none"}) \cup {"none", "sizeExceeded", "runtimeUnavailable", "error"}
FactNames == {"closed", "version", "chain", "compatible", "incompatible"}

Glimpse ==
  {f \in FactNames :
     \/ f = "closed" /\ rpc = "closed"
     \/ f = "version" /\ rpc = "ready" /\ image # "wrongVersion"
     \/ f = "chain" /\ rpc = "ready" /\ image # "wrongChain"
     \/ f \in Facts}
ActiveBlocks == {b \in Blocks : IsActive(b)}

Init ==
  /\ RuntimeInit
  /\ ClientInit
  /\ at = "idle"
  /\ hleft = 0
  /\ outcome = "none"
  /\ heard = "none"
  /\ spent = 0
  /\ shown = {}
  /\ witness = {}
  /\ lacked = FALSE

(* The command line names one block, by hash or by height, or none.          *)
Targets(o) ==
  CASE o = "hash" -> {{b} : b \in Blocks}
    [] o = "height" -> {{h} \X Forks : h \in 1..MaxHeight}
    [] OTHER -> {{}}

BeginOn(o) ==
  /\ at = "idle"
  /\ op' = o
  /\ target' \in Targets(o)
  /\ at' = "state"
  /\ hleft' = Timeout
  /\ shown' = ActiveBlocks
  /\ witness' = Glimpse
  /\ lacked' = (target' \cap known = {})
  /\ UNCHANGED <<runtimeVars, chainVars, outcome, heard, spent>>
  /\ UNCHANGED <<call, request, cleft, file, creds, answer, category>>

Begin == \E o \in DOMAIN Methods : BeginOn(o)

-----------------------------------------------------------------------------
(* A host step of d ticks leads to another wait or to the end.               *)
Wait(what, d) ==
  /\ at' = what
  /\ hleft' = hleft - d
  /\ spent' = spent + d
  /\ UNCHANGED <<outcome, heard, runtimeVars, chainVars, historyVars>>

(* A client still running is left to itself: nobody waits for its exit.      *)
Finish(result, d) ==
  /\ at' = "done"
  /\ outcome' = result
  /\ hleft' = 0
  /\ spent' = spent + d
  /\ call' = "none"
  /\ cleft' = 0
  /\ file' = "none"
  /\ creds' = "none"
  /\ UNCHANGED <<op, target, request, answer, category>>
  /\ UNCHANGED <<runtimeVars, chainVars, historyVars>>

(* `docker info` fails, or `compose ps` does: only the former is translated. *)
StateUnknown(d) ==
  /\ at = "state"
  /\ \E e \in {"unavailable", "runtimeUnavailable"} : Finish(e, d)
  /\ UNCHANGED heard

StateQueried(d) ==
  /\ at = "state"
  /\ UNCHANGED heard
  /\ \E s \in Reading :
       \/ s = "stopped" /\ Finish("unavailable", d)
       \/ s # "stopped" /\ d = hleft /\ Finish("timeout", d)
       \/ s # "stopped" /\ d < hleft /\ Wait("run", d) /\ UNCHANGED clientVars

(* `compose run` cannot be executed, or fails before the client begins.      *)
RunFails(d) ==
  /\ at = "run"
  /\ call = "none"
  /\ \E e \in {"error", "unavailable"} : Finish(e, d)
  /\ UNCHANGED heard

RunStartsFreshDeadline(d) ==
  /\ at = "run"
  /\ d < hleft
  /\ hleft' = Timeout
  /\ spent' = spent + d
  /\ ClientStarts
  /\ UNCHANGED <<at, outcome, heard, runtimeVars, chainVars, historyVars>>

RunStarts(d) ==
  /\ at = "run"
  /\ d < hleft
  /\ Wait("run", d)
  /\ ClientStarts

RunGoesOnUntimed(d) ==
  /\ at = "run"
  /\ Wait("run", d)
  /\ ClientStep(d)

(* The container is killed under the client, or the client fails for a       *)
(* reason of its deployment.  The host makes "unavailable" of a run without  *)
(* an envelope and of the categories "configuration" and "unexpected" alike. *)
ClientBreaks ==
  /\ call \notin {"none", "exited"}
  /\ Exit("unavailable")
  /\ UNCHANGED answer

RunGoesOn(d) ==
  /\ at = "run"
  /\ d < hleft
  /\ Wait("run", d)
  /\ ClientStep(d) \/ ClientBreaks

RunTimesOutOnceExited(d) ==
  /\ at = "run"
  /\ call = "exited"
  /\ d = hleft
  /\ Finish("timeout", d)
  /\ UNCHANGED heard

RunTimesOut(d) ==
  /\ at = "run"
  /\ d = hleft
  /\ Finish("timeout", d)
  /\ UNCHANGED heard

(* What the client's process writes to stderr when it fails: main has set    *)
(* its logger above CRITICAL, whatever BITHEIM_LOG_LEVEL says.               *)
LoggedAsOnTheHost == <<"record">>
Logged == <<>>
Envelope == Logged \o <<"envelope", "message">>

(* The envelope counts only as the first line, with at most the message      *)
(* after it: any line of Compose's hides the category.                       *)
Decoded(lines) ==
  IF lines \in {<<"envelope">>, <<"envelope", "message">>} THEN category ELSE "unavailable"

(* A long list of peers may exceed the 64 KiB of stdout the host accepts.    *)
Reported(added) ==
  IF category = "ok"
  THEN {"ok"} \cup (IF op = "peers" THEN {"sizeExceeded"} ELSE {})
  ELSE {Decoded(IF added = "lines" THEN <<"progress">> \o Envelope ELSE Envelope)}

RunReturns(d) ==
  /\ at = "run"
  /\ call = "exited"
  /\ d <= hleft
  /\ heard' \in {"nothing", "lines"}
  /\ \E r \in Reported(heard') : Finish(r, d)

HostStep(d) ==
  /\ d <= hleft
  /\ \/ StateUnknown(d)
     \/ StateQueried(d)
     \/ RunFails(d)
     \/ RunTimesOut(d)
     \/ RunReturns(d)

-----------------------------------------------------------------------------
(* What befalls the node: by itself, through other commands, or a new block. *)
(* After the command it is of no interest any more.                          *)
NodeChanges(watched) ==
  /\ shown' = IF watched THEN shown \cup ActiveBlocks' ELSE shown
  /\ witness' = IF watched THEN witness \cup Glimpse' ELSE witness
  /\ file' = IF file = "same" /\ cookie' # cookie /\ cookie' # "stale" THEN "other" ELSE file
  /\ creds' = IF creds = "valid" /\ rpc' = "closed" THEN "stale" ELSE creds
  /\ UNCHANGED <<op, target, call, request, cleft, answer, category>>
  /\ UNCHANGED <<at, hleft, outcome, heard, spent, lacked>>

NodeMoves(watched) ==
  /\ \/ (Listen \/ WarmedUp \/ Crash \/ Restart \/ Killed \/ Halt) /\ UNCHANGED chainVars
     \/ (\E img \in Images : Boot(img)) /\ UNCHANGED chainVars
     \/ TipChanges /\ UNCHANGED runtimeVars
  /\ NodeChanges(watched)

Ticks == 0..Timeout

Next ==
  \/ Begin
  \/ \E d \in Ticks : HostStep(d)
  \/ \E d \in Ticks : RunStarts(d)
  \/ \E d \in Ticks : RunGoesOn(d)
  \/ at # "done" /\ NodeMoves(at # "idle")

Spec == Init /\ [][Next]_vars

(* subprocess.run returns by its timeout; the container may never answer.    *)
FairSpec == Spec /\ WF_vars(\E d \in Ticks : HostStep(d))

-----------------------------------------------------------------------------
TypeOK ==
  /\ RuntimeTypeOK
  /\ ClientTypeOK
  /\ at \in {"idle", "state", "run", "done"}
  /\ hleft \in 0..Timeout
  /\ outcome \in Outcomes
  /\ heard \in {"none", "nothing", "lines"}
  /\ spent \in Nat
  /\ shown \subseteq Blocks
  /\ witness \subseteq FactNames
  /\ lacked \in BOOLEAN

(* get_block: the block described, asked for by hash or resolved from a      *)
(* height in a request of its own, was on the node's best chain at a moment  *)
(* of the command, whatever reorganisation happened in between.              *)
BlockWasActive ==
  outcome = "ok" /\ op \in {"hash", "height"} => target \subseteq shown /\ target # {}

(* get_node_overview: an overview comes from a node, or from two successive  *)
(* ones, that reported version 310100 and chain regtest; "incompatible" from *)
(* a node that really reported something else.                               *)
OverviewIsBacked ==
  /\ outcome = "ok" /\ op = "node" => {"version", "chain"} \subseteq witness
  /\ outcome = "incompatible" => "incompatible" \in witness

(* Every way of failing with the cookie, from its lstat to a 401, means that *)
(* the node was not serving at some moment of the command: a user who is     *)
(* told "authentication" of a node that stayed up has a configuration fault, *)
(* or a cookie file that someone has tampered with (see module RpcClient).   *)
AuthenticationMeansRestart == outcome = "authentication" => "closed" \in witness

(* _run_delegated_inspection: the error of a client that failed reaches the   *)
(* user as the category it had in the container; only lines that Compose      *)
(* itself wrote make it "unavailable", and nothing makes it another one.      *)
CategorySurvives ==
  heard # "none" /\ category # "ok" =>
    outcome = category \/ (outcome = "unavailable" /\ heard = "lines")

(* NodeObservationPort: an inspection ends once, with a result its operation  *)
(* has, and one that is backed.  A block is one of those asked for and was on *)
(* the best chain; one that is "not found" was not known to the node when the *)
(* command began, so that a block off the best chain never is.                *)
Asked ==
  IF op = "height" THEN {b \in Blocks : \E t \in target : t[1] = b[1]} ELSE target
Stage == IF at \in {"state", "run"} THEN "active" ELSE at
Returned == IF outcome = "ok" /\ op \in {"hash", "height"} THEN target ELSE {}

Contract ==
  INSTANCE InspectionContract WITH
    facts <- Glimpse, best <- ActiveBlocks, asked <- Asked, phase <- Stage, given <- Returned

KeepsContract == Contract!Spec

(* One deadline covers `docker info`, `compose ps` and the delegated run.    *)
WithinDeadline == spent <= Timeout

(* An inspection that has begun ends, even if the container never answers.   *)
InspectionEnds == at # "idle" ~> at = "done"

-----------------------------------------------------------------------------
(* What the documentation says and the code does not do.                     *)

(* SPEC-0005 11: "resource not found, including an unknown block or height". *)
UnknownHeightIsNotFound ==
  answer = "outOfRange" => outcome # "malformed_response"

(* SPEC-0005 5.1 has the command's deadline configurable up to 60 s, and     *)
(* inspect_node raises RpcTimeoutError "if execution exceeds deadline".      *)
TimeoutMeansDeadline == outcome = "timeout" => spent >= Timeout

(* NodeObservationService.inspect_node returns a "NodeOverview snapshot       *)
(* verified on Bitcoin Core 31.1 regtest": of a node that was both at once.  *)
OverviewIsSnapshot ==
  outcome = "ok" /\ op = "node" => "compatible" \in witness
=============================================================================
