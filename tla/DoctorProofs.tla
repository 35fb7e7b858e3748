------------------------------ MODULE DoctorProofs -----------------------------
(***************************************************************************)
(* Doctor, for any chains, forks, deadlines and any depth of directories,  *)
(* and the typing of a whole command.  Doctor asks the node in two ways,   *)
(* through an inspection of its own on the host or straight from the       *)
(* client in a container; the invariant holds of the client in both, and   *)
(* says what each of its requests has left behind.                         *)
(***************************************************************************)
EXTENDS CommandLineProofs, InspectionProofs, WellFoundedInduction

(* Nothing has been asked of the node yet.                                   *)
Quiet ==
  /\ at = "idle" /\ call = "none" /\ request = 1
  /\ category = "none" /\ outcome = "none"

(* Which of its checks doctor makes where.                                   *)
StageInv ==
  /\ op = "node"
  /\ check \in {"none", "docker", "compose", "state"} => Quiet
  /\ check \in {"docker", "compose", "state", "inspect"} => context = "host"

(* What the node was during the command has been seen.                       *)
SeenInv ==
  /\ check \in {"inspect", "client"} => Glimpse \subseteq witness
  /\ check # "none" /\ container = "down" => sawDown

(* The client's two requests, and that it begins with the first.             *)
AskedInv ==
  /\ OverviewInv
  /\ call = "none" /\ at # "done" => request = 1
  /\ category = "ok" => {"version", "chain"} \subseteq witness

PassInv == check # "none" /\ passed => DirectoryUsable

DoctorInv ==
  /\ TypeOK
  /\ DoctorTypeOK
  /\ ServerInv
  /\ StageInv
  /\ SeenInv
  /\ AskedInv
  /\ PassInv
  /\ DoctorPassIsBacked

-----------------------------------------------------------------------------
(* A data directory that is accepted: what _find_nearest_existing_ancestor   *)
(* finds is the first thing there is on the way up.                          *)
LEMMA NearestExists ==
  ASSUME NEW d \in Directories, d[1] = "absent"
  PROVE  LET i == NearestAncestor(d)
         IN  i \in 2..Depth /\ d[i] # "absent" /\ \A j \in 2..(i - 1) : d[j] = "absent"
<1> DEFINE present == {i \in 2..Depth : d[i] # "absent"}
           less == OpToRel(<, Nat)
<1>1. Depth \in present
  BY DepthAssumption DEF Directories
<1>2. present \subseteq Nat
  OBVIOUS
<1>3. IsWellFoundedOn(less, Nat)
  BY NatLessThanWellFounded
<1>4. PICK i \in present : \A j \in present : <<j, i>> \notin less
  <2> HIDE DEF less, present
  <2> QED
    BY <1>1, <1>2, <1>3, WFMin
<1>5. \A j \in present : ~(j < i)
  BY <1>2, <1>4 DEF OpToRel
<1>6. \A j \in 2..(i - 1) : d[j] = "absent"
  BY <1>5, DepthAssumption
<1> QED
  BY <1>6 DEF NearestAncestor

LEMMA AcceptedIsUsable ==
  ASSUME directory' \in Directories, DirectoryAccepted(directory')
  PROVE  DirectoryUsable'
<1> DEFINE d == directory'
           i == NearestAncestor(d)
<1>1. CASE d[1] # "absent"
  <2>1. d[1] = "writable" /\ 1 \in 1..Depth
    BY <1>1, DepthAssumption DEF DirectoryAccepted
  <2> QED
    BY <2>1 DEF DirectoryUsable
<1>2. CASE d[1] = "absent"
  <2>1. i \in 2..Depth /\ \A j \in 2..(i - 1) : d[j] = "absent"
    BY <1>2, NearestExists
  <2>2. d[i] = "writable"
    BY <1>2 DEF DirectoryAccepted
  <2> HIDE DEF i
  <2>3. i \in 1..Depth /\ \A j \in 1..(i - 1) : d[j] = "absent"
    <3>1. \A j \in 1..(i - 1) : j = 1 \/ j \in 2..(i - 1)
      BY <2>1
    <3> QED
      BY <1>2, <2>1, <3>1, DepthAssumption
  <2> QED
    BY <2>2, <2>3 DEF DirectoryUsable
<1> QED
  BY <1>1, <1>2

(* Only a container that is down reads as stopped.                           *)
LEMMA StoppedIsDown ==
  ASSUME RuntimeTypeOK, "stopped" \in Reading
  PROVE  container = "down"
<1>1. \A c \in {"down", "up", "restarting"} : ReadingOf[c] = {"unknown"} \cup {StateOfListing(l) : l \in Listings(c)}
  BY DEF ReadingOf
<1>2. ASSUME NEW c \in {"up", "restarting"}, NEW l \in Listings(c)
      PROVE  StateOfListing(l) # "stopped"
  <2>1. PICK e \in CoreEntries(c) : l = {e} \/ l = {e, Entry("bitheim", "running", "none")}
    BY <1>2 DEF Listings
  <2>2. e.service = "bitcoin-core" /\ e.state \in {"running", "restarting"}
    <3>1. CASE c = "up"
      BY <3>1 DEF CoreEntries, Entry
    <3>2. CASE c = "restarting"
      BY <3>2 DEF CoreEntries, Entry
    <3> QED
      BY <3>1, <3>2
  <2>3. Entry("bitheim", "running", "none").service # "bitcoin-core"
    BY DEF Entry
  <2>4. (CHOOSE x \in l : x.service = "bitcoin-core") = e
    BY <2>1, <2>2, <2>3
  <2>5. StateOfListing(l) = StateOfEntry(e)
    BY <2>1, <2>2, <2>4 DEF StateOfListing
  <2>6. StateOfEntry(e) # "stopped"
    <3>1. CASE e.state = "running"
      BY <3>1 DEF StateOfEntry
    <3>2. CASE e.state = "restarting"
      BY <3>2 DEF StateOfEntry
    <3> QED
      BY <2>2, <3>1, <3>2
  <2> QED
    BY <2>5, <2>6
<1> QED
  BY <1>1, <1>2 DEF Reading, RuntimeTypeOK

-----------------------------------------------------------------------------
(* The client asks for an overview, on the host's behalf or on its own.      *)

(* What a request that starts, goes on or ends has to rest on.               *)
ClientInv ==
  /\ ClientTypeOK
  /\ op = "node"
  /\ OverviewInv
  /\ category = "ok" => {"version", "chain"} \subseteq witness

Watched == UNCHANGED <<runtimeVars, chainVars, historyVars>>

LEMMA OverviewIs ==
  /\ "node" \in DOMAIN Methods /\ Len(Methods["node"]) = 2
  /\ Methods["node"][1] = "getnetworkinfo" /\ Methods["node"][2] = "getblockchaininfo"
  BY OperationsAre, MethodsAre

LEMMA ClientExits ==
  ASSUME ClientInv, Watched, call # "none", NEW c \in Categories, Exit(c), UNCHANGED answer,
         c = "ok" => {"version", "chain"} \subseteq witness
  PROVE  ClientInv' /\ call' = "exited" /\ category' = c
<1>1. /\ call' = "exited" /\ category' = c /\ cleft' = 0 /\ file' = "none" /\ creds' = "none"
      /\ UNCHANGED <<op, target, request, answer, active, known, witness>>
  BY DEF Exit, Watched, chainVars, historyVars
<1>2. cleft' \in 0..ClientDeadline
  BY <1>1, ClientAssumption
<1>3. ClientTypeOK'
  BY <1>1, <1>2 DEF ClientInv, ClientTypeOK
<1>4. OverviewInv'
  BY <1>1 DEF ClientInv, OverviewInv
<1> QED
  BY <1>1, <1>3, <1>4 DEF ClientInv

LEMMA ClientStartsIs ==
  ASSUME ClientTypeOK, op = "node", request = 1, ClientStarts, UNCHANGED chainVars
  PROVE  /\ ClientTypeOK' /\ op' = "node" /\ OverviewInv'
         /\ call' = "lstat" /\ request' = 1 /\ category' = category
<1>1. /\ call' = "lstat" /\ cleft' = ClientDeadline
      /\ UNCHANGED <<op, target, request, file, creds, answer, category, active, known>>
  BY DEF ClientStarts, chainVars
<1>2. cleft' \in 0..ClientDeadline
  BY <1>1, ClientAssumption
<1>3. ClientTypeOK'
  BY <1>1, <1>2 DEF ClientTypeOK
<1> QED
  BY <1>1, <1>3 DEF OverviewInv

(* A step with the request in hand is backed by what the node was.           *)
LEMMA ClientAnswered ==
  ASSUME ClientInv, Watched, RuntimeTypeOK, Glimpse \subseteq witness,
         NEW d \in Nat, Answered(d)
  PROVE  ClientInv' /\ call' \notin {"none"}
<1>1. call = "send"
  BY DEF Answered
<1>2. CASE (Exit("unavailable") \/ Exit("timeout")) /\ UNCHANGED answer
  BY <1>1, <1>2, ClientExits DEF Categories
<1>3. CASE Refused /\ Exit("authentication") /\ UNCHANGED answer
  BY <1>1, <1>3, ClientExits DEF Categories
<1>4. CASE /\ rpc # "closed"
           /\ d < cleft
           /\ answer' \in Execution
           /\ target' = Resolved(answer')
           /\ call' = "body"
           /\ cleft' = cleft - d
           /\ UNCHANGED <<op, request, file, creds, category>>
  <2>1. op \in DOMAIN Methods /\ request \in 1..2 /\ op = "node"
    BY DEF ClientInv, ClientTypeOK
  <2>2. request \in 1..Len(Methods[op])
    BY <2>1, OverviewIs
  <2>3. /\ answer' \in Answers \ {"none"}
        /\ answer' = "wrongNode" => "incompatible" \in witness
        /\ Method = "getnetworkinfo" /\ answer' = "ok" => "version" \in witness
        /\ Method = "getblockchaininfo" /\ answer' = "ok" => "chain" \in witness
    BY <1>4, <2>1, <2>2, ExecutionIs
  <2>4. Method = IF request = 1 THEN "getnetworkinfo" ELSE "getblockchaininfo"
    BY <2>1, OverviewIs DEF Method
  <2>5. cleft' \in 0..ClientDeadline /\ target' \subseteq Blocks
    BY <1>4, ClientAssumption DEF Resolved, ClientInv, ClientTypeOK
  <2>6. UNCHANGED <<active, known, witness>>
    BY DEF Watched, chainVars, historyVars
  <2>7. request = 2 => "version" \in witness
    BY <1>1, <2>1 DEF ClientInv, OverviewInv
  <2>8. OverviewInv'
    BY <1>4, <2>1, <2>3, <2>4, <2>6, <2>7 DEF OverviewInv
  <2>9. ClientTypeOK'
    BY <1>4, <2>3, <2>5, <2>6 DEF ClientInv, ClientTypeOK
  <2> QED
    BY <1>4, <2>6, <2>8, <2>9 DEF ClientInv
<1> QED
  BY <1>2, <1>3, <1>4 DEF Answered, Exit

LEMMA ClientBodyRead ==
  ASSUME ClientInv, Watched, NEW d \in Nat, BodyRead(d)
  PROVE  ClientInv' /\ call' \notin {"none"}
<1>1. call = "body" /\ UNCHANGED answer
  BY DEF BodyRead
<1>2. answer \in Answers \ {"none"} /\ op = "node" /\ request \in 1..2
  BY <1>1 DEF ClientInv, ClientTypeOK, OverviewInv
<1>3. /\ CategoryOf(answer) \in Categories \ {"none", "authentication"}
      /\ CategoryOf(answer) = "ok" <=> answer = "ok"
  BY <1>2, CategoriesAre
<1>4. Len(Methods[op]) = 2
  BY <1>2, OverviewIs
<1>5. CASE Exit("unavailable") \/ Exit("malformed_response") \/ Exit("timeout")
  BY <1>1, <1>5, ClientExits DEF Categories
<1>6. CASE CategoryOf(answer) # "ok" /\ Exit(CategoryOf(answer))
  BY <1>1, <1>3, <1>6, ClientExits
<1>7. CASE /\ CategoryOf(answer) = "ok"
           /\ request = Len(Methods[op])
           /\ Exit("ok")
  <2>1. request = 2 /\ request # 1
    BY <1>4, <1>7
  <2>2. {"version", "chain"} \subseteq witness
    BY <1>1, <1>2, <1>3, <1>7, <2>1 DEF ClientInv, OverviewInv
  <2> QED
    BY <1>1, <1>7, <2>2, ClientExits DEF Categories
<1>8. CASE /\ d < cleft
           /\ CategoryOf(answer) = "ok"
           /\ request < Len(Methods[op])
           /\ request' = request + 1
           /\ call' = "lstat"
           /\ cleft' = cleft - d
           /\ creds' = "none"
           /\ UNCHANGED <<op, target, file, category>>
  <2>1. request < 2
    BY <1>4, <1>8
  <2>2. request = 1 /\ request' = 2
    BY <1>2, <1>8, <2>1
  <2>3. "version" \in witness
    BY <1>1, <1>2, <1>3, <1>8, <2>2 DEF ClientInv, OverviewInv
  <2>4. cleft' \in 0..ClientDeadline
    BY <1>8, ClientAssumption DEF ClientInv, ClientTypeOK
  <2>5. UNCHANGED <<active, known, witness>>
    BY DEF Watched, chainVars, historyVars
  <2>6. ClientTypeOK'
    BY <1>1, <1>8, <2>2, <2>4, <2>5 DEF ClientInv, ClientTypeOK
  <2>7. OverviewInv'
    BY <1>8, <2>3, <2>5 DEF OverviewInv
  <2> QED
    BY <1>8, <2>5, <2>6, <2>7 DEF ClientInv
<1> QED
  BY <1>5, <1>6, <1>7, <1>8 DEF BodyRead, Exit

LEMMA ClientGoesOn ==
  ASSUME ClientInv, Watched, RuntimeTypeOK, Glimpse \subseteq witness,
         NEW d \in Nat, ClientStep(d)
  PROVE  ClientInv' /\ call' # "none"
<1>1. UNCHANGED <<active, known, witness>>
  BY DEF Watched, chainVars, historyVars
<1>2. CASE CookieLooked(d)
  <2>1. CASE Exit("authentication") /\ UNCHANGED answer
    <3>1. call # "none"
      BY <1>2 DEF CookieLooked
    <3> QED
      BY <2>1, <3>1, ClientExits DEF Categories
  <2>2. CASE /\ call' = "open" /\ file' = "same"
             /\ UNCHANGED <<op, target, request, cleft, creds, answer, category>>
    BY <1>1, <1>2, <2>2 DEF CookieLooked, ClientInv, ClientTypeOK, OverviewInv
  <2> QED
    BY <1>2, <2>1, <2>2 DEF CookieLooked
<1>3. CASE CookieOpened(d)
  <2>1. UNCHANGED answer /\ call = "open"
    BY <1>3 DEF CookieOpened
  <2>2. CASE Exit("authentication") \/ Exit("timeout")
    BY <2>1, <2>2, ClientExits DEF Categories
  <2>3. CASE /\ d < cleft
             /\ call' = "send"
             /\ cleft' = cleft - d
             /\ file' = "none"
             /\ creds' = IF cookie = "current" THEN "valid" ELSE "stale"
             /\ UNCHANGED <<op, target, request, category>>
    <3>1. cleft' \in 0..ClientDeadline
      BY <2>3, ClientAssumption DEF ClientInv, ClientTypeOK
    <3> QED
      BY <1>1, <2>1, <2>3, <3>1 DEF ClientInv, ClientTypeOK, OverviewInv
  <2> QED
    BY <1>3, <2>2, <2>3 DEF CookieOpened
<1> QED
  BY <1>2, <1>3, ClientAnswered, ClientBodyRead DEF ClientStep

-----------------------------------------------------------------------------
(* Doctor's own steps.                                                       *)

LEMMA DoctorBeginsKeeps ==
  ASSUME DoctorInv, DoctorBegins
  PROVE  DoctorInv'
<1>1. /\ check = "none" /\ Quiet /\ op = "node" /\ witness' = Glimpse
      /\ sawDown' = (container = "down") /\ directory' \in Directories
      /\ UNCHANGED <<runtimeVars, chainVars, at, hleft, outcome, heard, spent, shown, lacked>>
  BY DEF DoctorBegins, Unmoved, DoctorInv, StageInv
<1>2. /\ check' \in {"docker", "client"} /\ context' = context
      /\ check' = "docker" => context = "host" /\ UNCHANGED clientVars
      /\ check' = "client" => ClientStarts
      /\ passed' \in BOOLEAN /\ (passed' => DirectoryAccepted(directory'))
  BY DEF DoctorBegins, Goto
<1>3. ClientTypeOK' /\ op' = "node" /\ OverviewInv' /\ request' = 1 /\ category' = "none"
  <2>1. CASE check' = "client"
    BY <1>1, <1>2, <2>1, ClientStartsIs DEF Quiet, DoctorInv, TypeOK
  <2>2. CASE check' = "docker"
    <3>1. ClientTypeOK'
      BY <1>1, <1>2, <2>2 DEF DoctorInv, TypeOK, ClientTypeOK, clientVars, chainVars
    <3> QED
      BY <1>1, <1>2, <2>2, <3>1 DEF Quiet, OverviewInv, clientVars
  <2> QED
    BY <1>2, <2>1, <2>2
<1>4. Glimpse' = Glimpse
  BY <1>1, Unwatched
<1>5. TypeOK'
  <2>1. witness' \subseteq FactNames /\ shown' \subseteq Blocks
    BY <1>1 DEF Glimpse, DoctorInv, TypeOK
  <2> QED
    BY <1>1, <1>3, <2>1 DEF DoctorInv, TypeOK, RuntimeTypeOK, runtimeVars
<1>6. DoctorTypeOK' /\ ServerInv'
  BY <1>1, <1>2 DEF DoctorInv, DoctorTypeOK, ServerInv, runtimeVars
<1>7. StageInv'
  BY <1>1, <1>2, <1>3 DEF StageInv, Quiet, clientVars
<1>8. SeenInv'
  BY <1>1, <1>4 DEF SeenInv, runtimeVars
<1>9. AskedInv' /\ DoctorPassIsBacked'
  BY <1>2, <1>3 DEF AskedInv, DoctorPassIsBacked
<1>10. PassInv'
  BY <1>1, <1>2, AcceptedIsUsable DEF PassInv
<1> QED
  BY <1>5, <1>6, <1>7, <1>8, <1>9, <1>10 DEF DoctorInv

(* A check that asks nothing of the node, or is told that it is stopped.     *)
LEMMA CheckKeeps ==
  ASSUME DoctorInv, UNCHANGED <<vars, context, directory, sawDown>>,
         check \in {"docker", "compose", "state"}, check' \in {"compose", "state", "done"},
         passed' \in BOOLEAN, passed' => passed, check' = "done" /\ passed' => sawDown
  PROVE  DoctorInv'
<1>1. Glimpse' = Glimpse
  BY Unwatched DEF vars
<1>2. TypeOK' /\ DoctorTypeOK'
  BY DEF DoctorInv, TypeOK, RuntimeTypeOK, ClientTypeOK, DoctorTypeOK, vars, runtimeVars,
         chainVars, clientVars, historyVars
<1>3. ServerInv' /\ StageInv'
  BY DEF DoctorInv, ServerInv, StageInv, Quiet, vars, runtimeVars, clientVars
<1>4. SeenInv'
  BY <1>1 DEF DoctorInv, SeenInv, vars, runtimeVars, historyVars
<1>5. AskedInv'
  BY DEF DoctorInv, AskedInv, OverviewInv, vars, clientVars, historyVars
<1>6. PassInv'
  BY DEF DoctorInv, PassInv, DirectoryUsable
<1>7. DoctorPassIsBacked'
  <2>1. ASSUME check' = "done", passed'
        PROVE  DirectoryUsable' /\ context' = "host" /\ sawDown'
    BY <1>6, <2>1 DEF DoctorInv, StageInv, PassInv
  <2> QED
    BY <2>1 DEF DoctorPassIsBacked
<1> QED
  BY <1>2, <1>3, <1>4, <1>5, <1>6, <1>7 DEF DoctorInv

LEMMA ChecksKeep ==
  ASSUME DoctorInv, DockerChecked \/ ComposeChecked
  PROVE  DoctorInv'
<1>1. /\ UNCHANGED <<vars, context, directory, sawDown>>
      /\ check \in {"docker", "compose"} /\ check' \in {"compose", "state", "done"}
  BY DEF DockerChecked, ComposeChecked, Unmoved, Goto, vars
<1>2. passed' \in BOOLEAN /\ (passed' => passed) /\ (check' = "done" => ~passed')
  BY DEF DockerChecked, ComposeChecked, Goto
<1> QED
  BY <1>1, <1>2, CheckKeeps

LEMMA DoctorStateQueriedKeeps ==
  ASSUME DoctorInv, DoctorStateQueried
  PROVE  DoctorInv'
<1>1. PICK s \in Reading \cup {"error"} :
        \/ s = "starting" /\ Goto("inspect", TRUE) /\ BeginOn("node")
        \/ /\ s # "starting" /\ Goto("done", s = "stopped")
           /\ Unmoved /\ UNCHANGED <<clientVars, historyVars>>
  BY DEF DoctorStateQueried
<1>2. check = "state" /\ UNCHANGED <<directory, sawDown>> /\ Quiet /\ context = "host"
  BY DEF DoctorStateQueried, DoctorInv, StageInv
<1>3. CASE Goto("done", s = "stopped") /\ Unmoved /\ UNCHANGED <<clientVars, historyVars>>
  <2>1. /\ UNCHANGED <<vars, context, directory, sawDown>> /\ check' = "done"
        /\ passed' \in BOOLEAN /\ (passed' => passed)
    BY <1>2, <1>3 DEF Unmoved, Goto, vars
  <2>2. passed' => "stopped" \in Reading
    BY <1>3 DEF Goto
  <2>3. passed' => sawDown
    BY <1>2, <2>2, StoppedIsDown DEF DoctorInv, TypeOK, SeenInv
  <2> QED
    BY <1>2, <2>1, <2>3, CheckKeeps
<1>4. CASE Goto("inspect", TRUE) /\ BeginOn("node")
  <2>1. /\ check' = "inspect" /\ passed' \in BOOLEAN /\ (passed' => passed) /\ context' = context
        /\ op' = "node" /\ at' = "state" /\ hleft' = Timeout
        /\ shown' = ActiveBlocks /\ witness' = Glimpse /\ lacked' \in BOOLEAN
        /\ UNCHANGED <<runtimeVars, chainVars, outcome, heard, spent>>
        /\ UNCHANGED <<call, request, cleft, file, creds, answer, category>>
    BY <1>4 DEF Goto, BeginOn
  <2>2. target' \subseteq Blocks
    BY <1>4 DEF BeginOn, Targets
  <2>3. Glimpse' = Glimpse
    BY <2>1, Unwatched
  <2>4. TypeOK'
    <3>1. hleft' \in 0..Timeout
      BY <2>1, TimeoutAssumption
    <3>2. shown' \subseteq Blocks /\ witness' \subseteq FactNames
      BY <2>1 DEF ActiveBlocks, Glimpse
    <3>3. op' \in DOMAIN Methods
      BY <2>1, OverviewIs
    <3> QED
      BY <2>1, <2>2, <3>1, <3>2, <3>3
         DEF DoctorInv, TypeOK, RuntimeTypeOK, ClientTypeOK, runtimeVars, chainVars
  <2>5. DoctorTypeOK' /\ ServerInv' /\ StageInv'
    BY <1>2, <2>1 DEF DoctorInv, DoctorTypeOK, ServerInv, StageInv, runtimeVars
  <2>6. SeenInv'
    BY <1>2, <2>1, <2>3 DEF DoctorInv, SeenInv, runtimeVars
  <2>7. AskedInv' /\ DoctorPassIsBacked'
    BY <1>2, <2>1 DEF AskedInv, OverviewInv, Quiet, DoctorPassIsBacked
  <2>8. PassInv'
    BY <1>2, <2>1 DEF DoctorInv, PassInv, DirectoryUsable
  <2> QED
    BY <2>4, <2>5, <2>6, <2>7, <2>8 DEF DoctorInv
<1> QED
  BY <1>1, <1>3, <1>4

-----------------------------------------------------------------------------
(* The inspection doctor runs on the host.                                   *)

(* It waits for the delegated run, or ends; "ok" only if the client was.     *)
LEMMA HostStepIs ==
  ASSUME TypeOK, NEW d \in Ticks, HostStep(d)
  PROVE  \/ \E r \in Outcomes : Finish(r, d) /\ (r = "ok" => category = "ok")
                                /\ heard' \in {"none", "nothing", "lines"}
         \/ d <= hleft /\ at = "state" /\ Wait("run", d) /\ UNCHANGED clientVars
<1>1. d <= hleft
  BY DEF HostStep
<1>2. \A r \in {"unavailable", "runtimeUnavailable", "timeout", "error"} :
        r \in Outcomes /\ r # "ok"
  BY DEF Outcomes, Categories
<1>3. UNCHANGED heard => heard' \in {"none", "nothing", "lines"}
  BY DEF TypeOK
<1>4. CASE StateUnknown(d) \/ RunFails(d) \/ RunTimesOut(d)
  BY <1>2, <1>3, <1>4 DEF StateUnknown, RunFails, RunTimesOut
<1>5. CASE StateQueried(d)
  BY <1>1, <1>2, <1>3, <1>5 DEF StateQueried
<1>6. CASE RunReturns(d)
  <2>1. heard' \in {"nothing", "lines"}
    BY <1>6 DEF RunReturns
  <2>2. PICK r \in Reported(heard') : Finish(r, d)
    BY <1>6 DEF RunReturns
  <2>3. r \in Outcomes /\ (r = "ok" => r = category)
    BY <2>1, <2>2, ReportedIs DEF TypeOK, ClientTypeOK
  <2> QED
    BY <2>1, <2>2, <2>3
<1> QED
  BY <1>4, <1>5, <1>6 DEF HostStep

LEMMA DoctorInspectsKeeps ==
  ASSUME DoctorInv, NEW d \in Ticks, DoctorInspects(d)
  PROVE  DoctorInv'
<1>1. /\ check = "inspect" /\ context = "host" /\ HostStep(d)
      /\ UNCHANGED <<directory, sawDown>>
  BY DEF DoctorInspects, DoctorInv, StageInv
<1>2. d \in Nat /\ hleft \in 0..Timeout /\ spent \in Nat
  BY TicksAre DEF DoctorInv, TypeOK
<1>3. CASE \E r \in Outcomes : Finish(r, d) /\ (r = "ok" => category = "ok")
                               /\ heard' \in {"none", "nothing", "lines"}
  <2>1. PICK r \in Outcomes : /\ Finish(r, d) /\ (r = "ok" => category = "ok")
                              /\ heard' \in {"none", "nothing", "lines"}
    BY <1>3
  <2>2. /\ at' = "done" /\ outcome' = r /\ hleft' = 0 /\ spent' = spent + d
        /\ call' = "none" /\ cleft' = 0 /\ file' = "none" /\ creds' = "none"
        /\ UNCHANGED <<op, target, request, answer, category>>
        /\ UNCHANGED <<runtimeVars, chainVars, historyVars>>
    BY <2>1 DEF Finish
  <2>3. /\ check' = "done" /\ context' = context /\ passed' \in BOOLEAN
        /\ passed' => passed /\ r = "ok"
    BY <2>2 DEF DoctorInspects, Goto
  <2>4. Glimpse' = Glimpse
    BY <2>2, Unwatched
  <2>5. TypeOK'
    <3>1. hleft' \in 0..Timeout /\ cleft' \in 0..ClientDeadline /\ spent' \in Nat
      BY <1>2, <2>2, TimeoutAssumption, ClientAssumption
    <3> QED
      BY <2>1, <2>2, <3>1 DEF DoctorInv, TypeOK, ClientTypeOK, RuntimeTypeOK, runtimeVars,
                              chainVars, historyVars
  <2>6. DoctorTypeOK' /\ ServerInv' /\ StageInv'
    BY <1>1, <2>2, <2>3 DEF DoctorInv, DoctorTypeOK, ServerInv, StageInv, runtimeVars
  <2>7. SeenInv'
    BY <1>1, <2>2, <2>3 DEF DoctorInv, SeenInv, runtimeVars
  <2>8. AskedInv'
    BY <2>2 DEF DoctorInv, AskedInv, OverviewInv, historyVars
  <2>9. PassInv'
    BY <1>1, <2>3 DEF DoctorInv, PassInv, DirectoryUsable
  <2>10. DoctorPassIsBacked'
    BY <1>1, <2>1, <2>2, <2>3, <2>9
       DEF DoctorInv, AskedInv, PassInv, DoctorPassIsBacked, historyVars
  <2> QED
    BY <2>5, <2>6, <2>7, <2>8, <2>9, <2>10 DEF DoctorInv
<1>4. CASE d <= hleft /\ at = "state" /\ Wait("run", d) /\ UNCHANGED clientVars
  <2>1. /\ at' = "run" /\ hleft' = hleft - d /\ spent' = spent + d
        /\ UNCHANGED <<outcome, heard, runtimeVars, chainVars, historyVars, clientVars>>
        /\ UNCHANGED <<context, check, passed>>
    BY <1>4 DEF Wait, DoctorInspects
  <2>2. hleft' \in 0..Timeout /\ spent' \in Nat
    BY <1>2, <1>4, <2>1, TimeoutAssumption
  <2>3. Glimpse' = Glimpse
    BY <2>1, Unwatched
  <2>4. TypeOK'
    BY <2>1, <2>2 DEF DoctorInv, TypeOK, ClientTypeOK, RuntimeTypeOK, runtimeVars,
                      chainVars, historyVars, clientVars
  <2>5. DoctorTypeOK' /\ ServerInv' /\ StageInv' /\ PassInv' /\ DoctorPassIsBacked'
    BY <1>1, <2>1 DEF DoctorInv, DoctorTypeOK, ServerInv, StageInv, PassInv,
                      DirectoryUsable, DoctorPassIsBacked, runtimeVars, clientVars
  <2>6. SeenInv'
    BY <1>1, <2>1, <2>3 DEF DoctorInv, SeenInv, runtimeVars, historyVars
  <2>7. AskedInv'
    BY <1>4, <2>1 DEF DoctorInv, AskedInv, OverviewInv, historyVars, clientVars
  <2> QED
    BY <2>4, <2>5, <2>6, <2>7 DEF DoctorInv
<1> QED
  BY <1>1, <1>3, <1>4, HostStepIs DEF DoctorInv

(* The client moves on, on the host's time or on doctor's own.               *)
LEMMA ClientKeeps ==
  ASSUME DoctorInv, check \in {"inspect", "client"},
         ClientInv', call' # "none", Watched, UNCHANGED <<context, directory, sawDown>>,
         check' \in {check, "done"}, passed' \in BOOLEAN, passed' => passed,
         check' = "done" /\ passed' => category' = "ok",
         at' \in {"idle", "state", "run", "done"}, hleft' \in 0..Timeout, spent' \in Nat,
         UNCHANGED <<outcome, heard>>
  PROVE  DoctorInv'
<1>1. Glimpse' = Glimpse
  BY Unwatched DEF Watched
<1>2. TypeOK' /\ DoctorTypeOK'
  BY DEF DoctorInv, TypeOK, RuntimeTypeOK, DoctorTypeOK, ClientInv, Watched, runtimeVars,
         historyVars
<1>3. ServerInv' /\ StageInv'
  BY DEF DoctorInv, ServerInv, StageInv, ClientInv, Watched, runtimeVars
<1>4. SeenInv'
  BY <1>1 DEF DoctorInv, SeenInv, Watched, runtimeVars, historyVars
<1>5. AskedInv'
  BY DEF AskedInv, ClientInv
<1>6. PassInv'
  BY DEF DoctorInv, PassInv, DirectoryUsable
<1>7. DoctorPassIsBacked'
  BY <1>5, <1>6 DEF AskedInv, PassInv, DoctorPassIsBacked
<1> QED
  BY <1>2, <1>3, <1>4, <1>5, <1>6, <1>7 DEF DoctorInv

LEMMA DelegateActsKeeps ==
  ASSUME DoctorInv, NEW d \in Ticks, DelegateActs(d)
  PROVE  DoctorInv'
<1>1. /\ check = "inspect" /\ UNCHANGED doctorVars /\ at = "run" /\ d < hleft
      /\ at' = "run" /\ hleft' = hleft - d /\ spent' = spent + d
      /\ UNCHANGED <<outcome, heard>> /\ Watched
  BY DEF DelegateActs, RunStarts, RunGoesOn, Wait, Watched
<1>2. d \in Nat /\ hleft \in 0..Timeout /\ spent \in Nat
  BY TicksAre DEF DoctorInv, TypeOK
<1>3. hleft' \in 0..Timeout /\ spent' \in Nat
  BY <1>1, <1>2, TimeoutAssumption
<1>4. ClientInv
  BY DEF DoctorInv, TypeOK, StageInv, AskedInv, ClientInv
<1>5. ClientInv' /\ call' # "none"
  <2>1. CASE ClientStarts
    <3>1. call = "none" /\ request = 1
      BY <1>1, <2>1 DEF ClientStarts, DoctorInv, AskedInv
    <3>2. /\ ClientTypeOK' /\ op' = "node" /\ OverviewInv' /\ call' = "lstat"
          /\ category' = category
      BY <1>1, <1>4, <2>1, <3>1, ClientStartsIs DEF ClientInv, Watched
    <3> QED
      BY <1>1, <1>4, <3>2 DEF ClientInv, Watched, historyVars
  <2>2. CASE ClientStep(d)
    BY <1>1, <1>2, <1>4, <2>2, ClientGoesOn DEF DoctorInv, TypeOK, SeenInv
  <2>3. CASE ClientBreaks
    BY <1>1, <1>4, <2>3, ClientExits DEF ClientBreaks, Categories
  <2> QED
    BY <2>1, <2>2, <2>3 DEF DelegateActs, RunStarts, RunGoesOn
<1>6. UNCHANGED <<context, directory, check, passed, sawDown>>
  BY <1>1 DEF doctorVars
<1>7. check' \in {check, "done"} /\ check' # "done" /\ passed' \in BOOLEAN
  BY <1>1, <1>6 DEF DoctorInv, DoctorTypeOK
<1> QED
  BY <1>1, <1>3, <1>5, <1>6, <1>7, ClientKeeps

LEMMA DoctorAsksKeeps ==
  ASSUME DoctorInv, NEW d \in 0..ClientDeadline, DoctorAsks(d)
  PROVE  DoctorInv'
<1>1. /\ check = "client" /\ ClientStep(d) /\ UNCHANGED <<context, directory, sawDown>>
      /\ UNCHANGED <<at, hleft, outcome, heard, spent>> /\ Watched
  BY DEF DoctorAsks, Unmoved, Watched, Goto
<1>2. /\ check' \in {check, "done"} /\ passed' \in BOOLEAN /\ (passed' => passed)
      /\ check' = "done" /\ passed' => category' = "ok"
  BY <1>1 DEF DoctorAsks, Goto, DoctorInv, DoctorTypeOK
<1>3. ClientInv' /\ call' # "none"
  <2>1. ClientInv
    BY DEF DoctorInv, TypeOK, StageInv, AskedInv, ClientInv
  <2>2. d \in Nat
    BY ClientAssumption
  <2> QED
    BY <1>1, <2>1, <2>2, ClientGoesOn DEF DoctorInv, TypeOK, SeenInv
<1>4. at' \in {"idle", "state", "run", "done"} /\ hleft' \in 0..Timeout /\ spent' \in Nat
  BY <1>1 DEF DoctorInv, TypeOK
<1> QED
  BY <1>1, <1>2, <1>3, <1>4, ClientKeeps

(* The node moves, under doctor's eyes or not.                               *)
LEMMA NodeMovesOnKeeps ==
  ASSUME DoctorInv, NodeMovesOn
  PROVE  DoctorInv'
<1> DEFINE watched == check \in {"inspect", "client"}
<1>1. /\ check # "done" /\ NodeMoves(watched)
      /\ sawDown' = (check # "none" /\ (sawDown \/ container' = "down"))
      /\ UNCHANGED <<context, directory, check, passed>>
  BY DEF NodeMovesOn
<1>2. /\ shown' = IF watched THEN shown \cup ActiveBlocks' ELSE shown
      /\ witness' = IF watched THEN witness \cup Glimpse' ELSE witness
      /\ file' = IF file = "same" /\ cookie' # cookie /\ cookie' # "stale" THEN "other" ELSE file
      /\ creds' = IF creds = "valid" /\ rpc' = "closed" THEN "stale" ELSE creds
      /\ UNCHANGED <<op, target, call, request, cleft, answer, category>>
      /\ UNCHANGED <<at, hleft, outcome, heard, spent, lacked>>
  BY <1>1 DEF NodeMoves, NodeChanges
<1>3. watched \in BOOLEAN /\ (watched => Glimpse' \subseteq witness') /\ witness \subseteq witness'
  BY <1>2
<1>4. RuntimeTypeOK' /\ ServerInv' /\ active' \in Seq(Forks) /\ known' \subseteq Blocks
  <2> HIDE DEF watched
  <2> QED
    BY <1>1, <1>3, NodeMovesAre DEF DoctorInv, TypeOK, ClientTypeOK
<1>5. TypeOK'
  <2>1. shown' \subseteq Blocks /\ witness' \subseteq FactNames
    <3>1. ActiveBlocks' \subseteq Blocks /\ Glimpse' \subseteq FactNames
      BY DEF ActiveBlocks, Glimpse
    <3> QED
      BY <1>2, <3>1 DEF DoctorInv, TypeOK
  <2>2. file' \in {"none", "same", "other"} /\ creds' \in {"none", "valid", "stale"}
    BY <1>2 DEF DoctorInv, TypeOK, ClientTypeOK
  <2> QED
    BY <1>2, <1>4, <2>1, <2>2 DEF DoctorInv, TypeOK, ClientTypeOK
<1>6. DoctorTypeOK'
  BY <1>1 DEF DoctorInv, DoctorTypeOK
<1>7. StageInv'
  BY <1>1, <1>2 DEF DoctorInv, StageInv, Quiet
<1>8. SeenInv'
  BY <1>1, <1>3 DEF DoctorInv, SeenInv
<1>9. AskedInv'
  BY <1>2, <1>3 DEF DoctorInv, AskedInv, OverviewInv
<1>10. PassInv' /\ DoctorPassIsBacked'
  BY <1>1 DEF DoctorInv, PassInv, DirectoryUsable, DoctorPassIsBacked
<1> QED
  BY <1>4, <1>5, <1>6, <1>7, <1>8, <1>9, <1>10 DEF DoctorInv

-----------------------------------------------------------------------------
LEMMA InitDoctorInv == CommandInit => DoctorInv
<1> SUFFICES ASSUME CommandInit PROVE DoctorInv
  OBVIOUS
<1>1. TypeOK /\ ServerInv
  BY InitIInv DEF CommandInit, IInv
<1>2. DoctorTypeOK
  <2>1. directory \in Directories
    BY DepthAssumption DEF CommandInit, DoctorInit, Directories
  <2> QED
    BY <2>1 DEF CommandInit, DoctorInit, DoctorTypeOK
<1>3. StageInv /\ SeenInv /\ AskedInv /\ PassInv /\ DoctorPassIsBacked
  BY DEF CommandInit, Init, ClientInit, DoctorInit, StageInv, Quiet, SeenInv, AskedInv,
         OverviewInv, PassInv, DoctorPassIsBacked
<1> QED
  BY <1>1, <1>2, <1>3 DEF DoctorInv

(* All that a command other than doctor does is its own.                     *)
LEMMA CommandStepIs ==
  ASSUME [CommandNext]_allVars
  PROVE  \/ DoctorBegins \/ DockerChecked \/ ComposeChecked \/ DoctorStateQueried
         \/ \E d \in Ticks : DoctorInspects(d) \/ DelegateActs(d)
         \/ \E d \in 0..ClientDeadline : DoctorAsks(d)
         \/ NodeMovesOn
         \/ UNCHANGED <<vars, doctorVars>>
<1>1. CASE Invoke
  BY <1>1 DEF Invoke, Idle
<1>2. CASE MainStep
  BY <1>2 DEF MainStep, RefusesContainer, Configures, ConfigurationFails, HandsOver, Idle
<1>3. CASE ServiceEnds \/ ClientObserves \/ HostObserves
  BY <1>3 DEF ServiceEnds, ClientObserves, HostObserves, Idle
<1>4. CASE DoctorRuns
  BY <1>4 DEF DoctorRuns, DoctorStep
<1>5. CASE Others
  BY <1>5 DEF Others
<1>6. CASE UNCHANGED allVars
  BY <1>6 DEF allVars
<1> QED
  BY <1>1, <1>2, <1>3, <1>4, <1>5, <1>6 DEF CommandNext, HandlerStep

LEMMA StepKeepsDoctorInv ==
  ASSUME DoctorInv, [CommandNext]_allVars
  PROVE  DoctorInv'
<1>1. CASE UNCHANGED <<vars, doctorVars>>
  <2>1. Glimpse' = Glimpse
    BY <1>1, Unwatched DEF vars
  <2>2. TypeOK' /\ DoctorTypeOK'
    BY <1>1 DEF DoctorInv, TypeOK, RuntimeTypeOK, ClientTypeOK, DoctorTypeOK, vars,
                runtimeVars, chainVars, clientVars, historyVars, doctorVars
  <2>3. ServerInv' /\ StageInv' /\ PassInv'
    BY <1>1 DEF DoctorInv, ServerInv, StageInv, Quiet, PassInv, DirectoryUsable, vars,
                runtimeVars, clientVars, doctorVars
  <2>4. SeenInv' /\ AskedInv' /\ DoctorPassIsBacked'
    BY <1>1, <2>1 DEF DoctorInv, SeenInv, AskedInv, OverviewInv, DoctorPassIsBacked,
                      DirectoryUsable, vars, runtimeVars, clientVars, historyVars, doctorVars
  <2> QED
    BY <2>2, <2>3, <2>4 DEF DoctorInv
<1> QED
  BY <1>1, CommandStepIs, DoctorBeginsKeeps, ChecksKeep, DoctorStateQueriedKeeps,
     DoctorInspectsKeeps, DelegateActsKeeps, DoctorAsksKeeps, NodeMovesOnKeeps

LEMMA AlwaysDoctorInv == CommandSpec => []DoctorInv
  BY InitDoctorInv, StepKeepsDoctorInv, PTL DEF CommandSpec

(* handle_doctor exits with 0 only over a data directory that can be used    *)
(* and a node that was down at a moment of the command, or over answers of   *)
(* version 310100 and chain regtest, whatever befalls the node between any   *)
(* two of its checks.                                                        *)
THEOREM DoctorPassReallyIsBacked == CommandSpec => []DoctorPassIsBacked
<1>1. DoctorInv => DoctorPassIsBacked
  BY DEF DoctorInv
<1> QED
  BY <1>1, AlwaysDoctorInv, PTL

-----------------------------------------------------------------------------
(* A whole command.                                                          *)

(* The options of the command that was given, and a configuration that lasts *)
(* until a handler has it.                                                   *)
ArgvInv ==
  /\ argv.command \in Commands
  /\ DOMAIN argv.after \subseteq Options[argv.command]
  /\ phase # "configured" => config = Defaults
  /\ phase \in {"shell", "invoked", "configured", "running", "ended"}
  /\ code \in {-1, 0, 1}

LEMMA NoArgvIs ==
  /\ NoArgv.command \in Commands /\ DOMAIN NoArgv.after \subseteq Options[NoArgv.command]
  /\ \A c \in Commands :
       LET a == [NoArgv EXCEPT !.command = c]
       IN  a.command = c /\ DOMAIN a.after \subseteq Options[c]
<1>1. NoArgv.after = NoLayer /\ NoArgv.command = "status"
  BY DEF NoArgv, Argv
<1>2. \A c : /\ [NoArgv EXCEPT !.command = c].after = NoLayer
             /\ [NoArgv EXCEPT !.command = c].command = c
  BY DEF NoArgv, Argv
<1>3. DOMAIN NoLayer = {} /\ "status" \in Commands
  BY NoLayerIsEmpty DEF Commands
<1> QED
  BY <1>1, <1>2, <1>3

LEMMA StepKeepsArgvInv ==
  ASSUME ArgvInv, [CommandNext]_allVars
  PROVE  ArgvInv'
<1>1. CASE Invoke
  <2>1. argv'.command \in Commands /\ DOMAIN argv'.after \subseteq Options[argv'.command]
    BY <1>1, CommandAssumption DEF Invoke
  <2> QED
    BY <1>1, <2>1 DEF Invoke, ArgvInv
<1>2. ASSUME \E c \in {0, 1} : Exits(c)
      PROVE  ArgvInv'
  BY <1>2, NoArgvIs DEF Exits, ArgvInv
<1>3. CASE UNCHANGED commandVars
  BY <1>3 DEF ArgvInv, commandVars
<1>4. CASE RefusesContainer \/ ConfigurationFails
  BY <1>2, <1>4 DEF RefusesContainer, ConfigurationFails
<1>5. CASE Configures
  BY <1>5 DEF Configures, ArgvInv
<1>6. CASE HandsOver
  BY <1>6, NoArgvIs DEF HandsOver, ArgvInv
<1>7. CASE HandlerStep
  BY <1>2, <1>3, <1>7, HandlerExits
<1>8. CASE Others \/ UNCHANGED allVars
  <2>1. UNCHANGED commandVars
    BY <1>8 DEF Others, allVars
  <2> QED
    BY <1>3, <2>1
<1> QED
  BY <1>1, <1>4, <1>5, <1>6, <1>7, <1>8 DEF CommandNext, MainStep

LEMMA AlwaysArgvInv == CommandSpec => []ArgvInv
<1>1. CommandInit => ArgvInv
  BY NoArgvIs DEF CommandInit, ArgvInv
<1> QED
  BY <1>1, StepKeepsArgvInv, PTL DEF CommandSpec

(* What a command has been configured with has been through the validators.  *)
LEMMA LoadedIsTyped ==
  ASSUME NEW src \in AllSources
  PROVE  /\ Loaded(src).error \in Errors
         /\ Loaded(src).settings["data_dir"] \in {"one", "padded", "two", "default"}
         /\ \A s \in NodeSettings : Loaded(src).settings[s] \in {"one", "two", "default"}
<1>1. /\ Loaded(src).error \in Errors
      /\ Loaded(src).error # "none" => \A s \in Settings : Loaded(src).settings[s] = "default"
  BY LoadedIs DEF Loads
<1>2. "data_dir" \in Settings /\ NodeSettings \subseteq Settings /\ "data_dir" \notin NodeSettings
  BY SettingsAre DEF NodeSettings
<1>3. ASSUME Loaded(src).error = "none", NEW s \in Settings
      PROVE  /\ Loaded(src).settings[s] \in {"one", "padded", "two", "default"}
             /\ s # "data_dir" => Loaded(src).settings[s] # "padded"
  <2>1. ~Faulty(src) /\ Loaded(src).settings[s] = Effective(src, s)
    BY <1>3, LoadedIs
  <2>2. Effective(src, s) \in {"one", "padded", "two", "default"}
    BY <2>1, EffectiveIsNormal DEF Values, Refusals
  <2>3. s # "data_dir" => Effective(src, s) # "padded"
    BY <2>1, EffectiveIsNormal DEF Normal
  <2> QED
    BY <2>1, <2>2, <2>3
<1> QED
  BY <1>1, <1>2, <1>3

LEMMA DefaultsAreTyped ==
  /\ Defaults.error \in Errors
  /\ Defaults.settings["data_dir"] \in {"one", "padded", "two", "default"}
  /\ \A s \in NodeSettings : Defaults.settings[s] \in {"one", "two", "default"}
  BY SettingsAre DEF Defaults, Errors, NodeSettings

(* The types of all that main, its handlers, doctor and the node in between  *)
(* work on: of a configuration that is in force every setting but the data   *)
(* directory has been trimmed, whichever source it is from.                  *)
THEOREM CommandTypeCorrect == CommandSpec => []CommandTypeOK
<1>1. DoctorInv /\ ReadingInv /\ ArgvInv /\ ConfigInv => CommandTypeOK
  <2> SUFFICES ASSUME DoctorInv, ReadingInv, ArgvInv, ConfigInv PROVE CommandTypeOK
    OBVIOUS
  <2>1. /\ config.error \in Errors
        /\ config.settings["data_dir"] \in {"one", "padded", "two", "default"}
        /\ \A s \in NodeSettings : config.settings[s] \in {"one", "two", "default"}
    <3>1. CASE phase = "configured"
      BY <3>1, LoadedIsTyped, SourcesAre DEF ConfigInv
    <3>2. CASE phase # "configured"
      BY <3>2, DefaultsAreTyped DEF ArgvInv
    <3> QED
      BY <3>1, <3>2
  <2> QED
    BY <2>1, ReadingIsTyped DEF DoctorInv, ArgvInv, CommandTypeOK
<1> QED
  BY <1>1, AlwaysDoctorInv, AlwaysReadingInv, AlwaysArgvInv, AlwaysConfigInv, PTL
================================================================================
