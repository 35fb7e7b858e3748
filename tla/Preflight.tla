------------------------------ MODULE Preflight ------------------------------
(***************************************************************************)
(* What ComposeLifecycleAdapter.start checks before its `compose up`, and  *)
(* that `compose up` itself: action Preflight of NodeLifecycle taken       *)
(* apart.  Here the processes start different projects on one daemon, each *)
(* with a network of its own, while other users come and go with networks  *)
(* and images.  The network list is a snapshot that is inspected one name  *)
(* at a time; everything is check-then-act.                                *)
(***************************************************************************)
EXTENDS Naturals

CONSTANTS
  Projects,       (* one `bitheim start` each                               *)
  Others,         (* names of networks that are not Bitheim's               *)
  Addresses,      (* a subnet is a set of these                             *)
  Configured,     (* the compose_subnet of each project                     *)
  Checkouts,      (* projects started from a repository checkout, with the  *)
                  (* Dockerfile of the Bitheim image at hand                *)
  Timeout

Names == Projects \cup Others
Subnets == SUBSET Addresses
NoNetwork == {}   (* the subnet of a name nothing has                       *)

ASSUME PreflightAssumption ==
  /\ Configured \in [Projects -> Subnets \ {NoNetwork}]
  /\ Checkouts \subseteq Projects
  /\ Timeout \in Nat \ {0}

VARIABLES
  networks,  (* the subnet of each of the daemon's networks; those without  *)
             (* one, such as "host", are in nobody's way and left out       *)
  images,    (* those of the two images it has                              *)
  pc,        (* the call a start waits for                                  *)
  left,      (* time left to its deadline                                   *)
  todo,      (* names it has listed and not inspected yet                   *)
  outcome,   (* what adapter.start raised, or "up"                          *)
  standing,  (* history: the networks there all the time since the list     *)
  met,       (* history: networks that were in its way at some moment       *)
  had        (* history: the images it has known to be there                *)

hostVars == <<pc, left, todo, outcome>>
vars == <<networks, images, hostVars, standing, met, had>>

Images == {"core", "app"}
Labels ==
  {"idle", "info", "list", "inspect", "core", "coreBuild", "app", "appBuild", "up", "done"}

Clash(n, p) == networks[n] \cap Configured[p] # {}
InTheWay(p) == {n \in Names \ {p} : Clash(n, p)}

(* The daemon never lets two networks overlap.                               *)
Disjoint(nets) ==
  \A m, n \in Names : m # n => nets[m] \cap nets[n] = {}

Init ==
  /\ networks \in [Names -> Subnets]
  /\ Disjoint(networks)
  /\ images \in SUBSET Images
  /\ pc = [p \in Projects |-> "idle"]
  /\ left = [p \in Projects |-> 0]
  /\ todo = [p \in Projects |-> {}]
  /\ outcome = [p \in Projects |-> "none"]
  /\ standing = [p \in Projects |-> {}]
  /\ met = [p \in Projects |-> {}]
  /\ had = [p \in Projects |-> {}]

-----------------------------------------------------------------------------
Goto(p, label, d) ==
  /\ pc' = [pc EXCEPT ![p] = label]
  /\ left' = [left EXCEPT ![p] = @ - d]
  /\ UNCHANGED outcome

Ends(p, result) ==
  /\ pc' = [pc EXCEPT ![p] = "done"]
  /\ left' = [left EXCEPT ![p] = 0]
  /\ todo' = [todo EXCEPT ![p] = {}]
  /\ outcome' = [outcome EXCEPT ![p] = result]

Begin(p) ==
  /\ pc[p] = "idle"
  /\ pc' = [pc EXCEPT ![p] = "info"]
  /\ left' = [left EXCEPT ![p] = Timeout]
  /\ met' = [met EXCEPT ![p] = InTheWay(p)]
  /\ UNCHANGED <<networks, images, todo, outcome, standing, had>>

(* Any call before `compose up` that fails or takes all the time left.       *)
CallFails(p) ==
  /\ pc[p] \notin {"idle", "up", "done"}
  /\ Ends(p, "RuntimeUnavailable")
  /\ UNCHANGED <<networks, images, standing, met, had>>

(* docker info                                                               *)
Informed(p, d) ==
  /\ pc[p] = "info"
  /\ Goto(p, "list", d)
  /\ UNCHANGED <<networks, images, todo, standing, met, had>>

ListedWithItsOwn(p, d) ==
  /\ pc[p] = "list"
  /\ Goto(p, "inspect", d)
  /\ LET there == {n \in Names : networks[n] # NoNetwork}
     IN  /\ todo' = [todo EXCEPT ![p] = there]
         /\ standing' = [standing EXCEPT ![p] = there]
  /\ UNCHANGED <<networks, images, met, had>>

(* docker network ls; the names that are not this project's are inspected.   *)
Listed(p, d) ==
  /\ pc[p] = "list"
  /\ Goto(p, "inspect", d)
  /\ LET there == {n \in Names : networks[n] # NoNetwork}
     IN  /\ todo' = [todo EXCEPT ![p] = there \ {p}]
         /\ standing' = [standing EXCEPT ![p] = there]
  /\ UNCHANGED <<networks, images, met, had>>

FirstInspected(p, d) ==
  /\ pc[p] = "inspect"
  /\ \E n \in todo[p] :
       \/ networks[n] = NoNetwork /\ Ends(p, "RuntimeUnavailable")
       \/ Clash(n, p) /\ Ends(p, "Collision")
       \/ /\ networks[n] # NoNetwork /\ ~Clash(n, p)
          /\ Goto(p, "inspect", d)
          /\ todo' = [todo EXCEPT ![p] = {}]
  /\ UNCHANGED <<networks, images, standing, met, had>>

(* docker network inspect of one more name.  A network that is gone by now   *)
(* fails the start, in whose way it was not.                                 *)
Inspected(p, d) ==
  /\ pc[p] = "inspect"
  /\ \E n \in todo[p] :
       \/ networks[n] = NoNetwork /\ Ends(p, "RuntimeUnavailable")
       \/ Clash(n, p) /\ Ends(p, "Collision")
       \/ /\ networks[n] # NoNetwork /\ ~Clash(n, p)
          /\ Goto(p, "inspect", d)
          /\ todo' = [todo EXCEPT ![p] = @ \ {n}]
  /\ UNCHANGED <<networks, images, standing, met, had>>

NoneLeft(p) ==
  /\ pc[p] = "inspect"
  /\ todo[p] = {}
  /\ Goto(p, "core", 0)
  /\ UNCHANGED <<networks, images, todo, standing, met, had>>

(* _ensure_image_available: docker image inspect; a miss is built if there   *)
(* is something to build it from.                                            *)
ImageChecked(p, i, d, build, next) ==
  /\ pc[p] = i
  /\ \/ /\ i \in images
        /\ Goto(p, next, d)
        /\ had' = [had EXCEPT ![p] = @ \cup {i}]
        /\ UNCHANGED todo
     \/ /\ i \notin images
        /\ i = "core" \/ p \in Checkouts
        /\ Goto(p, build, d)
        /\ UNCHANGED <<todo, had>>
     \/ /\ i \notin images
        /\ i = "app" /\ p \notin Checkouts
        /\ Ends(p, "RuntimeUnavailable")
        /\ UNCHANGED had
  /\ UNCHANGED <<networks, images, standing, met>>

(* docker build                                                              *)
Built(p, i, d, build, next) ==
  /\ pc[p] = build
  /\ Goto(p, next, d)
  /\ images' = images \cup {i}
  /\ had' = [had EXCEPT ![p] = @ \cup {i}]
  /\ UNCHANGED <<networks, todo, standing, met>>

ImagesOfTheNode(p, d) ==
  \/ ImageChecked(p, "core", d, "coreBuild", "up")
  \/ Built(p, "core", d, "coreBuild", "up")

BothImages(p, d) ==
  \/ ImageChecked(p, "core", d, "coreBuild", "app")
  \/ Built(p, "core", d, "coreBuild", "app")
  \/ ImageChecked(p, "app", d, "appBuild", "up")
  \/ Built(p, "app", d, "appBuild", "up")

(* A change of the daemon's networks, as every start that is under way would *)
(* see it.                                                                   *)
Networks(nets) ==
  /\ networks' = nets
  /\ standing' = [p \in Projects |-> {n \in standing[p] : networks'[n] = networks[n]}]
  /\ met' = [p \in Projects |->
               IF pc[p] \in {"idle", "done"} THEN met[p] ELSE met[p] \cup InTheWay(p)']

(* Compose creates the project's network before anything else, and the       *)
(* daemon has the last word on its subnet.                                   *)
NetworkMade(p) ==
  /\ networks[p] # NoNetwork \/ InTheWay(p) = {}
  /\ Networks([networks EXCEPT ![p] = IF @ = NoNetwork THEN Configured[p] ELSE @])

(* docker compose up, which fails without the image and may fail or be       *)
(* killed at its timeout with or without the network created.                *)
UpReturns(p, d) ==
  /\ pc[p] = "up"
  /\ UNCHANGED <<images, had>>
  /\ \/ "core" \in images /\ NetworkMade(p) /\ Ends(p, "up")
     \/ /\ NetworkMade(p) \/ UNCHANGED <<networks, standing, met>>
        /\ \/ \E e \in {"LifecycleError", "RuntimeUnavailable"} : Ends(p, e)
           \/ d = left[p] /\ Ends(p, "StartupTimeout")

StepUnhurried(p, d) ==
  \/ Informed(p, d)
  \/ Listed(p, d)
  \/ Inspected(p, d)
  \/ BothImages(p, d)
  \/ UpReturns(p, d)

(* Time that is up before a call is time that is up in it (CallFails).       *)
Step(p, d) ==
  /\ d < left[p] \/ (pc[p] = "up" /\ d = left[p])
  /\ \/ Informed(p, d)
     \/ Listed(p, d)
     \/ Inspected(p, d)
     \/ BothImages(p, d)
     \/ UpReturns(p, d)

(* External: other users' networks, other projects' `compose down` and       *)
(* docker rmi.                                                               *)
OthersAct ==
  \/ /\ \E n \in Names, s \in Subnets :
          /\ s = NoNetwork \/ (n \in Others /\ networks[n] = NoNetwork)
          /\ s # networks[n]
          /\ Disjoint([networks EXCEPT ![n] = s])
          /\ Networks([networks EXCEPT ![n] = s])
     /\ UNCHANGED <<images, hostVars, had>>
  \/ /\ \E i \in images : images' = images \ {i}
     /\ UNCHANGED <<networks, hostVars, standing, met, had>>

Next ==
  \/ \E p \in Projects : Begin(p)
  \/ \E p \in Projects : CallFails(p)
  \/ \E p \in Projects : NoneLeft(p)
  \/ \E p \in Projects, d \in 0..Timeout : Step(p, d)
  \/ OthersAct

Spec == Init /\ [][Next]_vars

-----------------------------------------------------------------------------
TypeOK ==
  /\ networks \in [Names -> Subnets]
  /\ images \subseteq Images
  /\ pc \in [Projects -> Labels]
  /\ left \in [Projects -> 0..Timeout]
  /\ todo \in [Projects -> SUBSET Names]
  /\ outcome \in [Projects -> {"none", "up", "RuntimeUnavailable", "Collision",
                               "LifecycleError", "StartupTimeout"}]
  /\ standing \in [Projects -> SUBSET Names]
  /\ met \in [Projects -> SUBSET Names]
  /\ had \in [Projects -> SUBSET Images]

(* A start that gets past the check has looked at every other network that   *)
(* was listed and is still there: none of them is in its way.  (One created  *)
(* after the list may be.)                                                   *)
StandingNetworksAreClear ==
  \A p \in Projects :
    pc[p] \in {"core", "coreBuild", "app", "appBuild", "up"} =>
      standing[p] \cap InTheWay(p) = {}

(* A start is refused for a collision only with a network of someone else's: *)
(* the one a former start of the same project left behind is no collision.   *)
CollisionIsForeign ==
  \A p \in Projects : outcome[p] = "Collision" => met[p] # {}

(* `compose up` is not issued before both images have been there: without    *)
(* the second one every later health probe would fail.                       *)
UpFindsBothImages ==
  \A p \in Projects : pc[p] = "up" => had[p] = Images
=============================================================================
