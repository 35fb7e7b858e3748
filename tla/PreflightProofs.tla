---------------------------- MODULE PreflightProofs ----------------------------
(***************************************************************************)
(* Proofs about Preflight for any number of projects and foreign networks, *)
(* any subnets and any timeout.  The invariant says what a start still     *)
(* knows of a list that others have changed since: all of it that is       *)
(* there and in its way has yet to be inspected.                           *)
(***************************************************************************)
EXTENDS Preflight, TLAPS

Later == {"core", "coreBuild", "app", "appBuild", "up"}

(* A start does not inspect its own network.                                 *)
TodoInv == \A p \in Projects : p \notin todo[p]

(* What stands in the way since the list is yet to be inspected.             *)
StandingInv ==
  \A p \in Projects :
    /\ pc[p] = "inspect" => standing[p] \cap InTheWay(p) \subseteq todo[p]
    /\ pc[p] \in Later => standing[p] \cap InTheWay(p) = {}

(* A start has met what is in its way now.                                   *)
MetInv ==
  \A p \in Projects :
    /\ pc[p] \notin {"idle", "done"} => InTheWay(p) \subseteq met[p]
    /\ pc[p] # "done" => outcome[p] = "none"

(* Images are checked one after the other.                                   *)
ImageInv ==
  \A p \in Projects :
    /\ pc[p] \in {"app", "appBuild"} => "core" \in had[p]
    /\ pc[p] = "up" => had[p] = Images

IInv ==
  /\ TypeOK
  /\ TodoInv
  /\ StandingInv
  /\ MetInv
  /\ ImageInv
  /\ CollisionIsForeign

-----------------------------------------------------------------------------
LEMMA InitIInv == Init => IInv
<1> SUFFICES ASSUME Init PROVE IInv
  OBVIOUS
<1>1. TypeOK
  BY PreflightAssumption DEF Init, TypeOK, Labels
<1>2. TodoInv /\ StandingInv /\ MetInv /\ ImageInv /\ CollisionIsForeign
  BY DEF Init, TodoInv, StandingInv, MetInv, ImageInv, CollisionIsForeign, Later
<1> QED
  BY <1>1, <1>2 DEF IInv

(* The history of the networks: what others do to them leaves each start's   *)
(* knowledge of the list true.                                               *)
LEMMA NetworksKeep ==
  ASSUME IInv, NEW nets \in [Names -> Subnets], Networks(nets)
  PROVE  /\ networks' \in [Names -> Subnets]
         /\ standing' \in [Projects -> SUBSET Names]
         /\ met' \in [Projects -> SUBSET Names]
         /\ \A p \in Projects :
              /\ standing'[p] \subseteq standing[p]
              /\ standing'[p] \cap InTheWay(p)' = standing'[p] \cap InTheWay(p)
              /\ met[p] \subseteq met'[p]
              /\ pc[p] \notin {"idle", "done"} => InTheWay(p)' \subseteq met'[p]
<1>1. networks' = nets
  BY DEF Networks
<1>2. \A p \in Projects : standing'[p] = {n \in standing[p] : networks'[n] = networks[n]}
  BY DEF Networks
<1>3. \A p \in Projects :
        met'[p] = IF pc[p] \in {"idle", "done"} THEN met[p] ELSE met[p] \cup InTheWay(p)'
  BY DEF Networks
<1>4. \A p \in Projects : InTheWay(p)' = {n \in Names \ {p} : networks'[n] \cap Configured[p] # {}}
  BY DEF InTheWay, Clash
<1>5. \A p \in Projects : InTheWay(p) = {n \in Names \ {p} : networks[n] \cap Configured[p] # {}}
  BY DEF InTheWay, Clash
<1>6. \A p \in Projects : standing'[p] \cap InTheWay(p)' = standing'[p] \cap InTheWay(p)
  BY <1>2, <1>4, <1>5
<1>7. standing' \in [Projects -> SUBSET Names] /\ met' \in [Projects -> SUBSET Names]
  BY <1>4 DEF IInv, TypeOK, Networks
<1> QED
  BY <1>1, <1>2, <1>3, <1>6, <1>7

LEMMA BeginKeeps ==
  ASSUME IInv, NEW p \in Projects, Begin(p)
  PROVE  IInv'
<1>1. TypeOK'
  BY PreflightAssumption DEF IInv, TypeOK, Begin, Labels, InTheWay
<1>2. TodoInv' /\ StandingInv' /\ ImageInv'
  BY DEF IInv, TypeOK, Begin, TodoInv, StandingInv, ImageInv, Later, InTheWay, Clash
<1>3. MetInv' /\ CollisionIsForeign'
  BY DEF IInv, TypeOK, Begin, MetInv, CollisionIsForeign, InTheWay, Clash
<1> QED
  BY <1>1, <1>2, <1>3 DEF IInv

Results == {"up", "RuntimeUnavailable", "Collision", "LifecycleError", "StartupTimeout"}

(* A start that ends knows and owes nothing more.                            *)
LEMMA EndsKeeps ==
  ASSUME IInv, NEW p \in Projects, NEW result \in Results, Ends(p, result),
         result = "Collision" => met'[p] # {},
         networks' \in [Names -> Subnets], images' \subseteq Images,
         standing' \in [Projects -> SUBSET Names],
         met' \in [Projects -> SUBSET Names],
         \A q \in Projects :
              /\ standing'[q] \subseteq standing[q]
              /\ standing'[q] \cap InTheWay(q)' = standing'[q] \cap InTheWay(q)
              /\ met[q] \subseteq met'[q]
              /\ pc[q] \notin {"idle", "done"} => InTheWay(q)' \subseteq met'[q],
         UNCHANGED had
  PROVE  IInv'
<1>1. TypeOK'
  <2>1. 0 \in 0..Timeout
    BY PreflightAssumption
  <2>2. left' \in [Projects -> 0..Timeout] /\ todo' \in [Projects -> SUBSET Names]
    BY <2>1 DEF IInv, TypeOK, Ends
  <2>3. pc' \in [Projects -> Labels]
    BY DEF IInv, TypeOK, Ends, Labels
  <2>4. outcome' \in [Projects -> {"none"} \cup Results]
    BY DEF IInv, TypeOK, Ends, Results
  <2>5. had' \in [Projects -> SUBSET Images]
    BY DEF IInv, TypeOK
  <2> QED
    BY <2>2, <2>3, <2>4, <2>5 DEF TypeOK, Results
<1>2. TodoInv' /\ ImageInv'
  BY DEF IInv, TypeOK, Ends, TodoInv, ImageInv
<1>3. StandingInv'
  <2> SUFFICES ASSUME NEW q \in Projects
      PROVE  /\ pc'[q] = "inspect" => standing'[q] \cap InTheWay(q)' \subseteq todo'[q]
             /\ pc'[q] \in Later => standing'[q] \cap InTheWay(q)' = {}
    BY DEF StandingInv
  <2>1. q = p => pc'[q] = "done"
    BY DEF IInv, TypeOK, Ends
  <2>2. q # p => pc'[q] = pc[q] /\ todo'[q] = todo[q]
    BY DEF IInv, TypeOK, Ends
  <2> QED
    BY <2>1, <2>2 DEF IInv, StandingInv, Later
<1>4. MetInv'
  <2> SUFFICES ASSUME NEW q \in Projects
      PROVE  /\ pc'[q] \notin {"idle", "done"} => InTheWay(q)' \subseteq met'[q]
             /\ pc'[q] # "done" => outcome'[q] = "none"
    BY DEF MetInv
  <2>1. q = p => pc'[q] = "done"
    BY DEF IInv, TypeOK, Ends
  <2>2. q # p => pc'[q] = pc[q] /\ outcome'[q] = outcome[q]
    BY DEF IInv, TypeOK, Ends
  <2> QED
    BY <2>1, <2>2 DEF IInv, MetInv
<1>5. CollisionIsForeign'
  BY DEF IInv, TypeOK, CollisionIsForeign, Ends
<1> QED
  BY <1>1, <1>2, <1>3, <1>4, <1>5 DEF IInv

(* Ending without touching the networks.                                     *)
LEMMA EndsAlone ==
  ASSUME IInv, NEW p \in Projects, NEW result \in Results, Ends(p, result),
         result = "Collision" => met[p] # {},
         UNCHANGED <<networks, images, standing, met, had>>
  PROVE  IInv'
<1>1. \A q \in Projects : InTheWay(q)' = InTheWay(q)
  BY DEF InTheWay, Clash
<1>2. \A q \in Projects : pc[q] \notin {"idle", "done"} => InTheWay(q) \subseteq met[q]
  BY DEF IInv, MetInv
<1> QED
  BY <1>1, <1>2, EndsKeeps DEF IInv, TypeOK

LEMMA NotElsewhere ==
  ASSUME IInv, NEW p \in Projects, NEW label, NEW d, Goto(p, label, d),
         NEW q \in Projects, q # p
  PROVE  pc'[q] = pc[q] /\ left'[q] = left[q] /\ outcome'[q] = outcome[q]
  BY DEF IInv, TypeOK, Goto

(* Going on to the next call, with what has been learnt up to then.          *)
LEMMA GotoKeeps ==
  ASSUME IInv, NEW p \in Projects, NEW label \in Labels \ {"idle", "done"},
         NEW d \in 0..Timeout, d <= left[p], Goto(p, label, d),
         pc[p] \notin {"idle", "done"},
         UNCHANGED <<networks, met>>,
         images' \subseteq Images,
         todo' \in [Projects -> SUBSET Names],
         standing' \in [Projects -> SUBSET Names],
         had' \in [Projects -> SUBSET Images],
         \A q \in Projects \ {p} :
           todo'[q] = todo[q] /\ standing'[q] = standing[q] /\ had'[q] = had[q],
         p \notin todo'[p],
         label = "inspect" => standing'[p] \cap InTheWay(p) \subseteq todo'[p],
         label \in Later => standing'[p] \cap InTheWay(p) = {},
         label \in {"app", "appBuild"} => "core" \in had'[p],
         label = "up" => had'[p] = Images
  PROVE  IInv'
<1>1. \A q \in Projects : InTheWay(q)' = InTheWay(q)
  BY DEF InTheWay, Clash
<1>2. pc'[p] = label /\ outcome' = outcome
  BY DEF IInv, TypeOK, Goto
<1>3. TypeOK'
  <2>1. left[p] \in 0..Timeout /\ left[p] - d \in 0..Timeout
    BY PreflightAssumption DEF IInv, TypeOK
  <2>2. left' \in [Projects -> 0..Timeout] /\ pc' \in [Projects -> Labels]
    BY <2>1 DEF IInv, TypeOK, Goto
  <2> QED
    BY <1>2, <2>2 DEF IInv, TypeOK
<1>4. TodoInv' /\ ImageInv'
  BY <1>2, NotElsewhere DEF IInv, TodoInv, ImageInv
<1>5. StandingInv'
  <2> SUFFICES ASSUME NEW q \in Projects
      PROVE  /\ pc'[q] = "inspect" => standing'[q] \cap InTheWay(q)' \subseteq todo'[q]
             /\ pc'[q] \in Later => standing'[q] \cap InTheWay(q)' = {}
    BY DEF StandingInv
  <2> QED
    BY <1>1, <1>2, NotElsewhere DEF IInv, StandingInv
<1>6. MetInv'
  <2> SUFFICES ASSUME NEW q \in Projects
      PROVE  /\ pc'[q] \notin {"idle", "done"} => InTheWay(q)' \subseteq met'[q]
             /\ pc'[q] # "done" => outcome'[q] = "none"
    BY DEF MetInv
  <2> QED
    BY <1>1, <1>2, NotElsewhere DEF IInv, MetInv
<1>7. CollisionIsForeign'
  BY <1>2 DEF IInv, CollisionIsForeign
<1> QED
  BY <1>3, <1>4, <1>5, <1>6, <1>7 DEF IInv

-----------------------------------------------------------------------------
(* One lemma for each action.                                                *)

LEMMA CallFailsKeeps ==
  ASSUME IInv, NEW p \in Projects, CallFails(p)
  PROVE  IInv'
  BY EndsAlone DEF CallFails, Results

LEMMA InformedKeeps ==
  ASSUME IInv, NEW p \in Projects, NEW d \in 0..Timeout, d <= left[p], Informed(p, d)
  PROVE  IInv'
<1>1. "list" \in Labels \ {"idle", "done"} /\ "list" \notin Later
  BY DEF Labels, Later
<1> QED
  BY <1>1, GotoKeeps DEF Informed, IInv, TypeOK, TodoInv

LEMMA ListedKeeps ==
  ASSUME IInv, NEW p \in Projects, NEW d \in 0..Timeout, d <= left[p], Listed(p, d)
  PROVE  IInv'
<1> DEFINE there == {n \in Names : networks[n] # NoNetwork}
<1>1. "inspect" \in Labels \ {"idle", "done"} /\ "inspect" \notin Later
  BY DEF Labels, Later
<1>2. /\ todo' = [todo EXCEPT ![p] = there \ {p}]
      /\ standing' = [standing EXCEPT ![p] = there]
  BY DEF Listed
<1>3. /\ todo' \in [Projects -> SUBSET Names] /\ standing' \in [Projects -> SUBSET Names]
      /\ todo'[p] = there \ {p} /\ standing'[p] = there
      /\ \A q \in Projects \ {p} : todo'[q] = todo[q] /\ standing'[q] = standing[q]
  BY <1>2 DEF IInv, TypeOK
<1>4. standing'[p] \cap InTheWay(p) \subseteq todo'[p]
  BY <1>3 DEF InTheWay
<1> QED
  BY <1>1, <1>3, <1>4, GotoKeeps DEF Listed, IInv, TypeOK

LEMMA InspectedKeeps ==
  ASSUME IInv, NEW p \in Projects, NEW d \in 0..Timeout, d <= left[p], Inspected(p, d)
  PROVE  IInv'
<1>1. PICK n \in todo[p] :
        \/ networks[n] = NoNetwork /\ Ends(p, "RuntimeUnavailable")
        \/ Clash(n, p) /\ Ends(p, "Collision")
        \/ /\ networks[n] # NoNetwork /\ ~Clash(n, p)
           /\ Goto(p, "inspect", d)
           /\ todo' = [todo EXCEPT ![p] = @ \ {n}]
  BY DEF Inspected
<1>2. pc[p] = "inspect" /\ UNCHANGED <<networks, images, standing, met, had>>
  BY DEF Inspected
<1>3. CASE networks[n] = NoNetwork /\ Ends(p, "RuntimeUnavailable")
  BY <1>2, <1>3, EndsAlone DEF Results
<1>4. CASE Clash(n, p) /\ Ends(p, "Collision")
  <2>1. n \in InTheWay(p)
    BY <1>4 DEF IInv, TypeOK, TodoInv, InTheWay
  <2>2. met[p] # {}
    BY <1>2, <2>1 DEF IInv, MetInv
  <2> QED
    BY <1>2, <1>4, <2>2, EndsAlone DEF Results
<1>5. CASE /\ networks[n] # NoNetwork /\ ~Clash(n, p)
           /\ Goto(p, "inspect", d)
           /\ todo' = [todo EXCEPT ![p] = @ \ {n}]
  <2>1. "inspect" \in Labels \ {"idle", "done"} /\ "inspect" \notin Later
    BY DEF Labels, Later
  <2>2. /\ todo' \in [Projects -> SUBSET Names] /\ todo'[p] = todo[p] \ {n}
        /\ \A q \in Projects \ {p} : todo'[q] = todo[q]
    BY <1>5 DEF IInv, TypeOK
  <2>3. standing[p] \cap InTheWay(p) \subseteq todo'[p]
    BY <1>2, <1>5, <2>2 DEF IInv, StandingInv, InTheWay
  <2> QED
    BY <1>2, <1>5, <2>1, <2>2, <2>3, GotoKeeps DEF IInv, TypeOK, TodoInv
<1> QED
  BY <1>1, <1>3, <1>4, <1>5

LEMMA NoneLeftKeeps ==
  ASSUME IInv, NEW p \in Projects, NoneLeft(p)
  PROVE  IInv'
<1>1. "core" \in Labels \ {"idle", "done"} /\ "core" # "inspect"
  BY DEF Labels
<1>2. 0 \in 0..Timeout /\ 0 <= left[p]
  BY PreflightAssumption DEF IInv, TypeOK
<1>3. standing[p] \cap InTheWay(p) = {}
  BY DEF NoneLeft, IInv, StandingInv
<1> QED
  BY <1>1, <1>2, <1>3, GotoKeeps DEF NoneLeft, IInv, TypeOK, TodoInv

(* The steps from the check of an image to the next call: p knows at least   *)
(* the images it knew, and what it has learnt of i.                          *)
LEMMA ImageCheckedKeeps ==
  ASSUME IInv, NEW p \in Projects, NEW d \in 0..Timeout, d <= left[p],
         NEW i \in Images, NEW build \in Later, NEW next \in Later,
         i \in Later, ImageChecked(p, i, d, build, next),
         build \in {"app", "appBuild"} => "core" \in had[p],
         build # "up",
         next \in {"app", "appBuild"} => "core" \in had[p] \cup {i},
         next = "up" => had[p] \cup {i} = Images
  PROVE  IInv'
<1>1. Later \subseteq Labels \ {"idle", "done"} /\ "inspect" \notin Later
  BY DEF Later, Labels
<1>2. pc[p] = i /\ UNCHANGED <<networks, images, standing, met>>
  BY DEF ImageChecked
<1>3. standing[p] \cap InTheWay(p) = {}
  BY <1>2 DEF IInv, StandingInv
<1>4. CASE Goto(p, next, d) /\ had' = [had EXCEPT ![p] = @ \cup {i}] /\ UNCHANGED todo
  <2>1. /\ had' \in [Projects -> SUBSET Images] /\ had'[p] = had[p] \cup {i}
        /\ \A q \in Projects \ {p} : had'[q] = had[q]
    BY <1>4 DEF IInv, TypeOK
  <2> QED
    BY <1>1, <1>2, <1>3, <1>4, <2>1, GotoKeeps DEF IInv, TypeOK, TodoInv
<1>5. CASE Goto(p, build, d) /\ UNCHANGED <<todo, had>>
  BY <1>1, <1>2, <1>3, <1>5, GotoKeeps DEF IInv, TypeOK, TodoInv
<1>6. CASE Ends(p, "RuntimeUnavailable") /\ UNCHANGED had
  BY <1>2, <1>6, EndsAlone DEF Results
<1> QED
  BY <1>4, <1>5, <1>6 DEF ImageChecked

LEMMA BuiltKeeps ==
  ASSUME IInv, NEW p \in Projects, NEW d \in 0..Timeout, d <= left[p],
         NEW i \in Images, NEW build \in Later, NEW next \in Later,
         Built(p, i, d, build, next),
         next \in {"app", "appBuild"} => "core" \in had[p] \cup {i},
         next = "up" => had[p] \cup {i} = Images
  PROVE  IInv'
<1>1. Later \subseteq Labels \ {"idle", "done"} /\ "inspect" \notin Later
  BY DEF Later, Labels
<1>2. /\ pc[p] = build /\ Goto(p, next, d) /\ images' = images \cup {i}
      /\ had' = [had EXCEPT ![p] = @ \cup {i}]
      /\ UNCHANGED <<networks, todo, standing, met>>
  BY DEF Built
<1>3. standing[p] \cap InTheWay(p) = {}
  BY <1>2 DEF IInv, StandingInv
<1>4. /\ had' \in [Projects -> SUBSET Images] /\ had'[p] = had[p] \cup {i}
      /\ \A q \in Projects \ {p} : had'[q] = had[q]
      /\ images' \subseteq Images
  BY <1>2 DEF IInv, TypeOK
<1> QED
  BY <1>1, <1>2, <1>3, <1>4, GotoKeeps DEF IInv, TypeOK, TodoInv

LEMMA BothImagesKeep ==
  ASSUME IInv, NEW p \in Projects, NEW d \in 0..Timeout, d <= left[p], BothImages(p, d)
  PROVE  IInv'
<1>1. /\ "core" \in Images /\ "app" \in Images
      /\ {"core", "coreBuild", "app", "appBuild", "up"} \subseteq Later
  BY DEF Images, Later
<1>2. pc[p] \in {"app", "appBuild"} => "core" \in had[p] /\ had[p] \cup {"app"} = Images
  BY DEF IInv, ImageInv, TypeOK, Images
<1>3. CASE ImageChecked(p, "core", d, "coreBuild", "app")
  BY <1>1, <1>3, ImageCheckedKeeps
<1>4. CASE Built(p, "core", d, "coreBuild", "app")
  BY <1>1, <1>4, BuiltKeeps
<1>5. CASE ImageChecked(p, "app", d, "appBuild", "up")
  <2>1. pc[p] = "app"
    BY <1>5 DEF ImageChecked
  <2> QED
    BY <1>1, <1>2, <1>5, <2>1, ImageCheckedKeeps
<1>6. CASE Built(p, "app", d, "appBuild", "up")
  <2>1. pc[p] = "appBuild"
    BY <1>6 DEF Built
  <2> QED
    BY <1>1, <1>2, <1>6, <2>1, BuiltKeeps
<1> QED
  BY <1>3, <1>4, <1>5, <1>6 DEF BothImages

LEMMA UpReturnsKeeps ==
  ASSUME IInv, NEW p \in Projects, NEW d \in 0..Timeout, UpReturns(p, d)
  PROVE  IInv'
<1>1. PICK result \in Results \ {"Collision"} : Ends(p, result)
  BY DEF UpReturns, Results
<1>2. pc[p] = "up" /\ UNCHANGED <<images, had>>
  BY DEF UpReturns
<1>3. CASE NetworkMade(p)
  <2> DEFINE nets == [networks EXCEPT ![p] = IF @ = NoNetwork THEN Configured[p] ELSE @]
  <2>1. nets \in [Names -> Subnets]
    BY PreflightAssumption DEF IInv, TypeOK, Names
  <2>2. Networks(nets)
    BY <1>3 DEF NetworkMade
  <2> HIDE DEF nets
  <2> QED
    BY <1>1, <1>2, <2>1, <2>2, NetworksKeep, EndsKeeps DEF IInv, TypeOK
<1>4. CASE UNCHANGED <<networks, standing, met>>
  BY <1>1, <1>2, <1>4, EndsAlone
<1> QED
  BY <1>3, <1>4 DEF UpReturns

LEMMA OthersKeep ==
  ASSUME IInv, OthersAct
  PROVE  IInv'
<1>1. CASE UNCHANGED <<networks, hostVars, standing, met, had>> /\ images' \subseteq images
  BY <1>1 DEF IInv, TypeOK, TodoInv, StandingInv, MetInv, ImageInv, CollisionIsForeign,
              hostVars, InTheWay, Clash, Later
<1>2. ASSUME NEW nets \in [Names -> Subnets], Networks(nets),
             UNCHANGED <<images, hostVars, had>>
      PROVE  IInv'
  <2>1. /\ networks' \in [Names -> Subnets]
        /\ standing' \in [Projects -> SUBSET Names]
        /\ met' \in [Projects -> SUBSET Names]
    BY <1>2, NetworksKeep
  <2>2. TypeOK'
    BY <1>2, <2>1 DEF IInv, TypeOK, hostVars
  <2>3. TodoInv' /\ ImageInv'
    BY <1>2 DEF IInv, TodoInv, ImageInv, hostVars
  <2>4. StandingInv'
    <3> SUFFICES ASSUME NEW q \in Projects
        PROVE  /\ pc'[q] = "inspect" => standing'[q] \cap InTheWay(q)' \subseteq todo'[q]
               /\ pc'[q] \in Later => standing'[q] \cap InTheWay(q)' = {}
      BY DEF StandingInv
    <3>1. /\ standing'[q] \subseteq standing[q]
          /\ standing'[q] \cap InTheWay(q)' = standing'[q] \cap InTheWay(q)
      BY <1>2, NetworksKeep
    <3> QED
      BY <1>2, <3>1 DEF IInv, StandingInv, hostVars
  <2>5. MetInv' /\ CollisionIsForeign'
    <3>1. \A q \in Projects :
            /\ met[q] \subseteq met'[q]
            /\ pc[q] \notin {"idle", "done"} => InTheWay(q)' \subseteq met'[q]
      BY <1>2, NetworksKeep
    <3>2. MetInv'
      <4> SUFFICES ASSUME NEW q \in Projects
          PROVE  /\ pc'[q] \notin {"idle", "done"} => InTheWay(q)' \subseteq met'[q]
                 /\ pc'[q] # "done" => outcome'[q] = "none"
        BY DEF MetInv
      <4> QED
        BY <1>2, <3>1 DEF IInv, MetInv, hostVars
    <3>3. CollisionIsForeign'
      BY <1>2, <3>1 DEF IInv, CollisionIsForeign, hostVars
    <3> QED
      BY <3>2, <3>3
  <2> QED
    BY <2>2, <2>3, <2>4, <2>5 DEF IInv
<1>3. ASSUME NEW n \in Names, NEW s \in Subnets
      PROVE  [networks EXCEPT ![n] = s] \in [Names -> Subnets]
  BY DEF IInv, TypeOK
<1>4. CASE /\ \E n \in Names, s \in Subnets : Networks([networks EXCEPT ![n] = s])
           /\ UNCHANGED <<images, hostVars, had>>
  BY <1>2, <1>3, <1>4
<1> QED
  BY <1>1, <1>4 DEF OthersAct

LEMMA NextKeepsIInv == IInv /\ [Next]_vars => IInv'
<1> SUFFICES ASSUME IInv, [Next]_vars PROVE IInv'
  OBVIOUS
<1>1. ASSUME NEW p \in Projects, NEW d \in 0..Timeout, Step(p, d)
      PROVE  IInv'
  <2>1. d <= left[p]
    BY <1>1 DEF Step, IInv, TypeOK
  <2> QED
    BY <1>1, <2>1, InformedKeeps, ListedKeeps, InspectedKeeps, BothImagesKeep, UpReturnsKeeps
       DEF Step
<1>2. CASE UNCHANGED vars
  BY <1>2 DEF vars, hostVars, IInv, TypeOK, TodoInv, StandingInv, MetInv, ImageInv,
              CollisionIsForeign, InTheWay, Clash, Later
<1> QED
  BY <1>1, <1>2, BeginKeeps, CallFailsKeeps, NoneLeftKeeps, OthersKeep DEF Next

LEMMA AlwaysIInv == Spec => []IInv
  BY InitIInv, NextKeepsIInv, PTL DEF Spec

-----------------------------------------------------------------------------
(* The variables of the preflight model keep their types; in particular the  *)
(* deadline that start() shares out among its calls never goes below zero.   *)
THEOREM TypeCorrect == Spec => []TypeOK
<1>1. IInv => TypeOK
  BY DEF IInv
<1> QED
  BY <1>1, AlwaysIInv, PTL

(* _check_subnet_collision overlooks none of the networks that were listed   *)
(* and stay, however many there are and whatever happens to the others.      *)
THEOREM NoneIsOverlooked == Spec => []StandingNetworksAreClear
<1>1. IInv => StandingNetworksAreClear
  BY DEF IInv, StandingInv, StandingNetworksAreClear, Later
<1> QED
  BY <1>1, AlwaysIInv, PTL

(* A collision is reported only if a network that is not the project's own   *)
(* was in the way during the start.                                          *)
THEOREM CollisionsAreForeign == Spec => []CollisionIsForeign
<1>1. IInv => CollisionIsForeign
  BY DEF IInv
<1> QED
  BY <1>1, AlwaysIInv, PTL

(* compose up is issued only by a start that has known both images to be     *)
(* there.                                                                    *)
THEOREM UpHasFoundBothImages == Spec => []UpFindsBothImages
<1>1. IInv => UpFindsBothImages
  BY DEF IInv, ImageInv, UpFindsBothImages
<1> QED
  BY <1>1, AlwaysIInv, PTL
================================================================================
