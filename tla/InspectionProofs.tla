--------------------------- MODULE InspectionProofs ---------------------------
(***************************************************************************)
(* Proofs about Inspection for any chains, forks and deadlines.  The       *)
(* invariant says what each request of the client leaves behind: whatever  *)
(* an answer said was so while it was watched, and whatever is wrong with  *)
(* a cookie is the trace of a server that was closed.                      *)
(***************************************************************************)
EXTENDS Inspection, TLAPS

(* The current cookie is that of the server that listens.                    *)
ServerInv ==
  /\ rpc = "closed" <=> cookie # "current"
  /\ rpc # "closed" => container = "up"

(* Who is where: the client lives within the run, and says how it exits last.*)
ControlInv ==
  /\ call # "none" => at = "run" /\ request <= Len(Methods[op])
  /\ call = "none" => file = "none" /\ creds = "none"
  /\ call = "none" /\ at # "done" => request = 1
  /\ category # "none" => call = "exited" \/ at = "done"
  /\ at # "done" => outcome = "none" /\ heard = "none"

(* What is so now has been seen.                                             *)
WitnessInv == at # "idle" => Glimpse \subseteq witness /\ ActiveBlocks \subseteq shown

(* A cookie file is replaced, and credentials go stale, only over a closed   *)
(* server.                                                                   *)
CookieInv == file = "other" \/ creds = "stale" => "closed" \in witness

(* The requests of an overview.                                              *)
OverviewInv ==
  /\ call # "none" /\ op = "node" /\ request = 2 => "version" \in witness
  /\ call = "body" => answer # "none" /\ (answer = "wrongNode" => "incompatible" \in witness)
  /\ call = "body" /\ op = "node" /\ answer = "ok" =>
       IF request = 1 THEN "version" \in witness ELSE "chain" \in witness

OneBlock == \E b \in Blocks : target = {b}
OneHeight == \E h \in 1..MaxHeight : target = {h} \X Forks

(* A height stands for all of its blocks until getblockhash has named one.   *)
TargetInv ==
  /\ at \in {"state", "run"} /\ call # "exited" =>
       /\ op = "hash" => OneBlock
       /\ op = "height" =>
            IF request = 2 \/ (call = "body" /\ answer = "ok") THEN OneBlock ELSE OneHeight
  /\ call = "body" /\ answer = "ok" /\ (op = "hash" \/ (op = "height" /\ request = 2)) =>
       target \subseteq shown /\ target # {}

(* How the client exits is backed.                                           *)
Backed(c) ==
  /\ c = "ok" /\ op = "node" => {"version", "chain"} \subseteq witness
  /\ c = "ok" /\ op \in {"hash", "height"} => target \subseteq shown /\ target # {}
  /\ c = "incompatible" => "incompatible" \in witness
  /\ c = "authentication" => "closed" \in witness

OutcomeInv ==
  outcome \in {"ok", "authentication", "incompatible"} => outcome = category

TimeInv ==
  /\ at = "idle" => spent = 0
  /\ at \in {"state", "run"} => spent + hleft <= Timeout
  /\ at = "done" => spent <= Timeout

IInv ==
  /\ TypeOK
  /\ ServerInv
  /\ ControlInv
  /\ WitnessInv
  /\ CookieInv
  /\ OverviewInv
  /\ TargetInv
  /\ Backed(category)
  /\ OutcomeInv
  /\ TimeInv
  /\ CategorySurvives

-----------------------------------------------------------------------------
LEMMA OperationsAre == DOMAIN Methods = {"node", "height", "hash", "mempool", "peers"}
  BY DEF Methods

LEMMA MethodsAre ==
  /\ Methods["node"] = <<"getnetworkinfo", "getblockchaininfo">>
  /\ Methods["height"] = <<"getblockhash", "getblock">>
  /\ Methods["hash"] = <<"getblock">>
  /\ Methods["mempool"] = <<"getmempoolinfo">>
  /\ Methods["peers"] = <<"getpeerinfo">>
  BY DEF Methods

LEMMA RequestsAre ==
  ASSUME NEW o \in DOMAIN Methods
  PROVE  /\ Len(Methods[o]) \in 1..2
         /\ o \in {"node", "height"} => Len(Methods[o]) = 2
         /\ o = "hash" => Len(Methods[o]) = 1
  BY OperationsAre, MethodsAre

LEMMA EnvelopeIs == Envelope = <<"envelope", "message">>
  BY DEF Envelope, Logged

LEMMA TicksAre == Ticks \subseteq Nat /\ 0 \in Ticks /\ Timeout \in Ticks
  BY TimeoutAssumption DEF Ticks

LEMMA InitIInv == Init => IInv
<1> SUFFICES ASSUME Init PROVE IInv
  OBVIOUS
<1>1. TypeOK
  <2>1. active \in Seq(Forks) /\ known \subseteq Blocks /\ op \in DOMAIN Methods
    BY OperationsAre DEF Init, ClientInit
  <2>2. cleft \in 0..ClientDeadline /\ hleft \in 0..Timeout
    BY ClientAssumption, TimeoutAssumption DEF Init, ClientInit
  <2>3. RuntimeTypeOK
    BY DEF Init, RuntimeInit, RuntimeTypeOK
  <2>4. ClientTypeOK
    BY <2>1, <2>2 DEF Init, ClientInit, ClientTypeOK, Answers, Categories
  <2> QED
    BY <2>2, <2>3, <2>4 DEF Init, TypeOK, Outcomes
<1>2. ServerInv
  BY DEF Init, RuntimeInit, RuntimeTypeOK, ServerInv
<1>3. /\ ControlInv /\ WitnessInv /\ CookieInv /\ OverviewInv /\ TargetInv
      /\ Backed(category) /\ OutcomeInv /\ CategorySurvives
  BY DEF Init, ClientInit, ControlInv, WitnessInv, CookieInv, OverviewInv, TargetInv,
         Backed, OutcomeInv, CategorySurvives
<1>4. TimeInv
  BY DEF Init, TimeInv
<1> QED
  BY <1>1, <1>2, <1>3, <1>4 DEF IInv

LEMMA BeginKeeps ==
  ASSUME IInv, NEW o \in DOMAIN Methods, BeginOn(o)
  PROVE  IInv'
<1>1. /\ at = "idle" /\ at' = "state" /\ call = "none" /\ call' = "none"
      /\ op' = o /\ target' \in Targets(o)
      /\ request' = 1 /\ category = "none" /\ outcome = "none" /\ heard = "none"
      /\ UNCHANGED <<runtimeVars, chainVars, outcome, heard, spent, cleft, file, creds,
                     answer, category>>
  BY DEF BeginOn, IInv, ControlInv
<1>2. target' \subseteq Blocks
  BY <1>1 DEF Targets, Blocks
<1>3. TypeOK'
  <2>1. hleft' \in 0..Timeout
    BY TimeoutAssumption DEF BeginOn
  <2>2. shown' \subseteq Blocks /\ witness' \subseteq FactNames /\ lacked' \in BOOLEAN
    BY DEF BeginOn, ActiveBlocks, Glimpse
  <2> QED
    BY <1>1, <1>2, <2>1, <2>2
       DEF IInv, TypeOK, ClientTypeOK, RuntimeTypeOK, runtimeVars, chainVars
<1>4. ServerInv' /\ ControlInv' /\ CookieInv' /\ OverviewInv' /\ OutcomeInv'
      /\ CategorySurvives' /\ Backed(category)'
  BY <1>1 DEF IInv, ServerInv, ControlInv, CookieInv, OverviewInv, OutcomeInv,
              CategorySurvives, Backed, runtimeVars
<1>5. WitnessInv'
  <2>1. Glimpse' = Glimpse
    BY <1>1 DEF Glimpse, Facts, runtimeVars
  <2>2. ActiveBlocks' = ActiveBlocks
    BY <1>1 DEF ActiveBlocks, IsActive, chainVars
  <2> QED
    BY <2>1, <2>2 DEF BeginOn, WitnessInv
<1>6. TargetInv'
  <2>1. o = "hash" => \E b \in Blocks : target' = {b}
    BY <1>1 DEF Targets
  <2>2. o = "height" => \E h \in 1..MaxHeight : target' = {h} \X Forks
    BY <1>1 DEF Targets
  <2> QED
    BY <1>1, <2>1, <2>2 DEF TargetInv, OneBlock, OneHeight
<1>7. TimeInv'
  BY <1>1, TimeoutAssumption DEF BeginOn, IInv, TimeInv
<1> QED
  BY <1>3, <1>4, <1>5, <1>6, <1>7 DEF IInv

-----------------------------------------------------------------------------
(* The host's steps.                                                         *)

LEMMA Unwatched ==
  ASSUME UNCHANGED <<runtimeVars, chainVars>>
  PROVE  Glimpse' = Glimpse /\ ActiveBlocks' = ActiveBlocks
  BY DEF Glimpse, Facts, ActiveBlocks, IsActive, runtimeVars, chainVars

LEMMA FinishKeeps ==
  ASSUME IInv, NEW d \in Ticks, d <= hleft, at \in {"state", "run"},
         NEW result \in Outcomes, Finish(result, d),
         result \in {"ok", "authentication", "incompatible"} => result = category,
         heard' \in {"none", "nothing", "lines"},
         heard' # "none" /\ category # "ok" =>
           result = category \/ (result = "unavailable" /\ heard' = "lines")
  PROVE  IInv'
<1>1. /\ at' = "done" /\ outcome' = result /\ hleft' = 0 /\ spent' = spent + d
      /\ call' = "none" /\ cleft' = 0 /\ file' = "none" /\ creds' = "none"
      /\ UNCHANGED <<op, target, request, answer, category>>
      /\ UNCHANGED <<runtimeVars, chainVars, historyVars>>
  BY DEF Finish
<1>2. spent \in Nat /\ hleft \in 0..Timeout /\ d \in Nat
  BY TicksAre DEF IInv, TypeOK
<1>3. TypeOK'
  <2>1. hleft' \in 0..Timeout /\ cleft' \in 0..ClientDeadline /\ spent' \in Nat
    BY <1>1, <1>2, TimeoutAssumption, ClientAssumption
  <2> QED
    BY <1>1, <2>1
       DEF IInv, TypeOK, ClientTypeOK, RuntimeTypeOK, runtimeVars, chainVars, historyVars
<1>4. ServerInv' /\ ControlInv' /\ CookieInv' /\ OverviewInv' /\ TargetInv'
      /\ Backed(category)'
  BY <1>1 DEF IInv, ServerInv, ControlInv, CookieInv, OverviewInv, TargetInv, Backed,
              runtimeVars, historyVars
<1>5. WitnessInv'
  BY <1>1, Unwatched DEF IInv, WitnessInv, historyVars
<1>6. OutcomeInv' /\ CategorySurvives'
  BY <1>1 DEF OutcomeInv, CategorySurvives
<1>7. TimeInv'
  <2>1. spent + hleft <= Timeout
    BY DEF IInv, TimeInv
  <2>2. spent + d <= Timeout
    BY <1>2, <2>1, TimeoutAssumption
  <2> QED
    BY <1>1, <2>2 DEF TimeInv
<1> QED
  BY <1>3, <1>4, <1>5, <1>6, <1>7 DEF IInv

(* What a step within the run, or into it, does to the host's own variables. *)
LEMMA WaitKeeps ==
  ASSUME IInv, NEW d \in Ticks, d <= hleft, at \in {"state", "run"}, Wait("run", d)
  PROVE  /\ at' = "run" /\ hleft' \in 0..Timeout /\ spent' \in Nat
         /\ UNCHANGED <<outcome, heard, runtimeVars, chainVars, historyVars>>
         /\ outcome = "none" /\ heard = "none"
         /\ ServerInv' /\ WitnessInv' /\ OutcomeInv' /\ CategorySurvives' /\ TimeInv'
<1>1. /\ at' = "run" /\ hleft' = hleft - d /\ spent' = spent + d
      /\ UNCHANGED <<outcome, heard, runtimeVars, chainVars, historyVars>>
  BY DEF Wait
<1>2. spent \in Nat /\ hleft \in 0..Timeout /\ d \in Nat
  BY TicksAre DEF IInv, TypeOK
<1>3. hleft' \in 0..Timeout /\ spent' \in Nat
  BY <1>1, <1>2, TimeoutAssumption
<1>4. outcome = "none" /\ heard = "none"
  BY DEF IInv, ControlInv
<1>5. ServerInv' /\ OutcomeInv' /\ CategorySurvives'
  BY <1>1, <1>4 DEF IInv, ServerInv, OutcomeInv, CategorySurvives, runtimeVars
<1>6. WitnessInv'
  BY <1>1, Unwatched DEF IInv, WitnessInv, historyVars
<1>7. TimeInv'
  <2>1. spent + hleft <= Timeout
    BY DEF IInv, TimeInv
  <2>2. spent' + hleft' <= Timeout
    BY <1>1, <1>2, <2>1, TimeoutAssumption
  <2> QED
    BY <1>1, <2>2 DEF TimeInv
<1> QED
  BY <1>1, <1>3, <1>4, <1>5, <1>6, <1>7

LEMMA ReportedIs ==
  ASSUME NEW added \in {"nothing", "lines"}, NEW r \in Reported(added),
         category \in Categories
  PROVE  /\ r \in Outcomes
         /\ r \in {"ok", "authentication", "incompatible"} => r = category
         /\ category # "ok" => r = category \/ (r = "unavailable" /\ added = "lines")
<1>1. Decoded(Envelope) = category
  BY EnvelopeIs DEF Decoded
<1>2. \A lines : Decoded(lines) \in {category, "unavailable"}
  BY DEF Decoded
<1>3. CASE category = "ok"
  BY <1>3 DEF Reported, Outcomes, Categories
<1>4. CASE category # "ok"
  <2>1. r \in {category, "unavailable"} /\ (added = "nothing" => r = category)
    BY <1>1, <1>2, <1>4 DEF Reported
  <2> QED
    BY <1>4, <2>1 DEF Outcomes, Categories
<1> QED
  BY <1>3, <1>4

LEMMA HostKeeps ==
  ASSUME IInv, NEW d \in Ticks, HostStep(d)
  PROVE  IInv'
<1> USE DEF Outcomes, Categories
<1>1. d <= hleft
  BY DEF HostStep
<1>2. heard \in {"none", "nothing", "lines"} /\ (at # "done" => heard = "none")
  BY DEF IInv, TypeOK, ControlInv
<1>3. CASE StateUnknown(d)
  BY <1>1, <1>2, <1>3, FinishKeeps DEF StateUnknown
<1>4. CASE StateQueried(d)
  <2>1. at = "state" /\ UNCHANGED heard
    BY <1>4 DEF StateQueried
  <2>2. CASE Finish("unavailable", d) \/ Finish("timeout", d)
    BY <1>1, <1>2, <2>1, <2>2, FinishKeeps
  <2>3. CASE Wait("run", d) /\ UNCHANGED clientVars
    <3>1. /\ at' = "run" /\ hleft' \in 0..Timeout /\ spent' \in Nat
          /\ UNCHANGED <<outcome, heard, runtimeVars, chainVars, historyVars>>
          /\ outcome = "none" /\ heard = "none"
          /\ ServerInv' /\ WitnessInv' /\ OutcomeInv' /\ CategorySurvives' /\ TimeInv'
      BY <1>1, <2>1, <2>3, WaitKeeps
    <3>2. UNCHANGED <<op, target, call, request, cleft, file, creds, answer, category>>
      BY <2>3 DEF clientVars
    <3>3. TypeOK'
      BY <3>1, <3>2 DEF IInv, TypeOK, ClientTypeOK, RuntimeTypeOK, runtimeVars, chainVars,
                        historyVars
    <3>4. ControlInv' /\ CookieInv' /\ OverviewInv' /\ TargetInv' /\ Backed(category)'
      BY <2>1, <3>1, <3>2 DEF IInv, ControlInv, CookieInv, OverviewInv, TargetInv, Backed,
                              OneBlock, OneHeight, historyVars
    <3> QED
      BY <3>1, <3>3, <3>4 DEF IInv
  <2> QED
    BY <1>4, <2>2, <2>3 DEF StateQueried
<1>5. CASE RunFails(d)
  BY <1>1, <1>2, <1>5, FinishKeeps DEF RunFails
<1>6. CASE RunTimesOut(d)
  BY <1>1, <1>2, <1>6, FinishKeeps DEF RunTimesOut
<1>7. CASE RunReturns(d)
  <2>1. at = "run" /\ heard' \in {"nothing", "lines"}
    BY <1>7 DEF RunReturns
  <2>2. PICK r \in Reported(heard') : Finish(r, d)
    BY <1>7 DEF RunReturns
  <2>3. category \in Categories
    BY DEF IInv, TypeOK, ClientTypeOK
  <2>4. /\ r \in Outcomes
        /\ r \in {"ok", "authentication", "incompatible"} => r = category
        /\ category # "ok" => r = category \/ (r = "unavailable" /\ heard' = "lines")
    BY <2>1, <2>2, <2>3, ReportedIs
  <2> QED
    BY <1>1, <2>1, <2>2, <2>4, FinishKeeps
<1> QED
  BY <1>3, <1>4, <1>5, <1>6, <1>7 DEF HostStep

-----------------------------------------------------------------------------
(* The client's steps, each of them a wait of the host's.                    *)

LEMMA ExitKeeps ==
  ASSUME IInv, NEW d \in Ticks, d <= hleft, at = "run", Wait("run", d),
         call \notin {"none", "exited"},
         NEW c \in Categories \ {"none"}, Exit(c), UNCHANGED answer, Backed(c)
  PROVE  IInv'
<1>1. /\ at' = "run" /\ hleft' \in 0..Timeout /\ spent' \in Nat
      /\ UNCHANGED <<outcome, heard, runtimeVars, chainVars, historyVars>>
      /\ outcome = "none" /\ heard = "none"
      /\ ServerInv' /\ WitnessInv' /\ OutcomeInv' /\ CategorySurvives' /\ TimeInv'
  BY WaitKeeps
<1>2. /\ call' = "exited" /\ category' = c /\ cleft' = 0 /\ file' = "none" /\ creds' = "none"
      /\ UNCHANGED <<op, target, request, answer>>
  BY DEF Exit
<1>3. TypeOK'
  <2>1. cleft' \in 0..ClientDeadline
    BY <1>2, ClientAssumption
  <2> QED
    BY <1>1, <1>2, <2>1 DEF IInv, TypeOK, ClientTypeOK, RuntimeTypeOK, runtimeVars, chainVars,
                            historyVars
<1>4. ControlInv' /\ CookieInv' /\ OverviewInv' /\ TargetInv' /\ Backed(category)'
  BY <1>1, <1>2 DEF IInv, ControlInv, CookieInv, OverviewInv, TargetInv, Backed, historyVars
<1> QED
  BY <1>1, <1>3, <1>4 DEF IInv

(* A step after which the client still goes on.                              *)
LEMMA GoesOnKeeps ==
  ASSUME IInv, NEW d \in Ticks, d <= hleft, at = "run", Wait("run", d),
         call # "exited", call' \in {"lstat", "open", "send", "body"},
         UNCHANGED <<op, category>>,
         target' \subseteq Blocks, request' \in 1..2, request' <= Len(Methods[op]),
         cleft' \in 0..ClientDeadline, file' \in {"none", "same", "other"},
         creds' \in {"none", "valid", "stale"}, answer' \in Answers,
         CookieInv', OverviewInv', TargetInv'
  PROVE  IInv'
<1>1. /\ at' = "run" /\ hleft' \in 0..Timeout /\ spent' \in Nat
      /\ UNCHANGED <<outcome, heard, runtimeVars, chainVars, historyVars>>
      /\ outcome = "none" /\ heard = "none"
      /\ ServerInv' /\ WitnessInv' /\ OutcomeInv' /\ CategorySurvives' /\ TimeInv'
  BY WaitKeeps
<1>2. category = "none"
  BY DEF IInv, ControlInv
<1>3. TypeOK'
  BY <1>1 DEF IInv, TypeOK, ClientTypeOK, RuntimeTypeOK, runtimeVars, chainVars, historyVars
<1>4. ControlInv' /\ Backed(category)'
  BY <1>1, <1>2 DEF ControlInv, Backed
<1> QED
  BY <1>1, <1>3, <1>4 DEF IInv

LEMMA RunStartsKeeps ==
  ASSUME IInv, NEW d \in Ticks, RunStarts(d)
  PROVE  IInv'
<1>1. /\ at = "run" /\ d < hleft /\ Wait("run", d) /\ call = "none" /\ call' = "lstat"
      /\ cleft' = ClientDeadline
      /\ UNCHANGED <<op, target, request, file, creds, answer, category>>
  BY DEF RunStarts, ClientStarts
<1>2. d <= hleft
  BY <1>1, TicksAre DEF IInv, TypeOK
<1>3. historyVars' = historyVars /\ at' = "run"
  BY <1>1 DEF Wait
<1>4. cleft' \in 0..ClientDeadline
  BY <1>1, ClientAssumption
<1>5. request = 1
  BY <1>1 DEF IInv, ControlInv
<1>6. 1 <= Len(Methods[op])
  <2>1. op \in DOMAIN Methods
    BY DEF IInv, TypeOK, ClientTypeOK
  <2>2. Len(Methods[op]) \in 1..2
    BY <2>1, RequestsAre
  <2> QED
    BY <2>2
<1>7. CookieInv' /\ OverviewInv' /\ TargetInv'
  BY <1>1, <1>3, <1>5 DEF IInv, CookieInv, OverviewInv, TargetInv, OneBlock, OneHeight,
                          historyVars
<1> QED
  BY <1>1, <1>2, <1>4, <1>5, <1>6, <1>7, GoesOnKeeps DEF IInv, TypeOK, ClientTypeOK

LEMMA CookieLookedKeeps ==
  ASSUME IInv, NEW d \in Ticks, d <= hleft, at = "run", Wait("run", d), CookieLooked(d)
  PROVE  IInv'
<1>1. call = "lstat" /\ at' = "run" /\ historyVars' = historyVars
  BY DEF CookieLooked, Wait
<1>2. CASE cookie = "absent" /\ Exit("authentication") /\ UNCHANGED answer
  <2>1. "closed" \in witness
    BY <1>2 DEF IInv, ServerInv, WitnessInv, Glimpse, FactNames
  <2> QED
    BY <1>1, <1>2, <2>1, ExitKeeps DEF Backed, Categories
<1>3. CASE /\ call' = "open" /\ file' = "same"
           /\ UNCHANGED <<op, target, request, cleft, creds, answer, category>>
  <2>1. CookieInv' /\ OverviewInv' /\ TargetInv'
    BY <1>1, <1>3 DEF IInv, CookieInv, OverviewInv, TargetInv, OneBlock, OneHeight, historyVars
  <2>2. request <= Len(Methods[op])
    BY <1>1 DEF IInv, ControlInv
  <2> QED
    BY <1>1, <1>3, <2>1, <2>2, GoesOnKeeps DEF IInv, TypeOK, ClientTypeOK
<1> QED
  BY <1>2, <1>3 DEF CookieLooked

LEMMA CookieOpenedKeeps ==
  ASSUME IInv, NEW d \in Ticks, d <= hleft, at = "run", Wait("run", d),
         NEW e \in Nat, CookieOpened(e)
  PROVE  IInv'
<1>1. call = "open" /\ at' = "run" /\ historyVars' = historyVars /\ UNCHANGED answer
  BY DEF CookieOpened, Wait
<1>2. rpc = "closed" => "closed" \in witness
  BY DEF IInv, WitnessInv, Glimpse, FactNames
<1>3. cookie # "current" => "closed" \in witness
  BY <1>2 DEF IInv, ServerInv
<1>4. CASE /\ cookie = "absent" \/ file = "other" \/ rpc = "closed"
           /\ Exit("authentication")
  <2>1. "closed" \in witness
    BY <1>2, <1>3, <1>4 DEF IInv, CookieInv
  <2> QED
    BY <1>1, <1>4, <2>1, ExitKeeps DEF Backed, Categories
<1>5. CASE Exit("timeout")
  BY <1>1, <1>5, ExitKeeps DEF Backed, Categories
<1>6. CASE /\ e < cleft
           /\ call' = "send"
           /\ cleft' = cleft - e
           /\ file' = "none"
           /\ creds' = IF cookie = "current" THEN "valid" ELSE "stale"
           /\ UNCHANGED <<op, target, request, category>>
  <2>1. cleft' \in 0..ClientDeadline
    BY <1>6, ClientAssumption DEF IInv, TypeOK, ClientTypeOK
  <2>2. CookieInv' /\ OverviewInv' /\ TargetInv'
    BY <1>1, <1>3, <1>6 DEF IInv, CookieInv, OverviewInv, TargetInv, OneBlock, OneHeight,
                            historyVars
  <2>3. request <= Len(Methods[op])
    BY <1>1 DEF IInv, ControlInv
  <2> QED
    BY <1>1, <1>6, <2>1, <2>2, <2>3, GoesOnKeeps DEF IInv, TypeOK, ClientTypeOK
<1> QED
  BY <1>4, <1>5, <1>6 DEF CookieOpened

(* What bitcoind answers is so while it answers.                             *)
LEMMA ExecutionIs ==
  ASSUME RuntimeTypeOK, Glimpse \subseteq witness, rpc # "closed",
         op \in DOMAIN Methods, request \in 1..Len(Methods[op]), NEW a \in Execution
  PROVE  /\ a \in Answers \ {"none"}
         /\ a = "wrongNode" => "incompatible" \in witness
         /\ Method = "getnetworkinfo" /\ a = "ok" => "version" \in witness
         /\ Method = "getblockchaininfo" /\ a = "ok" => "chain" \in witness
         /\ Method \in {"getblockhash", "getblock"} /\ a = "ok" =>
              \E b \in target : IsActive(b)
<1>1. rpc \in {"warming", "ready"}
  BY DEF RuntimeTypeOK
<1>2. CASE rpc = "warming"
  BY <1>2 DEF Execution, Answers
<1>3. CASE rpc = "ready"
  <2>1. /\ image # "wrongVersion" => "version" \in witness
        /\ image # "wrongChain" => "chain" \in witness
        /\ image \in {"wrongVersion", "wrongChain"} => "incompatible" \in witness
    BY <1>3 DEF Glimpse, FactNames, Facts
  <2>2. Method \in {"getnetworkinfo", "getblockchaininfo", "getblockhash", "getblock",
                    "getmempoolinfo", "getpeerinfo"}
    BY OperationsAre, MethodsAre DEF Method
  <2>3. CASE Method = "getnetworkinfo"
    <3>1. a = IF image = "wrongVersion" THEN "wrongNode" ELSE "ok"
      BY <1>3, <2>3 DEF Execution
    <3> QED
      BY <2>1, <2>3, <3>1 DEF Answers
  <2>4. CASE Method = "getblockchaininfo"
    <3>1. a = IF image = "wrongChain" THEN "wrongNode" ELSE "ok"
      BY <1>3, <2>4 DEF Execution
    <3> QED
      BY <2>1, <2>4, <3>1 DEF Answers
  <2>5. CASE Method = "getblockhash"
    <3>1. a = IF \E b \in target : IsActive(b) THEN "ok" ELSE "outOfRange"
      BY <1>3, <2>5 DEF Execution
    <3> QED
      BY <2>5, <3>1 DEF Answers
  <2>6. CASE Method = "getblock"
    <3>1. a = IF target \cap known = {} THEN "unknownBlock"
              ELSE IF \E b \in target : IsActive(b) THEN "ok" ELSE "staleBlock"
      BY <1>3, <2>6 DEF Execution
    <3> QED
      BY <2>6, <3>1 DEF Answers
  <2>7. CASE Method = "getmempoolinfo"
    <3>1. a = "ok"
      BY <1>3, <2>7 DEF Execution
    <3> QED
      BY <2>7, <3>1 DEF Answers
  <2>8. CASE Method = "getpeerinfo"
    <3>1. a \in {"ok", "unfitPeers"}
      BY <1>3, <2>8 DEF Execution
    <3> QED
      BY <2>8, <3>1 DEF Answers
  <2> QED
    BY <2>2, <2>3, <2>4, <2>5, <2>6, <2>7, <2>8
<1> QED
  BY <1>1, <1>2, <1>3

(* At most one block of a height is on the best chain.                       *)
LEMMA OneActive ==
  ASSUME NEW h \in 1..MaxHeight, NEW b \in {h} \X Forks, NEW c \in {h} \X Forks,
         IsActive(b), IsActive(c)
  PROVE  b = c
  BY DEF IsActive

LEMMA AnsweredKeeps ==
  ASSUME IInv, NEW d \in Ticks, d <= hleft, at = "run", Wait("run", d),
         NEW e \in Nat, Answered(e)
  PROVE  IInv'
<1>1. call = "send" /\ at' = "run" /\ historyVars' = historyVars
  BY DEF Answered, Wait
<1>2. CASE (Exit("unavailable") \/ Exit("timeout")) /\ UNCHANGED answer
  BY <1>1, <1>2, ExitKeeps DEF Backed, Categories
<1>3. CASE Refused /\ Exit("authentication") /\ UNCHANGED answer
  <2>1. "closed" \in witness
    BY <1>3 DEF Refused, IInv, CookieInv
  <2> QED
    BY <1>1, <1>3, <2>1, ExitKeeps DEF Backed, Categories
<1>4. CASE /\ rpc # "closed"
           /\ e < cleft
           /\ answer' \in Execution
           /\ target' = Resolved(answer')
           /\ call' = "body"
           /\ cleft' = cleft - e
           /\ UNCHANGED <<op, request, file, creds, category>>
  <2>1. /\ answer' \in Answers \ {"none"}
        /\ answer' = "wrongNode" => "incompatible" \in witness
        /\ Method = "getnetworkinfo" /\ answer' = "ok" => "version" \in witness
        /\ Method = "getblockchaininfo" /\ answer' = "ok" => "chain" \in witness
        /\ Method \in {"getblockhash", "getblock"} /\ answer' = "ok" =>
             \E b \in target : IsActive(b)
    <3>1. op \in DOMAIN Methods /\ request \in 1..2 /\ request <= Len(Methods[op])
      BY <1>1 DEF IInv, TypeOK, ClientTypeOK, ControlInv
    <3>2. request \in 1..Len(Methods[op])
      BY <3>1, RequestsAre
    <3>3. Glimpse \subseteq witness /\ RuntimeTypeOK
      BY DEF IInv, WitnessInv, TypeOK
    <3> QED
      BY <1>4, <3>1, <3>2, <3>3, ExecutionIs
  <2>2. cleft' \in 0..ClientDeadline
    BY <1>4, ClientAssumption DEF IInv, TypeOK, ClientTypeOK
  <2>3. target' \subseteq target /\ target \subseteq Blocks
    BY <1>4 DEF Resolved, IInv, TypeOK, ClientTypeOK
  <2>4. op \in DOMAIN Methods /\ request \in 1..2 /\ request <= Len(Methods[op])
    BY <1>1 DEF IInv, TypeOK, ClientTypeOK, ControlInv
  <2>5. CookieInv'
    BY <1>1, <1>4 DEF IInv, CookieInv, historyVars
  <2>6. OverviewInv'
    <3>1. op = "node" => Method = IF request = 1 THEN "getnetworkinfo" ELSE "getblockchaininfo"
      BY <2>4, MethodsAre DEF Method
    <3>2. op = "node" /\ request = 2 => "version" \in witness
      BY <1>1 DEF IInv, OverviewInv
    <3> QED
      BY <1>1, <1>4, <2>1, <2>4, <3>1, <3>2 DEF OverviewInv, historyVars
  <2>7. TargetInv'
    <3>1. CASE op = "hash"
      <4>1. request = 1 /\ Method = "getblock"
        BY <2>4, <3>1, RequestsAre, MethodsAre DEF Method
      <4>2. target' = target
        BY <1>4, <4>1 DEF Resolved
      <4>3. PICK b \in Blocks : target = {b}
        BY <1>1, <3>1 DEF IInv, TargetInv, OneBlock
      <4>4. answer' = "ok" => IsActive(b)
        BY <2>1, <4>1, <4>3
      <4>5. answer' = "ok" => b \in shown
        BY <4>4 DEF IInv, WitnessInv, ActiveBlocks
      <4> QED
        BY <1>1, <1>4, <3>1, <4>2, <4>3, <4>5 DEF TargetInv, OneBlock, historyVars
    <3>2. CASE op = "height" /\ request = 2
      <4>1. Method = "getblock"
        BY <3>2, MethodsAre DEF Method
      <4>2. target' = target
        BY <1>4, <4>1 DEF Resolved
      <4>3. PICK b \in Blocks : target = {b}
        BY <1>1, <3>2 DEF IInv, TargetInv, OneBlock
      <4>4. answer' = "ok" => IsActive(b)
        BY <2>1, <4>1, <4>3
      <4>5. answer' = "ok" => b \in shown
        BY <4>4 DEF IInv, WitnessInv, ActiveBlocks
      <4> QED
        BY <1>1, <1>4, <3>2, <4>2, <4>3, <4>5 DEF TargetInv, OneBlock, historyVars
    <3>3. CASE op = "height" /\ request = 1
      <4>1. Method = "getblockhash"
        BY <3>3, MethodsAre DEF Method
      <4>2. PICK h \in 1..MaxHeight : target = {h} \X Forks
        BY <1>1, <3>3 DEF IInv, TargetInv, OneHeight
      <4>3. CASE answer' = "ok"
        <5>1. PICK b \in target : IsActive(b)
          BY <2>1, <4>1, <4>3
        <5>2. target' = {c \in target : IsActive(c)}
          BY <1>4, <4>1, <4>3 DEF Resolved
        <5>3. target' = {b}
          BY <4>2, <5>1, <5>2, OneActive
        <5> QED
          BY <1>1, <1>4, <2>3, <3>3, <4>3, <5>1, <5>3 DEF TargetInv, OneBlock
      <4>4. CASE answer' # "ok"
        <5>1. target' = target
          BY <1>4, <4>4 DEF Resolved
        <5> QED
          BY <1>1, <1>4, <3>3, <4>2, <4>4, <5>1 DEF TargetInv, OneHeight
      <4> QED
        BY <4>3, <4>4
    <3>4. CASE op \notin {"hash", "height"}
      BY <1>4, <3>4 DEF TargetInv
    <3> QED
      BY <2>4, <3>1, <3>2, <3>3, <3>4
  <2> QED
    BY <1>1, <1>4, <2>1, <2>2, <2>3, <2>4, <2>5, <2>6, <2>7, GoesOnKeeps
       DEF IInv, TypeOK, ClientTypeOK
<1> QED
  BY <1>2, <1>3, <1>4 DEF Answered

LEMMA CategoriesAre ==
  ASSUME NEW a \in Answers \ {"none"}
  PROVE  /\ CategoryOf(a) \in Categories \ {"none", "authentication"}
         /\ CategoryOf(a) = "ok" <=> a = "ok"
         /\ CategoryOf(a) = "incompatible" <=> a = "wrongNode"
<1>1. CASE a = "ok"
  BY <1>1 DEF CategoryOf, Categories
<1>2. CASE a = "wrongNode"
  <2>1. CategoryOf(a) = "incompatible"
    BY <1>2 DEF CategoryOf
  <2> QED
    BY <1>2, <2>1 DEF Categories
<1>3. CASE a = "unknownBlock"
  <2>1. CategoryOf(a) = "not_found"
    BY <1>3 DEF CategoryOf
  <2> QED
    BY <1>3, <2>1 DEF Categories
<1>4. CASE a \in {"staleBlock", "unfitPeers", "warming", "outOfRange"}
  <2>1. CategoryOf(a) = "malformed_response"
    BY <1>4 DEF CategoryOf
  <2> QED
    BY <1>4, <2>1 DEF Categories
<1> QED
  BY <1>1, <1>2, <1>3, <1>4 DEF Answers

LEMMA BodyReadKeeps ==
  ASSUME IInv, NEW d \in Ticks, d <= hleft, at = "run", Wait("run", d),
         NEW e \in Nat, BodyRead(e)
  PROVE  IInv'
<1>1. call = "body" /\ at' = "run" /\ historyVars' = historyVars /\ UNCHANGED answer
  BY DEF BodyRead, Wait
<1>2. answer \in Answers \ {"none"}
  BY <1>1 DEF IInv, TypeOK, ClientTypeOK, OverviewInv
<1>3. op \in DOMAIN Methods /\ request \in 1..2 /\ request <= Len(Methods[op])
  BY <1>1 DEF IInv, TypeOK, ClientTypeOK, ControlInv
<1>4. /\ CategoryOf(answer) \in Categories \ {"none", "authentication"}
      /\ CategoryOf(answer) = "ok" <=> answer = "ok"
      /\ CategoryOf(answer) = "incompatible" <=> answer = "wrongNode"
  BY <1>2, CategoriesAre
<1>5. CASE Exit("unavailable") \/ Exit("malformed_response") \/ Exit("timeout")
  BY <1>1, <1>5, ExitKeeps DEF Backed, Categories
<1>6. CASE CategoryOf(answer) # "ok" /\ Exit(CategoryOf(answer))
  <2>1. Backed(CategoryOf(answer))
    BY <1>1, <1>4, <1>6 DEF Backed, IInv, OverviewInv
  <2> QED
    BY <1>1, <1>4, <1>6, <2>1, ExitKeeps
<1>7. CASE /\ CategoryOf(answer) = "ok"
           /\ request = Len(Methods[op])
           /\ Exit("ok")
  <2>1. op \in {"node", "height"} => request = 2
    BY <1>3, <1>7, RequestsAre
  <2>2. request = 2 => request # 1
    OBVIOUS
  <2>3. op = "node" => {"version", "chain"} \subseteq witness
    BY <1>1, <1>4, <1>7, <2>1, <2>2 DEF IInv, OverviewInv
  <2>4. op \in {"hash", "height"} => target \subseteq shown /\ target # {}
    BY <1>1, <1>4, <1>7, <2>1 DEF IInv, TargetInv
  <2>5. Backed("ok")
    BY <2>3, <2>4 DEF Backed
  <2> QED
    BY <1>1, <1>7, <2>5, ExitKeeps DEF Categories
<1>8. CASE /\ e < cleft
           /\ CategoryOf(answer) = "ok"
           /\ request < Len(Methods[op])
           /\ request' = request + 1
           /\ call' = "lstat"
           /\ cleft' = cleft - e
           /\ creds' = "none"
           /\ UNCHANGED <<op, target, file, category>>
  <2>1. Len(Methods[op]) \in 1..2
    BY <1>3, RequestsAre
  <2>2. request = 1 /\ request' = 2 /\ request' <= Len(Methods[op]) /\ op # "hash"
    <3>1. op = "hash" => Len(Methods[op]) = 1
      BY <1>3, RequestsAre
    <3> DEFINE requests == Len(Methods[op])
    <3>2. requests \in 1..2 /\ request \in 1..2 /\ request < requests /\ request' = request + 1
      BY <1>3, <1>8, <2>1
    <3> HIDE DEF requests
    <3>3. request = 1 /\ request' = 2 /\ requests = 2
      BY <3>2
    <3> QED
      BY <3>1, <3>3 DEF requests
  <2>3. cleft' \in 0..ClientDeadline
    BY <1>8, ClientAssumption DEF IInv, TypeOK, ClientTypeOK
  <2>4. CookieInv' /\ OverviewInv'
    BY <1>1, <1>4, <1>8, <2>2 DEF IInv, CookieInv, OverviewInv, historyVars
  <2>5. TargetInv'
    BY <1>1, <1>4, <1>8, <2>2 DEF IInv, TargetInv, OneBlock
  <2> QED
    BY <1>1, <1>8, <2>2, <2>3, <2>4, <2>5, GoesOnKeeps DEF IInv, TypeOK, ClientTypeOK
<1> QED
  BY <1>5, <1>6, <1>7, <1>8 DEF BodyRead

LEMMA RunGoesOnKeeps ==
  ASSUME IInv, NEW d \in Ticks, RunGoesOn(d)
  PROVE  IInv'
<1>1. at = "run" /\ d < hleft /\ Wait("run", d)
  BY DEF RunGoesOn
<1>2. d \in Nat /\ d <= hleft
  BY <1>1, TicksAre DEF IInv, TypeOK
<1>3. CASE ClientStep(d)
  BY <1>1, <1>2, <1>3, CookieLookedKeeps, CookieOpenedKeeps, AnsweredKeeps, BodyReadKeeps
     DEF ClientStep
<1>4. CASE ClientBreaks
  BY <1>1, <1>2, <1>4, ExitKeeps DEF ClientBreaks, Backed, Categories
<1> QED
  BY <1>3, <1>4 DEF RunGoesOn

-----------------------------------------------------------------------------
(* The node's own moves.                                                     *)

LEMMA NodeMovesAre ==
  ASSUME ServerInv, RuntimeTypeOK, active \in Seq(Forks), known \subseteq Blocks,
         NEW watched \in BOOLEAN, NodeMoves(watched)
  PROVE  /\ RuntimeTypeOK' /\ active' \in Seq(Forks) /\ known' \subseteq Blocks
         /\ ServerInv'
         /\ cookie' # cookie /\ cookie' # "stale" => rpc = "closed" \/ rpc' = "closed"
<1>1. ASSUME Listen \/ WarmedUp \/ Crash \/ Restart \/ Killed \/ Halt \/ \E img \in Images : Boot(img)
      PROVE  /\ RuntimeTypeOK' /\ ServerInv'
             /\ cookie' # cookie /\ cookie' # "stale" => rpc = "closed" \/ rpc' = "closed"
  <2>1. CASE Listen
    BY <2>1 DEF Listen, ServerInv, RuntimeTypeOK
  <2>2. CASE WarmedUp
    BY <2>2 DEF WarmedUp, ServerInv, RuntimeTypeOK
  <2>3. CASE Crash \/ Killed
    BY <2>3 DEF Crash, Killed, Dies, ServerInv, RuntimeTypeOK
  <2>4. CASE Restart
    BY <2>4 DEF Restart, ServerInv, RuntimeTypeOK
  <2>5. CASE Halt
    BY <2>5 DEF Halt, ServerInv, RuntimeTypeOK
  <2>6. CASE \E img \in Images : Boot(img)
    BY <2>6 DEF Boot, ServerInv, RuntimeTypeOK
  <2> QED
    BY <1>1, <2>1, <2>2, <2>3, <2>4, <2>5, <2>6
<1>2. CASE UNCHANGED chainVars
  BY <1>1, <1>2 DEF NodeMoves, TipChanges, runtimeVars, chainVars,
     ServerInv, RuntimeTypeOK
<1>3. CASE TipChanges /\ UNCHANGED runtimeVars
  <2>1. PICK h \in 0..Len(active), f \in Forks :
          /\ h < MaxHeight
          /\ active' = Append(SubSeq(active, 1, h), f)
          /\ known' = known \cup {<<h + 1, f>>}
    BY <1>3 DEF TipChanges
  <2>2. active' \in Seq(Forks)
    BY <2>1
  <2>3. <<h + 1, f>> \in Blocks
    BY <2>1, ClientAssumption DEF Blocks
  <2>4. RuntimeTypeOK' /\ ServerInv' /\ cookie' = cookie
    BY <1>3 DEF runtimeVars, RuntimeTypeOK, ServerInv
  <2> QED
    BY <2>1, <2>2, <2>3, <2>4
<1> QED
  BY <1>2, <1>3 DEF NodeMoves

LEMMA NodeMovesKeep ==
  ASSUME IInv, at # "done", NodeMoves(at # "idle")
  PROVE  IInv'
<1>1. /\ RuntimeTypeOK' /\ active' \in Seq(Forks) /\ known' \subseteq Blocks
      /\ ServerInv'
      /\ cookie' # cookie /\ cookie' # "stale" => rpc = "closed" \/ rpc' = "closed"
  BY NodeMovesAre DEF IInv, TypeOK, ClientTypeOK
<1>2. /\ shown' = IF at # "idle" THEN shown \cup ActiveBlocks' ELSE shown
      /\ witness' = IF at # "idle" THEN witness \cup Glimpse' ELSE witness
      /\ file' = IF file = "same" /\ cookie' # cookie /\ cookie' # "stale" THEN "other" ELSE file
      /\ creds' = IF creds = "valid" /\ rpc' = "closed" THEN "stale" ELSE creds
      /\ UNCHANGED <<op, target, call, request, cleft, answer, category>>
      /\ UNCHANGED <<at, hleft, outcome, heard, spent, lacked>>
  BY DEF NodeMoves, NodeChanges
<1>3. witness \subseteq witness' /\ shown \subseteq shown'
  BY <1>2
<1>4. TypeOK'
  <2>1. shown' \subseteq Blocks /\ witness' \subseteq FactNames
    BY <1>2 DEF ActiveBlocks, Glimpse, IInv, TypeOK
  <2> QED
    BY <1>1, <1>2, <2>1 DEF IInv, TypeOK, ClientTypeOK
<1>5. ControlInv' /\ OutcomeInv' /\ TimeInv' /\ CategorySurvives'
  BY <1>2 DEF IInv, ControlInv, OutcomeInv, TimeInv, CategorySurvives
<1>6. WitnessInv'
  BY <1>2 DEF WitnessInv
<1>7. CookieInv'
  <2>1. CASE at = "idle"
    BY <1>2, <2>1 DEF IInv, ControlInv, CookieInv
  <2>2. CASE at # "idle"
    <3>1. rpc = "closed" => "closed" \in witness'
      BY <1>3, <2>2 DEF IInv, WitnessInv, Glimpse, FactNames
    <3>2. rpc' = "closed" => "closed" \in witness'
      BY <1>2, <2>2 DEF Glimpse, FactNames
    <3> QED
      BY <1>1, <1>2, <1>3, <3>1, <3>2 DEF IInv, CookieInv
  <2> QED
    BY <2>1, <2>2
<1>8. OverviewInv' /\ Backed(category)'
  BY <1>2, <1>3 DEF IInv, OverviewInv, Backed
<1>9. TargetInv'
  BY <1>2, <1>3 DEF IInv, TargetInv, OneBlock, OneHeight
<1> QED
  BY <1>1, <1>4, <1>5, <1>6, <1>7, <1>8, <1>9 DEF IInv

LEMMA NextKeepsIInv == IInv /\ [Next]_vars => IInv'
<1> SUFFICES ASSUME IInv, [Next]_vars PROVE IInv'
  OBVIOUS
<1>1. CASE Begin
  BY <1>1, BeginKeeps DEF Begin
<1>2. CASE UNCHANGED vars
  <2>1. /\ UNCHANGED <<container, rpc, cookie, image, active, known>>
        /\ UNCHANGED <<op, target, call, request, cleft, file, creds, answer, category>>
        /\ UNCHANGED <<at, hleft, outcome, heard, spent, shown, witness, lacked>>
    BY <1>2 DEF vars, runtimeVars, chainVars, clientVars, historyVars
  <2>2. Glimpse' = Glimpse /\ ActiveBlocks' = ActiveBlocks
    BY <2>1 DEF Glimpse, Facts, ActiveBlocks, IsActive
  <2>3. TypeOK' /\ ServerInv' /\ ControlInv' /\ WitnessInv' /\ CookieInv'
    BY <2>1, <2>2 DEF IInv, TypeOK, ClientTypeOK, RuntimeTypeOK, ServerInv, ControlInv,
                      WitnessInv, CookieInv
  <2>4. OverviewInv' /\ TargetInv' /\ Backed(category)' /\ OutcomeInv' /\ TimeInv'
        /\ CategorySurvives'
    BY <2>1 DEF IInv, OverviewInv, TargetInv, OneBlock, OneHeight, Backed, OutcomeInv,
                TimeInv, CategorySurvives
  <2> QED
    BY <2>3, <2>4 DEF IInv
<1> QED
  BY <1>1, <1>2, HostKeeps, RunStartsKeeps, RunGoesOnKeeps, NodeMovesKeep DEF Next

LEMMA AlwaysIInv == Spec => []IInv
  BY InitIInv, NextKeepsIInv, PTL DEF Spec

-----------------------------------------------------------------------------
(* The variables of an inspection keep their types; neither the host's       *)
(* deadline nor the client's goes below zero.                                *)
THEOREM TypeCorrect == Spec => []TypeOK
<1>1. IInv => TypeOK
  BY DEF IInv
<1> QED
  BY <1>1, AlwaysIInv, PTL

(* get_block: whatever reorganisations come between its two requests, and on *)
(* chains of any height, the block shown was on the best chain.              *)
THEOREM BlockReallyWasActive == Spec => []BlockWasActive
<1>1. IInv => BlockWasActive
  BY DEF IInv, BlockWasActive, OutcomeInv, Backed
<1> QED
  BY <1>1, AlwaysIInv, PTL

(* get_node_overview: each half of an overview was true of a node that       *)
(* served during the command, and so was an incompatibility.                 *)
THEOREM OverviewReallyIsBacked == Spec => []OverviewIsBacked
<1>1. IInv => OverviewIsBacked
  BY DEF IInv, OverviewIsBacked, OutcomeInv, Backed
<1> QED
  BY <1>1, AlwaysIInv, PTL

(* _read_cookie_header and a 401: every failure of authentication was a      *)
(* moment at which the node did not serve.                                   *)
THEOREM AuthenticationReallyMeansRestart == Spec => []AuthenticationMeansRestart
<1>1. IInv => AuthenticationMeansRestart
  BY DEF IInv, AuthenticationMeansRestart, OutcomeInv, Backed
<1> QED
  BY <1>1, AlwaysIInv, PTL

(* _run_delegated_inspection: a category is lost only to lines of Compose's. *)
THEOREM CategoryAlwaysSurvives == Spec => []CategorySurvives
<1>1. IInv => CategorySurvives
  BY DEF IInv
<1> QED
  BY <1>1, AlwaysIInv, PTL

(* _run_delegated_inspection and the state query before it share one         *)
(* deadline, whatever it is.                                                 *)
THEOREM AlwaysWithinDeadline == Spec => []WithinDeadline
<1>1. IInv => WithinDeadline
  <2>1. ASSUME IInv PROVE spent <= Timeout
    <3>1. at \in {"idle", "state", "run", "done"} /\ spent \in Nat /\ hleft \in Nat
      BY <2>1, TimeoutAssumption DEF IInv, TypeOK
    <3> QED
      BY <2>1, <3>1, TimeoutAssumption DEF IInv, TimeInv
  <2> QED
    BY <2>1 DEF WithinDeadline
<1> QED
  BY <1>1, AlwaysIInv, PTL

-----------------------------------------------------------------------------
(* Inspection implements InspectionContract.                                 *)

(* What an inspection by hash, and one by height, knows of the block.  Blocks *)
(* are never forgotten, so what the node has none of now it lacked from the  *)
(* start.                                                                    *)
KnownInv ==
  /\ ActiveBlocks \subseteq known
  /\ at # "idle" /\ op = "hash" /\ target \cap known = {} => lacked
  /\ at = "run" /\ op = "height" /\ (request = 2 \/ (call = "body" /\ answer = "ok")) =>
       target \subseteq known

(* Which operation an answer belongs to; a client that exits says how.       *)
AnswerInv ==
  /\ call = "body" =>
       /\ answer = "wrongNode" => op = "node"
       /\ answer = "unknownBlock" => op = "hash" /\ lacked
  /\ call = "exited" => category # "none"

(* How the client exits is within the contract.                              *)
Due(c) ==
  /\ c = "ok" /\ op \in {"hash", "height"} => OneBlock
  /\ c = "incompatible" => op = "node"
  /\ c = "not_found" => op = "hash" /\ lacked

PromiseInv == KnownInv /\ AnswerInv /\ Due(category)

(* What the contract sees of a step that is none of its own.                 *)
Unseen ==
  UNCHANGED <<Glimpse, ActiveBlocks, known, op, Asked, Stage, witness, shown, lacked, outcome,
              Returned>>

LEMMA InitPromise == Init => PromiseInv /\ Contract!Init
<1> SUFFICES ASSUME Init PROVE PromiseInv /\ Contract!Init
  OBVIOUS
<1>1. ActiveBlocks = {}
  <2>1. active = <<>>
    BY DEF Init, ClientInit
  <2>2. \A b \in Blocks : ~IsActive(b)
    BY <2>1, ClientAssumption DEF IsActive, Blocks
  <2> QED
    BY <2>2 DEF ActiveBlocks
<1>2. PromiseInv
  BY <1>1 DEF Init, ClientInit, PromiseInv, KnownInv, AnswerInv, Due
<1>3. Glimpse \subseteq FactNames
  BY DEF Glimpse
<1>4. Asked = {} /\ Stage = "idle" /\ Returned = {}
  BY DEF Init, ClientInit, Asked, Stage, Returned
<1> QED
  BY <1>1, <1>2, <1>3, <1>4 DEF Init, ClientInit, Contract!Init

LEMMA BeginPromises ==
  ASSUME IInv, PromiseInv, NEW o \in DOMAIN Methods, BeginOn(o)
  PROVE  PromiseInv' /\ Contract!Begin
<1>1. /\ at = "idle" /\ at' = "state" /\ call = "none" /\ outcome = "none" /\ category = "none"
      /\ op' = o /\ target' \in Targets(o) /\ lacked' = (target' \cap known = {})
      /\ shown' = ActiveBlocks /\ witness' = Glimpse
      /\ UNCHANGED <<runtimeVars, chainVars, outcome, heard, spent>>
      /\ UNCHANGED <<call, request, cleft, file, creds, answer, category>>
  BY DEF BeginOn, IInv, ControlInv
<1>2. Glimpse' = Glimpse /\ ActiveBlocks' = ActiveBlocks /\ known' = known
  BY <1>1, Unwatched DEF chainVars
<1>3. PromiseInv'
  BY <1>1, <1>2 DEF PromiseInv, KnownInv, AnswerInv, Due
<1>4. Asked' = target'
  <2>1. CASE o = "height"
    <3>1. PICK h \in 1..MaxHeight : target' = {h} \X Forks
      BY <1>1, <2>1 DEF Targets
    <3>2. Asked' = {b \in Blocks : \E t \in target' : t[1] = b[1]}
      BY <1>1, <2>1 DEF Asked
    <3>3. \A t \in target' : t \in Blocks /\ t[1] = h
      BY <3>1 DEF Blocks
    <3>4. \A b \in Blocks : b[1] = h => b \in target'
      BY <3>1 DEF Blocks
    <3>5. Asked' \subseteq target'
      BY <3>2, <3>3, <3>4
    <3>6. target' \subseteq Asked'
      BY <3>2, <3>3
    <3> QED
      BY <3>5, <3>6
  <2>2. CASE o # "height"
    BY <1>1, <2>2 DEF Asked
  <2> QED
    BY <2>1, <2>2
<1>5. target' \subseteq Blocks /\ (o \notin {"hash", "height"} => target' = {})
  <2>1. o = "hash" => \E b \in Blocks : target' = {b}
    BY <1>1 DEF Targets
  <2>2. o = "height" => \E h \in 1..MaxHeight : target' = {h} \X Forks
    BY <1>1 DEF Targets
  <2>3. o \notin {"hash", "height"} => target' = {}
    BY <1>1 DEF Targets
  <2> QED
    BY <2>1, <2>2, <2>3 DEF Blocks
<1>6. Stage = "idle" /\ Stage' = "active" /\ Returned' = Returned
  BY <1>1 DEF Stage, Returned
<1>7. op' \in {"node", "height", "hash", "mempool", "peers"}
  BY <1>1, OperationsAre
<1> QED
  BY <1>1, <1>2, <1>3, <1>4, <1>5, <1>6, <1>7
     DEF Contract!Begin, Contract!AboutBlocks, Contract!nodeVars

(* The client's steps: what it is about stays the same, whatever it learns.  *)
LEMMA ExitPromises ==
  ASSUME IInv, PromiseInv, at = "run", NEW d, Wait("run", d),
         NEW c, c # "none", Exit(c), UNCHANGED answer, Due(c)
  PROVE  PromiseInv' /\ UNCHANGED <<op, target>>
<1>1. /\ call' = "exited" /\ category' = c /\ UNCHANGED <<op, target, request, answer>>
      /\ at' = "run" /\ UNCHANGED <<runtimeVars, chainVars, historyVars>>
  BY DEF Exit, Wait
<1>2. ActiveBlocks' = ActiveBlocks /\ known' = known /\ lacked' = lacked
  BY <1>1, Unwatched DEF chainVars, historyVars
<1>3. KnownInv' /\ AnswerInv'
  BY <1>1, <1>2 DEF PromiseInv, KnownInv, AnswerInv
<1>4. Due(category)'
  BY <1>1, <1>2 DEF Due, OneBlock
<1> QED
  BY <1>1, <1>3, <1>4 DEF PromiseInv

LEMMA AnsweredPromises ==
  ASSUME IInv, PromiseInv, at = "run", NEW d, Wait("run", d), NEW e \in Nat, Answered(e)
  PROVE  PromiseInv' /\ op' = op /\ Asked' = Asked
<1>1. /\ call = "send" /\ at' = "run"
      /\ UNCHANGED <<runtimeVars, chainVars, historyVars>>
  BY DEF Answered, Wait
<1>2. ActiveBlocks' = ActiveBlocks /\ known' = known /\ lacked' = lacked
  BY <1>1, Unwatched DEF chainVars, historyVars
<1>3. CASE /\ Exit("unavailable") \/ Exit("timeout") \/ Exit("authentication")
           /\ UNCHANGED answer
  <2>1. PromiseInv' /\ UNCHANGED <<op, target>>
    BY <1>3, ExitPromises DEF Due
  <2> QED
    BY <2>1 DEF Asked
<1>4. CASE /\ rpc # "closed"
           /\ answer' \in Execution
           /\ target' = Resolved(answer')
           /\ call' = "body"
           /\ UNCHANGED <<op, request, category>>
  <2>1. op \in DOMAIN Methods /\ request \in 1..2 /\ request <= Len(Methods[op])
    BY <1>1 DEF IInv, TypeOK, ClientTypeOK, ControlInv
  <2>2. rpc \in {"warming", "ready"} /\ category = "none"
    BY <1>1, <1>4 DEF IInv, TypeOK, RuntimeTypeOK, ControlInv
  <2>3. CASE op = "hash"
    <3>1. request = 1 /\ Method = "getblock"
      BY <2>1, <2>3, RequestsAre, MethodsAre DEF Method
    <3>2. target' = target
      BY <1>4, <3>1 DEF Resolved
    <3>3. answer' # "wrongNode" /\ (answer' = "unknownBlock" => target \cap known = {})
      BY <1>4, <2>2, <3>1 DEF Execution
    <3>4. answer' = "unknownBlock" => lacked
      BY <1>1, <2>3, <3>3 DEF PromiseInv, KnownInv
    <3> QED
      BY <1>1, <1>2, <1>4, <2>2, <2>3, <3>2, <3>3, <3>4
         DEF PromiseInv, KnownInv, AnswerInv, Due, Asked
  <2>4. CASE op = "height" /\ request = 2
    <3>1. Method = "getblock"
      BY <2>4, MethodsAre DEF Method
    <3>2. target' = target
      BY <1>4, <3>1 DEF Resolved
    <3>3. PICK b \in Blocks : target = {b}
      BY <1>1, <2>4 DEF IInv, TargetInv, OneBlock
    <3>4. target \subseteq known
      BY <1>1, <2>4 DEF PromiseInv, KnownInv
    <3>5. target \cap known # {}
      BY <3>3, <3>4
    <3>6. answer' # "wrongNode" /\ answer' # "unknownBlock"
      BY <1>4, <2>2, <3>1, <3>5 DEF Execution
    <3> QED
      BY <1>1, <1>2, <1>4, <2>2, <2>4, <3>2, <3>4, <3>6
         DEF PromiseInv, KnownInv, AnswerInv, Due, Asked
  <2>5. CASE op = "height" /\ request = 1
    <3>1. Method = "getblockhash"
      BY <2>5, MethodsAre DEF Method
    <3>2. /\ answer' \notin {"wrongNode", "unknownBlock"}
          /\ answer' = "ok" => \E b \in target : IsActive(b)
      BY <1>4, <2>2, <3>1 DEF Execution
    <3>3. PICK h \in 1..MaxHeight : target = {h} \X Forks
      BY <1>1, <2>5 DEF IInv, TargetInv, OneHeight
    <3>4. request' = 1 /\ op' = "height" /\ op # "hash" /\ request' # 2
      BY <1>4, <2>5
    <3>5. CASE answer' = "ok"
      <4>1. PICK b \in target : IsActive(b)
        BY <3>2, <3>5
      <4>2. target' = {c \in target : IsActive(c)}
        BY <1>4, <3>1, <3>5 DEF Resolved
      <4>3. target' = {b}
        BY <3>3, <4>1, <4>2, OneActive
      <4>4. b \in known
        BY <3>3, <4>1 DEF Blocks, ActiveBlocks, PromiseInv, KnownInv
      <4>5. target' \subseteq known'
        BY <1>2, <4>3, <4>4
      <4>6. \A x : (\E t \in target : t[1] = x[1]) <=> (\E t \in target' : t[1] = x[1])
        BY <3>3, <4>1, <4>3
      <4>7. Asked' = Asked
        BY <2>5, <3>4, <4>6 DEF Asked
      <4> QED
        BY <1>1, <1>2, <1>4, <2>2, <3>2, <3>4, <4>5, <4>7
           DEF PromiseInv, KnownInv, AnswerInv, Due
    <3>6. CASE answer' # "ok"
      <4>1. target' = target
        BY <1>4, <3>6 DEF Resolved
      <4> QED
        BY <1>1, <1>2, <1>4, <2>2, <3>2, <3>4, <3>6, <4>1
           DEF PromiseInv, KnownInv, AnswerInv, Due, Asked
    <3> QED
      BY <3>5, <3>6
  <2>6. CASE op \notin {"hash", "height"}
    <3>1. Method \in {"getnetworkinfo", "getblockchaininfo", "getmempoolinfo", "getpeerinfo"}
      BY <2>1, <2>6, OperationsAre, RequestsAre, MethodsAre DEF Method
    <3>2. op # "node" => Method \in {"getmempoolinfo", "getpeerinfo"}
      BY <2>1, <2>6, OperationsAre, RequestsAre, MethodsAre DEF Method
    <3>3. target' = target
      BY <1>4, <3>1 DEF Resolved
    <3>4. answer' # "unknownBlock"
      BY <1>4, <2>2, <3>1 DEF Execution
    <3>5. op # "node" => answer' # "wrongNode"
      BY <1>4, <2>2, <3>2 DEF Execution
    <3> QED
      BY <1>1, <1>2, <1>4, <2>2, <2>6, <3>3, <3>4, <3>5
         DEF PromiseInv, KnownInv, AnswerInv, Due, Asked
  <2> QED
    BY <2>1, <2>3, <2>4, <2>5, <2>6
<1> QED
  BY <1>3, <1>4 DEF Answered, Refused

LEMMA NotFoundIs ==
  ASSUME NEW a \in Answers \ {"none"}
  PROVE  CategoryOf(a) = "not_found" <=> a = "unknownBlock"
<1>1. CASE a = "unknownBlock"
  BY <1>1 DEF CategoryOf
<1>2. CASE a = "ok"
  BY <1>2 DEF CategoryOf
<1>3. CASE a = "wrongNode"
  BY <1>3 DEF CategoryOf
<1>4. CASE a \in {"staleBlock", "unfitPeers", "warming", "outOfRange"}
  <2>1. CategoryOf(a) = "malformed_response"
    BY <1>4 DEF CategoryOf
  <2> QED
    BY <1>4, <2>1
<1> QED
  BY <1>1, <1>2, <1>3, <1>4 DEF Answers

LEMMA BodyReadPromises ==
  ASSUME IInv, PromiseInv, at = "run", NEW d, Wait("run", d), NEW e \in Nat, BodyRead(e)
  PROVE  PromiseInv' /\ UNCHANGED <<op, target>>
<1>1. /\ call = "body" /\ at' = "run" /\ UNCHANGED answer
      /\ UNCHANGED <<runtimeVars, chainVars, historyVars>>
  BY DEF BodyRead, Wait
<1>2. ActiveBlocks' = ActiveBlocks /\ known' = known /\ lacked' = lacked
  BY <1>1, Unwatched DEF chainVars, historyVars
<1>3. /\ answer \in Answers \ {"none"} /\ category = "none"
      /\ op \in DOMAIN Methods /\ request \in 1..2
  BY <1>1 DEF IInv, TypeOK, ClientTypeOK, OverviewInv, ControlInv
<1>4. /\ CategoryOf(answer) \in Categories \ {"none", "authentication"}
      /\ CategoryOf(answer) = "ok" <=> answer = "ok"
      /\ CategoryOf(answer) = "incompatible" <=> answer = "wrongNode"
      /\ CategoryOf(answer) = "not_found" <=> answer = "unknownBlock"
  BY <1>3, CategoriesAre, NotFoundIs
<1>5. CASE Exit("unavailable") \/ Exit("malformed_response") \/ Exit("timeout")
  BY <1>1, <1>5, ExitPromises DEF Due
<1>6. CASE CategoryOf(answer) # "ok" /\ Exit(CategoryOf(answer))
  <2>1. Due(CategoryOf(answer))
    BY <1>1, <1>4, <1>6 DEF PromiseInv, AnswerInv, Due
  <2> QED
    BY <1>1, <1>4, <1>6, <2>1, ExitPromises
<1>7. CASE /\ CategoryOf(answer) = "ok"
           /\ request = Len(Methods[op])
           /\ Exit("ok")
  <2>1. op \in {"hash", "height"} => OneBlock
    BY <1>1, <1>4, <1>7 DEF IInv, TargetInv
  <2>2. Due("ok")
    BY <2>1 DEF Due
  <2> QED
    BY <1>1, <1>7, <2>2, ExitPromises
<1>8. CASE /\ CategoryOf(answer) = "ok"
           /\ request < Len(Methods[op])
           /\ request' = request + 1
           /\ call' = "lstat"
           /\ UNCHANGED <<op, target, file, category>>
  <2>1. op = "height" => target \subseteq known
    BY <1>1, <1>4, <1>8 DEF PromiseInv, KnownInv
  <2>2. KnownInv'
    BY <1>1, <1>2, <1>8, <2>1 DEF PromiseInv, KnownInv
  <2>3. AnswerInv' /\ Due(category)'
    BY <1>3, <1>8 DEF AnswerInv, Due
  <2> QED
    BY <1>8, <2>2, <2>3 DEF PromiseInv
<1> QED
  BY <1>5, <1>6, <1>7, <1>8 DEF BodyRead

LEMMA RunPromises ==
  ASSUME IInv, PromiseInv, NEW d \in Ticks, RunStarts(d) \/ RunGoesOn(d)
  PROVE  PromiseInv' /\ Unseen
<1>1. /\ at = "run" /\ at' = "run" /\ Wait("run", d) /\ d \in Nat
      /\ UNCHANGED <<outcome, heard, runtimeVars, chainVars, historyVars>>
  BY TicksAre DEF RunStarts, RunGoesOn, Wait
<1>2. /\ Glimpse' = Glimpse /\ ActiveBlocks' = ActiveBlocks /\ known' = known
      /\ witness' = witness /\ shown' = shown /\ lacked' = lacked
  BY <1>1, Unwatched DEF chainVars, historyVars
<1>3. outcome = "none" /\ outcome' = "none"
  BY <1>1 DEF IInv, ControlInv
<1>4. Returned' = Returned /\ Stage' = Stage
  BY <1>1, <1>3 DEF Returned, Stage
<1>5. ASSUME UNCHANGED <<op, target, request, answer, category>>,
             call' \in {"lstat", "open", "send"}
      PROVE  PromiseInv' /\ op' = op /\ Asked' = Asked
  <2>1. KnownInv'
    BY <1>1, <1>2, <1>5 DEF PromiseInv, KnownInv
  <2>2. AnswerInv'
    BY <1>5 DEF AnswerInv
  <2>3. Due(category)'
    BY <1>2, <1>5 DEF PromiseInv, Due, OneBlock
  <2> QED
    BY <1>5, <2>1, <2>2, <2>3 DEF PromiseInv, Asked
<1> SUFFICES PromiseInv' /\ op' = op /\ Asked' = Asked
  BY <1>1, <1>2, <1>4 DEF Unseen
<1>6. CASE ClientStarts
  BY <1>5, <1>6 DEF ClientStarts
<1>7. CASE CookieLooked(d)
  <2>1. CASE Exit("authentication") /\ UNCHANGED answer
    <3>1. PromiseInv' /\ UNCHANGED <<op, target>>
      BY <1>1, <2>1, ExitPromises DEF Due
    <3> QED
      BY <3>1 DEF Asked
  <2>2. CASE /\ call' = "open"
             /\ UNCHANGED <<op, target, request, cleft, creds, answer, category>>
    BY <1>5, <2>2
  <2> QED
    BY <1>7, <2>1, <2>2 DEF CookieLooked
<1>8. CASE CookieOpened(d)
  <2>1. UNCHANGED answer
    BY <1>8 DEF CookieOpened
  <2>2. CASE Exit("authentication") \/ Exit("timeout")
    <3>1. PromiseInv' /\ UNCHANGED <<op, target>>
      BY <1>1, <2>1, <2>2, ExitPromises DEF Due
    <3> QED
      BY <3>1 DEF Asked
  <2>3. CASE call' = "send" /\ UNCHANGED <<op, target, request, category>>
    BY <1>5, <2>1, <2>3
  <2> QED
    BY <1>8, <2>2, <2>3 DEF CookieOpened
<1>9. CASE Answered(d)
  BY <1>1, <1>9, AnsweredPromises
<1>10. CASE BodyRead(d)
  <2>1. PromiseInv' /\ UNCHANGED <<op, target>>
    BY <1>1, <1>10, BodyReadPromises
  <2> QED
    BY <2>1 DEF Asked
<1>11. CASE ClientBreaks
  <2>1. PromiseInv' /\ UNCHANGED <<op, target>>
    BY <1>1, <1>11, ExitPromises DEF ClientBreaks, Due
  <2> QED
    BY <2>1 DEF Asked
<1> QED
  BY <1>6, <1>7, <1>8, <1>9, <1>10, <1>11 DEF RunStarts, RunGoesOn, ClientStep

(* The host's steps: they end the command as the contract allows, or wait.   *)
LEMMA FinishPromises ==
  ASSUME IInv, PromiseInv, at \in {"state", "run"}, NEW d, NEW result, Finish(result, d),
         \/ result \in {"timeout", "unavailable", "error", "runtimeUnavailable"}
         \/ result = "sizeExceeded" /\ op = "peers"
         \/ result = category /\ category # "none"
  PROVE  PromiseInv' /\ Contract!End
<1>1. /\ at' = "done" /\ outcome' = result /\ call' = "none"
      /\ UNCHANGED <<op, target, request, answer, category>>
      /\ UNCHANGED <<runtimeVars, chainVars, historyVars>>
  BY DEF Finish
<1>2. /\ Glimpse' = Glimpse /\ ActiveBlocks' = ActiveBlocks /\ known' = known
      /\ witness' = witness /\ shown' = shown /\ lacked' = lacked /\ Asked' = Asked
  BY <1>1, Unwatched DEF chainVars, historyVars, Asked
<1>3. PromiseInv'
  <2>1. KnownInv'
    BY <1>1, <1>2 DEF PromiseInv, KnownInv
  <2>2. AnswerInv' /\ Due(category)'
    BY <1>1, <1>2 DEF PromiseInv, AnswerInv, Due, OneBlock
  <2> QED
    BY <2>1, <2>2 DEF PromiseInv
<1>4. result \in Contract!Results(op)
  <2>1. CASE result \in {"timeout", "unavailable", "error", "runtimeUnavailable"}
    BY <2>1 DEF Contract!Results
  <2>2. CASE result = "sizeExceeded" /\ op = "peers"
    BY <2>2 DEF Contract!Results
  <2>3. CASE result = category /\ category # "none"
    <3>1. category \in Categories
      BY DEF IInv, TypeOK, ClientTypeOK
    <3>2. /\ category = "incompatible" => op = "node"
          /\ category = "not_found" => op = "hash"
      BY DEF PromiseInv, Due
    <3> QED
      BY <2>3, <3>1, <3>2 DEF Contract!Results, Contract!AboutBlocks, Categories
  <2> QED
    BY <2>1, <2>2, <2>3
<1>5. Contract!Backed(result)
  <2>1. CASE result \notin {"ok", "incompatible", "authentication", "not_found"}
    BY <2>1 DEF Contract!Backed
  <2>2. CASE result = category
    BY <2>2 DEF IInv, Backed, PromiseInv, Due, Contract!Backed
  <2> QED
    BY <2>1, <2>2
<1>6. CASE result = "ok" /\ op \in {"hash", "height"}
  <2>1. category = "ok"
    BY <1>6
  <2>2. PICK b \in Blocks : target = {b}
    BY <1>6, <2>1 DEF PromiseInv, Due, OneBlock
  <2>3. b \in Asked
    BY <2>2 DEF Asked
  <2>4. b \in shown
    BY <1>6, <2>1, <2>2 DEF IInv, Backed
  <2>5. Returned' = {b}
    BY <1>1, <1>6, <2>2 DEF Returned
  <2> QED
    BY <1>1, <1>2, <1>3, <1>4, <1>5, <1>6, <2>3, <2>4, <2>5
       DEF Contract!End, Contract!AboutBlocks, Contract!nodeVars, Stage
<1>7. CASE ~(result = "ok" /\ op \in {"hash", "height"})
  <2>1. Returned' = {}
    BY <1>1, <1>7 DEF Returned
  <2> QED
    BY <1>1, <1>2, <1>3, <1>4, <1>5, <1>7, <2>1
       DEF Contract!End, Contract!AboutBlocks, Contract!nodeVars, Stage
<1> QED
  BY <1>6, <1>7

LEMMA HostPromises ==
  ASSUME IInv, PromiseInv, NEW d \in Ticks, HostStep(d)
  PROVE  PromiseInv' /\ (Contract!End \/ Unseen)
<1>1. CASE StateUnknown(d)
  BY <1>1, FinishPromises DEF StateUnknown
<1>2. CASE StateQueried(d)
  <2>1. at = "state"
    BY <1>2 DEF StateQueried
  <2>2. CASE Finish("unavailable", d) \/ Finish("timeout", d)
    BY <2>1, <2>2, FinishPromises
  <2>3. CASE Wait("run", d) /\ UNCHANGED clientVars
    <3>1. /\ at' = "run"
          /\ UNCHANGED <<outcome, heard, runtimeVars, chainVars, historyVars>>
          /\ UNCHANGED <<op, target, call, request, answer, category>>
      BY <2>3 DEF Wait, clientVars
    <3>2. /\ Glimpse' = Glimpse /\ ActiveBlocks' = ActiveBlocks /\ known' = known
          /\ witness' = witness /\ shown' = shown /\ lacked' = lacked /\ Asked' = Asked
      BY <3>1, Unwatched DEF chainVars, historyVars, Asked
    <3>3. call = "none" /\ request = 1
      BY <2>1 DEF IInv, ControlInv
    <3>4. KnownInv'
      BY <2>1, <3>1, <3>2, <3>3 DEF PromiseInv, KnownInv
    <3>5. AnswerInv' /\ Due(category)'
      BY <3>1, <3>2 DEF PromiseInv, AnswerInv, Due, OneBlock
    <3>6. Stage' = Stage /\ Returned' = Returned
      BY <2>1, <3>1 DEF Stage, Returned
    <3> QED
      BY <3>1, <3>2, <3>4, <3>5, <3>6 DEF PromiseInv, Unseen
  <2> QED
    BY <1>2, <2>2, <2>3 DEF StateQueried
<1>3. CASE RunFails(d)
  BY <1>3, FinishPromises DEF RunFails
<1>4. CASE RunTimesOut(d)
  BY <1>4, FinishPromises DEF RunTimesOut
<1>5. CASE RunReturns(d)
  <2>1. at = "run" /\ category # "none" /\ category \in Categories
    BY <1>5 DEF RunReturns, PromiseInv, AnswerInv, IInv, TypeOK, ClientTypeOK
  <2>2. PICK r \in Reported(heard') : Finish(r, d)
    BY <1>5 DEF RunReturns
  <2>3. r \in {category, "unavailable"} \/ (r = "sizeExceeded" /\ op = "peers")
    <3>1. \A lines : Decoded(lines) \in {category, "unavailable"}
      BY DEF Decoded
    <3>2. CASE category = "ok"
      BY <2>2, <3>2 DEF Reported
    <3>3. CASE category # "ok"
      BY <2>2, <3>1, <3>3 DEF Reported
    <3> QED
      BY <3>2, <3>3
  <2> QED
    BY <2>1, <2>2, <2>3, FinishPromises
<1> QED
  BY <1>1, <1>2, <1>3, <1>4, <1>5 DEF HostStep

(* The node's moves: it keeps the blocks it has, and its best chain is of     *)
(* these.                                                                    *)
LEMMA ChainMovesAre ==
  ASSUME active \in Seq(Forks), ActiveBlocks \subseteq known, NEW watched, NodeMoves(watched)
  PROVE  known \subseteq known' /\ ActiveBlocks' \subseteq known'
<1>1. CASE UNCHANGED chainVars
  BY <1>1 DEF chainVars, ActiveBlocks, IsActive
<1>2. CASE TipChanges
  <2>1. PICK h \in 0..Len(active), f \in Forks :
          /\ active' = Append(SubSeq(active, 1, h), f)
          /\ known' = known \cup {<<h + 1, f>>}
    BY <1>2 DEF TipChanges
  <2>2. ASSUME NEW b \in Blocks, b[1] <= Len(active'), active'[b[1]] = b[2]
        PROVE  b \in known'
    <3>1. b[1] \in 1..MaxHeight /\ b[2] \in Forks /\ b = <<b[1], b[2]>>
      BY DEF Blocks
    <3>2. Len(active') = h + 1 /\ active'[h + 1] = f
      BY <2>1
    <3>3. CASE b[1] = h + 1
      BY <2>1, <2>2, <3>1, <3>2, <3>3
    <3>4. CASE b[1] # h + 1
      <4>1. b[1] \in 1..h
        BY <2>2, <3>1, <3>2, <3>4, ClientAssumption
      <4>2. active'[b[1]] = active[b[1]] /\ b[1] <= Len(active)
        BY <2>1, <4>1
      <4>3. b \in ActiveBlocks
        BY <2>2, <4>2 DEF ActiveBlocks, IsActive
      <4> QED
        BY <2>1, <4>3
    <3> QED
      BY <3>3, <3>4
  <2>3. ActiveBlocks' \subseteq known'
    BY <2>2 DEF ActiveBlocks, IsActive
  <2> QED
    BY <2>1, <2>3
<1> QED
  BY <1>1, <1>2 DEF NodeMoves

LEMMA NodePromises ==
  ASSUME IInv, IInv', PromiseInv, at # "done", NodeMoves(at # "idle")
  PROVE  PromiseInv' /\ Contract!NodeMoves
<1>1. /\ shown' = IF at # "idle" THEN shown \cup ActiveBlocks' ELSE shown
      /\ witness' = IF at # "idle" THEN witness \cup Glimpse' ELSE witness
      /\ UNCHANGED <<op, target, call, request, cleft, answer, category>>
      /\ UNCHANGED <<at, hleft, outcome, heard, spent, lacked>>
  BY DEF NodeMoves, NodeChanges
<1>2. known \subseteq known' /\ ActiveBlocks' \subseteq known'
  BY ChainMovesAre DEF IInv, TypeOK, ClientTypeOK, PromiseInv, KnownInv
<1>3. known' \subseteq Blocks /\ Glimpse' \subseteq FactNames
  BY DEF IInv, TypeOK, ClientTypeOK, Glimpse
<1>4. PromiseInv'
  <2>1. KnownInv'
    BY <1>1, <1>2 DEF PromiseInv, KnownInv
  <2>2. AnswerInv' /\ Due(category)'
    BY <1>1 DEF PromiseInv, AnswerInv, Due, OneBlock
  <2> QED
    BY <2>1, <2>2 DEF PromiseInv
<1>5. /\ Asked' = Asked /\ Stage' = Stage /\ Returned' = Returned
      /\ Stage = "active" <=> at # "idle"
  BY <1>1 DEF Asked, Stage, Returned, IInv, TypeOK
<1> QED
  BY <1>1, <1>2, <1>3, <1>4, <1>5 DEF Contract!NodeMoves

LEMMA StepPromises ==
  ASSUME IInv, IInv', PromiseInv, [Next]_vars
  PROVE  PromiseInv' /\ [Contract!Next]_(Contract!contractVars)
<1>1. Unseen => UNCHANGED Contract!contractVars
  BY DEF Unseen, Contract!contractVars, Contract!nodeVars
<1>2. CASE Begin
  BY <1>2, BeginPromises DEF Begin, Contract!Next
<1>3. CASE \E d \in Ticks : HostStep(d)
  BY <1>1, <1>3, HostPromises DEF Contract!Next
<1>4. CASE \E d \in Ticks : RunStarts(d) \/ RunGoesOn(d)
  BY <1>1, <1>4, RunPromises
<1>5. CASE at # "done" /\ NodeMoves(at # "idle")
  BY <1>5, NodePromises DEF Contract!Next
<1>6. CASE UNCHANGED vars
  <2>1. UNCHANGED <<runtimeVars, chainVars, clientVars, at, outcome, historyVars>>
    BY <1>6 DEF vars
  <2>2. /\ UNCHANGED <<op, target, call, request, answer, category, at, outcome>>
        /\ UNCHANGED <<known, shown, witness, lacked>>
        /\ Glimpse' = Glimpse /\ ActiveBlocks' = ActiveBlocks
    BY <2>1, Unwatched DEF chainVars, clientVars, historyVars
  <2>3. KnownInv' /\ AnswerInv' /\ Due(category)'
    BY <2>2 DEF PromiseInv, KnownInv, AnswerInv, Due, OneBlock
  <2>4. Unseen
    BY <2>2 DEF Unseen, Asked, Stage, Returned
  <2> QED
    BY <1>1, <2>3, <2>4 DEF PromiseInv
<1> QED
  BY <1>2, <1>3, <1>4, <1>5, <1>6 DEF Next

(* The NodeObservationPort of application/ports.py is kept: an inspection     *)
(* ends once, with a result of its own operation, and with one that is       *)
(* backed; a block is the one asked for, or one of the height asked for, and *)
(* a block that is "not found" was not known to the node at the beginning.   *)
THEOREM InspectionKeepsContract == Spec => KeepsContract
<1>1. Init => PromiseInv /\ Contract!Init
  BY InitPromise
<1>2. IInv /\ IInv' /\ PromiseInv /\ [Next]_vars =>
        PromiseInv' /\ [Contract!Next]_(Contract!contractVars)
  BY StepPromises
<1> QED
  BY <1>1, <1>2, AlwaysIInv, PTL DEF Spec, KeepsContract, Contract!Spec
================================================================================
