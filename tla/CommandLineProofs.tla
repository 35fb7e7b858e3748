--------------------------- MODULE CommandLineProofs ---------------------------
(***************************************************************************)
(* Configuration for every command line, environment and file: the source  *)
(* with the highest precedence wins, setting by setting, and a value that  *)
(* is refused fails the load wherever it stands.  TLC has one setting in   *)
(* each source; here they supply any of the settings at once.  Then what   *)
(* an inspection shows, for lists of peers of any length and any fees.     *)
(***************************************************************************)
EXTENDS CommandLine, FiniteSetTheorems, TLAPS

(* What SourceOf puts together from the constants of CommandLine.            *)
AllSources ==
  [given : BOOLEAN, named : AllFiles, found : AllFiles, env : AllLayers, cli : AllLayers]

(* None of the values a layer supplies is refused.                           *)
Accepts(layer) == \A s \in Settings : s \in DOMAIN layer => layer[s] \notin Refusals

LEMMA SettingsAre ==
  Settings =
    {"data_dir", "node_id", "compose_subnet", "startup_timeout", "shutdown_timeout"}
<1>1. DOMAIN Order = 1..5
  BY DEF Order
<1>2. /\ Order[1] = "data_dir" /\ Order[2] = "node_id" /\ Order[3] = "compose_subnet"
      /\ Order[4] = "startup_timeout" /\ Order[5] = "shutdown_timeout"
  BY DEF Order
<1>3. 1..5 = {1, 2, 3, 4, 5}
  OBVIOUS
<1> QED
  BY <1>1, <1>2, <1>3 DEF Settings

(* A layer fails if and only if one of its values is refused: the order in   *)
(* which they are gone through only tells which error is raised.             *)
LEMMA FaultMeansRefused ==
  ASSUME NEW layer
  PROVE  Fault(layer) = "none" <=> Accepts(layer)
<1> DEFINE refused == {i \in DOMAIN Order : Order[i] \in DOMAIN layer /\ layer[Order[i]] \in Refusals}
<1>1. refused = {} <=> Accepts(layer)
  BY DEF Accepts, Settings
<1>2. refused = {} => Fault(layer) = "none"
  BY DEF Fault
<1>3. refused # {} => Fault(layer) \in {"OverflowError", "RuntimeError", "validation_error"}
  BY DEF Fault, Raised
<1> QED
  BY <1>1, <1>2, <1>3

(* What has been read so far, at any layer: nothing of it is kept once there *)
(* is an error.                                                              *)
Loads ==
  {l \in [error : Errors, settings : [Settings -> Values \cup {"default"}]] :
     l.error # "none" => \A s \in Settings : l.settings[s] = "default"}

LEMMA FailureIsLoad ==
  ASSUME NEW e \in Errors
  PROVE  Failure(e) \in Loads /\ Failure(e).error = e
  BY DEF Failure, Loads

LEMMA DefaultsIsLoad == Defaults \in Loads /\ Defaults.error = "none"
  BY DEF Defaults, Loads, Errors

LEMMA FaultIsError == ASSUME NEW layer PROVE Fault(layer) \in Errors
  BY DEF Fault, Raised, Errors

LEMMA NormalIsValue ==
  ASSUME NEW s, NEW v \in Values \cup {"default"}
  PROVE  /\ Normal(s, v) \in Values \cup {"default"}
         /\ Normal(s, v) \in Refusals <=> v \in Refusals
         /\ Normal(s, Normal(s, v)) = Normal(s, v)
         /\ v = "default" => Normal(s, v) = "default"
  BY DEF Normal, Values, Refusals

LayerOfValues(layer) ==
  \A s \in Settings : s \in DOMAIN layer => layer[s] \in Values \cup {"default"}

(* A layer on top of others adds its own refusals to theirs, and replaces    *)
(* the settings it supplies and no other.                                    *)
LEMMA OverlaidIs ==
  ASSUME NEW loaded \in Loads, NEW layer, LayerOfValues(layer)
  PROVE  /\ Overlaid(loaded, layer) \in Loads
         /\ Overlaid(loaded, layer).error = "none" <=>
              loaded.error = "none" /\ Accepts(layer)
         /\ Overlaid(loaded, layer).error = "none" =>
              \A s \in Settings :
                Overlaid(loaded, layer).settings[s] =
                  IF s \in DOMAIN layer THEN Normal(s, layer[s]) ELSE loaded.settings[s]
<1>1. CASE loaded.error # "none"
  BY <1>1 DEF Overlaid
<1>2. CASE loaded.error = "none" /\ ~Accepts(layer)
  <2>1. Fault(layer) # "none" /\ Fault(layer) \in Errors
    BY <1>2, FaultMeansRefused, FaultIsError
  <2>2. Overlaid(loaded, layer) = Failure(Fault(layer))
    BY <1>2, <2>1 DEF Overlaid
  <2> QED
    BY <1>2, <2>1, <2>2, FailureIsLoad
<1>3. CASE loaded.error = "none" /\ Accepts(layer)
  <2> DEFINE laid == [s \in Settings |-> IF s \in DOMAIN layer
                                         THEN Normal(s, layer[s]) ELSE loaded.settings[s]]
  <2>1. Overlaid(loaded, layer) = [loaded EXCEPT !.settings = laid]
    BY <1>3, FaultMeansRefused DEF Overlaid
  <2>2. laid \in [Settings -> Values \cup {"default"}]
    BY NormalIsValue DEF LayerOfValues, Loads
  <2>3. /\ [loaded EXCEPT !.settings = laid] \in Loads
        /\ [loaded EXCEPT !.settings = laid].error = loaded.error
        /\ [loaded EXCEPT !.settings = laid].settings = laid
    BY <1>3, <2>2 DEF Loads
  <2> QED
    BY <1>3, <2>1, <2>3
<1> QED
  BY <1>1, <1>2, <1>3

LEMMA SuppliedAreValues ==
  ASSUME NEW layer \in AllLayers
  PROVE  LayerOfValues(layer)
  BY DEF AllLayers, LayerOfValues

-----------------------------------------------------------------------------
(* The three sources, from the lowest up.                                    *)

(* A file is read in full or not at all, and its settings come on top of the *)
(* defaults.                                                                 *)
LEMMA WithTomlIs ==
  ASSUME NEW f \in AllFiles
  PROVE  /\ WithToml(f) \in Loads
         /\ WithToml(f).error = "none" <=> f.schema = "expected" /\ Accepts(f.settings)
         /\ WithToml(f).error = "none" => WithToml(f) = Overlaid(Defaults, f.settings)
<1> DEFINE runtime == [s \in DOMAIN f.settings \cap {"data_dir"} |-> f.settings[s]]
<1>1. f.schema \in Schemas /\ f.settings \in AllLayers
  BY DEF AllFiles
<1>2. "schema_error" \in Errors /\ "schema_error" # "none"
  BY DEF Errors
<1>3. CASE f.schema \in {"oddRoot", "oddRuntime"}
  <2>1. WithToml(f) = Failure("schema_error")
    BY <1>3 DEF WithToml
  <2> QED
    BY <1>2, <1>3, <2>1, FailureIsLoad
<1>4. CASE f.schema = "oddNode"
  <2>1. \E e \in Errors \ {"none"} : WithToml(f) = Failure(e)
    <3>1. Fault(runtime) \in Errors
      BY FaultIsError
    <3>2. WithToml(f) = IF Fault(runtime) # "none" THEN Failure(Fault(runtime))
                        ELSE Failure("schema_error")
      BY <1>4 DEF WithToml
    <3> QED
      BY <1>2, <3>1, <3>2
  <2> QED
    BY <1>4, <2>1, FailureIsLoad
<1>5. CASE f.schema = "expected"
  <2>1. WithToml(f) = Overlaid(Defaults, f.settings)
    BY <1>5 DEF WithToml
  <2> QED
    BY <1>1, <1>5, <2>1, OverlaidIs, SuppliedAreValues, DefaultsIsLoad
<1> QED
  BY <1>1, <1>3, <1>4, <1>5 DEF Schemas

FileFaulty(src) ==
  \/ FileOf(src).kind \notin {"absent", "toml"}
  \/ FileOf(src).kind = "absent" /\ src.given
  \/ FileOf(src).schema # "expected"
  \/ ~Accepts(FileOf(src).settings)

LEMMA NoLayerIsEmpty == DOMAIN NoLayer = {} /\ Accepts(NoLayer)
<1>1. DOMAIN NoLayer = {}
  BY DEF NoLayer
<1> QED
  BY <1>1 DEF Accepts

LEMMA FromFileIs ==
  ASSUME NEW f \in AllFiles, f.kind # "absent"
  PROVE  /\ FromFile(f) \in Loads
         /\ FromFile(f).error = "none" <=>
              f.kind = "toml" /\ f.schema = "expected" /\ Accepts(f.settings)
         /\ FromFile(f).error = "none" => FromFile(f) = Overlaid(Defaults, f.settings)
<1>1. f.kind \in Kinds
  BY DEF AllFiles
<1>2. CASE f.kind = "toml"
  <2>1. FromFile(f) = WithToml(f)
    BY <1>2 DEF FromFile
  <2> QED
    BY <1>2, <2>1, WithTomlIs
<1>3. CASE f.kind # "toml"
  <2>1. \E e \in Errors \ {"none"} : FromFile(f) = Failure(e)
    <3>1. {"RuntimeError", "not_a_file", "io_error", "UnicodeDecodeError", "toml_decode_error"}
            \subseteq Errors \ {"none"}
      BY DEF Errors
    <3>2. CASE f.kind = "directory"
      <4>1. FromFile(f) = Failure("not_a_file")
        BY <3>2 DEF FromFile
      <4> QED
        BY <3>1, <4>1
    <3>3. CASE f.kind = "unreadable"
      <4>1. FromFile(f) = Failure("io_error")
        BY <3>3 DEF FromFile
      <4> QED
        BY <3>1, <4>1
    <3>4. CASE f.kind = "notUtf8"
      <4>1. FromFile(f) = Failure("UnicodeDecodeError")
        BY <3>4 DEF FromFile
      <4> QED
        BY <3>1, <4>1
    <3>5. CASE f.kind = "notToml"
      <4>1. FromFile(f) = Failure("toml_decode_error")
        BY <3>5 DEF FromFile
      <4> QED
        BY <3>1, <4>1
    <3>6. CASE f.kind = "homeless"
      <4>1. FromFile(f) = Failure("RuntimeError")
        BY <3>6 DEF FromFile
      <4> QED
        BY <3>1, <4>1
    <3> QED
      BY <1>1, <1>3, <3>2, <3>3, <3>4, <3>5, <3>6 DEF Kinds
  <2> QED
    BY <1>3, <2>1, FailureIsLoad
<1> QED
  BY <1>2, <1>3

(* Defaults, and the file that is in force on top of them.                   *)
LEMMA WithFileIs ==
  ASSUME NEW src \in AllSources
  PROVE  /\ WithFile(src) \in Loads
         /\ WithFile(src).error = "none" <=> ~FileFaulty(src)
         /\ WithFile(src).error = "none" =>
              \A s \in Settings :
                WithFile(src).settings[s] =
                  IF s \in DOMAIN FileOf(src).settings
                  THEN Normal(s, FileOf(src).settings[s]) ELSE "default"
<1> DEFINE f == FileOf(src)
<1>1. src.given \in BOOLEAN /\ f \in AllFiles
  BY DEF AllSources, FileOf
<1>2. f.kind = "absent" => f.schema = "expected" /\ f.settings = NoLayer
  BY <1>1 DEF AllFiles
<1>3. \A s \in Settings : Defaults.settings[s] = "default"
  BY DEF Defaults
<1>4. CASE f.kind = "absent" /\ src.given
  <2>1. WithFile(src) = Failure("file_not_found")
    BY <1>4 DEF WithFile, FileOf
  <2>2. "file_not_found" \in Errors /\ "file_not_found" # "none"
    BY DEF Errors
  <2> QED
    BY <1>4, <2>1, <2>2, FailureIsLoad DEF FileFaulty
<1>5. CASE f.kind = "absent" /\ ~src.given
  <2>1. WithFile(src) = Defaults
    BY <1>5 DEF WithFile, FileOf
  <2> QED
    BY <1>2, <1>3, <1>5, <2>1, DefaultsIsLoad, NoLayerIsEmpty DEF FileFaulty
<1>6. CASE f.kind # "absent"
  <2>1. WithFile(src) = FromFile(f)
    <3>1. CASE src.given
      BY <1>6, <3>1 DEF WithFile, FileOf
    <3>2. CASE ~src.given
      BY <1>6, <3>2 DEF WithFile, FileOf
    <3> QED
      BY <3>1, <3>2
  <2>2. FromFile(f).error = "none" <=> ~FileFaulty(src)
    BY <1>1, <1>6, FromFileIs DEF FileFaulty
  <2>3. LayerOfValues(f.settings)
    BY <1>1, SuppliedAreValues DEF AllFiles
  <2>4. FromFile(f).error = "none" =>
          \A s \in Settings :
            FromFile(f).settings[s] =
              IF s \in DOMAIN f.settings THEN Normal(s, f.settings[s]) ELSE "default"
    BY <1>1, <1>3, <1>6, <2>3, FromFileIs, OverlaidIs, DefaultsIsLoad
  <2> QED
    BY <1>1, <1>6, <2>1, <2>2, <2>4, FromFileIs
<1> QED
  BY <1>4, <1>5, <1>6

LEMMA FaultyIs ==
  ASSUME NEW src
  PROVE  Faulty(src) <=> FileFaulty(src) \/ ~Accepts(src.env) \/ ~Accepts(src.cli)
  BY DEF Faulty, FileFaulty, Accepts

(* The environment and then the command line on top.                         *)
LEMMA LayeredIs ==
  ASSUME NEW src \in AllSources
  PROVE  /\ Layered(src) \in Loads
         /\ Layered(src).error = "none" <=> ~Faulty(src)
         /\ Layered(src).error = "none" =>
              \A s \in Settings : Layered(src).settings[s] = Effective(src, s)
<1> DEFINE below == WithFile(src)
           middle == Overlaid(below, src.env)
<1>1. LayerOfValues(src.env) /\ LayerOfValues(src.cli)
  BY SuppliedAreValues DEF AllSources
<1>2. /\ middle \in Loads
      /\ middle.error = "none" <=> ~FileFaulty(src) /\ Accepts(src.env)
  BY <1>1, WithFileIs, OverlaidIs
<1>3. Layered(src) = Overlaid(middle, src.cli)
  BY DEF Layered
<1>4. /\ Layered(src) \in Loads
      /\ Layered(src).error = "none" <=> middle.error = "none" /\ Accepts(src.cli)
  BY <1>1, <1>2, <1>3, OverlaidIs
<1>5. ASSUME Layered(src).error = "none", NEW s \in Settings
      PROVE  Layered(src).settings[s] = Effective(src, s)
  <2>1. middle.error = "none" /\ below.error = "none"
    BY <1>2, <1>4, <1>5, WithFileIs
  <2>2. Layered(src).settings[s] =
          IF s \in DOMAIN src.cli THEN Normal(s, src.cli[s]) ELSE middle.settings[s]
    BY <1>1, <1>2, <1>3, <1>5, OverlaidIs
  <2>3. middle.settings[s] =
          IF s \in DOMAIN src.env THEN Normal(s, src.env[s]) ELSE below.settings[s]
    BY <1>1, <2>1, WithFileIs, OverlaidIs
  <2>4. below.settings[s] =
          IF s \in DOMAIN FileOf(src).settings
          THEN Normal(s, FileOf(src).settings[s]) ELSE "default"
    BY <2>1, WithFileIs
  <2>5. CASE s \in DOMAIN src.cli
    BY <2>2, <2>5 DEF Effective
  <2>6. CASE s \notin DOMAIN src.cli /\ s \in DOMAIN src.env
    BY <2>2, <2>3, <2>6 DEF Effective
  <2>7. CASE /\ s \notin DOMAIN src.cli \cup DOMAIN src.env
             /\ s \in DOMAIN FileOf(src).settings
    BY <2>2, <2>3, <2>4, <2>7 DEF Effective
  <2>8. CASE /\ s \notin DOMAIN src.cli \cup DOMAIN src.env
             /\ s \notin DOMAIN FileOf(src).settings
    BY <2>2, <2>3, <2>4, <2>8 DEF Effective
  <2> QED
    BY <2>5, <2>6, <2>7, <2>8
<1> QED
  BY <1>2, <1>4, <1>5, FaultyIs

(* What is in force was accepted where it came from, and stays as it is when *)
(* it is normalised again.                                                   *)
LEMMA EffectiveIsNormal ==
  ASSUME NEW src \in AllSources, ~Faulty(src), NEW s \in Settings
  PROVE  /\ Effective(src, s) \in Values \cup {"default"}
         /\ Effective(src, s) \notin Refusals
         /\ Normal(s, Effective(src, s)) = Effective(src, s)
<1>1. ASSUME NEW layer \in AllLayers, Accepts(layer), s \in DOMAIN layer
      PROVE  /\ layer[s] \in Values \ Refusals
             /\ Normal(s, layer[s]) \in Values \cup {"default"}
             /\ Normal(s, layer[s]) \notin Refusals
             /\ Normal(s, Normal(s, layer[s])) = Normal(s, layer[s])
  <2>1. layer[s] \in Values \ Refusals
    BY <1>1, SuppliedAreValues DEF Accepts, AllLayers
  <2> QED
    BY <2>1, NormalIsValue
<1>2. /\ src.cli \in AllLayers /\ Accepts(src.cli)
      /\ src.env \in AllLayers /\ Accepts(src.env)
      /\ FileOf(src).settings \in AllLayers /\ Accepts(FileOf(src).settings)
  BY FaultyIs DEF AllSources, FileOf, AllFiles, FileFaulty
<1>3. CASE s \in DOMAIN src.cli
  <2>1. Effective(src, s) = Normal(s, src.cli[s])
    BY <1>3 DEF Effective
  <2> QED
    BY <1>1, <1>2, <1>3, <2>1
<1>4. CASE s \notin DOMAIN src.cli /\ s \in DOMAIN src.env
  <2>1. Effective(src, s) = Normal(s, src.env[s])
    BY <1>4 DEF Effective
  <2> QED
    BY <1>1, <1>2, <1>4, <2>1
<1>5. CASE s \notin DOMAIN src.cli \cup DOMAIN src.env /\ s \in DOMAIN FileOf(src).settings
  <2>1. Effective(src, s) = Normal(s, FileOf(src).settings[s])
    BY <1>5 DEF Effective
  <2> QED
    BY <1>1, <1>2, <1>5, <2>1
<1>6. CASE s \notin DOMAIN src.cli \cup DOMAIN src.env /\ s \notin DOMAIN FileOf(src).settings
  <2>1. Effective(src, s) = "default"
    BY <1>6 DEF Effective
  <2>2. "default" \notin Refusals
    BY DEF Refusals
  <2> QED
    BY <2>1, <2>2, NormalIsValue
<1> QED
  BY <1>3, <1>4, <1>5, <1>6

(* The validation that NodeConfiguration repeats changes nothing.            *)
LEMMA LoadedIs ==
  ASSUME NEW src \in AllSources
  PROVE  /\ Loaded(src) \in Loads
         /\ Loaded(src).error = "none" <=> ~Faulty(src)
         /\ Loaded(src).error = "none" =>
              \A s \in Settings : Loaded(src).settings[s] = Effective(src, s)
<1> DEFINE l == Layered(src)
           again == [s \in NodeSettings |-> l.settings[s]]
<1>1. Loaded(src) = Overlaid(l, again)
  BY DEF Loaded
<1>2. DOMAIN again = NodeSettings /\ NodeSettings \subseteq Settings
  BY DEF NodeSettings
<1>3. LayerOfValues(again)
  BY <1>2, LayeredIs DEF LayerOfValues, Loads
<1>4. l.error = "none" => Accepts(again)
  BY <1>2, LayeredIs, EffectiveIsNormal DEF Accepts
<1>5. Loaded(src) \in Loads /\ (Loaded(src).error = "none" <=> ~Faulty(src))
  BY <1>1, <1>3, <1>4, LayeredIs, OverlaidIs
<1>6. ASSUME Loaded(src).error = "none", NEW s \in Settings
      PROVE  Loaded(src).settings[s] = Effective(src, s)
  <2>1. l.error = "none" /\ ~Faulty(src)
    BY <1>5, <1>6, LayeredIs
  <2>2. Loaded(src).settings[s] =
          IF s \in NodeSettings THEN Normal(s, l.settings[s]) ELSE l.settings[s]
    BY <1>1, <1>2, <1>3, <1>6, LayeredIs, OverlaidIs
  <2>3. l.settings[s] = Effective(src, s)
    BY <2>1, LayeredIs
  <2> QED
    BY <2>1, <2>2, <2>3, EffectiveIsNormal
<1> QED
  BY <1>5, <1>6

-----------------------------------------------------------------------------
(* Only Configures sets config, from the arguments and the world of this     *)
(* command.                                                                  *)
ArgvSet ==
  [command : Commands, given : SUBSET {"before", "after"},
   before : AllLayers, after : AllLayers]
WorldSet == [named : AllFiles, found : AllFiles, env : AllLayers]

ConfigInv ==
  /\ phase \in {"invoked", "configured"} => argv \in ArgvSet /\ world \in WorldSet
  /\ phase = "configured" => config = Loaded(SourceOf(argv, world))

LEMMA SourcesAre ==
  ASSUME NEW a \in ArgvSet, NEW w \in WorldSet
  PROVE  SourceOf(a, w) \in AllSources
  BY DEF SourceOf, Source, Given, Cli, ArgvSet, WorldSet, AllSources

(* A handler goes on, or ends with an exit code.                             *)
LEMMA HandlerExits ==
  ASSUME HandlerStep
  PROVE  UNCHANGED commandVars \/ \E c \in {0, 1} : Exits(c)
<1>1. CASE ServiceEnds
  BY <1>1 DEF ServiceEnds
<1>2. CASE ClientObserves
  BY <1>2 DEF ClientObserves
<1>3. CASE HostObserves
  BY <1>3 DEF HostObserves
<1>4. CASE DoctorRuns
  BY <1>4 DEF DoctorRuns
<1> QED
  BY <1>1, <1>2, <1>3, <1>4 DEF HandlerStep

LEMMA StepKeepsConfigInv ==
  ASSUME ConfigInv, [CommandNext]_allVars
  PROVE  ConfigInv'
<1>1. CASE Invoke
  BY <1>1, CommandAssumption DEF Invoke, ConfigInv, ArgvSet, WorldSet
<1>2. CASE RefusesContainer
  BY <1>2 DEF RefusesContainer, Exits, ConfigInv
<1>3. CASE Configures
  BY <1>3 DEF Configures, ConfigInv
<1>4. CASE ConfigurationFails
  BY <1>4 DEF ConfigurationFails, Exits, ConfigInv
<1>5. CASE HandsOver
  BY <1>5 DEF HandsOver, ConfigInv
<1>6. CASE HandlerStep
  <2>1. UNCHANGED commandVars \/ \E c \in {0, 1} : Exits(c)
    BY <1>6, HandlerExits
  <2> QED
    BY <2>1 DEF Exits, commandVars, ConfigInv
<1>7. CASE Others \/ UNCHANGED allVars
  <2>1. UNCHANGED commandVars
    BY <1>7 DEF Others, allVars
  <2> QED
    BY <2>1 DEF commandVars, ConfigInv
<1> QED
  BY <1>1, <1>2, <1>3, <1>4, <1>5, <1>6, <1>7 DEF CommandNext, MainStep

LEMMA AlwaysConfigInv == CommandSpec => []ConfigInv
<1>1. CommandInit => ConfigInv
  BY DEF CommandInit, ConfigInv
<1> QED
  BY <1>1, StepKeepsConfigInv, PTL DEF CommandSpec

(* load_configuration keeps the precedence it documents: whatever the        *)
(* command line, the environment and the file supply, each setting that is   *)
(* in force is that of the highest source that has it.                       *)
THEOREM PrecedenceAlwaysHolds == CommandSpec => []PrecedenceHolds
<1>1. ConfigInv => PrecedenceHolds
  BY LoadedIs, SourcesAre DEF ConfigInv, PrecedenceHolds
<1> QED
  BY <1>1, AlwaysConfigInv, PTL

(* A command is configured if and only if its file can be used and no source *)
(* holds a value that is refused, overridden or not.                         *)
THEOREM RefusedValuesAlwaysFail == CommandSpec => []RefusedValuesFail
<1>1. ConfigInv => RefusedValuesFail
  BY LoadedIs, SourcesAre DEF ConfigInv, RefusedValuesFail
<1> QED
  BY <1>1, AlwaysConfigInv, PTL

-----------------------------------------------------------------------------
(* A list of records in which no id occurs twice.                            *)
Distinct(list) ==
  /\ \A i \in DOMAIN list : list[i].id \in Nat
  /\ \A i, j \in DOMAIN list : list[i].id = list[j].id => i = j

LEMMA NotDuplicatedIsDistinct ==
  ASSUME NEW n \in Nat, NEW list, DOMAIN list = 1..n, Len(list) = n,
         \A i \in 1..n : list[i].id \in Nat,
         ~Duplicated(list)
  PROVE  Distinct(list)
<1> DEFINE ids == [i \in 1..n |-> list[i].id]
<1>1. ids \in Surjection(1..n, PeerIds(list))
  BY DEF Surjection, PeerIds
<1>2. IsFiniteSet(1..n) /\ Cardinality(1..n) = n
  BY FS_Interval
<1>3. Cardinality(PeerIds(list)) <= n /\ Cardinality(PeerIds(list)) \in Nat
  BY <1>1, <1>2, FS_Surjection, FS_CardinalityType
<1>4. Cardinality(PeerIds(list)) = n
  BY <1>3 DEF Duplicated
<1>5. ids \in Injection(1..n, PeerIds(list))
  BY <1>1, <1>2, <1>4, FS_Surjection
<1> QED
  BY <1>5 DEF Injection, IsInjective, Distinct

(* The entries that come before the i-th.                                    *)
Below(list, i) == {j \in DOMAIN list : list[j].id < list[i].id}

LEMMA RanksAre ==
  ASSUME NEW n \in Nat, NEW list, DOMAIN list = 1..n, Distinct(list)
  PROVE  /\ \A i \in 1..n : Rank(list, i) \in 1..n
         /\ \A i, j \in 1..n :
              list[i].id < list[j].id => Rank(list, i) < Rank(list, j)
         /\ \A k \in 1..n : \E i \in 1..n : Rank(list, i) = k
<1>1. IsFiniteSet(1..n) /\ Cardinality(1..n) = n
  BY FS_Interval
<1>2. ASSUME NEW i \in 1..n
      PROVE  /\ IsFiniteSet(Below(list, i)) /\ Cardinality(Below(list, i)) \in Nat
             /\ IsFiniteSet(Below(list, i) \cup {i})
             /\ Cardinality(Below(list, i) \cup {i}) = Cardinality(Below(list, i)) + 1
             /\ Rank(list, i) = 1 + Cardinality(Below(list, i))
  <2>1. Below(list, i) \in SUBSET (1..n)
    BY DEF Below
  <2>2. IsFiniteSet(Below(list, i)) /\ Cardinality(Below(list, i)) \in Nat
    BY <1>1, <2>1, FS_Subset, FS_CardinalityType
  <2>3. i \notin Below(list, i)
    BY DEF Distinct, Below
  <2>4. Rank(list, i) = 1 + Cardinality(Below(list, i))
    BY DEF Rank, Below
  <2> QED
    BY <2>2, <2>3, <2>4, FS_AddElement
<1>3. ASSUME NEW i \in 1..n
      PROVE  Rank(list, i) \in 1..n
  <2>1. Below(list, i) \cup {i} \in SUBSET (1..n)
    BY DEF Below
  <2>2. Cardinality(Below(list, i) \cup {i}) <= n
    BY <1>1, <2>1, FS_Subset
  <2>3. /\ Cardinality(Below(list, i)) \in Nat
        /\ Cardinality(Below(list, i)) + 1 <= n
    BY <1>2, <2>2
  <2>4. Rank(list, i) = 1 + Cardinality(Below(list, i))
    BY <1>2
  <2> QED
    BY <2>3, <2>4
<1>4. ASSUME NEW i \in 1..n, NEW j \in 1..n, list[i].id < list[j].id
      PROVE  Rank(list, i) < Rank(list, j)
  <2>1. Below(list, i) \cup {i} \in SUBSET Below(list, j)
    BY <1>4 DEF Distinct, Below
  <2>2. Cardinality(Below(list, i) \cup {i}) <= Cardinality(Below(list, j))
    BY <1>2, <2>1, FS_Subset
  <2>3. /\ Cardinality(Below(list, i)) \in Nat /\ Cardinality(Below(list, j)) \in Nat
        /\ Cardinality(Below(list, i)) + 1 <= Cardinality(Below(list, j))
    BY <1>2, <2>2
  <2>4. /\ Rank(list, i) = 1 + Cardinality(Below(list, i))
        /\ Rank(list, j) = 1 + Cardinality(Below(list, j))
    BY <1>2
  <2> QED
    BY <2>3, <2>4
<1>5. ASSUME NEW k \in 1..n
      PROVE  \E i \in 1..n : Rank(list, i) = k
  <2> DEFINE ranks == [i \in 1..n |-> Rank(list, i)]
  <2>1. ranks \in [1..n -> 1..n]
    BY <1>3
  <2>2. ASSUME NEW i \in 1..n, NEW j \in 1..n, i # j
        PROVE  ranks[i] # ranks[j]
    <3>1. list[i].id < list[j].id \/ list[j].id < list[i].id
      BY <2>2 DEF Distinct
    <3>2. Rank(list, i) < Rank(list, j) \/ Rank(list, j) < Rank(list, i)
      BY <1>4, <3>1
    <3>3. Rank(list, i) \in Nat /\ Rank(list, j) \in Nat
      BY <1>3
    <3> QED
      BY <3>2, <3>3
  <2>3. ranks \in Injection(1..n, 1..n)
    BY <2>1, <2>2 DEF Injection, IsInjective
  <2>4. ranks \in Surjection(1..n, 1..n)
    BY <1>1, <2>3, FS_Injection
  <2> QED
    BY <2>4 DEF Surjection
<1> QED
  BY <1>3, <1>4, <1>5

LEMMA SortedIs ==
  ASSUME NEW n \in Nat, NEW list, DOMAIN list = 1..n, Distinct(list)
  PROVE  /\ DOMAIN Sorted(list) = 1..n
         /\ Len(Sorted(list)) = n
         /\ Ascending(Sorted(list))
         /\ {Sorted(list)[k] : k \in 1..n} = {list[i] : i \in 1..n}
<1> DEFINE place == [k \in 1..n |-> CHOOSE i \in 1..n : Rank(list, i) = k]
<1>1. /\ \A i \in 1..n : Rank(list, i) \in 1..n
      /\ \A i, j \in 1..n :
           list[i].id < list[j].id => Rank(list, i) < Rank(list, j)
      /\ \A k \in 1..n : \E i \in 1..n : Rank(list, i) = k
  BY RanksAre
<1>2. \A k \in 1..n : place[k] \in 1..n /\ Rank(list, place[k]) = k
  BY <1>1
<1>3. Sorted(list) = [k \in 1..n |-> list[place[k]]]
  BY DEF Sorted
<1> HIDE DEF place
<1>4. DOMAIN Sorted(list) = 1..n /\ Len(Sorted(list)) = n
  BY <1>3
<1>5. ASSUME NEW k \in 1..n, NEW l \in 1..n, k < l
      PROVE  list[place[k]].id < list[place[l]].id
  <2>1. list[place[k]].id \in Nat /\ list[place[l]].id \in Nat
    BY <1>2 DEF Distinct
  <2>2. list[place[k]].id # list[place[l]].id
    <3>1. place[k] # place[l]
      BY <1>2, <1>5
    <3> QED
      BY <1>2, <3>1 DEF Distinct
  <2>3. ~(list[place[l]].id < list[place[k]].id)
    <3>1. /\ place[k] \in 1..n /\ place[l] \in 1..n
          /\ Rank(list, place[k]) = k /\ Rank(list, place[l]) = l
      BY <1>2
    <3>2. list[place[l]].id < list[place[k]].id => Rank(list, place[l]) < Rank(list, place[k])
      BY <1>1, <3>1
    <3> QED
      BY <1>5, <3>1, <3>2
  <2> QED
    BY <2>1, <2>2, <2>3
<1>6. Ascending(Sorted(list))
  BY <1>3, <1>5 DEF Ascending
<1>7. ASSUME NEW i \in 1..n
      PROVE  place[Rank(list, i)] = i
  <2> DEFINE p == place[Rank(list, i)]
  <2>1. p \in 1..n /\ Rank(list, p) = Rank(list, i)
    BY <1>1, <1>2
  <2>2. ~(list[p].id < list[i].id) /\ ~(list[i].id < list[p].id)
    <3>1. /\ list[p].id < list[i].id => Rank(list, p) < Rank(list, i)
          /\ list[i].id < list[p].id => Rank(list, i) < Rank(list, p)
      BY <1>1, <2>1
    <3>2. Rank(list, i) \in 1..n
      BY <1>1
    <3> QED
      BY <2>1, <3>1, <3>2
  <2>3. list[p].id \in Nat /\ list[i].id \in Nat
    BY <2>1 DEF Distinct
  <2>4. list[p].id = list[i].id
    BY <2>2, <2>3
  <2>5. p = i
    <3> HIDE DEF p
    <3> QED
      BY <2>1, <2>4 DEF Distinct
  <2> QED
    BY <2>5
<1>8. {Sorted(list)[k] : k \in 1..n} = {list[i] : i \in 1..n}
  <2>1. \A k \in 1..n : Sorted(list)[k] = list[place[k]] /\ place[k] \in 1..n
    BY <1>2, <1>3
  <2>2. ASSUME NEW i \in 1..n
        PROVE  \E k \in 1..n : Sorted(list)[k] = list[i]
    <3>1. Rank(list, i) \in 1..n /\ place[Rank(list, i)] = i
      BY <1>1, <1>7
    <3> QED
      BY <2>1, <3>1
  <2>3. {Sorted(list)[k] : k \in 1..n} \subseteq {list[i] : i \in 1..n}
    BY <2>1
  <2>4. {list[i] : i \in 1..n} \subseteq {Sorted(list)[k] : k \in 1..n}
    BY <2>2
  <2> QED
    BY <2>3, <2>4
<1> QED
  BY <1>4, <1>6, <1>8

(* The answers, and what the client makes of one peer.                       *)
LEMMA PeerReadIs ==
  ASSUME NEW p \in Peers
  PROVE  /\ PeerRead(p).id \in Nat /\ PeerRead(p).id = p.id
         /\ PeerRead(p) = [id |-> p.id, synced |-> {n \in {p.synced} : n >= 0},
                           ping |-> p.ping]
<1>1. p.id \in Nat /\ p.synced \in Nat \cup {-1}
  BY DEF Peers
<1>2. Synced(p.synced) = {n \in {p.synced} : n >= 0}
  BY <1>1 DEF Synced
<1> QED
  BY <1>1, <1>2 DEF PeerRead

(* A list of peers that has reached the user has all of bitcoind's, each of   *)
(* them once and by ascending id.                                             *)
LEMMA PeersReadIs ==
  ASSUME NEW list \in Seq(Peers), PeersRead(list).kind = "peers",
         NEW n \in Nat, n = Len(list)
  PROVE  LET c == PeersRead(list).content
         IN  /\ DOMAIN c = 1..n /\ Len(c) = n
             /\ Distinct(c) /\ Ascending(c)
             /\ {c[i] : i \in 1..n} = PeersTold(list)
<1> DEFINE c == PeersRead(list).content
           told == [i \in 1..n |-> PeerRead(list[i])]
<1>1. DOMAIN list = 1..n /\ \A i \in 1..n : list[i] \in Peers
  OBVIOUS
<1>2. ~Duplicated(list) /\ c = Sorted(told)
  BY <1>1 DEF PeersRead, Refusal, Item
<1>3. \A i \in 1..n : told[i].id \in Nat /\ told[i].id = list[i].id
  BY <1>1, PeerReadIs
<1>4. Distinct(list)
  BY <1>1, <1>2, <1>3, NotDuplicatedIsDistinct
<1>5. Distinct(told)
  <2>1. \A i, j \in 1..n : told[i].id = told[j].id => i = j
    BY <1>1, <1>3, <1>4 DEF Distinct
  <2> QED
    BY <1>3, <2>1 DEF Distinct
<1>6. {told[i] : i \in 1..n} = PeersTold(list)
  BY <1>1, PeerReadIs DEF PeersTold
<1>7. DOMAIN told = 1..n
  OBVIOUS
<1> HIDE DEF told, c
<1>8. /\ DOMAIN c = 1..n /\ Len(c) = n /\ Ascending(c)
      /\ {c[k] : k \in 1..n} = {told[i] : i \in 1..n}
  <2>1. /\ DOMAIN Sorted(told) = 1..n /\ Len(Sorted(told)) = n /\ Ascending(Sorted(told))
        /\ {Sorted(told)[k] : k \in 1..n} = {told[i] : i \in 1..n}
    BY <1>5, <1>7, SortedIs
  <2> QED
    BY <1>2, <2>1
<1>9. Distinct(c)
  <2>1. \A k \in 1..n : c[k] \in {told[i] : i \in 1..n}
    BY <1>8
  <2>2. \A k \in 1..n : c[k].id \in Nat
    BY <1>5, <1>7, <2>1 DEF Distinct
  <2>3. ASSUME NEW i \in 1..n, NEW j \in 1..n, c[i].id = c[j].id
        PROVE  i = j
    <3>1. ~(i < j) /\ ~(j < i)
      BY <1>8, <2>2, <2>3 DEF Ascending
    <3> QED
      BY <3>1
  <2> QED
    BY <1>8, <2>2, <2>3 DEF Distinct
<1> QED
  BY <1>6, <1>8, <1>9 DEF c

(* Fees travel as whole bitcoins and a fraction of one.                      *)
LEMMA SatoshisAre ==
  ASSUME NEW f \in Nat
  PROVE  (f \div Coin) * Coin + (f % Coin) = f
  BY ObservationAssumption

-----------------------------------------------------------------------------
(* What the container prints is read from one answer, and what the user sees *)
(* from that print.                                                          *)
Kinded(kind) == \E a \in Wire(kind) : wire = Item(kind, a)

ReadingInv ==
  \/ wire = Nothing /\ stdout = Nothing /\ report = Nothing
  \/ /\ Kinded("peers") \/ Kinded("block") \/ Kinded("mempool")
     /\ stdout = Read(wire)
     /\ report = Nothing \/ report = Reread(stdout)

LEMMA KindsAre ==
  /\ \A k, c : Item(k, c).kind = k /\ Item(k, c).content = c
  /\ \A k : Refusal(k).kind = k
  /\ Nothing.kind = "none"
  BY DEF Item, Refusal, Nothing

(* Kind by kind, how the client reads an answer and the host a print.        *)
LEMMA ReadIs ==
  ASSUME NEW said
  PROVE  /\ said.kind = "peers" => Read(said) = PeersRead(said.content)
         /\ said.kind = "mempool" => Read(said) = MempoolRead(said.content)
         /\ said.kind = "block" => Read(said) = BlockRead(said.content)
<1>1. CASE said.kind = "peers"
  BY <1>1 DEF Read
<1>2. CASE said.kind = "mempool"
  BY <1>2 DEF Read
<1>3. CASE said.kind = "block"
  BY <1>3 DEF Read
<1> QED
  BY <1>1, <1>2, <1>3

LEMMA ReadKindIs ==
  ASSUME NEW said, said.kind \in {"peers", "block", "mempool"}
  PROVE  Read(said).kind \in {said.kind, "malformed"}
<1>1. PeersRead(said.content).kind \in {"peers", "malformed"}
  BY KindsAre DEF PeersRead
<1>2. MempoolRead(said.content).kind = "mempool"
  BY KindsAre DEF MempoolRead
<1>3. BlockRead(said.content).kind \in {"block", "malformed"}
  BY KindsAre DEF BlockRead
<1> QED
  BY <1>1, <1>2, <1>3, ReadIs

LEMMA RereadIs ==
  ASSUME NEW printed, printed.kind \in {"malformed", "peers", "block", "mempool"}
  PROVE  /\ Reread(printed).kind \in {printed.kind, "malformed", "sizeExceeded"}
         /\ Reread(printed).kind \in {"block", "mempool"} => Reread(printed) = printed
         /\ Reread(printed).kind = "peers" =>
              Reread(printed).content = Sorted(printed.content)
<1>1. CASE printed.kind \in {"malformed", "block", "mempool"}
  <2>1. Reread(printed) = printed
    <3>1. CASE printed.kind = "malformed"
      BY <3>1 DEF Reread
    <3>2. CASE printed.kind \in {"mempool", "block"}
      BY <3>2 DEF Reread
    <3> QED
      BY <1>1, <3>1, <3>2
  <2> QED
    BY <1>1, <2>1
<1>2. CASE printed.kind = "peers"
  <2>1. Reread(printed) = IF Len(printed.content) > Room THEN Refusal("sizeExceeded")
                          ELSE PeersReread(printed.content)
    BY <1>2 DEF Reread
  <2>2. PeersReread(printed.content) \in
          {Refusal("malformed"), Item("peers", Sorted(printed.content))}
    BY DEF PeersReread
  <2>3. Reread(printed) \in {Refusal("sizeExceeded"), Refusal("malformed"),
                              Item("peers", Sorted(printed.content))}
    BY <2>1, <2>2
  <2> QED
    BY <1>2, <2>3, KindsAre
<1> QED
  BY <1>1, <1>2

LEMMA WireIs ==
  /\ Wire("peers") = PeerLists
  /\ Wire("block") = BlockAnswers
  /\ Wire("mempool") = {[whole |-> f \div Coin, fraction |-> f % Coin] : f \in Fees}
  BY DEF Wire

(* The answer behind a print, and behind what the host shows, is of the same *)
(* kind.                                                                     *)
LEMMA PrintedIsRead ==
  ASSUME ReadingInv, stdout.kind \in {"peers", "block", "mempool"}
  PROVE  Kinded(stdout.kind) /\ wire.kind = stdout.kind /\ stdout = Read(wire)
<1>1. stdout # Nothing
  BY KindsAre
<1>2. Kinded("peers") \/ Kinded("block") \/ Kinded("mempool")
  BY <1>1 DEF ReadingInv
<1>3. \A k : Kinded(k) => wire.kind = k
  BY KindsAre DEF Kinded
<1>4. wire.kind \in {"peers", "block", "mempool"} /\ Kinded(wire.kind)
  BY <1>2, <1>3
<1>5. stdout = Read(wire)
  BY <1>1 DEF ReadingInv
<1>6. stdout.kind \in {wire.kind, "malformed"}
  BY <1>4, <1>5, ReadKindIs
<1> QED
  BY <1>4, <1>5, <1>6

LEMMA ShownIsPrinted ==
  ASSUME ReadingInv, report.kind \in {"peers", "block", "mempool"}
  PROVE  stdout.kind = report.kind /\ report = Reread(stdout)
<1>1. report # Nothing
  BY KindsAre
<1>2. /\ Kinded("peers") \/ Kinded("block") \/ Kinded("mempool")
      /\ stdout = Read(wire) /\ report = Reread(stdout)
  BY <1>1 DEF ReadingInv
<1>3. wire.kind \in {"peers", "block", "mempool"}
  BY <1>2, KindsAre DEF Kinded
<1>4. stdout.kind \in {"peers", "block", "mempool", "malformed"}
  BY <1>2, <1>3, ReadKindIs
<1>5. report.kind \in {stdout.kind, "malformed", "sizeExceeded"}
  BY <1>2, <1>4, RereadIs
<1> QED
  BY <1>2, <1>5

(* In the container: the list of peers is read, and sorted, entry by entry.  *)
LEMMA PeersPrinted ==
  ASSUME ReadingInv, stdout.kind = "peers", NEW n, n = Len(wire.content)
  PROVE  /\ n \in Nat /\ DOMAIN stdout.content = 1..n /\ Len(stdout.content) = n
         /\ Distinct(stdout.content) /\ Ascending(stdout.content)
         /\ {stdout.content[i] : i \in 1..n} = PeersTold(wire.content)
<1>1. Kinded("peers") /\ wire.kind = "peers" /\ stdout = Read(wire)
  BY PrintedIsRead
<1>2. wire.content \in Seq(Peers)
  BY <1>1, WireIs, KindsAre, ObservationAssumption DEF Kinded
<1>3. n \in Nat
  BY <1>2
<1>4. stdout = PeersRead(wire.content)
  BY <1>1, ReadIs
<1> QED
  BY <1>2, <1>3, <1>4, PeersReadIs

LEMMA PrintIsFaithful ==
  ASSUME ReadingInv
  PROVE  Faithful(stdout)
<1>1. ASSUME stdout.kind = "peers"
      PROVE  /\ Ascending(stdout.content)
             /\ {stdout.content[i] : i \in DOMAIN stdout.content} = PeersTold(wire.content)
             /\ Len(stdout.content) = Len(wire.content)
  <2> DEFINE n == Len(wire.content)
  <2>1. n = Len(wire.content)
    OBVIOUS
  <2> HIDE DEF n
  <2>2. /\ n \in Nat /\ DOMAIN stdout.content = 1..n /\ Len(stdout.content) = n
        /\ Distinct(stdout.content) /\ Ascending(stdout.content)
        /\ {stdout.content[i] : i \in 1..n} = PeersTold(wire.content)
    BY <1>1, <2>1, PeersPrinted
  <2> QED
    BY <2>1, <2>2
<1>2. ASSUME stdout.kind = "mempool"
      PROVE  \E f \in Fees : /\ stdout.content = f
                             /\ wire.content = [whole |-> f \div Coin, fraction |-> f % Coin]
  <2>1. Kinded("mempool") /\ wire.kind = "mempool" /\ stdout = Read(wire)
    BY <1>2, PrintedIsRead
  <2>2. PICK f \in Fees : wire.content = [whole |-> f \div Coin, fraction |-> f % Coin]
    BY <2>1, WireIs, KindsAre DEF Kinded
  <2>3. stdout = MempoolRead(wire.content)
    BY <2>1, ReadIs
  <2>4. stdout.content = (f \div Coin) * Coin + (f % Coin)
    BY <2>2, <2>3 DEF MempoolRead, Item
  <2>5. f \in Nat
    BY ObservationAssumption
  <2> QED
    BY <2>2, <2>4, <2>5, SatoshisAre
<1>3. ASSUME stdout.kind = "block"
      PROVE  stdout.content = wire.content /\ wire.content.confirmations # -1
  <2>1. Kinded("block") /\ wire.kind = "block" /\ stdout = Read(wire)
    BY <1>3, PrintedIsRead
  <2>2. stdout = BlockRead(wire.content)
    BY <2>1, ReadIs
  <2>3. wire.content \in BlockAnswers
    BY <2>1, WireIs, KindsAre DEF Kinded
  <2>4. ~(wire.content.confirmations < 0) /\ stdout = Item("block", wire.content)
    BY <1>3, <2>2, KindsAre DEF BlockRead
  <2> QED
    BY <2>3, <2>4, KindsAre DEF BlockAnswers
<1> QED
  BY <1>1, <1>2, <1>3 DEF Faithful

(* On the host: the list is sorted once more, the rest is taken over.        *)
LEMMA ReadingIsFaithful == ReadingInv => ReportIsFaithful
<1> SUFFICES ASSUME ReadingInv PROVE ReportIsFaithful
  OBVIOUS
<1>1. Faithful(stdout)
  BY PrintIsFaithful
<1>2. ASSUME report.kind = "peers"
      PROVE  /\ Ascending(report.content)
             /\ {report.content[i] : i \in DOMAIN report.content} = PeersTold(wire.content)
             /\ Len(report.content) = Len(wire.content)
  <2> DEFINE n == Len(wire.content)
             printed == stdout.content
  <2>1. stdout.kind = "peers" /\ report = Reread(stdout)
    BY <1>2, ShownIsPrinted
  <2>2. n = Len(wire.content)
    OBVIOUS
  <2> HIDE DEF n
  <2>3. /\ n \in Nat /\ DOMAIN printed = 1..n /\ Distinct(printed)
        /\ {printed[i] : i \in 1..n} = PeersTold(wire.content)
    BY <2>1, <2>2, PeersPrinted
  <2>4. report.content = Sorted(printed)
    BY <1>2, <2>1, RereadIs
  <2> HIDE DEF printed
  <2>5. /\ DOMAIN Sorted(printed) = 1..n /\ Len(Sorted(printed)) = n
        /\ Ascending(Sorted(printed))
        /\ {Sorted(printed)[k] : k \in 1..n} = {printed[i] : i \in 1..n}
    BY <2>3, SortedIs
  <2> QED
    BY <2>2, <2>3, <2>4, <2>5
<1>3. report.kind \in {"mempool", "block"} => report = stdout
  BY ShownIsPrinted, RereadIs
<1>4. Faithful(report)
  BY <1>1, <1>2, <1>3 DEF Faithful
<1> QED
  BY <1>1, <1>4 DEF ReportIsFaithful

LEMMA ReadingIsTyped == ReadingInv => ObservationTypeOK
<1> SUFFICES ASSUME ReadingInv PROVE ObservationTypeOK
  OBVIOUS
<1>1. CASE wire = Nothing /\ stdout = Nothing /\ report = Nothing
  BY <1>1, KindsAre DEF ObservationTypeOK
<1>2. CASE /\ Kinded("peers") \/ Kinded("block") \/ Kinded("mempool")
           /\ stdout = Read(wire)
           /\ report = Nothing \/ report = Reread(stdout)
  <2>1. wire.kind \in {"peers", "block", "mempool"}
    BY <1>2, KindsAre DEF Kinded
  <2>2. stdout.kind \in {"peers", "block", "mempool", "malformed"}
    BY <1>2, <2>1, ReadKindIs
  <2>3. report.kind \in {"none", "peers", "block", "mempool", "malformed", "sizeExceeded"}
    BY <1>2, <2>2, KindsAre, RereadIs
  <2> QED
    BY <2>1, <2>2, <2>3 DEF ObservationTypeOK
<1> QED
  BY <1>1, <1>2 DEF ReadingInv

LEMMA StepKeepsReadingInv ==
  ASSUME ReadingInv, [CommandNext]_allVars
  PROVE  ReadingInv'
<1>1. CASE Running({"block", "mempool", "peers"}) /\ ContainerPrints(argv.command)
  <2>1. argv.command \in {"block", "mempool", "peers"} /\ wire.kind = "none" /\ report' = report
    BY <1>1 DEF Running, ContainerPrints
  <2>2. report = Nothing
    BY <2>1, KindsAre DEF ReadingInv, Kinded
  <2>3. (\E a \in Wire(argv.command) : wire' = Item(argv.command, a)) /\ stdout' = Read(wire')
    BY <1>1 DEF ContainerPrints
  <2>4. (Kinded("peers") \/ Kinded("block") \/ Kinded("mempool"))'
    BY <2>1, <2>3 DEF Kinded
  <2> QED
    BY <2>1, <2>2, <2>3, <2>4 DEF ReadingInv
<1>2. CASE HostShows
  <2>1. /\ stdout.kind # "none" /\ report.kind = "none"
        /\ report' = Reread(stdout) /\ UNCHANGED <<wire, stdout>>
    BY <1>2 DEF HostShows
  <2> QED
    BY <2>1, KindsAre DEF ReadingInv, Kinded
<1>3. CASE UNCHANGED observationVars
  BY <1>3 DEF observationVars, ReadingInv, Kinded
<1>4. \/ Running({"block", "mempool", "peers"}) /\ ContainerPrints(argv.command)
      \/ HostShows
      \/ UNCHANGED observationVars
  <2>1. Invoke \/ MainStep => UNCHANGED observationVars
    BY DEF Invoke, MainStep, RefusesContainer, Configures, ConfigurationFails, HandsOver, Idle
  <2>2. ServiceEnds \/ DoctorRuns \/ Others => UNCHANGED observationVars
    BY DEF ServiceEnds, DoctorRuns, Others, Idle
  <2>3. ClientObserves => Running({"block", "mempool", "peers"}) /\ ContainerPrints(argv.command)
    BY DEF ClientObserves
  <2>4. HostObserves => HostShows
    BY DEF HostObserves
  <2>5. UNCHANGED allVars => UNCHANGED observationVars
    BY DEF allVars
  <2> QED
    BY <2>1, <2>2, <2>3, <2>4, <2>5 DEF CommandNext, HandlerStep
<1> QED
  BY <1>1, <1>2, <1>3, <1>4

LEMMA AlwaysReadingInv == CommandSpec => []ReadingInv
<1>1. CommandInit => ReadingInv
  BY DEF CommandInit, ObservationInit, ReadingInv
<1> QED
  BY <1>1, StepKeepsReadingInv, PTL DEF CommandSpec

(* get_peers, get_mempool_overview and get_block, and the host's parsing of  *)
(* what they print: nothing is lost, invented or told twice on the way from  *)
(* bitcoind to the user, however many peers there are and whatever the fees. *)
THEOREM ReportAlwaysIsFaithful == CommandSpec => []ReportIsFaithful
  BY ReadingIsFaithful, AlwaysReadingInv, PTL
================================================================================
