---------------------------- MODULE Configuration -----------------------------
(***************************************************************************)
(* load_configuration of bootstrap/configuration.py: five settings, each   *)
(* of which may come from the command line, the environment, a TOML file   *)
(* or a default.                                                           *)
(*                                                                         *)
(* A value is told apart only by what the validators do with it: "one" and *)
(* "two" are accepted, "padded" is "one" with blanks around it, "invalid"  *)
(* is refused.  Two values escape as another error than the validators':   *)
(* "huge" is an integer in the file that float() cannot hold, and          *)
(* "homeless" a path in the home of a user there is none of, which         *)
(* expanduser() has a RuntimeError for; so it has for such a --config.     *)
(* A layer is a function from the settings it supplies to their values.    *)
(***************************************************************************)
EXTENDS Naturals, FiniteSets

(* In the order in which every layer is gone through.                        *)
Order ==
  <<"data_dir", "node_id", "compose_subnet", "startup_timeout", "shutdown_timeout">>
Settings == {Order[i] : i \in DOMAIN Order}
NodeSettings == Settings \ {"data_dir"}
Timeouts == {"startup_timeout", "shutdown_timeout"}

Values == {"one", "padded", "two", "invalid", "huge", "homeless"}
Refusals == {"invalid", "huge", "homeless"}
NoLayer == [s \in {} |-> "one"]
AllLayers == UNION {[supplied -> Values] : supplied \in SUBSET Settings}

Errors ==
  {"none", "file_not_found", "not_a_file", "io_error", "UnicodeDecodeError",
   "toml_decode_error", "schema_error", "validation_error", "OverflowError",
   "RuntimeError"}

NormalUntrimmed(s, v) == v

(* The validators trim; the data directory alone is taken as it stands.      *)
Normal(s, v) == IF v = "padded" /\ s # "data_dir" THEN "one" ELSE v

(* What a value that is refused raises, and the first such value of a layer. *)
Raised(s, v) ==
  IF s \in Timeouts /\ v = "huge" THEN "OverflowError"
  ELSE IF s = "data_dir" /\ v = "homeless" THEN "RuntimeError"
  ELSE "validation_error"

Fault(layer) ==
  LET refused == {i \in DOMAIN Order :
                    Order[i] \in DOMAIN layer /\ layer[Order[i]] \in Refusals}
      first == CHOOSE i \in refused : \A j \in refused : i <= j
  IN  IF refused = {} THEN "none"
      ELSE Raised(Order[first], layer[Order[first]])

(* What has been read so far: the settings, or the error that ended it.      *)
Defaults == [error |-> "none", settings |-> [s \in Settings |-> "default"]]
Failure(e) == [error |-> e, settings |-> [s \in Settings |-> "default"]]

(* A layer on top of what the lower ones gave: each of its values is         *)
(* validated, whether or not a higher layer has the setting as well.         *)
Overlaid(loaded, layer) ==
  IF loaded.error # "none" THEN loaded
  ELSE IF Fault(layer) # "none" THEN Failure(Fault(layer))
  ELSE [loaded EXCEPT !.settings =
          [s \in Settings |-> IF s \in DOMAIN layer
                              THEN Normal(s, layer[s]) ELSE loaded.settings[s]]]

(* A configuration file: what the path leads to and, for TOML, whether the   *)
(* root, [runtime] or [node] has something unexpected, and its settings.     *)
Kinds ==
  {"absent", "homeless", "directory", "unreadable", "notUtf8", "notToml", "toml"}
Schemas == {"expected", "oddRoot", "oddRuntime", "oddNode"}
File(kind, schema, settings) == [kind |-> kind, schema |-> schema, settings |-> settings]
NoFile == File("absent", "expected", NoLayer)
AllFiles ==
  {f \in [kind : Kinds, schema : Schemas, settings : AllLayers] :
     f.kind # "toml" => f.schema = "expected" /\ f.settings = NoLayer}

(* [runtime], with its data_dir, is done before [node] is looked at.         *)
WithToml(f) ==
  LET runtime == [s \in DOMAIN f.settings \cap {"data_dir"} |-> f.settings[s]]
  IN  CASE f.schema \in {"oddRoot", "oddRuntime"} -> Failure("schema_error")
        [] f.schema = "oddNode" ->
             IF Fault(runtime) # "none" THEN Failure(Fault(runtime))
             ELSE Failure("schema_error")
        [] f.schema = "expected" -> Overlaid(Defaults, f.settings)

FromFile(f) ==
  CASE f.kind = "homeless" -> Failure("RuntimeError")
    [] f.kind = "directory" -> Failure("not_a_file")
    [] f.kind = "unreadable" -> Failure("io_error")
    [] f.kind = "notUtf8" -> Failure("UnicodeDecodeError")
    [] f.kind = "notToml" -> Failure("toml_decode_error")
    [] f.kind = "toml" -> WithToml(f)

(* What a command has to go by: whether --config was given, the file it      *)
(* names, bitheim.toml, the environment and the command line.                *)
Source(given, named, found, env, cli) ==
  [given |-> given, named |-> named, found |-> found, env |-> env, cli |-> cli]

(* Only a path given with --config has to exist, and bitheim.toml is then    *)
(* not looked at.                                                            *)
WithFile(src) ==
  CASE src.given /\ src.named.kind = "absent" -> Failure("file_not_found")
    [] src.given /\ src.named.kind # "absent" -> FromFile(src.named)
    [] ~src.given /\ src.found.kind = "absent" -> Defaults
    [] ~src.given /\ src.found.kind # "absent" -> FromFile(src.found)

LayeredEnvLast(src) ==
  Overlaid(Overlaid(WithFile(src), src.cli), src.env)
(* Validates only what the command line leaves of the environment.           *)
LayeredThenValidated(src) ==
  Overlaid(WithFile(src),
           [s \in DOMAIN src.cli \cup DOMAIN src.env |->
              IF s \in DOMAIN src.cli THEN src.cli[s] ELSE src.env[s]])
Layered(src) ==
  Overlaid(Overlaid(WithFile(src), src.env), src.cli)

(* NodeConfiguration validates its fields once more.                         *)
Loaded(src) ==
  LET l == Layered(src)
  IN  Overlaid(l, [s \in NodeSettings |-> l.settings[s]])

-----------------------------------------------------------------------------
(* The documented order, setting by setting, from the highest source down.   *)
FileOf(src) == IF src.given THEN src.named ELSE src.found

Effective(src, s) ==
  CASE s \in DOMAIN src.cli -> Normal(s, src.cli[s])
    [] s \notin DOMAIN src.cli /\ s \in DOMAIN src.env -> Normal(s, src.env[s])
    [] s \notin DOMAIN src.cli \cup DOMAIN src.env /\ s \in DOMAIN FileOf(src).settings ->
         Normal(s, FileOf(src).settings[s])
    [] OTHER -> "default"

(* A file that cannot be used, or a value that is refused, in any source.    *)
Faulty(src) ==
  \/ FileOf(src).kind \notin {"absent", "toml"}
  \/ FileOf(src).kind = "absent" /\ src.given
  \/ FileOf(src).schema # "expected"
  \/ \E layer \in {FileOf(src).settings, src.env, src.cli}, s \in Settings :
       s \in DOMAIN layer /\ layer[s] \in Refusals
=============================================================================
