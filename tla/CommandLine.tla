----------------------------- MODULE CommandLine ------------------------------
(***************************************************************************)
(* One invocation of `bitheim`, from its arguments to its exit code: main  *)
(* and the handlers of interfaces/cli.py.  Arguments are parsed, start and *)
(* stop refuse to run in a container, the configuration is loaded, and a   *)
(* service is called.  What start, stop and status do then is the subject  *)
(* of NodeLifecycle, and how an inspection fares of Inspection; here are   *)
(* what an inspection shows (Observations) and all of doctor (Doctor).     *)
(***************************************************************************)
EXTENDS Doctor, Configuration, Observations

CONSTANTS
  Invocations,   (* bound: the command lines that are looked at              *)
  Worlds         (* bound: the files and environments they meet              *)

VARIABLES
  argv,     (* the arguments                                                 *)
  world,    (* the files and the environment                                 *)
  config,   (* what load_configuration returned or raised                    *)
  phase,    (* how far main is                                               *)
  code      (* the exit code, -1 until then                                  *)

commandVars == <<argv, world, config, phase, code>>
allVars == <<vars, doctorVars, observationVars, commandVars>>

Commands ==
  {"doctor", "start", "stop", "status", "node", "block", "mempool", "peers"}
Inspections == {"node", "block", "mempool", "peers"}

(* The options each subparser has for a setting; --timeout is the startup    *)
(* timeout of start and the shutdown timeout of stop.                        *)
Options ==
  [c \in Commands |->
     CASE c = "doctor" -> {"data_dir"}
       [] c = "start" -> {"data_dir", "node_id", "startup_timeout"}
       [] c = "stop" -> {"data_dir", "node_id", "shutdown_timeout"}
       [] OTHER -> {"data_dir", "node_id"}]

(* The parser of `inspect` has --config and --data-dir as well, to be given  *)
(* before the name of the inspection.                                        *)
Argv(command, given, before, after) ==
  [command |-> command, given |-> given, before |-> before, after |-> after]
World(named, found, env) == [named |-> named, found |-> found, env |-> env]
NoArgv == Argv("status", {}, NoLayer, NoLayer)
NoWorld == World(NoFile, NoFile, NoLayer)

ASSUME CommandAssumption ==
  /\ Invocations \subseteq [command : Commands, given : SUBSET {"before", "after"},
                            before : AllLayers, after : AllLayers]
  /\ \A a \in Invocations : DOMAIN a.after \subseteq Options[a.command]
  /\ Worlds \subseteq [named : AllFiles, found : AllFiles, env : AllLayers]

(* The subparser fills in its own defaults over what `inspect` has parsed.   *)
Given(a) == "after" \in a.given
Cli(a) == a.after

SourceOf(a, w) == Source(Given(a), w.named, w.found, w.env, Cli(a))

CommandInit ==
  /\ Init
  /\ container = "down" /\ cookie = "absent" /\ image = "good"
  /\ DoctorInit
  /\ ObservationInit
  /\ argv = NoArgv
  /\ world = NoWorld
  /\ config = Defaults
  /\ phase = "shell"
  /\ code = -1

-----------------------------------------------------------------------------
Idle == UNCHANGED <<vars, doctorVars, observationVars>>

(* External: the user's shell.                                               *)
Invoke ==
  /\ phase = "shell"
  /\ phase' = "invoked"
  /\ argv' \in Invocations
  /\ world' \in Worlds
  /\ Idle
  /\ UNCHANGED <<config, code>>

(* Everything but the exit code is behind a command that has ended.          *)
Exits(c) ==
  /\ phase' = "ended"
  /\ code' = c
  /\ argv' = NoArgv
  /\ world' = NoWorld
  /\ config' = Defaults

HostOnly == argv.command \in {"start", "stop"} /\ context = "container"

(* _ensure_host_execution_context                                            *)
RefusesContainer ==
  /\ phase = "invoked"
  /\ HostOnly
  /\ Exits(1)
  /\ Idle

Configures ==
  /\ phase = "invoked"
  /\ ~HostOnly
  /\ phase' = "configured"
  /\ config' = Loaded(SourceOf(argv, world))
  /\ Idle
  /\ UNCHANGED <<argv, world, code>>

(* Caught by doctor if it is a ConfigurationError, which the errors that     *)
(* load_configuration does not translate are not, and else by main.          *)
ConfigurationFails ==
  /\ phase = "configured"
  /\ config.error # "none"
  /\ Exits(1)
  /\ Idle

(* The handler goes on; what it was configured from is of no interest now.   *)
HandsOver ==
  /\ phase = "configured"
  /\ config.error = "none"
  /\ phase' = "running"
  /\ argv' = [NoArgv EXCEPT !.command = argv.command]
  /\ world' = NoWorld
  /\ config' = Defaults
  /\ Idle
  /\ UNCHANGED code

Running(commands) == phase = "running" /\ argv.command \in commands

(* A service returns, or raises something that main turns into exit code 1.  *)
ServiceEnds ==
  /\ \/ Running({"start", "stop", "status", "node"}) /\ \E c \in {0, 1} : Exits(c)
     \/ Running({"block", "mempool", "peers"}) /\ Exits(1)
  /\ Idle

(* In a container the client's result is what the user sees.                 *)
ClientObserves ==
  /\ Running({"block", "mempool", "peers"})
  /\ ContainerPrints(argv.command)
  /\ IF context = "container" THEN Exits(IF stdout'.kind = "malformed" THEN 1 ELSE 0)
     ELSE UNCHANGED commandVars
  /\ UNCHANGED <<vars, doctorVars>>

HostObserves ==
  /\ Running({"block", "mempool", "peers"})
  /\ HostShows
  /\ Exits(IF report'.kind \in {"malformed", "sizeExceeded"} THEN 1 ELSE 0)
  /\ UNCHANGED <<vars, doctorVars>>

DoctorRuns ==
  /\ Running({"doctor"})
  /\ DoctorBegins \/ DoctorStep
  /\ IF check' = "done" THEN Exits(IF passed' THEN 0 ELSE 1) ELSE UNCHANGED commandVars
  /\ UNCHANGED observationVars

MainStep ==
  \/ RefusesContainer
  \/ Configures
  \/ ConfigurationFails
  \/ HandsOver

HandlerStep ==
  \/ ServiceEnds
  \/ ClientObserves
  \/ HostObserves
  \/ DoctorRuns

(* The one-shot container of doctor's inspection, and the node.              *)
Others ==
  /\ Running({"doctor"})
  /\ (\E d \in Ticks : DelegateActs(d)) \/ NodeMovesOn
  /\ UNCHANGED <<commandVars, observationVars>>

CommandNext == Invoke \/ MainStep \/ HandlerStep \/ Others

CommandSpec == CommandInit /\ [][CommandNext]_allVars

(* Every wait of a handler has a timeout; the rest is computation.           *)
FairCommandSpec == CommandSpec /\ WF_allVars(HandlerStep)

-----------------------------------------------------------------------------
CommandTypeOK ==
  /\ TypeOK
  /\ DoctorTypeOK
  /\ ObservationTypeOK
  /\ argv.command \in Commands
  /\ DOMAIN argv.after \subseteq Options[argv.command]
  /\ config.error \in Errors
  /\ config.settings["data_dir"] \in {"one", "padded", "two", "default"}
  /\ \A s \in NodeSettings : config.settings[s] \in {"one", "two", "default"}
  /\ phase \in {"shell", "invoked", "configured", "running", "ended"}
  /\ code \in {-1, 0, 1}

(* The precedence load_configuration documents: each setting has the value   *)
(* of the highest source that supplies it, normalised, whichever settings    *)
(* the other sources supply.                                                 *)
PrecedenceHolds ==
  phase = "configured" /\ config.error = "none" =>
    \A s \in Settings : config.settings[s] = Effective(SourceOf(argv, world), s)

(* "or empty values": a value that is refused fails the load from whatever   *)
(* source it comes, also where a higher source would have overridden it, and *)
(* nothing else does but a file that cannot be used.                         *)
RefusedValuesFail ==
  phase = "configured" => (config.error # "none" <=> Faulty(SourceOf(argv, world)))

(* Every handler returns, that of doctor included, though Docker and the node *)
(* may never answer.                                                         *)
HandlerEnds == phase = "running" ~> phase = "ended"

-----------------------------------------------------------------------------
(* What the documentation says and the code does not do.                     *)

(* "4. Explicit CLI parameters", the highest source: an option the parser    *)
(* accepted is in force, the last one if it is given twice.                  *)
OptionsAreHonoured ==
  phase = "configured" /\ config.error = "none" =>
    \A s \in DOMAIN argv.before \cup DOMAIN argv.after :
      config.settings[s] =
        Normal(s, IF s \in DOMAIN argv.after THEN argv.after[s] ELSE argv.before[s])
=============================================================================
