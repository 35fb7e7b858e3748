# Bitheim: verification project

Bitheim (`src/src/bitheim`) is a command-line tool that runs one Bitcoin Core
node, on regtest, in Docker Compose: it starts and stops the node, says how it
is, and reads a few facts from it over RPC. Nothing of Bitheim stays running.
Every command is a short-lived process that calls `docker` several times under
a deadline, and what makes it hard is that everything around it moves on its
own: the container crashes and is restarted by the daemon, bitcoind rotates its
RPC cookie, other commands run at the same time, and a `docker compose` that is
killed at its timeout leaves a request behind that the daemon still carries out.

The TLA+ modules here model that: the command line and its configuration, the
host side, the container side, the daemon and the node. TLC checks small
instances, and TLAPS proves every safety property that they confirm, for any number of
processes, any timeouts, any chain and any configuration.

## 1. Inventory

| Part | Source | State it keeps | Operations |
|---|---|---|---|
| Command line | `interfaces/cli.py` | none | the parser, one handler per command; `_map_error_category` and `main` turn an exception in the container into a line on stderr |
| Doctor | `handle_doctor` of `interfaces/cli.py` | whether all checks have passed so far | directory, `docker`, Compose, and then the node: state and inspection on the host, the RPC client in a container |
| Configuration | `bootstrap/configuration.py` | none | `load_configuration`: five settings from a command line, the environment, a file and defaults |
| Lifecycle service | `application/service.py` | the readiness deadline of a start | `start_node`, `stop_node`, `get_node_status` |
| Compose adapter, lifecycle | `infrastructure/compose/adapter.py` | one deadline per call | `start`, `stop`, `get_status`, `probe_health`, `get_lifecycle_state` |
| Compose adapter, preflight | same | one deadline, a list of network names | `_check_docker_runtime_available`, `_check_subnet_collision`, `_ensure_image_available` |
| Compose adapter, inspection | same | one deadline | `inspect_node/block/mempool/peers`, `_run_delegated_inspection` |
| Readiness probe (in the container) | `infrastructure/bitcoin/rpc_probe.py` | the cookie it read | `probe_rpc_http` |
| RPC client (in the container) | `infrastructure/bitcoin/rpc_client.py` | a deadline, per request a cookie | `get_node_overview`, `get_block`, `get_mempool`, `get_peers` |
| Managed node and daemon | `resources/compose/compose.yml` (external) | container, RPC server, cookie file, image, chain, networks | start, crash, restart, kill, replace |
| Domain models | `domain/*.py` | immutable values | constructors that validate |
| Logging, Docker diagnostics, resources | the rest | none | formatting, checks that no command calls, files |

How they interact. `bitheim start` asks for the status, calls `adapter.start`
(the preflight checks, then `compose up -d`) and then polls `probe_health`
every half second until a readiness deadline. `bitheim stop` reads the
container's state, calls `compose stop -t grace` and reads the state again.
`bitheim status` reads the state and then probes. A probe and an inspection are
both delegated: `compose run --rm --no-deps bitheim ...` starts a one-shot
container in which the same program, finding itself in a container, talks to
bitcoind over RPC with the cookie on a shared volume. The container's answer
comes back as JSON on stdout, or as a category on stderr, and the host
validates the JSON a second time. `bitheim doctor` combines a state query and an
inspection. Every command but `start` and `stop` in a container, which are
refused first, loads the configuration before it does anything.

What is correct, per part:

- *Lifecycle.* A result that says something of the node is true of it at some
  moment of the command. A start or a stop that succeeds undisturbed holds.
  A command that succeeded has left nothing behind that will still change the
  node. Every command ends, within its deadlines.
- *Preflight.* No collision is overlooked among the networks that stay where
  they are, none is reported that is the project's own, and `compose up` is not
  issued before both images were there.
- *Inspection.* A block shown was on the best chain, an overview came from
  compatible nodes, an error means what it says and keeps its category on the
  way to the host, and the command ends in time.
- *Observations.* What is shown is what bitcoind said, peer by peer and satoshi
  by satoshi, or else an error.
- *Configuration.* Each setting comes from the highest source that has it, and a
  value that is refused is refused in whatever source it stands.
- *Doctor.* "All checks passed" is only said of a node that was down, or served
  as it should, during the command; and doctor ends.

`PROJECT.json` lists the components with their status and, as `hazards`, the
places in the code where these can go wrong. Two of them have no property,
because the code does nothing about them: a network created after the preflight
check has listed the networks, and an image removed or replaced after it was
found. The properties of the preflight model stop short of both.

## 2. Modules

| Module | Models | State and actions |
|---|---|---|
| `NodeRuntime` | the container, bitcoind's RPC server, its cookie and the image it runs (external) | `Listen`, `WarmedUp`, `Crash`, `Restart`, `Killed`, `Halt`, `Boot`: parts that the modules below put into their own actions |
| `ContainerState` | `_get_lifecycle_state_deadline` | `Listings` is what `compose ps` may print now, `Reading` what the code makes of it |
| `NodeLifecycle` | `NodeLifecycleService` over `ComposeLifecycleAdapter`, with `probe_rpc_http` at the far end; any number of processes and the daemon | see below |
| `LifecycleContract` | what the docstrings of the service promise: each command ends once, with a listed result, and claims about the node are backed | `Begin`, `NodeMoves`, `End` |
| `LifecycleTiming` | `NodeLifecycle` with a stopwatch on every process | `TimedNext` |
| `RpcClient` | `BitcoinRpcClient`: requests of lstat, open, send and body, under one deadline | `CookieLooked`, `CookieOpened`, `Answered`, `BodyRead` |
| `Inspection` | the `inspect_*` methods on the host, composed with `RpcClient` and `ContainerState` | `StateQueried`, `RunStarts`, `RunGoesOn`, `RunReturns`, `RunTimesOut`, ... |
| `InspectionContract` | what the docstrings of `NodeObservationPort` promise: each inspection ends once, with a result of its operation, and what it says of the node or of a block is backed | `Begin`, `NodeMoves`, `End` |
| `Preflight` | the checks of `adapter.start` and its `compose up`, for several projects on one daemon | `Listed`, `Inspected`, `ImageChecked`, `Built`, `UpReturns`, `OthersAct` |
| `Configuration` | `load_configuration` as operators on layers of settings | pure: `Layered`, `Loaded`, and the documented precedence as `Effective` and `Faulty` |
| `Observations` | the parsing of answers in the container and again on the host; `sorted()` is defined by the `Rank` of each peer | `ContainerPrints`, `HostShows` |
| `Doctor` | `handle_doctor`, on top of `Inspection` | `DoctorBegins`, `DockerChecked`, `ComposeChecked`, `DoctorStateQueried`, `DoctorInspects`, `DoctorAsks` |
| `CommandLine` | `main` and the handlers: one invocation from its arguments to its exit code; composes `Configuration`, `Observations` and `Doctor` | `Invoke`, `RefusesContainer`, `Configures`, `ConfigurationFails`, `HandsOver`, `ServiceEnds`, ... |
| `MCNodeLifecycle`, `MCPreflight`, `MCCommandLine` | symmetry and constant values for TLC | |
| `NodeLifecycleProofs` | theorems: types, and the evidence behind what a command reports | |
| `LifecycleContractProofs` | theorem: `NodeLifecycle` implements `LifecycleContract` | |
| `NodeLifecycleHoldProofs` | theorems: what a start or a stop has achieved holds | |
| `LifecycleTimingProofs` | theorem: no command outlasts its allowance | |
| `InspectionProofs` | theorems: types, blocks, overviews, errors and deadline of an inspection; `Inspection` implements `InspectionContract` | |
| `PreflightProofs` | theorems: what the preflight checks guarantee at `compose up` | |
| `CommandLineProofs` | theorems: precedence and validation of the configuration, and what an inspection shows | |
| `DoctorProofs` | theorems: what a pass of doctor is worth, and the types of a whole command | |

**NodeLifecycle, state and code.** `pc[p]` is the subprocess a process waits
for, `budget[p]` the time left to the deadline that call shares, `left[p]` the
time left to `start_node`'s own readiness deadline, `seen[p]` the container
state that `get_status` holds while it probes, `auth[p]` the cookie the probe
has read, `req[p]` the Compose request at the daemon, `outcome[p]` what was
returned or raised. `witness[p]` and `solo[p]` are history: the facts that held
at some moment of the command, and whether another start or stop was about. One
action is one wait with all the Python after it, up to the next wait: e.g.
`StopReturns` is the return of `compose stop` with its return code, timeout and
the step to the state query that follows, `ConcludePoll` everything from the
return of `probe_health` to the sleep or the end of the loop. Between any two
actions the daemon (`DaemonStarts`, `DaemonReplaces`, `DaemonStops`,
`DaemonKills`, `DaemonLeaves`) and the node (`NodeStep`) may act, and so may the
other processes.

**Time** is not a clock. Every wait takes some ticks `d` off its deadline, from
none to all that is left, and a timeout is the case where it takes all. This is
what the code can tell: it never compares two clocks, it only subtracts from
deadlines. `docker info` before a `compose ps` is merged into it, since between
the two nothing is read that is used after. A sleep, unlike a subprocess, has a
least duration.

**Requests.** `subprocess.run` kills the `docker compose` CLI at its timeout,
not the request. `req[p]` therefore outlives the command: an up or a stop whose
CLI timed out is still carried out, at any later time or never. A CLI that
exits with an error has withdrawn its request.

**Inspection, its two ends.** The client in the container (`call`, `request`,
`cleft`, `creds`, `answer`, `category`) and the host (`at`, `hleft`, `outcome`)
are processes of their own, with a deadline each. They meet in `RunReturns`,
where `heard` is what Compose has added to the container's stderr: the host
believes a category only on the first line, with at most the message after it.
`CategorySurvives` says that this works, and it rests on `main` turning the
logger off in a container (`Logged`): a single log record there would turn every
error into "unavailable". `ClientBreaks` stands for a container killed under the client
and for a client that exits with a category of its deployment ("configuration",
"unexpected"): the host takes both for "unavailable" whatever else is on stderr. `shown`, `witness` and `lacked` are history: the
blocks that were on the best chain and the facts that held at some moment of the
command, and whether the node had none of the blocks asked for when it began.

**Configuration, values.** A value is told apart only by what the validators do
with it: accepted, with blanks around it, refused, an integer too large for
`float()`, or a path in the home of a user there is none of. `Loaded` follows the code: the file, then the environment, then the
command line, each layer validated in full before the next one is laid over it,
and the first error ends it. `Effective` and `Faulty` are the documentation,
setting by setting from the highest source down; `PrecedenceHolds` and
`RefusedValuesFail` say that the two agree.

**CommandLine.** `phase` is how far `main` is. What `start`, `stop` and `status`
do is the subject of `NodeLifecycle` and only ends here (`ServiceEnds`), and how
an inspection fares is that of `Inspection`; an inspection's result, the
configuration and all of `doctor` are here in full. Doctor runs the actions of
`Inspection` themselves while the node moves (`NodeMovesOn`), so that its state
query and its inspection see two different moments.

**Faulty variants.** A definition that stands right before the one it varies
and is used nowhere (`AcceptsAnyCookie` before `Accepts`) is that code with a
plausible bug in it: a dropped guard, a swapped check, a fresh timeout instead
of the remaining one. Each property has one that it notices; `PROJECT.json`
lists them under `mutants`.

## 3. What the runs check

### Runs that pass

| Run | Bounds | Shows |
|---|---|---|
| `pair` | two processes, timeout 3 ticks, two ticks a second, probes of one tick | `HealthyWasSeen`, `IncompatibleWasSeen`, `StoppedWasSeen`: no start, stop or status reports what was not so at any moment of it. `StopHolds`, `StartHolds`: an undisturbed start or stop stays in force. `SuccessLeavesNothing`: success leaves no request at the daemon. `UnknownStateIsKept`: after an inconclusive `compose ps` no state of the node is claimed because the probe went well. `KeepsContract`: `NodeLifecycle` implements `LifecycleContract`, with `facts` and `phase` as the mapping |
| `timing` | one process, timeout 5 | `WithinAllowance`: the sum of the deadlines, which for a start is 15 s plus twice `--timeout`, is an upper bound. `CommandsEnd`: every command ends |
| `inspection` | one inspection, chains of height 1 on two forks, container deadline 1 and host deadline 2 | `BlockWasActive`, `OverviewIsBacked`, `AuthenticationMeansRestart`, `CategorySurvives`, `WithinDeadline`: what is shown was so, an error means what it says, in time. `InspectionEnds`: the command ends. `KeepsContract`: `Inspection` implements `InspectionContract`, with the block or blocks of `Asked`, the host's `Stage` and what is `Returned` as the mapping |
| `preflight` | two projects with nested subnets, one foreign network, two addresses, timeout 2 | `StandingNetworksAreClear`, `CollisionIsForeign`, `UpFindsBothImages` |
| `command` | any command with at most one option, and at most one setting in the file and one in the environment; three directory levels; doctor's inspection with timeout 2; lists of up to 4 peers with 3 allowed and 2 that fit; 10 satoshis to a coin, fees up to 25 | `PrecedenceHolds`, `RefusedValuesFail`: the configuration. `ReportIsFaithful`: what an inspection shows. `DoctorPassIsBacked`: what exit code 0 of doctor is worth. `HandlerEnds`: every handler returns |

Why these bounds are enough. Two processes give every pairing of start, stop
and status, and each interacts with another only through the node and through
`solo`; a third adds a second disturber of the same kind (the safety claims of
`pair` are proved for any number). Ticks only have to tell
apart "nothing left", "something left" and, for `Grace`, less than a second from
a second: three ticks with two to a second have all of these, also a grace
period longer than the budget. In `timing` the timeout of 5 lets a start poll,
sleep and poll again before the last, shortened probe. A reorganisation needs
one height with two blocks, a height above the tip one missing block. With a
deadline of 1 in the container and of 2 on the host either may pass first, or
both at once. In
`preflight` one subnet lies within the other, so that a collision is possible
in both directions, and with a foreign one. In `command` one setting in each of
three sources has all the conflicts there are between sources, in all orders;
that any number of settings behave the same is proved. Room for two peers of at
most three has a list that is accepted by the client and too long for the host;
ten satoshis to a coin and fees up to 25 have whole and fractional amounts; and
three levels of directories have one between the data directory and the root.
The chain stands still there (`Forks` is empty), since doctor asks for no block.

The runs turn deadlock checking off because commands end and the node may stay
as it is: a state with nothing left to do is legitimate.

### Runs that show a disagreement

Each of these checks what the documentation says and finds the code doing
something else; `findings` in `PROJECT.json` has the quotations.

| Run | The documentation | The code |
|---|---|---|
| `racing` | SPEC-0004 10.1: operations on one project fail safely or serialise | no lock anywhere: two Compose requests at the daemon at once |
| `expired` | `probe_health` returns UNKNOWN on an expired budget | the state query inside it raises `RuntimeUnavailableError`, which `status` and `start` pass on |
| `killed` | SPEC-0004 10.3: a forceful termination is reported distinctly | after `compose stop -t` has killed the node, `stop` reports plain STOPPED |
| `height` | SPEC-0005 11: an unknown height is "resource not found" | bitcoind's -8 becomes `malformed_response` |
| `deadline` | SPEC-0005 5.1: the deadline is configurable up to 60 s | it is not handed to the container, whose 10 s apply first |
| `torn` | the overview is a snapshot of a compatible node | its two halves may come from a node and its successor |
| `options` | explicit options of the command line come before everything else | `--config` and `--data-dir` between `inspect` and its subcommand are accepted and ignored |

Others were noticed without a run of their own, because they are of one step or
of one value: a configuration error outside `doctor` is reported as an
unexpected one (SPEC-0003 6.2); a file that is not UTF-8, an integer too
large for `float()` and a path in the home of an unknown user raise errors that
are not `ConfigurationError` (in the model `UnicodeDecodeError`, `OverflowError`
and `RuntimeError`, which end the command all the same);
the inspections of the port and of the service document only `RpcError`s, where
a `compose ps` that cannot be run lets `RuntimeUnavailableError` through
(`runtimeUnavailable` in `InspectionContract`);
the subnet check accepts every network Python calls private, where its message
says RFC 1918; `doctor` in a container exits 1 without a node, where SPEC-0002
and the README have it exit 0; a data directory that is writable but not
searchable passes.

`expired` runs under the fair specification: the counterexample ends in a step
that the code really takes.

### Fairness

`FairSpec` (and `FairTimedSpec`) assume of each process that a host step which
stays possible is taken: `subprocess.run(timeout=...)` returns at the latest at
its timeout, and `time.sleep` returns. In the model this is the step with
`d = budget[p]`. Nothing is assumed of the daemon, of bitcoind, of the one-shot
container or of the user: the liveness properties hold with all of them silent
for ever. For an inspection only the host's steps are fair, so `InspectionEnds`
rests on the host's timeout alone. For a whole command (`FairCommandSpec`) it is
the handler's own steps, `HandlerStep`: every subprocess and socket of a handler
has a timeout and the rest is computation, so `HandlerEnds` does not depend on
Docker, on the node or on the delegated container. In a container the client's
socket timeout stands for that of the subprocess.

## 4. What is proved

Every safety property that a passing run checks is also proved, invariants and
action properties and both refinements: for any set of processes and any positive
budgets (`BudgetAssumption`), for any chains, forks and deadlines
(`ClientAssumption`, `TimeoutAssumption`), for any projects, subnets and networks
(`PreflightAssumption`), for any lists of peers, any fees and any limits on them
(`ObservationAssumption`), for any arguments, files and environments
(`CommandAssumption`, which only says what these are), and for any depth of
directories of at least two (`DepthAssumption`: the data directory and the root).
There is no other assumption.

### What a command reports was so (`NodeLifecycleProofs`)

- `TypeCorrect`: `Spec => []TypeOK`; in particular no deadline ever goes below
  zero, which rests on every wait being given what is left of one.
- `HealthyIsBacked`, `IncompatibleIsBacked`, `StoppedIsBacked`: the three
  `...WasSeen` properties of the `pair` run.

The argument. None of these is inductive: that a probe may say "healthy" after
its second call depends on what the first one saw, and on the node not having
been replaced in between. `IInv` adds

- `Deadlines`: a poll's probe ends before the readiness deadline, and a sleep
  begins before it;
- `ServerInv`: a current cookie is that of a server that listens, and a server
  that listens is in a running container;
- `CookieInv`: a cookie the probe holds is valid only while the server that
  wrote it listens; and a probe past its chain call, with its cookie still
  valid, talks to a node that is not on the wrong chain;
- `WitnessInv`: what is true now is in the witness of every active command;
- `NoResultYet`: a command that has not ended has no outcome.

`CookieInv` is the heart: the image can change only through a container that
is down, which closes the RPC server, which makes the cookie stale, so the
second call is refused. This is why the probe reads its cookie once, and why the
RPC client, which reads it anew for each request, has the `torn` finding.
`FinishKeeps`, `AwaitKeeps`, `LaunchKeeps`, `PollKeeps` and `ConcludeKeeps` are
lemmas about the ways a host step ends, `HostKeeps`, `DaemonKeeps`, `KillKeeps`,
`NodeKeeps` and `BeginKeeps` use them for the actions, and `NextKeepsIInv` puts
these together.

### The service keeps its contract (`LifecycleContractProofs`)

`UnknownStateKept`: `Spec => UnknownStateIsKept`. `ContractKept`: `Spec =>
KeepsContract`, a refinement: `phase` is `pc` with all
waits taken together, `facts` what is true of the node. `CommandInv` says which
command waits for which call, so that a stop never ends with a start's result.
A host step either leaves what the contract sees alone (`Continues`) or ends the
command (`Ends`), with a result of that command which, by `Evidence` after the
step, the witness backs; a change of the node is `NodeMoves`. `Simulation` puts
the cases together.

The contract does not tell an unknown state from one that a later look has made
good, so what `get_status` does with an inconclusive `compose ps` is a property
of its own. For it `CommandInv` says where a state that is still to be combined
can be (`seen` is set in the calls of the probe and nowhere else), and
`HostKeepsUnknown` goes through the steps of those calls: each of them goes on,
fails with the runtime, or concludes, with "unknown" (`UnknownConcludesUnknown`).

### What was achieved holds (`NodeLifecycleHoldProofs`)

- `UndisturbedStopHolds`, `UndisturbedStartHolds`: `StopHolds` and `StartHolds`.
- `NothingIsLeft`: `SuccessLeavesNothing`.

The danger is a request that outlives its command. `RequestInv` says where
requests come from: each is one that its process waits for, or has given up with
an error; a command that succeeded has none. `SoloInv` says that an undisturbed
command's `solo` really excludes the others: none of them has a request, or can
still issue one. Together: once an undisturbed command has succeeded there is no
request at all, and without one the node goes neither down nor up nor to another
image (`RuntimeHolds`).

### No command outlasts its allowance (`LifecycleTimingProofs`)

`CommandsKeepTheirAllowance`: `TimedSpec => []WithinAllowance`. `Owes(p)` is what
the command may still take: the rest of the deadline it works to, and what it is
`After` that still to be given. The invariant is `elapsed[p] + Owes(p) <=
Allowance(cmd[p])`, and each step `Pays`: it takes from `Owes` at least what it
adds to `elapsed`. During the polls the readiness deadline counts and not that
of the probe, which by `Deadlines` ends before it; `PollingInv` and `CommandInv`
tell when that is, and `RequestInv` that a SIGKILL falls into a wait for Compose.

### An inspection means what it says (`InspectionProofs`)

`TypeCorrect`, `BlockReallyWasActive`, `OverviewReallyIsBacked`,
`AuthenticationReallyMeansRestart`, `CategoryAlwaysSurvives` and
`AlwaysWithinDeadline`: all the invariants of the run `inspection`. What a client
reports depends on what its earlier requests saw, so `IInv` follows them:

- `OverviewInv`: a second request of an overview is made only after a version
  was seen, and an answer not yet read is one that was so;
- `TargetInv`: a height stands for all of its blocks until `getblockhash` has
  named the one that was active (`OneActive`: there is at most one), and a block
  that `getblock` has confirmed has been on the best chain during the command;
- `CookieInv`: a cookie file that was replaced after its lstat, and credentials
  that no longer open the server, are traces of a moment at which the server was
  closed, because (`ServerInv`) a current cookie means a server that listens;
- `WitnessInv`, `ControlInv`, `OutcomeInv`, `TimeInv`: what is so now has been
  seen, the client lives within the run, an outcome that claims something is the
  client's category, and time spent and time left make up the deadline.

`FinishKeeps` and `WaitKeeps` cover the host's half of a step, `ExitKeeps` and
`GoesOnKeeps` the client's, and one lemma per action uses them.

### An inspection keeps its contract (`InspectionProofs`)

`InspectionKeepsContract`: `Spec => KeepsContract`, a refinement of
`InspectionContract`, in which there are no requests, no container and no
deadline. `IInv` does not say enough for it: that "not found" is only said of a
block the node did not have when the command began depends on blocks never being
forgotten, and on a height whose block the node had named never being missing in
the request that follows. `PromiseInv` adds

- `KnownInv`: the best chain is among the known blocks; what an inspection by
  hash finds missing now was missing at the beginning; and the block that
  `getblockhash` has named is known from then on;
- `AnswerInv`: which operation an answer not yet read can belong to;
- `Due`: the category with which the client exits is one that the contract allows
  its operation, with what backs it.

Most steps are `Unseen` by the contract. `RunPromises` covers the client's,
`HostPromises` the host's, of which those that end the command are the contract's
`End` by `FinishPromises`, and `NodePromises` the node's, for which `ChainMovesAre`
shows that the known blocks only grow. `StepPromises` puts the cases together.

### The preflight checks hold (`PreflightProofs`)

`TypeCorrect`, `NoneIsOverlooked`, `CollisionsAreForeign` and
`UpHasFoundBothImages`: all the invariants of the run `preflight`. The list of
networks is out of date as soon as it is made; `StandingInv` is what is still
true of it: what was listed, stands and is in the way has yet to be inspected.
`NetworksKeep` shows that nothing others do to networks disturbs that.

### The configuration is as documented (`CommandLineProofs`)

`PrecedenceAlwaysHolds` and `RefusedValuesAlwaysFail`, for layers that supply any
of the settings at once. `OverlaidIs` is the lemma about one layer on top of
others: it adds its refusals and replaces its settings, and no other. It is used
for the file (`WithFileIs`), the environment and the command line (`LayeredIs`),
and for the validation that `NodeConfiguration` repeats (`LoadedIs`), which
changes nothing because what is in force was accepted and is in normal form
already (`EffectiveIsNormal`).

### What is shown is what was said (`CommandLineProofs`)

`ReportAlwaysIsFaithful`: `CommandSpec => []ReportIsFaithful`, for lists of any
length. A report is read twice, in the container and on the host, and both sort
and check it. The sorted list is defined without recursion: peer `i` goes to the
place of its `Rank`, one more than the number of peers with a smaller id. That
this is a permutation where no id occurs twice is `RanksAre`, a count of the
peers below one; `SortedIs` says that the result is in order and has the same
peers; and `NotDuplicatedIsDistinct` that the code's test for duplicates, a set
that is as large as the list, finds them all. `SatoshisAre`: the coins
and the rest into which a fee is split make up the fee. `ReadingInv` ties what is printed and what is shown
back to what bitcoind answered; `PrintIsFaithful` is about the print, which is
what a user in a container sees, and `ReadingIsFaithful` about the host.

### A pass of doctor is worth something (`DoctorProofs`)

- `DoctorPassReallyIsBacked`: `CommandSpec => []DoctorPassIsBacked`.
- `CommandTypeCorrect`: `CommandSpec => []CommandTypeOK`.

Doctor asks the node in two ways: on the host through an inspection of its own,
whose steps are those of `Inspection`, and in a container straight from the
client, without a host that waits for it. The inductive invariant is `DoctorInv`:

- `StageInv`: which check is made where, and that nothing has been asked of the
  node before its turn;
- `SeenInv`: what is true now of the node that is watched is in `witness`, and a
  node that is down has been seen down since doctor began, which is what makes a
  state of "stopped" evidence of its own (`StoppedIsDown`);
- `AskedInv`: the client begins with its first request, makes the second only
  after a version was seen, and exits with "ok" only if both halves were;
- `PassInv`: as long as all checks have passed the data directory is usable.

`ClientExits`, `ClientAnswered`, `ClientBodyRead` and `ClientGoesOn` are about the
client's steps alone and serve both ways. `AcceptedIsUsable` is about the search
for the nearest directory that exists: `NearestExists` takes the first one on the
way up, as there is one by the well-foundedness of `<` on the naturals.

### Only model-checked

`CommandsEnd`, `InspectionEnds` and `HandlerEnds`: liveness under fairness is out
of the prover's reach. The seven runs that show a disagreement are
counterexamples, which TLC finds and nothing has to be proved about.

## 5. Not modelled

- The wording of messages and the layout of text and JSON output.
- Field checks on RPC results and delegated JSON that no real bitcoind can fail:
  hashes and hexadecimal numbers, ranges of heights and sizes. Those it can fail
  are in (version, chain, confirmations, number of peers, a peer in the middle
  of its handshake, a ping that is a JSON integer).
- Faults of the cookie file that bitcoind does not cause: a symbolic link or
  another file in its place, permissions, size, encoding and format, and an HTTP
  403 from a node that serves. `AuthenticationMeansRestart` is therefore about a
  cookie that nobody but bitcoind has touched and an `rpcallowip` that lets the
  container in, as in `compose.yml`.
- Sizes and nesting depths of answers in bytes; that a list of peers may be too
  long for the host is in (`Room`).
- Structured logging, but for the level in a container on which
  `CategorySurvives` rests: formatting and redaction keep no state, and nothing
  else depends on them.
- `infrastructure/compose/diagnostics.py`: exported, and called by no command.
- `application/ports.py` is an interface, without code; what its docstrings
  promise is `InspectionContract`.
- Packaged resources and image builds: files.
- Wallets and funds (SPEC-0006): specified, not implemented.
- Details of Docker that the code does not look at: health checks are a value
  `compose ps` may show, and a build always yields the image under its tag.

## 6. Plan

Done, in this order because the lifecycle is what the tool is for: `NodeRuntime`,
`ContainerState`, `NodeLifecycle`, its contract and timing, their proofs,
`RpcClient` and `Inspection`, `Preflight`; then `Configuration`, `Observations`,
`Doctor` and `CommandLine`, which compose into one invocation; and the proofs
about `Inspection`, `Preflight` and the configuration.

Then the proofs of what `command` checks: the reports, doctor, and the types of a
whole command; and `InspectionContract`, with the proof that `Inspection`
implements it.

Next: an abstract specification of `Preflight` (a start that reaches `compose up`
has found every network that stood in the way), and one of a whole command, from
its arguments to its exit code, which `CommandLine` implements.
