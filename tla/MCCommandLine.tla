---------------------------- MODULE MCCommandLine -----------------------------
(* An instance of CommandLine: every command with at most one option, and     *)
(* at most one setting in the file and in the environment each, in every      *)
(* combination of the three.                                                  *)
EXTENDS CommandLine

One(s, v) == [x \in {s} |-> v]
Text == {"one", "padded", "two", "invalid"}
Layers(settings) ==
  {NoLayer} \cup {One(s, v) : s \in settings, v \in Text} \cup
  {One(s, "homeless") : s \in settings \cap {"data_dir"}}

MCInvocations ==
  {Argv(c, g, NoLayer, l) : c \in {"doctor", "start", "stop", "status"},
                            g \in {{}, {"after"}}, l \in Layers(Settings)} \cup
  {Argv(c, {g}, b, l) : c \in Inspections, g \in {"before", "after"},
                        b \in {NoLayer, One("data_dir", "two")},
                        l \in {NoLayer, One("data_dir", "one"), One("node_id", "invalid")}}

MCAccepted == {a \in MCInvocations : DOMAIN a.after \subseteq Options[a.command]}

MCFiles ==
  {File("toml", "expected", l) : l \in Layers(Settings)} \cup
  {File("toml", "expected", One(s, "huge")) : s \in Timeouts} \cup
  {File("toml", odd, l) : odd \in Schemas \ {"expected"},
                          l \in {NoLayer, One("data_dir", "invalid")}} \cup
  {File(k, "expected", NoLayer) : k \in Kinds \ {"toml"}}

Decoy == File("toml", "expected", One("node_id", "two"))
MCWorlds ==
  {World(f, Decoy, e) : f \in MCFiles, e \in Layers(Settings)} \cup
  {World(NoFile, f, e) : f \in {g \in MCFiles : g.kind # "homeless"},
                         e \in Layers(Settings)}

MCPeer(i, synced) == [id |-> i, agent |-> TRUE, synced |-> synced, ping |-> {}]
MCPeers ==
  {MCPeer(1, 0), MCPeer(2, -1), [MCPeer(3, 7) EXCEPT !.ping = {"fraction"}],
   [MCPeer(3, -1) EXCEPT !.agent = FALSE], [MCPeer(1, 5) EXCEPT !.ping = {"integer"}]}
MCPeerLists == UNION {[1..n -> MCPeers] : n \in 0..4}

MCFees == 0..25
=============================================================================
