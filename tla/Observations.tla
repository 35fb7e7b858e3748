----------------------------- MODULE Observations -----------------------------
(***************************************************************************)
(* What is left of bitcoind's answer on its way to the user: the client in *)
(* the container parses it into the domain's records (_parse_* of          *)
(* infrastructure/bitcoin/rpc_client.py), prints them as JSON, and the     *)
(* host parses that into the same records again (_parse_* of               *)
(* infrastructure/compose/adapter.py).                                     *)
(*                                                                         *)
(* Of a peer the model has its id, whether its user agent is known (not so *)
(* while the handshake goes on), how far it is synced (-1 for "not yet")   *)
(* and its ping (none yet, a JSON integer, a JSON fraction); of a block    *)
(* its confirmations (-1 off the best chain) and its neighbours; of the    *)
(* mempool its fees, in satoshis, which travel as a decimal of bitcoins.   *)
(* An optional value is a set of at most one element.                      *)
(***************************************************************************)
EXTENDS Integers, Sequences, FiniteSets

CONSTANTS
  MaxPeers,   (* 256: more are refused on either side                        *)
  Room,       (* the number of peers whose listing fits into 64 KiB          *)
  Coin,       (* bound on 10^8: satoshis to a bitcoin                        *)
  PeerLists,  (* bound: the answers to getpeerinfo that are looked at        *)
  Fees        (* bound: the mempool's fees, in satoshis                      *)

(* What bitcoind may say of a peer, and of the fees.                         *)
Peers ==
  [id : Nat, agent : BOOLEAN, synced : Nat \cup {-1},
   ping : {{}, {"integer"}, {"fraction"}}]

ASSUME ObservationAssumption ==
  /\ MaxPeers \in Nat \ {0}
  /\ Room \in Nat \ {0}
  /\ Coin \in Nat \ {0}
  /\ PeerLists \subseteq Seq(Peers)
  /\ Fees \subseteq Nat

VARIABLES
  wire,    (* what bitcoind answered                                         *)
  stdout,  (* what the container printed, or that it refused the answer      *)
  report   (* what the user is shown, or "malformed", "sizeExceeded"         *)

observationVars == <<wire, stdout, report>>

Item(kind, content) == [kind |-> kind, content |-> content]
Nothing == Item("none", <<>>)
Refusal(why) == Item(why, <<>>)

PeerIds(list) == {list[i].id : i \in DOMAIN list}
Duplicated(list) == Cardinality(PeerIds(list)) < Len(list)

(* By ascending id, the only key; no two peers of a list share one here.     *)
Rank(list, i) == 1 + Cardinality({j \in DOMAIN list : list[j].id < list[i].id})
Sorted(list) ==
  [k \in DOMAIN list |-> list[CHOOSE i \in DOMAIN list : Rank(list, i) = k]]

ObservationInit ==
  /\ wire = Nothing
  /\ stdout = Nothing
  /\ report = Nothing

(* External: the answers bitcoind may give.                                  *)
BlockAnswers ==
  [confirmations : -1..1, previous : {{}, {"p"}}, next : {{}, {"n"}}]
Wire(kind) ==
  CASE kind = "peers" -> PeerLists
    [] kind = "block" -> BlockAnswers
    [] kind = "mempool" -> {[whole |-> f \div Coin, fraction |-> f % Coin] : f \in Fees}

-----------------------------------------------------------------------------
(* _parse_peer and PeerSummary in the container.                             *)
Unfit(p) == ~p.agent \/ p.ping = {"integer"}

SyncedUnlessZero(n) == IF n <= 0 THEN {} ELSE {n}
Synced(n) == IF n = -1 THEN {} ELSE {n}
PeerRead(p) == [id |-> p.id, synced |-> Synced(p.synced), ping |-> p.ping]

PeersRead(list) ==
  IF Len(list) > MaxPeers \/ (\E i \in DOMAIN list : Unfit(list[i])) \/ Duplicated(list)
  THEN Refusal("malformed")
  ELSE Item("peers", Sorted([i \in DOMAIN list |-> PeerRead(list[i])]))

(* total_fee, an exact decimal, times 10^8; Decimal has digits to spare.     *)
MempoolRead(m) == Item("mempool", m.whole * Coin + m.fraction)

BlockRead(b) ==
  IF b.confirmations < 0 THEN Refusal("malformed") ELSE Item("block", b)

Read(answer) ==
  CASE answer.kind = "peers" -> PeersRead(answer.content)
    [] answer.kind = "mempool" -> MempoolRead(answer.content)
    [] answer.kind = "block" -> BlockRead(answer.content)

(* On the host: the size of stdout, then the domain's checks once more,      *)
(* which have nothing against a record that passed them before.              *)
PeersReread(list) ==
  IF Len(list) > MaxPeers \/ Duplicated(list)
  THEN Refusal("malformed")
  ELSE Item("peers", Sorted(list))

Reread(printed) ==
  CASE printed.kind = "malformed" -> printed
    [] printed.kind = "peers" ->
         IF Len(printed.content) > Room THEN Refusal("sizeExceeded")
         ELSE PeersReread(printed.content)
    [] printed.kind \in {"mempool", "block"} -> printed

-----------------------------------------------------------------------------
(* One inspection: the container's process, and the host once it has exited. *)
ContainerPrints(kind) ==
  /\ wire.kind = "none"
  /\ \E a \in Wire(kind) : wire' = Item(kind, a)
  /\ stdout' = Read(wire')
  /\ UNCHANGED report

HostShows ==
  /\ stdout.kind # "none"
  /\ report.kind = "none"
  /\ report' = Reread(stdout)
  /\ UNCHANGED <<wire, stdout>>

-----------------------------------------------------------------------------
Ascending(list) == \A i, j \in DOMAIN list : i < j => list[i].id < list[j].id

(* What the answer is about, peer by peer.                                   *)
PeersTold(list) ==
  {[id |-> list[i].id,
    synced |-> {n \in {list[i].synced} : n >= 0},
    ping |-> list[i].ping] : i \in DOMAIN list}

(* Something that was said of bitcoind's answer tells what the answer does.  *)
Faithful(said) ==
  /\ said.kind = "peers" =>
       /\ Ascending(said.content)
       /\ {said.content[i] : i \in DOMAIN said.content} = PeersTold(wire.content)
       /\ Len(said.content) = Len(wire.content)
  /\ said.kind = "mempool" =>
       \E f \in Fees : /\ said.content = f
                       /\ wire.content = [whole |-> f \div Coin, fraction |-> f % Coin]
  /\ said.kind = "block" =>
       said.content = wire.content /\ wire.content.confirmations # -1

(* Whatever is shown is what bitcoind said, by the container to a user in it *)
(* and by the host: each peer once, by ascending id, "not yet" only where    *)
(* bitcoind has -1; the fees to the satoshi; no block off the best chain.    *)
ReportIsFaithful == Faithful(stdout) /\ Faithful(report)

ObservationTypeOK ==
  {wire.kind, stdout.kind, report.kind} \subseteq
    {"none", "peers", "mempool", "block", "malformed", "sizeExceeded"}
=============================================================================
