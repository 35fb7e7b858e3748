----------------------------- MODULE NodeRuntime -----------------------------
(***************************************************************************)
(* The managed Bitcoin Core container as Bitheim sees it from outside:     *)
(* what the Docker daemon does to it and what it does on its own.  None of *)
(* this is Bitheim's code; the module states what resources/compose/       *)
(* compose.yml asks of the daemon (restart: unless-stopped, the cookie     *)
(* file on the bitcoin-rpc volume) and what bitcoind does while it starts, *)
(* runs, crashes and stops.                                                *)
(***************************************************************************)

VARIABLES
  container,  (* the bitcoin-core container: "down" covers absent, created  *)
              (* and exited, all of which `compose ps` leaves out           *)
  rpc,        (* bitcoind's RPC server: "closed", "warming" (code -28) or   *)
              (* "ready"                                                    *)
  cookie,     (* the .cookie file on the shared volume                      *)
  image       (* what the running container was created from                *)

runtimeVars == <<container, rpc, cookie, image>>

(* An image whose node reports chain "regtest" and version 310100, or one   *)
(* that reports another chain, or another version.                          *)
Images == {"good", "wrongChain", "wrongVersion"}

RuntimeTypeOK ==
  /\ container \in {"down", "up", "restarting"}
  /\ rpc \in {"closed", "warming", "ready"}
  /\ cookie \in {"absent", "stale", "current"}
  /\ image \in Images

(* A command may find the project never started, stopped or running.  The   *)
(* cookie is written before the RPC server answers anything.                *)
RuntimeInit ==
  /\ RuntimeTypeOK
  /\ container # "restarting"
  /\ container = "down" => rpc = "closed"
  /\ rpc = "closed" <=> cookie # "current"

(* What is true of the node right now, in the terms the commands report.    *)
Facts ==
  {f \in {"down", "compatible", "incompatible"} :
     \/ f = "down" /\ container = "down"
     \/ f = "compatible" /\ rpc = "ready" /\ image = "good"
     \/ f = "incompatible" /\ rpc = "ready" /\ image # "good"}

-----------------------------------------------------------------------------

(* bitcoind writes a fresh cookie and opens its RPC server.                 *)
Listen ==
  /\ container = "up"
  /\ rpc = "closed"
  /\ rpc' = "warming"
  /\ cookie' = "current"
  /\ UNCHANGED <<container, image>>

WarmedUp ==
  /\ rpc = "warming"
  /\ rpc' = "ready"
  /\ UNCHANGED <<container, cookie, image>>

(* restart: unless-stopped brings a crashed container back by itself.       *)
Restart ==
  /\ container = "restarting"
  /\ container' = "up"
  /\ UNCHANGED <<rpc, cookie, image>>

(* The process is gone; a cookie it did not delete no longer opens anything.*)
Dies(next) ==
  /\ container' = next
  /\ rpc' = "closed"
  /\ cookie' = IF cookie = "current" THEN "stale" ELSE cookie
  /\ UNCHANGED image

Crash ==
  /\ container = "up"
  /\ Dies("restarting")

Killed ==
  /\ container # "down"
  /\ Dies("down")

(* SIGTERM within the grace period: bitcoind flushes and deletes its cookie.*)
Halt ==
  /\ container # "down"
  /\ container' = "down"
  /\ rpc' = "closed"
  /\ cookie' = IF cookie = "current" THEN "absent" ELSE cookie
  /\ UNCHANGED image

Boot(img) ==
  /\ container = "down"
  /\ container' = "up"
  /\ image' = img
  /\ UNCHANGED <<rpc, cookie>>
=============================================================================
