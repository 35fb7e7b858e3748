--------------------------- MODULE ContainerState ----------------------------
(***************************************************************************)
(* The container state as _get_lifecycle_state_deadline of                 *)
(* infrastructure/compose/adapter.py makes it out of `docker compose ps`,  *)
(* and what `compose ps` may print of the node at a given moment.          *)
(***************************************************************************)
EXTENDS NodeRuntime

Entry(service, state, health) ==
  [service |-> service, state |-> state, health |-> health]

(* External: `ps` lists the containers that run and, in some versions, those *)
(* that do not.  A one-shot bitheim container may be among them.             *)
CoreEntries(c) ==
  CASE c = "down" ->
         {Entry("bitcoin-core", state, "none") : state \in {"exited", "created"}}
    [] c = "up" ->
         {Entry("bitcoin-core", "running", health) :
            health \in {"starting", "healthy", "unhealthy"}}
    [] c = "restarting" -> {Entry("bitcoin-core", "restarting", "none")}

Listings(c) ==
  LET core == {{e} : e \in CoreEntries(c)} \cup (IF c = "down" THEN {{}} ELSE {})
  IN  core \cup {l \cup {Entry("bitheim", "running", "none")} : l \in core}

(* One entry's State and Health.                                             *)
RestartingIsStopped(e) ==
  CASE e.state = "running" -> IF e.health = "unhealthy" THEN "unhealthy" ELSE "starting"
    [] e.state # "running" -> "stopped"

StateOfEntry(e) ==
  CASE e.state = "running" -> IF e.health = "unhealthy" THEN "unhealthy" ELSE "starting"
    [] e.state \in {"exited", "dead", "created"} -> "stopped"
    [] OTHER -> "unknown"

(* The listing as a whole: nothing listed is stopped, anything listed        *)
(* without bitcoin-core is unknown.                                          *)
StateOfListing(listing) ==
  IF listing = {} THEN "stopped"
  ELSE IF \E e \in listing : e.service = "bitcoin-core"
       THEN StateOfEntry(CHOOSE e \in listing : e.service = "bitcoin-core")
       ELSE "unknown"

(* Output that is not JSON reads as "unknown" too, whatever the node does.   *)
ReadingOf ==
  [c \in {"down", "up", "restarting"} |->
     {"unknown"} \cup {StateOfListing(l) : l \in Listings(c)}]

Reading == ReadingOf[container]
=============================================================================
