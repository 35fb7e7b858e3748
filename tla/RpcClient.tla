------------------------------ MODULE RpcClient ------------------------------
(***************************************************************************)
(* BitcoinRpcClient (infrastructure/bitcoin/rpc_client.py): one `bitheim   *)
(* inspect` in the Bitheim container, which sends one or two requests to   *)
(* bitcoind under one deadline.  The cookie is read anew for each of them: *)
(* lstat, open, and only then the request, with the node free to rotate    *)
(* the cookie, restart or change its chain between any two of these.       *)
(*                                                                         *)
(* Field checks on answers are left out except those a bitcoind can fail:  *)
(* version, chain, confirmations, and what makes a list of peers unfit:    *)
(* more than 256 of them, or one still without a user agent (module        *)
(* Observations has these in detail).  Of the cookie file it is assumed    *)
(* that nobody but bitcoind has touched it: what the client has against a  *)
(* file that is a symbolic link, not regular, unreadable, too long, or not *)
(* of the form user:password, and HTTP 403, from a node that serves, are   *)
(* left out.                                                               *)
(***************************************************************************)
EXTENDS NodeRuntime, Naturals, Sequences

CONSTANTS
  Forks,           (* tells apart the blocks of one height                  *)
  MaxHeight,       (* bound: the highest block of any chain                 *)
  ClientDeadline   (* the 10 s a handler in the container allows itself     *)

ASSUME ClientAssumption ==
  /\ MaxHeight \in Nat \ {0}
  /\ ClientDeadline \in Nat \ {0}

VARIABLES
  active,   (* the node's best chain: the fork taken at each height above 0 *)
  known,    (* all the blocks it has                                        *)
  op,       (* the inspection                                               *)
  target,   (* the blocks it may be about: one hash, or all of one height   *)
  call,     (* where the client is within a request                         *)
  request,  (* which of its requests that is                                *)
  cleft,    (* time left to the client's deadline                           *)
  file,     (* the cookie file since its lstat: "same" or replaced, "other" *)
  creds,    (* the credentials read from it                                 *)
  answer,   (* what the node had to say                                     *)
  category  (* how the client exits: "ok" or the category on its stderr     *)

chainVars == <<active, known>>
clientVars == <<op, target, call, request, cleft, file, creds, answer, category>>

Blocks == (1..MaxHeight) \X Forks
IsActive(b) == b[1] <= Len(active) /\ active[b[1]] = b[2]

Methods ==
  [node    |-> <<"getnetworkinfo", "getblockchaininfo">>,
   height  |-> <<"getblockhash", "getblock">>,
   hash    |-> <<"getblock">>,
   mempool |-> <<"getmempoolinfo">>,
   peers   |-> <<"getpeerinfo">>]

Method == Methods[op][request]
Answers ==
  {"none", "ok", "warming", "wrongNode", "outOfRange", "unknownBlock", "staleBlock",
   "unfitPeers"}
Categories ==
  {"none", "ok", "authentication", "incompatible", "timeout", "unavailable",
   "malformed_response", "not_found"}

ClientTypeOK ==
  /\ active \in Seq(Forks)
  /\ known \subseteq Blocks
  /\ op \in DOMAIN Methods
  /\ target \subseteq Blocks
  /\ call \in {"none", "lstat", "open", "send", "body", "exited"}
  /\ request \in 1..2
  /\ cleft \in 0..ClientDeadline
  /\ file \in {"none", "same", "other"}
  /\ creds \in {"none", "valid", "stale"}
  /\ answer \in Answers
  /\ category \in Categories

ClientInit ==
  /\ active = <<>>
  /\ known = {}
  /\ op = "node"
  /\ target = {}
  /\ call = "none"
  /\ request = 1
  /\ cleft = 0
  /\ file = "none"
  /\ creds = "none"
  /\ answer = "none"
  /\ category = "none"

(* External: a block extends the best chain or, after a reorganisation, an   *)
(* earlier block of it.                                                      *)
TipChanges ==
  /\ rpc = "ready"
  /\ \E h \in 0..Len(active), f \in Forks :
       /\ h < MaxHeight
       /\ h < Len(active) => active[h + 1] # f
       /\ active' = Append(SubSeq(active, 1, h), f)
       /\ known' = known \cup {<<h + 1, f>>}

-----------------------------------------------------------------------------
(* The client exits with a category; nothing is retried.                     *)
Exit(c) ==
  /\ call' = "exited"
  /\ category' = c
  /\ cleft' = 0
  /\ file' = "none"
  /\ creds' = "none"
  /\ UNCHANGED <<op, target, request>>

ClientStarts ==
  /\ call = "none"
  /\ call' = "lstat"
  /\ cleft' = ClientDeadline
  /\ UNCHANGED <<op, target, request, file, creds, answer, category>>

(* _read_cookie_header up to os.open                                         *)
CookieLooked(d) ==
  /\ call = "lstat"
  /\ d = 0
  /\ \/ cookie = "absent" /\ Exit("authentication") /\ UNCHANGED answer
     \/ /\ cookie # "absent"
        /\ call' = "open"
        /\ file' = "same"
        /\ UNCHANGED <<op, target, request, cleft, creds, answer, category>>

(* os.open, fstat and os.read, then the deadline.  A node that has not yet   *)
(* opened its server may still be writing the file; a new file may be given  *)
(* the inode of the old one.                                                 *)
CookieOpened(d) ==
  /\ call = "open"
  /\ UNCHANGED answer
  /\ \/ /\ cookie = "absent" \/ file = "other" \/ rpc = "closed"
        /\ Exit("authentication")
     \/ cookie # "absent" /\ d >= cleft /\ Exit("timeout")
     \/ /\ cookie # "absent"
        /\ d < cleft
        /\ call' = "send"
        /\ cleft' = cleft - d
        /\ file' = "none"
        /\ creds' = IF cookie = "current" THEN "valid" ELSE "stale"
        /\ UNCHANGED <<op, target, request, category>>

(* External: bitcoind executes the request.  Code -28 while it warms up, -8  *)
(* for a height above its tip, -5 for a block it does not have, and minus    *)
(* one confirmation for a block it has off its best chain.                   *)
Execution ==
  CASE rpc = "warming" -> {"warming"}
    [] rpc = "ready" /\ Method = "getnetworkinfo" ->
         {IF image = "wrongVersion" THEN "wrongNode" ELSE "ok"}
    [] rpc = "ready" /\ Method = "getblockchaininfo" ->
         {IF image = "wrongChain" THEN "wrongNode" ELSE "ok"}
    [] rpc = "ready" /\ Method = "getblockhash" ->
         {IF \E b \in target : IsActive(b) THEN "ok" ELSE "outOfRange"}
    [] rpc = "ready" /\ Method = "getblock" ->
         {IF target \cap known = {} THEN "unknownBlock"
          ELSE IF \E b \in target : IsActive(b) THEN "ok" ELSE "staleBlock"}
    [] rpc = "ready" /\ Method = "getmempoolinfo" -> {"ok"}
    [] rpc = "ready" /\ Method = "getpeerinfo" -> {"ok", "unfitPeers"}

(* getblockhash leaves the one block the next request will ask for.          *)
Resolved(a) ==
  IF Method = "getblockhash" /\ a = "ok" THEN {b \in target : IsActive(b)} ELSE target

RefusedWithAnyStatus == rpc # "closed"

(* HTTP 401 and 403                                                          *)
Refused == rpc # "closed" /\ creds = "stale"

(* opener.open, up to the status line.  Another HTTP status than 200, 401,   *)
(* 403 and 500 is "unavailable", like a connection that fails.               *)
Answered(d) ==
  /\ call = "send"
  /\ \/ Exit("unavailable") /\ UNCHANGED answer
     \/ Refused /\ Exit("authentication") /\ UNCHANGED answer
     \/ d >= cleft /\ Exit("timeout") /\ UNCHANGED answer
     \/ /\ rpc # "closed"
        /\ creds = "valid"
        /\ d < cleft
        /\ answer' \in Execution
        /\ target' = Resolved(answer')
        /\ call' = "body"
        /\ cleft' = cleft - d
        /\ UNCHANGED <<op, request, file, creds, category>>

CategoryOfStaleIsOk(a) ==
  CASE a \in {"ok", "staleBlock"} -> "ok"
    [] a = "wrongNode" -> "incompatible"
    [] a = "unknownBlock" -> "not_found"
    [] a \in {"unfitPeers", "warming", "outOfRange"} -> "malformed_response"

CategoryOfWrongIsOk(a) ==
  CASE a \in {"ok", "wrongNode"} -> "ok"
    [] a = "unknownBlock" -> "not_found"
    [] a \in {"staleBlock", "unfitPeers", "warming", "outOfRange"} -> "malformed_response"

CategoryOfStaleIsMissing(a) ==
  CASE a = "ok" -> "ok"
    [] a = "wrongNode" -> "incompatible"
    [] a \in {"unknownBlock", "staleBlock"} -> "not_found"
    [] a \in {"unfitPeers", "warming", "outOfRange"} -> "malformed_response"

(* The exception an answer raises, as _map_error_category names it: any code *)
(* but -5 is an RpcProtocolError, which goes by "malformed_response".        *)
CategoryOf(a) ==
  CASE a = "ok" -> "ok"
    [] a = "wrongNode" -> "incompatible"
    [] a = "unknownBlock" -> "not_found"
    [] a \in {"staleBlock", "unfitPeers", "warming", "outOfRange"} -> "malformed_response"

(* The server has gone since it took the request.                            *)
ServerLost == creds # "valid"

(* _read_and_parse_envelope, the checks on the result, and the next request. *)
(* A body that ends early is no JSON; a connection that is reset fails.      *)
BodyRead(d) ==
  /\ call = "body"
  /\ UNCHANGED answer
  /\ \/ Exit("unavailable")
     \/ d < cleft /\ ServerLost /\ Exit("malformed_response")
     \/ d >= cleft /\ Exit("timeout")
     \/ d < cleft /\ CategoryOf(answer) # "ok" /\ Exit(CategoryOf(answer))
     \/ /\ d < cleft
        /\ CategoryOf(answer) = "ok"
        /\ request = Len(Methods[op])
        /\ Exit("ok")
     \/ /\ d < cleft
        /\ CategoryOf(answer) = "ok"
        /\ request < Len(Methods[op])
        /\ request' = request + 1
        /\ call' = "lstat"
        /\ cleft' = cleft - d
        /\ creds' = "none"
        /\ UNCHANGED <<op, target, file, category>>

ClientStep(d) ==
  \/ CookieLooked(d)
  \/ CookieOpened(d)
  \/ Answered(d)
  \/ BodyRead(d)
=============================================================================
