-------------------------- MODULE MCClientRequest --------------------------
(***************************************************************************)
(* Instances for TLC of serving requests and of loading responses from the *)
(* cache, one per behaviour.                                               *)
(*                                                                         *)
(* ClientRequest: requests that differ from a plain GET in one or two      *)
(* respects, and configurations that disable one mechanism or more.        *)
(* CacheLoad: two calls of load for any of two swarms, and room for one    *)
(* lookup, so that a lookup is dropped while it is used.                   *)
(***************************************************************************)
EXTENDS ClientRequest, CacheLoad

VARIABLE part  \* the part whose behaviour this is

Get ==
  [field |-> {}, host |-> "public", method |-> "GET", override |-> FALSE,
   private |-> FALSE, https |-> TRUE, grouped |-> TRUE, reval |-> FALSE,
   keep_alive |-> TRUE, fault |-> "none"]

MCRequests ==
  {Get,
   [Get EXCEPT !.reval = TRUE],
   [Get EXCEPT !.private = TRUE, !.https = FALSE],
   [Get EXCEPT !.method = "POST", !.keep_alive = FALSE],
   [Get EXCEPT !.method = "POST", !.host = "local_tld"],
   [Get EXCEPT !.method = "HEAD", !.field = {"public"}],
   [Get EXCEPT !.field = {"dcache"}],
   [Get EXCEPT !.grouped = FALSE],
   [Get EXCEPT !.override = TRUE],
   [Get EXCEPT !.host = "private_addr"],
   [Get EXCEPT !.host = "front_end"],
   [Get EXCEPT !.fault = "auth"],
   [Get EXCEPT !.fault = "connect", !.method = "CONNECT"],
   [Get EXCEPT !.fault = "websocket"],
   [Get EXCEPT !.fault = "target"]}

All == {"origin", "blind", "public", "dcache"}

MCConfigs ==
  {[enabled |-> All, private_targets |-> FALSE],
   [enabled |-> All \ {"origin"}, private_targets |-> TRUE],
   [enabled |-> {"origin", "dcache"}, private_targets |-> FALSE]}

\* A connection that ended when the client stopped.
NoConnection ==
  /\ config = [enabled |-> All, private_targets |-> FALSE]
  /\ stopped = TRUE /\ pc = "end" /\ mitm = FALSE /\ rid = 0
  /\ req = NoRequest /\ route = {} /\ used = {}
  /\ kid = NoKids /\ pr = "none" /\ sr = NoResponse
  /\ cc = "none" /\ freshR = "none" /\ storedR = NoEntry
  /\ fkid = [i \in Ids |-> NoFetchKids]
  /\ resp = NoResponse /\ at = "none" /\ got = 0
  /\ stores = [i \in Ids |-> NoStore]

RequestSpec ==
  /\ \/ part = "request" /\ Init /\ LoadInit
     \/ part = "load" /\ NoConnection /\ LoadInit
  /\ [][\/ part = "request" /\ Next /\ UNCHANGED <<part, load_vars>>
        \/ part = "load" /\ LoadNext /\ UNCHANGED <<part, vars>>
       ]_<<part, vars, load_vars>>
  /\ Fairness

=============================================================================
