------------------------------- MODULE Route -------------------------------
(***************************************************************************)
(* Route::choose: by which mechanisms the client may retrieve the response *)
(* of a request.                                                           *)
(*                                                                         *)
(* A route is the set of the mechanisms its type names: OriginOrDCache is  *)
(* {"origin", "dcache"}, and the empty optional is the empty set.  One     *)
(* cache type is modelled, so its argument is left out.                    *)
(***************************************************************************)
EXTENDS Naturals, FiniteSets

Origin == {"origin"}
FrontEnd == {"front_end"}

\* The ten alternatives of Route::Alternatives.
Routes ==
    { FrontEnd, Origin, {"blind"}, {"origin", "blind"}, {"public"}, {"dcache"},
      {"origin", "dcache"}, {"origin", "public"}, {"public", "dcache"},
      {"origin", "public", "dcache"} }

Mechanisms == UNION Routes

(***************************************************************************)
(* What routing tells apart in a request:                                  *)
(*   field     the route of "X-Ouinet-Route", {} when it does not parse;   *)
(*   host      "front_end" (localhost itself or the front end's endpoint), *)
(*             "loopback", "local_tld", "private_addr" or "public";        *)
(*   method    "GET", "HEAD" or another one;                               *)
(*   override  an X-HTTP-Method-Override other than GET is present;        *)
(*   private   tagged with "X-Ouinet-Private: true".                       *)
(* and in the configuration: which mechanisms are enabled and whether      *)
(* private targets are allowed.                                            *)
(***************************************************************************)

public_to_private(route) ==
    (route \ {"public", "dcache"})
        \cup (IF "public" \in route THEN {"blind"} ELSE {})

\* The request must not be answered from, or injected into, the cache.
NotCacheable(req) ==
    \/ req.private
    \/ req.method \notin {"GET", "HEAD"}
    \/ req.override

\* Mutant of apply_safety_restrictions: the method override is not read.
ApplySafetyForgetsOverride(route, req, config) ==
    IF req.host = "front_end" THEN FrontEnd
    ELSE IF req.host = "loopback" /\ ~config.private_targets THEN Origin
    ELSE IF req.host = "local_tld" THEN Origin
    ELSE IF req.private \/ req.method \notin {"GET", "HEAD"}
    THEN public_to_private(route)
    ELSE IF req.host = "private_addr" /\ ~config.private_targets THEN Origin
    ELSE route

\* The order of the tests is the order of the early returns.
apply_safety_restrictions(route, req, config) ==
    IF req.host = "front_end" THEN FrontEnd
    ELSE IF req.host = "loopback" /\ ~config.private_targets THEN Origin
    ELSE IF req.host = "local_tld" THEN Origin
    ELSE IF NotCacheable(req) THEN public_to_private(route)
    ELSE IF req.host = "private_addr" /\ ~config.private_targets THEN Origin
    ELSE route

\* remove_origin_access and its three siblings drop one mechanism each.
apply_config_restrictions(route, config) ==
    route \ ({"origin", "blind", "public", "dcache"} \ config.enabled)

choose(req, config) ==
    LET asked == IF req.field = {} THEN {"origin", "public", "dcache"} ELSE req.field
    IN  apply_config_restrictions(apply_safety_restrictions(asked, req, config), config)

=============================================================================
