----------------------------- MODULE MCNetwork -----------------------------
(***************************************************************************)
(* Instances for TLC of the parts that find peers and reach them.  A       *)
(* behaviour is about one of them:                                         *)
(*                                                                         *)
(* MainlineDht: an IPv4 node with a configured bootstrap address that is   *)
(* run twice, with three contacts to store, two of them at one endpoint;   *)
(* or an IPv4 and an IPv6 node, and one announcer of each type.            *)
(* Bep5Client: two injectors besides ourselves, one of which also is a     *)
(* helper, another helper the cache has no room for, and one call.         *)
(* UdpMultiplexer: two messages and three packets, so that either          *)
(* coroutine can disturb the other's delay.  UPnPUpdater: one device that  *)
(* renews mappings and one that does not; a lease of two margins, and      *)
(* rounds of any length up to more than the lease.                         *)
(* LocalDiscovery: three clients, one of them with two end points, one     *)
(* that advertises a fixed address.                                        *)
(***************************************************************************)
EXTENDS MainlineDht, Bep5Client, UdpMultiplexer, UPnPUpdater, LocalDiscovery

CONSTANTS n1, n2, n3

MCConfigured == [l \in {4, 6} |-> {[ep |-> 10, id |-> 0, score |-> SCORE_GOAL]}]
MCContacts   == {[ep |-> 1, id |-> 1], [ep |-> 1, id |-> 2], [ep |-> 2, id |-> 3]}
MCAnnouncer  == [injector |-> "Periodic", client |-> "Manual"]

NoProgram == [local |-> {}, announcers |-> {}, file |-> NoFile, runs |-> 1]
MCSetups ==
    {NoProgram,
     [local |-> {4}, announcers |-> {}, file |-> <<{}>>, runs |-> 2],
     [local |-> {4, 6}, announcers |-> DOMAIN MCAnnouncer, file |-> NoFile, runs |-> 1]}

MCFound    == [injector |-> {{0}, {1, 3}}, helper |-> {{2, 3}}]
MCCapacity == [injector |-> 2, helper |-> 1]
MCTargets  == {{}, {"injector"}, {"injector", "helper"}}

MCNode       == {n1, n2, n3}
MCAddress    == [n \in MCNode |-> IF n = n1 THEN "a" ELSE IF n = n2 THEN "b" ELSE "c"]
MCAdvertised == [n \in MCNode |-> IF n = n1 THEN {<<Unspecified, 1>>}
                                  ELSE IF n = n2 THEN {<<Unspecified, 1>>, <<"d", 2>>}
                                  ELSE {<<"c", 1>>}]

\* Parts that are gone from the start.
NoNodes == MainlineInit /\ setup = NoProgram

NoClient ==
  /\ swarm = [s \in Swarm |-> [loop |-> "off", peers |-> <<>>, ready |-> "never"]]
  /\ locks = [s \in Swarm |-> {}] /\ started = "gone" /\ pinger = "off" /\ seen = FALSE
  /\ call = Idle(MaxCalls) /\ lookup = [s \in Swarm |-> "none"] /\ channel = <<>>
  /\ candidates = {} /\ used = {} /\ attempts = {} /\ offered = {}
  /\ tries = [e \in Endpoint |-> 0] /\ evidence = FALSE /\ announced = TRUE

NoMultiplexer ==
  /\ send_queue = <<>> /\ tx = "ended" /\ rx = "ended" /\ held = 0 /\ arrived = 0
  /\ caller = [s \in Sender |-> "idle"] /\ wired = {}
  /\ receiver = "gone" /\ handed = Nothing /\ got = <<>>
  /\ unplugged = FALSE /\ terminated = TRUE

NoUpdater ==
  /\ upnp_pc = "gone" /\ lease = [k \in Igd |-> 0]
  /\ igds = {} /\ igd = NoIgd /\ success_cnt = 0 /\ buggy = {}
  /\ elapsed = 0 /\ query_begin = 0 /\ wait = 0 /\ ip_attempts = 0
  /\ is_available = FALSE /\ is_active = FALSE
  /\ missed = Igd /\ slow = {} /\ lapsed = {}

NoDiscovery ==
  /\ life = [n \in Node |-> "gone"] /\ asking = {}
  /\ peers = [n \in Node |-> [m \in Node |-> Unknown]]
  /\ wire = [p \in Pairs |-> <<>>]

NetworkInit ==
  \/ MainlineInit /\ setup # NoProgram /\ NoClient /\ NoMultiplexer /\ NoUpdater /\ NoDiscovery
  \/ NoNodes /\ Bep5Init /\ NoMultiplexer /\ NoUpdater /\ NoDiscovery
  \/ NoNodes /\ NoClient /\ UdpInit /\ NoUpdater /\ NoDiscovery
  \/ NoNodes /\ NoClient /\ NoMultiplexer /\ UPnPInit /\ NoDiscovery
  \/ NoNodes /\ NoClient /\ NoMultiplexer /\ NoUpdater /\ LocalInit

NetworkNext ==
  \/ MainlineNext /\ UNCHANGED <<bepvars, udp_vars, upnp_vars, lpd_vars>>
  \/ Bep5Next /\ UNCHANGED <<dhtvars, udp_vars, upnp_vars, lpd_vars>>
  \/ UdpNext /\ UNCHANGED <<dhtvars, bepvars, upnp_vars, lpd_vars>>
  \/ UPnPNext /\ UNCHANGED <<dhtvars, bepvars, udp_vars, lpd_vars>>
  \/ LocalNext /\ UNCHANGED <<dhtvars, bepvars, udp_vars, upnp_vars>>

NetworkSpec ==
  /\ NetworkInit
  /\ [][NetworkNext]_<<dhtvars, bepvars, udp_vars, upnp_vars, lpd_vars>>
  /\ MainlineFair /\ UdpFair /\ LocalFair
=============================================================================
