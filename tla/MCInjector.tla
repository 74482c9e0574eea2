----------------------------- MODULE MCInjector -----------------------------
(***************************************************************************)
(* Instances for TLC of the injector's two halves, one per behaviour: the  *)
(* sessions (Injector: a client with two requests and one with one, two    *)
(* origin connections and two hosts, one of them private) and the way      *)
(* connections take to them (Listeners: two connections to the bridge-like *)
(* chain uTP, TLS and MultiUtpServer, one to TLS over TCP, one to I2P).    *)
(***************************************************************************)
EXTENDS Injector, Listeners, TLC

Req(kind, auth, allowed, host, keep) ==
    [kind |-> kind, auth |-> auth, allowed |-> allowed, host |-> host, keep |-> keep]

MCRequests ==
    {Req("this", TRUE, TRUE, "none", TRUE), Req("inject", FALSE, TRUE, "pub", FALSE),
     Req("connect", TRUE, TRUE, "pub", TRUE), Req("proxy", TRUE, TRUE, "pub", TRUE),
     Req("version", TRUE, TRUE, "pub", TRUE),
     Req("inject", TRUE, FALSE, "pub", TRUE), Req("inject", TRUE, TRUE, "priv", FALSE)}

MCMaxRequests == "s1" :> 2 @@ "s2" :> 1

MCConfigs ==
    {[proxy |-> TRUE, restricted |-> TRUE, allow_private |-> FALSE],
     [proxy |-> FALSE, restricted |-> TRUE, allow_private |-> TRUE]}

MCListener ==
    "bep5" :> [base |-> "utp", tls |-> TRUE, multi |-> TRUE]
    @@ "tls" :> [base |-> "tcp", tls |-> TRUE, multi |-> FALSE]
    @@ "i2p" :> [base |-> "i2p", tls |-> FALSE, multi |-> FALSE]

MCIncoming == "k1" :> "bep5" @@ "k2" :> "bep5" @@ "k3" :> "tls" @@ "k4" :> "i2p"

\* Listeners that have been stopped, and clients that have gone.
NoListeners ==
    /\ stopped = TRUE
    /\ impl = [l \in Name |-> "off"]
    /\ lower = [l \in Name |-> [y \in Layer |-> "off"]]
    /\ at = [c \in DOMAIN Incoming |-> "closed"]
    /\ tls_queue = [l \in Name |-> <<>>]
    /\ queue = <<>> /\ notified = FALSE
    /\ listening = "ended" /\ session = "failed"

NoSessions ==
    /\ config \in {[proxy |-> TRUE, restricted |-> FALSE, allow_private |-> FALSE]}
    /\ ses = [s \in Client |-> [pc |-> "closed", req |-> NoRequest, n |-> 0, c |-> NoConn]]
    /\ alive = [s \in Client |-> FALSE]
    /\ con = [c \in Conn |-> NoConnection]
    /\ pools = [h \in Host |-> <<>>]
    /\ sent = [c \in Conn |-> <<>>] /\ recv = [c \in Conn |-> <<>>]

InjectorSpec ==
    /\ (InjectorInit /\ NoListeners) \/ (NoSessions /\ ListenersInit)
    /\ [][\/ InjectorNext /\ UNCHANGED listenvars
          \/ ListenersNext /\ UNCHANGED injvars]_<<injvars, listenvars>>
    /\ InjectorFair /\ ListenersFair
=============================================================================
