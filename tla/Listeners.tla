----------------------------- MODULE Listeners -----------------------------
(***************************************************************************)
(* How a connection gets from a socket of the injector to serve():         *)
(* the listening services (src/ouiservice/{tcp,utp,tls,multi_utp_server}), *)
(* OuiServiceServer, which runs them side by side (src/ouiservice.cpp),    *)
(* and listen() (src/injector.cpp).                                        *)
(*                                                                         *)
(* A listener is [base, tls, multi]: the transport "tcp", "utp" or "i2p",  *)
(* whether TLS is wrapped around it, and whether both are part of the      *)
(* MultiUtpServer of a Bep5Server.  Each layer is a coroutine that takes   *)
(* connections from the one below; uTP and MultiUtpServer hand them on     *)
(* through channels without a buffer, so they hold one until it is taken.  *)
(* tls_queue is the channel of a TLS server with the senders that wait for *)
(* room in it.                                                             *)
(***************************************************************************)
EXTENDS Naturals, Sequences, SequencesExt, FiniteSets

CONSTANTS
    Listener,       \* [name -> [base, tls, multi]]: what the configuration asks for
    Incoming        \* [connection -> the listener it comes to]

VARIABLES
    stopped,        \* Injector::stop() was called
    impl,           \* the coroutine of start_listen of each listener: "starting",
                    \* "accept", "sleep" or "off"
    lower,          \* the accepting loop of its uTP, TLS and MultiUtp layers
    at,             \* where each connection is
    tls_queue,
    queue,          \* _connection_queue
    notified,       \* listen() waits for a connection and was notified
    listening,      \* where listen() is
    session         \* the I2P session: "pending", "ready" or "failed"

listenvars == <<stopped, impl, lower, at, tls_queue, queue, notified, listening, session>>

Name == DOMAIN Listener
Layer == {"utp", "tls", "multi"}
Has(l, layer) == CASE layer = "utp" -> Listener[l].base = "utp"
                   [] layer = "tls" -> Listener[l].tls
                   [] layer = "multi" -> Listener[l].multi

ListenersInit ==
    /\ stopped = FALSE
    /\ impl = [l \in Name |-> "starting"]
    /\ lower = [l \in Name |-> [y \in Layer |-> "off"]]
    /\ at = [c \in DOMAIN Incoming |-> "new"]
    /\ tls_queue = [l \in Name |-> <<>>]
    /\ queue = <<>>
    /\ notified = FALSE
    /\ listening = "starting"
    /\ session = "pending"

-----------------------------------------------------------------------------
(***************************************************************************)
(* start_listen.                                                           *)
(***************************************************************************)
\* The layers of l start, or binding its socket fails.
start_listen(l, ok) ==
    /\ ~stopped /\ impl[l] = "starting"
    /\ ~ok => Listener[l].base = "tcp"
    /\ impl' = [impl EXCEPT ![l] = IF ok THEN "accept" ELSE "off"]
    /\ lower' = [lower EXCEPT ![l] = [y \in Layer |-> IF ok /\ Has(l, y) THEN "accept"
                                                      ELSE "off"]]
    /\ UNCHANGED <<stopped, at, tls_queue, queue, notified, listening, session>>

Succeeded == {l \in Name : impl[l] \in {"accept", "sleep"}}

\* The wait ends with the first one that has started, or when none is left that
\* may: then listen() returns.
Listening ==
    /\ ~stopped /\ listening = "starting"
    /\ Succeeded # {} \/ \A l \in Name : impl[l] = "off"
    /\ listening' = IF Succeeded # {} THEN "accept" ELSE "ended"
    /\ UNCHANGED <<stopped, impl, lower, at, tls_queue, queue, notified, session>>

\* create_i2p_session ends.
SessionCreated(result) ==
    /\ ~stopped /\ session = "pending"
    /\ session' = result
    /\ UNCHANGED <<stopped, impl, lower, at, tls_queue, queue, notified, listening>>

-----------------------------------------------------------------------------
(***************************************************************************)
(* The layers.  The place of a connection that accept() of a layer can     *)
(* return: the one the layer below left it at.                             *)
(***************************************************************************)
Below(l, layer) ==
    CASE layer = "tls" -> IF Has(l, "utp") THEN "utp" ELSE "new"
      [] layer = "multi" -> IF Has(l, "tls") THEN "tls" ELSE "utp"
      [] layer = "top" -> IF Has(l, "multi") THEN "multi"
                          ELSE IF Has(l, "tls") THEN "tls"
                          ELSE IF Has(l, "utp") THEN "utp" ELSE "new"

\* Connections are taken from a channel in the order they were sent.
CanTake(c, layer) ==
    LET l == Incoming[c]
    IN  /\ at[c] = Below(l, layer)
        /\ at[c] = "tls" => c = Head(tls_queue[l])
        /\ Listener[l].base = "i2p" => session = "ready"

\* It goes to `place`, and the loop that offered it to accept the next one.
Taken(c, place, loops) ==
    LET l == Incoming[c]
    IN  /\ at' = [at EXCEPT ![c] = place]
        /\ lower' = [lower EXCEPT ![l] =
                       [y \in Layer |-> IF y = at[c] /\ y # "tls" THEN "accept" ELSE loops[y]]]
        /\ tls_queue' = [tls_queue EXCEPT ![l] = IF at[c] = "tls" THEN Tail(@) ELSE @]

UtpAccepts(c) ==
    LET l == Incoming[c]
    IN  /\ ~stopped /\ at[c] = "new" /\ lower[l]["utp"] = "accept"
        /\ at' = [at EXCEPT ![c] = "utp"]
        /\ lower' = [lower EXCEPT ![l]["utp"] = "send"]
        /\ UNCHANGED <<stopped, impl, tls_queue, queue, notified, listening, session>>

\* A coroutine of its own does the handshake.
TlsAccepts(c) ==
    LET l == Incoming[c]
    IN  /\ ~stopped /\ lower[l]["tls"] = "accept" /\ CanTake(c, "tls")
        /\ Taken(c, "handshake", lower[l])
        /\ UNCHANGED <<stopped, impl, queue, notified, listening, session>>

HandshakeDone(c) ==
    LET l == Incoming[c]
    IN  /\ ~stopped /\ at[c] = "handshake"
        /\ at' = [at EXCEPT ![c] = "tls"]
        /\ tls_queue' = [tls_queue EXCEPT ![l] = Append(@, c)]
        /\ UNCHANGED <<stopped, impl, lower, queue, notified, listening, session>>

\* Mutant of HandshakeEnds: there is no watch dog, and clients give up only while
\* others are served.
HandshakeFails(c) ==
    /\ ~stopped /\ at[c] = "handshake" /\ \E d \in DOMAIN at : at[d] = "served"
    /\ at' = [at EXCEPT ![c] = "closed"]
    /\ UNCHANGED <<stopped, impl, lower, tls_queue, queue, notified, listening, session>>

\* It failed, or the watch dog closed the connection after ten seconds.
HandshakeEnds(c) ==
    /\ ~stopped /\ at[c] = "handshake"
    /\ at' = [at EXCEPT ![c] = "closed"]
    /\ UNCHANGED <<stopped, impl, lower, tls_queue, queue, notified, listening, session>>

\* MultiUtpServer::State::start
MultiAccepts(c) ==
    LET l == Incoming[c]
    IN  /\ ~stopped /\ lower[l]["multi"] = "accept" /\ CanTake(c, "multi")
        /\ Taken(c, "multi", [lower[l] EXCEPT !["multi"] = "send"])
        /\ UNCHANGED <<stopped, impl, queue, notified, listening, session>>

\* The loop of OuiServiceServer::start_listen.
ServerAccepts(c) ==
    LET l == Incoming[c]
    IN  /\ ~stopped /\ impl[l] = "accept" /\ CanTake(c, "top")
        /\ Taken(c, "queue", lower[l])
        /\ queue' = Append(queue, c)
        /\ notified' = (notified \/ listening = "wait")
        /\ UNCHANGED <<stopped, impl, listening, session>>

\* accept() of a socket or of the I2P session fails; the loop that called it
\* sleeps a while and goes on.
AcceptFails(l) ==
    /\ ~stopped
    /\ \/ /\ impl[l] = "accept" /\ Below(l, "top") = "new"
          /\ impl' = [impl EXCEPT ![l] = "sleep"]
          /\ UNCHANGED lower
       \/ \E y \in Layer :
             /\ lower[l][y] = "accept"
             /\ y = "utp" \/ (y = "tls" /\ Below(l, "tls") = "new")
             /\ lower' = [lower EXCEPT ![l][y] = "sleep"]
             /\ UNCHANGED impl
    /\ UNCHANGED <<stopped, at, tls_queue, queue, notified, listening, session>>

AcceptAgain(l) ==
    /\ ~stopped
    /\ \/ impl[l] = "sleep" /\ impl' = [impl EXCEPT ![l] = "accept"] /\ UNCHANGED lower
       \/ \E y \in Layer :
             /\ lower[l][y] = "sleep"
             /\ lower' = [lower EXCEPT ![l][y] = "accept"]
             /\ UNCHANGED impl
    /\ UNCHANGED <<stopped, at, tls_queue, queue, notified, listening, session>>

-----------------------------------------------------------------------------
(***************************************************************************)
(* listen().                                                               *)
(***************************************************************************)
\* OuiServiceServer::accept gives the first of the queue, and waits for the
\* notification when there is none; serve() runs in a coroutine of its own.
accept ==
    /\ ~stopped
    /\ \/ /\ listening = "accept" \/ (listening = "wait" /\ notified)
          /\ queue # <<>>
          /\ at' = [at EXCEPT ![Head(queue)] = "served"]
          /\ queue' = Tail(queue)
          /\ listening' = "accept"
          /\ notified' = FALSE
       \/ /\ listening = "accept" /\ queue = <<>>
          /\ listening' = "wait"
          /\ UNCHANGED <<at, queue, notified>>
    /\ UNCHANGED <<stopped, impl, lower, tls_queue, session>>

ServeReturns(c) ==
    /\ at[c] = "served"
    /\ at' = [at EXCEPT ![c] = "closed"]
    /\ UNCHANGED <<stopped, impl, lower, tls_queue, queue, notified, listening, session>>

\* stop(): the queues are emptied, and every coroutine is cancelled.
stop ==
    /\ ~stopped
    /\ stopped' = TRUE
    /\ at' = [c \in DOMAIN at |-> IF at[c] \in {"queue", "tls"} THEN "closed" ELSE at[c]]
    /\ queue' = <<>>
    /\ tls_queue' = [l \in Name |-> <<>>]
    /\ impl' = [l \in Name |-> "off"]
    /\ lower' = [l \in Name |-> [y \in Layer |-> "off"]]
    /\ listening' = "ended"
    /\ UNCHANGED <<notified, session>>

\* A cancelled coroutine unwinds and closes the connection it holds.
Unwinds(c) ==
    /\ stopped /\ at[c] \in {"utp", "handshake", "multi", "served"}
    /\ at' = [at EXCEPT ![c] = "closed"]
    /\ UNCHANGED <<stopped, impl, lower, tls_queue, queue, notified, listening, session>>

LayerStep(c) ==
    UtpAccepts(c) \/ TlsAccepts(c) \/ MultiAccepts(c) \/ ServerAccepts(c) \/ Unwinds(c)

ListenersNext ==
    \/ \E l \in Name : AcceptFails(l) \/ AcceptAgain(l) \/ \E ok \in BOOLEAN : start_listen(l, ok)
    \/ \E result \in {"ready", "failed"} : SessionCreated(result)
    \/ Listening \/ accept \/ stop
    \/ \E c \in DOMAIN Incoming :
          LayerStep(c) \/ HandshakeDone(c) \/ HandshakeEnds(c) \/ ServeReturns(c)

\* Some coroutine that has a connection to hand on does so, listen() runs when
\* it can, and watch dogs bite.  Nothing is assumed of those who connect, nor of
\* accept() of a socket, which may fail each time it is called.
ListenersFair ==
    /\ WF_listenvars(Listening \/ accept)
    /\ WF_listenvars(\E c \in DOMAIN Incoming : LayerStep(c))
    /\ WF_listenvars(\E c \in DOMAIN Incoming : HandshakeEnds(c))

-----------------------------------------------------------------------------
Pending ==
    \E c \in DOMAIN Incoming : \/ at[c] \in {"utp", "handshake", "tls", "multi", "queue"}
                               \/ stopped /\ at[c] = "served"

\* A connection that was accepted from its socket gets to serve() or is closed:
\* none is left behind in a layer, one whose handshake hangs does not keep those
\* behind it waiting, and after stop() all are closed, wherever they were.
NoneLeftBehind == Pending ~> ~Pending

=============================================================================
