------------------------------ MODULE Injector ------------------------------
(***************************************************************************)
(* The injector's HTTP server (src/injector.cpp): serve() reads requests   *)
(* from a client connection one after the other and answers them itself,   *)
(* as a proxy, or as an injector whose answer it signs.  Requests that go  *)
(* to an origin take a connection from the origin pools and give it back.  *)
(*                                                                         *)
(* A request is a record [kind, auth, allowed, host, keep]: "this" is for  *)
(* the injector, "connect" and "proxy" come without the Ouinet header,     *)
(* "inject" and "version" with it ("version" with another version of the   *)
(* protocol).  A response is a head and a body; those of the origin carry  *)
(* the request they answer.  Responses of the injector itself are written  *)
(* whole or, when the client has gone, not at all.  Signing does not       *)
(* change what is read and written when (see SignedResponse); a name that  *)
(* does not resolve and an origin that does not accept are one outcome.    *)
(***************************************************************************)
EXTENDS OriginPool, FiniteSets

CONSTANTS
    Client,         \* client connections
    Conn,           \* connections to origins: a set of positive numbers
    Host,
    Private,        \* hosts that resolve to private or local addresses
    Configs,        \* records [proxy, restricted, allow_private]
    Requests,       \* the requests clients may send
    MaxRequests     \* bound on the requests of each client

\* No number of a connection, and a request to an origin names a host.
NoConn == 0

ASSUME InjectorAssumption ==
    /\ NoConn \notin Conn
    /\ \A q \in Requests : q.kind \in {"connect", "proxy", "inject"} => q.host \in Host

VARIABLES
    config,
    ses,            \* of each client: [pc, req, n, c]
    alive,          \* the client is still there
    con,            \* the origin connections
    pools,          \* [Host -> Seq(Conn)]
    sent,           \* history: what the origin sent on each connection
    recv            \* history: what was read from it

poolvars == <<con, pools, sent, recv>>
injvars  == <<config, ses, alive, poolvars>>

NoRequest == [kind |-> "none", auth |-> TRUE, allowed |-> TRUE, host |-> "none",
              keep |-> TRUE]

InjectorInit ==
    /\ config \in Configs
    /\ ses = [s \in Client |-> [pc |-> "read", req |-> NoRequest, n |-> 0,
                                c |-> NoConn]]
    /\ alive = [s \in Client |-> TRUE]
    /\ con = [c \in Conn |-> NoConnection]
    /\ pools = [h \in Host |-> <<>>]
    /\ sent = [c \in Conn |-> <<>>]
    /\ recv = [c \in Conn |-> <<>>]

-----------------------------------------------------------------------------
(***************************************************************************)
(* The loop of serve().                                                    *)
(***************************************************************************)
\* A response of the injector's own is written; `strict` is whether the loop
\* ends when that fails, which otherwise it finds out with the next read.
Answer(s, q, n, strict) ==
    /\ ses' = [ses EXCEPT ![s] =
                 [pc |-> IF q.keep /\ (strict => alive[s]) THEN "read" ELSE "closed",
                  req |-> NoRequest, n |-> n, c |-> NoConn]]
    /\ UNCHANGED poolvars

Goto(s, q, n, pc) ==
    /\ ses' = [ses EXCEPT ![s] = [pc |-> pc, req |-> q, n |-> n, c |-> NoConn]]
    /\ UNCHANGED poolvars

serve(s, q) ==
    LET n == ses[s].n + 1
    IN  /\ ses[s].pc = "read" /\ alive[s] /\ n <= MaxRequests[s]
        /\ \/ q.kind = "this" /\ Answer(s, q, n, FALSE)
           \/ q.kind # "this" /\ ~q.auth /\ Answer(s, q, n, FALSE)
           \/ /\ q.kind \in {"connect", "proxy"} /\ q.auth
              /\ IF ~config.proxy THEN Answer(s, q, n, TRUE)
                 ELSE Goto(s, q, n, IF q.kind = "connect" THEN "tunnel" ELSE "origin")
           \/ /\ q.kind = "version" /\ q.auth
              /\ Answer(s, q, n, TRUE)
           \/ /\ q.kind = "inject" /\ q.auth
              /\ IF config.restricted /\ ~q.allowed THEN Answer(s, q, n, TRUE)
                 ELSE Goto(s, q, n, "origin")
        /\ UNCHANGED <<config, alive>>

\* The read of the next request fails, or takes too long.
ReadFails(s) ==
    /\ ses[s].pc = "read"
    /\ ses' = [ses EXCEPT ![s].pc = "closed"]
    /\ UNCHANGED <<config, alive, poolvars>>

ClientLeaves(s) ==
    /\ alive[s] /\ ses[s].pc # "closed"
    /\ alive' = [alive EXCEPT ![s] = FALSE]
    /\ UNCHANGED <<config, ses, poolvars>>

resolve_target(host) == host \notin Private \/ config.allow_private

\* The tunnel is refused, or stands until one side ends it.
handle_connect_request(s) ==
    /\ ses[s].pc = "tunnel"
    /\ ses' = [ses EXCEPT ![s].pc = "closed"]
    /\ UNCHANGED <<config, alive, poolvars>>

-----------------------------------------------------------------------------
(***************************************************************************)
(* A request that goes to the origin: the proxy part of serve(), and       *)
(* InjectorCacheControl::fetch.                                            *)
(***************************************************************************)
Id(s) == <<s, ses[s].n>>

\* The request came to nothing.  A proxy tells the client, unless it was
\* already sent part of a response, and reads on; an injector hangs up.
Failed(s) ==
    ses' = [ses EXCEPT ![s] =
              [pc |-> IF ses[s].req.kind = "proxy" /\ ses[s].req.keep THEN "read"
                      ELSE "closed",
               req |-> NoRequest, n |-> ses[s].n, c |-> NoConn]]

\* The session lets go of its connection, which is now k.
LetGo(c, k) ==
    /\ con' = [con EXCEPT ![c] = k]
    /\ pools' = [pools EXCEPT ![k.host] = PoolAfter(@, k, c)]
    /\ UNCHANGED <<sent, recv>>

get_connection(s) ==
    LET h == ses[s].req.host
    IN  /\ ses[s].pc = "origin"
        /\ \/ /\ pools[h] # <<>>
              /\ con' = pop_front(con, pools, h)
              /\ ses' = [ses EXCEPT ![s].pc = "send", ![s].c = Head(pools[h])]
              /\ pools' = [pools EXCEPT ![h] = Tail(@)]
           \/ /\ pools[h] = <<>>
              /\ con' = Homeless(con, h)
              /\ ses' = [ses EXCEPT ![s].pc = "connect"]
              /\ UNCHANGED pools
        /\ UNCHANGED <<config, alive, sent, recv>>

\* Connections are numbered as they are made.
connect(s, c) ==
    /\ ses[s].pc = "connect" /\ con[c].st = "free"
    /\ \A d \in Conn : con[d].st = "free" => c <= d
    /\ resolve_target(ses[s].req.host)
    /\ con' = [con EXCEPT ![c] = wrap(ses[s].req.host)]
    /\ ses' = [ses EXCEPT ![s].pc = "send", ![s].c = c]
    /\ UNCHANGED <<config, alive, pools, sent, recv>>

ConnectFails(s) ==
    /\ ses[s].pc = "connect"
    /\ Failed(s)
    /\ UNCHANGED <<config, alive, poolvars>>

\* The request is sent, and with it comes what the origin answers before it
\* stalls, if it does, unless it has closed its end; then the write may fail or
\* not.
http_request(s) ==
    LET c == ses[s].c
        head == [r |-> Id(s), part |-> "head"]
        body == [r |-> Id(s), part |-> "body"]
    IN  /\ ses[s].pc = "send"
        /\ \/ /\ IF con[c].eof THEN UNCHANGED <<con, sent>>
                 ELSE \E answer \in {<<>>, <<head>>, <<head, body>>} :
                         /\ con' = [con EXCEPT ![c].wire = @ \o answer]
                         /\ sent' = [sent EXCEPT ![c] = @ \o answer]
              /\ ses' = [ses EXCEPT ![s].pc = "head"]
              /\ UNCHANGED <<pools, recv>>
           \/ /\ con[c].eof
              /\ LetGo(c, Destroyed(con[c]))
              /\ Failed(s)
        /\ UNCHANGED <<config, alive>>

\* A part was read from the origin.  What does not start a response is an
\* error; a part is written to the client as it comes; after the last one the
\* connection is kept if the origin wants to.
Part(s, k, p) ==
    LET c == ses[s].c
        q == ses[s].req
    IN  /\ recv' = [recv EXCEPT ![c] = IF p = Eof THEN @ ELSE Append(@, p)]
        /\ \/ /\ p.part = "head" /\ ses[s].pc = "head" /\ alive[s]
              /\ con' = [con EXCEPT ![c] = k]
              /\ ses' = [ses EXCEPT ![s].pc = "body"]
              /\ UNCHANGED pools
           \/ /\ p.part = "body" /\ ses[s].pc = "body" /\ alive[s]
              /\ \E keep \in BOOLEAN :
                    LET left == IF keep THEN Destroyed(k) ELSE [k EXCEPT !.st = "closed"]
                    IN  /\ con' = [con EXCEPT ![c] = left]
                        /\ pools' = [pools EXCEPT ![k.host] = PoolAfter(@, left, c)]
              /\ ses' = [ses EXCEPT ![s] = [pc |-> IF q.keep THEN "read" ELSE "closed",
                                            req |-> NoRequest, n |-> ses[s].n,
                                            c |-> NoConn]]
           \/ /\ ~(alive[s] /\ p.part = ses[s].pc)
              /\ con' = [con EXCEPT ![c] = Destroyed(k)]
              /\ pools' = [pools EXCEPT ![k.host] = PoolAfter(@, Destroyed(k), c)]
              /\ Failed(s)
        /\ UNCHANGED <<config, alive, sent>>

async_read_part(s) ==
    LET c == ses[s].c
        k == con[c]
    IN  /\ ses[s].pc \in {"head", "body"} /\ ~k.waiting
        /\ LET k2 == async_read_some(k)
           IN  IF ~k2.waiting THEN Part(s, k2, k.queued[1])
               ELSE /\ con' = [con EXCEPT ![c] = k2]
                    /\ UNCHANGED <<config, ses, alive, pools, sent, recv>>

\* The stream has something for the read under way.
StreamRead(s) ==
    LET c == ses[s].c
        k == con[c]
    IN  /\ ses[s].pc \in {"head", "body"} /\ k.waiting /\ Readable(k)
        /\ Part(s, IF k.pending THEN IdleReadDone(k)
                   ELSE [k EXCEPT !.waiting = FALSE, !.wire = Rest(k)], Next1(k))

\* The same for a connection no session reads from.
IdleRead(c) ==
    LET k == con[c]
    IN  /\ k.st \in {"idle", "used"} /\ k.pending /\ ~k.waiting /\ Readable(k)
        /\ con' = [con EXCEPT ![c] = IdleReadDone(k)]
        /\ pools' = [pools EXCEPT ![k.host] = IF k.st = "idle" THEN Erased(@, c) ELSE @]
        /\ UNCHANGED <<config, ses, alive, sent, recv>>

\* Mutant of Timeout: none while the head is awaited.
TimeoutOnBody(s) ==
    /\ ses[s].pc = "body"
    /\ LetGo(ses[s].c, [con[ses[s].c] EXCEPT !.st = "closed", !.waiting = FALSE])
    /\ Failed(s)
    /\ UNCHANGED <<config, alive>>

\* fetch_wd of inject_fresh, or the activity timeout of flush_response: the
\* reader closes the stream it reads from.
Timeout(s) ==
    /\ \/ ses[s].pc = "head" /\ ses[s].req.kind = "inject"
       \/ ses[s].pc = "body"
    /\ LetGo(ses[s].c, [con[ses[s].c] EXCEPT !.st = "closed", !.waiting = FALSE])
    /\ Failed(s)
    /\ UNCHANGED <<config, alive>>

OriginCloses(c) ==
    /\ con[c].st \in {"used", "idle"} /\ ~con[c].eof
    /\ con' = [con EXCEPT ![c].eof = TRUE]
    /\ UNCHANGED <<config, ses, alive, pools, sent, recv>>

SessionStep(s) ==
    \/ handle_connect_request(s)
    \/ get_connection(s)
    \/ \E c \in Conn : connect(s, c)
    \/ ConnectFails(s)
    \/ http_request(s)
    \/ async_read_part(s)
    \/ StreamRead(s)
    \/ Timeout(s)

InjectorNext ==
    \/ \E s \in Client :
          \/ \E q \in Requests : serve(s, q)
          \/ ReadFails(s)
          \/ ClientLeaves(s)
          \/ SessionStep(s)
    \/ \E c \in Conn : IdleRead(c) \/ OriginCloses(c)

SessionsSpec == InjectorInit /\ [][InjectorNext]_injvars

\* Some session that can go on does; its timers run out.
InjectorFair == WF_injvars(\E s \in Client : SessionStep(s))

-----------------------------------------------------------------------------
\* Whatever is read from a connection, in its pool or out of it, is read in
\* the order the origin sent it, and nothing is lost while it is open: the
\* byte the idle read took is given to the next reader.
ReadInOrder ==
    \A c \in Conn :
        LET k == con[c]
        IN  k.st # "closed" =>
                recv[c] \o (IF k.queued = <<Eof>> THEN <<>> ELSE k.queued) \o k.wire
                    = sent[c]

\* A pool holds each connection once, idle and open, watched by a read, and no
\* session uses one that is in a pool or one that another session uses.
PooledIsIdle ==
    /\ \A h \in Host :
          /\ IsInjective(pools[h])
          /\ \A i \in 1 .. Len(pools[h]) :
                LET k == con[pools[h][i]] IN k.st = "idle" /\ k.host = h /\ k.pending
    /\ \A s, t \in Client :
          ses[s].c # NoConn => con[ses[s].c].st = "used" /\ (ses[s].c = ses[t].c => s = t)

\* Is any request being injected?
Injecting == \E s \in Client : ses[s].req.kind = "inject"

\* A request to be injected does not keep its client waiting for ever, although
\* the origin may stall anywhere: a watch dog of inject_fresh ends the fetch of
\* the head, the activity time out of flush_response that of the body.
InjectEnds == Injecting ~> ~Injecting
=============================================================================
