----------------------------- MODULE OriginPool -----------------------------
(***************************************************************************)
(* The pools of idle connections to origins that the injector keeps        *)
(* (src/origin_pools.h, src/connection_pool.h): what is done to a          *)
(* connection and to the pool of its host, as operators on both.           *)
(*                                                                         *)
(* A connection is a record:                                               *)
(*   st       "free" (does not exist), "used", "idle" (in its pool) or     *)
(*            "closed"                                                     *)
(*   host     the PoolId it was made for                                   *)
(*   wire     what the origin sent and nobody has read yet                 *)
(*   eof      the origin closed its end after that                         *)
(*   pending  pending_idle_read: the read make_idle starts is under way    *)
(*   queued   what it read, kept for the next async_read_some: <<>> or     *)
(*            one element (read_queued)                                    *)
(*   waiting  an async_read_some was started and has not completed         *)
(*   home     _connections.lock(): the pool it was taken from still exists *)
(* A pool is a sequence of connections.  A pool that does not exist and an *)
(* empty one differ only in whether connections have them as home.         *)
(***************************************************************************)
EXTENDS Naturals, Sequences, SequencesExt

NoConnection ==
    [st |-> "free", host |-> "none", wire |-> <<>>, eof |-> FALSE, pending |-> FALSE,
     queued |-> <<>>, waiting |-> FALSE, home |-> FALSE]

\* OriginPools::wrap
wrap(host) == [NoConnection EXCEPT !.st = "used", !.host = host, !.home = TRUE]

\* A pool is dropped from the map: the connections made for it lose it.
Homeless(con, host) ==
    [c \in DOMAIN con |-> IF con[c].host = host THEN [con[c] EXCEPT !.home = FALSE]
                          ELSE con[c]]

\* OriginPools::get_connection with a connection to give: make_not_idle, and
\* the pool goes when it was its last one.
pop_front(con, pools, host) ==
    LET c == Head(pools[host])
    IN  IF Len(pools[host]) = 1
        THEN [Homeless(con, host) EXCEPT ![c].st = "used"]
        ELSE [con EXCEPT ![c].st = "used", ![c].home = TRUE]

\* ConnectionPool::push_back and IdleConnection::make_idle: a connection with
\* something read ahead is closed at once.
make_idle(k) ==
    IF k.queued # <<>>
    THEN [k EXCEPT !.st = "closed"]
    ELSE [k EXCEPT !.st = "idle", !.pending = TRUE]

\* ~Connection: back to its pool if it is open and the pool is there.
Destroyed(k) == IF k.home THEN make_idle(k) ELSE [k EXCEPT !.st = "closed"]

PoolAfter(pool, k, c) == IF k.st = "idle" THEN Append(pool, c) ELSE pool

\* Mutant of async_read_some: what the idle read left is passed over.
async_read_some_direct(k) == [k EXCEPT !.waiting = TRUE]

\* IdleConnection::async_read_some: served from what the idle read left, or
\* left to wait for it or for the stream.
async_read_some(k) ==
    IF k.queued # <<>> THEN [k EXCEPT !.queued = <<>>] ELSE [k EXCEPT !.waiting = TRUE]

\* The stream completes a read: its next element, or the end.
Eof == [r |-> <<>>, part |-> "eof"]
Readable(k) == k.wire # <<>> \/ k.eof
Next1(k) == IF k.wire # <<>> THEN Head(k.wire) ELSE Eof
Rest(k) == IF k.wire # <<>> THEN Tail(k.wire) ELSE <<>>

\* The handler of the idle read.
IdleReadDone(k) ==
    IF k.st = "idle" THEN [k EXCEPT !.st = "closed", !.pending = FALSE]
    ELSE IF k.waiting THEN [k EXCEPT !.pending = FALSE, !.waiting = FALSE, !.wire = Rest(k)]
    ELSE [k EXCEPT !.pending = FALSE, !.queued = <<Next1(k)>>, !.wire = Rest(k)]

\* Mutant of Erased: the connection stays.
Erased_kept(pool, c) == pool

\* The callback given to make_idle erases the connection from the pool.
Erased(pool, c) == RemoveFirst(pool, c)
=============================================================================
