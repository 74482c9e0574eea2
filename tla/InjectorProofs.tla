--------------------------- MODULE InjectorProofs ---------------------------
(***************************************************************************)
(* Proofs about the sessions of the injector and its pools of connections  *)
(* to origins (Injector, OriginPool), for any clients, connections, hosts, *)
(* configurations and requests.                                            *)
(***************************************************************************)
EXTENDS Injector, SequenceTheorems, TLAPS

-----------------------------------------------------------------------------
(***************************************************************************)
(* Types and what holds of one connection and of one session.              *)
(***************************************************************************)

Parts == [r : Client \X Nat, part : {"head", "body"}]

Connection ==
    [st : {"free", "used", "idle", "closed"}, host : Host \cup {"none"},
     wire : Seq(Parts), eof : BOOLEAN, pending : BOOLEAN,
     queued : {<<>>} \cup {<<p>> : p \in Parts \cup {Eof}},
     waiting : BOOLEAN, home : BOOLEAN]

\* Only one of the idle read, the queue and a waiting reader has the next part.
ConnectionOK(k) ==
    /\ k \in Connection
    /\ k.st \in {"used", "idle"} => k.host \in Host
    /\ k.st = "free" => k.wire = <<>>
    /\ k.st \in {"free", "idle"} \/ k.pending \/ k.waiting => k.queued = <<>>
    /\ k.st = "idle" => k.pending

Holding == {"send", "head", "body"}

SessionOK(e) ==
    /\ e \in [pc : Holding \cup {"read", "closed", "tunnel", "origin", "connect"},
              req : Requests \cup {NoRequest}, n : Nat, c : Conn \cup {NoConn}]
    /\ IF e.pc \in Holding THEN e.c \in Conn ELSE e.c = NoConn
    /\ e.pc \in Holding \cup {"origin", "connect"} => e.req.host \in Host

TypeInv ==
    /\ DOMAIN ses = Client /\ ses = [s \in Client |-> ses[s]]
    /\ DOMAIN con = Conn /\ con = [c \in Conn |-> con[c]]
    /\ \A s \in Client : SessionOK(ses[s])
    /\ \A c \in Conn : ConnectionOK(con[c])
    /\ pools \in [Host -> Seq(Conn)]
    /\ sent \in [Conn -> Seq(Parts)]
    /\ recv \in [Conn -> Seq(Parts)]

\* What was read ahead, without the mark of the end.
Ahead(k) == IF k.queued = <<Eof>> THEN <<>> ELSE k.queued

\* Nothing is lost of what is sent on connection k.
InOrder(k, received, all) == received \o Ahead(k) \o k.wire = all

-----------------------------------------------------------------------------
(***************************************************************************)
(* What the operations of OriginPool do to a connection.                   *)
(***************************************************************************)
LEMMA ConnectionFields ==
    ASSUME NEW k, ConnectionOK(k)
    PROVE  /\ k.wire \in Seq(Parts)
           /\ Ahead(k) \in Seq(Parts)
           /\ k.queued # <<>> =>
                 \/ k.queued[1] = Eof /\ Ahead(k) = <<>>
                 \/ k.queued[1] \in Parts /\ Ahead(k) = <<k.queued[1]>>
<1>1. k.wire \in Seq(Parts) /\ k.queued \in {<<>>} \cup {<<p>> : p \in Parts \cup {Eof}}
    BY Zenon DEF ConnectionOK, Connection
<1>2. CASE k.queued = <<>>
  <2>1. <<>> # <<Eof>>
      BY Zenon
  <2>2. Ahead(k) = <<>>
      BY Zenon, <1>2, <2>1 DEF Ahead
  <2>3. QED
      BY <1>1, <1>2, <2>2
<1>3. ASSUME NEW p \in Parts \cup {Eof}, k.queued = <<p>>
      PROVE  /\ Ahead(k) \in Seq(Parts)
             /\ \/ k.queued[1] = Eof /\ Ahead(k) = <<>>
                \/ k.queued[1] \in Parts /\ Ahead(k) = <<k.queued[1]>>
  <2>1. k.queued[1] = p /\ (p # Eof => <<p>> # <<Eof>>)
      BY <1>3
  <2>2. CASE p = Eof
      BY <1>3, <2>1, <2>2 DEF Ahead
  <2>3. CASE p # Eof
      BY <1>3, <2>1, <2>3 DEF Ahead
  <2>4. QED
      BY Zenon, <2>2, <2>3
<1>4. QED
    BY Zenon, <1>1, <1>2, <1>3

\* The record that a session leaves behind.
Left(k, l) ==
    \/ l = Destroyed(k)
    \/ l = [k EXCEPT !.st = "closed"]
    \/ l = [k EXCEPT !.st = "closed", !.waiting = FALSE]

LEMMA LeftConnection ==
    ASSUME NEW k, ConnectionOK(k), k.st = "used", NEW l, Left(k, l)
    PROVE  /\ ConnectionOK(l) /\ l.host = k.host /\ l.st \in {"idle", "closed"}
           /\ l.queued = k.queued /\ l.wire = k.wire
<1>1. k \in Connection /\ k.host \in Host
    BY Zenon DEF ConnectionOK
<1>2. CASE l = [k EXCEPT !.st = "closed"]
    BY Zenon, <1>1, <1>2 DEF ConnectionOK, Connection
<1>3. CASE l = [k EXCEPT !.st = "closed", !.waiting = FALSE]
    BY Zenon, <1>1, <1>3 DEF ConnectionOK, Connection
<1>4. CASE l = [k EXCEPT !.st = "idle", !.pending = TRUE] /\ k.queued = <<>>
    BY Zenon, <1>1, <1>4 DEF ConnectionOK, Connection
<1>5. QED
    BY Zenon, <1>2, <1>3, <1>4 DEF Left, Destroyed, make_idle

LEMMA NextPart ==
    ASSUME NEW k, ConnectionOK(k), Readable(k)
    PROVE  /\ Rest(k) \in Seq(Parts)
           /\ \/ k.wire = <<>> /\ Next1(k) = Eof /\ Rest(k) = <<>>
              \/ /\ k.wire # <<>> /\ Next1(k) \in Parts
                 /\ Next1(k) = Head(k.wire) /\ Rest(k) = Tail(k.wire)
<1>1. k.wire \in Seq(Parts)
    BY Zenon, ConnectionFields
<1>2. CASE k.wire = <<>>
    BY Zenon, <1>1, <1>2 DEF Next1, Rest
<1>3. CASE k.wire # <<>>
  <2>1. Head(k.wire) \in Parts /\ Tail(k.wire) \in Seq(Parts)
      BY <1>1, <1>3
  <2>2. QED
      BY Zenon, <1>3, <2>1 DEF Next1, Rest
<1>4. QED
    BY Zenon, <1>2, <1>3

\* A read that the stream completes, in place of the idle read or not.
LEMMA StreamReadConnection ==
    ASSUME NEW k, ConnectionOK(k), k.st = "used", k.waiting, Readable(k),
           NEW l, l = IF k.pending THEN IdleReadDone(k)
                      ELSE [k EXCEPT !.waiting = FALSE, !.wire = Rest(k)]
    PROVE  /\ ConnectionOK(l) /\ l.host = k.host /\ l.st = "used"
           /\ k.queued = <<>> /\ l.queued = <<>> /\ l.wire = Rest(k)
<1>1. k \in Connection /\ k.host \in Host /\ k.queued = <<>> /\ Rest(k) \in Seq(Parts)
    BY Zenon, NextPart DEF ConnectionOK
<1>2. CASE l = [k EXCEPT !.waiting = FALSE, !.wire = Rest(k)]
    BY Zenon, <1>1, <1>2 DEF ConnectionOK, Connection
<1>3. CASE l = [k EXCEPT !.pending = FALSE, !.waiting = FALSE, !.wire = Rest(k)]
    BY Zenon, <1>1, <1>3 DEF ConnectionOK, Connection
<1>4. QED
    BY Zenon, <1>2, <1>3 DEF IdleReadDone

\* The idle read completes, and nobody waits for it.
LEMMA IdleReadConnection ==
    ASSUME NEW k, ConnectionOK(k), k.st \in {"idle", "used"}, k.pending, ~k.waiting,
           Readable(k)
    PROVE  /\ ConnectionOK(IdleReadDone(k)) /\ IdleReadDone(k).host = k.host
           /\ k.queued = <<>>
           /\ k.st = "idle" => /\ IdleReadDone(k).st = "closed"
           /\ k.st = "used" => /\ IdleReadDone(k).st = "used"
                               /\ IdleReadDone(k).queued = <<Next1(k)>>
                               /\ IdleReadDone(k).wire = Rest(k)
<1>1. k \in Connection /\ k.host \in Host /\ k.queued = <<>> /\ Rest(k) \in Seq(Parts)
    BY Zenon, NextPart DEF ConnectionOK
<1>2. CASE k.st = "idle"
  <2>1. IdleReadDone(k) = [k EXCEPT !.st = "closed", !.pending = FALSE]
      BY Zenon, <1>2 DEF IdleReadDone
  <2>2. QED
      BY Zenon, <1>1, <1>2, <2>1 DEF ConnectionOK, Connection
<1>3. CASE k.st = "used"
  <2> DEFINE q == <<Next1(k)>>
  <2>1. IdleReadDone(k) = [k EXCEPT !.pending = FALSE, !.queued = q, !.wire = Rest(k)]
      BY Zenon, <1>3 DEF IdleReadDone
  <2>2. q \in {<<p>> : p \in Parts \cup {Eof}}
      BY Zenon, NextPart
  <2> HIDE DEF q
  <2>3. [k EXCEPT !.pending = FALSE, !.queued = q, !.wire = Rest(k)] \in Connection
      BY Zenon, <1>1, <2>2 DEF Connection
  <2>4. QED
      BY Zenon, <1>1, <1>3, <2>1, <2>3 DEF ConnectionOK, Connection, q
<1>4. QED
    BY Zenon, <1>2, <1>3

\* A reader takes what was read ahead, or waits.
LEMMA AsyncReadConnection ==
    ASSUME NEW k, ConnectionOK(k), k.st = "used", ~k.waiting
    PROVE  LET l == async_read_some(k)
           IN  /\ ConnectionOK(l) /\ l.host = k.host /\ l.st = "used" /\ l.wire = k.wire
               /\ ~l.waiting => k.queued # <<>> /\ l.queued = <<>>
               /\ l.waiting => l.queued = k.queued
<1>1. k \in Connection /\ k.host \in Host
    BY Zenon DEF ConnectionOK
<1>2. CASE k.queued # <<>> /\ async_read_some(k) = [k EXCEPT !.queued = <<>>]
    BY Zenon, <1>1, <1>2 DEF ConnectionOK, Connection
<1>3. CASE k.queued = <<>> /\ async_read_some(k) = [k EXCEPT !.waiting = TRUE]
    BY Zenon, <1>1, <1>3 DEF ConnectionOK, Connection
<1>4. QED
    BY Zenon, <1>2, <1>3 DEF async_read_some

\* Erasing a connection from its pool.
LEMMA RemoveAtProperties ==
    ASSUME NEW S, NEW s \in Seq(S), NEW i \in 1 .. Len(s)
    PROVE  /\ RemoveAt(s, i) \in Seq(S)
           /\ Len(RemoveAt(s, i)) = Len(s) - 1
           /\ \A j \in 1 .. Len(s) - 1 : RemoveAt(s, i)[j] = IF j < i THEN s[j] ELSE s[j + 1]
<1> DEFINE a == SubSeq(s, 1, i - 1)
           b == SubSeq(s, i + 1, Len(s))
<1>1. a \in Seq(S) /\ Len(a) = i - 1 /\ \A j \in 1 .. i - 1 : a[j] = s[j]
    OBVIOUS
<1>2. b \in Seq(S) /\ Len(b) = Len(s) - i /\ \A j \in 1 .. Len(s) - i : b[j] = s[i + j]
    OBVIOUS
<1>3. RemoveAt(s, i) = a \o b
    BY Zenon DEF RemoveAt
<1> HIDE DEF a, b
<1>4. /\ a \o b \in Seq(S) /\ Len(a \o b) = Len(a) + Len(b)
      /\ \A j \in 1 .. Len(a) + Len(b) :
            (a \o b)[j] = IF j <= Len(a) THEN a[j] ELSE b[j - Len(a)]
    BY Zenon, <1>1, <1>2, ConcatProperties
<1>5. ASSUME NEW j \in 1 .. Len(s) - 1
      PROVE  (a \o b)[j] = IF j < i THEN s[j] ELSE s[j + 1]
  <2>1. j \in 1 .. Len(a) + Len(b) /\ Len(a) = i - 1
      BY <1>1, <1>2
  <2>2. CASE j < i
      BY <1>1, <1>4, <2>1, <2>2
  <2>3. CASE ~(j < i)
    <3>1. j - Len(a) \in 1 .. Len(s) - i /\ i + (j - Len(a)) = j + 1
        BY <2>1, <2>3
    <3>2. (a \o b)[j] = b[j - Len(a)]
        BY <1>4, <2>1, <2>3
    <3>3. QED
        BY Zenon, <1>2, <2>3, <3>1, <3>2
  <2>4. QED
      BY Zenon, <2>2, <2>3
<1>6. QED
    BY <1>1, <1>2, <1>3, <1>4, <1>5

LEMMA ErasedPool ==
    ASSUME NEW pool \in Seq(Conn), IsInjective(pool), NEW c
    PROVE  /\ Erased(pool, c) \in Seq(Conn)
           /\ IsInjective(Erased(pool, c))
           /\ \A i \in 1 .. Len(Erased(pool, c)) :
                /\ Erased(pool, c)[i] # c
                /\ \E j \in 1 .. Len(pool) : Erased(pool, c)[i] = pool[j]
<1>1. CASE ~\E i \in 1 .. Len(pool) : pool[i] = c
    BY Zenon, <1>1 DEF Erased, RemoveFirst
<1>2. ASSUME NEW i \in 1 .. Len(pool), pool[i] = c
      PROVE  /\ Erased(pool, c) \in Seq(Conn)
             /\ IsInjective(Erased(pool, c))
             /\ \A m \in 1 .. Len(Erased(pool, c)) :
                  /\ Erased(pool, c)[m] # c
                  /\ \E j \in 1 .. Len(pool) : Erased(pool, c)[m] = pool[j]
  <2>1. {j \in 1 .. Len(pool) : pool[j] = c} = {i}
      BY <1>2 DEF IsInjective
  <2>2. Min({i}) = i
      BY DEF Min
  <2>3. SelectInSeq(pool, LAMBDA v : v = c) = i
      BY Zenon, <2>1, <2>2 DEF SelectInSeq
  <2>4. Erased(pool, c) = RemoveAt(pool, i)
      BY Zenon, <1>2, <2>3 DEF Erased, RemoveFirst
  <2>5. /\ RemoveAt(pool, i) \in Seq(Conn) /\ Len(RemoveAt(pool, i)) = Len(pool) - 1
        /\ \A j \in 1 .. Len(pool) - 1 :
              RemoveAt(pool, i)[j] = IF j < i THEN pool[j] ELSE pool[j + 1]
      BY Zenon, RemoveAtProperties
  <2> DEFINE e == RemoveAt(pool, i)
  <2> HIDE DEF e
  <2>6. e \in Seq(Conn) /\ Len(e) = Len(pool) - 1
        /\ \A j \in 1 .. Len(pool) - 1 : e[j] = IF j < i THEN pool[j] ELSE pool[j + 1]
      BY Zenon, <2>5 DEF e
  <2>7. IsInjective(e) /\ \A j \in 1 .. Len(e) : e[j] # c
    <3> DEFINE from(j) == IF j < i THEN j ELSE j + 1
    <3>1. \A j \in 1 .. Len(e) : /\ from(j) \in 1 .. Len(pool)
                                 /\ from(j) # i
                                 /\ e[j] = pool[from(j)]
        BY <2>6
    <3>2. \A j, m \in 1 .. Len(e) : from(j) = from(m) => j = m
        OBVIOUS
    <3>3. DOMAIN e = 1 .. Len(e) /\ DOMAIN pool = 1 .. Len(pool)
        BY <2>6
    <3> HIDE DEF from
    <3>4. QED
        BY <1>2, <3>1, <3>2, <3>3 DEF IsInjective
  <2>8. \A m \in 1 .. Len(e) : \E j \in 1 .. Len(pool) : e[m] = pool[j]
      BY <2>6
  <2>9. QED
      BY Zenon, <2>4, <2>6, <2>7, <2>8 DEF e
<1>3. QED
    BY Zenon, <1>1, <1>2

-----------------------------------------------------------------------------
(***************************************************************************)
(* PooledIsIdle, by the ways in which a step changes sessions and pools.   *)
(***************************************************************************)

\* A session without a connection goes elsewhere.
LEMMA SessionMoves ==
    ASSUME TypeInv, PooledIsIdle, NEW s \in Client, NEW e, SessionOK(e),
           e.c = NoConn, ses' = [ses EXCEPT ![s] = e], UNCHANGED poolvars
    PROVE  TypeInv' /\ PooledIsIdle'
<1>1. \A t \in Client : ses'[t] = IF t = s THEN e ELSE ses[t]
    BY Zenon DEF TypeInv
<1>2. TypeInv'
  <2>1. \A t \in Client : SessionOK(ses'[t])
      BY Zenon, <1>1 DEF TypeInv
  <2>2. DOMAIN ses' = Client /\ ses' = [t \in Client |-> ses'[t]]
      BY Zenon DEF TypeInv
  <2>3. QED
      BY <2>1, <2>2 DEF TypeInv, poolvars, SessionOK, ConnectionOK, Connection, Parts
<1>3. PooledIsIdle'
    BY <1>1 DEF PooledIsIdle, poolvars
<1>4. QED
    BY Zenon, <1>2, <1>3

\* What the pool of one host holds.
LEMMA PoolHolds ==
    ASSUME TypeInv, PooledIsIdle, NEW h \in Host
    PROVE  /\ pools[h] \in Seq(Conn) /\ IsInjective(pools[h])
           /\ \A i \in 1 .. Len(pools[h]) :
                 /\ pools[h][i] \in Conn
                 /\ con[pools[h][i]].st = "idle"
                 /\ con[pools[h][i]].host = h
                 /\ con[pools[h][i]].pending
<1>1. pools[h] \in Seq(Conn)
    BY Zenon DEF TypeInv
<1>2. \A q \in Seq(Conn) : \A i \in 1 .. Len(q) : q[i] \in Conn
    OBVIOUS
<1>3. \A i \in 1 .. Len(pools[h]) : pools[h][i] \in Conn
    BY Zenon, <1>1, <1>2
<1>4. IsInjective(pools[h])
    BY Zenon DEF PooledIsIdle
<1>5. ASSUME NEW i \in 1 .. Len(pools[h])
      PROVE  /\ con[pools[h][i]].st = "idle"
             /\ con[pools[h][i]].host = h
             /\ con[pools[h][i]].pending
    BY DEF PooledIsIdle
<1>6. QED
    BY Zenon, <1>1, <1>3, <1>4, <1>5

\* The pool of host h may hold connection k.
PooledFor(k, h) == k.st = "idle" /\ k.host = h /\ k.pending

LEMMA AppendedPool ==
    ASSUME NEW S, NEW q \in Seq(S), IsInjective(q), NEW c \in S,
           \A i \in 1 .. Len(q) : q[i] # c
    PROVE  /\ Append(q, c) \in Seq(S) /\ IsInjective(Append(q, c))
           /\ Len(Append(q, c)) = Len(q) + 1
           /\ \A i \in 1 .. Len(q) + 1 : Append(q, c)[i] = IF i <= Len(q) THEN q[i] ELSE c
<1>1. /\ Append(q, c) \in Seq(S) /\ Len(Append(q, c)) = Len(q) + 1
      /\ DOMAIN q = 1 .. Len(q) /\ DOMAIN Append(q, c) = 1 .. Len(q) + 1
      /\ Len(q) \in Nat
    OBVIOUS
<1>2. \A i \in 1 .. Len(q) + 1 : Append(q, c)[i] = IF i <= Len(q) THEN q[i] ELSE c
    OBVIOUS
<1>3. ASSUME NEW i \in 1 .. Len(q) + 1, NEW j \in 1 .. Len(q) + 1,
             Append(q, c)[i] = Append(q, c)[j]
      PROVE  i = j
  <2>1. CASE i <= Len(q) /\ j <= Len(q)
      BY <1>1, <1>2, <1>3, <2>1 DEF IsInjective
  <2>2. CASE i > Len(q) /\ j > Len(q)
      BY <1>1, <2>2
  <2>3. QED
      BY <1>1, <1>2, <1>3, <2>1, <2>2
<1>4. QED
    BY Zenon, <1>1, <1>2, <1>3 DEF IsInjective

LEMMA AppendedHolds ==
    ASSUME NEW q \in Seq(Conn), IsInjective(q), NEW c \in Conn, NEW f, NEW h,
           \A i \in 1 .. Len(q) : q[i] # c /\ PooledFor(f[q[i]], h),
           PooledFor(f[c], h)
    PROVE  /\ IsInjective(Append(q, c))
           /\ \A i \in 1 .. Len(Append(q, c)) : PooledFor(f[Append(q, c)[i]], h)
<1>1. /\ IsInjective(Append(q, c))
      /\ Len(Append(q, c)) = Len(q) + 1
      /\ \A i \in 1 .. Len(q) + 1 : Append(q, c)[i] = IF i <= Len(q) THEN q[i] ELSE c
    BY AppendedPool
<1>2. Len(q) \in Nat
    OBVIOUS
<1>3. ASSUME NEW i \in 1 .. Len(q) + 1
      PROVE  PooledFor(f[Append(q, c)[i]], h)
  <2>1. CASE i <= Len(q)
      BY <1>1, <1>2, <2>1
  <2>2. CASE ~(i <= Len(q))
      BY Zenon, <1>1, <1>2, <2>2
  <2>3. QED
      BY Zenon, <2>1, <2>2
<1>4. QED
    BY Zenon, <1>1, <1>3

\* Who uses which connection.
LEMMA UsersHold ==
    ASSUME TypeInv, PooledIsIdle, NEW s \in Client, ses[s].pc \in Holding
    PROVE  /\ ses[s].c \in Conn /\ con[ses[s].c].st = "used"
           /\ ConnectionOK(con[ses[s].c])
           /\ \A t \in Client \ {s} : ses[t].c # ses[s].c
           /\ \A h \in Host : \A i \in 1 .. Len(pools[h]) : pools[h][i] # ses[s].c
<1>1. ses[s].c \in Conn
    BY Zenon DEF TypeInv, SessionOK
<1>2. ses[s].c # NoConn
    BY Zenon, <1>1, InjectorAssumption
<1>3. /\ con[ses[s].c].st = "used"
      /\ \A t \in Client : ses[s].c = ses[t].c => s = t
    BY <1>2, Zenon DEF PooledIsIdle
<1>4. \A h \in Host : \A i \in 1 .. Len(pools[h]) : pools[h][i] # ses[s].c
    BY <1>3, PoolHolds
<1>5. QED
    BY Zenon, <1>1, <1>3, <1>4 DEF TypeInv

\* The connection of a session changes, and stays its connection.
LEMMA UsedChanges ==
    ASSUME TypeInv, PooledIsIdle, NEW s \in Client, ses[s].pc \in Holding,
           NEW k, ConnectionOK(k), k.st = "used",
           con' = [con EXCEPT ![ses[s].c] = k],
           \/ UNCHANGED ses
           \/ \E pc \in Holding : ses' = [ses EXCEPT ![s].pc = pc],
           UNCHANGED pools,
           sent' \in [Conn -> Seq(Parts)], recv' \in [Conn -> Seq(Parts)]
    PROVE  TypeInv' /\ PooledIsIdle'
<1>1. ses[s].c \in Conn /\ SessionOK(ses[s])
    BY Zenon DEF TypeInv, SessionOK
<1>2. \A c \in Conn : con'[c] = IF c = ses[s].c THEN k ELSE con[c]
    BY Zenon, <1>1 DEF TypeInv
<1>3. DOMAIN con' = Conn /\ con' = [c \in Conn |-> con'[c]]
    BY Zenon, <1>1 DEF TypeInv
<1>4. \A t \in Client : SessionOK(ses'[t]) /\ ses'[t].c = ses[t].c
  <2>1. CASE UNCHANGED ses
      BY Zenon, <2>1 DEF TypeInv
  <2>2. ASSUME NEW pc \in Holding, ses' = [ses EXCEPT ![s].pc = pc]
        PROVE  \A t \in Client : SessionOK(ses'[t]) /\ ses'[t].c = ses[t].c
      BY Zenon, <1>1, <2>2 DEF TypeInv, SessionOK
  <2>3. QED
      BY Zenon, <2>1, <2>2
<1>5. DOMAIN ses' = Client /\ ses' = [t \in Client |-> ses'[t]]
    BY Zenon DEF TypeInv
<1>6. \A c \in Conn : ConnectionOK(con'[c])
    BY Zenon, <1>2 DEF TypeInv
<1>7. TypeInv'
    BY Zenon, <1>3, <1>4, <1>5, <1>6 DEF TypeInv, SessionOK, ConnectionOK, Connection, Parts
<1>9. \A h \in Host : \A i \in 1 .. Len(pools[h]) :
          pools[h][i] \in Conn /\ pools[h][i] # ses[s].c
    BY UsersHold, PoolHolds
<1>10. PooledIsIdle'
  <2>1. \A h \in Host : \A i \in 1 .. Len(pools[h]) : con'[pools[h][i]] = con[pools[h][i]]
      BY Zenon, <1>2, <1>9
  <2>2. \A t \in Client : ses[t].c # NoConn => con'[ses[t].c].st = "used"
      BY Zenon, <1>2 DEF PooledIsIdle, TypeInv, SessionOK
  <2>3. QED
      BY <1>4, <2>1, <2>2 DEF PooledIsIdle
<1>11. QED
    BY Zenon, <1>7, <1>10

\* The session lets go of its connection, which returns to its pool or not.
LEMMA SessionLeaves ==
    ASSUME TypeInv, PooledIsIdle, NEW s \in Client, ses[s].pc \in Holding,
           NEW k, ConnectionOK(k), k.host = con[ses[s].c].host, k.st \in {"idle", "closed"},
           NEW e, SessionOK(e), e.c = NoConn,
           con' = [con EXCEPT ![ses[s].c] = k],
           pools' = [pools EXCEPT ![k.host] = PoolAfter(@, k, ses[s].c)],
           ses' = [ses EXCEPT ![s] = e],
           sent' \in [Conn -> Seq(Parts)], recv' \in [Conn -> Seq(Parts)]
    PROVE  TypeInv' /\ PooledIsIdle'
<1> DEFINE c == ses[s].c
<1>1. c \in Conn /\ k.host \in Host
    BY Zenon, UsersHold DEF ConnectionOK
<1> HIDE DEF c
<1>2. \A d \in Conn : con'[d] = IF d = c THEN k ELSE con[d]
    BY Zenon, <1>1 DEF TypeInv, c
<1>3. DOMAIN con' = Conn /\ con' = [d \in Conn |-> con'[d]]
    BY Zenon, <1>1 DEF TypeInv, c
<1>4. /\ \A t \in Client : ses'[t] = IF t = s THEN e ELSE ses[t]
      /\ DOMAIN ses' = Client /\ ses' = [t \in Client |-> ses'[t]]
    BY Zenon DEF TypeInv
<1>5. \A h \in Host : /\ pools[h] \in Seq(Conn) /\ IsInjective(pools[h])
                      /\ \A i \in 1 .. Len(pools[h]) :
                            /\ pools[h][i] \in Conn /\ pools[h][i] # c
                            /\ PooledFor(con'[pools[h][i]], h)
    BY <1>2, UsersHold, PoolHolds DEF c, PooledFor
<1>6. /\ pools' \in [Host -> Seq(Conn)]
      /\ \A h \in Host : pools'[h] = IF h = k.host /\ k.st = "idle" THEN Append(pools[h], c)
                                     ELSE pools[h]
    BY <1>1 DEF PoolAfter, TypeInv, c
<1>7. TypeInv'
  <2>1. \A d \in Conn : ConnectionOK(con'[d])
      BY Zenon, <1>2 DEF TypeInv
  <2>2. \A t \in Client : SessionOK(ses'[t])
      BY Zenon, <1>4 DEF TypeInv
  <2>3. QED
      BY Zenon, <1>3, <1>4, <1>6, <2>1, <2>2 DEF TypeInv, SessionOK, ConnectionOK, Connection, Parts
<1>8. ASSUME NEW h \in Host
      PROVE  /\ IsInjective(pools'[h])
             /\ \A i \in 1 .. Len(pools'[h]) : PooledFor(con'[pools'[h][i]], h)
  <2>1. CASE h = k.host /\ k.st = "idle"
    <3>1. con'[c].st = "idle" /\ con'[c].host = h /\ con'[c].pending
        BY Zenon, <1>1, <1>2, <2>1 DEF ConnectionOK
    <3>2. pools[h] \in Seq(Conn) /\ pools'[h] = Append(pools[h], c)
        BY Zenon, <1>5, <1>6, <2>1
    <3>3. /\ IsInjective(pools[h]) /\ PooledFor(con'[c], h)
          /\ \A i \in 1 .. Len(pools[h]) : pools[h][i] # c /\ PooledFor(con'[pools[h][i]], h)
      <4>1. PooledFor(con'[c], h)
          BY Zenon, <3>1 DEF PooledFor
      <4>2. QED
          BY Zenon, <1>5, <4>1
    <3>4. /\ IsInjective(Append(pools[h], c))
          /\ \A i \in 1 .. Len(Append(pools[h], c)) :
                PooledFor(con'[Append(pools[h], c)[i]], h)
        BY Zenon, <1>1, <3>2, <3>3, AppendedHolds
    <3>5. QED
        BY Zenon, <3>2, <3>4
  <2>2. CASE ~(h = k.host /\ k.st = "idle")
    <3>1. pools'[h] = pools[h]
        BY Zenon, <1>6, <2>2
    <3>2. QED
        BY Zenon, <1>5, <3>1
  <2>3. QED
      BY Zenon, <2>1, <2>2
<1>9. \A t, u \in Client : ses'[t].c # NoConn =>
          con'[ses'[t].c].st = "used" /\ (ses'[t].c = ses'[u].c => t = u)
  <2>1. \A t \in Client \ {s} : ses[t].c # NoConn => ses[t].c \in Conn /\ ses[t].c # c
      BY Zenon, UsersHold DEF TypeInv, SessionOK, c
  <2>2. QED
      BY <1>2, <1>4, <2>1 DEF PooledIsIdle
<1>10. \A h \in Host : \A i \in 1 .. Len(pools'[h]) :
          LET d == con'[pools'[h][i]]
          IN  d.st = "idle" /\ d.host = h /\ d.pending
    BY Zenon, <1>8 DEF PooledFor
<1>11. QED
    BY Zenon, <1>7, <1>8, <1>9, <1>10 DEF PooledIsIdle

\* Connections change and stay where they are.
LEMMA SameRole ==
    ASSUME TypeInv, PooledIsIdle,
           DOMAIN con' = Conn /\ con' = [c \in Conn |-> con'[c]],
           \A c \in Conn : /\ ConnectionOK(con'[c])
                           /\ con'[c].st = con[c].st /\ con'[c].host = con[c].host,
           DOMAIN ses' = Client /\ ses' = [t \in Client |-> ses'[t]],
           \A t \in Client : SessionOK(ses'[t]) /\ ses'[t].c = ses[t].c,
           UNCHANGED pools,
           sent' \in [Conn -> Seq(Parts)], recv' \in [Conn -> Seq(Parts)]
    PROVE  TypeInv' /\ PooledIsIdle'
<1>1. TypeInv'
    BY Zenon DEF TypeInv, SessionOK, ConnectionOK, Connection, Parts
<1>2. ASSUME NEW h \in Host
      PROVE  /\ IsInjective(pools'[h])
             /\ \A i \in 1 .. Len(pools'[h]) : PooledFor(con'[pools'[h][i]], h)
  <2>1. ASSUME NEW i \in 1 .. Len(pools[h])
        PROVE  PooledFor(con'[pools[h][i]], h)
    <3>1. pools[h][i] \in Conn /\ con[pools[h][i]].st = "idle" /\ con[pools[h][i]].host = h
        BY PoolHolds
    <3>2. QED
        BY Zenon, <3>1 DEF PooledFor, ConnectionOK
  <2>2. IsInjective(pools[h])
      BY Zenon, PoolHolds
  <2>3. QED
      BY Zenon, <2>1, <2>2
<1>3. \A h \in Host : \A i \in 1 .. Len(pools'[h]) :
          LET d == con'[pools'[h][i]]
          IN  d.st = "idle" /\ d.host = h /\ d.pending
    BY Zenon, <1>2 DEF PooledFor
<1>4. \A t, u \in Client : ses'[t].c # NoConn =>
          con'[ses'[t].c].st = "used" /\ (ses'[t].c = ses'[u].c => t = u)
  <2>1. \A t \in Client : ses[t].c # NoConn => ses[t].c \in Conn
      BY Zenon DEF TypeInv, SessionOK
  <2>2. QED
      BY <2>1 DEF PooledIsIdle
<1>5. QED
    BY Zenon, <1>1, <1>2, <1>3, <1>4 DEF PooledIsIdle

\* A session takes connection c, which no session had and no pool has now.
LEMMA SessionTakes ==
    ASSUME TypeInv, PooledIsIdle, NEW s \in Client, ses[s].c = NoConn,
           ses[s].req.host \in Host,
           NEW c \in Conn, con[c].st # "used",
           DOMAIN con' = Conn /\ con' = [d \in Conn |-> con'[d]],
           con'[c].st = "used",
           \A d \in Conn : ConnectionOK(con'[d]),
           \A d \in Conn \ {c} : con'[d].st = con[d].st /\ con'[d].host = con[d].host,
           pools' \in [Host -> Seq(Conn)],
           \A h \in Host : /\ IsInjective(pools'[h])
                           /\ \A i \in 1 .. Len(pools'[h]) :
                                 /\ pools'[h][i] \in Conn \ {c}
                                 /\ PooledFor(con[pools'[h][i]], h),
           ses' = [ses EXCEPT ![s].pc = "send", ![s].c = c],
           sent' \in [Conn -> Seq(Parts)], recv' \in [Conn -> Seq(Parts)]
    PROVE  TypeInv' /\ PooledIsIdle'
<1>1. \A t \in Client : /\ SessionOK(ses'[t])
                        /\ ses'[t].c = IF t = s THEN c ELSE ses[t].c
  <2> DEFINE e == [ses[s] EXCEPT !.pc = "send", !.c = c]
  <2>1. SessionOK(ses[s])
      BY Zenon DEF TypeInv
  <2>2. SessionOK(e) /\ e.c = c
      BY Zenon, <2>1 DEF SessionOK, Holding
  <2>4. \A t \in Client : ses'[t] = IF t = s THEN e ELSE ses[t]
      BY Zenon DEF TypeInv
  <2> HIDE DEF e
  <2>5. \A t \in Client : SessionOK(ses[t])
      BY Zenon DEF TypeInv
  <2>6. ASSUME NEW t \in Client
        PROVE  SessionOK(ses'[t]) /\ ses'[t].c = IF t = s THEN c ELSE ses[t].c
    <3>1. CASE t = s
      <4>1. ses'[t] = e
          BY Zenon, <2>4, <3>1
      <4>2. SessionOK(ses'[t])
          BY Zenon, <2>2, <4>1
      <4>3. ses'[t].c = c
          BY Zenon, <2>2, <4>1
      <4>4. QED
          BY Zenon, <3>1, <4>2, <4>3
    <3>2. CASE t # s
      <4>1. ses'[t] = ses[t]
          BY Zenon, <2>4, <3>2
      <4>2. SessionOK(ses'[t])
          BY Zenon, <2>5, <4>1
      <4>3. ses'[t].c = ses[t].c
          BY Zenon, <4>1
      <4>4. QED
          BY Zenon, <3>2, <4>2, <4>3
    <3>3. QED
        BY Zenon, <3>1, <3>2
  <2>7. QED
      BY Zenon, <2>6
<1>2. DOMAIN ses' = Client /\ ses' = [t \in Client |-> ses'[t]]
    BY Zenon DEF TypeInv
<1>3. TypeInv'
    BY Zenon, <1>1, <1>2 DEF TypeInv, SessionOK, ConnectionOK, Connection, Parts
<1>4. ASSUME NEW h \in Host, NEW i \in 1 .. Len(pools'[h])
      PROVE  PooledFor(con'[pools'[h][i]], h)
  <2>1. pools'[h][i] \in Conn \ {c} /\ PooledFor(con[pools'[h][i]], h)
      BY Zenon
  <2>2. QED
      BY <2>1 DEF PooledFor, ConnectionOK
<1>5. \A h \in Host : \A i \in 1 .. Len(pools'[h]) :
          LET d == con'[pools'[h][i]]
          IN  d.st = "idle" /\ d.host = h /\ d.pending
    BY Zenon, <1>4 DEF PooledFor
<1>6. \A t, u \in Client : ses'[t].c # NoConn =>
          con'[ses'[t].c].st = "used" /\ (ses'[t].c = ses'[u].c => t = u)
  <2>1. \A t \in Client : ses[t].c # NoConn => /\ ses[t].c \in Conn \ {c}
                                               /\ con[ses[t].c].st = "used"
                                               /\ \A u \in Client : ses[t].c = ses[u].c => t = u
    <3>1. \A t \in Client : ses[t].c # NoConn => ses[t].c \in Conn
        BY Zenon DEF TypeInv, SessionOK
    <3>2. QED
        BY <3>1 DEF PooledIsIdle
  <2>2. c # NoConn
      BY Zenon, InjectorAssumption
  <2>3. ASSUME NEW t \in Client, NEW u \in Client, ses'[t].c # NoConn
        PROVE  con'[ses'[t].c].st = "used" /\ (ses'[t].c = ses'[u].c => t = u)
    <3>1. CASE t = s
      <4>1. ses'[t].c = c
          BY Zenon, <1>1, <3>1
      <4>2. u # s => ses'[u].c = ses[u].c /\ ses[u].c # c
          BY Zenon, <1>1, <2>1, <2>2
      <4>3. QED
          BY Zenon, <3>1, <4>1, <4>2
    <3>2. CASE t # s
      <4>1. /\ ses'[t].c = ses[t].c /\ ses[t].c \in Conn \ {c}
            /\ con[ses[t].c].st = "used"
            /\ \A v \in Client : ses[t].c = ses[v].c => t = v
          BY Zenon, <1>1, <2>1, <2>3, <3>2
      <4>2. u = s => ses'[u].c = c
          BY Zenon, <1>1
      <4>3. u # s => ses'[u].c = ses[u].c
          BY Zenon, <1>1
      <4>4. QED
          BY Zenon, <4>1, <4>2, <4>3
    <3>3. QED
        BY Zenon, <3>1, <3>2
  <2>4. QED
      BY Zenon, <2>3
<1>7. QED
    BY Zenon, <1>3, <1>5, <1>6 DEF PooledIsIdle

LEMMA TailPool ==
    ASSUME NEW S, NEW q \in Seq(S), IsInjective(q), q # <<>>
    PROVE  /\ Head(q) \in S /\ Tail(q) \in Seq(S) /\ IsInjective(Tail(q))
           /\ \A i \in 1 .. Len(Tail(q)) : /\ Tail(q)[i] # Head(q)
                                           /\ \E j \in 1 .. Len(q) : Tail(q)[i] = q[j]
           /\ 1 \in 1 .. Len(q) /\ Head(q) = q[1]
<1>1. /\ Head(q) \in S /\ Tail(q) \in Seq(S) /\ Len(q) \in Nat /\ Len(q) # 0
      /\ Len(Tail(q)) = Len(q) - 1 /\ Head(q) = q[1]
      /\ DOMAIN q = 1 .. Len(q) /\ DOMAIN Tail(q) = 1 .. Len(q) - 1
    OBVIOUS
<1>2. \A i \in 1 .. Len(q) - 1 : Tail(q)[i] = q[i + 1] /\ i + 1 \in 1 .. Len(q)
    BY <1>1
<1>3. IsInjective(Tail(q))
    BY <1>1, <1>2 DEF IsInjective
<1>4. \A i \in 1 .. Len(q) - 1 : Tail(q)[i] # Head(q)
    BY <1>1, <1>2 DEF IsInjective
<1>5. QED
    BY <1>1, <1>2, <1>3, <1>4

-----------------------------------------------------------------------------
(***************************************************************************)
(* Each step keeps the pools sound.                                        *)
(***************************************************************************)
LEMMA AnswerKeeps ==
    ASSUME TypeInv, PooledIsIdle, NEW s \in Client, NEW q \in Requests, NEW n \in Nat
    PROVE  /\ \A strict \in BOOLEAN : Answer(s, q, n, strict) => TypeInv' /\ PooledIsIdle'
           /\ \A pc \in {"tunnel", "origin"} :
                 q.host \in Host /\ Goto(s, q, n, pc) => TypeInv' /\ PooledIsIdle'
<1>1. ASSUME NEW strict \in BOOLEAN, Answer(s, q, n, strict)
      PROVE  TypeInv' /\ PooledIsIdle'
  <2> DEFINE e == [pc |-> IF q.keep /\ (strict => alive[s]) THEN "read" ELSE "closed",
                   req |-> NoRequest, n |-> n, c |-> NoConn]
  <2>1. SessionOK(e) /\ e.c = NoConn
      BY Zenon DEF SessionOK, Holding
  <2>2. ses' = [ses EXCEPT ![s] = e] /\ UNCHANGED poolvars
      BY Zenon, <1>1 DEF Answer
  <2> HIDE DEF e
  <2>3. QED
      BY Zenon, <2>1, <2>2, SessionMoves
<1>2. ASSUME NEW pc \in {"tunnel", "origin"}, q.host \in Host, Goto(s, q, n, pc)
      PROVE  TypeInv' /\ PooledIsIdle'
  <2> DEFINE e == [pc |-> pc, req |-> q, n |-> n, c |-> NoConn]
  <2>1. SessionOK(e) /\ e.c = NoConn
      BY Zenon, <1>2 DEF SessionOK, Holding
  <2>2. ses' = [ses EXCEPT ![s] = e] /\ UNCHANGED poolvars
      BY Zenon, <1>2 DEF Goto
  <2> HIDE DEF e
  <2>3. QED
      BY Zenon, <2>1, <2>2, SessionMoves
<1>3. QED
    BY Zenon, <1>1, <1>2

LEMMA ServeKeeps ==
    ASSUME TypeInv, PooledIsIdle, NEW s \in Client, NEW q \in Requests, serve(s, q)
    PROVE  TypeInv' /\ PooledIsIdle'
<1> DEFINE n == ses[s].n + 1
<1>1. n \in Nat
    BY DEF TypeInv, SessionOK
<1>2. \/ \E strict \in BOOLEAN : Answer(s, q, n, strict)
      \/ \E pc \in {"tunnel", "origin"} :
            /\ q.kind \in {"connect", "proxy", "inject"}
            /\ Goto(s, q, n, pc)
    BY Zenon DEF serve
<1> HIDE DEF n
<1>3. QED
    BY Zenon, <1>1, <1>2, AnswerKeeps, InjectorAssumption

\* ReadFails and handle_connect_request.
LEMMA HangUpKeeps ==
    ASSUME TypeInv, PooledIsIdle, NEW s \in Client, ses[s].pc \in {"read", "tunnel"},
           ses' = [ses EXCEPT ![s].pc = "closed"], UNCHANGED poolvars
    PROVE  TypeInv' /\ PooledIsIdle'
<1> DEFINE e == [ses[s] EXCEPT !.pc = "closed"]
<1>1. SessionOK(e) /\ e.c = NoConn
    BY Zenon DEF TypeInv, SessionOK, Holding
<1>2. ses' = [ses EXCEPT ![s] = e]
    BY Zenon DEF TypeInv
<1> HIDE DEF e
<1>3. QED
    BY Zenon, <1>1, <1>2, SessionMoves

\* What Failed leaves of the session.
LEMMA FailedSession ==
    ASSUME TypeInv, NEW s \in Client, Failed(s)
    PROVE  \E e : SessionOK(e) /\ e.c = NoConn /\ ses' = [ses EXCEPT ![s] = e]
<1> DEFINE e == [pc |-> IF ses[s].req.kind = "proxy" /\ ses[s].req.keep THEN "read"
                        ELSE "closed",
                 req |-> NoRequest, n |-> ses[s].n, c |-> NoConn]
<1>1. ses[s].n \in Nat
    BY Zenon DEF TypeInv, SessionOK
<1>2. SessionOK(e) /\ e.c = NoConn
    BY Zenon, <1>1 DEF SessionOK, Holding
<1>3. ses' = [ses EXCEPT ![s] = e]
    BY Zenon DEF Failed
<1> HIDE DEF e
<1>4. QED
    BY Zenon, <1>2, <1>3

LEMMA ConnectFailsKeeps ==
    ASSUME TypeInv, PooledIsIdle, NEW s \in Client, ConnectFails(s)
    PROVE  TypeInv' /\ PooledIsIdle'
<1>1. Failed(s) /\ UNCHANGED poolvars
    BY Zenon DEF ConnectFails
<1>2. QED
    BY Zenon, <1>1, FailedSession, SessionMoves

\* The session fails, and its connection is now k.
LEMMA LetGoKeeps ==
    ASSUME TypeInv, PooledIsIdle, NEW s \in Client, ses[s].pc \in Holding,
           NEW k, Left(con[ses[s].c], k), LetGo(ses[s].c, k), Failed(s)
    PROVE  TypeInv' /\ PooledIsIdle'
<1>1. con[ses[s].c].st = "used" /\ ConnectionOK(con[ses[s].c])
    BY Zenon, UsersHold
<1>2. ConnectionOK(k) /\ k.host = con[ses[s].c].host /\ k.st \in {"idle", "closed"}
    BY Zenon, <1>1, LeftConnection
<1>3. /\ con' = [con EXCEPT ![ses[s].c] = k]
      /\ pools' = [pools EXCEPT ![k.host] = PoolAfter(@, k, ses[s].c)]
      /\ sent' = sent /\ recv' = recv
    BY Zenon DEF LetGo
<1>4. sent' \in [Conn -> Seq(Parts)] /\ recv' \in [Conn -> Seq(Parts)]
    BY Zenon, <1>3 DEF TypeInv
<1>5. PICK e : SessionOK(e) /\ e.c = NoConn /\ ses' = [ses EXCEPT ![s] = e]
    BY Zenon, FailedSession
<1>6. QED
    BY Zenon, <1>2, <1>3, <1>4, <1>5, SessionLeaves

LEMMA TimeoutKeeps ==
    ASSUME TypeInv, PooledIsIdle, NEW s \in Client, Timeout(s)
    PROVE  TypeInv' /\ PooledIsIdle'
<1> DEFINE k == [con[ses[s].c] EXCEPT !.st = "closed", !.waiting = FALSE]
<1>1. ses[s].pc \in Holding /\ LetGo(ses[s].c, k) /\ Failed(s)
    BY Zenon DEF Timeout, Holding
<1>2. Left(con[ses[s].c], k)
    BY Zenon DEF Left
<1> HIDE DEF k
<1>3. QED
    BY Zenon, <1>1, <1>2, LetGoKeeps

\* What the origin may answer to the request of session s at once.
Answers(s) ==
    LET head == [r |-> Id(s), part |-> "head"]
        body == [r |-> Id(s), part |-> "body"]
    IN  {<<>>, <<head>>, <<head, body>>}

LEMMA AnswersAreParts ==
    ASSUME TypeInv, NEW s \in Client
    PROVE  Answers(s) \subseteq Seq(Parts)
<1>1. Id(s) \in Client \X Nat
    BY Zenon DEF TypeInv, SessionOK, Id
<1>2. [r |-> Id(s), part |-> "head"] \in Parts /\ [r |-> Id(s), part |-> "body"] \in Parts
    BY Zenon, <1>1 DEF Parts
<1>3. \A a, b \in Parts : <<>> \in Seq(Parts) /\ <<a>> \in Seq(Parts) /\ <<a, b>> \in Seq(Parts)
    OBVIOUS
<1>4. QED
    BY Zenon, <1>2, <1>3 DEF Answers

LEMMA HttpRequestKeeps ==
    ASSUME TypeInv, PooledIsIdle, NEW s \in Client, http_request(s)
    PROVE  TypeInv' /\ PooledIsIdle'
<1> DEFINE c == ses[s].c
<1>1. ses[s].pc \in Holding
    BY Zenon DEF http_request, Holding
<1>2. c \in Conn /\ con[c].st = "used" /\ ConnectionOK(con[c])
    BY Zenon, <1>1, UsersHold
<1>3. Answers(s) \subseteq Seq(Parts)
    BY Zenon, AnswersAreParts
<1>4. CASE con[c].eof /\ LetGo(c, Destroyed(con[c])) /\ Failed(s)
  <2> DEFINE k == Destroyed(con[ses[s].c])
  <2>1. Left(con[ses[s].c], k)
      BY Zenon DEF Left
  <2>2. LetGo(ses[s].c, k) /\ Failed(s)
      BY Zenon, <1>4
  <2> HIDE DEF k
  <2>3. QED
      BY Zenon, <1>1, <2>1, <2>2, LetGoKeeps
<1>5. CASE /\ con[c].eof /\ UNCHANGED <<con, sent>>
           /\ ses' = [ses EXCEPT ![s].pc = "head"] /\ UNCHANGED <<pools, recv>>
  <2>1. con' = [con EXCEPT ![ses[s].c] = con[ses[s].c]]
      BY Zenon, <1>2, <1>5 DEF TypeInv
  <2>2. sent' \in [Conn -> Seq(Parts)] /\ recv' \in [Conn -> Seq(Parts)]
      BY Zenon, <1>5 DEF TypeInv
  <2>3. \E pc \in Holding : ses' = [ses EXCEPT ![s].pc = pc]
      BY Zenon, <1>5 DEF Holding
  <2>4. QED
      BY Zenon, <1>1, <1>2, <1>5, <2>1, <2>2, <2>3, UsedChanges
<1>6. ASSUME NEW response \in Answers(s),
             con' = [con EXCEPT ![c].wire = @ \o response],
             sent' = [sent EXCEPT ![c] = @ \o response],
             ses' = [ses EXCEPT ![s].pc = "head"], UNCHANGED <<pools, recv>>
      PROVE  TypeInv' /\ PooledIsIdle'
  <2> DEFINE w == con[c].wire \o response
             k == [con[c] EXCEPT !.wire = w]
  <2>1. w \in Seq(Parts)
      BY <1>2, <1>3, ConnectionFields
  <2>2. con' = [con EXCEPT ![ses[s].c] = k]
      BY Zenon, <1>6 DEF TypeInv
  <2> HIDE DEF w
  <2>3. ConnectionOK(k) /\ k.st = "used"
      BY Zenon, <1>2, <2>1 DEF ConnectionOK, Connection
  <2> HIDE DEF k
  <2>4. sent' \in [Conn -> Seq(Parts)]
    <3>1. sent[c] \o response \in Seq(Parts)
        BY <1>2, <1>3 DEF TypeInv
    <3>2. QED
        BY Zenon, <1>2, <1>6, <3>1 DEF TypeInv
  <2>5. recv' \in [Conn -> Seq(Parts)]
      BY Zenon, <1>6 DEF TypeInv
  <2>6. \E pc \in Holding : ses' = [ses EXCEPT ![s].pc = pc]
      BY Zenon, <1>6 DEF Holding
  <2>7. QED
      BY Zenon, <1>1, <1>6, <2>2, <2>3, <2>4, <2>5, <2>6, UsedChanges
<1>7. QED
    BY Zenon, <1>4, <1>5, <1>6 DEF http_request, Answers

LEMMA PartKeeps ==
    ASSUME TypeInv, PooledIsIdle, NEW s \in Client, ses[s].pc \in {"head", "body"},
           NEW k, ConnectionOK(k), k.st = "used", k.host = con[ses[s].c].host,
           NEW p \in Parts \cup {Eof}, Part(s, k, p)
    PROVE  TypeInv' /\ PooledIsIdle'
<1> DEFINE c == ses[s].c
<1>1. ses[s].pc \in Holding /\ c \in Conn
    BY Zenon, UsersHold DEF Holding
<1>2. sent' \in [Conn -> Seq(Parts)]
    BY Zenon DEF Part, TypeInv
<1>3. recv' \in [Conn -> Seq(Parts)]
  <2> DEFINE r == IF p = Eof THEN recv[c] ELSE Append(recv[c], p)
  <2>1. r \in Seq(Parts)
      BY <1>1 DEF TypeInv
  <2>2. recv' = [recv EXCEPT ![c] = r]
      BY Zenon DEF Part
  <2> HIDE DEF r
  <2>3. QED
      BY Zenon, <1>1, <2>1, <2>2 DEF TypeInv
<1>4. CASE /\ con' = [con EXCEPT ![c] = k]
           /\ ses' = [ses EXCEPT ![s].pc = "body"]
           /\ UNCHANGED pools
  <2>1. \E pc \in Holding : ses' = [ses EXCEPT ![s].pc = pc]
      BY Zenon, <1>4 DEF Holding
  <2>2. QED
      BY Zenon, <1>1, <1>2, <1>3, <1>4, <2>1, UsedChanges
<1>5. ASSUME NEW l, Left(k, l), NEW e, SessionOK(e), e.c = NoConn,
             con' = [con EXCEPT ![c] = l],
             pools' = [pools EXCEPT ![k.host] = PoolAfter(@, l, c)],
             ses' = [ses EXCEPT ![s] = e]
      PROVE  TypeInv' /\ PooledIsIdle'
  <2>1. ConnectionOK(l) /\ l.host = k.host /\ l.st \in {"idle", "closed"}
      BY Zenon, <1>5, LeftConnection
  <2>2. /\ con' = [con EXCEPT ![ses[s].c] = l] /\ l.host = con[ses[s].c].host
        /\ pools' = [pools EXCEPT ![l.host] = PoolAfter(@, l, ses[s].c)]
      BY Zenon, <1>5, <2>1
  <2>3. QED
      BY Zenon, <1>1, <1>2, <1>3, <1>5, <2>1, <2>2, SessionLeaves
<1>6. ASSUME NEW keep \in BOOLEAN,
             con' = [con EXCEPT ![c] = IF keep THEN Destroyed(k)
                                       ELSE [k EXCEPT !.st = "closed"]],
             pools' = [pools EXCEPT ![k.host] =
                         PoolAfter(@, IF keep THEN Destroyed(k)
                                      ELSE [k EXCEPT !.st = "closed"], c)],
             ses' = [ses EXCEPT ![s] = [pc |-> IF ses[s].req.keep THEN "read" ELSE "closed",
                                        req |-> NoRequest, n |-> ses[s].n, c |-> NoConn]]
      PROVE  TypeInv' /\ PooledIsIdle'
  <2> DEFINE l == IF keep THEN Destroyed(k) ELSE [k EXCEPT !.st = "closed"]
             e == [pc |-> IF ses[s].req.keep THEN "read" ELSE "closed",
                   req |-> NoRequest, n |-> ses[s].n, c |-> NoConn]
  <2>1. Left(k, l)
      BY Zenon DEF Left
  <2>2. SessionOK(e) /\ e.c = NoConn
    <3>1. ses[s].n \in Nat
        BY Zenon DEF TypeInv, SessionOK
    <3>2. QED
        BY Zenon, <3>1 DEF SessionOK, Holding
  <2>3. /\ con' = [con EXCEPT ![c] = l]
        /\ pools' = [pools EXCEPT ![k.host] = PoolAfter(@, l, c)]
        /\ ses' = [ses EXCEPT ![s] = e]
      BY Zenon, <1>6
  <2> HIDE DEF l, e
  <2>4. QED
      BY Zenon, <1>5, <2>1, <2>2, <2>3
<1>7. CASE /\ con' = [con EXCEPT ![c] = Destroyed(k)]
           /\ pools' = [pools EXCEPT ![k.host] = PoolAfter(@, Destroyed(k), c)]
           /\ Failed(s)
  <2>1. Left(k, Destroyed(k))
      BY Zenon DEF Left
  <2>2. PICK e : SessionOK(e) /\ e.c = NoConn /\ ses' = [ses EXCEPT ![s] = e]
      BY Zenon, <1>7, FailedSession
  <2>3. QED
      BY Zenon, <1>5, <1>7, <2>1, <2>2
<1>8. QED
    BY Zenon, <1>4, <1>6, <1>7 DEF Part

LEMMA AsyncReadKeeps ==
    ASSUME TypeInv, PooledIsIdle, NEW s \in Client, async_read_part(s)
    PROVE  TypeInv' /\ PooledIsIdle'
<1> DEFINE k == con[ses[s].c]
           k2 == async_read_some(k)
<1>1. ses[s].pc \in {"head", "body"} /\ ses[s].pc \in Holding /\ ~k.waiting
    BY Zenon DEF async_read_part, Holding
<1>2. k.st = "used" /\ ConnectionOK(k)
    BY Zenon, <1>1, UsersHold
<1>3. \/ ~k2.waiting /\ Part(s, k2, k.queued[1])
      \/ /\ con' = [con EXCEPT ![ses[s].c] = k2]
         /\ UNCHANGED <<config, ses, alive, pools, sent, recv>>
    BY Zenon DEF async_read_part
<1> HIDE DEF k
<1>4. /\ ConnectionOK(k2) /\ k2.host = k.host /\ k2.st = "used"
      /\ ~k2.waiting => k.queued # <<>>
    BY Zenon, <1>1, <1>2, AsyncReadConnection
<1> HIDE DEF k2
<1>5. CASE ~k2.waiting /\ Part(s, k2, k.queued[1])
  <2>1. k.queued[1] \in Parts \cup {Eof}
      BY Zenon, <1>2, <1>4, <1>5, ConnectionFields
  <2>2. k2.host = con[ses[s].c].host
      BY Zenon, <1>4 DEF k
  <2>3. QED
      BY Zenon, <1>1, <1>4, <1>5, <2>1, <2>2, PartKeeps
<1>6. CASE /\ con' = [con EXCEPT ![ses[s].c] = k2]
           /\ UNCHANGED <<config, ses, alive, pools, sent, recv>>
  <2>1. sent' \in [Conn -> Seq(Parts)] /\ recv' \in [Conn -> Seq(Parts)]
      BY Zenon, <1>6 DEF TypeInv
  <2>2. QED
      BY Zenon, <1>1, <1>4, <1>6, <2>1, UsedChanges
<1>7. QED
    BY Zenon, <1>3, <1>5, <1>6

LEMMA StreamReadKeeps ==
    ASSUME TypeInv, PooledIsIdle, NEW s \in Client, StreamRead(s)
    PROVE  TypeInv' /\ PooledIsIdle'
<1> DEFINE k == con[ses[s].c]
           l == IF k.pending THEN IdleReadDone(k)
                ELSE [k EXCEPT !.waiting = FALSE, !.wire = Rest(k)]
<1>1. /\ ses[s].pc \in {"head", "body"} /\ ses[s].pc \in Holding
      /\ k.waiting /\ Readable(k) /\ Part(s, l, Next1(k))
    BY Zenon DEF StreamRead, Holding
<1>2. k.st = "used" /\ ConnectionOK(k)
    BY Zenon, <1>1, UsersHold
<1>3. k.host = con[ses[s].c].host
    BY Zenon
<1> HIDE DEF k
<1>4. l = IF k.pending THEN IdleReadDone(k)
          ELSE [k EXCEPT !.waiting = FALSE, !.wire = Rest(k)]
    BY Zenon
<1> HIDE DEF l
<1>5. ConnectionOK(l) /\ l.host = k.host /\ l.st = "used"
    BY Zenon, <1>1, <1>2, <1>4, StreamReadConnection
<1>6. Next1(k) \in Parts \cup {Eof}
    BY Zenon, <1>1, <1>2, NextPart
<1>7. QED
    BY Zenon, <1>1, <1>3, <1>5, <1>6, PartKeeps

\* A connection that changes in `home` or `eof` only.
LEMMA SameConnection ==
    ASSUME NEW k, ConnectionOK(k), NEW b \in BOOLEAN
    PROVE  /\ ConnectionOK([k EXCEPT !.home = b])
           /\ [k EXCEPT !.home = b].st = k.st /\ [k EXCEPT !.home = b].host = k.host
           /\ [k EXCEPT !.home = b].queued = k.queued /\ [k EXCEPT !.home = b].wire = k.wire
           /\ ConnectionOK([k EXCEPT !.eof = b])
           /\ [k EXCEPT !.eof = b].st = k.st /\ [k EXCEPT !.eof = b].host = k.host
           /\ [k EXCEPT !.eof = b].queued = k.queued /\ [k EXCEPT !.eof = b].wire = k.wire
<1>1. k \in Connection
    BY Zenon DEF ConnectionOK
<1>2. QED
    BY Zenon, <1>1 DEF ConnectionOK, Connection

\* A connection that leaves its pool.
Taken(k, l) == \E b \in BOOLEAN : l = [k EXCEPT !.st = "used", !.home = b]

LEMMA TakenConnection ==
    ASSUME NEW k, ConnectionOK(k), k.st = "idle", NEW l, Taken(k, l)
    PROVE  /\ ConnectionOK(l) /\ l.st = "used" /\ l.host = k.host
           /\ l.queued = k.queued /\ l.wire = k.wire
<1>1. k \in Connection
    BY Zenon DEF ConnectionOK
<1>2. QED
    BY Zenon, <1>1 DEF ConnectionOK, Connection, Taken

\* What pop_front and Homeless do to the connections.
LEMMA PoppedConnections ==
    ASSUME TypeInv, PooledIsIdle, NEW h \in Host
    PROVE  /\ LET f == Homeless(con, h)
              IN  /\ DOMAIN f = Conn /\ f = [d \in Conn |-> f[d]]
                  /\ \A d \in Conn : /\ ConnectionOK(f[d]) /\ f[d].st = con[d].st
                                     /\ f[d].host = con[d].host
                                     /\ f[d].queued = con[d].queued
                                     /\ f[d].wire = con[d].wire
           /\ pools[h] # <<>> =>
                LET f == pop_front(con, pools, h)
                    c == Head(pools[h])
                IN  /\ DOMAIN f = Conn /\ f = [d \in Conn |-> f[d]]
                    /\ f[c].st = "used"
                    /\ \A d \in Conn : /\ ConnectionOK(f[d])
                                       /\ d # c => f[d].st = con[d].st
                                       /\ f[d].host = con[d].host
                                       /\ f[d].queued = con[d].queued
                                       /\ f[d].wire = con[d].wire
<1> DEFINE f == Homeless(con, h)
<1>1. /\ DOMAIN f = Conn /\ f = [d \in Conn |-> f[d]]
      /\ \A d \in Conn : f[d] = IF con[d].host = h THEN [con[d] EXCEPT !.home = FALSE]
                                ELSE con[d]
    BY Zenon DEF Homeless, TypeInv
<1>2. \A d \in Conn : ConnectionOK(con[d])
    BY Zenon DEF TypeInv
<1> HIDE DEF f
<1>3. ASSUME NEW d \in Conn
      PROVE  /\ ConnectionOK(f[d]) /\ f[d].st = con[d].st
             /\ f[d].host = con[d].host
             /\ f[d].queued = con[d].queued
             /\ f[d].wire = con[d].wire
  <2>1. CASE f[d] = con[d]
      BY Zenon, <1>2, <2>1
  <2>2. CASE f[d] = [con[d] EXCEPT !.home = FALSE]
      BY Zenon, <1>2, <2>2, SameConnection
  <2>3. QED
      BY Zenon, <1>1, <2>1, <2>2
<1>4. ASSUME pools[h] # <<>>
      PROVE  LET g == pop_front(con, pools, h)
                 c == Head(pools[h])
             IN  /\ DOMAIN g = Conn /\ g = [d \in Conn |-> g[d]]
                 /\ g[c].st = "used"
                 /\ \A d \in Conn : /\ ConnectionOK(g[d])
                                    /\ d # c => g[d].st = con[d].st
                                    /\ g[d].host = con[d].host
                                    /\ g[d].queued = con[d].queued
                                    /\ g[d].wire = con[d].wire
  <2> DEFINE g == pop_front(con, pools, h)
             c == Head(pools[h])
  <2>1. c \in Conn /\ con[c].st = "idle" /\ con[c].host = h
      BY <1>4, PoolHolds, TailPool
  <2>2. \/ g = [f EXCEPT ![c].st = "used"]
        \/ g = [con EXCEPT ![c].st = "used", ![c].home = TRUE]
      BY Zenon DEF pop_front, f
  <2>3. DOMAIN g = Conn /\ g = [d \in Conn |-> g[d]]
    <3>1. CASE g = [f EXCEPT ![c].st = "used"]
        BY Zenon, <1>1, <3>1
    <3>2. CASE g = [con EXCEPT ![c].st = "used", ![c].home = TRUE]
        BY Zenon, <3>2 DEF TypeInv
    <3>3. QED
        BY Zenon, <2>2, <3>1, <3>2
  <2>4. /\ \A d \in Conn \ {c} : g[d] = f[d] \/ g[d] = con[d]
        /\ \E b \in BOOLEAN : g[c] = [con[c] EXCEPT !.st = "used", !.home = b]
    <3>1. CASE g = [f EXCEPT ![c].st = "used"]
      <4>1. f[c] = [con[c] EXCEPT !.home = FALSE]
          BY Zenon, <1>1, <2>1
      <4>2. g[c] = [f[c] EXCEPT !.st = "used"] /\ \A d \in Conn \ {c} : g[d] = f[d]
          BY Zenon, <1>1, <2>1, <3>1
      <4>3. con[c] \in Connection
          BY Zenon, <1>2, <2>1 DEF ConnectionOK
      <4>4. g[c] = [con[c] EXCEPT !.st = "used", !.home = FALSE]
          BY Zenon, <4>1, <4>2, <4>3 DEF Connection
      <4>5. QED
          BY Zenon, <4>2, <4>4
    <3>2. CASE g = [con EXCEPT ![c].st = "used", ![c].home = TRUE]
      <4>1. /\ g[c] = [con[c] EXCEPT !.st = "used", !.home = TRUE]
            /\ \A d \in Conn \ {c} : g[d] = con[d]
          BY Zenon, <2>1, <3>2 DEF TypeInv
      <4>2. QED
          BY Zenon, <4>1
    <3>3. QED
        BY Zenon, <2>2, <3>1, <3>2
  <2> HIDE DEF g, c
  <2>5. Taken(con[c], g[c])
      BY Zenon, <2>4 DEF Taken
  <2>6. /\ ConnectionOK(g[c]) /\ g[c].st = "used" /\ g[c].host = con[c].host
        /\ g[c].queued = con[c].queued /\ g[c].wire = con[c].wire
      BY Zenon, <1>2, <2>1, <2>5, TakenConnection
  <2>7. \A d \in Conn \ {c} : /\ ConnectionOK(g[d])
                              /\ g[d].st = con[d].st /\ g[d].host = con[d].host
                              /\ g[d].queued = con[d].queued
                              /\ g[d].wire = con[d].wire
      BY Zenon, <1>2, <1>3, <2>4
  <2>8. QED
      BY Zenon, <2>3, <2>6, <2>7 DEF g, c
<1>5. QED
    BY Zenon, <1>1, <1>3, <1>4 DEF f

LEMMA GetConnectionKeeps ==
    ASSUME TypeInv, PooledIsIdle, NEW s \in Client, get_connection(s)
    PROVE  TypeInv' /\ PooledIsIdle'
<1> DEFINE h == ses[s].req.host
<1>1. /\ SessionOK(ses[s]) /\ ses[s].pc = "origin" /\ ses[s].c = NoConn /\ h \in Host
      /\ sent' = sent /\ recv' = recv
    BY Zenon DEF get_connection, TypeInv, SessionOK, Holding
<1>2. sent' \in [Conn -> Seq(Parts)] /\ recv' \in [Conn -> Seq(Parts)]
    BY Zenon, <1>1 DEF TypeInv
<1>3. CASE /\ pools[h] # <<>> /\ con' = pop_front(con, pools, h)
           /\ ses' = [ses EXCEPT ![s].pc = "send", ![s].c = Head(pools[h])]
           /\ pools' = [pools EXCEPT ![h] = Tail(@)]
  <2> DEFINE c == Head(pools[h])
  <2>1. /\ c \in Conn /\ con[c].st = "idle" /\ con[c].host = h /\ Tail(pools[h]) \in Seq(Conn)
        /\ IsInjective(Tail(pools[h]))
        /\ \A i \in 1 .. Len(Tail(pools[h])) :
              /\ Tail(pools[h])[i] # c
              /\ \E j \in 1 .. Len(pools[h]) : Tail(pools[h])[i] = pools[h][j]
    <3> DEFINE p == pools[h]
    <3>1. /\ p \in Seq(Conn) /\ IsInjective(p)
          /\ \A i \in 1 .. Len(p) : con[p[i]].st = "idle" /\ con[p[i]].host = h
        BY Zenon, <1>1, PoolHolds
    <3>2. p # <<>>
        BY Zenon, <1>3
    <3> HIDE DEF p
    <3>3. /\ Head(p) \in Conn /\ Tail(p) \in Seq(Conn) /\ IsInjective(Tail(p))
          /\ \A i \in 1 .. Len(Tail(p)) : /\ Tail(p)[i] # Head(p)
                                          /\ \E j \in 1 .. Len(p) : Tail(p)[i] = p[j]
          /\ 1 \in 1 .. Len(p) /\ Head(p) = p[1]
        BY Zenon, <3>1, <3>2, TailPool
    <3>4. con[Head(p)].st = "idle" /\ con[Head(p)].host = h
        BY Zenon, <3>1, <3>3
    <3>5. QED
        BY Zenon, <3>3, <3>4 DEF p
  <2>2. /\ DOMAIN con' = Conn /\ con' = [d \in Conn |-> con'[d]] /\ con'[c].st = "used"
        /\ \A d \in Conn : ConnectionOK(con'[d])
        /\ \A d \in Conn \ {c} : con'[d].st = con[d].st /\ con'[d].host = con[d].host
      BY Zenon, <1>1, <1>3, PoppedConnections
  <2>3. /\ pools' \in [Host -> Seq(Conn)]
        /\ \A g \in Host : pools'[g] = IF g = h THEN Tail(pools[h]) ELSE pools[g]
      BY Zenon, <1>1, <1>3, <2>1 DEF TypeInv
  <2> HIDE DEF h, c
  <2>4. ASSUME NEW g \in Host
        PROVE  /\ IsInjective(pools'[g])
               /\ \A i \in 1 .. Len(pools'[g]) : /\ pools'[g][i] \in Conn \ {c}
                                                 /\ PooledFor(con[pools'[g][i]], g)
    <3>1. CASE g = h
      <4>1. pools'[g] = Tail(pools[h])
          BY Zenon, <2>3, <3>1
      <4>2. \A j \in 1 .. Len(pools[h]) : /\ pools[h][j] \in Conn
                                          /\ PooledFor(con[pools[h][j]], h)
          BY Zenon, <1>1, PoolHolds DEF PooledFor
      <4>3. QED
          BY <2>1, <3>1, <4>1, <4>2
    <3>2. CASE g # h
      <4>1. pools'[g] = pools[g] /\ IsInjective(pools[g])
          BY Zenon, <2>3, <3>2, PoolHolds
      <4>2. \A j \in 1 .. Len(pools[g]) : /\ pools[g][j] \in Conn
                                          /\ PooledFor(con[pools[g][j]], g)
          BY Zenon, PoolHolds DEF PooledFor
      <4>3. \A j \in 1 .. Len(pools[g]) : pools[g][j] # c
          BY <2>1, <3>2, PoolHolds
      <4>4. QED
          BY Zenon, <4>1, <4>2, <4>3
    <3>3. QED
        BY Zenon, <3>1, <3>2
  <2>5. ses' = [ses EXCEPT ![s].pc = "send", ![s].c = c] /\ ses[s].req.host \in Host
      BY Zenon, <1>1, <1>3 DEF c, h
  <2>6. con[c].st # "used"
      BY Zenon, <2>1
  <2>7. QED
      BY Zenon, <1>1, <1>2, <2>1, <2>2, <2>3, <2>4, <2>5, <2>6, SessionTakes
<1>4. CASE /\ con' = Homeless(con, h)
           /\ ses' = [ses EXCEPT ![s].pc = "connect"] /\ UNCHANGED pools
  <2>1. /\ DOMAIN con' = Conn /\ con' = [d \in Conn |-> con'[d]]
        /\ \A d \in Conn : ConnectionOK(con'[d]) /\ con'[d].st = con[d].st
                              /\ con'[d].host = con[d].host
      BY Zenon, <1>1, <1>4, PoppedConnections
  <2>2. DOMAIN ses' = Client /\ ses' = [t \in Client |-> ses'[t]]
      BY Zenon, <1>4 DEF TypeInv
  <2>3. \A t \in Client : SessionOK(ses'[t]) /\ ses'[t].c = ses[t].c
    <3> DEFINE e == [ses[s] EXCEPT !.pc = "connect"]
    <3>1. SessionOK(e) /\ e.c = ses[s].c
        BY Zenon, <1>1 DEF SessionOK, Holding
    <3>2. ses'[s] = e /\ \A t \in Client \ {s} : ses'[t] = ses[t]
        BY Zenon, <1>4 DEF TypeInv
    <3> HIDE DEF e
    <3>3. QED
        BY Zenon, <3>1, <3>2 DEF TypeInv
  <2>4. QED
      BY Zenon, <1>2, <1>4, <2>1, <2>2, <2>3, SameRole
<1>5. QED
    BY Zenon, <1>3, <1>4 DEF get_connection

LEMMA WrappedConnection ==
    ASSUME NEW h \in Host
    PROVE  /\ ConnectionOK(wrap(h)) /\ wrap(h).st = "used"
           /\ wrap(h).queued = <<>> /\ wrap(h).wire = <<>>
<1>1. <<>> \in Seq(Parts)
    OBVIOUS
<1>2. /\ NoConnection \in Connection /\ NoConnection.queued = <<>>
      /\ NoConnection.wire = <<>>
    BY Zenon, <1>1 DEF NoConnection, Connection
<1>3. QED
    BY Zenon, <1>2 DEF wrap, ConnectionOK, Connection

LEMMA ConnectKeeps ==
    ASSUME TypeInv, PooledIsIdle, NEW s \in Client, NEW c \in Conn, connect(s, c)
    PROVE  TypeInv' /\ PooledIsIdle'
<1> DEFINE h == ses[s].req.host
<1>1. /\ ses[s].pc = "connect" /\ con[c].st = "free"
      /\ con' = [con EXCEPT ![c] = wrap(h)]
      /\ ses' = [ses EXCEPT ![s].pc = "send", ![s].c = c]
      /\ pools' = pools /\ sent' = sent /\ recv' = recv
    BY Zenon DEF connect
<1>2. ses[s].c = NoConn /\ h \in Host
    BY Zenon, <1>1 DEF TypeInv, SessionOK, Holding
<1>3. sent' \in [Conn -> Seq(Parts)] /\ recv' \in [Conn -> Seq(Parts)]
      /\ pools' \in [Host -> Seq(Conn)]
    BY Zenon, <1>1 DEF TypeInv
<1>4. ConnectionOK(wrap(h)) /\ wrap(h).st = "used"
    BY Zenon, <1>2, WrappedConnection
<1>5. /\ DOMAIN con' = Conn /\ con' = [d \in Conn |-> con'[d]] /\ con'[c] = wrap(h)
      /\ \A d \in Conn \ {c} : con'[d] = con[d]
    BY Zenon, <1>1 DEF TypeInv
<1>6. \A d \in Conn : ConnectionOK(con'[d])
    BY Zenon, <1>4, <1>5 DEF TypeInv
<1>7. ASSUME NEW g \in Host
      PROVE  /\ IsInjective(pools'[g])
             /\ \A i \in 1 .. Len(pools'[g]) : /\ pools'[g][i] \in Conn \ {c}
                                               /\ PooledFor(con[pools'[g][i]], g)
  <2>1. IsInjective(pools[g])
      BY Zenon, PoolHolds
  <2>2. \A i \in 1 .. Len(pools[g]) : /\ pools[g][i] \in Conn
                                      /\ PooledFor(con[pools[g][i]], g)
      BY Zenon, PoolHolds DEF PooledFor
  <2>3. \A i \in 1 .. Len(pools[g]) : pools[g][i] # c
      BY <1>1, PoolHolds
  <2>4. QED
      BY Zenon, <1>1, <2>1, <2>2, <2>3
<1>8. con[c].st # "used" /\ con'[c].st = "used"
    BY Zenon, <1>1, <1>4, <1>5
<1>9. \A d \in Conn \ {c} : con'[d].st = con[d].st /\ con'[d].host = con[d].host
    BY Zenon, <1>5
<1>10. QED
    BY Zenon, <1>1, <1>2, <1>3, <1>5, <1>6, <1>7, <1>8, <1>9, SessionTakes

LEMMA OneConnectionChanges ==
    ASSUME TypeInv, PooledIsIdle, NEW c \in Conn, NEW k, ConnectionOK(k),
           k.st = con[c].st, k.host = con[c].host, con' = [con EXCEPT ![c] = k],
           UNCHANGED <<ses, pools, sent, recv>>
    PROVE  TypeInv' /\ PooledIsIdle'
<1>1. /\ DOMAIN con' = Conn /\ con' = [d \in Conn |-> con'[d]]
      /\ con'[c] = k /\ \A d \in Conn \ {c} : con'[d] = con[d]
    BY Zenon DEF TypeInv
<1>2. \A d \in Conn : ConnectionOK(con'[d]) /\ con'[d].st = con[d].st
                         /\ con'[d].host = con[d].host
    BY Zenon, <1>1 DEF TypeInv
<1>3. /\ DOMAIN ses' = Client /\ ses' = [t \in Client |-> ses'[t]]
      /\ \A t \in Client : SessionOK(ses'[t]) /\ ses'[t].c = ses[t].c
    BY Zenon DEF TypeInv
<1>4. sent' \in [Conn -> Seq(Parts)] /\ recv' \in [Conn -> Seq(Parts)]
    BY Zenon DEF TypeInv
<1>5. QED
    BY Zenon, <1>1, <1>2, <1>3, <1>4, SameRole

LEMMA OriginClosesKeeps ==
    ASSUME TypeInv, PooledIsIdle, NEW c \in Conn, OriginCloses(c)
    PROVE  TypeInv' /\ PooledIsIdle'
<1> DEFINE k == [con[c] EXCEPT !.eof = TRUE]
<1>1. ConnectionOK(con[c])
    BY Zenon DEF TypeInv
<1>2. ConnectionOK(k) /\ k.st = con[c].st /\ k.host = con[c].host
    BY Zenon, <1>1, SameConnection
<1>3. con' = [con EXCEPT ![c] = k] /\ UNCHANGED <<ses, pools, sent, recv>>
    BY Zenon DEF OriginCloses, TypeInv
<1> HIDE DEF k
<1>4. QED
    BY Zenon, <1>2, <1>3, OneConnectionChanges

LEMMA IdleReadKeeps ==
    ASSUME TypeInv, PooledIsIdle, NEW c \in Conn, IdleRead(c)
    PROVE  TypeInv' /\ PooledIsIdle'
<1> DEFINE k == con[c]
           l == IdleReadDone(k)
           h == k.host
<1>1. /\ k.st \in {"idle", "used"} /\ k.pending /\ ~k.waiting /\ Readable(k)
      /\ con' = [con EXCEPT ![c] = l]
      /\ pools' = [pools EXCEPT ![h] = IF k.st = "idle" THEN Erased(@, c) ELSE @]
      /\ UNCHANGED <<ses, sent, recv>>
    BY Zenon DEF IdleRead
<1>2. ConnectionOK(k) /\ h \in Host
    BY Zenon, <1>1 DEF TypeInv, ConnectionOK
<1>3. /\ ConnectionOK(l) /\ l.host = h
      /\ k.st = "idle" => l.st = "closed"
      /\ k.st = "used" => l.st = "used"
    BY Zenon, <1>1, <1>2, IdleReadConnection
<1> HIDE DEF l
<1>4. CASE k.st = "used"
  <2>1. UNCHANGED pools
      BY Zenon, <1>1, <1>2, <1>4 DEF TypeInv
  <2>2. QED
      BY Zenon, <1>1, <1>3, <1>4, <2>1, OneConnectionChanges
<1>5. CASE k.st = "idle"
  <2> DEFINE q == Erased(pools[h], c)
  <2>1. /\ DOMAIN con' = Conn /\ con' = [d \in Conn |-> con'[d]]
        /\ con'[c] = l /\ \A d \in Conn \ {c} : con'[d] = con[d]
      BY Zenon, <1>1 DEF TypeInv
  <2>2. /\ q \in Seq(Conn) /\ IsInjective(q)
        /\ \A i \in 1 .. Len(q) : q[i] # c /\ \E j \in 1 .. Len(pools[h]) : q[i] = pools[h][j]
      BY <1>2, PoolHolds, ErasedPool
  <2>3. pools' = [pools EXCEPT ![h] = q]
      BY Zenon, <1>1, <1>5
  <2> HIDE DEF q
  <2>4. /\ pools' \in [Host -> Seq(Conn)]
        /\ pools'[h] = q /\ \A g \in Host \ {h} : pools'[g] = pools[g]
      BY Zenon, <1>2, <2>2, <2>3 DEF TypeInv
  <2>5. TypeInv'
    <3>1. \A d \in Conn : ConnectionOK(con'[d])
        BY Zenon, <1>3, <2>1 DEF TypeInv
    <3>2. /\ DOMAIN ses' = Client /\ ses' = [t \in Client |-> ses'[t]]
          /\ \A t \in Client : SessionOK(ses'[t])
          /\ sent' \in [Conn -> Seq(Parts)] /\ recv' \in [Conn -> Seq(Parts)]
        BY Zenon, <1>1 DEF TypeInv
    <3>3. QED
        BY Zenon, <2>1, <2>4, <3>1, <3>2 DEF TypeInv, SessionOK, ConnectionOK, Connection, Parts
  <2>6. ASSUME NEW g \in Host
        PROVE  /\ IsInjective(pools'[g])
               /\ \A i \in 1 .. Len(pools'[g]) : PooledFor(con'[pools'[g][i]], g)
    <3>1. \A j \in 1 .. Len(pools[g]) : pools[g][j] \in Conn /\ PooledFor(con[pools[g][j]], g)
        BY Zenon, PoolHolds DEF PooledFor
    <3>2. CASE g = h
      <4>1. \A i \in 1 .. Len(q) : q[i] \in Conn \ {c} /\ PooledFor(con[q[i]], g)
          BY Zenon, <2>2, <3>1, <3>2
      <4>2. \A i \in 1 .. Len(q) : PooledFor(con'[q[i]], g)
          BY Zenon, <2>1, <4>1
      <4>3. QED
          BY Zenon, <2>2, <2>4, <3>2, <4>2
    <3>3. CASE g # h
      <4>1. \A j \in 1 .. Len(pools[g]) : pools[g][j] # c
          BY Zenon, <3>3, PoolHolds
      <4>2. \A j \in 1 .. Len(pools[g]) : PooledFor(con'[pools[g][j]], g)
          BY Zenon, <2>1, <3>1, <4>1
      <4>3. IsInjective(pools[g]) /\ pools'[g] = pools[g]
          BY Zenon, <2>4, <3>3, PoolHolds
      <4>4. QED
          BY Zenon, <4>2, <4>3
    <3>4. QED
        BY Zenon, <3>2, <3>3
  <2>7. \A g \in Host : \A i \in 1 .. Len(pools'[g]) :
          LET d == con'[pools'[g][i]]
          IN  d.st = "idle" /\ d.host = g /\ d.pending
      BY Zenon, <2>6 DEF PooledFor
  <2>8. \A t, u \in Client : ses'[t].c # NoConn =>
          con'[ses'[t].c].st = "used" /\ (ses'[t].c = ses'[u].c => t = u)
    <3>1. \A t \in Client : ses[t].c # NoConn => ses[t].c \in Conn
        BY Zenon DEF TypeInv, SessionOK
    <3>2. \A t, u \in Client : ses[t].c # NoConn =>
             con[ses[t].c].st = "used" /\ (ses[t].c = ses[u].c => t = u)
        BY Zenon DEF PooledIsIdle
    <3>3. QED
        BY Zenon, <1>1, <1>5, <2>1, <3>1, <3>2
  <2>9. QED
      BY Zenon, <2>5, <2>6, <2>7, <2>8 DEF PooledIsIdle
<1>6. QED
    BY Zenon, <1>1, <1>4, <1>5

LEMMA PoolsInit ==
    ASSUME InjectorInit
    PROVE  TypeInv /\ PooledIsIdle
<1>1. <<>> \in Seq(Parts) /\ <<>> \in Seq(Conn) /\ Len(<<>>) = 0
    OBVIOUS
<1>2. ConnectionOK(NoConnection)
    BY Zenon, <1>1 DEF ConnectionOK, Connection, NoConnection
<1>3. TypeInv
    BY Zenon, <1>1, <1>2 DEF InjectorInit, TypeInv, SessionOK, Holding
<1>4. IsInjective(<<>>)
    BY DEF IsInjective
<1>5. PooledIsIdle
    BY <1>1, <1>4 DEF InjectorInit, PooledIsIdle
<1>6. QED
    BY Zenon, <1>3, <1>5

LEMMA PoolsNext ==
    ASSUME TypeInv, PooledIsIdle, [InjectorNext]_injvars
    PROVE  TypeInv' /\ PooledIsIdle'
<1>1. ASSUME NEW s \in Client, NEW q \in Requests, serve(s, q)
      PROVE  TypeInv' /\ PooledIsIdle'
    BY Zenon, <1>1, ServeKeeps
<1>2. ASSUME NEW s \in Client, ReadFails(s) \/ handle_connect_request(s)
      PROVE  TypeInv' /\ PooledIsIdle'
  <2>1. /\ ses[s].pc \in {"read", "tunnel"}
        /\ ses' = [ses EXCEPT ![s].pc = "closed"] /\ UNCHANGED poolvars
      BY Zenon, <1>2 DEF ReadFails, handle_connect_request
  <2>2. QED
      BY Zenon, <2>1, HangUpKeeps
<1>3. CASE UNCHANGED <<ses, poolvars>>
  <2>1. TypeInv'
      BY Zenon, <1>3 DEF poolvars, TypeInv
  <2>2. PooledIsIdle'
      BY Zenon, <1>3 DEF poolvars, PooledIsIdle
  <2>3. QED
      BY Zenon, <2>1, <2>2
<1>4. ASSUME NEW s \in Client, SessionStep(s)
      PROVE  TypeInv' /\ PooledIsIdle'
    BY Zenon, <1>2, <1>4, GetConnectionKeeps, ConnectKeeps, ConnectFailsKeeps, HttpRequestKeeps,
       AsyncReadKeeps, StreamReadKeeps, TimeoutKeeps DEF SessionStep
<1>5. ASSUME NEW c \in Conn, IdleRead(c) \/ OriginCloses(c)
      PROVE  TypeInv' /\ PooledIsIdle'
    BY Zenon, <1>5, IdleReadKeeps, OriginClosesKeeps
<1>6. QED
    BY Zenon, <1>1, <1>2, <1>3, <1>4, <1>5 DEF InjectorNext, injvars, ClientLeaves

\* An origin pool holds each of its connections once, open, idle and watched by
\* a read, and a connection in use belongs to one session: get_connection of
\* OriginPools hands no connection to two requests, and never a closed one.
THEOREM PoolsHoldIdleConnections == SessionsSpec => []PooledIsIdle
<1>1. InjectorInit => TypeInv /\ PooledIsIdle
    BY Zenon, PoolsInit
<1>2. TypeInv /\ PooledIsIdle /\ [InjectorNext]_injvars => (TypeInv /\ PooledIsIdle)'
    BY Zenon, PoolsNext
<1>3. QED
    BY <1>1, <1>2, PTL DEF SessionsSpec

-----------------------------------------------------------------------------
(***************************************************************************)
(* Nothing that is read from an open connection is lost.                   *)
(***************************************************************************)
LEMMA MovedParts ==
    ASSUME NEW S, NEW r \in Seq(S), NEW w \in Seq(S)
    PROVE  /\ w # <<>> => /\ Append(r, Head(w)) \o <<>> \o Tail(w) = r \o <<>> \o w
                          /\ r \o <<Head(w)>> \o Tail(w) = r \o <<>> \o w
           /\ \A p \in S : Append(r, p) \o <<>> \o w = r \o <<p>> \o w
<1>1. w # <<>> => Append(r, Head(w)) \o <<>> \o Tail(w) = r \o <<>> \o w
    OBVIOUS
<1>2. w # <<>> => r \o <<Head(w)>> \o Tail(w) = r \o <<>> \o w
    OBVIOUS
<1>3. \A p \in S : Append(r, p) \o <<>> \o w = r \o <<p>> \o w
    OBVIOUS
<1>4. QED
    BY Zenon, <1>1, <1>2, <1>3

\* The connections other than c are as they were.
LEMMA OrderKept ==
    ASSUME TypeInv, ReadInOrder, NEW c \in Conn,
           \A d \in Conn \ {c} : /\ con'[d].st # "closed" => con[d].st # "closed"
                                 /\ con'[d].queued = con[d].queued
                                 /\ con'[d].wire = con[d].wire
                                 /\ recv'[d] = recv[d] /\ sent'[d] = sent[d],
           con'[c].st # "closed" => InOrder(con'[c], recv'[c], sent'[c])
    PROVE  ReadInOrder'
    BY Zenon DEF ReadInOrder, InOrder, Ahead

LEMMA InOrderOf ==
    ASSUME ReadInOrder, NEW c \in Conn, con[c].st # "closed"
    PROVE  InOrder(con[c], recv[c], sent[c])
    BY Zenon DEF ReadInOrder, InOrder, Ahead

\* The same parts are waiting.
LEMMA SameOrder ==
    ASSUME NEW k, NEW l, NEW r, NEW a, InOrder(k, r, a), l.queued = k.queued,
           l.wire = k.wire
    PROVE  InOrder(l, r, a)
    BY Zenon DEF InOrder, Ahead

\* The part given to a reader is taken from what was read ahead ...
LEMMA QueueOrder ==
    ASSUME NEW k, NEW l, ConnectionOK(k), NEW r \in Seq(Parts), NEW a, InOrder(k, r, a),
           k.queued # <<>>, l.queued = <<>>, l.wire = k.wire
    PROVE  InOrder(l, IF k.queued[1] = Eof THEN r ELSE Append(r, k.queued[1]), a)
<1> DEFINE p == k.queued[1]
<1>1. k.wire \in Seq(Parts)
    BY Zenon, ConnectionFields
<1>2. Ahead(l) = <<>>
  <2>1. <<>> # <<Eof>>
      BY Zenon
  <2>2. QED
      BY Zenon, <2>1 DEF Ahead
<1>3. \/ p = Eof /\ Ahead(k) = <<>>
      \/ p \in Parts /\ Ahead(k) = <<p>>
    BY Zenon, ConnectionFields
<1>4. \A x \in Parts : x # Eof
    BY DEF Parts, Eof
<1>5. r \o Ahead(k) \o k.wire = a
    BY Zenon DEF InOrder
<1> HIDE DEF p
<1>6. CASE p = Eof /\ Ahead(k) = <<>>
    BY Zenon, <1>2, <1>5, <1>6 DEF InOrder, p
<1>7. CASE p \in Parts /\ Ahead(k) = <<p>>
  <2>1. Append(r, p) \o <<>> \o k.wire = r \o <<p>> \o k.wire
    <3>1. \A w \in Seq(Parts) : \A x \in Parts : Append(r, x) \o <<>> \o w = r \o <<x>> \o w
        BY MovedParts
    <3>2. QED
        BY <1>1, <1>7, <3>1, Zenon
  <2>2. Append(r, p) \o <<>> \o l.wire = a
      BY Zenon, <1>5, <1>7, <2>1
  <2>3. p # Eof
      BY Zenon, <1>4, <1>7
  <2>4. QED
      BY Zenon, <1>2, <2>2, <2>3 DEF InOrder, p
<1>8. QED
    BY Zenon, <1>3, <1>6, <1>7

\* ... or from the stream ...
LEMMA StreamOrder ==
    ASSUME NEW k, NEW l, ConnectionOK(k), NEW r \in Seq(Parts), NEW a, InOrder(k, r, a),
           Readable(k), k.queued = <<>>, l.queued = <<>>, l.wire = Rest(k)
    PROVE  InOrder(l, IF Next1(k) = Eof THEN r ELSE Append(r, Next1(k)), a)
<1>1. k.wire \in Seq(Parts)
    BY Zenon, ConnectionFields
<1>2. Ahead(l) = <<>> /\ Ahead(k) = <<>>
  <2>1. <<>> # <<Eof>>
      BY Zenon
  <2>2. QED
      BY Zenon, <2>1 DEF Ahead
<1>3. r \o <<>> \o k.wire = a
    BY Zenon, <1>2 DEF InOrder
<1>4. \A x \in Parts : x # Eof
    BY DEF Parts, Eof
<1>5. CASE k.wire = <<>> /\ Next1(k) = Eof /\ Rest(k) = <<>>
    BY Zenon, <1>2, <1>3, <1>5 DEF InOrder
<1>6. CASE /\ k.wire # <<>> /\ Next1(k) \in Parts
           /\ Next1(k) = Head(k.wire) /\ Rest(k) = Tail(k.wire)
  <2>1. Append(r, Next1(k)) \o <<>> \o Rest(k) = r \o <<>> \o k.wire
    <3>1. \A w \in Seq(Parts) : w # <<>> =>
              Append(r, Head(w)) \o <<>> \o Tail(w) = r \o <<>> \o w
        BY Zenon, MovedParts
    <3>2. QED
        BY <1>1, <1>6, <3>1, Zenon
  <2>2. Next1(k) # Eof
      BY Zenon, <1>4, <1>6
  <2>3. QED
      BY Zenon, <1>2, <1>3, <2>1, <2>2 DEF InOrder
<1>7. QED
    BY Zenon, <1>5, <1>6, NextPart

\* ... from which the idle read takes it when there is no reader.
LEMMA IdleOrder ==
    ASSUME NEW k, NEW l, ConnectionOK(k), NEW r \in Seq(Parts), NEW a, InOrder(k, r, a),
           Readable(k), k.queued = <<>>, l.queued = <<Next1(k)>>, l.wire = Rest(k)
    PROVE  InOrder(l, r, a)
<1>1. k.wire \in Seq(Parts)
    BY Zenon, ConnectionFields
<1>2. Ahead(k) = <<>>
  <2>1. <<>> # <<Eof>>
      BY Zenon
  <2>2. QED
      BY Zenon, <2>1 DEF Ahead
<1>3. r \o <<>> \o k.wire = a
    BY Zenon, <1>2 DEF InOrder
<1>4. \A x \in Parts : x # Eof
    BY DEF Parts, Eof
<1>5. CASE k.wire = <<>> /\ Next1(k) = Eof /\ Rest(k) = <<>>
  <2>1. Ahead(l) = <<>>
      BY Zenon, <1>5 DEF Ahead
  <2>2. QED
      BY Zenon, <1>3, <1>5, <2>1 DEF InOrder
<1>6. CASE /\ k.wire # <<>> /\ Next1(k) \in Parts
           /\ Next1(k) = Head(k.wire) /\ Rest(k) = Tail(k.wire)
  <2>1. r \o <<Next1(k)>> \o Rest(k) = r \o <<>> \o k.wire
    <3>1. \A w \in Seq(Parts) : w # <<>> => r \o <<Head(w)>> \o Tail(w) = r \o <<>> \o w
        BY Zenon, MovedParts
    <3>2. QED
        BY <1>1, <1>6, <3>1, Zenon
  <2>2. \A x, y : <<x>> = <<y>> => x = y
      BY Zenon
  <2>3. Ahead(l) = <<Next1(k)>>
      BY Zenon, <1>4, <1>6, <2>2 DEF Ahead
  <2>4. QED
      BY Zenon, <1>3, <2>1, <2>3 DEF InOrder
<1>7. QED
    BY Zenon, <1>5, <1>6, NextPart

\* Connection c becomes k, and the others stay as they are.
LEMMA OneOrderKept ==
    ASSUME TypeInv, ReadInOrder, NEW c \in Conn, NEW k, NEW r, NEW a,
           con' = [con EXCEPT ![c] = k], recv' = [recv EXCEPT ![c] = r],
           sent' = [sent EXCEPT ![c] = a],
           k.st # "closed" => InOrder(k, r, a)
    PROVE  ReadInOrder'
<1>1. con'[c] = k /\ recv'[c] = r /\ sent'[c] = a
    BY Zenon DEF TypeInv
<1>2. \A d \in Conn \ {c} : con'[d] = con[d] /\ recv'[d] = recv[d] /\ sent'[d] = sent[d]
    BY Zenon DEF TypeInv
<1>3. con'[c].st # "closed" => InOrder(con'[c], recv'[c], sent'[c])
    BY Zenon, <1>1
<1>4. QED
    BY Zenon, <1>2, <1>3, OrderKept

\* The same with what was sent and read unchanged.
LEMMA ConnectionOrderKept ==
    ASSUME TypeInv, ReadInOrder, NEW c \in Conn, NEW k,
           con' = [con EXCEPT ![c] = k], UNCHANGED <<recv, sent>>,
           k.st # "closed" => InOrder(k, recv[c], sent[c])
    PROVE  ReadInOrder'
<1> DEFINE r == recv[c]
           a == sent[c]
<1>1. recv' = [recv EXCEPT ![c] = r] /\ sent' = [sent EXCEPT ![c] = a]
    BY Zenon DEF TypeInv
<1>2. k.st # "closed" => InOrder(k, r, a)
    BY Zenon
<1> HIDE DEF r, a
<1>3. QED
    BY Zenon, <1>1, <1>2, OneOrderKept

LEMMA GetConnectionOrder ==
    ASSUME TypeInv, PooledIsIdle, ReadInOrder, NEW s \in Client, get_connection(s)
    PROVE  ReadInOrder'
<1> DEFINE h == ses[s].req.host
<1>1. h \in Host /\ sent' = sent /\ recv' = recv
    BY Zenon DEF get_connection, TypeInv, SessionOK, Holding
<1>2. \A d \in Conn : /\ con'[d].st # "closed" => con[d].st # "closed"
                      /\ con'[d].queued = con[d].queued /\ con'[d].wire = con[d].wire
  <2>1. CASE pools[h] # <<>> /\ con' = pop_front(con, pools, h)
    <3>1. Head(pools[h]) \in Conn /\ con[Head(pools[h])].st = "idle"
        BY <1>1, <2>1, PoolHolds, TailPool
    <3>2. \A d \in Conn : /\ d # Head(pools[h]) => con'[d].st = con[d].st
                          /\ con'[d].queued = con[d].queued /\ con'[d].wire = con[d].wire
        BY Zenon, <1>1, <2>1, PoppedConnections
    <3>3. QED
        BY Zenon, <3>1, <3>2
  <2>2. CASE con' = Homeless(con, h)
      BY Zenon, <1>1, <2>2, PoppedConnections
  <2>3. QED
      BY Zenon, <2>1, <2>2 DEF get_connection
<1>3. QED
    BY Zenon, <1>1, <1>2 DEF ReadInOrder

LEMMA ConnectOrder ==
    ASSUME TypeInv, PooledIsIdle, ReadInOrder, NEW s \in Client, NEW c \in Conn, connect(s, c)
    PROVE  ReadInOrder'
<1> DEFINE k == wrap(ses[s].req.host)
<1>1. /\ con[c].st = "free" /\ con' = [con EXCEPT ![c] = k] /\ UNCHANGED <<recv, sent>>
      /\ ses[s].req.host \in Host
    BY Zenon DEF connect, TypeInv, SessionOK
<1>2. k.queued = <<>> /\ k.wire = <<>>
    BY Zenon, <1>1, WrappedConnection
<1>3. con[c].queued = <<>> /\ con[c].wire = <<>>
    BY Zenon, <1>1 DEF TypeInv, ConnectionOK
<1>4. InOrder(con[c], recv[c], sent[c])
    BY Zenon, <1>1, InOrderOf
<1> HIDE DEF k
<1>5. InOrder(k, recv[c], sent[c])
    BY Zenon, <1>2, <1>3, <1>4, SameOrder
<1>6. QED
    BY Zenon, <1>1, <1>5, ConnectionOrderKept

\* A session leaves its connection.
LEMMA LetGoOrder ==
    ASSUME TypeInv, PooledIsIdle, ReadInOrder, NEW s \in Client, ses[s].pc \in Holding,
           NEW k, Left(con[ses[s].c], k), LetGo(ses[s].c, k)
    PROVE  ReadInOrder'
<1>1. /\ ses[s].c \in Conn /\ con[ses[s].c].st = "used" /\ ConnectionOK(con[ses[s].c])
    BY Zenon, UsersHold
<1>2. k.queued = con[ses[s].c].queued /\ k.wire = con[ses[s].c].wire
    BY Zenon, <1>1, LeftConnection
<1>3. InOrder(con[ses[s].c], recv[ses[s].c], sent[ses[s].c])
    BY Zenon, <1>1, InOrderOf
<1>4. InOrder(k, recv[ses[s].c], sent[ses[s].c])
    BY Zenon, <1>2, <1>3, SameOrder
<1>5. con' = [con EXCEPT ![ses[s].c] = k] /\ UNCHANGED <<recv, sent>>
    BY Zenon DEF LetGo
<1>6. QED
    BY Zenon, <1>1, <1>4, <1>5, ConnectionOrderKept

LEMMA HttpRequestOrder ==
    ASSUME TypeInv, PooledIsIdle, ReadInOrder, NEW s \in Client, http_request(s)
    PROVE  ReadInOrder'
<1> DEFINE c == ses[s].c
<1>1. ses[s].pc \in Holding
    BY Zenon DEF http_request, Holding
<1>2. c \in Conn /\ con[c].st = "used" /\ ConnectionOK(con[c])
    BY Zenon, <1>1, UsersHold
<1>3. Answers(s) \subseteq Seq(Parts)
    BY Zenon, AnswersAreParts
<1>4. CASE con[c].eof /\ LetGo(c, Destroyed(con[c])) /\ Failed(s)
  <2> DEFINE k == Destroyed(con[ses[s].c])
  <2>1. Left(con[ses[s].c], k)
      BY Zenon DEF Left
  <2>2. LetGo(ses[s].c, k)
      BY Zenon, <1>4
  <2> HIDE DEF k
  <2>3. QED
      BY Zenon, <1>1, <2>1, <2>2, LetGoOrder
<1>5. CASE UNCHANGED <<con, sent, recv>>
    BY Zenon, <1>5 DEF ReadInOrder
<1>6. ASSUME NEW response \in Answers(s),
             con' = [con EXCEPT ![c].wire = @ \o response],
             sent' = [sent EXCEPT ![c] = @ \o response],
             UNCHANGED recv
      PROVE  ReadInOrder'
  <2> HIDE DEF c
  <2> DEFINE k == [con[c] EXCEPT !.wire = con[c].wire \o response]
  <2>1. /\ con' = [con EXCEPT ![c] = k] /\ sent' = [sent EXCEPT ![c] = sent[c] \o response]
        /\ recv' = [recv EXCEPT ![c] = recv[c]]
      BY Zenon, <1>2, <1>6 DEF TypeInv
  <2>2. k.queued = con[c].queued /\ k.wire = con[c].wire \o response
      BY Zenon, <1>2 DEF ConnectionOK, Connection
  <2> HIDE DEF k
  <2>3. recv[c] \o Ahead(con[c]) \o con[c].wire = sent[c]
      BY Zenon, <1>2, InOrderOf DEF InOrder
  <2>4. /\ recv[c] \in Seq(Parts) /\ con[c].wire \in Seq(Parts)
        /\ Ahead(con[c]) \in Seq(Parts)
      BY Zenon, <1>2, ConnectionFields DEF TypeInv
  <2>5. recv[c] \o Ahead(con[c]) \o (con[c].wire \o response) = sent[c] \o response
    <3>2. recv[c] \o Ahead(con[c]) \o (con[c].wire \o response)
            = (recv[c] \o Ahead(con[c]) \o con[c].wire) \o response
      <4> DEFINE r == recv[c]
                 q == Ahead(con[c])
                 w == con[c].wire
      <4>1. r \in Seq(Parts) /\ q \in Seq(Parts) /\ w \in Seq(Parts) /\ response \in Seq(Parts)
          BY Zenon, <1>3, <2>4
      <4> HIDE DEF r, q, w
      <4>2. r \o q \o (w \o response) = (r \o q \o w) \o response
          BY <4>1
      <4>3. QED
          BY Zenon, <4>2 DEF r, q, w
    <3>3. QED
        BY <2>3, <3>2, Zenon
  <2>6. Ahead(k) = Ahead(con[c])
      BY Zenon, <2>2 DEF Ahead
  <2>7. InOrder(k, recv[c], sent[c] \o response)
      BY <2>2, <2>5, <2>6, Zenon DEF InOrder
  <2>8. QED
      BY Zenon, <1>2, <2>1, <2>7, OneOrderKept
<1>7. QED
    BY Zenon, <1>4, <1>5, <1>6 DEF http_request, Answers

\* A part was read, and k, r are the connection and what was received after that.
LEMMA PartOrder ==
    ASSUME TypeInv, PooledIsIdle, ReadInOrder, NEW s \in Client, ses[s].pc \in Holding,
           NEW k, ConnectionOK(k), k.st = "used", NEW p, Part(s, k, p),
           InOrder(k, IF p = Eof THEN recv[ses[s].c] ELSE Append(recv[ses[s].c], p),
                   sent[ses[s].c])
    PROVE  ReadInOrder'
<1> DEFINE c == ses[s].c
           r == IF p = Eof THEN recv[c] ELSE Append(recv[c], p)
           a == sent[c]
<1>1. c \in Conn
    BY Zenon, UsersHold
<1>2. recv' = [recv EXCEPT ![c] = r] /\ sent' = [sent EXCEPT ![c] = a]
    BY Zenon, <1>1 DEF Part, TypeInv
<1>3. \E l : (l = k \/ Left(k, l)) /\ con' = [con EXCEPT ![c] = l]
  <2>1. \A keep \in BOOLEAN : Left(k, IF keep THEN Destroyed(k) ELSE [k EXCEPT !.st = "closed"])
      BY Zenon DEF Left
  <2>2. Left(k, Destroyed(k))
      BY Zenon DEF Left
  <2>3. QED
      BY <2>1, <2>2, Zenon DEF Part
<1>4. PICK l : (l = k \/ Left(k, l)) /\ con' = [con EXCEPT ![c] = l]
    BY Zenon, <1>3
<1>5. l.queued = k.queued /\ l.wire = k.wire
    BY Zenon, <1>4, LeftConnection
<1>6. InOrder(k, r, a)
    BY Zenon
<1> HIDE DEF c, r, a
<1>7. InOrder(l, r, a)
    BY Zenon, <1>5, <1>6, SameOrder
<1>8. QED
    BY Zenon, <1>1, <1>2, <1>4, <1>7, OneOrderKept

LEMMA AsyncReadOrder ==
    ASSUME TypeInv, PooledIsIdle, ReadInOrder, NEW s \in Client, async_read_part(s)
    PROVE  ReadInOrder'
<1> DEFINE c == ses[s].c
           k == con[c]
           k2 == async_read_some(k)
           r == recv[c]
           a == sent[c]
<1>1. ses[s].pc \in Holding /\ ~k.waiting
    BY Zenon DEF async_read_part, Holding
<1>2. c \in Conn /\ k.st = "used" /\ ConnectionOK(k) /\ r \in Seq(Parts)
    BY Zenon, <1>1, UsersHold DEF TypeInv
<1>3. \/ ~k2.waiting /\ Part(s, k2, k.queued[1])
      \/ /\ k2.waiting /\ con' = [con EXCEPT ![c] = k2]
         /\ UNCHANGED <<recv, sent>>
    BY Zenon DEF async_read_part
<1>4. InOrder(k, r, a)
    BY Zenon, <1>2, InOrderOf
<1> HIDE DEF k
<1>5. /\ ConnectionOK(k2) /\ k2.st = "used" /\ k2.wire = k.wire
      /\ ~k2.waiting => k.queued # <<>> /\ k2.queued = <<>>
      /\ k2.waiting => k2.queued = k.queued
    BY Zenon, <1>1, <1>2, AsyncReadConnection
<1> HIDE DEF k2
<1>6. CASE ~k2.waiting /\ Part(s, k2, k.queued[1])
  <2> HIDE DEF r, a
  <2>1. InOrder(k2, IF k.queued[1] = Eof THEN r ELSE Append(r, k.queued[1]), a)
      BY Zenon, <1>2, <1>4, <1>5, <1>6, QueueOrder
  <2>2. InOrder(k2, IF k.queued[1] = Eof THEN recv[ses[s].c]
                    ELSE Append(recv[ses[s].c], k.queued[1]), sent[ses[s].c])
      BY Zenon, <2>1 DEF r, a
  <2>3. QED
      BY Zenon, <1>1, <1>5, <1>6, <2>2, PartOrder
<1>7. CASE k2.waiting /\ con' = [con EXCEPT ![c] = k2] /\ UNCHANGED <<recv, sent>>
  <2>1. InOrder(k2, recv[c], sent[c])
      BY Zenon, <1>4, <1>5, <1>7, SameOrder
  <2>2. QED
      BY Zenon, <1>2, <1>7, <2>1, ConnectionOrderKept
<1>8. QED
    BY Zenon, <1>3, <1>6, <1>7

LEMMA StreamReadOrder ==
    ASSUME TypeInv, PooledIsIdle, ReadInOrder, NEW s \in Client, StreamRead(s)
    PROVE  ReadInOrder'
<1> DEFINE c == ses[s].c
           k == con[c]
           l == IF k.pending THEN IdleReadDone(k)
                ELSE [k EXCEPT !.waiting = FALSE, !.wire = Rest(k)]
           r == recv[c]
           a == sent[c]
<1>1. ses[s].pc \in Holding /\ k.waiting /\ Readable(k) /\ Part(s, l, Next1(k))
    BY Zenon DEF StreamRead, Holding
<1>2. c \in Conn /\ k.st = "used" /\ ConnectionOK(k) /\ r \in Seq(Parts)
    BY Zenon, <1>1, UsersHold DEF TypeInv
<1>3. InOrder(k, r, a)
    BY Zenon, <1>2, InOrderOf
<1> HIDE DEF k
<1>4. l = IF k.pending THEN IdleReadDone(k)
          ELSE [k EXCEPT !.waiting = FALSE, !.wire = Rest(k)]
    BY Zenon
<1> HIDE DEF l
<1>5. /\ ConnectionOK(l) /\ l.st = "used"
      /\ k.queued = <<>> /\ l.queued = <<>> /\ l.wire = Rest(k)
    BY Zenon, <1>1, <1>2, <1>4, StreamReadConnection
<1> HIDE DEF r, a
<1>6. InOrder(l, IF Next1(k) = Eof THEN r ELSE Append(r, Next1(k)), a)
    BY Zenon, <1>1, <1>2, <1>3, <1>5, StreamOrder
<1>7. InOrder(l, IF Next1(k) = Eof THEN recv[ses[s].c]
                 ELSE Append(recv[ses[s].c], Next1(k)), sent[ses[s].c])
    BY Zenon, <1>6 DEF r, a
<1>8. QED
    BY Zenon, <1>1, <1>5, <1>7, PartOrder

LEMMA IdleReadOrder ==
    ASSUME TypeInv, ReadInOrder, NEW c \in Conn, IdleRead(c)
    PROVE  ReadInOrder'
<1> DEFINE k == con[c]
           l == IdleReadDone(k)
           r == recv[c]
           a == sent[c]
<1>1. /\ k.st \in {"idle", "used"} /\ k.pending /\ ~k.waiting /\ Readable(k)
      /\ con' = [con EXCEPT ![c] = l] /\ UNCHANGED <<recv, sent>>
    BY Zenon DEF IdleRead
<1>2. ConnectionOK(k) /\ r \in Seq(Parts)
    BY Zenon DEF TypeInv
<1>3. InOrder(k, r, a)
    BY Zenon, <1>1, InOrderOf
<1> HIDE DEF k
<1>4. /\ k.queued = <<>>
      /\ k.st = "idle" => l.st = "closed"
      /\ k.st = "used" => l.queued = <<Next1(k)>> /\ l.wire = Rest(k)
    BY Zenon, <1>1, <1>2, IdleReadConnection
<1> HIDE DEF l, r, a
<1>5. l.st # "closed" => InOrder(l, r, a)
  <2>1. SUFFICES ASSUME k.st = "used" PROVE InOrder(l, r, a)
      BY Zenon, <1>1, <1>4
  <2>2. QED
      BY Zenon, <1>1, <1>2, <1>3, <1>4, <2>1, IdleOrder
<1>6. l.st # "closed" => InOrder(l, recv[c], sent[c])
    BY Zenon, <1>5 DEF r, a
<1>7. QED
    BY Zenon, <1>1, <1>6, ConnectionOrderKept

LEMMA OrderNext ==
    ASSUME TypeInv, PooledIsIdle, ReadInOrder, [InjectorNext]_injvars
    PROVE  ReadInOrder'
<1>1. CASE UNCHANGED <<con, recv, sent>>
    BY Zenon, <1>1 DEF ReadInOrder
<1>2. ASSUME NEW s \in Client, Timeout(s)
      PROVE  ReadInOrder'
  <2> DEFINE k == [con[ses[s].c] EXCEPT !.st = "closed", !.waiting = FALSE]
  <2>1. ses[s].pc \in Holding /\ LetGo(ses[s].c, k)
      BY Zenon, <1>2 DEF Timeout, Holding
  <2>2. Left(con[ses[s].c], k)
      BY Zenon DEF Left
  <2> HIDE DEF k
  <2>3. QED
      BY Zenon, <2>1, <2>2, LetGoOrder
<1>3. ASSUME NEW s \in Client, SessionStep(s)
      PROVE  ReadInOrder'
  <2>1. CASE handle_connect_request(s) \/ ConnectFails(s)
      BY Zenon, <1>1, <2>1 DEF handle_connect_request, ConnectFails, poolvars
  <2>2. QED
      BY Zenon, <1>2, <1>3, <2>1, GetConnectionOrder, ConnectOrder, HttpRequestOrder,
         AsyncReadOrder, StreamReadOrder DEF SessionStep
<1>4. ASSUME NEW s \in Client,
             (\E q \in Requests : serve(s, q)) \/ ReadFails(s) \/ ClientLeaves(s)
      PROVE  ReadInOrder'
    BY Zenon, <1>1, <1>4 DEF serve, Answer, Goto, ReadFails, ClientLeaves, poolvars
<1>5. ASSUME NEW c \in Conn, OriginCloses(c)
      PROVE  ReadInOrder'
  <2> DEFINE k == [con[c] EXCEPT !.eof = TRUE]
  <2>1. /\ con[c].st # "closed" /\ con' = [con EXCEPT ![c] = k] /\ UNCHANGED <<recv, sent>>
      BY Zenon, <1>5 DEF OriginCloses, TypeInv
  <2>2. k.queued = con[c].queued /\ k.wire = con[c].wire
      BY Zenon, SameConnection DEF TypeInv
  <2>3. InOrder(con[c], recv[c], sent[c])
      BY Zenon, <2>1, InOrderOf
  <2> HIDE DEF k
  <2>4. InOrder(k, recv[c], sent[c])
      BY Zenon, <2>2, <2>3, SameOrder
  <2>5. QED
      BY Zenon, <2>1, <2>4, ConnectionOrderKept
<1>6. QED
    BY Zenon, <1>1, <1>3, <1>4, <1>5, IdleReadOrder DEF InjectorNext, injvars, poolvars

\* While a connection to an origin is open, what was read from it, what the
\* idle read keeps for the next reader and what is still to be read are together
\* what the origin sent, in order: the byte that make_idle's read takes is given
\* to the next async_read_some, whichever session does it.
THEOREM NothingReadIsLost == SessionsSpec => []ReadInOrder
<1>1. InjectorInit => TypeInv /\ PooledIsIdle /\ ReadInOrder
  <2>1. ASSUME InjectorInit PROVE ReadInOrder
    <3>1. <<>> # <<Eof>> /\ <<>> \o <<>> \o <<>> = <<>>
        OBVIOUS
    <3>2. NoConnection.queued = <<>> /\ NoConnection.wire = <<>>
        BY Zenon DEF NoConnection
    <3>3. \A c \in Conn : con[c] = NoConnection /\ recv[c] = <<>> /\ sent[c] = <<>>
        BY Zenon, <2>1 DEF InjectorInit
    <3>4. QED
        BY Zenon, <3>1, <3>2, <3>3 DEF ReadInOrder
  <2>2. QED
      BY Zenon, <2>1, PoolsInit
<1>2. TypeInv /\ PooledIsIdle /\ ReadInOrder /\ [InjectorNext]_injvars
        => (TypeInv /\ PooledIsIdle /\ ReadInOrder)'
    BY Zenon, PoolsNext, OrderNext
<1>3. QED
    BY <1>1, <1>2, PTL DEF SessionsSpec

=============================================================================
