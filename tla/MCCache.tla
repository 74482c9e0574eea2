------------------------------ MODULE MCCache ------------------------------
(***************************************************************************)
(* Instances for TLC of four parts of the cache, one per behaviour.        *)
(*                                                                         *)
(* Announcer: two keys and two slots let a key be in flight twice and      *)
(* queued a third time; the periods are ordered as in the code (20 and 5   *)
(* minutes), so an entry that failed can be due behind one that succeeded  *)
(* and is not.  HttpStore: two calls of store for one key, a reader and    *)
(* the garbage collector, and one stop of the process.  MultiPeerReader:   *)
(* three peers, one of them on the local network, with any of three        *)
(* injections: two that share their first block, and one of an empty       *)
(* response.  SignedResponse: bodies of no, one, two and three blocks,     *)
(* with equal and different blocks.                                        *)
(***************************************************************************)
EXTENDS Announcer, HttpStore, MultiPeerReader, SignedResponse

CONSTANTS k1, k2, b1, b2, b3, u1, u2

MCKey == {k1, k2}

SomeBlocks == [j \in Injected |-> <<<<b1, b2>>, <<b1, b3>>, <<Empty>>>>[j]]

SomeUnits == {u1, u2}

\* All short ones, and longer ones whose first block is <<u1, u2>>.
SomeBodies ==
  UNION {[1 .. len -> SomeUnits] : len \in 0 .. 3}
    \cup {<<u1, u2>> \o rest : rest \in UNION {[1 .. len -> SomeUnits] : len \in {2, 3}}}

SomeOtherBodies == {<<>>, <<u1, u2, u1>>}

\* An announcer that was destroyed, and a store nobody uses any more.
NoAnnouncer ==
  /\ entries = <<>> /\ jobs = [s \in Slot |-> Idle]
  /\ pc = "stopped" /\ n = 1 /\ timer = 0
  /\ wanted = [k \in Key |-> FALSE] /\ ops = MaxOps

NoStore ==
  /\ entry = [k \in Res |-> Absent]
  /\ temp = [v \in {} |-> {}]
  /\ storing = [s \in Storer |-> Quiet]
  /\ reading = [r \in Reader |-> Quiet]
  /\ gc = [todo |-> {}, old |-> {}, at |-> Quiet]
  /\ version = MaxVersion
  /\ expired = Version
  /\ crashes = MaxCrashes
  /\ stalled = FALSE

\* A reader that was closed before it was used.
NoReader ==
  /\ has = [p \in Peer |-> 1] /\ kind = "lan" /\ lookup = "done"
  /\ all = {} /\ trying = {} /\ candidates = {} /\ good = {}
  /\ reader = [state |-> "closed", reference |-> 0, head_sent |-> FALSE,
               block |-> 1, sig |-> NoSig, body |-> <<>>, trailer |-> FALSE,
               last_sent |-> FALSE]
  /\ reading_at = "idle" /\ fetch = NoFetch /\ pre_fetch = NoFetch /\ out = <<>>

\* A response whose origin failed at once.
NoResponse ==
  /\ body = <<>> /\ other = <<>> /\ cacheable = FALSE
  /\ origin = body /\ signer = NewSigner /\ wire = <<>>
  /\ writer = NewWriter
  /\ disk = None /\ damage = "none" /\ phase = "failed"
  /\ server = None /\ list = None /\ client = None /\ passed = <<>>

CacheSpec ==
  /\ \/ Init /\ NoStore /\ NoReader /\ NoResponse
     \/ NoAnnouncer /\ StoreInit /\ NoReader /\ NoResponse
     \/ NoAnnouncer /\ NoStore /\ ReaderInit /\ NoResponse
     \/ NoAnnouncer /\ NoStore /\ NoReader /\ SignedInit
  /\ [][\/ Next /\ UNCHANGED <<store_vars, reader_vars, signed_vars>>
        \/ StoreNext /\ UNCHANGED <<vars, reader_vars, signed_vars>>
        \/ ReaderNext /\ UNCHANGED <<vars, store_vars, signed_vars>>
        \/ SignedNext /\ UNCHANGED <<vars, store_vars, reader_vars>>
       ]_<<vars, store_vars, reader_vars, signed_vars>>
  /\ Fairness /\ StoreFair /\ ReaderFair
=============================================================================
