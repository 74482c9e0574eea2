--------------------------- MODULE SignedResponse ---------------------------
(***************************************************************************)
(* The life of a signed response.                                          *)
(*                                                                         *)
(* An injector reads a response from its origin and passes it through a    *)
(* SigningReader, which cuts the body in blocks of BlockSize and sends     *)
(* with each chunk header the signature of the block before it             *)
(* (http_sign.cpp, chain_hasher.h, quantized_buffer.h).  A client splits   *)
(* the parts into three files: head, sigs and body (SplittedWriter).  From *)
(* the files it serves the parts again, whole or for a range               *)
(* (GenericResourceReader), or the list of block hashes (HashList).  They  *)
(* are consumed by a VerifyingReader (the static store), by a peer that    *)
(* downloads single blocks against a hash list (Peer::read_block), or as   *)
(* they are.  The files of a static cache may be damaged or mixed.         *)
(*                                                                         *)
(* Hashes are the values they are taken of and a signature is the record   *)
(* of what it signs: both are injective, which is what the code relies on. *)
(***************************************************************************)
EXTENDS Integers, Sequences, FiniteSets, SequencesExt

CONSTANTS
    Unit,         \* what bodies are made of
    BlockSize,    \* http_::response_data_block
    MaxPiece,     \* http_response::Reader::http_forward_block
    SizeMod,      \* 2^w for the w bits of size_t
    Bodies,       \* the bodies an origin may send
    OtherBodies,  \* the bodies of a later injection of the same resource
    None

\* A read of the origin fits in the quantized buffer next to an incomplete
\* block, and offsets fit in size_t.
ASSUME SizeAssumption ==
    /\ BlockSize \in Nat \ {0} /\ MaxPiece \in 1 .. BlockSize
    /\ SizeMod \in Nat
    /\ \A b \in Bodies \union OtherBodies :
           b \in Seq(Unit) /\ Len(b) + BlockSize < SizeMod

VARIABLES
    body,       \* what the origin sends under injection "first"
    other,      \* the body of injection "second"
    cacheable,  \* whether to_cache_response accepts the origin's head
    origin,     \* what the origin has not sent yet
    signer,     \* SigningReader::Impl
    wire,       \* parts the signer has ready and the writer has not taken
    writer,     \* SplittedWriter
    disk,       \* the head, sigs and body files of the entry
    damage,     \* what happened to the files since they were stored
    phase,
    server,     \* GenericResourceReader
    list,       \* the hash list a peer has loaded
    client,     \* the state of whoever reads the parts of reader
    passed      \* the body data it has accepted

producing == <<origin, signer, wire, writer>>
given == <<body, other, cacheable>>
signed_vars == <<given, producing, disk, damage, phase, server, list, client, passed>>

Least(a, b) == IF a < b THEN a ELSE b
From(s, n) == SubSeq(s, n + 1, Len(s))

SignedHead(i, fin) == [id |-> i, fin |-> fin, partial |-> FALSE, range |-> None]
ChunkHdr(size, ext) == [t |-> "hdr", size |-> size, ext |-> ext]
ChunkBody(data) == [t |-> "body", data |-> data]
SignedHeadPart(h) == [t |-> "head", head |-> h]
SignedTrailer(fin) == [t |-> "trailer", fin |-> fin]
block_chunk_ext(sig, pdig) == [sig |-> sig, pdig |-> pdig]

\* What the trailer adds to the head: X-Ouinet-Data-Size, Digest and the
\* final signature, which replaces the initial one.
Final(data) == [len |-> Len(data), digest |-> data]

-----------------------------------------------------------------------------
(* ChainHasher *)

NewChain == [off |-> 0, pdig |-> None, psig |-> None]

chain_digest(c, data) == [psig |-> c.psig, pdig |-> c.pdig, data |-> data]

calculate_block(c, size, data, sig) ==
    [off |-> c.off + size, pdig |-> chain_digest(c, data), psig |-> sig]

sign(i, off, digest) == [id |-> i, off |-> off, dig |-> digest]

verify(i, off, digest, sig) == sig = sign(i, off, digest)

-----------------------------------------------------------------------------
(* SigningReader *)

NewSigner == [started |-> FALSE, qbuf |-> <<>>, fed |-> <<>>, off |-> 0,
              last |-> 0, block |-> <<>>, chain |-> NewChain, done |-> FALSE]

quantized_get(q) ==
    IF Len(q) >= BlockSize THEN SubSeq(q, 1, BlockSize) ELSE <<>>

BlockSig(s) == sign("first", s.chain.off, chain_digest(s.chain, s.block))

process_body(s, piece) ==
    LET q == s.qbuf \o piece
        block == IF piece # <<>> THEN quantized_get(q) ELSE q
        kept == [s EXCEPT !.qbuf = From(q, Len(block)), !.fed = @ \o piece]
        signs == cacheable /\ s.off > 0
        ext == IF signs THEN block_chunk_ext(BlockSig(s), None) ELSE None
    IN IF block = <<>> THEN [s |-> kept, parts |-> <<>>]
       ELSE [s |-> IF ~cacheable THEN kept
                   ELSE [kept EXCEPT
                           !.chain = IF signs
                                     THEN calculate_block(@, s.last, s.block,
                                                          BlockSig(s))
                                     ELSE @,
                           !.block = block, !.last = Len(block),
                           !.off = @ + Len(block)],
             parts |-> <<ChunkHdr(Len(block), ext), ChunkBody(block)>>]

\* Mutant of process_end: the rest of the buffer is not sent.
process_end_loses_rest(s) ==
    [s |-> [s EXCEPT !.done = TRUE],
     parts |-> IF cacheable
               THEN <<ChunkHdr(0, block_chunk_ext(BlockSig(s), None)),
                      SignedTrailer(Final(s.fed))>>
               ELSE <<ChunkHdr(0, None), SignedTrailer(None)>>]

process_end(s) ==
    LET rest == process_body(s, <<>>)
    IN IF rest.parts # <<>> THEN rest
       ELSE [s |-> [s EXCEPT !.done = TRUE],
             parts |-> IF cacheable
                       THEN <<ChunkHdr(0, block_chunk_ext(BlockSig(s), None)),
                              SignedTrailer(Final(s.fed))>>
                       ELSE <<ChunkHdr(0, None), SignedTrailer(None)>>]

-----------------------------------------------------------------------------
(* SplittedWriter: each part either extends the files or fails the store. *)

NewWriter == [head |-> None, sigs |-> None, body |-> None, blocks |-> 0,
              bytes |-> 0, block |-> <<>>, chain |-> NewChain]

write_head(w, h) ==
    [ok |-> h.id # None, w |-> [w EXCEPT !.head = h]]

Opened(file) == IF file = None THEN <<>> ELSE file

write_chunk_hdr(w, ch) ==
    LET entry == [off |-> w.blocks * BlockSize, sig |-> ch.ext.sig,
                  dig |-> w.block, pdig |-> w.chain.pdig]
    IN IF ch.ext = None
       THEN [ok |-> TRUE, w |-> [w EXCEPT !.sigs = Opened(@)]]
       ELSE [ok |-> ch.size > 0 => w.bytes = (w.blocks + 1) * BlockSize,
             w |-> [w EXCEPT !.sigs = Append(Opened(@), entry),
                             !.blocks = @ + 1, !.block = <<>>,
                             !.chain = calculate_block(@, ch.size, w.block,
                                                       ch.ext.sig)]]

write_body(w, data) ==
    [ok |-> TRUE,
     w |-> [w EXCEPT !.body = Opened(@) \o data, !.block = @ \o data,
                     !.bytes = @ + Len(data)]]

write_trailer(w, fin) ==
    [ok |-> TRUE, w |-> IF fin = None THEN w ELSE [w EXCEPT !.head.fin = fin]]

async_write_part(w, part) ==
    CASE part.t = "head" -> write_head(w, part.head)
      [] part.t = "hdr" -> write_chunk_hdr(w, part)
      [] part.t = "body" -> write_body(w, part.data)
      [] part.t = "trailer" -> write_trailer(w, part.fin)

-----------------------------------------------------------------------------
(* GenericResourceReader, over the files as they were when it was opened. *)

\* SigEntry::parse: the next line of the signatures file, None at its end or when
\* it is not open.
NextEntry(r) == IF r.sigs \in {None, <<>>} THEN None ELSE r.sigs[1]

NewReader(range) ==
    [range |-> range, head |-> disk.head, sigs |-> disk.sigs,
     body |-> disk.body, off |-> 0, exts |-> None, next |-> None,
     stage |-> "head"]

\* _http_store_reader: the range it opens, None for an invalid seek.
RangeToOpen(first, last) ==
    CASE disk.body = None -> [begin |-> 0, end |-> 0]
      [] disk.body # None /\ first > 0 /\ first >= Len(disk.body) -> None
      [] OTHER -> [begin |-> first, end |-> Least(last + 1, Len(disk.body))]

Aligned(r) ==
    LET end == IF r.range.end > 0
               THEN BlockSize * ((r.range.end - 1) \div BlockSize + 1) ELSE 0
    IN [begin |-> BlockSize * (r.range.begin \div BlockSize),
        end |-> IF r.body = None THEN 0 ELSE Least(end, Len(r.body))]

DataSize(head) == IF head.fin = None THEN None ELSE head.fin.len

prepare_head(r) ==
    LET a == Aligned(r)
    IN IF r.range = None THEN r
       ELSE [r EXCEPT !.range = a,
                      !.head.partial = TRUE,
                      !.head.range = [first |-> a.begin,
                                      last |-> (a.end - 1) % SizeMod,
                                      len |-> DataSize(r.head)]]

\* Mutant of seek_to_range_begin: the signatures before the range are kept.
seek_keeps_sigs(r) ==
    IF r.range = None THEN r
    ELSE IF r.range.end = 0 THEN r
    ELSE [r EXCEPT !.off = r.range.begin, !.body = From(@, r.range.begin)]

seek_to_range_begin(r) ==
    LET skipped == r.range.begin \div BlockSize
    IN IF r.range = None THEN r
       ELSE IF r.range.end = 0 THEN r
       ELSE [r EXCEPT !.off = r.range.begin,
                      !.body = From(@, r.range.begin),
                      !.sigs = IF @ = None THEN None
                               ELSE From(@, Least(skipped, Len(@)))]

Result(res, part, r) == [res |-> res, part |-> part, r |-> r]

get_chunk_part(r) ==
    LET entry == NextEntry(r)
        data == IF r.body = None THEN <<>>
                ELSE SubSeq(r.body, 1, Least(BlockSize, Len(r.body)))
        exts == IF entry = None THEN None
                ELSE block_chunk_ext(entry.sig, entry.pdig)
        off == r.off + Len(data)
        closes == r.range # None /\ off >= r.range.end
        read == [r EXCEPT !.off = off,
                   !.sigs = IF closes \/ entry = None THEN None ELSE Tail(@),
                   !.body = IF closes \/ r.body = None THEN None
                            ELSE From(@, Len(data))]
        last == [read EXCEPT !.stage = "trailer"]
        more == [read EXCEPT !.exts = exts,
                   !.next = IF entry # None /\ data # <<>>
                            THEN ChunkBody(data) ELSE None,
                   !.stage = IF data = <<>> THEN "trailer" ELSE "chunks"]
    IN IF r.next # None
       THEN Result("part", r.next, [r EXCEPT !.next = None])
       ELSE IF entry = None /\ r.exts = None
       THEN Result(IF r.head.fin = None THEN "error" ELSE "none", None, r)
       ELSE IF entry # None /\ entry.off # r.off
       THEN Result("error", None, r)
       ELSE IF data = <<>> /\ r.exts = None
       THEN Result("part", ChunkHdr(0, exts), last)
       ELSE Result("part", ChunkHdr(Len(data), r.exts), more)

async_read_part(r) ==
    CASE r.stage = "head" ->
           LET h == prepare_head(r)
           IN Result("part", SignedHeadPart(h.head),
                     [seek_to_range_begin(h) EXCEPT !.stage = "chunks"])
      [] r.stage = "chunks" -> get_chunk_part(r)
      [] r.stage = "trailer" ->
           Result("part", SignedTrailer(None), [r EXCEPT !.stage = "done"])
      [] r.stage = "done" -> Result("none", None, r)

-----------------------------------------------------------------------------
(* HashList *)

\* http_store_load_hash_list: the hashes and signatures of the stored blocks.
load_hash_list ==
    [i \in 1 .. Len(disk.sigs) |->
        [dig |-> disk.sigs[i].dig, sig |-> disk.sigs[i].sig]]

\* Only the signature of the last block is verified: it covers the others.
hash_list_verify(head, blocks) ==
    LET chain[i \in 0 .. Len(blocks)] ==
            IF i = 0 THEN NewChain
            ELSE calculate_block(chain[i - 1], BlockSize, blocks[i].dig,
                                 blocks[i].sig)
        n == Len(blocks)
    IN n > 0 /\ verify(head.id, chain[n - 1].off, chain[n].pdig, blocks[n].sig)

-----------------------------------------------------------------------------
(* VerifyingReader: v is its state, each operator the handling of a part. *)

NewVerifier == [head |-> None, range |-> None, off |-> 0, data |-> <<>>,
                chain |-> NewChain, pdig |-> None, read |-> <<>>,
                result |-> "busy"]

Fails(v) == [v EXCEPT !.result = "error"]

\* HttpResponseByteRange::parse rejects a range outside the length it gives.
Malformed(cr) == cr.last < cr.first \/ (cr.len # None /\ ~(cr.last < cr.len))

verify_head(v, h) ==
    LET cr == h.range
    IN IF h.partial /\ (Malformed(cr) \/ cr.len # DataSize(h)) THEN Fails(v)
       ELSE IF h.partial
       THEN [v EXCEPT !.head = h, !.off = cr.first,
                      !.range = [begin |-> cr.first,
                                 end |-> (cr.last + 1) % SizeMod]]
       ELSE [v EXCEPT !.head = h]

\* The first block of a range that does not start the body: the previous
\* digest is taken from its chunk header.
StartsRange(v) == v.range # None /\ v.off > 0 /\ v.off = v.range.begin

ChainFor(v, ch) ==
    IF StartsRange(v)
    THEN [v.chain EXCEPT !.pdig = ch.ext.pdig, !.off = v.off]
    ELSE v.chain

\* Mutant of verify_chunk_hdr: the block is passed on without its signature
\* being verified.
verify_chunk_hdr_trusts(v, ch) ==
    IF v.data = <<>> THEN v
    ELSE IF ch.ext = None THEN Fails(v)
    ELSE [v EXCEPT !.off = @ + Len(v.data), !.data = <<>>,
                   !.chain = calculate_block(@, Len(v.data), v.data, ch.ext.sig)]

verify_chunk_hdr(v, ch) ==
    LET c == ChainFor(v, ch)
        next == calculate_block(c, Len(v.data), v.data, ch.ext.sig)
    IN IF ch.size > BlockSize THEN Fails(v)
       ELSE IF v.data = <<>> THEN v
       ELSE IF ch.ext = None THEN Fails(v)
       ELSE IF StartsRange(v) /\ ch.ext.pdig = None THEN Fails(v)
       ELSE IF ~verify(v.head.id, c.off, next.pdig, ch.ext.sig) THEN Fails(v)
       ELSE [v EXCEPT !.off = @ + Len(v.data), !.data = <<>>,
                      !.chain = next, !.pdig = next.pdig]

verify_body(v, data) ==
    LET fed == [v EXCEPT !.read = @ \o data]
    IN IF Len(v.data) + Len(data) > BlockSize THEN Fails(fed)
       ELSE [fed EXCEPT !.data = @ \o data]

check_body(v) ==
    LET size == v.head.fin.len
        expected == IF v.range = None THEN size
                    ELSE (v.range.end - v.range.begin) % SizeMod
        partial == v.range # None
                   /\ (v.range.begin > 0 \/ v.range.end < size)
    IN IF v.head.fin = None THEN Fails(v)
       ELSE IF expected # Len(v.read) THEN Fails(v)
       ELSE IF ~partial /\ v.head.fin.digest # v.read THEN Fails(v)
       ELSE [v EXCEPT !.result = "done"]

verify_part(v, part) ==
    CASE part.t = "head" -> verify_head(v, part.head)
      [] part.t = "hdr" -> verify_chunk_hdr(v, part)
      [] part.t = "body" -> verify_body(v, part.data)
      [] part.t = "trailer" -> check_body(v)

-----------------------------------------------------------------------------
(* Peer::read_block of block k: p.got is what it has read of the block. *)

NewPeer(k) == [k |-> k, stage |-> "head", size |-> 0, got |-> <<>>,
               result |-> "busy"]

CheckBlock(p) ==
    IF p.got # list.blocks[p.k].dig THEN Fails(p) ELSE [p EXCEPT !.stage = "end"]

read_block_part(p, part) ==
    CASE p.stage = "head" -> [p EXCEPT !.stage = "first"]
      [] p.stage = "first" ->
           IF part.t # "hdr" THEN Fails(p)
           ELSE IF part.size = 0 THEN CheckBlock(p)
           ELSE [p EXCEPT !.stage = "data", !.size = part.size]
      [] p.stage = "data" ->
           IF part.t # "body" THEN Fails(p)
           ELSE [p EXCEPT !.got = @ \o part.data,
                          !.stage = IF Len(p.got \o part.data) = p.size
                                    THEN "last" ELSE "data"]
      [] p.stage = "last" ->
           IF part.t # "hdr" THEN Fails(p)
           ELSE IF part.size # 0 THEN Fails(p)
           ELSE CheckBlock(p)
      [] p.stage = "end" ->
           IF part.t # "trailer" THEN Fails(p) ELSE [p EXCEPT !.stage = "done"]
      [] p.stage = "done" -> Fails(p)

\* No more parts: before a chunk header this is a response with no body;
\* elsewhere the connection ends in the middle of the message.
read_block_none(p) ==
    CASE p.stage = "first" -> [p EXCEPT !.result = "nobody"]
      [] p.stage \in {"end", "done"} -> [p EXCEPT !.result = "done"]
      [] OTHER -> Fails(p)

-----------------------------------------------------------------------------
(* The injection and the store *)

SignedInit ==
    /\ body \in Bodies /\ other \in OtherBodies /\ cacheable \in BOOLEAN
    /\ origin = body /\ signer = NewSigner /\ wire = <<>>
    /\ writer = NewWriter
    /\ disk = None /\ damage = "none" /\ phase = "inject"
    /\ server = None /\ list = None /\ client = None /\ passed = <<>>

Emits(r) == signer' = r.s /\ wire' = r.parts

Injecting == phase = "inject" /\ wire = <<>> /\ ~signer.done
InjectUnchanged ==
    UNCHANGED <<given, writer, disk, damage, server, list, client, passed>>

\* The origin's head arrives and is signed, or only passed on.
SignHead ==
    /\ Injecting /\ ~signer.started
    /\ signer' = [signer EXCEPT !.started = TRUE]
    /\ wire' = <<SignedHeadPart(SignedHead(IF cacheable THEN "first" ELSE None,
                                     None))>>
    /\ UNCHANGED <<origin, phase>> /\ InjectUnchanged

\* The origin sends n units more.
SignPiece(n) ==
    /\ Injecting /\ signer.started
    /\ n <= Len(origin)
    /\ Emits(process_body(signer, SubSeq(origin, 1, n)))
    /\ origin' = From(origin, n)
    /\ UNCHANGED phase /\ InjectUnchanged

SignEnd ==
    /\ Injecting /\ signer.started
    /\ origin = <<>>
    /\ Emits(process_end(signer))
    /\ UNCHANGED <<origin, phase>> /\ InjectUnchanged

\* Reading from the origin fails: the store fails with it.
OriginFails ==
    /\ Injecting
    /\ phase' = "failed"
    /\ UNCHANGED <<origin, signer, wire>> /\ InjectUnchanged

\* The network may split the data of a chunk: the writer takes n units of it.
WritePart(n) ==
    /\ phase = "inject" /\ wire # <<>>
    /\ LET part == wire[1]
           split == part.t = "body" /\ n < Len(part.data)
           first == IF split THEN ChunkBody(SubSeq(part.data, 1, n)) ELSE part
           r == async_write_part(writer, first)
       IN /\ wire' = IF split THEN <<ChunkBody(From(part.data, n))>> \o Tail(wire)
                     ELSE Tail(wire)
          /\ writer' = r.w
          /\ phase' = IF r.ok THEN "inject" ELSE "failed"
    /\ UNCHANGED <<given, origin, signer, disk, damage, server, list, client, passed>>

\* The last part is written; what produced it is gone.
StoreDone ==
    /\ phase = "inject" /\ wire = <<>> /\ signer.done
    /\ disk' = [head |-> writer.head, sigs |-> writer.sigs, body |-> writer.body]
    /\ signer' = NewSigner /\ writer' = NewWriter
    /\ phase' = "stored"
    /\ UNCHANGED <<given, origin, wire, damage, server, list, client, passed>>

-----------------------------------------------------------------------------
(* What the files should be: the reference for the producing half. *)

BlocksOf(b) ==
    IF b = <<>> THEN << <<>> >>
    ELSE [k \in 1 .. ((Len(b) - 1) \div BlockSize) + 1 |->
             SubSeq(b, (k - 1) * BlockSize + 1, Least(k * BlockSize, Len(b)))]

ChainOf(i, b) ==
    LET chain[k \in 0 .. Len(BlocksOf(b))] ==
            IF k = 0 THEN [dig |-> None, sig |-> None]
            ELSE LET dig == [psig |-> chain[k - 1].sig,
                             pdig |-> chain[k - 1].dig, data |-> BlocksOf(b)[k]]
                 IN [dig |-> dig,
                     sig |-> [id |-> i, off |-> (k - 1) * BlockSize,
                              dig |-> dig]]
    IN chain

FilesOf(i, b) ==
    [head |-> SignedHead(i, Final(b)),
     sigs |-> [k \in 1 .. Len(BlocksOf(b)) |->
                  [off |-> (k - 1) * BlockSize, sig |-> ChainOf(i, b)[k].sig,
                   dig |-> BlocksOf(b)[k], pdig |-> ChainOf(i, b)[k - 1].dig]],
     body |-> IF b = <<>> THEN None ELSE b]

BodyOf(i) == IF i = "first" THEN body ELSE other

-----------------------------------------------------------------------------
(* What may have happened to the files of an entry before it is read.  A   *)
(* linked body is a file of the content directory of a static cache: it is *)
(* there even when the body is empty.                                      *)

Damaged(kind, n) ==
    CASE kind = "none" -> disk
      [] kind = "head old" -> [disk EXCEPT !.head.fin = None]
      [] kind = "sigs gone" -> [disk EXCEPT !.sigs = None]
      [] kind = "sigs line lost" ->
           [disk EXCEPT !.sigs = IF n \in DOMAIN @ THEN RemoveAt(@, n) ELSE @]
      [] kind = "sigs mixed" ->
           [disk EXCEPT !.sigs = FilesOf("second", other).sigs]
      [] kind = "body linked" -> [disk EXCEPT !.body = Opened(@)]
      [] kind = "body gone" -> [disk EXCEPT !.body = None]
      [] kind = "body cut" ->
           [disk EXCEPT !.body = IF @ = None THEN None
                                 ELSE SubSeq(@, 1, Least(n, Len(@)))]
      [] kind = "body changed" ->
           [disk EXCEPT !.body = IF @ = None THEN None
                                 ELSE [k \in DOMAIN @ |->
                                         IF k = n THEN CHOOSE u \in Unit : u # @[k]
                                         ELSE @[k]]]
      [] kind = "body mixed" ->
           [disk EXCEPT !.body = FilesOf("second", other).body]

DamageKinds == {"none", "head old", "sigs gone", "sigs line lost", "sigs mixed",
                "body linked", "body gone", "body cut", "body changed", "body mixed"}

Damage(kind, n) ==
    /\ phase = "stored"
    /\ disk' = Damaged(kind, n)
    /\ damage' = IF disk' = disk THEN "none" ELSE kind
    /\ phase' = "ready"
    /\ UNCHANGED <<given, producing, server, list, client, passed>>

-----------------------------------------------------------------------------
(* Reading *)

ReadUnchanged == UNCHANGED <<given, producing, damage>>

Whole == [first |-> 0, last |-> 0, whole |-> TRUE]
Asked(first, last) == [first |-> first, last |-> last, whole |-> FALSE]

\* A reader is opened for the bytes that are asked for, or the client is told
\* there is nothing.
Open(asked, c, to, refused) ==
    LET range == RangeToOpen(asked.first, asked.last)
    IN /\ phase' = to
       /\ IF ~asked.whole /\ range = None
          THEN client' = [c EXCEPT !.result = refused] /\ server' = None
          ELSE /\ client' = c
               /\ server' = NewReader(IF asked.whole THEN None ELSE range)

\* The static store has no entry without a body file or a link to one.
OpenVerifying(asked) ==
    /\ phase = "ready"
    /\ IF disk.body # None THEN Open(asked, NewVerifier, "verify", "refused")
       ELSE /\ client' = [NewVerifier EXCEPT !.result = "refused"]
            /\ phase' = "verify" /\ server' = None
    /\ UNCHANGED <<disk, list, passed>> /\ ReadUnchanged

OpenPlain(asked) ==
    /\ phase = "ready"
    /\ Open(asked, [asked |-> asked, head |-> None, result |-> "busy"],
            "plain", "refused")
    /\ UNCHANGED <<disk, list, passed>> /\ ReadUnchanged

\* A peer asks for the hash list (PROPFIND) and verifies it.
LoadHashList ==
    /\ phase = "ready"
    /\ list = None
    /\ IF disk.sigs \in {None, <<>>} THEN list' = list /\ phase' = "no list"
       ELSE IF hash_list_verify(disk.head, load_hash_list)
       THEN /\ list' = [head |-> disk.head, blocks |-> load_hash_list]
            /\ phase' = "listed"
       ELSE list' = list /\ phase' = "no list"
    /\ UNCHANGED <<disk, server, client, passed>> /\ ReadUnchanged

\* Meanwhile the entry is replaced by a later injection of the resource.
Replace ==
    /\ phase = "listed"
    /\ disk' = FilesOf("second", other)
    /\ damage' = "replaced"
    /\ UNCHANGED <<given, producing, phase, server, list, client, passed>>

RequestBlock(k) ==
    /\ phase = "listed"
    /\ k \in DOMAIN list.blocks
    /\ Open(Asked((k - 1) * BlockSize, k * BlockSize - 1), NewPeer(k), "peer",
            "nobody")
    /\ UNCHANGED <<disk, list, passed>> /\ ReadUnchanged

\* One part is read and handled; a read is over when the client has a result.
Handles(r, c, accepted) ==
    /\ server' = r /\ client' = c
    /\ passed' = passed \o accepted
    /\ UNCHANGED <<phase, disk, list>> /\ ReadUnchanged

VerifyStep ==
    /\ phase = "verify" /\ client.result = "busy"
    /\ LET r == async_read_part(server)
           c == CASE r.res = "part" -> verify_part(client, r.part)
                  [] r.res = "none" -> [client EXCEPT !.result = "none"]
                  [] r.res = "error" -> Fails(client)
       IN Handles(r.r, c, IF c.off > client.off /\ client.head # None
                          THEN client.data ELSE <<>>)

PlainStep ==
    /\ phase = "plain" /\ client.result = "busy"
    /\ LET r == async_read_part(server)
           c == CASE r.res = "error" -> Fails(client)
                  [] r.res = "none" -> [client EXCEPT !.result = "none"]
                  [] r.res = "part" ->
                       IF r.part.t = "head" THEN [client EXCEPT !.head = r.part.head]
                       ELSE IF r.part.t = "trailer"
                       THEN [client EXCEPT !.result = "done"] ELSE client
       IN Handles(r.r, c, IF r.res = "part" THEN
                             IF r.part.t = "body" THEN r.part.data ELSE <<>>
                          ELSE <<>>)

\* The network may split the data of the block: the peer takes n units of it.
ReadBlockStep(n) ==
    /\ phase = "peer" /\ client.result = "busy"
    /\ LET r == async_read_part(server)
           data == IF r.res # "part" THEN <<>>
                   ELSE IF r.part.t = "body" THEN r.part.data ELSE <<>>
           split == n < Len(data)
           part == IF split THEN ChunkBody(SubSeq(data, 1, n)) ELSE r.part
       IN Handles(IF split THEN [r.r EXCEPT !.next = ChunkBody(From(data, n))]
                  ELSE r.r,
                  CASE r.res = "part" -> read_block_part(client, part)
                    [] r.res = "none" -> read_block_none(client)
                    [] r.res = "error" -> Fails(client),
                  <<>>)

SignedNext ==
    \/ SignHead
    \/ \E n \in 1 .. MaxPiece : SignPiece(n)
    \/ SignEnd
    \/ OriginFails
    \/ \E n \in 1 .. BlockSize : WritePart(n)
    \/ StoreDone
    \/ \E kind \in DamageKinds, n \in 0 .. Len(body) : Damage(kind, n)
    \/ OpenVerifying(Whole)
    \/ \E first \in 0 .. Len(body), last \in 0 .. Len(body) :
          first <= last /\ OpenVerifying(Asked(first, last))
    \/ OpenPlain(Whole)
    \/ \E first \in 0 .. Len(body), last \in 0 .. Len(body) :
          first <= last /\ OpenPlain(Asked(first, last))
    \/ LoadHashList
    \/ Replace
    \/ \E k \in 1 .. Len(body) + 1 : RequestBlock(k)
    \/ VerifyStep
    \/ PlainStep
    \/ \E n \in 1 .. BlockSize : ReadBlockStep(n)

-----------------------------------------------------------------------------
(* Properties *)

Results == {"busy", "done", "error", "none", "nobody", "refused"}

\* However the origin's data is cut into pieces and the network splits the
\* chunks, the entry that SplittedWriter leaves has the body, and for each
\* block its offset, its digest, the digest of the chain before it and a
\* signature over the whole chain; and only a response that the injector
\* accepted to sign is stored.
StoredIsChain ==
    phase = "stored" => cacheable /\ disk = FilesOf("first", body)

\* Whatever happened to the files, each block a VerifyingReader passes on is
\* the block that was signed for that place under the injection of the head,
\* and a response it passes on up to the trailer is complete: it has the whole
\* body, or the range that its head says.  So is a block that Peer::read_block
\* accepts, even when the entry was replaced after the hash list was sent and
\* although HashList::verify looks at no signature but the last.
AcceptedIsSigned ==
    /\ phase = "verify" /\ passed # <<>> =>
         LET begin == IF client.range = None THEN 0 ELSE client.range.begin
         IN  IsPrefix(passed, From(BodyOf(client.head.id), begin))
    /\ phase = "verify" /\ client.result = "done" =>
         Len(passed) = IF client.range = None THEN Len(BodyOf(client.head.id))
                       ELSE client.range.end - client.range.begin
    /\ phase = "peer" /\ client.result = "done" =>
         client.got = BlocksOf(BodyOf(list.head.id))[client.k]

\* From undamaged files GenericResourceReader serves exactly the blocks that
\* the asked bytes touch, and Content-Range says which bytes these are
\* (except for an empty body, where its last byte wraps around).
RangeIsServed ==
    phase = "plain" /\ client.result # "busy" /\ damage \in {"none", "body linked"} =>
        LET a == client.asked
            lo == BlockSize * (a.first \div BlockSize)
            hi == Least(Len(body), BlockSize * (a.last \div BlockSize + 1))
        IN IF a.whole THEN client.result = "done" /\ passed = body
           ELSE IF body # <<>> /\ a.first >= Len(body)
           THEN client.result = "refused"
           ELSE /\ client.result = "done"
                /\ passed = SubSeq(body, lo + 1, hi)
                /\ body # <<>> => client.head.range =
                                    [first |-> lo, last |-> hi - 1,
                                     len |-> Len(body)]

=============================================================================
