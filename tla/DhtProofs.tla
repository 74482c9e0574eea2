----------------------------- MODULE DhtProofs ------------------------------
(***************************************************************************)
(* Proofs about a DHT node and its routing table, for any size of an id    *)
(* and of a bucket, any contacts and any number of queries.                *)
(***************************************************************************)
EXTENDS DhtNode, FiniteSetTheorems, SequenceTheorems, TLAPS

\* A nonempty set of naturals has a least element.
LEMMA MinOfNats ==
    ASSUME NEW S \in SUBSET Nat, S # {}
    PROVE  Min(S) \in S /\ \A y \in S : Min(S) =< y
<1> DEFINE R == OpToRel(<, Nat)
<1>1. \A x, y \in Nat : <<x, y>> \in R <=> x < y
    BY Zenon DEF OpToRel
<1>2. IsWellFoundedOn(R, Nat)
    BY Zenon, NatLessThanWellFounded
<1> HIDE DEF R
<1>3. PICK x \in S : \A y \in S : <<y, x>> \notin R
    BY Zenon, <1>2, WFMin
<1>4. ASSUME NEW y \in S PROVE x =< y
    <2>1. x \in Nat /\ y \in Nat
        BY Zenon
    <2>2. ~(y < x)
        BY Zenon, <1>1, <1>3, <2>1
    <2>3. QED
        BY <2>1, <2>2
<1>5. QED
    BY Zenon, <1>4 DEF Min

\* A nonempty set of naturals below a bound has a greatest element.
LEMMA MaxOfNats ==
    ASSUME NEW n \in Nat, NEW S \in SUBSET 0 .. n, S # {}
    PROVE  Max(S) \in S /\ \A y \in S : y =< Max(S)
<1> DEFINE T == {n - x : x \in S}
<1>1. T \in SUBSET Nat /\ T # {}
    <2>1. \A x \in S : x \in 0 .. n
        BY Zenon
    <2>2. \A x \in S : n - x \in Nat
        BY <2>1
    <2>3. QED
        BY Zenon, <2>2
<1> HIDE DEF T
<1>2. Min(T) \in T /\ \A y \in T : Min(T) =< y
    BY Zenon, <1>1, MinOfNats
<1>3. PICK m \in S : Min(T) = n - m
    BY Zenon, <1>2 DEF T
<1>4. \A y \in S : n - m =< n - y
    BY Zenon, <1>2, <1>3 DEF T
<1>5. \A y \in S : m >= y
    BY <1>4
<1>6. Max(S) \in S /\ \A y \in S : Max(S) >= y
    BY Zenon, <1>5 DEF Max
<1>7. QED
    BY Zenon, <1>6

-----------------------------------------------------------------------------
(***************************************************************************)
(* The routing table.                                                      *)
(***************************************************************************)

AnyContact == [id : Nat, endpoint : [address : Nat, port : Nat]]

RoutingNode == [contact : AnyContact, recent : BOOLEAN, replied : BOOLEAN,
                failed : Nat, ping : BOOLEAN]

\* A contact becomes a candidate only when all nodes of its bucket are good, and
\* a good node is not questionable: so there are no candidates.
Bucket == [nodes : Seq(RoutingNode), verified : {<<>>}, unverified : {<<>>}]

\* Of a table with n buckets, b is the one of id: where find_bucket_id ends.
BucketOf(n, id, b) ==
    /\ b \in 1 .. n
    /\ \A j \in 2 .. b : id <= max_distance(j)
    /\ b < n => ~(id <= max_distance(b + 1))

\* No contact occurs twice.
Distinct(s) ==
    \A i, j \in DOMAIN s : s[i].contact = s[j].contact => i = j

\* All of s belong to bucket b of n.
Fits(s, n, b) ==
    /\ \A i \in DOMAIN s : BucketOf(n, s[i].contact.id, b)
    /\ Distinct(s)

Sound(bs) ==
    /\ bs \in Seq(Bucket)
    /\ \A b \in 1 .. Len(bs) :
         Fits(bs[b].nodes, Len(bs), b) /\ Len(bs[b].nodes) <= BUCKET_SIZE

ContactsOf(s) == {s[i].contact : i \in DOMAIN s}

\* find_bucket_id finds the one bucket the id belongs to.
LEMMA FindBucket ==
    ASSUME NEW bs \in Seq(Bucket), bs # <<>>, NEW id
    PROVE  /\ BucketOf(Len(bs), id, find_bucket_id(bs, id))
           /\ \A b : BucketOf(Len(bs), id, b) => b = find_bucket_id(bs, id)
<1> DEFINE n == Len(bs)
           At(i) == /\ \A j \in 2 .. i : id <= max_distance(j)
                    /\ i < n => ~(id <= max_distance(i + 1))
           I == {i \in 1 .. n : \A j \in 2 .. i : id <= max_distance(j)}
<1>1. n \in Nat /\ n >= 1
    BY EmptySeq
<1> HIDE DEF n
<1>2. 1 \in I /\ I \subseteq 0 .. n
    BY <1>1
<1>3. Max(I) \in I /\ \A y \in I : y =< Max(I)
    BY Zenon, <1>1, <1>2, MaxOfNats
<1>4. \E i \in 1 .. n : At(i)
    <2>1. PICK m \in I : \A y \in I : y =< m
        BY Zenon, <1>3
    <2>2. m < n => ~(id <= max_distance(m + 1))
        <3> SUFFICES ASSUME m < n, id <= max_distance(m + 1) PROVE FALSE
            BY Zenon
        <3>1. \A j \in 2 .. m + 1 : j \in 2 .. m \/ j = m + 1
            BY <1>1
        <3>2. m + 1 \in I
            BY <1>1, <3>1
        <3>3. QED
            BY <1>1, <2>1, <3>2
    <2>3. QED
        BY Zenon, <2>1, <2>2
<1>5. \A i, k \in 1 .. n : At(i) /\ At(k) => i = k
    <2>1. \A i, k \in 1 .. n : At(i) /\ At(k) => ~(i < k)
        <3> SUFFICES ASSUME NEW i \in 1 .. n, NEW k \in 1 .. n, At(i), At(k), i < k
                     PROVE  FALSE
            BY Zenon
        <3>1. i + 1 \in 2 .. k /\ i < n
            BY <1>1
        <3>2. QED
            BY Zenon, <3>1
    <2>2. \A i, k \in 1 .. n : i < k \/ k < i \/ i = k
        BY <1>1
    <2>3. QED
        BY Zenon, <2>1, <2>2
<1>6. find_bucket_id(bs, id) = CHOOSE i \in 1 .. n : At(i)
    BY Zenon DEF find_bucket_id, n
<1>7. \A b : BucketOf(n, id, b) <=> b \in 1 .. n /\ At(b)
    BY Zenon DEF BucketOf
<1> HIDE DEF At
<1>8. find_bucket_id(bs, id) \in 1 .. n /\ At(find_bucket_id(bs, id))
    BY Zenon, <1>4, <1>6
<1>9. QED
    BY Zenon, <1>5, <1>7, <1>8 DEF n

\* A set of positions is finite.
LEMMA PositionsFinite ==
    ASSUME NEW n \in Nat, NEW I \in SUBSET 1 .. n
    PROVE  IsFiniteSet(I) /\ Cardinality(I) \in Nat
<1>1. 1 \in Int /\ n \in Int
    OBVIOUS
<1>2. IsFiniteSet(1 .. n)
    BY Zenon, <1>1, FS_Interval
<1>3. IsFiniteSet(I)
    BY Zenon, <1>2, FS_Subset
<1>4. QED
    BY Zenon, <1>3, FS_CardinalityType

\* Some position of I has rank j, for every j up to the size of I.
LEMMA RankExists ==
    ASSUME NEW n \in Nat, NEW I \in SUBSET 1 .. n, NEW j \in 1 .. Cardinality(I)
    PROVE  \E i \in I : Rank(I, i) = j
<1> DEFINE Upto(i) == {x \in I : x <= i}
           A == {i \in I : Rank(I, i) >= j}
<1>1. \A i \in I : i \in Nat /\ i >= 1 /\ i <= n
    OBVIOUS
<1>2. IsFiniteSet(I) /\ Cardinality(I) \in Nat
    BY Zenon, PositionsFinite
<1>3. j \in Nat /\ j >= 1 /\ j <= Cardinality(I)
    BY <1>2
<1>4. \A i : Rank(I, i) = Cardinality(Upto(i)) /\ Rank(I, i) \in Nat /\ IsFiniteSet(Upto(i))
    BY Zenon, PositionsFinite DEF Rank
<1>5. I # {} /\ I \subseteq 0 .. n
    BY <1>1, <1>3, FS_EmptySet
<1>6. PICK top \in I : \A i \in I : i =< top
    BY Zenon, <1>5, MaxOfNats
<1>7. Upto(top) = I
    BY Zenon, <1>6
<1>8. top \in A
    BY Zenon, <1>3, <1>4, <1>7
<1>9. A \in SUBSET Nat /\ A # {}
    BY Zenon, <1>1, <1>8
<1>10. PICK m \in A : \A i \in A : m =< i
    BY Zenon, <1>9, MinOfNats
<1>11. m \in I /\ m \in Nat /\ Rank(I, m) >= j
    BY Zenon, <1>1
<1> DEFINE B == {x \in I : x < m}
<1>12. B = Upto(m) \ {m} /\ m \in Upto(m)
    <2>1. \A x \in I : x < m <=> x <= m /\ x # m
        BY <1>1, <1>11
    <2>2. m \in Upto(m)
        BY <1>11
    <2>3. QED
        BY Zenon, <2>1, <2>2
<1>13. Cardinality(B) = Rank(I, m) - 1
    <2> DEFINE U == Upto(m)
    <2> HIDE DEF U
    <2>1. IsFiniteSet(U) /\ m \in U /\ B = U \ {m} /\ Rank(I, m) = Cardinality(U)
        BY Zenon, <1>4, <1>12 DEF U
    <2> HIDE DEF B
    <2>2. QED
        BY Zenon, <2>1, FS_RemoveElement
<1>14. ASSUME Rank(I, m) > j PROVE FALSE
    <2>1. Cardinality(B) \in Nat /\ Cardinality(B) >= j /\ Cardinality(B) # 0
        <3> DEFINE r == Rank(I, m)
        <3>1. r \in Nat
            BY Zenon, <1>4
        <3> HIDE DEF B, r
        <3>2. r > j /\ Cardinality(B) = r - 1
            BY Zenon, <1>13, <1>14 DEF r
        <3>3. QED
            BY <1>3, <3>1, <3>2
    <2>2. B # {}
        <3> HIDE DEF B
        <3>1. Cardinality({}) = 0
            BY Zenon, FS_EmptySet
        <3>2. QED
            BY Zenon, <2>1, <3>1
    <2>3. B \subseteq 0 .. n
        BY Zenon, <1>5
    <2>4. PICK p \in B : \A x \in B : x =< p
        <3> HIDE DEF B
        <3>1. QED
            BY Zenon, <2>2, <2>3, MaxOfNats
    <2>5. p \in I /\ p < m /\ p \in Nat
        BY Zenon, <1>1
    <2>6. \A x \in I : x <= p <=> x < m
        <3> TAKE x \in I
        <3>1. x \in Nat
            BY Zenon, <1>1
        <3>2. x < m => x =< p
            BY Zenon, <2>4
        <3>3. QED
            BY <1>11, <2>5, <3>1, <3>2
    <2>7. Upto(p) = B
        BY Zenon, <2>6
    <2>8. p \in A
        BY Zenon, <1>3, <1>4, <2>1, <2>5, <2>7
    <2>9. m =< p
        BY Zenon, <1>10, <2>8
    <2>10. ~(p < m)
        <3>1. p \in Nat /\ m \in Nat
            BY Zenon, <1>11, <2>5
        <3> HIDE DEF A, B
        <3>2. QED
            BY <2>9, <3>1
    <2>11. QED
        BY Zenon, <2>5, <2>10
<1>15. Rank(I, m) = j
    <2> DEFINE r == Rank(I, m)
    <2>1. r \in Nat /\ r >= j /\ ~(r > j)
        BY Zenon, <1>4, <1>11, <1>14
    <2> HIDE DEF r
    <2>2. r = j
        BY <1>3, <2>1
    <2>3. QED
        BY Zenon, <2>2 DEF r
<1>16. QED
    BY Zenon, <1>11, <1>15

\* The position in s of the j-th of Elements(s, I).
PositionAt(I, j) == CHOOSE i \in I : Rank(I, i) = j

\* What Elements returns: as many elements as there are positions, each from a
\* position of its own.
LEMMA ElementsProperties ==
    ASSUME NEW S, NEW s \in Seq(S), NEW I \in SUBSET DOMAIN s
    PROVE  /\ Elements(s, I) \in Seq(S)
           /\ Len(Elements(s, I)) = Cardinality(I)
           /\ DOMAIN Elements(s, I) = 1 .. Cardinality(I)
           /\ \A j \in 1 .. Cardinality(I) :
                PositionAt(I, j) \in I /\ Elements(s, I)[j] = s[PositionAt(I, j)]
           /\ \A j, k \in 1 .. Cardinality(I) :
                PositionAt(I, j) = PositionAt(I, k) => j = k
<1> DEFINE n == Len(s)
           m == Cardinality(I)
<1>1. n \in Nat /\ DOMAIN s = 1 .. n
    BY Zenon, LenProperties
<1>2. m \in Nat
    BY Zenon, <1>1, PositionsFinite
<1>3. \A j \in 1 .. m : \E i \in I : Rank(I, i) = j
    BY Zenon, <1>1, RankExists
<1>4. \A j \in 1 .. m : PositionAt(I, j) \in I /\ Rank(I, PositionAt(I, j)) = j
    BY Zenon, <1>3 DEF PositionAt
<1>5. Elements(s, I) = [j \in 1 .. m |-> s[PositionAt(I, j)]]
    BY Zenon DEF Elements, PositionAt
<1> HIDE DEF m
<1>6. \A j \in 1 .. m : s[PositionAt(I, j)] \in S
    BY Zenon, <1>1, <1>4, ElementOfSeq
<1>7. Elements(s, I) \in [1 .. m -> S]
    BY Zenon, <1>5, <1>6
<1>8. Elements(s, I) \in Seq(S) /\ Len(Elements(s, I)) = m /\ DOMAIN Elements(s, I) = 1 .. m
    BY <1>2, <1>7, SeqDef, LenProperties
<1>9. \A j, k \in 1 .. m : PositionAt(I, j) = PositionAt(I, k) => j = k
    BY Zenon, <1>4
<1>10. \A j \in 1 .. m : Elements(s, I)[j] = s[PositionAt(I, j)]
    BY Zenon, <1>5
<1>11. QED
    BY Zenon, <1>4, <1>8, <1>9, <1>10 DEF m

\* What RemoveAt returns: the elements behind position i move down by one.
LEMMA RemoveAtProperties ==
    ASSUME NEW S, NEW s \in Seq(S), NEW i \in 1 .. Len(s)
    PROVE  /\ RemoveAt(s, i) \in Seq(S)
           /\ Len(RemoveAt(s, i)) = Len(s) - 1
           /\ \A j \in 1 .. Len(s) - 1 :
                RemoveAt(s, i)[j] = s[IF j < i THEN j ELSE j + 1]
<1> DEFINE n == Len(s)
           a == SubSeq(s, 1, i - 1)
           b == SubSeq(s, i + 1, n)
<1>1. n \in Nat /\ i \in 1 .. n /\ \A j \in 1 .. n : s[j] \in S
    BY Zenon, LenProperties, ElementOfSeq
<1> HIDE DEF n
<1>2. /\ a \in Seq(S) /\ Len(a) = i - 1
      /\ \A j \in 1 .. i - 1 : a[j] = s[j]
    <2>1. \A j \in 1 .. i - 1 : s[j] \in S
        BY <1>1
    <2>2. 1 \in Int /\ i - 1 \in Int
        BY <1>1
    <2>3. /\ a \in Seq(S) /\ Len(a) = IF 1 <= i - 1 THEN (i - 1) - 1 + 1 ELSE 0
          /\ \A j \in 1 .. (i - 1) - 1 + 1 : a[j] = s[1 + j - 1]
        BY <2>1, <2>2, SubSeqProperties
    <2>4. (i - 1) - 1 + 1 = i - 1 /\ \A j \in 1 .. i - 1 : 1 + j - 1 = j
        BY <1>1
    <2> HIDE DEF a
    <2>5. QED
        BY <1>1, <2>3, <2>4
<1>3. /\ b \in Seq(S) /\ Len(b) = n - i
      /\ \A j \in 1 .. n - i : b[j] = s[i + j]
    <2>1. \A j \in i + 1 .. n : s[j] \in S
        BY <1>1
    <2>2. i + 1 \in Int /\ n \in Int
        BY <1>1
    <2>3. /\ b \in Seq(S) /\ Len(b) = IF i + 1 <= n THEN n - (i + 1) + 1 ELSE 0
          /\ \A j \in 1 .. n - (i + 1) + 1 : b[j] = s[(i + 1) + j - 1]
        BY <2>1, <2>2, SubSeqProperties
    <2>4. n - (i + 1) + 1 = n - i /\ \A j \in 1 .. n - i : (i + 1) + j - 1 = i + j
        BY <1>1
    <2> HIDE DEF b
    <2>5. QED
        BY <1>1, <2>3, <2>4
<1>4. RemoveAt(s, i) = a \o b
    BY Zenon DEF RemoveAt, n
<1> HIDE DEF a, b
<1>5. /\ a \o b \in Seq(S) /\ Len(a \o b) = Len(a) + Len(b)
      /\ \A j \in 1 .. Len(a) + Len(b) : (a \o b)[j] = IF j <= Len(a) THEN a[j] ELSE b[j - Len(a)]
    BY Zenon, <1>2, <1>3, ConcatProperties
<1>6. Len(a) + Len(b) = n - 1
    BY <1>1, <1>2, <1>3
<1>7. ASSUME NEW j \in 1 .. n - 1
      PROVE  (a \o b)[j] = s[IF j < i THEN j ELSE j + 1]
    <2>1. CASE j < i
        <3>1. j <= Len(a) /\ j \in 1 .. i - 1 /\ j \in 1 .. Len(a) + Len(b)
            BY <1>1, <1>2, <1>6, <2>1
        <3>2. QED
            BY Zenon, <1>2, <1>5, <2>1, <3>1
    <2>2. CASE ~(j < i)
        <3>1. ~(j <= Len(a)) /\ j \in 1 .. Len(a) + Len(b) /\ j - Len(a) \in 1 .. n - i
              /\ i + (j - Len(a)) = j + 1
            BY <1>1, <1>2, <1>6, <2>2
        <3>2. (a \o b)[j] = b[j - Len(a)]
            BY Zenon, <1>5, <3>1
        <3>3. b[j - Len(a)] = s[j + 1]
            BY Zenon, <1>3, <3>1
        <3>4. QED
            BY Zenon, <2>2, <3>2, <3>3
    <2>3. QED
        BY Zenon, <2>1, <2>2
<1>8. QED
    BY Zenon, <1>4, <1>5, <1>6, <1>7 DEF n

-----------------------------------------------------------------------------
\* A bucket with the nodes s.
BucketWith(s) == [nodes |-> s, verified |-> <<>>, unverified |-> <<>>]

\* A bucket is its nodes.
LEMMA BucketIs ==
    ASSUME NEW k \in Bucket, NEW s \in Seq(RoutingNode)
    PROVE  /\ k = BucketWith(k.nodes) /\ k.nodes \in Seq(RoutingNode)
           /\ BucketWith(s) \in Bucket /\ BucketWith(s).nodes = s
           /\ [k EXCEPT !.nodes = s] = BucketWith(s)
<1>1. k.nodes \in Seq(RoutingNode) /\ k.verified = <<>> /\ k.unverified = <<>>
    BY Zenon DEF Bucket
<1>2. k = BucketWith(k.nodes)
    BY Zenon, <1>1 DEF Bucket, BucketWith
<1>3. BucketWith(s) \in Bucket /\ BucketWith(s).nodes = s
    BY Zenon DEF Bucket, BucketWith
<1>4. [k EXCEPT !.nodes = s] = BucketWith(s)
    BY <1>1 DEF Bucket, BucketWith
<1>5. QED
    BY Zenon, <1>1, <1>2, <1>3, <1>4

\* A bucket by its fields, and with some of them replaced.
Fields(s, p, q) == [nodes |-> s, verified |-> p, unverified |-> q]

WithCandidates(k, x, y) == [k EXCEPT !.verified = x, !.unverified = y]
WithVerified(k, u, x) == [k EXCEPT !.nodes = u, !.verified = x]
WithAll(k, u, x, y) == [k EXCEPT !.nodes = u, !.verified = x, !.unverified = y]

\* What replacing two or three fields of a bucket gives.
LEMMA BucketExcept ==
    ASSUME NEW s, NEW p, NEW q, NEW u, NEW x, NEW y
    PROVE  /\ WithCandidates(Fields(s, p, q), x, y) = Fields(s, x, y)
           /\ WithVerified(Fields(s, p, q), u, x) = Fields(u, x, q)
           /\ WithAll(Fields(s, p, q), u, x, y) = Fields(u, x, y)
<1> USE DEF Fields
<1> DEFINE k == Fields(s, p, q)
           kv == [nodes |-> s, verified |-> x, unverified |-> q]
           kn == [nodes |-> u, verified |-> p, unverified |-> q]
           knv == [nodes |-> u, verified |-> x, unverified |-> q]
<1>1. /\ [k EXCEPT !.verified = x, !.unverified = y]
           = [[k EXCEPT !.verified = x] EXCEPT !.unverified = y]
      /\ [k EXCEPT !.nodes = u, !.verified = x] = [[k EXCEPT !.nodes = u] EXCEPT !.verified = x]
      /\ [k EXCEPT !.nodes = u, !.verified = x, !.unverified = y]
           = [[[k EXCEPT !.nodes = u] EXCEPT !.verified = x] EXCEPT !.unverified = y]
    BY Zenon
<1>2. [k EXCEPT !.verified = x] = kv /\ [k EXCEPT !.nodes = u] = kn
    OBVIOUS
<1>3. [kv EXCEPT !.unverified = y] = [nodes |-> s, verified |-> x, unverified |-> y]
    OBVIOUS
<1>4. [kn EXCEPT !.verified = x] = knv
    OBVIOUS
<1>5. [knv EXCEPT !.unverified = y] = [nodes |-> u, verified |-> x, unverified |-> y]
    OBVIOUS
<1> HIDE DEF k, kv, kn, knv
<1>6. [k EXCEPT !.verified = x, !.unverified = y] = [nodes |-> s, verified |-> x, unverified |-> y]
    BY Zenon, <1>1, <1>2, <1>3
<1>7. [k EXCEPT !.nodes = u, !.verified = x] = knv
    BY Zenon, <1>1, <1>2, <1>4
<1>8. [k EXCEPT !.nodes = u, !.verified = x, !.unverified = y]
        = [nodes |-> u, verified |-> x, unverified |-> y]
    BY Zenon, <1>1, <1>2, <1>4, <1>5
<1>9. WithCandidates(k, x, y) = Fields(s, x, y)
    BY Zenon, <1>6 DEF WithCandidates
<1>10. WithVerified(k, u, x) = Fields(u, x, q)
    BY Zenon, <1>7 DEF WithVerified, knv
<1>11. WithAll(k, u, x, y) = Fields(u, x, y)
    BY Zenon, <1>8 DEF WithAll
<1>12. QED
    BY Zenon, <1>9, <1>10, <1>11 DEF k

\* A function from 1 .. n is a sequence.
LEMMA FunIsSeq ==
    ASSUME NEW T, NEW n \in Nat, NEW f \in [1 .. n -> T]
    PROVE  f \in Seq(T) /\ Len(f) = n /\ DOMAIN f = 1 .. n
OBVIOUS

\* The contacts in the table are those of its buckets.
LEMMA InTableIs ==
    ASSUME NEW bs, NEW x
    PROVE  x \in InTable(bs) <=> \E b \in DOMAIN bs : x \in ContactsOf(bs[b].nodes)
BY DEF InTable, ContactsOf, ToSet

\* What Position finds: the contact, or 0 if it is not there.
LEMMA PositionProperties ==
    ASSUME NEW s \in Seq(RoutingNode), NEW c
    PROVE  \/ Position(s, c) = 0 /\ c \notin ContactsOf(s)
           \/ Position(s, c) \in 1 .. Len(s) /\ s[Position(s, c)].contact = c
<1> DEFINE I == {i \in 1 .. Len(s) : s[i].contact = c}
<1>1. Position(s, c) = IF I # {} THEN Min(I) ELSE 0
    BY Zenon DEF Position, SelectInSeq
<1>2. I \in SUBSET Nat /\ DOMAIN s = 1 .. Len(s)
    BY LenProperties
<1>3. CASE I = {}
    BY Zenon, <1>1, <1>2, <1>3 DEF ContactsOf
<1>4. CASE I # {}
    <2>1. Min(I) \in I
        BY Zenon, <1>2, <1>4, MinOfNats
    <2>2. QED
        BY Zenon, <1>1, <1>4, <2>1
<1>5. QED
    BY Zenon, <1>3, <1>4

\* What FirstBad finds: a node, or 0 if all of them are good.
LEMMA FirstBadProperties ==
    ASSUME NEW s \in Seq(RoutingNode)
    PROVE  \/ FirstBad(s) = 0 /\ \A i \in DOMAIN s : is_good(s[i])
           \/ FirstBad(s) \in 1 .. Len(s)
<1> DEFINE I == {i \in 1 .. Len(s) : ~is_good(s[i])}
<1>1. FirstBad(s) = IF I # {} THEN Min(I) ELSE 0
    BY Zenon DEF FirstBad, SelectInSeq
<1>2. I \in SUBSET Nat /\ DOMAIN s = 1 .. Len(s)
    BY LenProperties
<1>3. CASE I = {}
    BY Zenon, <1>1, <1>2, <1>3
<1>4. CASE I # {}
    <2>1. Min(I) \in I
        BY Zenon, <1>2, <1>4, MinOfNats
    <2>2. QED
        BY Zenon, <1>1, <1>4, <2>1
<1>5. QED
    BY Zenon, <1>3, <1>4

\* A node is added, or put in the place of another one with the same contact.
LEMMA AppendFits ==
    ASSUME NEW s \in Seq(RoutingNode), NEW m \in RoutingNode, NEW n, NEW b,
           Fits(s, n, b), BucketOf(n, m.contact.id, b), m.contact \notin ContactsOf(s)
    PROVE  /\ Append(s, m) \in Seq(RoutingNode)
           /\ Fits(Append(s, m), n, b)
           /\ Len(Append(s, m)) = Len(s) + 1
           /\ ContactsOf(Append(s, m)) \subseteq ContactsOf(s) \cup {m.contact}
<1> DEFINE t == Append(s, m)
<1>1. /\ t \in Seq(RoutingNode) /\ Len(t) = Len(s) + 1 /\ Len(s) \in Nat
      /\ DOMAIN s = 1 .. Len(s) /\ DOMAIN t = 1 .. Len(s) + 1
      /\ \A i \in 1 .. Len(s) : t[i] = s[i]
      /\ t[Len(s) + 1] = m
    OBVIOUS
<1> HIDE DEF t
<1>2. \A i \in DOMAIN t : (i \in DOMAIN s /\ t[i] = s[i]) \/ (i = Len(s) + 1 /\ t[i] = m)
    BY <1>1
<1>3. \A i \in DOMAIN s : s[i].contact \in ContactsOf(s) /\ s[i].contact # m.contact
    BY Zenon DEF ContactsOf
<1>4. Distinct(t)
    BY Zenon, <1>2, <1>3 DEF Fits, Distinct
<1>5. \A i \in DOMAIN t : BucketOf(n, t[i].contact.id, b)
    BY Zenon, <1>2 DEF Fits
<1>6. ContactsOf(t) \subseteq ContactsOf(s) \cup {m.contact}
    BY Zenon, <1>2 DEF ContactsOf
<1>7. QED
    BY Zenon, <1>1, <1>4, <1>5, <1>6 DEF Fits, t

\* A node is removed.
LEMMA RemoveFits ==
    ASSUME NEW s \in Seq(RoutingNode), NEW i \in 1 .. Len(s), NEW n, NEW b, Fits(s, n, b)
    PROVE  /\ RemoveAt(s, i) \in Seq(RoutingNode)
           /\ Fits(RemoveAt(s, i), n, b)
           /\ Len(RemoveAt(s, i)) = Len(s) - 1
           /\ ContactsOf(RemoveAt(s, i)) \subseteq ContactsOf(s) \ {s[i].contact}
<1> DEFINE t == RemoveAt(s, i)
           f(j) == IF j < i THEN j ELSE j + 1
<1>1. /\ t \in Seq(RoutingNode) /\ Len(t) = Len(s) - 1
      /\ \A j \in 1 .. Len(s) - 1 : t[j] = s[f(j)]
    BY Zenon, RemoveAtProperties
<1>2. Len(s) \in Nat /\ DOMAIN s = 1 .. Len(s) /\ DOMAIN t = 1 .. Len(s) - 1
    BY Zenon, <1>1, LenProperties
<1>3. \A j \in DOMAIN t : f(j) \in DOMAIN s \ {i}
    BY <1>2
<1>4. \A j, k \in DOMAIN t : f(j) = f(k) => j = k
    BY <1>2
<1> HIDE DEF t, f
<1>5. \A j \in DOMAIN t : t[j] = s[f(j)]
    BY Zenon, <1>1, <1>2
<1>6. Distinct(t)
    BY Zenon, <1>3, <1>4, <1>5 DEF Fits, Distinct
<1>7. \A j \in DOMAIN t : BucketOf(n, t[j].contact.id, b)
    BY Zenon, <1>3, <1>5 DEF Fits
<1>8. ContactsOf(t) \subseteq ContactsOf(s) \ {s[i].contact}
    <2>1. i \in DOMAIN s
        BY Zenon, <1>2
    <2>2. QED
        BY <1>3, <1>5, <2>1 DEF Fits, Distinct, ContactsOf
<1>9. QED
    BY Zenon, <1>1, <1>6, <1>7, <1>8 DEF Fits, t

\* Those of s that belong to bucket b, as move_elements leaves or moves them.
LEMMA ElementsFit ==
    ASSUME NEW s \in Seq(RoutingNode), Distinct(s), NEW I \in SUBSET DOMAIN s,
           NEW n, NEW b, \A i \in I : BucketOf(n, s[i].contact.id, b)
    PROVE  /\ Elements(s, I) \in Seq(RoutingNode)
           /\ Fits(Elements(s, I), n, b)
           /\ Len(Elements(s, I)) = Cardinality(I)
           /\ ContactsOf(Elements(s, I)) \subseteq ContactsOf(s)
<1> DEFINE t == Elements(s, I)
           m == Cardinality(I)
           f(j) == PositionAt(I, j)
<1>1. t \in Seq(RoutingNode) /\ Len(t) = m /\ DOMAIN t = 1 .. m
    BY Zenon, ElementsProperties
<1>2. /\ \A j \in 1 .. m : f(j) \in I /\ t[j] = s[f(j)]
      /\ \A j, k \in 1 .. m : f(j) = f(k) => j = k
    BY ElementsProperties
<1> HIDE DEF t, m, f
<1>3. \A j \in DOMAIN t : t[j] = s[f(j)] /\ f(j) \in I /\ f(j) \in DOMAIN s
    BY Zenon, <1>1, <1>2
<1>4. Distinct(t)
    BY <1>1, <1>2, <1>3 DEF Distinct
<1>5. \A j \in DOMAIN t : BucketOf(n, t[j].contact.id, b)
    BY Zenon, <1>3
<1>6. ContactsOf(t) \subseteq ContactsOf(s)
    BY Zenon, <1>3 DEF ContactsOf
<1>7. QED
    BY Zenon, <1>1, <1>4, <1>5, <1>6 DEF Fits, t, m

\* Nothing is taken out of an empty list.
LEMMA NoElements ==
    ASSUME NEW I, I \subseteq DOMAIN <<>>
    PROVE  Elements(<<>>, I) = <<>>
<1>1. I = {} /\ Cardinality(I) = 0
    BY FS_EmptySet
<1>2. QED
    BY <1>1 DEF Elements

\* One bucket of a table is replaced.
LEMMA ReplaceBucket ==
    ASSUME NEW bs, Sound(bs), NEW b \in 1 .. Len(bs), NEW s \in Seq(RoutingNode),
           Fits(s, Len(bs), b), Len(s) <= BUCKET_SIZE,
           NEW t, t = [bs EXCEPT ![b] = BucketWith(s)]
    PROVE  /\ Sound(t) /\ t # <<>>
           /\ InTable(t) \subseteq InTable(bs) \cup ContactsOf(s)
<1>1. bs \in Seq(Bucket) /\ BucketWith(s) \in Bucket /\ BucketWith(s).nodes = s
    BY Zenon, BucketIs DEF Sound, Bucket, BucketWith
<1>2. /\ t \in Seq(Bucket) /\ Len(t) = Len(bs) /\ Len(bs) \in Nat
      /\ DOMAIN t = 1 .. Len(bs) /\ DOMAIN bs = 1 .. Len(bs)
      /\ \A i \in 1 .. Len(bs) : t[i] = IF i = b THEN BucketWith(s) ELSE bs[i]
    BY <1>1
<1>3. Sound(t)
    BY Zenon, <1>1, <1>2 DEF Sound
<1>4. t # <<>>
    BY <1>2
<1>5. InTable(t) \subseteq InTable(bs) \cup ContactsOf(s)
    BY Zenon, <1>1, <1>2, InTableIs
<1>6. QED
    BY Zenon, <1>3, <1>4, <1>5

\* Bucket b is the one of c and is to be split for it.
Splits(bs, b, c, new) ==
    /\ Sound(bs) /\ b \in 1 .. Len(bs) /\ c \in AnyContact
    /\ BucketOf(Len(bs), c.id, b) /\ c \notin ContactsOf(bs[b].nodes)
    /\ would_split_bucket(bs, b, c.id)
    /\ new \in RoutingNode /\ new.contact = c

\* bs with new in its bucket b.
Filled(bs, b, new) == [bs EXCEPT ![b] = BucketWith(Append(bs[b].nodes, new))]

\* The last bucket is split: each half gets those that find_bucket_id finds in it
\* from now on, and none of the halves is too large.
LEMMA SplitSound ==
    ASSUME NEW bs, NEW b, NEW c, NEW new, Splits(bs, b, c, new),
           NEW t, t = Filled(bs, b, new)
    PROVE  /\ b = Len(bs)
           /\ Sound(split_bucket(t, b)) /\ split_bucket(t, b) # <<>>
           /\ InTable(split_bucket(t, b)) \subseteq InTable(bs) \cup {c}
<1> DEFINE L == Len(bs)
           s == bs[b].nodes
           J == {i \in DOMAIN s : WithinHalf(b, s[i].contact.id)}
           u == Append(s, new)
           K == {i \in DOMAIN u : WithinHalf(b, u[i].contact.id)}
           one == IF WithinHalf(b, c.id) THEN 1 ELSE 0
<1> USE DEF Splits, Filled
<1>1. /\ bs \in Seq(Bucket) /\ bs[b] \in Bucket /\ s \in Seq(RoutingNode) /\ L \in Nat
      /\ Fits(s, L, b) /\ Len(s) <= BUCKET_SIZE /\ Len(s) \in Nat /\ DOMAIN s = 1 .. Len(s)
    <2>1. bs \in Seq(Bucket) /\ L \in Nat /\ Fits(s, L, b) /\ Len(s) <= BUCKET_SIZE
        BY DEF Sound
    <2>2. bs[b] \in Bucket
        BY Zenon, <2>1, ElementOfSeq
    <2>3. s \in Seq(RoutingNode)
        BY Zenon, <2>2 DEF Bucket
    <2> HIDE DEF s
    <2>4. QED
        BY Zenon, <2>1, <2>2, <2>3, LenProperties
<1>2. Len(s) >= BUCKET_SIZE /\ Cardinality(J) + one \in 1 .. BUCKET_SIZE
    BY Zenon DEF would_split_bucket
<1>3. BUCKET_SIZE \in Nat /\ Len(s) = BUCKET_SIZE
    BY <1>1, <1>2, TableAssumption
<1>4. b = L
    <2> SUFFICES ASSUME b # L PROVE FALSE
        BY Zenon
    <2>1. b < L
        BY <1>1
    <2>2. ~WithinHalf(b, c.id)
        BY Zenon, <2>1 DEF BucketOf, WithinHalf
    <2>3. \A i \in DOMAIN s : ~WithinHalf(b, s[i].contact.id)
        BY Zenon, <1>1, <2>1 DEF Fits, BucketOf, WithinHalf
    <2>4. J = {}
        BY Zenon, <2>3
    <2>5. Cardinality(J) = 0
        BY Zenon, <2>4, FS_EmptySet
    <2>6. Cardinality(J) + one = 0
        BY <2>2, <2>5
    <2>7. QED
        BY <1>2, <2>6
<1>5. /\ u \in Seq(RoutingNode) /\ Fits(u, L, b) /\ Len(u) = Len(s) + 1
      /\ ContactsOf(u) \subseteq ContactsOf(s) \cup {c}
    BY Zenon, <1>1, AppendFits
<1>6. /\ DOMAIN u = 1 .. Len(s) + 1 /\ u[Len(s) + 1] = new
      /\ \A i \in 1 .. Len(s) : u[i] = s[i]
    BY <1>1
<1> HIDE DEF u
<1>7. J \subseteq 1 .. Len(s) /\ IsFiniteSet(J) /\ Cardinality(J) \in Nat
    BY Zenon, <1>1, PositionsFinite
<1>8. Cardinality(K) = Cardinality(J) + one
    <2>1. K = IF WithinHalf(b, c.id) THEN J \cup {Len(s) + 1} ELSE J
        <3>1. \A i \in DOMAIN u : i \in DOMAIN s \/ i = Len(s) + 1
            BY <1>1, <1>6
        <3>2. \A i \in DOMAIN s : i \in DOMAIN u /\ u[i] = s[i]
            BY <1>1, <1>6
        <3>3. Len(s) + 1 \in DOMAIN u /\ u[Len(s) + 1].contact.id = c.id
            BY <1>1, <1>6
        <3>4. QED
            BY Zenon, <3>1, <3>2, <3>3
    <2>2. Len(s) + 1 \notin J
        BY <1>1
    <2> HIDE DEF J, K
    <2>3. Cardinality(J \cup {Len(s) + 1}) = Cardinality(J) + 1
        BY Zenon, <1>7, <2>2, FS_AddElement
    <2>4. QED
        BY <1>7, <2>1, <2>3
<1>9. K \subseteq 1 .. Len(s) + 1
    BY Zenon, <1>6
<1> DEFINE R == DOMAIN u \ K
<1>10. Cardinality(R) = (Len(s) + 1) - Cardinality(K)
    <2>1. IsFiniteSet(DOMAIN u) /\ Cardinality(DOMAIN u) = Len(s) + 1
        <3>1. 1 \in Int /\ Len(s) + 1 \in Int
            BY <1>1
        <3> DEFINE n == Len(s) + 1
        <3>2. n \in Int /\ ~(1 > n) /\ n - 1 + 1 = n
            BY <1>1
        <3> HIDE DEF n
        <3>3. IsFiniteSet(1 .. n) /\ Cardinality(1 .. n) = IF 1 > n THEN 0 ELSE n - 1 + 1
            BY Zenon, <3>1, <3>2, FS_Interval
        <3>4. QED
            BY Zenon, <1>6, <3>2, <3>3 DEF n
    <2>2. DOMAIN u \cap K = K
        BY Zenon
    <2> HIDE DEF K
    <2>3. Cardinality(DOMAIN u \ K) = Cardinality(DOMAIN u) - Cardinality(DOMAIN u \cap K)
        BY Zenon, <2>1, FS_Difference
    <2>4. Cardinality(DOMAIN u \ K) = Cardinality(DOMAIN u) - Cardinality(K)
        BY Zenon, <2>2, <2>3
    <2>5. R = DOMAIN u \ K
        BY Zenon
    <2> HIDE DEF R, s
    <2>6. Cardinality(R) = Cardinality(DOMAIN u) - Cardinality(K)
        BY Zenon, <2>4, <2>5
    <2>7. QED
        BY Zenon, <2>1, <2>6
<1>11. Cardinality(K) <= BUCKET_SIZE /\ Cardinality(R) <= BUCKET_SIZE
    <2> DEFINE k == Cardinality(K)
    <2> HIDE DEF k
    <2>1. k \in 1 .. BUCKET_SIZE /\ Cardinality(R) = (BUCKET_SIZE + 1) - k
        BY Zenon, <1>2, <1>3, <1>8, <1>10 DEF k
    <2>2. QED
        BY <1>3, <2>1 DEF k
<1>12. \A i \in K : BucketOf(L + 1, u[i].contact.id, L + 1)
    <2> SUFFICES ASSUME NEW i \in K PROVE BucketOf(L + 1, u[i].contact.id, L + 1)
        BY Zenon
    <2>1. BucketOf(L, u[i].contact.id, L) /\ u[i].contact.id <= max_distance(L + 1)
        BY Zenon, <1>4, <1>5 DEF Fits, WithinHalf
    <2>2. \A j \in 2 .. L + 1 : j \in 2 .. L \/ j = L + 1
        BY <1>1
    <2>3. QED
        BY <1>1, <2>1, <2>2 DEF BucketOf
<1>13. \A i \in R : BucketOf(L + 1, u[i].contact.id, L)
    <2> SUFFICES ASSUME NEW i \in R PROVE BucketOf(L + 1, u[i].contact.id, L)
        BY Zenon
    <2>1. BucketOf(L, u[i].contact.id, L) /\ ~(u[i].contact.id <= max_distance(L + 1))
        BY Zenon, <1>4, <1>5 DEF Fits, WithinHalf
    <2>2. QED
        BY <1>1, <2>1 DEF BucketOf
<1> DEFINE old == Elements(u, R)
           far == Elements(u, K)
           v == [bs EXCEPT ![b] = BucketWith(old)]
<1>14. /\ old \in Seq(RoutingNode) /\ Fits(old, L + 1, L) /\ Len(old) <= BUCKET_SIZE
       /\ ContactsOf(old) \subseteq ContactsOf(u)
    <2>1. R \in SUBSET DOMAIN u /\ Distinct(u)
        BY Zenon, <1>5 DEF Fits
    <2> HIDE DEF R
    <2>2. QED
        BY Zenon, <1>5, <1>11, <1>13, <2>1, ElementsFit
<1>15. /\ far \in Seq(RoutingNode) /\ Fits(far, L + 1, L + 1) /\ Len(far) <= BUCKET_SIZE
       /\ ContactsOf(far) \subseteq ContactsOf(u)
    <2>1. K \in SUBSET DOMAIN u /\ Distinct(u)
        BY Zenon, <1>5 DEF Fits
    <2> HIDE DEF K
    <2>2. QED
        BY Zenon, <1>5, <1>11, <1>12, <2>1, ElementsFit
<1>16. split_bucket(t, b) = Append(v, BucketWith(far))
    <2>1. t \in Seq(Bucket) /\ t[b] = BucketWith(u) /\ [t EXCEPT ![b] = BucketWith(old)] = v
        <3>1. BucketWith(u) \in Bucket
            BY Zenon, <1>5 DEF BucketWith, Bucket
        <3>2. t = [bs EXCEPT ![b] = BucketWith(u)]
            BY Zenon DEF u
        <3>3. \A x, y : [[bs EXCEPT ![b] = x] EXCEPT ![b] = y] = [bs EXCEPT ![b] = y]
            BY Zenon, <1>1
        <3> HIDE DEF old
        <3>4. t \in Seq(Bucket)
            BY <1>1, <3>1, <3>2
        <3>5. t[b] = BucketWith(u)
            BY <1>1, <3>2
        <3>6. [t EXCEPT ![b] = BucketWith(old)] = v
            BY Zenon, <3>2, <3>3
        <3>7. QED
            BY Zenon, <3>4, <3>5, <3>6
    <2>2. /\ BucketWith(u).nodes = u /\ BucketWith(u).verified = <<>>
          /\ BucketWith(u).unverified = <<>>
        BY Zenon DEF BucketWith
    <2>3. \A I : I \subseteq DOMAIN <<>> => Elements(<<>>, I) = <<>>
        BY Zenon, NoElements
    <2> HIDE DEF v
    <2>4. QED
        BY Zenon, <2>1, <2>2, <2>3 DEF split_bucket, BucketWith, old, far, R, K
<1> HIDE DEF old, far, K, R, J
<1> DEFINE r == Append(v, BucketWith(far))
<1>17. BucketWith(old) \in Bucket /\ BucketWith(far) \in Bucket
    BY Zenon, <1>14, <1>15 DEF BucketWith, Bucket
<1>18. /\ v \in Seq(Bucket) /\ Len(v) = L /\ DOMAIN v = 1 .. L
       /\ \A i \in 1 .. L : v[i] = IF i = b THEN BucketWith(old) ELSE bs[i]
    BY <1>1, <1>17
<1> HIDE DEF v
<1>19. /\ r \in Seq(Bucket) /\ Len(r) = L + 1 /\ DOMAIN r = 1 .. L + 1 /\ r # <<>>
       /\ \A i \in 1 .. L : r[i] = v[i]
       /\ r[L + 1] = BucketWith(far)
    BY <1>1, <1>17, <1>18
<1> HIDE DEF r
<1> DEFINE Before(i) == i \in 1 .. L /\ i < L /\ r[i] = bs[i]
           Old(i) == i = L /\ r[i].nodes = old
           New(i) == i = L + 1 /\ r[i].nodes = far
<1>20. \A i \in 1 .. L + 1 : Before(i) \/ Old(i) \/ New(i)
    <2> SUFFICES ASSUME NEW i \in 1 .. L + 1 PROVE Before(i) \/ Old(i) \/ New(i)
        BY Zenon
    <2>1. BucketWith(old).nodes = old /\ BucketWith(far).nodes = far
        BY Zenon DEF BucketWith
    <2>2. i < L \/ i = L \/ i = L + 1
        BY <1>1
    <2>3. CASE i < L
        <3>1. i \in 1 .. L /\ i # b
            BY <1>1, <1>4, <2>3
        <3>2. QED
            BY Zenon, <1>18, <1>19, <2>3, <3>1
    <2>4. CASE i = L
        <3>1. i \in 1 .. L /\ i = b
            BY Zenon, <1>1, <1>4, <2>4
        <3>2. QED
            BY Zenon, <1>18, <1>19, <2>1, <2>4, <3>1
    <2>5. CASE i = L + 1
        BY Zenon, <1>19, <2>1, <2>5
    <2>6. QED
        BY Zenon, <2>2, <2>3, <2>4, <2>5
<1>21. \A i \in 1 .. L : \A id : BucketOf(L, id, i) /\ i < L => BucketOf(L + 1, id, i)
    BY <1>1 DEF BucketOf
<1>22. \A i \in 1 .. L + 1 : Fits(r[i].nodes, L + 1, i) /\ Len(r[i].nodes) <= BUCKET_SIZE
    <2> SUFFICES ASSUME NEW i \in 1 .. L + 1
                 PROVE  Fits(r[i].nodes, L + 1, i) /\ Len(r[i].nodes) <= BUCKET_SIZE
        BY Zenon
    <2>1. CASE i \in 1 .. L /\ i < L /\ r[i] = bs[i]
        <3>1. Fits(bs[i].nodes, L, i) /\ Len(bs[i].nodes) <= BUCKET_SIZE
            BY Zenon, <2>1 DEF Sound
        <3>2. Fits(bs[i].nodes, L + 1, i)
            BY Zenon, <1>21, <2>1, <3>1 DEF Fits
        <3>3. QED
            BY Zenon, <2>1, <3>1, <3>2
    <2>2. CASE i = L /\ r[i].nodes = old
        BY Zenon, <1>14, <2>2
    <2>3. CASE i = L + 1 /\ r[i].nodes = far
        BY Zenon, <1>15, <2>3
    <2>4. QED
        BY Zenon, <1>20, <2>1, <2>2, <2>3
<1>23. Sound(r)
    BY Zenon, <1>19, <1>22 DEF Sound
<1>24. InTable(r) \subseteq InTable(bs) \cup {c}
    <2> SUFFICES ASSUME NEW x \in InTable(r) PROVE x \in InTable(bs) \cup {c}
        BY Zenon
    <2>1. PICK i \in 1 .. L + 1 : x \in ContactsOf(r[i].nodes)
        BY Zenon, <1>19, InTableIs
    <2>2. DOMAIN bs = 1 .. L /\ b \in DOMAIN bs
        BY <1>1
    <2>3. x \in ContactsOf(s) => x \in InTable(bs)
        BY Zenon, <2>2, InTableIs
    <2> HIDE DEF s
    <2>4. CASE i \in 1 .. L /\ r[i] = bs[i]
        BY Zenon, <2>1, <2>2, <2>4, InTableIs
    <2>5. CASE r[i].nodes = old \/ r[i].nodes = far
        BY Zenon, <1>5, <1>14, <1>15, <2>1, <2>3, <2>5
    <2>6. QED
        BY Zenon, <1>20, <2>4, <2>5
<1>25. QED
    BY Zenon, <1>4, <1>16, <1>19, <1>23, <1>24 DEF r

-----------------------------------------------------------------------------
\* The nodes change, their contacts do not.
LEMMA SameContacts ==
    ASSUME NEW s \in Seq(RoutingNode), NEW t \in Seq(RoutingNode), Len(t) = Len(s),
           \A i \in 1 .. Len(s) : t[i].contact = s[i].contact,
           NEW n, NEW b, Fits(s, n, b)
    PROVE  Fits(t, n, b) /\ ContactsOf(t) = ContactsOf(s)
<1>1. DOMAIN t = DOMAIN s /\ \A i \in DOMAIN s : t[i].contact = s[i].contact
    BY Zenon, LenProperties
<1>2. ContactsOf(t) = ContactsOf(s)
    BY Zenon, <1>1 DEF ContactsOf
<1>3. Fits(t, n, b)
    BY Zenon, <1>1 DEF Fits, Distinct
<1>4. QED
    BY Zenon, <1>2, <1>3

\* The number of questionable nodes is a number.
LEMMA QuestionableIsNat ==
    ASSUME NEW s \in Seq(RoutingNode)
    PROVE  Questionable(s) \in Nat
<1>1. Len(s) \in Nat /\ DOMAIN s = 1 .. Len(s)
    BY Zenon, LenProperties
<1>2. {i \in DOMAIN s : is_questionable(s[i])} \in SUBSET 1 .. Len(s)
    BY Zenon, <1>1
<1>3. QED
    BY Zenon, <1>1, <1>2, PositionsFinite DEF Questionable

\* There are no candidates to trim or to erase.
LEMMA TrimNone ==
    ASSUME NEW s \in Seq(RoutingNode)
    PROVE  Trim(BucketWith(s)) = BucketWith(s)
<1> DEFINE q == Questionable(s)
           e == <<>>
<1>1. q \in Nat
    BY Zenon, QuestionableIsNat
<1> HIDE DEF q
<1>2. Len(e) = 0 /\ Newest(e, q) = e /\ Newest(e, q - 0) = e
    BY <1>1 DEF Newest
<1> DEFINE k == BucketWith(s)
           v == Newest(k.verified, Questionable(k.nodes))
<1>3. /\ k.nodes = s /\ k.verified = e /\ k.unverified = e
      /\ k = [nodes |-> s, verified |-> e, unverified |-> e]
    BY Zenon DEF BucketWith
<1> HIDE DEF e, k
<1>4. Trim(k) = [k EXCEPT !.verified = v,
                          !.unverified = Newest(k.unverified, Questionable(k.nodes) - Len(v))]
    BY Zenon DEF Trim
<1>5. v = e
    BY Zenon, <1>2, <1>3 DEF q
<1> HIDE DEF v
<1>6. Newest(k.unverified, Questionable(k.nodes) - Len(v)) = e
    BY Zenon, <1>2, <1>3, <1>5 DEF q
<1>7. Trim(k) = k
    <2>1. [k EXCEPT !.verified = e, !.unverified = e] = k
        <3>1. k = Fields(s, e, e)
            BY Zenon, <1>3 DEF Fields
        <3>2. WithCandidates(k, e, e) = k
            BY <3>1, BucketExcept
        <3>3. QED
            BY Zenon, <3>2 DEF WithCandidates
    <2>2. QED
        BY Zenon, <1>4, <1>5, <1>6, <2>1
<1>8. QED
    BY Zenon, <1>7 DEF k

\* There is nothing in front of an empty list.
LEMMA EraseNone == erase_front_questionables(<<>>) = <<>>
<1> DEFINE I == {i \in 1 .. Len(<<>>) : ~is_questionable(<<>>[i])}
<1>1. SelectInSeq(<<>>, LAMBDA n : ~is_questionable(n)) = IF I # {} THEN Min(I) ELSE 0
    BY Zenon DEF SelectInSeq
<1>2. I = {}
    OBVIOUS
<1>3. QED
    BY Zenon, <1>1, <1>2 DEF erase_front_questionables

\* A known contact is heard from.
LEMMA BumpSound ==
    ASSUME NEW k \in Bucket, NEW n, NEW b, Fits(k.nodes, n, b),
           NEW i \in 1 .. Len(k.nodes), NEW v \in BOOLEAN
    PROVE  \E s \in Seq(RoutingNode) :
             /\ Bump(k, i, v) = BucketWith(s)
             /\ Fits(s, n, b) /\ Len(s) = Len(k.nodes)
             /\ ContactsOf(s) \subseteq ContactsOf(k.nodes)
<1> DEFINE s == k.nodes
           rest == RemoveAt(s, i)
           m == IF v THEN NewNode(s[i].contact) ELSE [s[i] EXCEPT !.recent = TRUE]
           u == Append(rest, m)
<1>1. s \in Seq(RoutingNode) /\ Len(s) \in Nat /\ i \in DOMAIN s
    <2>1. s \in Seq(RoutingNode)
        BY Zenon DEF Bucket
    <2>2. QED
        BY Zenon, <2>1, LenProperties
<1>2. s[i] \in RoutingNode
    BY Zenon, <1>1, ElementOfSeq
<1>3. m \in RoutingNode /\ m.contact = s[i].contact
    BY Zenon, <1>2 DEF RoutingNode, NewNode
<1>4. Bump(k, i, v) = [k EXCEPT !.nodes = u]
    BY Zenon DEF Bump
<1> HIDE DEF m
<1>5. /\ rest \in Seq(RoutingNode) /\ Fits(rest, n, b) /\ Len(rest) = Len(s) - 1
      /\ ContactsOf(rest) \subseteq ContactsOf(s) \ {s[i].contact}
    BY Zenon, <1>1, RemoveFits
<1>6. BucketOf(n, m.contact.id, b) /\ m.contact \notin ContactsOf(rest)
      /\ s[i].contact \in ContactsOf(s)
    BY Zenon, <1>1, <1>3, <1>5 DEF Fits, ContactsOf
<1> HIDE DEF rest
<1>7. /\ u \in Seq(RoutingNode) /\ Fits(u, n, b) /\ Len(u) = Len(rest) + 1
      /\ ContactsOf(u) \subseteq ContactsOf(rest) \cup {m.contact}
    BY Zenon, <1>3, <1>5, <1>6, AppendFits
<1> HIDE DEF u
<1>8. Bump(k, i, v) = BucketWith(u)
    BY Zenon, <1>4, <1>7, BucketIs
<1>9. Len(u) = Len(s) /\ ContactsOf(u) \subseteq ContactsOf(s)
    BY <1>1, <1>3, <1>5, <1>6, <1>7
<1>10. QED
    BY Zenon, <1>7, <1>8, <1>9

\* All nodes of the bucket are good: nobody is pinged, and there is no candidate.
LEMMA CandidateSound ==
    ASSUME NEW k \in Bucket, NEW n, NEW b, Fits(k.nodes, n, b),
           \A i \in DOMAIN k.nodes : is_good(k.nodes[i]), NEW c, NEW v \in BOOLEAN
    PROVE  \E s \in Seq(RoutingNode) :
             /\ Candidate(k, c, v) = BucketWith(s)
             /\ Fits(s, n, b) /\ Len(s) = Len(k.nodes)
             /\ ContactsOf(s) \subseteq ContactsOf(k.nodes)
<1> DEFINE s == k.nodes
           u == [i \in DOMAIN s |-> [s[i] EXCEPT !.ping = @ \/ is_questionable(s[i])]]
           q == Questionable(s)
<1>1. s \in Seq(RoutingNode) /\ Len(s) \in Nat /\ DOMAIN s = 1 .. Len(s)
    <2>1. s \in Seq(RoutingNode)
        BY Zenon DEF Bucket
    <2>2. QED
        BY Zenon, <2>1, LenProperties
<1>2. \A i \in DOMAIN s : s[i] \in RoutingNode
    BY Zenon, <1>1, ElementOfSeq
<1>3. \A x \in RoutingNode : /\ [x EXCEPT !.ping = @ \/ is_questionable(x)] \in RoutingNode
                             /\ [x EXCEPT !.ping = @ \/ is_questionable(x)].contact = x.contact
    BY Zenon DEF RoutingNode, is_questionable
<1>4. /\ u \in Seq(RoutingNode) /\ Len(u) = Len(s)
      /\ \A i \in 1 .. Len(s) : u[i].contact = s[i].contact
    BY <1>1, <1>2, <1>3
<1>5. q = 0
    <2>1. {i \in DOMAIN s : is_questionable(s[i])} = {}
        BY Zenon DEF is_good, is_questionable
    <2>2. QED
        BY Zenon, <2>1, FS_EmptySet DEF Questionable
<1>6. k = BucketWith(s)
    BY Zenon, <1>1, BucketIs
<1>7. Candidate(k, c, v) = Trim(BucketWith(u))
    <2> DEFINE e == <<>>
               node == [NewNode(c) EXCEPT !.replied = v]
    <2>1. k.verified = e /\ k.unverified = e /\ erase_front_questionables(e) = e /\ Len(e) = 0
        BY Zenon, EraseNone DEF Bucket
    <2> HIDE DEF e
    <2>2. Candidate(k, c, v) =
            Trim(IF v THEN [k EXCEPT !.nodes = u,
                                     !.verified = IF q > 0 THEN Append(@, node) ELSE @]
                 ELSE [k EXCEPT !.nodes = u,
                                !.verified = erase_front_questionables(k.verified),
                                !.unverified = IF Len(erase_front_questionables(k.verified)) < q
                                               THEN Append(@, node) ELSE @])
        BY Zenon DEF Candidate
    <2> HIDE DEF u, q, node
    <2>3. BucketWith(u) = [nodes |-> u, verified |-> e, unverified |-> e]
        BY Zenon DEF BucketWith, e
    <2>4. k = [nodes |-> s, verified |-> e, unverified |-> e]
        BY Zenon, <1>6 DEF BucketWith, e
    <2> HIDE DEF s
    <2>5. \A x, y : /\ [k EXCEPT !.nodes = u, !.verified = x]
                        = [nodes |-> u, verified |-> x, unverified |-> e]
                    /\ [k EXCEPT !.nodes = u, !.verified = x, !.unverified = y]
                        = [nodes |-> u, verified |-> x, unverified |-> y]
        <3>1. k = Fields(s, e, e)
            BY Zenon, <2>4 DEF Fields
        <3> TAKE x, y
        <3>2. WithVerified(k, u, x) = Fields(u, x, e) /\ WithAll(k, u, x, y) = Fields(u, x, y)
            BY <3>1, BucketExcept
        <3>3. [k EXCEPT !.nodes = u, !.verified = x] = Fields(u, x, e)
            BY Zenon, <3>2 DEF WithVerified
        <3>4. [k EXCEPT !.nodes = u, !.verified = x, !.unverified = y] = Fields(u, x, y)
            BY Zenon, <3>2 DEF WithAll
        <3>5. QED
            BY Zenon, <3>3, <3>4 DEF Fields
    <2>6. ~(q > 0) /\ ~(Len(erase_front_questionables(k.verified)) < q)
          /\ erase_front_questionables(k.verified) = e
        BY <1>5, <2>1
    <2>7. CASE v
        BY Zenon, <2>1, <2>2, <2>3, <2>5, <2>6, <2>7
    <2>8. CASE ~v
        BY Zenon, <2>1, <2>2, <2>3, <2>5, <2>6, <2>8
    <2>9. QED
        BY Zenon, <2>7, <2>8
<1> HIDE DEF u
<1>8. Trim(BucketWith(u)) = BucketWith(u)
    BY Zenon, <1>4, TrimNone
<1>9. Fits(u, n, b) /\ ContactsOf(u) = ContactsOf(s)
    BY Zenon, <1>1, <1>4, SameContacts
<1>10. QED
    BY Zenon, <1>4, <1>7, <1>8, <1>9

\* What every operation on the table needs to know of the bucket of a contact.
LEMMA OwnBucket ==
    ASSUME NEW bs, Sound(bs), bs # <<>>, NEW id, NEW b, b = find_bucket_id(bs, id)
    PROVE  /\ b \in 1 .. Len(bs) /\ b \in DOMAIN bs /\ BucketOf(Len(bs), id, b)
           /\ bs[b] \in Bucket /\ bs[b].nodes \in Seq(RoutingNode)
           /\ bs[b].verified = <<>> /\ bs[b].unverified = <<>>
           /\ bs[b] = BucketWith(bs[b].nodes)
           /\ Fits(bs[b].nodes, Len(bs), b)
           /\ Len(bs[b].nodes) \in Nat /\ Len(bs[b].nodes) <= BUCKET_SIZE
           /\ ContactsOf(bs[b].nodes) \subseteq InTable(bs)
<1>1. bs \in Seq(Bucket)
    BY Zenon DEF Sound
<1>2. BucketOf(Len(bs), id, b)
    BY Zenon, <1>1, FindBucket
<1>3. b \in 1 .. Len(bs)
    BY Zenon, <1>2 DEF BucketOf
<1>4. b \in DOMAIN bs /\ bs[b] \in Bucket
    BY Zenon, <1>1, <1>3, ElementOfSeq, LenProperties
<1>5. Fits(bs[b].nodes, Len(bs), b) /\ Len(bs[b].nodes) <= BUCKET_SIZE
    BY Zenon, <1>3 DEF Sound
<1>6. bs[b].nodes \in Seq(RoutingNode) /\ bs[b].verified = <<>> /\ bs[b].unverified = <<>>
    BY Zenon, <1>4 DEF Bucket
<1>7. bs[b] = BucketWith(bs[b].nodes)
    BY Zenon, <1>4, <1>6, BucketIs
<1>8. Len(bs[b].nodes) \in Nat
    BY Zenon, <1>6, LenProperties
<1>9. ContactsOf(bs[b].nodes) \subseteq InTable(bs)
    BY Zenon, <1>4, InTableIs
<1>10. QED
    BY Zenon, <1>2, <1>3, <1>4, <1>5, <1>6, <1>7, <1>8, <1>9

\* try_add_node keeps the table sound; it adds the contact only if it is
\* verified, and pings no other one.
LEMMA TryAddSound ==
    ASSUME NEW bs, Sound(bs), bs # <<>>, NEW c \in AnyContact, NEW v \in BOOLEAN,
           NEW out, out = try_add_node(bs, c, v)
    PROVE  /\ Sound(out.table) /\ out.table # <<>>
           /\ InTable(out.table) \subseteq InTable(bs) \cup (IF v THEN {c} ELSE {})
           /\ out.pings \subseteq {c}
<1> DEFINE b    == find_bucket_id(bs, c.id)
           i    == Position(bs[b].nodes, c)
           k    == [bs[b] EXCEPT !.verified = Without(@, c),
                                 !.unverified = Without(@, c)]
           with == [k EXCEPT !.nodes = Append(@, NewNode(c))]
           bad  == FirstBad(k.nodes)
           Set(kk)   == [bs EXCEPT ![b] = kk]
           Add(packed) == IF v THEN [table |-> packed, pings |-> {}]
                        ELSE [table |-> Set(k), pings |-> {c}]
           quiet == {n.contact : n \in {m \in ToSet(k.nodes) : is_questionable(m) /\ ~m.ping}}
           s == bs[b].nodes
           u == Append(s, NewNode(c))
<1>1. out = IF i # 0 THEN [table |-> Set(Bump(bs[b], i, v)), pings |-> {}]
            ELSE IF Len(k.nodes) < BUCKET_SIZE THEN Add(Set(with))
            ELSE IF would_split_bucket(bs, b, c.id) THEN Add(split_bucket(Set(with), b))
            ELSE IF bad # 0 THEN Add(Set([with EXCEPT !.nodes = RemoveAt(@, bad)]))
            ELSE [table |-> Set(Candidate(k, c, v)), pings |-> quiet]
    BY Zenon DEF try_add_node
<1> HIDE DEF b
<1>2. /\ b \in 1 .. Len(bs) /\ b \in DOMAIN bs /\ BucketOf(Len(bs), c.id, b)
      /\ bs[b] \in Bucket /\ s \in Seq(RoutingNode)
      /\ bs[b].verified = <<>> /\ bs[b].unverified = <<>>
      /\ bs[b] = BucketWith(s) /\ Fits(s, Len(bs), b)
      /\ Len(s) \in Nat /\ Len(s) <= BUCKET_SIZE
      /\ ContactsOf(s) \subseteq InTable(bs)
    BY Zenon, OwnBucket DEF b
<1>3. k = bs[b]
    <2> DEFINE e == <<>>
    <2>1. Without(e, c) = e
        BY Zenon, NoElements DEF Without
    <2>2. bs[b].verified = e /\ bs[b].unverified = e
        BY Zenon, <1>2
    <2> HIDE DEF e
    <2>3. QED
        BY Zenon, <1>2, <2>1, <2>2 DEF Bucket
<1> HIDE DEF k
<1>4. NewNode(c) \in RoutingNode /\ NewNode(c).contact = c
    BY Zenon DEF NewNode, RoutingNode
<1>5. with = BucketWith(u) /\ u \in Seq(RoutingNode)
    <2>1. u \in Seq(RoutingNode)
        BY <1>2, <1>4
    <2>2. with = [k EXCEPT !.nodes = u] /\ k \in Bucket
        BY Zenon, <1>2, <1>3
    <2> HIDE DEF u, with
    <2>3. QED
        BY Zenon, <1>2, <2>1, <2>2, BucketIs
<1> HIDE DEF with
<1>6. ASSUME NEW t, t \in Seq(RoutingNode), Fits(t, Len(bs), b), Len(t) <= BUCKET_SIZE
      PROVE  /\ Sound(Set(BucketWith(t))) /\ Set(BucketWith(t)) # <<>>
             /\ InTable(Set(BucketWith(t))) \subseteq InTable(bs) \cup ContactsOf(t)
    BY Zenon, <1>2, <1>6, ReplaceBucket
<1>7. Set(k) = bs
    BY <1>2, <1>3 DEF Sound
<1>8. ASSUME NEW packed, out = Add(packed), Sound(packed), packed # <<>>,
             InTable(packed) \subseteq InTable(bs) \cup {c}
      PROVE  /\ Sound(out.table) /\ out.table # <<>>
             /\ InTable(out.table) \subseteq InTable(bs) \cup (IF v THEN {c} ELSE {})
             /\ out.pings \subseteq {c}
    <2>1. CASE v
        BY <1>8, <2>1
    <2>2. CASE ~v
        <3>1. out = [table |-> bs, pings |-> {c}]
            BY Zenon, <1>7, <1>8, <2>2
        <3>2. QED
            BY <2>2, <3>1
    <2>3. QED
        BY Zenon, <2>1, <2>2
<1>9. CASE i # 0
    <2>1. i \in 1 .. Len(s)
        BY Zenon, <1>2, <1>9, PositionProperties
    <2>2. PICK t \in Seq(RoutingNode) : /\ Bump(bs[b], i, v) = BucketWith(t)
                                        /\ Fits(t, Len(bs), b) /\ Len(t) = Len(s)
                                        /\ ContactsOf(t) \subseteq ContactsOf(s)
        <3>1. bs[b] \in Bucket /\ Fits(bs[b].nodes, Len(bs), b) /\ i \in 1 .. Len(bs[b].nodes)
            BY Zenon, <1>2, <2>1
        <3> HIDE DEF i
        <3>2. QED
            BY Zenon, <3>1, BumpSound
    <2>3. out = [table |-> Set(BucketWith(t)), pings |-> {}]
        BY Zenon, <1>1, <1>9, <2>2
    <2> HIDE DEF Set
    <2>4. Len(t) <= BUCKET_SIZE
        BY Zenon, <1>2, <2>2
    <2>5. QED
        BY <1>2, <1>6, <2>2, <2>3, <2>4
<1>10. ASSUME i = 0
       PROVE  /\ c \notin ContactsOf(s) /\ Fits(u, Len(bs), b) /\ Len(u) = Len(s) + 1
              /\ ContactsOf(u) \subseteq ContactsOf(s) \cup {c}
    <2>1. c \notin ContactsOf(s)
        <3>1. i \notin 1 .. Len(s)
            BY <1>2, <1>10
        <3>2. QED
            BY Zenon, <1>2, <3>1, PositionProperties
    <2>2. QED
        BY Zenon, <1>2, <1>4, <2>1, AppendFits
<1> HIDE DEF u
<1>11. CASE i = 0 /\ Len(s) < BUCKET_SIZE
    <2>1. out = Add(Set(BucketWith(u)))
        BY Zenon, <1>1, <1>3, <1>5, <1>11
    <2> HIDE DEF Set, Add
    <2>2. Len(u) <= BUCKET_SIZE
        BY <1>2, <1>10, <1>11, TableAssumption
    <2>3. /\ Sound(Set(BucketWith(u))) /\ Set(BucketWith(u)) # <<>>
          /\ InTable(Set(BucketWith(u))) \subseteq InTable(bs) \cup ContactsOf(u)
        BY Zenon, <1>5, <1>6, <1>10, <1>11, <2>2
    <2>4. InTable(Set(BucketWith(u))) \subseteq InTable(bs) \cup {c}
        BY Zenon, <1>2, <1>10, <1>11, <2>3
    <2>5. QED
        BY Zenon, <1>8, <2>1, <2>3, <2>4
<1>12. CASE i = 0 /\ ~(Len(s) < BUCKET_SIZE) /\ would_split_bucket(bs, b, c.id)
    <2>1. out = Add(split_bucket(Set(BucketWith(u)), b))
        BY Zenon, <1>1, <1>3, <1>5, <1>12
    <2> DEFINE t == Set(BucketWith(u))
    <2>2. t = Filled(bs, b, NewNode(c))
        BY Zenon DEF u, Filled
    <2> HIDE DEF t, Set, Add
    <2>3. /\ Sound(split_bucket(t, b)) /\ split_bucket(t, b) # <<>>
          /\ InTable(split_bucket(t, b)) \subseteq InTable(bs) \cup {c}
        <3>1. Splits(bs, b, c, NewNode(c))
            BY Zenon, <1>2, <1>4, <1>10, <1>12 DEF Splits
        <3>2. QED
            BY <2>2, <3>1, SplitSound
    <2>4. QED
        BY Zenon, <1>8, <2>1, <2>3 DEF t
<1>13. CASE i = 0 /\ ~(Len(s) < BUCKET_SIZE) /\ ~would_split_bucket(bs, b, c.id) /\ bad # 0
    <2> DEFINE r == RemoveAt(u, bad)
    <2>1. bad \in 1 .. Len(s) /\ bad \in 1 .. Len(u)
        <3>1. bad \in 1 .. Len(s)
            BY Zenon, <1>2, <1>3, <1>13, FirstBadProperties
        <3> HIDE DEF bad
        <3>2. QED
            BY <1>2, <1>10, <1>13, <3>1
    <2>2. /\ r \in Seq(RoutingNode) /\ Fits(r, Len(bs), b) /\ Len(r) = Len(u) - 1
          /\ ContactsOf(r) \subseteq ContactsOf(u)
        BY Zenon, <1>5, <1>10, <1>13, <2>1, RemoveFits
    <2>3. [with EXCEPT !.nodes = RemoveAt(@, bad)] = BucketWith(r)
        <3>1. with \in Bucket /\ with.nodes = u
            BY Zenon, <1>2, <1>5, BucketIs
        <3>2. [with EXCEPT !.nodes = RemoveAt(@, bad)] = [with EXCEPT !.nodes = r]
            BY Zenon, <3>1
        <3> HIDE DEF r
        <3>3. QED
            BY Zenon, <2>2, <3>1, <3>2, BucketIs
    <2>4. out = Add(Set(BucketWith(r)))
        BY Zenon, <1>1, <1>3, <1>13, <2>3
    <2> HIDE DEF r, Set, Add
    <2>5. Len(r) <= BUCKET_SIZE
        BY <1>2, <1>10, <1>13, <2>2, TableAssumption
    <2>6. /\ Sound(Set(BucketWith(r))) /\ Set(BucketWith(r)) # <<>>
          /\ InTable(Set(BucketWith(r))) \subseteq InTable(bs) \cup ContactsOf(r)
        BY Zenon, <1>6, <2>2, <2>5
    <2>7. InTable(Set(BucketWith(r))) \subseteq InTable(bs) \cup {c}
        BY Zenon, <1>2, <1>10, <1>13, <2>2, <2>6
    <2>8. QED
        BY Zenon, <1>8, <2>4, <2>6, <2>7
<1>14. CASE i = 0 /\ ~(Len(s) < BUCKET_SIZE) /\ ~would_split_bucket(bs, b, c.id) /\ bad = 0
    <2>1. \A j \in DOMAIN s : is_good(s[j])
        <3>1. bad \notin 1 .. Len(s)
            BY <1>2, <1>14
        <3>2. QED
            BY Zenon, <1>2, <1>3, <3>1, FirstBadProperties
    <2>2. PICK t \in Seq(RoutingNode) : /\ Candidate(k, c, v) = BucketWith(t)
                                        /\ Fits(t, Len(bs), b) /\ Len(t) = Len(s)
                                        /\ ContactsOf(t) \subseteq ContactsOf(s)
        <3>1. /\ k \in Bucket /\ Fits(k.nodes, Len(bs), b) /\ k.nodes = s
              /\ \A j \in DOMAIN k.nodes : is_good(k.nodes[j])
            BY Zenon, <1>2, <1>3, <2>1
        <3> HIDE DEF s
        <3>2. \E t \in Seq(RoutingNode) : /\ Candidate(k, c, v) = BucketWith(t)
                                           /\ Fits(t, Len(bs), b) /\ Len(t) = Len(k.nodes)
                                           /\ ContactsOf(t) \subseteq ContactsOf(k.nodes)
            BY Zenon, <3>1, CandidateSound
        <3>3. QED
            BY Zenon, <3>1, <3>2
    <2>3. quiet = {}
        BY Zenon, <1>3, <2>1 DEF ToSet, is_good, is_questionable
    <2>4. out = [table |-> Set(BucketWith(t)), pings |-> {}]
        BY Zenon, <1>1, <1>3, <1>14, <2>2, <2>3
    <2> HIDE DEF Set
    <2>5. Len(t) <= BUCKET_SIZE
        BY Zenon, <1>2, <2>2
    <2>6. QED
        BY <1>2, <1>6, <2>2, <2>4, <2>5
<1>15. QED
    BY Zenon, <1>9, <1>11, <1>12, <1>13, <1>14

\* A node failed: it is kept, and pinged if it is in question.
LEMMA FailSound ==
    ASSUME NEW bs, Sound(bs), bs # <<>>, NEW c \in AnyContact,
           NEW out \in fail_node(bs, c)
    PROVE  /\ Sound(out.table) /\ out.table # <<>>
           /\ InTable(out.table) \subseteq InTable(bs)
           /\ out.pings \subseteq {c}
<1> DEFINE b == find_bucket_id(bs, c.id)
           i == Position(bs[b].nodes, c)
           n == [bs[b].nodes[i] EXCEPT !.failed = IF @ < MaxFailed THEN @ + 1 ELSE @]
           k == [bs[b] EXCEPT !.nodes[i] = n]
           e == [k EXCEPT !.verified = erase_front_questionables(@),
                          !.unverified = erase_front_questionables(@)]
           Out(kk, ps) == [table |-> [bs EXCEPT ![b] = kk], pings |-> ps]
           s == bs[b].nodes
           u == [s EXCEPT ![i] = n]
           x == [u EXCEPT ![i].ping = TRUE]
<1>1. out \in IF i = 0 THEN {[table |-> bs, pings |-> {}]}
              ELSE IF is_good(n)
              THEN {IF is_questionable(n)
                    THEN Out([k EXCEPT !.nodes[i].ping = TRUE], {c})
                    ELSE Out(k, {})}
              ELSE IF e.verified # <<>> THEN {Out(Trim(kk), {}) : kk \in Replace(e, i)}
              ELSE IF e.unverified # <<>>
              THEN {Out(Trim([e EXCEPT !.unverified = Tail(@)]),
                        {Head(e.unverified).contact})}
              ELSE {Out(Trim(e), {})}
    BY Zenon DEF fail_node
<1> HIDE DEF b
<1>2. /\ b \in 1 .. Len(bs) /\ b \in DOMAIN bs
      /\ bs[b] \in Bucket /\ s \in Seq(RoutingNode)
      /\ bs[b] = BucketWith(s) /\ Fits(s, Len(bs), b)
      /\ Len(s) \in Nat /\ Len(s) <= BUCKET_SIZE
      /\ ContactsOf(s) \subseteq InTable(bs)
    BY Zenon, OwnBucket DEF b
<1>3. CASE i = 0
    <2>1. out = [table |-> bs, pings |-> {}]
        BY Zenon, <1>1, <1>3
    <2>2. QED
        BY Zenon, <2>1
<1>4. CASE i # 0
    <2>1. i \in 1 .. Len(s) /\ s[i] \in RoutingNode
        BY Zenon, <1>2, <1>4, PositionProperties, ElementOfSeq
    <2>2. n \in RoutingNode /\ n.contact = s[i].contact
        BY <2>1 DEF RoutingNode, MaxFailed
    <2>3. /\ [n EXCEPT !.ping = TRUE] \in RoutingNode
          /\ [n EXCEPT !.ping = TRUE].contact = s[i].contact
        BY Zenon, <2>2 DEF RoutingNode
    <2> HIDE DEF n, i
    <2>4. u \in Seq(RoutingNode) /\ Len(u) = Len(s) /\ u[i] = n
          /\ \A j \in 1 .. Len(s) : u[j].contact = s[j].contact
        BY <1>2, <2>1, <2>2
    <2>5. x = [s EXCEPT ![i] = [n EXCEPT !.ping = TRUE]]
        BY Zenon, <1>2, <2>1, <2>4
    <2>6. x \in Seq(RoutingNode) /\ Len(x) = Len(s)
          /\ \A j \in 1 .. Len(s) : x[j].contact = s[j].contact
        <3> DEFINE m == [n EXCEPT !.ping = TRUE]
        <3>1. m \in RoutingNode /\ m.contact = s[i].contact /\ x = [s EXCEPT ![i] = m]
            BY Zenon, <2>3, <2>5
        <3> HIDE DEF m, x
        <3>2. QED
            BY <1>2, <2>1, <3>1
    <2>7. k = BucketWith(u) /\ [k EXCEPT !.nodes[i].ping = TRUE] = BucketWith(x)
        <3> DEFINE kb == bs[b]
        <3>1. k = [kb EXCEPT !.nodes = u] /\ kb \in Bucket
            BY Zenon, <1>2
        <3>2. [k EXCEPT !.nodes[i].ping = TRUE]
                = [k EXCEPT !.nodes = [k.nodes EXCEPT ![i].ping = TRUE]]
            BY Zenon
        <3> HIDE DEF u, x, k, kb
        <3>3. k = BucketWith(u) /\ k \in Bucket /\ k.nodes = u
            <4>1. /\ [kb EXCEPT !.nodes = u] = BucketWith(u)
                  /\ BucketWith(u) \in Bucket /\ BucketWith(u).nodes = u
                BY Zenon, <2>4, <3>1, BucketIs
            <4>2. QED
                BY Zenon, <3>1, <4>1
        <3>4. [k.nodes EXCEPT ![i].ping = TRUE] = x
            BY Zenon, <3>3 DEF x
        <3>5. [k EXCEPT !.nodes = x] = BucketWith(x)
            BY Zenon, <2>6, <3>3, BucketIs
        <3>6. QED
            BY Zenon, <3>2, <3>3, <3>4, <3>5
    <2> HIDE DEF u, x
    <2>8. e = BucketWith(u)
        <3> DEFINE none == <<>>
        <3> HIDE DEF k
        <3>1. /\ k.verified = none /\ k.unverified = none
              /\ k = [nodes |-> u, verified |-> none, unverified |-> none]
              /\ BucketWith(u) = [nodes |-> u, verified |-> none, unverified |-> none]
              /\ erase_front_questionables(none) = none
            BY Zenon, <2>7, EraseNone DEF BucketWith
        <3> HIDE DEF none
        <3>2. k = Fields(u, none, none) /\ BucketWith(u) = Fields(u, none, none)
            BY Zenon, <3>1 DEF Fields
        <3>3. WithCandidates(k, none, none) = Fields(u, none, none)
            BY <3>2, BucketExcept
        <3>4. [k EXCEPT !.verified = none, !.unverified = none] = Fields(u, none, none)
            BY Zenon, <3>3 DEF WithCandidates
        <3>5. QED
            BY Zenon, <3>1, <3>2, <3>4
    <2>9. e.verified = <<>> /\ e.unverified = <<>>
        <3> HIDE DEF e
        <3>1. QED
            BY Zenon, <2>8 DEF BucketWith
    <2> HIDE DEF e, k, u, x
    <2>10. Trim(e) = BucketWith(u)
        BY Zenon, <2>4, <2>8, TrimNone
    <2>11. \/ out = Out(BucketWith(x), {c})
           \/ out = Out(BucketWith(u), {})
        BY Zenon, <1>1, <1>4, <2>7, <2>9, <2>10
    <2>12. ASSUME NEW t, t \in Seq(RoutingNode), Len(t) = Len(s),
                  \A j \in 1 .. Len(s) : t[j].contact = s[j].contact,
                  NEW ps \in SUBSET {c}, out = Out(BucketWith(t), ps)
           PROVE  /\ Sound(out.table) /\ out.table # <<>>
                  /\ InTable(out.table) \subseteq InTable(bs)
                  /\ out.pings \subseteq {c}
        <3>1. Fits(t, Len(bs), b) /\ ContactsOf(t) = ContactsOf(s)
            BY Zenon, <1>2, <2>12, SameContacts
        <3>2. out.table = [bs EXCEPT ![b] = BucketWith(t)] /\ out.pings = ps
            BY Zenon, <2>12
        <3>3. Len(t) <= BUCKET_SIZE
            BY Zenon, <1>2, <2>12
        <3>4. /\ Sound(out.table) /\ out.table # <<>>
              /\ InTable(out.table) \subseteq InTable(bs) \cup ContactsOf(t)
            BY Zenon, <1>2, <2>12, <3>1, <3>2, <3>3, ReplaceBucket
        <3>5. QED
            BY Zenon, <1>2, <3>1, <3>2, <3>4
    <2>13. {} \in SUBSET {c} /\ {c} \in SUBSET {c}
        BY Zenon
    <2> HIDE DEF Out, s
    <2>14. QED
        BY Zenon, <2>4, <2>6, <2>11, <2>12, <2>13
<1>5. QED
    BY Zenon, <1>3, <1>4

\* Time passes: nodes become questionable or bad where they are.
LEMMA ForgetSound ==
    ASSUME NEW bs, Sound(bs), NEW c, NEW field
    PROVE  Sound(Forget(bs, c, field)) /\ InTable(Forget(bs, c, field)) \subseteq InTable(bs)
<1> DEFINE old(n) == IF n.contact # c THEN n
                     ELSE IF field = "recent" THEN [n EXCEPT !.recent = FALSE]
                     ELSE [n EXCEPT !.replied = FALSE]
           t(b) == [i \in DOMAIN bs[b].nodes |-> old(bs[b].nodes[i])]
           r == Forget(bs, c, field)
<1>1. bs \in Seq(Bucket) /\ Len(bs) \in Nat /\ DOMAIN bs = 1 .. Len(bs)
    BY Zenon, LenProperties DEF Sound
<1>2. r = [b \in DOMAIN bs |-> [bs[b] EXCEPT !.nodes = t(b)]]
    BY Zenon DEF Forget
<1>3. \A n \in RoutingNode : old(n) \in RoutingNode /\ old(n).contact = n.contact
    BY Zenon DEF RoutingNode
<1> HIDE DEF old
<1>4. ASSUME NEW b \in 1 .. Len(bs)
      PROVE  /\ t(b) \in Seq(RoutingNode) /\ Len(t(b)) = Len(bs[b].nodes)
             /\ [bs[b] EXCEPT !.nodes = t(b)] = BucketWith(t(b)) /\ BucketWith(t(b)) \in Bucket
             /\ Fits(t(b), Len(bs), b) /\ ContactsOf(t(b)) = ContactsOf(bs[b].nodes)
             /\ Len(bs[b].nodes) <= BUCKET_SIZE
    <2> DEFINE s == bs[b].nodes
    <2>1. bs[b] \in Bucket
        BY Zenon, <1>1, ElementOfSeq
    <2>2. s \in Seq(RoutingNode)
        BY Zenon, <2>1 DEF Bucket
    <2>3. Fits(s, Len(bs), b) /\ Len(s) <= BUCKET_SIZE
        BY Zenon DEF Sound
    <2> HIDE DEF s
    <2>4. DOMAIN s = 1 .. Len(s) /\ Len(s) \in Nat /\ \A i \in 1 .. Len(s) : s[i] \in RoutingNode
        BY Zenon, <2>2, LenProperties, ElementOfSeq
    <2>5. t(b) = [i \in DOMAIN s |-> old(s[i])]
        BY Zenon DEF s
    <2> HIDE DEF t
    <2>6. t(b) \in Seq(RoutingNode) /\ Len(t(b)) = Len(s)
          /\ \A i \in 1 .. Len(s) : t(b)[i].contact = s[i].contact
        BY <1>3, <2>4, <2>5
    <2>7. Fits(t(b), Len(bs), b) /\ ContactsOf(t(b)) = ContactsOf(s)
        BY Zenon, <2>2, <2>3, <2>6, SameContacts
    <2>8. [bs[b] EXCEPT !.nodes = t(b)] = BucketWith(t(b)) /\ BucketWith(t(b)) \in Bucket
        BY Zenon, <2>1, <2>6, BucketIs
    <2>9. QED
        BY Zenon, <2>3, <2>6, <2>7, <2>8 DEF s
<1> HIDE DEF t
<1>5. /\ r \in Seq(Bucket) /\ Len(r) = Len(bs) /\ DOMAIN r = DOMAIN bs
      /\ \A b \in 1 .. Len(bs) : r[b] = BucketWith(t(b))
    <2>1. \A b \in 1 .. Len(bs) : /\ [bs[b] EXCEPT !.nodes = t(b)] = BucketWith(t(b))
                                  /\ BucketWith(t(b)) \in Bucket
        BY Zenon, <1>4
    <2>2. r = [b \in 1 .. Len(bs) |-> BucketWith(t(b))]
        BY Zenon, <1>1, <1>2, <2>1
    <2> HIDE DEF r
    <2>3. QED
        BY <1>1, <2>1, <2>2
<1> HIDE DEF r
<1>6. \A b \in 1 .. Len(bs) : r[b].nodes = t(b)
    <2>1. \A z : BucketWith(z).nodes = z
        BY Zenon DEF BucketWith
    <2>2. QED
        BY Zenon, <1>5, <2>1
<1>7. Sound(r)
    BY Zenon, <1>4, <1>5, <1>6 DEF Sound
<1>8. InTable(r) \subseteq InTable(bs)
    BY <1>1, <1>4, <1>5, <1>6, InTableIs
<1>9. QED
    BY Zenon, <1>7, <1>8 DEF r

-----------------------------------------------------------------------------
(***************************************************************************)
(* The node.                                                               *)
(***************************************************************************)
Req == [st : {"sending", "waiting"}, dst : AnyContact, known : BOOLEAN,
        y : {"none", "r", "e"}]

\* The contact of a request that has a reply was heard.
RepliedTo(reqs, hs) ==
    \A t \in DOMAIN reqs : reqs[t] # Done /\ reqs[t].y = "r" => reqs[t].dst \in hs

Requests(reqs, hs) == reqs \in Seq(Req \cup {Done}) /\ RepliedTo(reqs, hs)

NodeInv ==
    /\ w \in World
    /\ Sound(table)
    /\ Requests(requests, heard)
    /\ table = <<>> => requests = <<>>
    /\ InTable(table) \subseteq heard

\* The list of at most one contact.
LEMMA SetToSeqOfOne ==
    ASSUME NEW c, NEW S, S \subseteq {c}
    PROVE  /\ SetToSeq(S) \in Seq({c})
           /\ \A i \in DOMAIN SetToSeq(S) : SetToSeq(S)[i] = c
           /\ S = {} => SetToSeq(S) = <<>>
<1> DEFINE F(T) == {f \in [1 .. Cardinality(T) -> T] : IsInjective(f)}
<1>1. S = {} \/ S = {c}
    BY Zenon
<1>2. CASE S = {}
    <2>1. Cardinality(S) = 0
        BY Zenon, <1>2, FS_EmptySet
    <2>2. [i \in 1 .. 0 |-> c] \in F(S)
        BY <1>2, <2>1 DEF IsInjective
    <2>3. SetToSeq(S) \in F(S)
        BY Zenon, <2>2 DEF SetToSeq
    <2>4. SetToSeq(S) \in [1 .. 0 -> S]
        BY Zenon, <2>1, <2>3
    <2>5. QED
        BY <1>2, <2>4
<1>3. CASE S = {c}
    <2>1. Cardinality(S) = 1
        BY Zenon, <1>3, FS_Singleton
    <2>2. [i \in 1 .. 1 |-> c] \in F(S)
        BY <1>3, <2>1 DEF IsInjective
    <2>3. SetToSeq(S) \in F(S)
        BY Zenon, <2>2 DEF SetToSeq
    <2>4. SetToSeq(S) \in [1 .. 1 -> {c}]
        BY Zenon, <1>3, <2>1, <2>3
    <2>5. S # {}
        BY Zenon, <1>3
    <2>6. SetToSeq(S) \in Seq({c})
        BY Zenon, <2>4, FunIsSeq
    <2>7. QED
        BY Zenon, <2>4, <2>5, <2>6
<1>4. QED
    BY Zenon, <1>1, <1>2, <1>3

\* The pings are requests that have no reply yet.
LEMMA PingingIs ==
    ASSUME NEW reqs, NEW hs, Requests(reqs, hs), NEW c \in AnyContact, NEW ps, ps \subseteq {c}
    PROVE  /\ Requests(Pinging(reqs, ps), hs)
           /\ ps = {} => Pinging(reqs, ps) = reqs
<1> DEFINE q == SetToSeq(ps)
           p == [i \in DOMAIN q |-> Request(q[i], TRUE)]
           T == Req \cup {Done}
           r == reqs \o p
<1>1. q \in Seq({c}) /\ (\A i \in DOMAIN q : q[i] = c) /\ (ps = {} => q = <<>>)
    BY Zenon, SetToSeqOfOne
<1>2. Pinging(reqs, ps) = r
    BY Zenon DEF Pinging
<1> HIDE DEF q
<1>3. Request(c, TRUE) \in Req /\ Request(c, TRUE).y = "none"
    BY Zenon DEF Request, Req
<1>4. Len(q) \in Nat /\ DOMAIN q = 1 .. Len(q)
    BY Zenon, <1>1, LenProperties
<1>5. p \in Seq(T) /\ Len(p) = Len(q) /\ \A i \in 1 .. Len(q) : p[i].y = "none"
    <2>1. p = [i \in 1 .. Len(q) |-> Request(c, TRUE)]
        BY Zenon, <1>1, <1>4
    <2>2. Request(c, TRUE) \in T
        BY Zenon, <1>3
    <2> HIDE DEF T, p
    <2>3. p \in [1 .. Len(q) -> T]
        BY Zenon, <2>1, <2>2
    <2>4. p \in Seq(T) /\ Len(p) = Len(q)
        BY Zenon, <1>4, <2>3, FunIsSeq
    <2>5. \A i \in 1 .. Len(q) : p[i] = Request(c, TRUE)
        BY Zenon, <2>1
    <2>6. QED
        BY Zenon, <1>3, <2>4, <2>5
<1>6. reqs \in Seq(T) /\ RepliedTo(reqs, hs) /\ DOMAIN reqs = 1 .. Len(reqs) /\ Len(reqs) \in Nat
    BY Zenon, LenProperties DEF Requests
<1> HIDE DEF p, T
<1>7. /\ r \in Seq(T) /\ Len(r) = Len(reqs) + Len(p)
      /\ \A i \in 1 .. Len(reqs) + Len(p) :
           r[i] = IF i <= Len(reqs) THEN reqs[i] ELSE p[i - Len(reqs)]
    BY <1>5, <1>6, ConcatProperties
<1> HIDE DEF r
<1>8. DOMAIN r = 1 .. Len(reqs) + Len(p)
    BY Zenon, <1>7, LenProperties
<1>9. RepliedTo(r, hs)
    <2> SUFFICES ASSUME NEW i \in 1 .. Len(reqs) + Len(p), r[i] # Done, r[i].y = "r"
                 PROVE  r[i].dst \in hs
        BY Zenon, <1>8 DEF RepliedTo
    <2>1. CASE i <= Len(reqs)
        <3>1. i \in DOMAIN reqs /\ r[i] = reqs[i]
            BY <1>6, <1>7, <2>1
        <3>2. QED
            BY Zenon, <1>6, <3>1 DEF RepliedTo
    <2>2. CASE ~(i <= Len(reqs))
        <3>1. i - Len(reqs) \in 1 .. Len(q) /\ r[i] = p[i - Len(reqs)]
            BY <1>4, <1>5, <1>6, <1>7, <2>2
        <3>2. r[i].y = "none"
            BY Zenon, <1>5, <3>1
        <3>3. QED
            BY Zenon, <3>2
    <2>3. QED
        BY Zenon, <2>1, <2>2
<1>10. ps = {} => r = reqs
    <2> SUFFICES ASSUME ps = {} PROVE r = reqs
        BY Zenon
    <2>1. p = <<>>
        BY <1>1 DEF p
    <2>2. QED
        BY Zenon, <1>6, <2>1, ConcatEmptySeq DEF r
<1>11. QED
    BY Zenon, <1>2, <1>7, <1>9, <1>10 DEF Requests, T

\* A query that waits has a contact, and may be ended.
LEMMA ActiveRequest ==
    ASSUME NodeInv, NEW t, Active(t)
    PROVE  /\ t \in DOMAIN requests /\ requests[t] \in Req
           /\ requests[t].y = "r" => requests[t].dst \in heard
           /\ Requests([requests EXCEPT ![t] = Done], heard)
<1>1. /\ requests \in Seq(Req \cup {Done}) /\ RepliedTo(requests, heard)
      /\ t \in DOMAIN requests /\ requests[t] # Done
    BY Zenon DEF NodeInv, Requests, Active
<1>2. requests[t] \in Req \cup {Done}
    BY Zenon, <1>1, ElementOfSeq, LenProperties
<1>3. requests[t] \in Req /\ (requests[t].y = "r" => requests[t].dst \in heard)
    BY Zenon, <1>1, <1>2 DEF RepliedTo
<1>4. [requests EXCEPT ![t] = Done] \in Seq(Req \cup {Done})
    BY <1>1
<1>5. RepliedTo([requests EXCEPT ![t] = Done], heard)
    BY Zenon, <1>1 DEF RepliedTo
<1>6. QED
    BY Zenon, <1>1, <1>3, <1>4, <1>5 DEF Requests

\* A query ends; if it was answered, the contact is added.
LEMMA SettleKeeps ==
    ASSUME NodeInv, NEW t, Active(t), NEW ok \in BOOLEAN, ok => requests[t].y = "r",
           Settle(t, ok), w' = w, heard' = heard
    PROVE  NodeInv'
<1> DEFINE c == requests[t].dst
           reqs == [requests EXCEPT ![t] = Done]
<1>1. requests[t] \in Req /\ (requests[t].y = "r" => c \in heard) /\ Requests(reqs, heard)
    BY Zenon, ActiveRequest
<1>2. c \in AnyContact /\ (ok => c \in heard)
    BY Zenon, <1>1 DEF Req
<1>3. PICK out \in IF ~requests[t].known THEN {[table |-> table, pings |-> {}]}
                   ELSE IF ok THEN {try_add_node(table, c, TRUE)}
                   ELSE fail_node(table, c) :
           table' = out.table /\ requests' = Pinging(reqs, out.pings)
    BY Zenon DEF Settle
<1> HIDE DEF c, reqs
<1>4. /\ Sound(table) /\ InTable(table) \subseteq heard /\ w \in World
      /\ table # <<>>
    BY DEF NodeInv, Active
<1>5. /\ Sound(out.table) /\ out.table # <<>> /\ InTable(out.table) \subseteq heard
      /\ out.pings \subseteq {c}
    <2>1. CASE ~requests[t].known
        BY <1>3, <1>4, <2>1
    <2>2. CASE requests[t].known /\ ok
        <3>1. out = try_add_node(table, c, TRUE)
            BY Zenon, <1>3, <2>2
        <3>2. /\ Sound(out.table) /\ InTable(out.table) \subseteq InTable(table) \cup {c}
              /\ out.table # <<>> /\ out.pings \subseteq {c}
            BY Zenon, <1>2, <1>4, <3>1, TryAddSound
        <3>3. QED
            BY Zenon, <1>2, <1>4, <2>2, <3>2
    <2>3. CASE requests[t].known /\ ~ok
        <3>1. out \in fail_node(table, c)
            BY Zenon, <1>3, <2>3
        <3>2. /\ Sound(out.table) /\ InTable(out.table) \subseteq InTable(table)
              /\ out.table # <<>> /\ out.pings \subseteq {c}
            BY Zenon, <1>2, <1>4, <3>1, FailSound
        <3>3. QED
            BY Zenon, <1>4, <3>2
    <2>4. QED
        BY Zenon, <2>1, <2>2, <2>3
<1>6. Requests(requests', heard)
    BY Zenon, <1>1, <1>2, <1>3, <1>5, PingingIs
<1>7. QED
    BY Zenon, <1>3, <1>4, <1>5, <1>6 DEF NodeInv

\* Every query of another node starts with Handle.
LEMMA HandleKeeps ==
    ASSUME NodeInv, NEW c \in w.contacts, NEW kind, NEW ro \in BOOLEAN, Handle(c, kind, ro)
    PROVE  NodeInv'
<1> DEFINE out == IF table = <<>> \/ ro THEN [table |-> table, pings |-> {}]
                  ELSE try_add_node(table, c, FALSE)
<1>1. /\ table' = out.table /\ requests' = Pinging(requests, out.pings)
      /\ w' = w /\ heard' = heard
    BY Zenon DEF Handle
<1>2. /\ Sound(table) /\ InTable(table) \subseteq heard /\ w \in World
      /\ Requests(requests, heard) /\ (table = <<>> => requests = <<>>)
    BY Zenon DEF NodeInv
<1>3. c \in AnyContact
    BY Zenon, <1>2 DEF World, AnyContact
<1>4. /\ Sound(out.table) /\ InTable(out.table) \subseteq heard /\ out.pings \subseteq {c}
      /\ out.table = <<>> => table = <<>> /\ out.pings = {}
    <2>1. CASE table = <<>> \/ ro
        BY Zenon, <1>2, <2>1
    <2>2. CASE ~(table = <<>> \/ ro)
        <3>1. out = try_add_node(table, c, FALSE)
            BY Zenon, <2>2
        <3> HIDE DEF out
        <3>2. /\ Sound(out.table) /\ InTable(out.table) \subseteq InTable(table) \cup {}
              /\ out.table # <<>> /\ out.pings \subseteq {c}
            BY Zenon, <1>2, <1>3, <2>2, <3>1, TryAddSound
        <3>3. QED
            BY Zenon, <1>2, <3>2
    <2>3. QED
        BY Zenon, <2>1, <2>2
<1> HIDE DEF out
<1>5. Requests(requests', heard) /\ (out.pings = {} => requests' = requests)
    BY Zenon, <1>1, <1>2, <1>3, <1>4, PingingIs
<1>6. QED
    BY Zenon, <1>1, <1>2, <1>4, <1>5 DEF NodeInv

\* Whatever the query, it is handled by Handle first.
LEMMA HandleQueryHandles ==
    ASSUME NEW c, NEW ro, HandleQuery(c, ro)
    PROVE  \E kind : Handle(c, kind, ro)
BY Zenon DEF HandleQuery, handle_find_node, handle_get_peers, handle_get, handle_announce_peer,
       handle_put_mutable, handle_put_immutable

\* A query of this node is sent.
LEMMA SendQueryKeeps ==
    ASSUME NodeInv, NEW c \in w.contacts, NEW known \in BOOLEAN, send_query(c, known)
    PROVE  NodeInv'
<1>1. /\ w \in World /\ Sound(table) /\ InTable(table) \subseteq heard
      /\ requests \in Seq(Req \cup {Done}) /\ RepliedTo(requests, heard)
    BY Zenon DEF NodeInv, Requests
<1>2. /\ table # <<>> /\ requests' = Append(requests, Request(c, known))
      /\ w' = w /\ table' = table /\ heard' = heard
    BY Zenon DEF send_query
<1>3. c \in AnyContact
    BY Zenon, <1>1 DEF World, AnyContact
<1> DEFINE new == Request(c, known)
<1>4. new \in Req /\ new.y = "none"
    BY Zenon, <1>3 DEF Request, Req
<1> HIDE DEF new
<1>5. /\ requests' \in Seq(Req \cup {Done})
      /\ \A t \in DOMAIN requests' : \/ t \in DOMAIN requests /\ requests'[t] = requests[t]
                                     \/ requests'[t] = new
    BY <1>1, <1>2, <1>4 DEF new
<1>6. RepliedTo(requests', heard)
    BY Zenon, <1>1, <1>4, <1>5 DEF RepliedTo
<1>7. QED
    BY Zenon, <1>1, <1>2, <1>5, <1>6 DEF NodeInv, Requests

\* Its datagram is out.
LEMMA QuerySentKeeps ==
    ASSUME NodeInv, NEW t, QuerySent(t)
    PROVE  NodeInv'
<1>1. /\ w \in World /\ Sound(table) /\ InTable(table) \subseteq heard
      /\ requests \in Seq(Req \cup {Done}) /\ RepliedTo(requests, heard)
      /\ table = <<>> => requests = <<>>
    BY Zenon DEF NodeInv, Requests
<1>2. /\ Active(t) /\ requests' = [requests EXCEPT ![t].st = "waiting"]
      /\ w' = w /\ table' = table /\ heard' = heard
    BY Zenon DEF QuerySent
<1>3. t \in DOMAIN requests /\ requests[t] \in Req /\ requests[t] # Done
    BY Zenon, <1>2, ActiveRequest DEF Active
<1> DEFINE new == [requests[t] EXCEPT !.st = "waiting"]
<1>4. new \in Req /\ new.y = requests[t].y /\ new.dst = requests[t].dst
    BY Zenon, <1>3 DEF Req
<1>5. requests' = [requests EXCEPT ![t] = new]
    BY Zenon, <1>2
<1> HIDE DEF new
<1>6. requests' \in Seq(Req \cup {Done})
    BY <1>1, <1>3, <1>4, <1>5
<1>7. RepliedTo(requests', heard)
    BY Zenon, <1>1, <1>3, <1>4, <1>5 DEF RepliedTo
<1>8. table # <<>>
    BY <1>1, <1>3
<1>9. QED
    BY Zenon, <1>1, <1>2, <1>6, <1>7, <1>8 DEF NodeInv, Requests

\* A reply comes: the contact that was asked is heard, or the reply is dropped.
LEMMA ReceiveReplyKeeps ==
    ASSUME NodeInv, NEW t, NEW c, NEW y \in {"r", "e"}, ReceiveReply(t, c, y)
    PROVE  NodeInv'
<1>1. /\ w \in World /\ Sound(table) /\ InTable(table) \subseteq heard
      /\ requests \in Seq(Req \cup {Done}) /\ RepliedTo(requests, heard)
      /\ table = <<>> => requests = <<>>
    BY Zenon DEF NodeInv, Requests
<1>2. w' = w /\ table' = table
    BY Zenon DEF ReceiveReply
<1>3. CASE /\ Active(t)
           /\ requests' = [requests EXCEPT ![t].y = y]
           /\ heard' = IF y = "r" THEN heard \cup {requests[t].dst} ELSE heard
    <2>1. t \in DOMAIN requests /\ requests[t] \in Req /\ requests[t] # Done
        BY Zenon, <1>3, ActiveRequest DEF Active
    <2> DEFINE new == [requests[t] EXCEPT !.y = y]
    <2>2. new \in Req /\ new.y = y /\ new.dst = requests[t].dst
        BY Zenon, <2>1 DEF Req
    <2>3. requests' = [requests EXCEPT ![t] = new]
        BY Zenon, <1>1, <1>3, <2>1
    <2> HIDE DEF new
    <2>4. requests' \in Seq(Req \cup {Done})
        BY <1>1, <2>1, <2>2, <2>3
    <2>5. heard \subseteq heard' /\ (y = "r" => requests[t].dst \in heard')
        BY Zenon, <1>3
    <2>6. RepliedTo(requests', heard')
        <3> SUFFICES ASSUME NEW i \in DOMAIN requests', requests'[i] # Done, requests'[i].y = "r"
                     PROVE  requests'[i].dst \in heard'
            BY Zenon DEF RepliedTo
        <3>1. CASE i = t
            BY Zenon, <1>1, <2>1, <2>2, <2>3, <2>5, <3>1
        <3>2. CASE i # t
            BY Zenon, <1>1, <2>1, <2>3, <2>5, <3>2 DEF RepliedTo
        <3>3. QED
            BY Zenon, <3>1, <3>2
    <2>7. table # <<>>
        BY <1>1, <2>1
    <2>8. QED
        BY Zenon, <1>1, <1>2, <2>4, <2>5, <2>6, <2>7 DEF NodeInv, Requests
<1>4. CASE requests' = requests /\ heard' = heard
    BY Zenon, <1>1, <1>2, <1>4 DEF NodeInv, Requests
<1>5. QED
    BY Zenon, <1>3, <1>4 DEF ReceiveReply

\* The table is made, or time passes for it.
LEMMA TableKeeps ==
    ASSUME NodeInv,
           TableReady \/ \E c \in w.contacts, field \in {"recent", "replied"} : Age(c, field)
    PROVE  NodeInv'
<1>1. /\ w \in World /\ Sound(table) /\ InTable(table) \subseteq heard
      /\ Requests(requests, heard) /\ w' = w /\ requests' = requests /\ heard' = heard
    BY Zenon DEF NodeInv, TableReady, Age, netvars
<1>2. CASE TableReady
    <2> DEFINE e == <<>>
    <2>1. table' = <<BucketWith(e)>>
        BY Zenon, <1>2 DEF TableReady, EmptyTable, EmptyBucket, BucketWith
    <2>2. e \in Seq(RoutingNode) /\ Len(e) = 0 /\ DOMAIN e = {}
        OBVIOUS
    <2> HIDE DEF e
    <2>3. BucketWith(e) \in Bucket /\ BucketWith(e).nodes = e
        BY Zenon, <2>2 DEF BucketWith, Bucket, e
    <2>4. Fits(e, 1, 1) /\ ContactsOf(e) = {}
        BY Zenon, <2>2 DEF Fits, Distinct, ContactsOf
    <2>5. /\ table' \in Seq(Bucket) /\ Len(table') = 1 /\ DOMAIN table' = {1}
          /\ table'[1] = BucketWith(e) /\ table' # <<>>
        BY <2>1, <2>3
    <2>6. 0 <= BUCKET_SIZE
        BY TableAssumption
    <2>7. Sound(table')
        BY <2>2, <2>3, <2>4, <2>5, <2>6 DEF Sound
    <2>8. InTable(table') = {}
        BY Zenon, <2>3, <2>4, <2>5, InTableIs
    <2>9. QED
        BY Zenon, <1>1, <2>5, <2>7, <2>8 DEF NodeInv
<1>3. ASSUME NEW c, NEW field, Age(c, field) PROVE NodeInv'
    <2>1. table # <<>> /\ table' = Forget(table, c, field)
        BY Zenon, <1>3 DEF Age
    <2>2. Sound(table') /\ InTable(table') \subseteq InTable(table)
        BY Zenon, <1>1, <2>1, ForgetSound
    <2>3. table' # <<>>
        <3>1. DOMAIN table' = DOMAIN table /\ table \in Seq(Bucket)
            BY Zenon, <1>1, <2>1 DEF Forget, Sound
        <3>2. QED
            BY <2>1, <3>1
    <2>4. QED
        BY Zenon, <1>1, <2>2, <2>3 DEF NodeInv
<1>4. QED
    BY Zenon, <1>2, <1>3

\* NodeInv is inductive ...
LEMMA NodeStep ==
    ASSUME NodeInv, [Next]_vars
    PROVE  NodeInv'
<1>1. CASE UNCHANGED <<w, table, requests, heard>>
    BY Zenon, <1>1 DEF NodeInv, Requests, RepliedTo
<1>2. ASSUME NEW t, QueryNotSent(t) \/ QueryAnswered(t) \/ QueryExpires(t)
      PROVE  NodeInv'
    <2>1. Active(t) /\ w' = w /\ heard' = heard
        BY Zenon, <1>2 DEF QueryNotSent, QueryAnswered, QueryExpires
    <2>2. \E ok \in BOOLEAN : (ok => requests[t].y = "r") /\ Settle(t, ok)
        BY Zenon, <1>2 DEF QueryNotSent, QueryAnswered, QueryExpires
    <2>3. QED
        BY Zenon, <2>1, <2>2, SettleKeeps
<1>3. ASSUME NEW c \in w.contacts, NEW ro \in BOOLEAN, HandleQuery(c, ro)
      PROVE  NodeInv'
    BY Zenon, <1>3, HandleQueryHandles, HandleKeeps
<1>4. QueryIgnored \/ HandlerReturns \/ Tick \/ ExpireSwarms \/ ExpireItems \/ UNCHANGED vars
        => UNCHANGED <<w, table, requests, heard>>
    BY Zenon DEF QueryIgnored, HandlerReturns, Tick, ExpireSwarms, ExpireItems, vars, netvars
<1>5. QED
    BY Zenon, <1>1, <1>2, <1>3, <1>4, SendQueryKeeps, QuerySentKeeps, ReceiveReplyKeeps, TableKeeps
    DEF Next

\* ... and holds initially ...
LEMMA NodeStart ==
    ASSUME Init
    PROVE  NodeInv
<1>1. /\ w \in World /\ table = <<>> /\ requests = <<>> /\ heard = {}
    BY Zenon, WorldsAssumption DEF Init
<1>2. Sound(table) /\ Requests(requests, heard) /\ InTable(table) \subseteq heard
    BY <1>1 DEF Sound, Requests, RepliedTo, InTable
<1>3. QED
    BY Zenon, <1>1, <1>2 DEF NodeInv

\* ... and implies what is to be shown.
LEMMA SoundIsTableSound ==
    ASSUME NodeInv
    PROVE  TableSound
<1> SUFFICES ASSUME NEW b \in DOMAIN table
             PROVE  /\ Len(table[b].nodes) <= BUCKET_SIZE
                    /\ Len(table[b].verified) + Len(table[b].unverified)
                          <= Questionable(table[b].nodes)
                    /\ \A i \in DOMAIN table[b].nodes :
                         /\ find_bucket_id(table, table[b].nodes[i].contact.id) = b
                         /\ \A j \in DOMAIN table[b].nodes :
                              table[b].nodes[i].contact = table[b].nodes[j].contact => i = j
    BY Zenon DEF TableSound
<1> DEFINE s == table[b].nodes
<1>1. table \in Seq(Bucket) /\ b \in 1 .. Len(table) /\ table # <<>>
    BY LenProperties DEF NodeInv, Sound
<1>2. Fits(s, Len(table), b) /\ Len(s) <= BUCKET_SIZE
    BY Zenon, <1>1 DEF NodeInv, Sound
<1>3. table[b] \in Bucket
    BY Zenon, <1>1, ElementOfSeq
<1>4. s \in Seq(RoutingNode) /\ table[b].verified = <<>> /\ table[b].unverified = <<>>
    BY Zenon, <1>3 DEF Bucket
<1>5. Questionable(s) \in Nat
    BY Zenon, <1>4, QuestionableIsNat
<1>6. Len(table[b].verified) + Len(table[b].unverified) <= Questionable(s)
    BY <1>4, <1>5
<1>7. \A i \in DOMAIN s : find_bucket_id(table, s[i].contact.id) = b
    BY Zenon, <1>1, <1>2, FindBucket DEF Fits
<1>8. \A i, j \in DOMAIN s : s[i].contact = s[j].contact => i = j
    BY Zenon, <1>2 DEF Fits, Distinct
<1>9. QED
    BY Zenon, <1>2, <1>6, <1>7, <1>8

\* The routing table keeps its shape, over any sequence of additions, splits,
\* failures and answers (routing_table.cpp): every node is in the bucket of its
\* id and there once, no bucket is too large, and there are no more candidates
\* than questionable nodes.
THEOREM TableStaysSound == Spec => []TableSound
<1>1. Init => NodeInv
    BY Zenon, NodeStart
<1>2. NodeInv /\ [Next]_vars => NodeInv'
    BY Zenon, NodeStep
<1>3. NodeInv => TableSound
    BY Zenon, SoundIsTableSound
<1>4. QED
    BY <1>1, <1>2, <1>3, PTL DEF Spec

\* A contact is in the routing table only if it answered a query of this node
\* from the endpoint the query was sent to (mainline_dht.cpp).
THEOREM TableHoldsWhoAnswered == Spec => []OnlyHeardInTable
<1>1. Init => NodeInv
    BY Zenon, NodeStart
<1>2. NodeInv /\ [Next]_vars => NodeInv'
    BY Zenon, NodeStep
<1>3. NodeInv => OnlyHeardInTable
    BY Zenon DEF NodeInv, OnlyHeardInTable
<1>4. QED
    BY <1>1, <1>2, <1>3, PTL DEF Spec

=============================================================================
