------------------------- MODULE ImageFormatProofs --------------------------
(***************************************************************************)
(* What the proofs about images need to know of the reference for a        *)
(* complete one: which block is the k-th used one, and which cell is at    *)
(* which position, for every bitmap and every number of blocks per         *)
(* checksum.                                                               *)
(***************************************************************************)
EXTENDS ImageFormat, FiniteSetTheorems, SequenceTheorems, WellFoundedInduction, TLAPS

USE TotalBlocksAssumption, BufferCapacityAssumption

(* Quotient and rest are determined.                                       *)
LEMMA DivModUnique ==
    ASSUME NEW d \in Nat \ {0}, NEW q \in Nat, NEW r \in 0 .. d - 1
    PROVE  (q * d + r) \div d = q /\ (q * d + r) % d = r
OBVIOUS

(* A number is its quotient times the divisor and its rest.                *)
LEMMA DivModSplit ==
    ASSUME NEW d \in Nat \ {0}, NEW x \in Nat
    PROVE  /\ x \div d \in Nat /\ x % d \in 0 .. d - 1
           /\ x = (x \div d) * d + (x % d)
OBVIOUS

(* A bitmap and the part of it below a block are finite.                   *)
LEMMA BitmapFinite ==
    ASSUME NEW B \in SUBSET Blocks, NEW b \in Int
    PROVE  /\ IsFiniteSet(B) /\ Cardinality(B) \in Nat
           /\ IsFiniteSet(Below(B, b)) /\ Cardinality(Below(B, b)) \in Nat
           /\ Cardinality(Below(B, b)) =< Cardinality(B)
           /\ Cardinality(Below(B, b)) = Cardinality(B) => Below(B, b) = B
<1>1. IsFiniteSet(Blocks)
    BY FS_Interval DEF Blocks
<1>2. IsFiniteSet(B)
    BY <1>1, FS_Subset
<1>3. Below(B, b) \in SUBSET B
    BY DEF Below
<1>4. /\ IsFiniteSet(Below(B, b)) /\ Cardinality(Below(B, b)) =< Cardinality(B)
      /\ Cardinality(B) = Cardinality(Below(B, b)) => B = Below(B, b)
    BY <1>2, <1>3, FS_Subset
<1>5. QED BY <1>2, <1>4, FS_CardinalityType

(* Unused blocks do not count.                                             *)
LEMMA BelowSkip ==
    ASSUME NEW B \in SUBSET Blocks, NEW b \in Nat, NEW s \in Nat, b =< s,
           \A u \in b .. s - 1 : u \notin B
    PROVE  Below(B, s) = Below(B, b)
<1>1. \A u \in B : u < s <=> u < b
    BY DEF Blocks
<1>2. QED BY <1>1 DEF Below

(* A run of used blocks counts in full.                                    *)
LEMMA BelowRun ==
    ASSUME NEW B \in SUBSET Blocks, NEW b \in Nat, NEW n \in Nat,
           b .. b + n - 1 \subseteq B
    PROVE  Cardinality(Below(B, b + n)) = Cardinality(Below(B, b)) + n
<1>1. IsFiniteSet(b .. b + n - 1) /\ Cardinality(b .. b + n - 1) = n
    BY FS_Interval
<1>2. Below(B, b + n) = Below(B, b) \cup (b .. b + n - 1)
    <2>1. \A u \in B : u \in Int
        BY DEF Blocks
    <2>2. \A u \in B : u < b + n <=> u < b \/ u \in b .. b + n - 1
        BY <2>1
    <2>3. \A u \in b .. b + n - 1 : u \in B /\ u < b + n
        OBVIOUS
    <2>4. QED BY <2>2, <2>3 DEF Below
<1>3. Below(B, b) \cap (b .. b + n - 1) = {}
    BY DEF Below, Blocks
<1>4. Cardinality({}) = 0
    BY FS_EmptySet
<1>5. b \in Int
    OBVIOUS
<1>6. IsFiniteSet(Below(B, b)) /\ Cardinality(Below(B, b)) \in Nat
    BY <1>5, BitmapFinite
<1>7. Cardinality(Below(B, b) \cup (b .. b + n - 1))
        = Cardinality(Below(B, b)) + Cardinality(b .. b + n - 1)
            - Cardinality(Below(B, b) \cap (b .. b + n - 1))
    BY <1>1, <1>6, FS_Union
<1>8. Cardinality(Below(B, b) \cap (b .. b + n - 1)) = 0
    BY <1>3, <1>4
<1>9. Cardinality(Below(B, b) \cup (b .. b + n - 1)) = Cardinality(Below(B, b)) + n
    BY <1>1, <1>6, <1>7, <1>8
<1>10. QED BY <1>2, <1>9

(* There are fewer used blocks below a used block than there are.          *)
LEMMA BelowUsed ==
    ASSUME NEW B \in SUBSET Blocks, NEW b \in B
    PROVE  Cardinality(Below(B, b)) < Cardinality(B)
<1>1. b \in Int
    BY DEF Blocks
<1>2. b \notin Below(B, b)
    BY <1>1 DEF Below
<1>3. /\ Cardinality(B) \in Nat /\ Cardinality(Below(B, b)) \in Nat
      /\ Cardinality(Below(B, b)) =< Cardinality(B)
      /\ Cardinality(Below(B, b)) = Cardinality(B) => Below(B, b) = B
    BY <1>1, BitmapFinite
<1>4. QED BY <1>2, <1>3

(* The used block with k used blocks below it is the one after the k-th.   *)
LEMMA KthUsedIs ==
    ASSUME NEW B \in SUBSET Blocks, NEW b \in B
    PROVE  KthUsed(B, Cardinality(Below(B, b)) + 1) = b
<1> DEFINE k == Cardinality(Below(B, b)) + 1
<1>1. \A u \in B : u \in Int
    BY DEF Blocks
<1>2. Cardinality(Below(B, b)) \in Nat
    BY <1>1, BitmapFinite
<1>3. Cardinality(Below(B, b)) = k - 1
    BY <1>2
<1>4. ASSUME NEW c \in B, NEW d \in B, c < d
      PROVE  Cardinality(Below(B, c)) # Cardinality(Below(B, d))
    <2>1. c \in Int /\ d \in Int
        BY <1>1
    <2>2. Below(B, c) \in SUBSET Below(B, d)
        BY <1>1, <1>4 DEF Below
    <2>3. c \in Below(B, d) /\ c \notin Below(B, c)
        BY <1>4, <2>1 DEF Below
    <2>4. IsFiniteSet(Below(B, d))
        BY <2>1, BitmapFinite
    <2>5. QED BY <2>2, <2>3, <2>4, FS_Subset
<1>5. \A c \in B : Cardinality(Below(B, c)) = k - 1 => c = b
    <2> SUFFICES ASSUME NEW c \in B, Cardinality(Below(B, c)) = k - 1, c # b PROVE FALSE
        OBVIOUS
    <2>1. c < b \/ b < c
        BY <1>1
    <2>2. QED BY <1>3, <1>4, <2>1
<1> HIDE DEF k
<1>6. KthUsed(B, k) = b
    BY <1>3, <1>5 DEF KthUsed
<1>7. QED BY <1>6 DEF k

(* The cells grow by the block and, where it completes a group, by its     *)
(* checksum.                                                               *)
LEMMA CellsGrow ==
    ASSUME NEW m \in Nat
    PROVE  /\ CellsOf(m) \in Nat /\ m =< CellsOf(m)
           /\ (m + 1) % blocks_per_checksum = 0 =>
                 m % blocks_per_checksum = blocks_per_checksum - 1 /\ CellsOf(m + 1) = CellsOf(m) + 2
           /\ (m + 1) % blocks_per_checksum # 0 =>
                 /\ (m + 1) % blocks_per_checksum = (m % blocks_per_checksum) + 1
                 /\ CellsOf(m + 1) = CellsOf(m) + 1
<1> DEFINE C == blocks_per_checksum
           q == m \div C
           r == m % C
<1>1. C \in Nat \ {0}
    BY DEF blocks_per_checksum
<1> HIDE DEF C
<1>2. q \in Nat /\ r \in 0 .. C - 1 /\ m = q * C + r
    BY <1>1, DivModSplit
<1>3. CellsOf(m) = m + q
    BY DEF CellsOf, C
<1>4. CellsOf(m + 1) = (m + 1) + ((m + 1) \div C)
    BY DEF CellsOf, C
<1> HIDE DEF q, r
<1>5. CASE r = C - 1
    <2>1. m + 1 = (q + 1) * C + 0
        BY <1>1, <1>2, <1>5
    <2>2. (m + 1) \div C = q + 1 /\ (m + 1) % C = 0
        BY <1>1, <1>2, <2>1, DivModUnique
    <2>3. QED BY <1>1, <1>2, <1>3, <1>4, <1>5, <2>2 DEF C, r
<1>6. CASE r # C - 1
    <2>1. m + 1 = q * C + (r + 1) /\ r + 1 \in 0 .. C - 1
        BY <1>1, <1>2, <1>6
    <2>2. (m + 1) \div C = q /\ (m + 1) % C = r + 1
        BY <1>1, <1>2, <2>1, DivModUnique
    <2>3. QED BY <1>1, <1>2, <1>3, <1>4, <1>6, <2>2 DEF C, r
<1>7. QED BY <1>5, <1>6

(* The cell of the block after m others.                                   *)
LEMMA BlockCell ==
    ASSUME NEW B, NEW contents, NEW m \in Nat, Cardinality(B) \in Nat, m < Cardinality(B)
    PROVE  CellAt(B, contents, CellsOf(m) + 1) = Block(contents[KthUsed(B, m + 1)])
<1> DEFINE C == blocks_per_checksum
           n == Cardinality(B)
           q == m \div C
           r == m % C
           p == CellsOf(m) + 1
           group == Group(B, contents, q + 1)
           size == IF (q + 1) * C =< n THEN C ELSE n % C
<1>1. C \in Nat \ {0} /\ n \in Nat
    BY DEF blocks_per_checksum
<1> HIDE DEF C, n
<1>2. q \in Nat /\ r \in 0 .. C - 1 /\ m = q * C + r
    BY <1>1, DivModSplit
<1>3. p - 1 = q * (C + 1) + r
    <2>1. CellsOf(m) = m + q
        BY DEF CellsOf, C
    <2> HIDE DEF q, r
    <2>2. m + q = q * (C + 1) + r
        BY <1>1, <1>2
    <2>3. m + q \in Nat
        BY <1>2
    <2>4. QED BY <2>1, <2>2, <2>3
<1> HIDE DEF q, r, p
<1>4. (p - 1) \div (C + 1) = q /\ (p - 1) % (C + 1) = r
    <2>1. C + 1 \in Nat \ {0} /\ r \in 0 .. (C + 1) - 1
        BY <1>1, <1>2
    <2>2. (q * (C + 1) + r) \div (C + 1) = q /\ (q * (C + 1) + r) % (C + 1) = r
        BY <1>2, <2>1, DivModUnique
    <2>3. QED BY <1>3, <2>2
<1>5. size \in Nat /\ r + 1 =< size
    <2>1. CASE (q + 1) * C =< n
        BY <1>1, <1>2, <2>1
    <2>2. CASE ~((q + 1) * C =< n)
        <3>1. n = q * C + (n - q * C) /\ n - q * C \in 0 .. C - 1
            BY <1>1, <1>2, <2>2 DEF n
        <3>2. n % C = n - q * C
            <4>1. (q * C + (n - q * C)) % C = n - q * C
                BY <1>1, <1>2, <3>1, DivModUnique
            <4>2. QED BY <3>1, <4>1
        <3>3. QED BY <1>1, <1>2, <2>2, <3>1, <3>2 DEF n
    <2>3. QED BY <2>1, <2>2
<1>6. group = [k \in 1 .. size |-> contents[KthUsed(B, q * C + k)]]
    BY <1>1, <1>2 DEF Group, C, n
<1> HIDE DEF group, size
<1>7. Len(group) = size
    BY <1>5, <1>6
<1>8. group[r + 1] = contents[KthUsed(B, m + 1)]
    <2>1. q * C + (r + 1) = m + 1 /\ r + 1 \in 1 .. size
        BY <1>1, <1>2, <1>5
    <2>2. group[r + 1] = contents[KthUsed(B, q * C + (r + 1))]
        BY <1>6, <2>1
    <2>3. QED BY <2>1, <2>2
<1>9. CellAt(B, contents, p) = IF r + 1 =< Len(group) THEN Block(group[r + 1]) ELSE Checksum(group)
    BY <1>4 DEF CellAt, C, group
<1>10. QED BY <1>5, <1>7, <1>8, <1>9 DEF p

(* The checksum behind a full group, and what it covers.                   *)
LEMMA ChecksumCell ==
    ASSUME NEW B, NEW contents, NEW m \in Nat \ {0}, Cardinality(B) \in Nat, m =< Cardinality(B),
           m % blocks_per_checksum = 0
    PROVE  CellAt(B, contents, CellsOf(m))
             = Checksum([k \in 1 .. blocks_per_checksum |->
                            contents[KthUsed(B, m - blocks_per_checksum + k)]])
<1> DEFINE C == blocks_per_checksum
           n == Cardinality(B)
           g == m \div C
           p == CellsOf(m)
           group == Group(B, contents, g)
<1>1. C \in Nat \ {0} /\ n \in Nat
    BY DEF blocks_per_checksum
<1>2. p = m + g
    BY DEF CellsOf
<1>3. m % C = 0
    OBVIOUS
<1> HIDE DEF C, n
<1>4. g \in Nat /\ m = g * C + 0
    <2>1. g \in Nat /\ m = g * C + (m % C)
        BY <1>1, DivModSplit
    <2>2. QED BY <1>3, <2>1
<1> HIDE DEF g, p
<1>5. g - 1 \in Nat
    BY <1>1, <1>4
<1>6. p - 1 = (g - 1) * (C + 1) + C
    BY <1>1, <1>2, <1>4
<1>7. (p - 1) \div (C + 1) = g - 1 /\ (p - 1) % (C + 1) = C
    <2>1. C + 1 \in Nat \ {0} /\ C \in 0 .. (C + 1) - 1
        BY <1>1
    <2>2. ((g - 1) * (C + 1) + C) \div (C + 1) = g - 1 /\ ((g - 1) * (C + 1) + C) % (C + 1) = C
        BY <1>5, <2>1, DivModUnique
    <2>3. QED BY <1>6, <2>2
<1>8. group = [k \in 1 .. C |-> contents[KthUsed(B, m - C + k)]]
    <2>1. g * C =< n /\ (g - 1) * C = m - C
        BY <1>1, <1>4 DEF n
    <2>2. group = [k \in 1 .. C |-> contents[KthUsed(B, (g - 1) * C + k)]]
        BY <2>1 DEF Group, C, n
    <2>3. QED BY <2>1, <2>2
<1> HIDE DEF group
<1>9. Len(group) = C
    BY <1>1, <1>8
<1>10. CellAt(B, contents, p) = IF C + 1 =< Len(group) THEN Block(group[C + 1]) ELSE Checksum(group)
    <2>1. (g - 1) + 1 = g
        BY <1>4
    <2>2. QED BY <1>7, <2>1 DEF CellAt, C, group
<1>11. QED BY <1>1, <1>8, <1>9, <1>10 DEF C, p

(* The checksum of the rest is the last cell.                              *)
LEMMA TrailerCell ==
    ASSUME NEW B, NEW contents, Cardinality(B) \in Nat, Cardinality(B) % blocks_per_checksum # 0
    PROVE  CellAt(B, contents, DataLength(Cardinality(B)))
             = Checksum([k \in 1 .. Cardinality(B) % blocks_per_checksum |->
                            contents[KthUsed(B, Cardinality(B)
                                                 - (Cardinality(B) % blocks_per_checksum) + k)]])
<1> DEFINE C == blocks_per_checksum
           n == Cardinality(B)
           q == n \div C
           r == n % C
           p == DataLength(n)
           group == Group(B, contents, q + 1)
<1>1. C \in Nat \ {0} /\ n \in Nat
    BY DEF blocks_per_checksum
<1>2. p = CellsOf(n) + 1 /\ CellsOf(n) = n + q
    BY DEF DataLength, CellsOf
<1> HIDE DEF C, n
<1>3. q \in Nat /\ r \in 0 .. C - 1 /\ n = q * C + r
    BY <1>1, DivModSplit
<1> HIDE DEF q, r, p
<1>4. p - 1 = q * (C + 1) + r
    BY <1>1, <1>2, <1>3
<1>5. (p - 1) \div (C + 1) = q /\ (p - 1) % (C + 1) = r
    <2>1. C + 1 \in Nat \ {0} /\ r \in 0 .. (C + 1) - 1
        BY <1>1, <1>3
    <2>2. (q * (C + 1) + r) \div (C + 1) = q /\ (q * (C + 1) + r) % (C + 1) = r
        BY <1>3, <2>1, DivModUnique
    <2>3. QED BY <1>4, <2>2
<1>6. group = [k \in 1 .. r |-> contents[KthUsed(B, n - r + k)]]
    <2>1. ~((q + 1) * C =< n) /\ q * C = n - r /\ (q + 1) - 1 = q
        BY <1>1, <1>3
    <2>2. group = [k \in 1 .. r |-> contents[KthUsed(B, ((q + 1) - 1) * C + k)]]
        BY <2>1 DEF Group, C, n, r
    <2>3. QED BY <2>1, <2>2
<1> HIDE DEF group
<1>7. Len(group) = r
    BY <1>3, <1>6
<1>8. CellAt(B, contents, p) = IF r + 1 =< Len(group) THEN Block(group[r + 1]) ELSE Checksum(group)
    BY <1>5 DEF CellAt, C, group
<1>9. QED BY <1>3, <1>6, <1>7, <1>8 DEF C, n, r, p

(* The data of an image is a sequence of its cells, and the cells of some  *)
(* of the blocks are a beginning of it.                                    *)
LEMMA DataCells ==
    ASSUME NEW B \in SUBSET Blocks, NEW contents
    PROVE  /\ DataLength(Cardinality(B)) \in Nat
           /\ ImageData(B, contents)
                \in Seq({CellAt(B, contents, p) : p \in 1 .. DataLength(Cardinality(B))})
           /\ Len(ImageData(B, contents)) = DataLength(Cardinality(B))
           /\ \A p \in 1 .. DataLength(Cardinality(B)) : ImageData(B, contents)[p] = CellAt(B, contents, p)
           /\ CellsOf(Cardinality(B)) =< DataLength(Cardinality(B))
<1> DEFINE n == Cardinality(B)
           L == DataLength(n)
           data == ImageData(B, contents)
<1>1. n \in Nat /\ CellsOf(n) \in Nat
    BY BitmapFinite, CellsGrow
<1>2. L \in Nat /\ CellsOf(n) =< L
    BY <1>1 DEF DataLength
<1>3. data = [p \in 1 .. L |-> CellAt(B, contents, p)]
    BY DEF ImageData
<1> HIDE DEF L
<1>4. data \in [1 .. L -> {CellAt(B, contents, p) : p \in 1 .. L}]
    BY <1>3
<1>5. data \in Seq({CellAt(B, contents, p) : p \in 1 .. L})
    BY <1>2, <1>4, SeqDef
<1>6. Len(data) = L
    BY <1>2, <1>3
<1>7. QED BY <1>2, <1>3, <1>5, <1>6 DEF L

(* The cells of fewer blocks are fewer.                                    *)
LEMMA CellsMonotone ==
    ASSUME NEW m \in Nat, NEW n \in Nat, m =< n
    PROVE  CellsOf(m) =< CellsOf(n)
<1> DEFINE C == blocks_per_checksum
<1>1. C \in Nat \ {0}
    BY DEF blocks_per_checksum
<1> HIDE DEF C
<1>2. m \div C =< n \div C
    <2> DEFINE q == m \div C
               t == n \div C
    <2>1. /\ q \in Nat /\ t \in Nat /\ m % C \in 0 .. C - 1 /\ n % C \in 0 .. C - 1
          /\ m = q * C + (m % C) /\ n = t * C + (n % C)
        BY <1>1, DivModSplit
    <2> HIDE DEF q, t
    <2>2. q =< t
        <3> SUFFICES ASSUME t + 1 =< q PROVE FALSE
            BY <2>1
        <3>1. (t + 1) * C =< q * C
            BY <1>1, <2>1
        <3>2. t * C + C =< q * C
            BY <1>1, <2>1, <3>1
        <3>3. t * C \in Nat /\ q * C \in Nat
            BY <1>1, <2>1
        <3>4. QED BY <1>1, <2>1, <3>2, <3>3
    <2>3. QED BY <2>2 DEF q, t
<1>3. m \div C \in Nat /\ n \div C \in Nat
    BY <1>1, DivModSplit
<1>4. QED BY <1>2, <1>3 DEF CellsOf, C

(* The sequences of one and of two elements.                               *)
LEMMA PairTuples ==
    ASSUME NEW S, NEW a \in S, NEW b \in S
    PROVE  /\ <<a, b>> \in Seq(S) /\ Len(<<a, b>>) = 2
           /\ <<a>> \in Seq(S) /\ Len(<<a>>) = 1
           /\ SubSeq(<<a, b>>, 1, 1) = <<a>>
           /\ <<a>> \o <<b>> = <<a, b>>
<1> DEFINE one == <<a>>
           two == <<a, b>>
<1>1. two \in Seq(S) /\ Len(two) = 2 /\ two[1] = a /\ two[2] = b
    OBVIOUS
<1>2. one \in Seq(S) /\ Len(one) = 1 /\ one[1] = a
    OBVIOUS
<1>3. SubSeq(two, 1, 1) = one
    <2> DEFINE s == SubSeq(two, 1, 1)
    <2> HIDE DEF one, two
    <2>1. s \in Seq(S) /\ Len(s) = 1 /\ s[1] = a
        BY <1>1, SubSeqProperties
    <2> HIDE DEF s
    <2>2. \A k \in 1 .. Len(s) : s[k] = one[k]
        BY <1>2, <2>1
    <2>3. s = one
        BY <1>2, <2>1, <2>2, SeqEqual
    <2>4. QED BY <2>3 DEF s
<1>4. one \o <<b>> = two
    <2> DEFINE last == <<b>>
               s == one \o last
    <2>1. last \in Seq(S) /\ Len(last) = 1 /\ last[1] = b
        OBVIOUS
    <2> HIDE DEF one, two, last
    <2>2. /\ s \in Seq(S) /\ Len(s) = 2
          /\ \A k \in 1 .. 2 : s[k] = IF k =< 1 THEN one[k] ELSE last[k - 1]
        BY <1>2, <2>1, ConcatProperties
    <2> HIDE DEF s
    <2>3. \A k \in 1 .. Len(s) : s[k] = two[k]
        BY <1>1, <1>2, <2>1, <2>2
    <2>4. s = two
        BY <1>1, <2>2, <2>3, SeqEqual
    <2>5. QED BY <2>4 DEF s, last
<1>5. QED BY <1>1, <1>2, <1>3, <1>4

(* The cells of an image that the blocks behind the c-th add up to the     *)
(* m-th, and the checksum of the full group that ends with the m-th block. *)
CellRun(B, contents, c, m) ==
    SubSeq(ImageData(B, contents), CellsOf(c) + 1, CellsOf(m))

GroupSum(B, contents, m) ==
    Checksum([k \in 1 .. blocks_per_checksum |-> contents[KthUsed(B, m - blocks_per_checksum + k)]])

(* The cells that the next used block adds to a run of cells: itself, and  *)
(* the checksum of the group it completes.                                 *)
RunGrows(B, contents, b, c, m) ==
    /\ (m + 1) % blocks_per_checksum = 0 =>
          CellRun(B, contents, c, m + 1)
            = CellRun(B, contents, c, m) \o <<Block(contents[b]), GroupSum(B, contents, m + 1)>>
    /\ (m + 1) % blocks_per_checksum # 0 =>
          CellRun(B, contents, c, m + 1) = CellRun(B, contents, c, m) \o <<Block(contents[b])>>

(* A run of cells grows that way with every used block.                    *)
LEMMA NextCells ==
    ASSUME NEW B \in SUBSET Blocks, NEW contents, NEW b \in B,
           NEW m \in Nat, m = Cardinality(Below(B, b)), NEW c \in 0 .. m
    PROVE  RunGrows(B, contents, b, c, m)
<1> DEFINE data  == ImageData(B, contents)
           group == [k \in 1 .. blocks_per_checksum |->
                       contents[KthUsed(B, (m + 1) - blocks_per_checksum + k)]]
           S     == {CellAt(B, contents, p) : p \in 1 .. DataLength(Cardinality(B))}
           n     == Cardinality(B)
           first == CellsOf(c) + 1
           block == Block(contents[b])
           sum   == Checksum(group)
           mid   == CellsOf(m)
           last  == CellsOf(m + 1)
           rest  == (m + 1) % blocks_per_checksum
           run   == SubSeq(data, first, mid)
<1>1. n \in Nat /\ m < n /\ KthUsed(B, m + 1) = b
    <2>1. b \in Int
        BY DEF Blocks
    <2>2. QED BY <2>1, BelowUsed, KthUsedIs, BitmapFinite
<1>2. /\ data \in Seq(S) /\ Len(data) \in Nat
      /\ \A p \in 1 .. Len(data) : data[p] = CellAt(B, contents, p)
      /\ CellsOf(n) =< Len(data)
    BY DataCells
<1>3. /\ mid \in Nat /\ last \in Nat /\ first \in Nat \ {0} /\ first =< mid + 1
      /\ last =< CellsOf(n) /\ CellsOf(n) \in Nat
    BY <1>1, CellsGrow, CellsMonotone
<1>4. /\ rest = 0 => last = mid + 2
      /\ rest # 0 => last = mid + 1
    BY CellsGrow
<1>5. CellAt(B, contents, mid + 1) = block
    BY <1>1, BlockCell
<1>6. rest = 0 => CellAt(B, contents, last) = sum
    <2>1. SUFFICES ASSUME rest = 0
                   PROVE  CellAt(B, contents, last) = sum
        OBVIOUS
    <2> DEFINE j == m + 1
    <2>2. j \in Nat \ {0} /\ j =< Cardinality(B) /\ Cardinality(B) \in Nat
        BY <1>1
    <2>3. j % blocks_per_checksum = 0
        BY <2>1
    <2> HIDE DEF j
    <2>4. CellAt(B, contents, CellsOf(j))
            = Checksum([k \in 1 .. blocks_per_checksum |->
                           contents[KthUsed(B, j - blocks_per_checksum + k)]])
        BY <2>2, <2>3, ChecksumCell
    <2>5. QED BY <2>4 DEF j
<1> HIDE DEF data, group, S, n, first, block, sum, mid, last, rest
<1>7. mid + 1 =< Len(data) /\ last =< Len(data)
    BY <1>2, <1>3, <1>4
<1>8. SubSeq(data, first, mid + 1) = run \o <<block>> /\ data[mid + 1] = block
    <2>1. data[mid + 1] = block
        BY <1>2, <1>3, <1>5, <1>7
    <2>2. first \in 1 .. Len(data) /\ mid + 1 \in first .. Len(data) /\ (mid + 1) - 1 = mid
        BY <1>2, <1>3, <1>7
    <2>3. SubSeq(data, first, mid + 1) = SubSeq(data, first, (mid + 1) - 1) \o <<data[mid + 1]>>
        BY <1>2, <2>2, SubSeqRecursiveSecond
    <2>4. QED BY <2>1, <2>2, <2>3
<1>9. rest # 0 => SubSeq(data, first, last) = run \o <<block>>
    BY <1>4, <1>8
<1>10. ASSUME rest = 0
       PROVE  SubSeq(data, first, last) = run \o <<block, sum>>
    <2>1. last = mid + 2 /\ last - 1 = mid + 1 /\ first \in 1 .. Len(data) /\ last \in first .. Len(data)
        BY <1>2, <1>3, <1>4, <1>7, <1>10
    <2>2. data[last] = sum
        BY <1>2, <1>6, <1>10, <2>1
    <2>3. SubSeq(data, first, last) = SubSeq(data, first, last - 1) \o <<data[last]>>
        BY <1>2, <2>1, SubSeqRecursiveSecond
    <2>4. SubSeq(data, first, last) = (run \o <<block>>) \o <<sum>>
        BY <1>8, <2>1, <2>2, <2>3
    <2>5. block \in S /\ sum \in S
        <3>1. mid + 1 \in 1 .. Len(data) /\ last \in 1 .. Len(data)
            BY <1>2, <1>3, <1>7, <2>1
        <3>2. QED BY <1>2, <1>8, <2>2, <3>1, ElementOfSeq
    <2>6. /\ <<block>> \in Seq(S) /\ <<sum>> \in Seq(S)
          /\ <<block>> \o <<sum>> = <<block, sum>>
        BY <2>5, PairTuples
    <2>7. run \in Seq(S)
        <3>1. \A p \in first .. mid : data[p] \in S
            BY <1>2, <1>3, <1>7, ElementOfSeq
        <3>2. QED BY <1>3, <3>1, SubSeqProperties
    <2>8. (run \o <<block>>) \o <<sum>> = run \o (<<block>> \o <<sum>>)
        <3> HIDE DEF run
        <3>1. QED BY <2>6, <2>7, ConcatAssociative
    <2>9. QED BY <2>4, <2>6, <2>8
<1>11. QED
    BY <1>9, <1>10 DEF RunGrows, CellRun, GroupSum, data, group, first, block, sum, mid, last, rest

(* A sequence over a set is one over every larger set.                     *)
LEMMA SeqWiden ==
    ASSUME NEW S, NEW T, S \subseteq T, NEW s \in Seq(S)
    PROVE  s \in Seq(T)
<1>1. s \in [1 .. Len(s) -> S] /\ Len(s) \in Nat
    BY LenProperties
<1>2. s \in [1 .. Len(s) -> T]
    BY <1>1
<1>3. QED BY <1>1, <1>2, SeqDef

(* A header and the cells that follow it up to the c-th used block.        *)
Stored(h, B, contents, c) == h \o SubSeq(ImageData(B, contents), 1, CellsOf(c))

(* Behind a header, the cells up to one block and the cells up to a later  *)
(* one make the cells up to the later one.                                 *)
LEMMA FileGrows ==
    ASSUME NEW S, NEW h \in Seq(S), NEW B \in SUBSET Blocks, NEW contents,
           NEW c \in Nat, NEW m \in Nat, c =< m, m =< Cardinality(B)
    PROVE  Stored(h, B, contents, c) \o CellRun(B, contents, c, m) = Stored(h, B, contents, m)
<1> DEFINE D     == {CellAt(B, contents, p) : p \in 1 .. DataLength(Cardinality(B))}
           T     == S \cup D
           data  == ImageData(B, contents)
           first == SubSeq(data, 1, CellsOf(c))
           next  == SubSeq(data, CellsOf(c) + 1, CellsOf(m))
<1>1. Cardinality(B) \in Nat
    BY BitmapFinite
<1>2. data \in Seq(D) /\ Len(data) \in Nat /\ CellsOf(Cardinality(B)) =< Len(data)
    BY DataCells
<1>3. /\ CellsOf(c) \in Nat /\ CellsOf(m) \in Nat /\ CellsOf(c) =< CellsOf(m)
      /\ CellsOf(Cardinality(B)) \in Nat /\ CellsOf(m) =< CellsOf(Cardinality(B))
    BY <1>1, CellsGrow, CellsMonotone
<1> HIDE DEF D, data
<1>4. h \in Seq(T) /\ data \in Seq(T)
    BY <1>2, SeqWiden
<1> HIDE DEF T
<1>5. first \in Seq(T) /\ next \in Seq(T)
    <2>1. \A p \in 1 .. CellsOf(m) : data[p] \in T
        BY <1>2, <1>3, <1>4, ElementOfSeq
    <2>2. \A p \in CellsOf(c) + 1 .. CellsOf(m) : data[p] \in T
        BY <1>3, <2>1
    <2>3. \A p \in 1 .. CellsOf(c) : data[p] \in T
        BY <1>3, <2>1
    <2>4. QED BY <1>3, <2>2, <2>3, SubSeqProperties
<1>6. first \o next = SubSeq(data, 1, CellsOf(m))
    <2>1. CellsOf(c) \in 1 - 1 .. Len(data) /\ CellsOf(m) \in CellsOf(c) .. Len(data) /\ 1 \in 1 .. Len(data) + 1
        BY <1>2, <1>3
    <2>2. QED BY <1>4, <2>1, ConcatAdjacentSubSeq
<1> HIDE DEF first, next
<1>7. (h \o first) \o next = h \o (first \o next)
    BY <1>4, <1>5, ConcatAssociative, SMTT(60)
<1>8. QED BY <1>6, <1>7 DEF Stored, CellRun, first, next, data

(* When all used blocks are written, the checksum of the rest makes the    *)
(* image complete; without a rest it is complete already.                  *)
Completes(h, B, contents, n) ==
    /\ n % blocks_per_checksum = 0 =>
          Stored(h, B, contents, n) = h \o ImageData(B, contents)
    /\ n % blocks_per_checksum # 0 =>
          Stored(h, B, contents, n) \o <<CellAt(B, contents, DataLength(n))>>
            = h \o ImageData(B, contents)

LEMMA FileComplete ==
    ASSUME NEW S, NEW h \in Seq(S), NEW B \in SUBSET Blocks, NEW contents, NEW n, n = Cardinality(B)
    PROVE  Completes(h, B, contents, n)
<1> DEFINE D     == {CellAt(B, contents, p) : p \in 1 .. DataLength(Cardinality(B))}
           T     == S \cup D
           data  == ImageData(B, contents)
           first == SubSeq(data, 1, CellsOf(n))
           cell  == CellAt(B, contents, DataLength(n))
<1>1. n \in Nat
    BY BitmapFinite
<1>2. /\ data \in Seq(D) /\ Len(data) = DataLength(n) /\ DataLength(n) \in Nat
      /\ \A p \in 1 .. DataLength(n) : data[p] = CellAt(B, contents, p)
    BY DataCells
<1>3. CellsOf(n) \in Nat
    BY <1>1, CellsGrow
<1> HIDE DEF D, data
<1>4. h \in Seq(T) /\ data \in Seq(T)
    BY <1>2, SeqWiden
<1> HIDE DEF T
<1>5. n % blocks_per_checksum = 0 => first = data
    <2>1. n % blocks_per_checksum = 0 => CellsOf(n) = Len(data)
        BY <1>2, <1>3 DEF DataLength
    <2>2. SubSeq(data, 1, Len(data)) = data
        BY <1>2, SubSeqFull
    <2>3. QED BY <2>1, <2>2
<1>6. ASSUME n % blocks_per_checksum # 0
      PROVE  Stored(h, B, contents, n) \o <<cell>> = h \o data
    <2>1. Len(data) = CellsOf(n) + 1 /\ Len(data) - 1 = CellsOf(n)
        BY <1>2, <1>3, <1>6 DEF DataLength
    <2>2. /\ 1 \in 1 .. Len(data) /\ Len(data) \in 1 .. Len(data)
          /\ data[Len(data)] = cell
        BY <1>2, <1>3, <2>1
    <2> HIDE DEF cell
    <2>3. SubSeq(data, 1, Len(data)) = SubSeq(data, 1, Len(data) - 1) \o <<data[Len(data)]>>
        BY <1>2, <2>2, SubSeqRecursiveSecond
    <2>4. data = first \o <<cell>>
        <3>1. SubSeq(data, 1, Len(data)) = data
            BY <1>2, SubSeqFull
        <3>2. QED BY <2>1, <2>2, <2>3, <3>1
    <2>5. first \in Seq(T) /\ <<cell>> \in Seq(T)
        <3>1. \A p \in 1 .. CellsOf(n) : data[p] \in T
            BY <1>3, <1>4, <2>1, ElementOfSeq
        <3>2. cell \in T
            BY <1>4, <2>2, ElementOfSeq
        <3>3. first \in Seq(T)
            BY <1>3, <3>1, SubSeqProperties
        <3>4. QED BY <3>2, <3>3, PairTuples
    <2> HIDE DEF first
    <2>6. (h \o first) \o <<cell>> = h \o (first \o <<cell>>)
        BY <1>4, <2>5, ConcatAssociative, SMTT(60)
    <2>7. QED BY <2>4, <2>6 DEF Stored, data, first
<1>7. QED BY <1>5, <1>6 DEF Stored, data, Completes

(* A set of numbers has a least one.                                       *)
LEMMA LeastNumber ==
    ASSUME NEW T \in SUBSET Nat, T # {}
    PROVE  \E x \in T : \A y \in T : x =< y
<1> DEFINE R == OpToRel(<, Nat)
<1>1. IsWellFoundedOn(R, Nat)
    BY NatLessThanWellFounded
<1>2. \A x, y \in Nat : <<y, x>> \in R <=> y < x
    BY DEF OpToRel
<1> HIDE DEF R
<1>3. PICK x \in T : \A y \in T : ~(<<y, x>> \in R)
    BY <1>1, WFMin
<1>4. \A y \in T : x =< y
    <2>1. TAKE y \in T
    <2>2. x \in Nat /\ y \in Nat /\ ~(y < x)
        BY <1>2, <1>3
    <2>3. QED BY <2>2
<1>5. QED BY <1>4

(* There is a k-th used block for every number up to the number of them.   *)
LEMMA KthUsedExists ==
    ASSUME NEW B \in SUBSET Blocks, NEW k \in 1 .. Cardinality(B)
    PROVE  KthUsed(B, k) \in B
<1> DEFINE T == {b \in 0 .. TotalBlocks : Cardinality(Below(B, b)) >= k}
<1>1. Cardinality(B) \in Nat /\ \A b \in 0 .. TotalBlocks : Cardinality(Below(B, b)) \in Nat
    BY BitmapFinite
<1>2. TotalBlocks \in T
    <2>1. \A u \in B : u < TotalBlocks
        BY DEF Blocks
    <2>2. Below(B, TotalBlocks) = B
        BY <2>1 DEF Below
    <2>3. Cardinality(Below(B, TotalBlocks)) = Cardinality(B)
        BY <2>2
    <2>4. QED BY <1>1, <2>3
<1>3. PICK b \in T : \A y \in T : b =< y
    <2>1. T \in SUBSET Nat /\ T # {}
        BY <1>2
    <2> HIDE DEF T
    <2>2. QED BY <2>1, LeastNumber
<1>4. b > 0
    <2>1. Below(B, 0) = {}
        <3>1. \A u \in B : ~(u < 0)
            BY DEF Blocks
        <3>2. QED BY <3>1 DEF Below
    <2>2. Cardinality(Below(B, 0)) = 0
        BY <2>1, FS_EmptySet
    <2>3. QED BY <1>3, <2>2
<1> DEFINE a == b - 1
<1>5. a \in 0 .. TotalBlocks /\ a \notin T /\ a \in Nat /\ b = a + 1
    BY <1>3, <1>4
<1>6. Cardinality(Below(B, a)) < k
    BY <1>1, <1>5
<1>7. a \in B
    <2>1. SUFFICES ASSUME a \notin B PROVE FALSE
        OBVIOUS
    <2>2. \A u \in a .. b - 1 : u \notin B
        BY <1>5, <2>1
    <2>3. Below(B, b) = Below(B, a)
        BY <1>5, <2>2, BelowSkip
    <2>4. QED BY <1>1, <1>3, <1>6, <2>3
<1>8. Cardinality(Below(B, a)) = k - 1
    <2>1. a .. a + 1 - 1 \subseteq B
        BY <1>5, <1>7
    <2>2. Cardinality(Below(B, a + 1)) = Cardinality(Below(B, a)) + 1
        BY <1>5, <2>1, BelowRun
    <2>3. Cardinality(Below(B, b)) >= k
        BY <1>3
    <2>4. QED BY <1>1, <1>5, <1>6, <2>2, <2>3
<1>9. QED BY <1>7, <1>8 DEF KthUsed

(* A chunk of a restore: the group of blocks from `base' on, or the rest.  *)
ChunkSize(n, base) ==
    IF base + blocks_per_checksum < n THEN blocks_per_checksum ELSE n - base

(* The cells of a chunk and the checksum behind them, which is where the   *)
(* next chunk or the end of the data is.                                   *)
LEMMA ChunkCells ==
    ASSUME NEW n \in Nat, NEW base \in Nat, base < n, base % blocks_per_checksum = 0
    PROVE  LET k == ChunkSize(n, base)
           IN  /\ k \in 1 .. blocks_per_checksum /\ base + k =< n
               /\ \A j \in 0 .. k - 1 : CellsOf(base + j) = CellsOf(base) + j
               /\ base + k = n => CellsOf(base) + k + 1 = DataLength(n)
               /\ k = blocks_per_checksum =>
                     /\ (base + k) % blocks_per_checksum = 0
                     /\ CellsOf(base + k) = CellsOf(base) + k + 1
               /\ k < blocks_per_checksum =>
                     base + k = n /\ n % blocks_per_checksum = k
<1> DEFINE C == blocks_per_checksum
           k == ChunkSize(n, base)
           q == base \div C
<1>1. C \in Nat \ {0}
    BY DEF blocks_per_checksum
<1>2. q \in Nat /\ base = q * C
    BY <1>1, DivModSplit
<1>3. /\ k \in 1 .. C /\ base + k =< n
      /\ k < C => base + k = n
    BY <1>1 DEF ChunkSize
<1> HIDE DEF C, k, q
<1>4. \A j \in 0 .. C - 1 : (base + j) \div C = q /\ (base + j) % C = j
    BY <1>1, <1>2, DivModUnique
<1>5. (base + C) \div C = q + 1 /\ (base + C) % C = 0
    <2>1. base + C = (q + 1) * C + 0 /\ q + 1 \in Nat /\ 0 \in 0 .. C - 1
        BY <1>1, <1>2
    <2>2. ((q + 1) * C + 0) \div C = q + 1 /\ ((q + 1) * C + 0) % C = 0
        BY <1>1, <2>1, DivModUnique
    <2>3. QED BY <2>1, <2>2
<1>6. CellsOf(base) = base + q /\ \A j \in 0 .. C - 1 : CellsOf(base + j) = CellsOf(base) + j
    <2>1. CellsOf(base) = base + q
        BY DEF CellsOf, C, q
    <2>2. \A j \in 0 .. C - 1 : CellsOf(base + j) = base + j + q
        BY <1>4 DEF CellsOf, C
    <2>3. QED BY <1>1, <1>2, <2>1, <2>2
<1>7. CellsOf(base + C) = CellsOf(base) + C + 1
    <2>1. CellsOf(base + C) = base + C + (q + 1)
        BY <1>5 DEF CellsOf, C
    <2>2. QED BY <1>1, <1>2, <1>6, <2>1
<1>8. base + k = n => CellsOf(base) + k + 1 = DataLength(n)
    <2>1. CASE k = C
        <3>1. base + k = n => DataLength(n) = CellsOf(n)
            BY <1>1, <1>2, <1>3, <1>5, <1>6, <1>7, <2>1 DEF DataLength, C
        <3>2. QED BY <1>7, <2>1, <3>1
    <2>2. CASE k < C
        <3>1. k \in 0 .. C - 1 /\ k # 0
            BY <1>1, <1>3, <2>2
        <3>2. (base + k) % C = k /\ CellsOf(base + k) = CellsOf(base) + k
            BY <1>4, <1>6, <3>1
        <3>3. base + k = n => DataLength(n) = CellsOf(n) + 1
            BY <3>1, <3>2 DEF DataLength, C
        <3>4. QED BY <3>2, <3>3
    <2>3. QED BY <1>1, <1>3, <2>1, <2>2
<1>9. k < C => n % C = k
    <2>1. SUFFICES ASSUME k < C PROVE n % C = k
        OBVIOUS
    <2>2. k \in 0 .. C - 1 /\ base + k = n
        BY <1>1, <1>3, <2>1
    <2>3. QED BY <1>4, <2>2
<1>10. \A j \in 0 .. k - 1 : j \in 0 .. C - 1
    BY <1>1, <1>3
<1>11. QED BY <1>3, <1>5, <1>6, <1>7, <1>8, <1>9, <1>10 DEF C, k

(* The cells of a complete image.                                          *)
IsWhole(whole, u, B, contents) ==
    /\ DataLength(Cardinality(B)) \in Nat
    /\ whole \in Seq({whole[p] : p \in DOMAIN whole})
    /\ Len(whole) = 3 + DataLength(Cardinality(B))
    /\ whole[1] = Desc(u) /\ whole[2] = Bits(B) /\ whole[3] = BitsCrc(B)
    /\ \A p \in 1 .. DataLength(Cardinality(B)) : whole[3 + p] = CellAt(B, contents, p)

LEMMA WholeCells ==
    ASSUME NEW u, NEW B \in SUBSET Blocks, NEW contents
    PROVE  IsWhole(CompleteImage(u, B, contents), u, B, contents)
<1> DEFINE whole == CompleteImage(u, B, contents)
           data  == ImageData(B, contents)
           L     == DataLength(Cardinality(B))
           D     == {CellAt(B, contents, p) : p \in 1 .. L}
           T     == D \cup {Desc(u), Bits(B), BitsCrc(B)}
           h     == <<Desc(u), Bits(B), BitsCrc(B)>>
<1>1. /\ L \in Nat /\ data \in Seq(D) /\ Len(data) = L
      /\ \A p \in 1 .. L : data[p] = CellAt(B, contents, p)
    BY DataCells
<1>2. h \in Seq(T) /\ Len(h) = 3 /\ h[1] = Desc(u) /\ h[2] = Bits(B) /\ h[3] = BitsCrc(B)
    <2> DEFINE x == Desc(u)  y == Bits(B)  z == BitsCrc(B)
    <2>1. x \in T /\ y \in T /\ z \in T /\ h = <<x, y, z>>
        OBVIOUS
    <2> HIDE DEF x, y, z, T, h
    <2>2. h \in Seq(T) /\ Len(h) = 3 /\ h[1] = x /\ h[2] = y /\ h[3] = z
        BY <2>1
    <2>3. QED BY <2>2 DEF x, y, z
<1>3. data \in Seq(T)
    <2>1. D \subseteq T
        OBVIOUS
    <2> HIDE DEF D, T, data
    <2>2. QED BY <1>1, <2>1, SeqWiden
<1>4. whole = h \o data
    BY DEF CompleteImage
<1> HIDE DEF h, data, whole, L, T, D
<1>5. /\ whole \in Seq(T) /\ Len(whole) = 3 + L
      /\ \A p \in 1 .. 3 : whole[p] = h[p]
      /\ \A p \in 1 .. L : whole[3 + p] = data[p]
    <2>1. /\ whole \in Seq(T) /\ Len(whole) = Len(h) + Len(data)
          /\ \A p \in 1 .. Len(h) + Len(data) :
                whole[p] = IF p =< Len(h) THEN h[p] ELSE data[p - Len(h)]
        BY <1>2, <1>3, <1>4, ConcatProperties
    <2>2. \A p \in 1 .. 3 : p \in 1 .. Len(h) + Len(data) /\ p =< Len(h)
        BY <1>1, <1>2
    <2>3. \A p \in 1 .. L : /\ 3 + p \in 1 .. Len(h) + Len(data)
                            /\ ~(3 + p =< Len(h)) /\ (3 + p) - Len(h) = p
        BY <1>1, <1>2
    <2>4. QED BY <1>1, <1>2, <2>1, <2>2, <2>3
<1>6. whole \in Seq({whole[p] : p \in DOMAIN whole})
    BY <1>5
<1>7. /\ whole[1] = Desc(u) /\ whole[2] = Bits(B) /\ whole[3] = BitsCrc(B)
      /\ \A p \in 1 .. L : whole[3 + p] = CellAt(B, contents, p)
    BY <1>1, <1>2, <1>5
<1>8. QED BY <1>1, <1>5, <1>6, <1>7 DEF IsWhole, whole, L

(* The contents of the chunk from the base-th used block on.               *)
ChunkOf(B, contents, base) ==
    [j \in 1 .. ChunkSize(Cardinality(B), base) |-> contents[KthUsed(B, base + j)]]

(* The cell behind the blocks of a chunk is the checksum of the chunk.     *)
LEMMA ChunkChecksum ==
    ASSUME NEW B \in SUBSET Blocks, NEW contents, NEW base \in Nat, base < Cardinality(B),
           base % blocks_per_checksum = 0
    PROVE  LET k == ChunkSize(Cardinality(B), base)
           IN  /\ CellsOf(base) + k + 1 \in 1 .. DataLength(Cardinality(B))
               /\ CellAt(B, contents, CellsOf(base) + k + 1) = Checksum(ChunkOf(B, contents, base))
<1> DEFINE n == Cardinality(B)
           C == blocks_per_checksum
           k == ChunkSize(n, base)
<1>1. n \in Nat /\ C \in Nat \ {0} /\ base < n
    BY BitmapFinite DEF blocks_per_checksum
<1>2. /\ k \in 1 .. C /\ base + k =< n
      /\ base + k = n => CellsOf(base) + k + 1 = DataLength(n)
      /\ k = C => (base + k) % C = 0 /\ CellsOf(base + k) = CellsOf(base) + k + 1
      /\ k < C => base + k = n /\ n % C = k
    BY <1>1, ChunkCells
<1>3. CellsOf(base) \in Nat
    BY CellsGrow
<1>4. DataLength(n) \in Nat /\ CellsOf(n) =< DataLength(n) /\ CellsOf(n) \in Nat
    BY <1>1, DataCells, CellsGrow
<1>5. CASE k = C
    <2> DEFINE m == base + k
    <2>1. m \in Nat \ {0} /\ m =< n /\ m % C = 0 /\ CellsOf(m) = CellsOf(base) + k + 1
        BY <1>1, <1>2, <1>5
    <2>2. CellAt(B, contents, CellsOf(m))
             = Checksum([j \in 1 .. C |-> contents[KthUsed(B, m - C + j)]])
        BY <1>1, <2>1, ChecksumCell
    <2>3. \A j \in 1 .. C : m - C + j = base + j
        BY <1>1, <1>5
    <2>4. [j \in 1 .. C |-> contents[KthUsed(B, m - C + j)]] = ChunkOf(B, contents, base)
        BY <1>5, <2>3 DEF ChunkOf
    <2>5. CellsOf(m) =< CellsOf(n)
        BY <1>1, <2>1, CellsMonotone
    <2> HIDE DEF m, n, C, k
    <2>6. CellsOf(base) + k + 1 \in 1 .. DataLength(n)
        BY <1>1, <1>2, <1>3, <1>4, <2>1, <2>5
    <2>7. CellAt(B, contents, CellsOf(base) + k + 1) = Checksum(ChunkOf(B, contents, base))
        BY <2>1, <2>2, <2>4
    <2>8. QED BY <2>6, <2>7 DEF n, k
<1>6. CASE k < C
    <2>1. base + k = n /\ n % C = k /\ n % C # 0 /\ CellsOf(base) + k + 1 = DataLength(n)
        BY <1>1, <1>2, <1>6
    <2>2. CellAt(B, contents, DataLength(n))
             = Checksum([j \in 1 .. n % C |-> contents[KthUsed(B, n - (n % C) + j)]])
        BY <1>1, <2>1, TrailerCell
    <2>3. \A j \in 1 .. k : n - k + j = base + j
        BY <1>1, <1>2, <2>1
    <2>4. [j \in 1 .. n % C |-> contents[KthUsed(B, n - (n % C) + j)]] = ChunkOf(B, contents, base)
        <3> HIDE DEF n, C, k
        <3>1. [j \in 1 .. n % C |-> contents[KthUsed(B, n - (n % C) + j)]]
                = [j \in 1 .. k |-> contents[KthUsed(B, n - k + j)]]
            BY <2>1
        <3>2. [j \in 1 .. k |-> contents[KthUsed(B, n - k + j)]] = [j \in 1 .. k |-> contents[KthUsed(B, base + j)]]
            BY <2>3
        <3>3. QED BY <3>1, <3>2 DEF ChunkOf, n, k
    <2> HIDE DEF n, C, k
    <2>5. CellsOf(base) + k + 1 \in 1 .. DataLength(n)
        BY <1>1, <1>2, <1>3, <1>4, <2>1
    <2>6. CellAt(B, contents, CellsOf(base) + k + 1) = Checksum(ChunkOf(B, contents, base))
        BY <2>1, <2>2, <2>4
    <2>7. QED BY <2>5, <2>6 DEF n, k
<1>7. QED BY <1>1, <1>2, <1>5, <1>6

(* The percentage is a number from 0 to 100, and 100 exactly when all that *)
(* the superblock counts has been copied.                                  *)
LEMMA ProgressHundred ==
    ASSUME NEW copied \in Nat, NEW stop \in Nat
    PROVE  /\ progress_update(copied, stop) \in 0 .. 100
           /\ progress_update(copied, stop) = 100 <=> copied >= stop
<1>1. CASE copied >= stop
    BY <1>1 DEF progress_update
<1>2. CASE copied < stop
    <2>1. stop > 0 /\ 100 * copied \in Nat /\ 100 * copied < 100 * stop
        BY <1>2
    <2>2. (100 * copied) \div stop \in 0 .. 99
        BY <2>1, SMTT(30)
    <2>3. QED BY <1>2, <2>2 DEF progress_update
<1>3. QED BY <1>1, <1>2

(* A buffer for a full chunk has room for its checksum.                    *)
LEMMA BufferCells == convert_blocks_to_bytes(0, BufferCapacity, blocks_per_checksum) = BufferCapacity + 1
<1>1. BufferCapacity \div BufferCapacity = 1 /\ 0 \div BufferCapacity = 0
    <2>1. BufferCapacity = 1 * BufferCapacity + 0 /\ 0 = 0 * BufferCapacity + 0
        OBVIOUS
    <2>2. QED BY <2>1, DivModUnique
<1>2. QED BY <1>1 DEF convert_blocks_to_bytes, get_checksum_count, blocks_per_checksum

(* No more blocks are in use than there are.                               *)
LEMMA BitmapSize ==
    ASSUME NEW B \in SUBSET Blocks
    PROVE  Cardinality(B) =< TotalBlocks
<1>1. IsFiniteSet(Blocks) /\ Cardinality(Blocks) = TotalBlocks
    BY FS_Interval DEF Blocks
<1>2. Cardinality(B) =< Cardinality(Blocks)
    BY <1>1, FS_Subset
<1>3. QED BY <1>1, <1>2
=============================================================================
