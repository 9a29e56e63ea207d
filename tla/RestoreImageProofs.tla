------------------------- MODULE RestoreImageProofs -------------------------
(***************************************************************************)
(* Proofs about the restore from an image: what holds at every step, that  *)
(* "finished" is announced only for a complete image whose blocks are all  *)
(* in place, and that the restore implements the abstract copy.            *)
(***************************************************************************)
EXTENDS RestoreImage, ImageFormatProofs

USE TotalBlocksAssumption, BufferCapacityAssumption
-----------------------------------------------------------------------------
(* What may have become of one cell of an image.                           *)
Fate(cell, orig) ==
    /\ cell[1] = "block" => cell[2] \in Contents
    /\ \/ cell = orig
       \/ cell = Torn
       \/ orig[1] = "block" /\ cell = Block(cell[2])

(* An image of a partition that held src is a sequence of cells, no longer *)
(* than the complete image of its backup, whose cells are each what may    *)
(* have become of that image's.                                            *)
ImageOf(src, img, u, B) ==
    /\ u \in UsedCounts /\ B \in SUBSET Blocks
    /\ img \in Seq({img[p] : p \in DOMAIN img})
    /\ Len(img) \in Nat
    /\ Len(img) =< Len(CompleteImage(u, B, src))
    /\ \A p \in 1 .. Len(img) : Fate(img[p], CompleteImage(u, B, src)[p])

(* An image a call is given is what became of some complete image.         *)
LEMMA ImagesAre ==
    ASSUME NEW img \in Images
    PROVE  \E u \in UsedCounts, B \in SUBSET Blocks : ImageOf(Source, img, u, B)
<1>1. PICK u \in UsedCounts, B \in SUBSET Blocks : Damaged(img, CompleteImage(u, B, Source))
    BY RestoreImagesAssumption
<1> DEFINE whole == CompleteImage(u, B, Source)
           S     == {img[p] : p \in DOMAIN img}
<1>2. Len(whole) \in Nat
    BY WholeCells DEF IsWhole
<1>3. PICK k \in 0 .. Len(whole) :
        /\ img \in [1 .. k -> S]
        /\ \A p \in 1 .. k :
              /\ img[p][1] = "block" => img[p][2] \in Contents
              /\ \/ img[p] \in {whole[p], Torn}
                 \/ whole[p][1] = "block" /\ img[p] = Block(img[p][2])
    BY <1>1 DEF Damaged
<1>4. \A p \in 1 .. k : Fate(img[p], whole[p])
    BY <1>3 DEF Fate
<1> HIDE DEF whole, S
<1>5. k \in Nat /\ k =< Len(whole)
    BY <1>2
<1>6. img \in Seq(S) /\ Len(img) = k
    BY <1>3, <1>5
<1>7. ImageOf(Source, img, u, B)
    BY <1>4, <1>5, <1>6 DEF ImageOf, whole, S
<1>8. QED BY <1>7

(* What a call needs of the file it is given: the header cells that are    *)
(* whole are those of a backup, and a whole header is that of an image.    *)
Given(img, src) ==
    /\ img \in Seq({img[p] : p \in DOMAIN img}) /\ Len(img) \in Nat
    /\ Len(img) >= 1 /\ img[1][1] = "desc" => \E u \in UsedCounts : img[1] = Desc(u)
    /\ Len(img) >= 3 /\ img[2][1] = "bits" /\ img[3] = BitsCrc(img[2][2]) =>
          \E u \in UsedCounts, B \in SUBSET Blocks : ImageOf(src, img, u, B)

(* The header cells of an image that are whole are those of its backup.    *)
LEMMA HeaderCells ==
    ASSUME NEW src \in [Blocks -> Contents],
           NEW img, NEW u, NEW B, ImageOf(src, img, u, B)
    PROVE  /\ Len(img) >= 1 /\ img[1][1] = "desc" => img[1] = Desc(u)
           /\ Len(img) >= 2 /\ img[2][1] = "bits" => img[2] = Bits(B)
           /\ Len(img) >= 3 /\ img[3][1] = "crc" => img[3] = BitsCrc(B)
<1> DEFINE whole == CompleteImage(u, B, src)
<1>1. B \in SUBSET Blocks /\ Len(img) \in Nat /\ \A p \in 1 .. Len(img) : Fate(img[p], whole[p])
    BY DEF ImageOf
<1>2. whole[1] = Desc(u) /\ whole[2] = Bits(B) /\ whole[3] = BitsCrc(B)
    <2>1. IsWhole(whole, u, B, src)
        BY <1>1, WholeCells
    <2>2. QED BY <2>1 DEF IsWhole
<1> HIDE DEF whole
<1>3. /\ Len(img) >= 1 => Fate(img[1], whole[1])
      /\ Len(img) >= 2 => Fate(img[2], whole[2])
      /\ Len(img) >= 3 => Fate(img[3], whole[3])
    BY <1>1
<1>4. QED BY <1>2, <1>3 DEF Fate, Desc, Bits, BitsCrc, Torn

LEMMA ImageIsGiven ==
    ASSUME NEW src \in [Blocks -> Contents],
           NEW img, NEW u, NEW B, ImageOf(src, img, u, B)
    PROVE  Given(img, src)
<1>1. /\ img \in Seq({img[p] : p \in DOMAIN img}) /\ Len(img) \in Nat
      /\ u \in UsedCounts /\ B \in SUBSET Blocks
    BY DEF ImageOf
<1>2. Len(img) >= 1 /\ img[1][1] = "desc" => img[1] = Desc(u)
    BY HeaderCells
<1>3. QED BY <1>1, <1>2 DEF Given

(* The header a restore works with tells which complete image the file was *)
(* made from.                                                              *)
LEMMA HeaderNames ==
    ASSUME NEW src \in [Blocks -> Contents],
           NEW img, Given(img, src), NEW u, NEW B, Len(img) >= 3,
           SubSeq(img, 1, 3) = <<Desc(u), Bits(B), BitsCrc(B)>>
    PROVE  ImageOf(src, img, u, B) /\ img[1] = Desc(u) /\ img[2] = Bits(B) /\ img[3] = BitsCrc(B)
<1>1. img \in Seq({img[p] : p \in DOMAIN img}) /\ Len(img) \in Nat
    BY DEF Given
<1>2. img[1] = Desc(u) /\ img[2] = Bits(B) /\ img[3] = BitsCrc(B)
    <2> DEFINE S == {img[p] : p \in DOMAIN img}
               x == Desc(u)  y == Bits(B)  z == BitsCrc(B)
    <2>1. img \in Seq(S) /\ Len(img) \in Nat /\ Len(img) >= 3 /\ SubSeq(img, 1, 3) = <<x, y, z>>
        BY <1>1
    <2> HIDE DEF x, y, z, S
    <2>2. <<x, y, z>>[1] = x /\ <<x, y, z>>[2] = y /\ <<x, y, z>>[3] = z
        OBVIOUS
    <2>3. \A p \in 1 .. 3 : SubSeq(img, 1, 3)[p] = img[p]
        BY <2>1
    <2>4. /\ SubSeq(img, 1, 3)[1] = img[1] /\ SubSeq(img, 1, 3)[2] = img[2]
          /\ SubSeq(img, 1, 3)[3] = img[3]
        BY <2>3
    <2>5. img[1] = x /\ img[2] = y /\ img[3] = z
        BY <2>1, <2>2, <2>4, Zenon
    <2>6. QED BY <2>5 DEF x, y, z
<1>3. img[2][1] = "bits" /\ img[3] = BitsCrc(img[2][2])
    BY <1>2 DEF Bits
<1>4. PICK v \in UsedCounts, A \in SUBSET Blocks : ImageOf(src, img, v, A)
    BY <1>3 DEF Given
<1>5. img[1] = Desc(v) /\ img[2] = Bits(A)
    <2>1. img[1][1] = "desc" /\ Len(img) >= 1 /\ Len(img) >= 2
        BY <1>1, <1>2 DEF Desc
    <2>2. QED BY <1>3, <1>4, <2>1, HeaderCells
<1>6. u = v /\ B = A
    BY <1>2, <1>5 DEF Desc, Bits
<1>7. QED BY <1>2, <1>4, <1>6


(* The cells before a position are those of the complete image.            *)
Good(src, img, u, B, n) == \A p \in 1 .. n : img[p] = CompleteImage(u, B, src)[p]

(* What k cells hold, taken for blocks.                                    *)
Unpacked(img, first, k) == [j \in 1 .. k |-> ContentOf(img[first + j])]

(* A chunk and the image around it, the checksum behind it unchecked and   *)
(* checked.                                                                *)
Chunk(src, img, u, B, base, k, first) ==
    /\ ImageOf(src, img, u, B)
    /\ base \in Nat /\ base < Cardinality(B) /\ base % blocks_per_checksum = 0
    /\ k = ChunkSize(Cardinality(B), base) /\ first = 3 + CellsOf(base)
    /\ first + k + 1 =< Len(img)
    /\ Good(src, img, u, B, first)

Matches(img, first, k) == img[first + k + 1] = Checksum(Unpacked(img, first, k))

(* What the complete image holds where a chunk is.                         *)
WholeChunk(src, u, B, base, k, first) ==
    LET whole == CompleteImage(u, B, src)
    IN  /\ first + k + 1 =< Len(whole)
        /\ whole[first + k + 1] = Checksum(ChunkOf(B, src, base))
        /\ \A j \in 1 .. k : /\ whole[first + j] = Block(src[KthUsed(B, base + j)])
                             /\ src[KthUsed(B, base + j)] \in Contents

LEMMA ChunkOfWhole ==
    ASSUME NEW src \in [Blocks -> Contents],
           NEW u, NEW B \in SUBSET Blocks, NEW base \in Nat, base < Cardinality(B),
           base % blocks_per_checksum = 0, NEW k, k = ChunkSize(Cardinality(B), base),
           NEW first, first = 3 + CellsOf(base)
    PROVE  WholeChunk(src, u, B, base, k, first)
<1> DEFINE n     == Cardinality(B)
           C     == blocks_per_checksum
           whole == CompleteImage(u, B, src)
           L     == DataLength(n)
<1>1. n \in Nat /\ C \in Nat \ {0} /\ base < n
    BY BitmapFinite DEF blocks_per_checksum
<1>2. /\ k \in 1 .. C /\ base + k =< n
      /\ \A j \in 0 .. k - 1 : CellsOf(base + j) = CellsOf(base) + j
    BY <1>1, ChunkCells
<1>3. CellsOf(base) \in Nat /\ first \in Nat /\ k \in Nat /\ first = 3 + CellsOf(base)
    <2>1. CellsOf(base) \in Nat
        BY CellsGrow
    <2>2. QED BY <1>1, <1>2, <2>1
<1>4. /\ L \in Nat /\ Len(whole) = 3 + L
      /\ \A p \in 1 .. L : whole[3 + p] = CellAt(B, src, p)
    <2>1. IsWhole(whole, u, B, src)
        BY WholeCells
    <2>2. QED BY <2>1 DEF IsWhole
<1>5. /\ CellsOf(base) + k + 1 \in 1 .. L
      /\ CellAt(B, src, CellsOf(base) + k + 1) = Checksum(ChunkOf(B, src, base))
    BY ChunkChecksum
<1>6. \A j \in 1 .. k : src[KthUsed(B, base + j)] \in Contents
    <2>1. \A j \in 1 .. k : base + j \in 1 .. n
        BY <1>1, <1>2
    <2>2. \A j \in 1 .. k : KthUsed(B, base + j) \in B
        BY <2>1, KthUsedExists
    <2>3. QED BY <2>2
<1> HIDE DEF n, C, whole, L
<1>7. CellsOf(base) + k + 1 =< L /\ L \in Nat /\ Len(whole) = 3 + L
    BY <1>4, <1>5
<1>8. first + k + 1 =< Len(whole) /\ whole[first + k + 1] = Checksum(ChunkOf(B, src, base))
    <2>1. first + k + 1 = 3 + (CellsOf(base) + k + 1)
        BY <1>3
    <2>2. whole[first + k + 1] = Checksum(ChunkOf(B, src, base))
        BY <1>4, <1>5, <2>1
    <2>3. first + k + 1 =< Len(whole)
        <3> DEFINE q == CellsOf(base) + k + 1
        <3>1. q \in Nat /\ q =< L /\ L \in Nat
            BY <1>3, <1>7
        <3>2. first + k + 1 = 3 + q /\ Len(whole) = 3 + L
            BY <1>7, <2>1
        <3> HIDE DEF q
        <3>3. 3 + q =< 3 + L
            BY <3>1
        <3>4. QED BY <3>2, <3>3
    <2>4. QED BY <2>2, <2>3
<1>9. ASSUME NEW j \in 1 .. k
      PROVE  whole[first + j] = Block(src[KthUsed(B, base + j)])
    <2> DEFINE m == base + (j - 1)
    <2>1. m \in Nat /\ m < n /\ m + 1 = base + j /\ j - 1 \in 0 .. k - 1
        BY <1>1, <1>2
    <2>2. CellsOf(m) = CellsOf(base) + (j - 1)
        BY <1>2, <2>1
    <2>3. CellAt(B, src, CellsOf(m) + 1) = Block(src[KthUsed(B, m + 1)])
        <3> HIDE DEF m
        <3>1. QED BY <1>1, <2>1, BlockCell DEF n
    <2>4. CellsOf(m) + 1 \in 1 .. L /\ 3 + (CellsOf(m) + 1) = first + j
        <3> HIDE DEF m
        <3>1. j \in Nat \ {0} /\ j =< k /\ k \in Nat
            BY <1>3
        <3>2. CellsOf(m) + 1 = CellsOf(base) + j
            BY <1>3, <2>2, <3>1
        <3>3. CellsOf(base) + j \in 1 .. L
            BY <1>3, <1>7, <3>1, SMTT(60)
        <3>4. 3 + (CellsOf(base) + j) = first + j
            BY <1>3, <3>1
        <3>5. QED BY <3>2, <3>3, <3>4
    <2> HIDE DEF m
    <2>5. whole[3 + (CellsOf(m) + 1)] = CellAt(B, src, CellsOf(m) + 1)
        BY <1>4, <2>4
    <2>6. QED BY <2>1, <2>3, <2>4, <2>5
<1>10. QED BY <1>6, <1>8, <1>9 DEF WholeChunk, whole

(* What an image holds of a chunk.                                         *)
LEMMA ChunkFacts ==
    ASSUME NEW src \in [Blocks -> Contents],
           NEW img, NEW u, NEW B, NEW base, NEW k, NEW first,
           Chunk(src, img, u, B, base, k, first)
    PROVE  /\ WholeChunk(src, u, B, base, k, first)
           /\ first \in Nat /\ k \in Nat /\ Len(img) \in Nat /\ first + k + 1 =< Len(img)
<1>1. /\ ImageOf(src, img, u, B) /\ base \in Nat /\ base < Cardinality(B) /\ base % blocks_per_checksum = 0
      /\ k = ChunkSize(Cardinality(B), base) /\ first = 3 + CellsOf(base) /\ first + k + 1 =< Len(img)
    BY DEF Chunk
<1>2. B \in SUBSET Blocks /\ Len(img) \in Nat
    BY <1>1 DEF ImageOf
<1>3. Cardinality(B) \in Nat /\ CellsOf(base) \in Nat
    <2>1. base \in Nat
        BY <1>1
    <2>2. Cardinality(B) \in Nat
        BY <1>2, BitmapFinite
    <2>3. QED BY <2>1, <2>2, CellsGrow
<1>4. first \in Nat /\ k \in Nat
    <2>1. first = 3 + CellsOf(base)
        BY <1>1
    <2>2. first \in Nat
        BY <1>3, <2>1
    <2>3. base \in Nat /\ base < Cardinality(B) /\ k = ChunkSize(Cardinality(B), base)
        BY <1>1
    <2>4. k \in Nat
        BY <1>3, <2>3 DEF ChunkSize, blocks_per_checksum
    <2>5. QED BY <2>2, <2>4
<1>5. WholeChunk(src, u, B, base, k, first)
    BY <1>1, <1>2, ChunkOfWhole
<1>6. QED BY <1>1, <1>2, <1>4, <1>5

(* A chunk whose checksum matches is undamaged: it holds the contents the  *)
(* blocks had, and its cells are those of the complete image.              *)
LEMMA VerifiedChunk ==
    ASSUME NEW src \in [Blocks -> Contents],
           NEW img, NEW u, NEW B, NEW base, NEW k, NEW first,
           Chunk(src, img, u, B, base, k, first), Matches(img, first, k)
    PROVE  /\ Good(src, img, u, B, first + k + 1)
           /\ Unpacked(img, first, k) = ChunkOf(B, src, base)
<1> DEFINE whole == CompleteImage(u, B, src)
           got   == Unpacked(img, first, k)
           cell  == img[first + k + 1]
<1>1. \A p \in 1 .. Len(img) : Fate(img[p], whole[p])
    BY DEF Chunk, ImageOf
<1>2. first \in Nat /\ k \in Nat /\ Len(img) \in Nat /\ first + k + 1 =< Len(img)
    BY ChunkFacts
<1>3. /\ whole[first + k + 1] = Checksum(ChunkOf(B, src, base))
      /\ \A j \in 1 .. k : /\ whole[first + j] = Block(src[KthUsed(B, base + j)])
                           /\ src[KthUsed(B, base + j)] \in Contents
    BY ChunkFacts DEF WholeChunk
<1> HIDE DEF whole
<1>4. cell = whole[first + k + 1]
    <2>1. first + k + 1 \in 1 .. Len(img)
        BY <1>2
    <2>2. Fate(cell, whole[first + k + 1])
        BY <1>1, <2>1
    <2>3. cell[1] = "checksum" /\ whole[first + k + 1][1] = "checksum"
        BY <1>3 DEF Checksum, Matches
    <2> HIDE DEF cell
    <2>4. QED BY <2>2, <2>3 DEF Fate, Torn
<1>5. got = ChunkOf(B, src, base)
    <2>1. Checksum(got) = Checksum(ChunkOf(B, src, base))
        BY <1>3, <1>4 DEF Matches
    <2> HIDE DEF got
    <2>2. QED BY <2>1 DEF Checksum
<1>6. ASSUME NEW j \in 1 .. k
      PROVE  img[first + j] = whole[first + j]
    <2> DEFINE c == img[first + j]
               s == src[KthUsed(B, base + j)]
    <2>1. ContentOf(c) = s /\ s \in Contents
        <3>1. got[j] = ContentOf(c)
            BY DEF Unpacked
        <3>2. ChunkOf(B, src, base)[j] = s
            BY DEF ChunkOf, Chunk
        <3>3. s \in Contents
            BY <1>3
        <3> HIDE DEF got
        <3>4. QED BY <1>5, <3>1, <3>2, <3>3
    <2>2. first + j \in 1 .. Len(img)
        BY <1>2
    <2>3. Fate(c, whole[first + j])
        BY <1>1, <2>2
    <2>4. c[1] = "block" /\ c[2] = s
        BY <2>1, RestoreContentsAssumption DEF ContentOf
    <2>5. whole[first + j] = Block(s)
        BY <1>3
    <2> HIDE DEF c, s
    <2>6. c = whole[first + j]
        BY <2>3, <2>4, <2>5 DEF Fate, Torn, Block
    <2>7. QED BY <2>6 DEF c
<1>7. Good(src, img, u, B, first + k + 1)
    <2>1. SUFFICES ASSUME NEW p \in 1 .. first + k + 1
                   PROVE  img[p] = whole[p]
        BY DEF Good, whole
    <2>2. CASE p =< first
        <3>1. p \in 1 .. first
            BY <1>2, <2>2
        <3>2. QED BY <3>1 DEF Chunk, Good, whole
    <2>3. CASE p = first + k + 1
        BY <1>4, <2>3
    <2>4. CASE p > first /\ p =< first + k
        <3> DEFINE j == p - first
        <3>1. j \in 1 .. k /\ first + j = p
            BY <1>2, <2>4
        <3> HIDE DEF j
        <3>2. QED BY <1>6, <3>1
    <2>5. QED BY <1>2, <2>2, <2>3, <2>4
<1>8. QED BY <1>5, <1>7

(* The other way round, every chunk of a complete image matches.           *)
LEMMA WholeChunkMatches ==
    ASSUME NEW src \in [Blocks -> Contents],
           NEW img, NEW u, NEW B, NEW base, NEW k, NEW first,
           Chunk(src, img, u, B, base, k, first), img = CompleteImage(u, B, src)
    PROVE  Matches(img, first, k)
<1> DEFINE got == Unpacked(img, first, k)
<1>1. k = ChunkSize(Cardinality(B), base)
    BY DEF Chunk
<1>2. /\ img[first + k + 1] = Checksum(ChunkOf(B, src, base))
      /\ \A j \in 1 .. k : img[first + j] = Block(src[KthUsed(B, base + j)])
    BY ChunkFacts DEF WholeChunk
<1>3. \A j \in 1 .. k : ContentOf(img[first + j]) = src[KthUsed(B, base + j)]
    BY <1>2 DEF ContentOf, Block
<1>4. got = ChunkOf(B, src, base)
    BY <1>1, <1>3 DEF Unpacked, ChunkOf
<1>5. QED BY <1>2, <1>4 DEF Matches
-----------------------------------------------------------------------------
(* What the proofs carry for an image of a partition that held src.        *)
Inv(src) == LoopInv(src) /\ Given(image, src)

(* An image is a sequence.                                                 *)
LEMMA ImageLength ==
    ASSUME NEW img, NEW src, Given(img, src)
    PROVE  Len(img) \in Nat /\ img \in Seq({img[p] : p \in DOMAIN img})
BY DEF Given

(* A call that has stopped keeps little.                                   *)
LEMMA StoppedStep ==
    ASSUME NEW src \in [Blocks -> Contents],
           TypeOK', (Given(image, src))', (size \in TargetSizes)',
           (Len(read_buffer) =< BufferCapacity + 1)',
           (pc \in {"idle", "error", "failed"})',
           (pc = "failed" => replies = IF e_code = 8 THEN 2 ELSE 1)',
           (pc = "error" => replies = IF e_code = 8 THEN 1 ELSE 0)'
    PROVE  Inv(src)'
<1>1. ReadBufferBound'
    BY BufferCells DEF ReadBufferBound
<1>2. PositionFollowsLoop' /\ RepliesMatchOutcome'
    BY DEF PositionFollowsLoop, RepliesMatchOutcome
<1>3. GivenInv' /\ RepliesInv'
    BY DEF GivenInv, RepliesInv, Preparing, Copying
<1>4. PrefixInv(src)' /\ ReadInv(src)' /\ ChunkInv(src)'
    BY DEF PrefixInv, ReadInv, ChunkInv, Copying
<1>5. QED BY <1>1, <1>2, <1>3, <1>4 DEF Inv, LoopInv

(* The parts of the invariant that no step but those of the loops touches. *)
LEMMA CommonParts ==
    ASSUME NEW src \in [Blocks -> Contents],
           Inv(src)
    PROVE  /\ TypeOK /\ Given(image, src) /\ size \in TargetSizes
           /\ Len(read_buffer) =< BufferCapacity + 1
BY BufferCells DEF Inv, LoopInv, ReadBufferBound, GivenInv

(* A call fails and nothing else happens.                                  *)
LEMMA FailStep ==
    ASSUME NEW src \in [Blocks -> Contents],
           Inv(src), NEW c \in 1 .. 9, Fail(c), replies = IF c = 8 THEN 1 ELSE 0,
           UNCHANGED <<replies, header, given, verify, write>>
    PROVE  Inv(src)'
<1>1. /\ TypeOK /\ Given(image, src) /\ size \in TargetSizes
      /\ Len(read_buffer) =< BufferCapacity + 1
    BY CommonParts
<1>2. /\ UNCHANGED <<replies, usedblocks, bitmap, restores, image, size, rpos, blocks_read, i,
                     read_buffer, read_offset, blocks_in_cs, checksum, write_buffer,
                     copied_count, block_id, wpos, blocks_written, target, percent>>
      /\ pc' = "error" /\ e_code' = c
    BY DEF Fail, header, given, verify, write
<1>3. TypeOK'
    BY <1>1, <1>2 DEF TypeOK
<1>4. QED BY <1>1, <1>2, <1>3, StoppedStep

(* No call is running, or a new one has just begun.                        *)
LEMMA RestartStep ==
    ASSUME NEW src \in [Blocks -> Contents],
           Given(image, src), size \in TargetSizes,
           target \in [0 .. size - 1 -> Contents \cup OldContents],
           Restart(pc'), pc' \in {"idle", "open_source"},
           restores' \in 0 .. MaxRestores, UNCHANGED <<image, size, target>>
    PROVE  Inv(src)'
<1>1. /\ e_code' = -1 /\ replies' = 0
      /\ usedblocks' = 0 /\ bitmap' = {}
      /\ rpos' = 0 /\ copied_count' = 0 /\ block_id' = 0 /\ wpos' = 0
      /\ blocks_read' = 0 /\ i' = 0 /\ read_buffer' = <<>> /\ read_offset' = 0
      /\ blocks_in_cs' = 0 /\ checksum' = <<>> /\ write_buffer' = <<>>
      /\ blocks_written' = 0 /\ percent' = 0
      /\ image' = image /\ size' = size /\ target' = target
    BY DEF Restart
<1>2. Len(image) \in Nat /\ Len(read_buffer') = 0
    BY <1>1, ImageLength
<1>3. TypeOK'
    BY <1>1, <1>2 DEF TypeOK, blocks_per_checksum
<1>4. ReadBufferBound'
    BY <1>2, BufferCells DEF ReadBufferBound
<1>5. PositionFollowsLoop' /\ RepliesMatchOutcome'
    BY DEF PositionFollowsLoop, RepliesMatchOutcome
<1>6. GivenInv' /\ RepliesInv'
    BY <1>1 DEF GivenInv, RepliesInv, Preparing, Copying
<1>7. PrefixInv(src)' /\ ReadInv(src)' /\ ChunkInv(src)'
    BY DEF PrefixInv, ReadInv, ChunkInv, Copying
<1>8. QED BY <1>1, <1>3, <1>4, <1>5, <1>6, <1>7 DEF Inv, LoopInv

(* The first state.                                                        *)
LEMMA RestoreInit == Init => Inv(Source) /\ OnlyGoodBlocksWritten
<1>1. SUFFICES ASSUME Init PROVE Inv(Source) /\ OnlyGoodBlocksWritten
    OBVIOUS
<1>2. /\ pc = "idle" /\ restores = 0 /\ e_code = -1 /\ replies = 0
      /\ size \in TargetSizes /\ target \in [0 .. size - 1 -> OldContents]
      /\ usedblocks = 0 /\ bitmap = {}
      /\ rpos = 0 /\ copied_count = 0 /\ block_id = 0 /\ wpos = 0
      /\ blocks_read = 0 /\ i = 0 /\ read_buffer = <<>> /\ read_offset = 0
      /\ blocks_in_cs = 0 /\ checksum = <<>> /\ write_buffer = <<>>
      /\ blocks_written = 0 /\ percent = 0
      /\ image \in Images
    BY <1>1 DEF Init, NoCallYet
<1>3. Given(image, Source)
    BY <1>2, ImagesAre, ImageIsGiven, RestoreSourceAssumption
<1>4. Len(image) \in Nat /\ Len(read_buffer) = 0 /\ MaxRestores \in Nat
    BY <1>2, <1>3, ImageLength, RestoresAssumption
<1>5. target \in [0 .. size - 1 -> Contents \cup OldContents]
    BY <1>2
<1>6. TypeOK
    BY <1>2, <1>4, <1>5 DEF TypeOK, blocks_per_checksum
<1>7. ReadBufferBound
    BY <1>2, <1>4, BufferCells DEF ReadBufferBound
<1>8. PositionFollowsLoop /\ RepliesMatchOutcome
    BY <1>2 DEF PositionFollowsLoop, RepliesMatchOutcome
<1>9. GivenInv /\ RepliesInv
    BY <1>2 DEF GivenInv, RepliesInv, Preparing, Copying
<1>10. PrefixInv(Source) /\ ReadInv(Source) /\ ChunkInv(Source)
    BY <1>2 DEF PrefixInv, ReadInv, ChunkInv, Copying
<1>11. OnlyGoodBlocksWritten
    BY <1>2 DEF OnlyGoodBlocksWritten
<1>12. QED BY <1>2, <1>6, <1>11, <1>7, <1>8, <1>9, <1>10, <1>3 DEF Inv, LoopInv

(* Before the loops little but the header matters.                         *)
LEMMA PreparingStep ==
    ASSUME NEW src \in [Blocks -> Contents],
           TypeOK', (Given(image, src))', GivenInv',
           (Len(read_buffer) =< BufferCapacity + 1)',
           (pc \in Preparing)', (replies = 0)'
    PROVE  Inv(src)'
<1>1. ReadBufferBound'
    BY BufferCells DEF ReadBufferBound, Preparing
<1>2. PositionFollowsLoop' /\ RepliesMatchOutcome' /\ RepliesInv'
    BY DEF PositionFollowsLoop, RepliesMatchOutcome, RepliesInv, Preparing, Copying
<1>3. PrefixInv(src)' /\ ReadInv(src)' /\ ChunkInv(src)'
    BY DEF PrefixInv, ReadInv, ChunkInv, Copying, Preparing
<1>4. QED BY <1>1, <1>2, <1>3 DEF Inv, LoopInv

(* Opening the files, checking the memory.                                 *)
LEMMA PrepareStep ==
    ASSUME NEW src \in [Blocks -> Contents],
           Inv(src), OpenSource \/ OpenTarget \/ CheckMemory
    PROVE  Inv(src)'
<1>1. /\ TypeOK /\ Given(image, src) /\ size \in TargetSizes
      /\ Len(read_buffer) =< BufferCapacity + 1
    BY CommonParts
<1>2. GivenInv /\ RepliesInv
    BY DEF Inv, LoopInv
<1>3. PICK step \in {"open_source", "open_target", "check_memory"},
           next \in {"open_target", "read_image_desc", "load_bitmap"}, c \in {1, 2, 4} :
        /\ Prepare(step, next, c) /\ (next = "load_bitmap" => step = "check_memory")
    BY DEF OpenSource, OpenTarget, CheckMemory
<1>4. pc \in Preparing /\ replies = 0
    BY <1>2, <1>3 DEF Prepare, Preparing, RepliesInv
<1>5. UNCHANGED <<replies, header, given, verify, write>>
    BY <1>3 DEF Prepare
<1>6. UNCHANGED <<replies, usedblocks, bitmap, restores, image, size, rpos, blocks_read, i,
                  read_buffer, read_offset, blocks_in_cs, checksum, write_buffer,
                  copied_count, block_id, wpos, blocks_written, target, percent>>
    BY <1>5 DEF header, given, verify, write
<1>7. CASE Fail(c)
    <2>1. c \in 1 .. 9 /\ replies = IF c = 8 THEN 1 ELSE 0
        BY <1>4
    <2>2. QED BY <1>5, <1>7, <2>1, FailStep
<1>8. CASE Goto(next)
    <2>1. pc' = next /\ e_code' = e_code /\ pc = step
        BY <1>3, <1>8 DEF Goto, Prepare
    <2>2. TypeOK'
        BY <1>1, <1>6, <2>1 DEF TypeOK
    <2>3. GivenInv'
        BY <1>2, <1>3, <1>4, <1>6, <2>1 DEF GivenInv, Preparing
    <2>4. pc' \in Preparing
        BY <2>1 DEF Preparing
    <2>5. QED BY <1>1, <1>4, <1>6, <2>2, <2>3, <2>4, PreparingStep
<1>9. QED BY <1>3, <1>7, <1>8 DEF Prepare

(* The header cells a call accepts are the image's.                        *)
LEMMA ReadImageDescStep ==
    ASSUME NEW src \in [Blocks -> Contents],
           Inv(src), ReadImageDesc
    PROVE  Inv(src)'
<1>1. /\ TypeOK /\ Given(image, src) /\ size \in TargetSizes
      /\ Len(read_buffer) =< BufferCapacity + 1
    BY CommonParts
<1>2. GivenInv /\ RepliesInv
    BY DEF Inv, LoopInv
<1>3. pc = "read_image_desc" /\ pc \in Preparing /\ replies = 0
    BY <1>2 DEF ReadImageDesc, Preparing, RepliesInv
<1>4. UNCHANGED <<replies, bitmap, restores, image, size, blocks_read, i, read_buffer,
                  read_offset, blocks_in_cs, checksum, write_buffer,
                  copied_count, block_id, wpos, blocks_written, target, percent>>
    BY DEF ReadImageDesc, given, write
<1>5. CASE Fail(9) /\ UNCHANGED <<usedblocks, rpos>>
    <2>1. UNCHANGED <<replies, header, given, verify, write>>
        BY <1>4, <1>5 DEF header, given, verify, write
    <2>2. 9 \in 1 .. 9 /\ replies = IF 9 = 8 THEN 1 ELSE 0
        BY <1>3
    <2>3. QED BY <1>5, <2>1, <2>2, FailStep
<1>6. CASE /\ Len(image) >= 1 /\ image[1][1] = "desc"
           /\ usedblocks' = image[1][2] /\ rpos' = 1 /\ Goto("check_memory")
    <2>1. pc' = "check_memory" /\ e_code' = e_code /\ rpos' = 1
        BY <1>6 DEF Goto
    <2>2. PICK u \in UsedCounts : image[1] = Desc(u)
        BY <1>1, <1>6 DEF Given
    <2>3. image[1] = Desc(u)
        BY <2>2
    <2>4. usedblocks' = u /\ u \in Nat
        BY <1>6, <2>3, RestoreCountsAssumption DEF Desc
    <2>5. Len(image) \in Nat /\ Len(image) >= 1
        BY <1>1, <1>6, ImageLength
    <2>6. TypeOK'
        BY <1>1, <1>4, <2>1, <2>4, <2>5 DEF TypeOK
    <2>7. GivenInv'
        BY <1>2, <1>3, <1>4, <2>1, <2>3, <2>4 DEF GivenInv, Preparing
    <2>8. pc' \in Preparing
        BY <2>1 DEF Preparing
    <2>9. QED BY <1>1, <1>3, <1>4, <2>6, <2>7, <2>8, PreparingStep
<1>7. QED BY <1>5, <1>6 DEF ReadImageDesc

LEMMA LoadBitmapStep ==
    ASSUME NEW src \in [Blocks -> Contents],
           Inv(src), LoadBitmap
    PROVE  Inv(src)'
<1>1. /\ TypeOK /\ Given(image, src) /\ size \in TargetSizes
      /\ Len(read_buffer) =< BufferCapacity + 1
    BY CommonParts
<1>2. GivenInv /\ RepliesInv
    BY DEF Inv, LoopInv
<1>3. pc = "load_bitmap" /\ pc \in Preparing /\ replies = 0
    BY <1>2 DEF LoadBitmap, Preparing, RepliesInv
<1>4. UNCHANGED <<replies, usedblocks, restores, image, size, blocks_read, i, read_buffer,
                  read_offset, blocks_in_cs, checksum, write_buffer,
                  copied_count, block_id, wpos, blocks_written, target, percent>>
    BY DEF LoadBitmap, given, write
<1>5. CASE Fail(5) /\ UNCHANGED <<bitmap, rpos>>
    <2>1. UNCHANGED <<replies, header, given, verify, write>>
        BY <1>4, <1>5 DEF header, given, verify, write
    <2>2. 5 \in 1 .. 9 /\ replies = IF 5 = 8 THEN 1 ELSE 0
        BY <1>3
    <2>3. QED BY <1>5, <2>1, <2>2, FailStep
<1>6. CASE /\ Len(image) >= 3 /\ image[2][1] = "bits"
           /\ image[3] = BitsCrc(image[2][2])
           /\ bitmap' = image[2][2] /\ rpos' = 3 /\ Goto("check_space")
    <2>1. pc' = "check_space" /\ e_code' = e_code /\ rpos' = 3
        BY <1>6 DEF Goto
    <2>2. PICK u \in UsedCounts, B \in SUBSET Blocks : ImageOf(src, image, u, B)
        BY <1>1, <1>6 DEF Given
    <2>3. /\ Len(image) \in Nat /\ Len(image) >= 3 /\ Len(image) >= 2
          /\ image \in Seq({image[p] : p \in DOMAIN image})
        BY <1>1, <1>6, ImageLength
    <2>4. image[2] = Bits(B)
        BY <1>6, <2>2, <2>3, HeaderCells
    <2>5. bitmap' = B
        BY <1>6, <2>4 DEF Bits
    <2>6. image[1] = Desc(usedblocks) /\ image[2] = Bits(B) /\ image[3] = BitsCrc(B)
        BY <1>2, <1>3, <1>6, <2>4, <2>5 DEF GivenInv, Bits
    <2>7. SubSeq(image, 1, 3) = <<Desc(usedblocks), Bits(B), BitsCrc(B)>>
        <3> DEFINE x == Desc(usedblocks)  y == Bits(B)  z == BitsCrc(B)
                   S == {image[p] : p \in DOMAIN image}
        <3>1. image[1] = x /\ image[2] = y /\ image[3] = z
            BY <2>6
        <3> HIDE DEF x, y, z, S
        <3>2. image \in Seq(S) /\ Len(image) \in Nat /\ Len(image) >= 3
            BY <2>3 DEF S
        <3>3. SubSeq(image, 1, 3) = <<x, y, z>>
            <4> DEFINE got == SubSeq(image, 1, 3)
                       three == <<x, y, z>>
            <4>1. /\ got \in Seq(S) /\ Len(got) = 3
                  /\ got[1] = x /\ got[2] = y /\ got[3] = z
                BY <3>1, <3>2
            <4>2. x \in S /\ y \in S /\ z \in S
                BY <3>1, <3>2 DEF S
            <4>3. /\ three \in Seq(S) /\ Len(three) = 3
                  /\ three[1] = x /\ three[2] = y /\ three[3] = z
                BY <4>2
            <4> HIDE DEF got, three
            <4>4. \A p \in 1 .. Len(got) : got[p] = three[p]
                BY <4>1, <4>3
            <4>5. got = three
                BY <4>1, <4>3, <4>4, SeqEqual
            <4>6. QED BY <4>5 DEF got, three
        <3>4. QED BY <3>3 DEF x, y, z
    <2>8. TypeOK'
        BY <1>1, <1>4, <2>1, <2>3, <2>5 DEF TypeOK
    <2>9. GivenInv'
        BY <1>2, <1>3, <1>4, <2>1, <2>5, <2>7 DEF GivenInv, Preparing
    <2>10. pc' \in Preparing
        BY <2>1 DEF Preparing
    <2>11. QED BY <1>1, <1>3, <1>4, <2>8, <2>9, <2>10, PreparingStep
<1>7. QED BY <1>5, <1>6 DEF LoadBitmap

(* Nothing is in the loops' variables when the loops start.                *)
LEMMA CheckSpaceStep ==
    ASSUME NEW src \in [Blocks -> Contents],
           Inv(src), CheckSpace
    PROVE  Inv(src)'
<1>1. /\ TypeOK /\ Given(image, src) /\ size \in TargetSizes
      /\ Len(read_buffer) =< BufferCapacity + 1
    BY CommonParts
<1>2. GivenInv /\ RepliesInv
    BY DEF Inv, LoopInv
<1>3. pc = "check_space" /\ pc \in Preparing /\ replies = 0
    BY <1>2 DEF CheckSpace, Preparing, RepliesInv
<1>4. UNCHANGED <<usedblocks, bitmap, restores, image, size, rpos, blocks_read, i,
                  read_buffer, read_offset, blocks_in_cs, checksum, write_buffer,
                  copied_count, block_id, wpos, blocks_written, target, percent>>
    BY DEF CheckSpace, header, given, verify, write
<1>5. CASE Fail(6) /\ replies' = replies
    <2>1. UNCHANGED <<replies, header, given, verify, write>>
        BY <1>4, <1>5 DEF header, given, verify, write
    <2>2. 6 \in 1 .. 9 /\ replies = IF 6 = 8 THEN 1 ELSE 0
        BY <1>3
    <2>3. QED BY <1>5, <2>1, <2>2, FailStep
<1>6. CASE ~(size < TotalBlocks) /\ Goto("read") /\ replies' = replies + 1
    <2>1. pc' = "read" /\ e_code' = e_code /\ replies' = 1
        BY <1>3, <1>6 DEF Goto
    <2>2. /\ copied_count = 0 /\ block_id = 0 /\ wpos = 0 /\ blocks_in_cs = 0 /\ rpos = 3
          /\ SubSeq(image, 1, 3) = <<Desc(usedblocks), Bits(bitmap), BitsCrc(bitmap)>>
        BY <1>2, <1>3 DEF GivenInv
    <2>3. bitmap \in SUBSET Blocks /\ size \in Nat /\ rpos =< Len(image) /\ Len(image) \in Nat
        BY <1>1, RestoreSizesAssumption, ImageLength DEF TypeOK
    <2>4. TypeOK'
        BY <1>1, <1>4, <2>1 DEF TypeOK
    <2>5. ReadBufferBound' /\ PositionFollowsLoop' /\ RepliesMatchOutcome'
        BY <1>1, <1>4, <2>1, <2>2, BufferCells DEF ReadBufferBound, PositionFollowsLoop, RepliesMatchOutcome
    <2>6. GivenInv'
        BY <1>1, <1>4, <2>1, <2>2 DEF GivenInv, Preparing
    <2>7. RepliesInv'
        BY <1>4, <1>6, <2>1, <2>3 DEF RepliesInv, Preparing, Copying
    <2>8. PrefixInv(src)'
        <3>1. Below(bitmap, 0) = {}
            <4>1. \A b \in bitmap : ~(b < 0)
                BY <2>3 DEF Blocks
            <4>2. QED BY <4>1 DEF Below
        <3>2. Cardinality(Below(bitmap, 0)) = 0
            BY <3>1, FS_EmptySet
        <3>3. QED BY <1>4, <2>1, <2>2, <3>1, <3>2 DEF PrefixInv
    <2>9. Good(src, image, usedblocks, bitmap, 3)
        <3>1. Len(image) >= 3
            BY <2>2, <2>3
        <3>2. image[1] = Desc(usedblocks) /\ image[2] = Bits(bitmap) /\ image[3] = BitsCrc(bitmap)
            BY <1>1, <2>2, <3>1, HeaderNames
        <3>3. IsWhole(CompleteImage(usedblocks, bitmap, src), usedblocks, bitmap, src)
            BY <2>3, WholeCells
        <3>4. QED BY <3>2, <3>3 DEF IsWhole, Good
    <2>10. ReadInv(src)'
        <3>1. CellsOf(0) = 0 /\ 0 % blocks_per_checksum = 0 /\ DataLength(0) = 0
            <4>1. 0 \div blocks_per_checksum = 0 /\ 0 % blocks_per_checksum = 0
                BY DEF blocks_per_checksum
            <4>2. QED BY <4>1 DEF CellsOf, DataLength
        <3>2. checksum = <<>>
            BY <1>2, <1>3 DEF GivenInv
        <3>3. GoodUpTo(src, rpos)'
            BY <1>4, <2>2, <2>9 DEF Good, GoodUpTo
        <3>4. QED BY <1>4, <2>1, <2>2, <3>1, <3>2, <3>3 DEF ReadInv
    <2>11. ChunkInv(src)'
        BY <2>1 DEF ChunkInv
    <2>12. QED BY <1>1, <1>4, <2>4, <2>5, <2>6, <2>7, <2>8, <2>10, <2>11 DEF Inv, LoopInv
<1>7. QED BY <1>5, <1>6 DEF CheckSpace

-----------------------------------------------------------------------------
(* In the loops the image in use is the one the header names, and the used *)
(* blocks passed are counted.                                              *)
LEMMA LoopFacts ==
    ASSUME NEW src \in [Blocks -> Contents],
           Inv(src), pc \in {"read", "verify", "write", "finished"}
    PROVE  /\ ImageOf(src, image, usedblocks, bitmap)
           /\ bitmap \in SUBSET Blocks /\ Cardinality(bitmap) \in Nat
           /\ block_id \in Nat /\ copied_count \in Nat
           /\ copied_count = Cardinality(Below(bitmap, block_id))
           /\ copied_count =< Cardinality(bitmap)
           /\ get_blocks_used = Cardinality(bitmap)
<1>1. TypeOK /\ Given(image, src) /\ GivenInv /\ PrefixInv(src)
    BY DEF Inv, LoopInv
<1>2. bitmap \in SUBSET Blocks /\ block_id \in Nat /\ copied_count \in Nat /\ rpos =< Len(image) /\ rpos \in Int
    BY <1>1 DEF TypeOK
<1>3. rpos >= 3 /\ SubSeq(image, 1, 3) = <<Desc(usedblocks), Bits(bitmap), BitsCrc(bitmap)>>
    BY <1>1 DEF GivenInv
<1>4. Len(image) >= 3
    <2>1. Len(image) \in Nat
        BY <1>1, ImageLength
    <2>2. QED BY <1>2, <1>3, <2>1
<1>5. ImageOf(src, image, usedblocks, bitmap)
    BY <1>1, <1>3, <1>4, HeaderNames
<1>6. copied_count = Cardinality(Below(bitmap, block_id))
    BY <1>1 DEF PrefixInv, Copying
<1>7. Cardinality(bitmap) \in Nat /\ Cardinality(Below(bitmap, block_id)) =< Cardinality(bitmap)
    BY <1>2, BitmapFinite
<1>8. get_blocks_used = Cardinality(bitmap)
    <2>1. \A b \in Blocks : pc_test_bit(b, bitmap) <=> b \in bitmap
        BY DEF pc_test_bit, Blocks
    <2>2. {b \in Blocks : pc_test_bit(b, bitmap)} = bitmap
        BY <1>2, <2>1
    <2>3. QED BY <2>2 DEF get_blocks_used
<1>9. QED BY <1>2, <1>5, <1>6, <1>7, <1>8

(* The next chunk, and the cells a call reads for it.                      *)
LEMMA NextChunkIs ==
    ASSUME NEW src \in [Blocks -> Contents],
           Inv(src), pc = "read"
    PROVE  /\ NextChunk = ChunkSize(Cardinality(bitmap), copied_count)
           /\ NextChunk \in Nat
           /\ NextChunk = 0 <=> copied_count = Cardinality(bitmap)
<1>1. /\ Cardinality(bitmap) \in Nat /\ copied_count \in Nat
      /\ copied_count =< Cardinality(bitmap)
      /\ get_blocks_used = Cardinality(bitmap)
    BY LoopFacts
<1>2. NextChunk = ChunkSize(Cardinality(bitmap), copied_count)
    BY <1>1 DEF NextChunk, ChunkSize, blocks_per_checksum
<1>3. QED BY <1>1, <1>2 DEF ChunkSize, blocks_per_checksum

LEMMA ReadSizeIs ==
    ASSUME NEW src \in [Blocks -> Contents],
           Inv(src), pc = "read", NextChunk > 0
    PROVE  /\ copied_count < Cardinality(bitmap) /\ copied_count % blocks_per_checksum = 0
           /\ ReadSize(NextChunk) = NextChunk + 1
<1> DEFINE n == Cardinality(bitmap)
           C == blocks_per_checksum
           k == NextChunk
           base == copied_count
<1>1. /\ n \in Nat /\ base \in Nat /\ base =< n /\ get_blocks_used = n
      /\ C \in Nat \ {0}
    BY LoopFacts DEF blocks_per_checksum
<1>2. k \in Nat /\ k = ChunkSize(n, base) /\ base # n
    BY NextChunkIs
<1>3. base < n /\ base % C = 0
    <2>1. base < n
        BY <1>1, <1>2
    <2>2. ReadInv(src)
        BY DEF Inv, LoopInv
    <2>3. QED BY <2>1, <2>2 DEF ReadInv
<1>4. /\ k \in 1 .. C /\ base + k =< n
      /\ \A j \in 0 .. k - 1 : CellsOf(base + j) = CellsOf(base) + j
      /\ base + k = n => CellsOf(base) + k + 1 = DataLength(n)
      /\ k = C => (base + k) % C = 0 /\ CellsOf(base + k) = CellsOf(base) + k + 1
      /\ k < C => base + k = n /\ n % C = k
    BY <1>1, <1>2, <1>3, ChunkCells
<1>5. base \div C \in Nat /\ (base + k) \div C \in Nat
    <2>1. base + k \in Nat
        BY <1>1, <1>2
    <2> HIDE DEF n, C, k, base
    <2>2. QED BY <1>1, <2>1, DivModSplit
<1>6. convert_blocks_to_bytes(base, k, C) = k + ((base + k) \div C - base \div C)
    BY <1>1 DEF convert_blocks_to_bytes, get_checksum_count
<1>7. CASE k = C
    <2>1. CellsOf(base + k) = CellsOf(base) + k + 1
        BY <1>4, <1>7
    <2>2. base + k + (base + k) \div C = base + base \div C + k + 1
        BY <2>1 DEF CellsOf
    <2>3. ~ShortChunk(k)
        BY <1>7 DEF ShortChunk, blocks_per_checksum
    <2> HIDE DEF n, C, k, base
    <2>4. convert_blocks_to_bytes(base, k, C) = k + 1
        BY <1>1, <1>2, <1>5, <1>6, <2>2
    <2>5. ReadSize(k) = convert_blocks_to_bytes(base, k, C) + 0
        BY <2>3 DEF ReadSize, base, C
    <2>6. QED BY <1>2, <1>3, <2>4, <2>5 DEF n, C, k, base
<1>8. CASE k < C
    <2>1. base + k = n /\ n % C = k /\ k # 0 /\ k \in 0 .. C - 1
        BY <1>1, <1>4, <1>8
    <2>2. DataLength(n) = CellsOf(n) + 1
        BY <2>1 DEF DataLength
    <2>3. CellsOf(base) + k + 1 = CellsOf(n) + 1
        BY <1>4, <2>1, <2>2
    <2>4. base + base \div C + k + 1 = n + n \div C + 1
        BY <2>3 DEF CellsOf
    <2>5. ShortChunk(k)
        <3>1. k % C = k
            BY <1>1, <2>1
        <3>2. k < BufferCapacity
            BY <1>8 DEF blocks_per_checksum
        <3>3. QED BY <2>1, <3>1, <3>2 DEF ShortChunk
    <2> HIDE DEF n, C, k, base
    <2>6. n \div C = (base + k) \div C
        BY <2>1
    <2>7. convert_blocks_to_bytes(base, k, C) = k
        <3> DEFINE q == base \div C
                   t == (base + k) \div C
        <3>1. q \in Nat /\ t \in Nat /\ base + q + k + 1 = (base + k) + t + 1
            BY <1>5, <2>1, <2>4, <2>6
        <3>2. convert_blocks_to_bytes(base, k, C) = k + (t - q)
            BY <1>6
        <3> HIDE DEF q, t
        <3>3. QED BY <1>1, <1>2, <3>1, <3>2
    <2>8. get_blocks_used % C # 0
        BY <1>1, <2>1
    <2>9. ReadSize(k) = convert_blocks_to_bytes(base, k, C) + 1
        BY <2>5, <2>8 DEF ReadSize, base, C
    <2>10. QED BY <1>2, <1>3, <2>7, <2>9 DEF n, C, k, base
<1>9. QED BY <1>1, <1>4, <1>7, <1>8

(* What is known while a chunk is unpacked.                                *)
LEMMA VerifyFacts ==
    ASSUME NEW src \in [Blocks -> Contents],
           Inv(src), pc = "verify"
    PROVE  LET first == 3 + CellsOf(copied_count)
           IN  /\ Chunk(src, image, usedblocks, bitmap, copied_count, blocks_read, first)
               /\ first \in Nat /\ blocks_read \in 1 .. blocks_per_checksum
               /\ rpos = first + blocks_read + 1
               /\ Len(read_buffer) = blocks_read + 1
               /\ \A j \in 1 .. blocks_read + 1 : read_buffer[j] = image[first + j]
               /\ write_buffer = Unpacked(image, first, i)
<1> DEFINE n == Cardinality(bitmap)
           C == blocks_per_checksum
           base == copied_count
           first == 3 + CellsOf(base)
<1>1. TypeOK /\ Given(image, src) /\ ChunkInv(src)
    BY DEF Inv, LoopInv
<1>2. ImageOf(src, image, usedblocks, bitmap) /\ n \in Nat /\ base \in Nat /\ C \in Nat \ {0}
    BY LoopFacts DEF blocks_per_checksum
<1>3. Base = base
    BY DEF Base
<1>4. /\ base < n /\ base % C = 0
      /\ blocks_read = IF base + C < n THEN C ELSE n - base
      /\ rpos = first + blocks_read + 1
      /\ GoodUpTo(src, first) /\ read_buffer = SubSeq(image, first + 1, rpos)
      /\ write_buffer = [k \in 1 .. i |-> ContentOf(image[first + k])]
    BY <1>1, <1>3 DEF ChunkInv
<1>5. blocks_read = ChunkSize(n, base) /\ blocks_read \in 1 .. C
    BY <1>2, <1>4 DEF ChunkSize
<1>6. first \in Nat
    <2>1. CellsOf(base) \in Nat
        BY <1>2, CellsGrow
    <2>2. QED BY <2>1
<1>7. rpos =< Len(image) /\ Len(image) \in Nat
    BY <1>1, ImageLength DEF TypeOK
<1>8. Good(src, image, usedblocks, bitmap, first)
    BY <1>4 DEF GoodUpTo, Good
<1>9. Chunk(src, image, usedblocks, bitmap, base, blocks_read, first)
    BY <1>2, <1>4, <1>5, <1>7, <1>8 DEF Chunk
<1>10. write_buffer = Unpacked(image, first, i)
    BY <1>4 DEF Unpacked
<1>11. Len(read_buffer) = blocks_read + 1 /\ \A j \in 1 .. blocks_read + 1 : read_buffer[j] = image[first + j]
    <2> DEFINE S == {image[p] : p \in DOMAIN image}
               m == first + 1
    <2>1. image \in Seq(S)
        BY <1>1, ImageLength
    <2> HIDE DEF S, first, C, n, base
    <2>2. m \in Int /\ rpos \in Int /\ m =< rpos /\ rpos - m + 1 = blocks_read + 1 /\ m - 1 = first
        BY <1>4, <1>5, <1>6, <1>2
    <2>3. \A j \in m .. rpos : image[j] \in S
        <3>1. \A j \in m .. rpos : j \in 1 .. Len(image)
            BY <1>6, <1>7, <2>2
        <3>2. QED BY <2>1, <3>1
    <2> HIDE DEF m
    <2>4. /\ Len(SubSeq(image, m, rpos)) = IF m =< rpos THEN rpos - m + 1 ELSE 0
          /\ \A j \in 1 .. rpos - m + 1 : SubSeq(image, m, rpos)[j] = image[m + j - 1]
        BY <2>2, <2>3, SubSeqProperties
    <2>5. read_buffer = SubSeq(image, m, rpos)
        BY <1>4 DEF m
    <2>6. \A j \in 1 .. blocks_read + 1 : m + j - 1 = first + j
        BY <1>5, <1>6, <2>2 DEF m
    <2>7. QED BY <2>2, <2>4, <2>5, <2>6
<1>12. QED BY <1>4, <1>5, <1>6, <1>9, <1>10, <1>11

(* A chunk and its checksum are read.                                      *)
LEMMA ReadChunkStep ==
    ASSUME NEW src \in [Blocks -> Contents],
           Inv(src), ReadChunk
    PROVE  Inv(src)'
<1> DEFINE n == Cardinality(bitmap)
           C == blocks_per_checksum
           k == NextChunk
           base == copied_count
<1>1. /\ TypeOK /\ Given(image, src) /\ size \in TargetSizes
      /\ GivenInv /\ RepliesInv /\ PrefixInv(src) /\ ReadInv(src) /\ PositionFollowsLoop
    BY CommonParts DEF Inv, LoopInv
<1>2. /\ pc = "read" /\ k > 0
      /\ UNCHANGED <<e_code, replies, usedblocks, bitmap, restores, image, size, blocks_in_cs, checksum,
                     copied_count, block_id, wpos, blocks_written, target, percent>>
    BY DEF ReadChunk, Goto, header, given, write
<1>3. /\ n \in Nat /\ base \in Nat /\ C \in Nat \ {0}
    BY <1>2, LoopFacts DEF blocks_per_checksum
<1>4. k \in Nat /\ k = ChunkSize(n, base) /\ base < n /\ base % C = 0 /\ ReadSize(k) = k + 1
    BY <1>2, NextChunkIs, ReadSizeIs
<1>5. /\ rpos + (k + 1) =< Len(image)
      /\ read_buffer' = SubSeq(image, rpos + 1, rpos + (k + 1))
      /\ rpos' = rpos + (k + 1) /\ blocks_read' = k
      /\ i' = 0 /\ read_offset' = 0 /\ write_buffer' = <<>>
      /\ pc' = "verify"
    BY <1>4 DEF ReadChunk, Goto
<1>6. /\ blocks_in_cs = 0 /\ checksum = <<>> /\ rpos = 3 + CellsOf(base) /\ GoodUpTo(src, rpos)
    BY <1>1, <1>2, <1>4 DEF ReadInv
<1>7. /\ k \in 1 .. C
    BY <1>3, <1>4 DEF ChunkSize
<1>8. Len(image) \in Nat /\ rpos \in Nat /\ C = BufferCapacity
    BY <1>1, ImageLength DEF TypeOK, blocks_per_checksum
<1>9. Len(read_buffer') = k + 1
    <2> DEFINE S == {image[p] : p \in DOMAIN image}
               m == rpos + 1
               e == rpos + (k + 1)
    <2>1. image \in Seq(S)
        BY <1>1, ImageLength
    <2> HIDE DEF S, C, n, base, k
    <2>2. m \in Int /\ e \in Int /\ m =< e /\ (e - m) + 1 = k + 1
        BY <1>4, <1>8
    <2>3. \A j \in m .. e : image[j] \in S
        <3>1. \A j \in m .. e : j \in 1 .. Len(image)
            BY <1>4, <1>5, <1>8
        <3>2. QED BY <2>1, <3>1
    <2> HIDE DEF m, e
    <2>4. Len(SubSeq(image, m, e)) = IF m =< e THEN (e - m) + 1 ELSE 0
        BY <2>2, <2>3, SubSeqProperties
    <2>5. read_buffer' = SubSeq(image, m, e)
        BY <1>5 DEF m, e
    <2>6. QED BY <2>2, <2>4, <2>5
<1> HIDE DEF k
<1>10. TypeOK'
    <2>1. /\ rpos' \in 0 .. Len(image') /\ blocks_read' \in 0 .. BufferCapacity /\ i' \in 0 .. blocks_read'
        BY <1>2, <1>5, <1>7, <1>8
    <2>2. write_buffer' \in Seq(Contents \cup {Torn[2]})
        BY <1>5
    <2>3. QED BY <1>1, <1>2, <2>1, <2>2 DEF TypeOK
<1>11. ReadBufferBound'
    <2>1. /\ k + 1 =< BufferCapacity + 1 /\ 0 + (k - 0) > 0
          /\ 0 + (k - 0) + 1 =< k + 1
        BY <1>7, <1>8
    <2>2. blocks_in_cs' = 0 /\ read_offset' = 0 /\ blocks_read' = k /\ i' = 0
        BY <1>2, <1>5, <1>6
    <2>3. (Len(read_buffer) =< convert_blocks_to_bytes(0, BufferCapacity, blocks_per_checksum))'
        BY <1>9, <2>1, BufferCells
    <2>4. QED BY <1>9, <2>1, <2>2, <2>3 DEF ReadBufferBound
<1>12. PositionFollowsLoop' /\ RepliesMatchOutcome'
    BY <1>1, <1>2, <1>5 DEF PositionFollowsLoop, RepliesMatchOutcome
<1>13. GivenInv'
    BY <1>1, <1>2, <1>4, <1>5, <1>8, SMTT(60) DEF GivenInv, Preparing
<1>14. RepliesInv' /\ PrefixInv(src)' /\ ReadInv(src)'
    BY <1>1, <1>2, <1>5 DEF RepliesInv, PrefixInv, ReadInv, Preparing, Copying
<1>15. ChunkInv(src)'
    <2>1. Base' = base
        BY <1>2, <1>5 DEF Base
    <2>2. GoodUpTo(src, 3 + CellsOf(base))'
        BY <1>2, <1>6 DEF GoodUpTo
    <2>3. write_buffer' = [j \in 1 .. 0 |-> ContentOf(image[(3 + CellsOf(base)) + j])]
        BY <1>5
    <2>4. k = IF base + C < n THEN C ELSE n - base
        BY <1>4 DEF ChunkSize
    <2>5. rpos' = (3 + CellsOf(base)) + k + 1 /\ read_buffer' = SubSeq(image, (3 + CellsOf(base)) + 1, rpos')
        BY <1>4, <1>5, <1>6, <1>8
    <2>6. 0 # C
        BY <1>3
    <2>7. QED BY <1>2, <1>3, <1>4, <1>5, <1>6, <2>1, <2>2, <2>3, <2>4, <2>5, <2>6 DEF ChunkInv
<1>16. QED BY <1>1, <1>2, <1>10, <1>11, <1>12, <1>13, <1>14, <1>15 DEF Inv, LoopInv

(* Failing to read, and the end of the loop.                               *)
LEMMA ReadFailsStep ==
    ASSUME NEW src \in [Blocks -> Contents],
           Inv(src), ReadFails
    PROVE  Inv(src)'
<1>1. RepliesInv /\ pc = "read"
    BY DEF Inv, LoopInv, ReadFails
<1>2. 8 \in 1 .. 9 /\ replies = IF 8 = 8 THEN 1 ELSE 0
    BY <1>1 DEF RepliesInv, Copying
<1>3. QED BY <1>2, FailStep DEF ReadFails

LEMMA EmitFinishedStep ==
    ASSUME NEW src \in [Blocks -> Contents],
           Inv(src), EmitFinished
    PROVE  Inv(src)'
<1>1. /\ TypeOK /\ Given(image, src) /\ ReadBufferBound
      /\ GivenInv /\ RepliesInv /\ PrefixInv(src) /\ ReadInv(src)
    BY DEF Inv, LoopInv
<1>2. /\ pc = "read" /\ NextChunk = 0 /\ pc' = "finished"
      /\ UNCHANGED <<e_code, replies, usedblocks, bitmap, restores, image, size, rpos, blocks_read, i,
                     read_buffer, read_offset, blocks_in_cs, checksum, write_buffer,
                     copied_count, block_id, wpos, blocks_written, target, percent>>
    BY DEF EmitFinished, Goto, header, given, verify, write
<1>3. copied_count = Cardinality(bitmap)
    BY <1>2, NextChunkIs
<1>4. TypeOK'
    BY <1>1, <1>2 DEF TypeOK
<1>5. ReadBufferBound' /\ PositionFollowsLoop'
    BY <1>1, <1>2 DEF ReadBufferBound, PositionFollowsLoop
<1>6. RepliesMatchOutcome' /\ RepliesInv'
    BY <1>1, <1>2 DEF RepliesMatchOutcome, RepliesInv, Preparing, Copying
<1>7. GivenInv'
    BY <1>1, <1>2 DEF GivenInv, Preparing
<1>8. PrefixInv(src)'
    BY <1>1, <1>2 DEF PrefixInv, Copying
<1>9. ReadInv(src)'
    <2>1. GoodUpTo(src, rpos) /\ rpos = 3 + DataLength(Cardinality(bitmap))
        BY <1>1, <1>2, <1>3 DEF ReadInv
    <2>2. GoodUpTo(src, rpos)'
        BY <1>2, <2>1 DEF GoodUpTo
    <2>3. QED BY <1>2, <1>3, <2>1, <2>2 DEF ReadInv
<1>10. ChunkInv(src)'
    BY <1>2 DEF ChunkInv
<1>11. QED BY <1>1, <1>2, <1>4, <1>5, <1>6, <1>7, <1>8, <1>9, <1>10 DEF Inv, LoopInv

LEMMA EmitErrorStep ==
    ASSUME NEW src \in [Blocks -> Contents],
           Inv(src), EmitError
    PROVE  Inv(src)'
<1>1. /\ TypeOK /\ Given(image, src) /\ size \in TargetSizes
      /\ Len(read_buffer) =< BufferCapacity + 1
    BY CommonParts
<1>2. /\ pc = "error" /\ pc' = "failed" /\ replies' = replies + 1
      /\ UNCHANGED <<e_code, usedblocks, bitmap, restores, image, size, rpos, blocks_read, i,
                     read_buffer, read_offset, blocks_in_cs, checksum, write_buffer,
                     copied_count, block_id, wpos, blocks_written, target, percent>>
    BY DEF EmitError, Goto, header, given, verify, write
<1>3. replies = IF e_code = 8 THEN 1 ELSE 0
    BY <1>2 DEF Inv, LoopInv, RepliesInv
<1>4. replies' \in 0 .. 2 /\ replies' = IF e_code' = 8 THEN 2 ELSE 1
    BY <1>2, <1>3
<1>5. TypeOK'
    BY <1>1, <1>2, <1>4 DEF TypeOK
<1>6. QED BY <1>1, <1>2, <1>4, <1>5, StoppedStep

(* One more cell unpacked.                                                 *)
LEMMA UnpackedGrows ==
    ASSUME NEW img, NEW first \in Nat, NEW j \in Nat
    PROVE  Append(Unpacked(img, first, j), ContentOf(img[first + (j + 1)])) = Unpacked(img, first, j + 1)
<1> DEFINE c == ContentOf(img[first + (j + 1)])
           s == Unpacked(img, first, j)
           t == Unpacked(img, first, j + 1)
           S == {ContentOf(img[first + p]) : p \in 1 .. j + 1}
<1>1. c \in S
    <2>1. j + 1 \in 1 .. j + 1
        OBVIOUS
    <2>2. QED BY <2>1
<1>2. s \in [1 .. j -> S] /\ t \in [1 .. j + 1 -> S]
    <2>1. \A p \in 1 .. j : p \in 1 .. j + 1
        OBVIOUS
    <2>2. \A p \in 1 .. j + 1 : ContentOf(img[first + p]) \in S
        OBVIOUS
    <2> HIDE DEF S
    <2>3. QED BY <2>1, <2>2 DEF Unpacked
<1>3. (\A p \in 1 .. j : s[p] = t[p]) /\ t[j + 1] = c
    <2>1. \A p \in 1 .. j : p \in 1 .. j + 1
        OBVIOUS
    <2>2. j + 1 \in 1 .. j + 1
        OBVIOUS
    <2>3. QED BY <2>1, <2>2 DEF Unpacked
<1> HIDE DEF c, s, t, S
<1>4. s \in Seq(S) /\ Len(s) = j /\ t \in Seq(S) /\ Len(t) = j + 1
    BY <1>2
<1>5. /\ Append(s, c) \in Seq(S) /\ Len(Append(s, c)) = j + 1
      /\ \A p \in 1 .. j : Append(s, c)[p] = s[p]
      /\ Append(s, c)[j + 1] = c
    BY <1>1, <1>4, AppendProperties
<1>6. \A p \in 1 .. j + 1 : Append(s, c)[p] = t[p]
    <2>1. \A p \in 1 .. j + 1 : p \in 1 .. j \/ p = j + 1
        OBVIOUS
    <2>2. QED BY <1>3, <1>5, <2>1
<1>7. Append(s, c) = t
    BY <1>4, <1>5, <1>6, SeqEqual
<1>8. QED BY <1>7 DEF c, s, t

(* What is unpacked is contents, or shows that a cell is no block.         *)
LEMMA UnpackedType ==
    ASSUME NEW src \in [Blocks -> Contents],
           NEW img, NEW u, NEW B, ImageOf(src, img, u, B), NEW first \in Nat, NEW j \in Nat,
           first + j =< Len(img)
    PROVE  Unpacked(img, first, j) \in Seq(Contents \cup {Torn[2]})
<1>1. \A p \in 1 .. j : ContentOf(img[first + p]) \in Contents \cup {Torn[2]}
    <2>1. Len(img) \in Nat /\ \A p \in 1 .. Len(img) : img[p][1] = "block" => img[p][2] \in Contents
        BY DEF ImageOf, Fate
    <2>2. \A p \in 1 .. j : first + p \in 1 .. Len(img)
        BY <2>1
    <2>3. QED BY <2>1, <2>2 DEF ContentOf
<1>2. Unpacked(img, first, j) \in [1 .. j -> Contents \cup {Torn[2]}]
    BY <1>1 DEF Unpacked
<1>3. QED BY <1>2

(* A block is unpacked; when it completes a group, the group is verified.  *)
LEMMA VerifyBlockStep ==
    ASSUME NEW src \in [Blocks -> Contents],
           Inv(src), VerifyBlock
    PROVE  Inv(src)'
<1> DEFINE n == Cardinality(bitmap)
           C == blocks_per_checksum
           base == copied_count
           first == 3 + CellsOf(base)
           k == blocks_read
           content == ContentOf(read_buffer[read_offset + 1])
           covered == Append(checksum, content)
<1>1. /\ TypeOK /\ Given(image, src) /\ size \in TargetSizes
      /\ Len(read_buffer) =< BufferCapacity + 1
      /\ GivenInv /\ RepliesInv /\ PrefixInv(src) /\ ChunkInv(src) /\ PositionFollowsLoop
    BY CommonParts DEF Inv, LoopInv
<1>2. /\ pc = "verify" /\ i < k /\ i' = i + 1 /\ write_buffer' = Append(write_buffer, content)
      /\ UNCHANGED <<replies, usedblocks, bitmap, restores, image, size, rpos, blocks_read, read_buffer,
                     copied_count, block_id, wpos, blocks_written, target, percent>>
    BY DEF VerifyBlock, header, given, write
<1>3. /\ Chunk(src, image, usedblocks, bitmap, base, k, first)
      /\ first \in Nat /\ k \in 1 .. C /\ rpos = first + k + 1
      /\ Len(read_buffer) = k + 1
      /\ \A j \in 1 .. k + 1 : read_buffer[j] = image[first + j]
      /\ write_buffer = Unpacked(image, first, i)
    BY <1>2, VerifyFacts
<1>4. i \in Nat /\ C \in Nat \ {0} /\ i # C /\ C = BufferCapacity
    BY <1>1, <1>2, <1>3 DEF TypeOK, blocks_per_checksum
<1>5. read_offset = i /\ blocks_in_cs = i /\ checksum = write_buffer
    BY <1>1, <1>2, <1>4 DEF ChunkInv
<1> HIDE DEF C, first, base, n
<1>6. write_buffer' = Unpacked(image, first, i + 1) /\ covered = write_buffer'
    <2>1. i + 1 \in 1 .. k + 1
        BY <1>2, <1>3, <1>4
    <2>2. content = ContentOf(image[first + (i + 1)])
        BY <1>3, <1>5, <2>1
    <2>3. covered = write_buffer'
        BY <1>2, <1>5
    <2> HIDE DEF content
    <2>4. QED BY <1>2, <1>3, <1>4, <2>2, <2>3, UnpackedGrows
<1>7. write_buffer' \in Seq(Contents \cup {Torn[2]})
    <2>1. ImageOf(src, image, usedblocks, bitmap) /\ first + (i + 1) =< Len(image)
        <3>1. ImageOf(src, image, usedblocks, bitmap) /\ first + k + 1 =< Len(image)
            BY <1>3 DEF Chunk
        <3>2. Len(image) \in Nat
            BY <1>1, ImageLength
        <3>3. QED BY <1>2, <1>3, <1>4, <3>1, <3>2
    <2>2. i + 1 \in Nat
        BY <1>4
    <2>3. QED BY <1>3, <1>6, <2>1, <2>2, UnpackedType
<1>8. i' \in 0 .. blocks_read' /\ i' \in 1 .. k
    BY <1>2, <1>3, <1>4, SMTT(60)
<1>9. (Len(read_buffer) =< BufferCapacity + 1)'
    BY <1>1, <1>2
<1> HIDE DEF content, covered
<1>10. ASSUME blocks_in_cs' \in 0 .. C - 1, checksum' \in Seq(Contents \cup {Torn[2]}), Fail(8)
       PROVE  Inv(src)'
    <2>1. pc' = "error" /\ e_code' = 8
        BY <1>10 DEF Fail
    <2>2. TypeOK'
        BY <1>1, <1>2, <1>7, <1>8, <1>10, <2>1 DEF TypeOK, C
    <2>3. replies = 1
        BY <1>1, <1>2 DEF RepliesInv, Copying
    <2>4. QED BY <1>1, <1>2, <1>9, <2>1, <2>2, <2>3, StoppedStep
<1>11. ASSUME blocks_in_cs' = (IF i' = C THEN 0 ELSE i'),
              checksum' = (IF i' = C THEN <<>> ELSE write_buffer'),
              read_offset' = (IF i' = C THEN C + 1 ELSE i'),
              i' = C => image[rpos] = Checksum(write_buffer'),
              Goto("verify")
       PROVE  Inv(src)'
    <2>1. pc' = "verify" /\ e_code' = e_code
        BY <1>11 DEF Goto
    <2>2. TypeOK'
        <3>1. blocks_in_cs' \in 0 .. C - 1
            BY <1>3, <1>4, <1>8, <1>11
        <3>2. checksum' \in Seq(Contents \cup {Torn[2]})
            BY <1>7, <1>11
        <3>3. QED BY <1>1, <1>2, <1>7, <1>8, <2>1, <3>1, <3>2 DEF TypeOK, C
    <2>3. ReadBufferBound'
        <3>1. (Len(read_buffer) =< convert_blocks_to_bytes(0, BufferCapacity, blocks_per_checksum))'
            BY <1>9, BufferCells
        <3>2. CASE i' = C
            <4>1. k - i' = 0 /\ blocks_in_cs' = 0 /\ read_offset' = k + 1
                BY <1>3, <1>4, <1>8, <1>11, <3>2
            <4>2. (blocks_in_cs + (blocks_read - i))' = 0 /\ (read_offset + (blocks_read - i))' = k + 1
                BY <1>2, <1>3, <4>1
            <4>3. QED BY <1>2, <1>3, <3>1, <4>2 DEF ReadBufferBound
        <3>3. CASE i' # C
            <4>1. (read_offset + (blocks_read - i))' = k /\ (blocks_in_cs + (blocks_read - i))' = k
                BY <1>2, <1>3, <1>8, <1>11, <3>3
            <4>2. QED BY <1>2, <1>3, <3>1, <4>1 DEF ReadBufferBound
        <3>4. QED BY <3>2, <3>3
    <2>4. PositionFollowsLoop' /\ RepliesMatchOutcome'
        BY <1>1, <1>2, <2>1 DEF PositionFollowsLoop, RepliesMatchOutcome
    <2>5. GivenInv'
        BY <1>1, <1>2, <2>1 DEF GivenInv, Preparing
    <2>6. RepliesInv' /\ PrefixInv(src)' /\ ReadInv(src)'
        BY <1>1, <1>2, <2>1 DEF RepliesInv, PrefixInv, ReadInv, Preparing, Copying
    <2>7. ChunkInv(src)'
        <3>1. Base' = base /\ Base = base
            BY <1>2, <2>1 DEF Base, base
        <3>2. /\ base \in Nat /\ base < n /\ base % C = 0
              /\ k = (IF base + C < n THEN C ELSE n - base)
              /\ rpos = first + k + 1
              /\ GoodUpTo(src, first) /\ read_buffer = SubSeq(image, first + 1, rpos)
            BY <1>1, <1>2, <3>1 DEF ChunkInv, C, n, first
        <3>3. Good(src, image', usedblocks', bitmap', first)
            BY <1>2, <3>2 DEF GoodUpTo, Good
        <3>4. write_buffer' = [j \in 1 .. i' |-> ContentOf(image'[first + j])]
            BY <1>2, <1>6 DEF Unpacked
        <3>5. n' = n /\ C' = C /\ (3 + CellsOf(Base))' = first
            BY <1>2, <3>1 DEF n, C, first, CellsOf, blocks_per_checksum
        <3>6. /\ Base' \in Nat /\ Base' < n' /\ Base' % C' = 0
              /\ blocks_read' = (IF Base' + C' < n' THEN C' ELSE n' - Base')
              /\ rpos' = (3 + CellsOf(Base))' + blocks_read' + 1
              /\ blocks_in_cs' = (IF i' = C' THEN 0 ELSE i')
              /\ checksum' = (IF i' = C' THEN <<>> ELSE write_buffer')
              /\ read_buffer' = SubSeq(image', (3 + CellsOf(Base))' + 1, rpos')
              /\ write_buffer' = [j \in 1 .. i' |-> ContentOf(image'[(3 + CellsOf(Base))' + j])]
              /\ read_offset' = (IF i' = C' THEN C' + 1 ELSE i')
              /\ i' = C' => image'[rpos'] = Checksum(write_buffer')
            BY <1>2, <1>11, <3>1, <3>2, <3>4, <3>5
        <3>7. GoodUpTo(src, 3 + CellsOf(Base))'
            BY <3>3, <3>5 DEF GoodUpTo, Good
        <3>8. QED BY <2>1, <3>6, <3>7 DEF ChunkInv, C, n
    <2>8. QED BY <1>1, <1>2, <1>9, <2>2, <2>3, <2>4, <2>5, <2>6, <2>7 DEF Inv, LoopInv
<1>12. CASE i + 1 = C
    <2>1. /\ blocks_in_cs' = 0 /\ checksum' = <<>> /\ read_offset' = i + 2
          /\ IF ChecksumMatches(read_buffer[i + 2], covered) THEN Goto("verify") ELSE Fail(8)
        BY <1>5, <1>12 DEF VerifyBlock, covered, content, C
    <2>2. i' = C /\ i + 2 = C + 1 /\ i + 2 = k + 1 /\ first + (k + 1) = rpos
        <3>1. i' = i + 1 /\ i < k
            BY <1>2
        <3>2. first \in Nat /\ k \in Nat /\ k =< C /\ rpos = first + k + 1
            BY <1>3, <1>4
        <3>3. i \in Nat /\ C \in Nat /\ i + 1 = C
            BY <1>4, <1>12
        <3> HIDE DEF k
        <3>4. k = C
            BY <3>1, <3>2, <3>3
        <3>5. QED BY <3>1, <3>2, <3>3, <3>4
    <2>3. CASE Fail(8)
        <3>1. blocks_in_cs' \in 0 .. C - 1 /\ checksum' \in Seq(Contents \cup {Torn[2]})
            BY <1>4, <2>1
        <3>2. QED BY <1>10, <2>3, <3>1
    <2>4. CASE ChecksumMatches(read_buffer[i + 2], covered) /\ Goto("verify")
        <3>1. read_buffer[i + 2] = image[rpos]
            BY <1>3, <2>2
        <3>2. image[rpos] = Checksum(write_buffer')
            BY <1>6, <2>4, <3>1 DEF ChecksumMatches
        <3>3. /\ blocks_in_cs' = (IF i' = C THEN 0 ELSE i')
              /\ checksum' = (IF i' = C THEN <<>> ELSE write_buffer')
              /\ read_offset' = (IF i' = C THEN C + 1 ELSE i')
            BY <2>1, <2>2
        <3>4. QED BY <1>11, <2>4, <3>2, <3>3
    <2>5. QED BY <2>1, <2>3, <2>4
<1>13. CASE i + 1 # C
    <2>1. /\ blocks_in_cs' = i + 1 /\ checksum' = covered /\ read_offset' = i + 1 /\ Goto("verify")
        BY <1>5, <1>13 DEF VerifyBlock, covered, content, C
    <2>2. i' # C
        BY <1>2, <1>13
    <2>3. QED BY <1>2, <1>6, <1>11, <2>1, <2>2
<1>14. QED BY <1>12, <1>13

(* A verified chunk from the base-th used block on, of which some blocks   *)
(* have been written.                                                      *)
LEMMA ChunkToWrite ==
    ASSUME NEW src \in [Blocks -> Contents],
           NEW base \in Nat, (pc = "write")', (copied_count - blocks_written = base)',
           (base < Cardinality(bitmap))', base % blocks_per_checksum = 0,
           (blocks_read = ChunkSize(Cardinality(bitmap), base))',
           (rpos = (3 + CellsOf(base)) + blocks_read + 1)',
           (i = blocks_read /\ blocks_written < blocks_read)',
           (blocks_in_cs = IF i = blocks_per_checksum THEN 0 ELSE i)',
           (checksum = IF i = blocks_per_checksum THEN <<>> ELSE write_buffer)',
           Good(src, image', usedblocks', bitmap', rpos'),
           (write_buffer = ChunkOf(bitmap, src, base))'
    PROVE  ChunkInv(src)'
<1>1. Base' = base
    BY DEF Base
<1>2. GoodUpTo(src, rpos)'
    BY DEF Good, GoodUpTo
<1>3. write_buffer' = [k \in 1 .. blocks_read' |-> src[KthUsed(bitmap', base + k)]]
    BY DEF ChunkOf
<1>4. blocks_read' = IF base + blocks_per_checksum < Cardinality(bitmap') THEN blocks_per_checksum
                     ELSE Cardinality(bitmap') - base
    BY DEF ChunkSize
<1>5. QED BY <1>1, <1>2, <1>3, <1>4 DEF ChunkInv

LEMMA WriteFacts ==
    ASSUME NEW src \in [Blocks -> Contents],
           Inv(src), pc = "write"
    PROVE  LET base == copied_count - blocks_written
           IN  /\ base \in Nat /\ base < Cardinality(bitmap) /\ base % blocks_per_checksum = 0
               /\ blocks_read = ChunkSize(Cardinality(bitmap), base)
               /\ rpos = (3 + CellsOf(base)) + blocks_read + 1
               /\ i = blocks_read /\ blocks_written < blocks_read
               /\ blocks_in_cs = IF i = blocks_per_checksum THEN 0 ELSE i
               /\ checksum = IF i = blocks_per_checksum THEN <<>> ELSE write_buffer
               /\ Good(src, image, usedblocks, bitmap, rpos)
               /\ write_buffer = ChunkOf(bitmap, src, base)
<1> DEFINE base == copied_count - blocks_written
<1>1. ChunkInv(src) /\ Base = base
    BY DEF Inv, LoopInv, Base
<1> HIDE DEF base
<1>2. /\ base \in Nat /\ base < Cardinality(bitmap) /\ base % blocks_per_checksum = 0
      /\ blocks_read = IF base + blocks_per_checksum < Cardinality(bitmap) THEN blocks_per_checksum
                       ELSE Cardinality(bitmap) - base
      /\ rpos = (3 + CellsOf(base)) + blocks_read + 1
      /\ i = blocks_read /\ blocks_written < blocks_read
      /\ blocks_in_cs = IF i = blocks_per_checksum THEN 0 ELSE i
      /\ checksum = IF i = blocks_per_checksum THEN <<>> ELSE write_buffer
      /\ GoodUpTo(src, rpos)
      /\ write_buffer = [k \in 1 .. blocks_read |-> src[KthUsed(bitmap, base + k)]]
    BY <1>1 DEF ChunkInv
<1>3. blocks_read = ChunkSize(Cardinality(bitmap), base)
    BY <1>2 DEF ChunkSize
<1>4. Good(src, image, usedblocks, bitmap, rpos)
    BY <1>2 DEF Good, GoodUpTo
<1>5. write_buffer = ChunkOf(bitmap, src, base)
    BY <1>2, <1>3 DEF ChunkOf
<1>6. QED BY <1>2, <1>3, <1>4, <1>5 DEF base

(* A chunk goes on to be written only when its checksum matches.           *)
LEMMA VerifyRestStep ==
    ASSUME NEW src \in [Blocks -> Contents],
           Inv(src), VerifyRest
    PROVE  Inv(src)'
<1> DEFINE n == Cardinality(bitmap)
           C == blocks_per_checksum
           base == copied_count
           first == 3 + CellsOf(base)
           k == blocks_read
           bad == /\ blocks_in_cs > 0 /\ ShortChunk(blocks_read)
                  /\ ~ChecksumMatches(read_buffer[read_offset + 1], checksum)
<1>1. /\ TypeOK /\ Given(image, src) /\ size \in TargetSizes
      /\ Len(read_buffer) =< BufferCapacity + 1
      /\ GivenInv /\ RepliesInv /\ PrefixInv(src) /\ ChunkInv(src) /\ PositionFollowsLoop
    BY CommonParts DEF Inv, LoopInv
<1>2. /\ pc = "verify" /\ i = k /\ blocks_written' = 0
      /\ UNCHANGED <<replies, usedblocks, bitmap, restores, image, size, rpos, blocks_read, i,
                     read_buffer, read_offset, blocks_in_cs, checksum, write_buffer,
                     copied_count, block_id, wpos, target, percent>>
    BY DEF VerifyRest, header, given, verify
<1>3. /\ Chunk(src, image, usedblocks, bitmap, base, k, first)
      /\ first \in Nat /\ k \in 1 .. C /\ rpos = first + k + 1
      /\ \A j \in 1 .. k + 1 : read_buffer[j] = image[first + j]
      /\ write_buffer = Unpacked(image, first, k)
    BY <1>2, VerifyFacts
<1>4. C \in Nat \ {0} /\ C = BufferCapacity /\ k \in Nat
    BY <1>3 DEF blocks_per_checksum
<1>5. /\ blocks_in_cs = (IF i = C THEN 0 ELSE i)
      /\ checksum = (IF i = C THEN <<>> ELSE write_buffer)
      /\ read_offset = (IF i = C THEN C + 1 ELSE i)
      /\ i = C => image[rpos] = Checksum(write_buffer)
    BY <1>1, <1>2 DEF ChunkInv
<1>6. (Len(read_buffer) =< BufferCapacity + 1)'
    BY <1>1, <1>2
<1>7. e_code' \in {-1} \cup 1 .. 9 => TypeOK'
    BY <1>1, <1>2 DEF TypeOK
<1>8. replies = 1 /\ TotalBlocks =< size
    BY <1>1, <1>2 DEF RepliesInv, Copying
<1>9. CASE Fail(8)
    <2>1. pc' = "error" /\ e_code' = 8
        BY <1>9 DEF Fail
    <2>2. TypeOK'
        BY <1>7, <2>1
    <2>3. QED BY <1>1, <1>2, <1>6, <1>8, <2>1, <2>2, StoppedStep
<1>10. CASE ~bad /\ Goto("write")
    <2>1. pc' = "write" /\ e_code' = e_code
        BY <1>10 DEF Goto
    <2>2. TypeOK'
        BY <1>1, <1>7, <2>1 DEF TypeOK
    <2>3. Matches(image, first, k)
        <3>1. image[rpos] = Checksum(write_buffer)
            <4>1. CASE k = C
                BY <1>2, <1>5, <4>1
            <4>2. CASE k # C
                <5>1. /\ k \in 1 .. C - 1 /\ blocks_in_cs = k /\ checksum = write_buffer /\ read_offset = k
                    BY <1>2, <1>3, <1>4, <1>5, <4>2
                <5>2. ShortChunk(k) /\ blocks_in_cs > 0
                    <6>1. k % C = k
                        BY <1>4, <5>1
                    <6>2. QED BY <1>4, <5>1, <6>1 DEF ShortChunk
                <5>3. ChecksumMatches(read_buffer[k + 1], write_buffer)
                    BY <1>10, <5>1, <5>2
                <5>4. k + 1 \in 1 .. k + 1 /\ first + (k + 1) = rpos
                    BY <1>3, <1>4
                <5>5. read_buffer[k + 1] = image[rpos]
                    BY <1>3, <5>4
                <5>6. QED BY <5>3, <5>5 DEF ChecksumMatches
            <4>3. QED BY <4>1, <4>2
        <3>2. QED BY <1>3, <3>1 DEF Matches
    <2>4. Good(src, image, usedblocks, bitmap, rpos) /\ write_buffer = ChunkOf(bitmap, src, base)
        <3> HIDE DEF first, base
        <3>1. Good(src, image, usedblocks, bitmap, first + k + 1) /\ Unpacked(image, first, k) = ChunkOf(bitmap, src, base)
            BY <1>3, <2>3, VerifiedChunk
        <3>2. QED BY <1>3, <3>1
    <2>5. ChunkInv(src)'
        <3>1. base \in Nat /\ base < n /\ base % C = 0 /\ k = ChunkSize(n, base)
            BY <1>3 DEF Chunk
        <3>2. copied_count' - blocks_written' = base /\ blocks_written' < blocks_read'
            BY <1>2, <1>3, <3>1
        <3>3. /\ base < Cardinality(bitmap') /\ blocks_read' = ChunkSize(Cardinality(bitmap'), base)
              /\ rpos' = (3 + CellsOf(base)) + blocks_read' + 1
              /\ i' = blocks_read' /\ write_buffer' = ChunkOf(bitmap', src, base)
              /\ blocks_in_cs' = (IF i' = C THEN 0 ELSE i')
              /\ checksum' = (IF i' = C THEN <<>> ELSE write_buffer')
              /\ Good(src, image', usedblocks', bitmap', rpos')
            BY <1>2, <1>3, <1>5, <2>4, <3>1
        <3> HIDE DEF base
        <3>4. QED BY <2>1, <3>1, <3>2, <3>3, ChunkToWrite
    <2>6. ReadBufferBound'
        BY <1>6, <2>1, BufferCells DEF ReadBufferBound
    <2>7. PositionFollowsLoop' /\ RepliesMatchOutcome'
        BY <1>1, <1>2, <2>1 DEF PositionFollowsLoop, RepliesMatchOutcome
    <2>8. GivenInv'
        BY <1>1, <1>2, <2>1 DEF GivenInv, Preparing
    <2>9. RepliesInv' /\ PrefixInv(src)' /\ ReadInv(src)'
        BY <1>1, <1>2, <2>1 DEF RepliesInv, PrefixInv, ReadInv, Preparing, Copying
    <2>10. QED BY <1>1, <1>2, <1>6, <2>2, <2>5, <2>6, <2>7, <2>8, <2>9 DEF Inv, LoopInv
<1>11. QED BY <1>9, <1>10 DEF VerifyRest

(* The next run of used blocks, and what the write buffer holds for it     *)
(* when w blocks of the chunk from the base-th used block on are written.  *)
RunIs(src, B, id, start, n, base, w) ==
    /\ start .. start + n - 1 \subseteq B
    /\ Cardinality(Below(B, start + n)) = Cardinality(Below(B, id)) + n
    /\ \A b \in Below(B, start + n) : b \in Below(B, id) \/ b \in start .. start + n - 1
    /\ \A b \in start .. start + n - 1 : ChunkOf(B, src, base)[w + b - start + 1] = src[b]

LEMMA RunContents ==
    ASSUME NEW src \in [Blocks -> Contents],
           NEW B \in SUBSET Blocks, NEW id \in Nat, NEW limit, NEW start \in id .. TotalBlocks,
           NEW n \in Nat, UsedRun(id, B, limit, start, n),
           NEW base \in Nat, NEW w \in Nat, base + w = Cardinality(Below(B, id)),
           w + n =< ChunkSize(Cardinality(B), base), ChunkSize(Cardinality(B), base) \in Nat
    PROVE  RunIs(src, B, id, start, n, base, w)
<1> DEFINE k == ChunkSize(Cardinality(B), base)
           c == Cardinality(Below(B, id))
<1>1. start \in Nat /\ id =< start /\ start + n =< TotalBlocks /\ k \in Nat /\ w + n =< k
    BY DEF UsedRun
<1>2. (\A u \in id .. start - 1 : u \notin B) /\ start .. start + n - 1 \subseteq B
    BY <1>1 DEF UsedRun, pc_test_bit
<1>3. Below(B, start) = Below(B, id)
    BY <1>1, <1>2, BelowSkip
<1>4. Cardinality(Below(B, start + n)) = c + n
    <2>1. Cardinality(Below(B, start + n)) = Cardinality(Below(B, start)) + n
        BY <1>1, <1>2, BelowRun
    <2>2. QED BY <1>3, <2>1
<1>5. \A b \in Below(B, start + n) : b \in Below(B, id) \/ b \in start .. start + n - 1
    <2>1. \A b \in B : b < start + n => b < start \/ b \in start .. start + n - 1
        BY <1>1 DEF Blocks
    <2>2. QED BY <1>3, <2>1 DEF Below
<1> HIDE DEF k, c
<1>6. ASSUME NEW b \in start .. start + n - 1
      PROVE  ChunkOf(B, src, base)[w + b - start + 1] = src[b]
    <2> DEFINE d == b - start
               j == w + d + 1
    <2>1. d \in Nat /\ d < n /\ b = start + d /\ b \in B /\ b \in Nat
        BY <1>1, <1>2
    <2>2. Cardinality(Below(B, b)) = c + d
        <3>1. start .. start + d - 1 \subseteq B
            BY <1>1, <1>2, <2>1
        <3> HIDE DEF d
        <3>2. Cardinality(Below(B, start + d)) = Cardinality(Below(B, start)) + d
            BY <1>1, <2>1, <3>1, BelowRun
        <3>3. QED BY <1>3, <2>1, <3>2 DEF c
    <2>3. KthUsed(B, c + d + 1) = b
        BY <2>1, <2>2, KthUsedIs
    <2>4. c = base + w
        BY DEF c
    <2>5. j \in 1 .. k /\ base + j = c + d + 1 /\ w + b - start + 1 = j
        BY <1>1, <2>1, <2>4
    <2> HIDE DEF j, d
    <2>6. ChunkOf(B, src, base)[j] = src[KthUsed(B, base + j)]
        BY <2>5 DEF ChunkOf, k
    <2>7. QED BY <2>3, <2>5, <2>6
<1>7. QED BY <1>2, <1>4, <1>5, <1>6 DEF RunIs, c

(* What a write step does: the run is where its blocks belong, and writing *)
(* any part of it puts the source's contents there.                        *)
LEMMA RunFacts ==
    ASSUME NEW src \in [Blocks -> Contents],
           Inv(src), pc = "write",
           NEW start \in block_id .. TotalBlocks, NEW n \in 1 .. BufferCapacity,
           UsedRun(block_id, bitmap, blocks_read - blocks_written, start, n),
           n =< blocks_read - blocks_written, NEW m \in 0 .. n
    PROVE  /\ RunIs(src, bitmap, block_id, start, n, copied_count - blocks_written, blocks_written)
           /\ SeekTo(start) = start /\ start \in Nat /\ start + n =< TotalBlocks /\ TotalBlocks =< size
           /\ start .. start + m - 1 \subseteq bitmap
           /\ Written(start, m) = [b \in DOMAIN target |->
                                     IF b \in start .. start + m - 1 THEN src[b] ELSE target[b]]
<1> DEFINE base == copied_count - blocks_written
<1>1. /\ bitmap \in SUBSET Blocks /\ block_id \in Nat /\ copied_count \in Nat
      /\ copied_count = Cardinality(Below(bitmap, block_id)) /\ Cardinality(bitmap) \in Nat
    BY LoopFacts
<1>2. TypeOK /\ PositionFollowsLoop /\ RepliesInv
    BY DEF Inv, LoopInv
<1>3. /\ wpos = block_id /\ TotalBlocks =< size
      /\ blocks_read \in Nat /\ blocks_written \in Nat /\ n \in Nat
    BY <1>2 DEF PositionFollowsLoop, RepliesInv, Copying, TypeOK
<1>4. /\ base \in Nat /\ blocks_read = ChunkSize(Cardinality(bitmap), base)
      /\ write_buffer = ChunkOf(bitmap, src, base)
    BY WriteFacts
<1>5. start \in Nat /\ start + n =< TotalBlocks /\ SeekTo(start) = start
    <2>1. start \in Nat /\ start + n =< TotalBlocks
        BY <1>1 DEF UsedRun
    <2>2. QED BY <1>1, <1>3, <2>1 DEF SeekTo
<1>6. RunIs(src, bitmap, block_id, start, n, base, blocks_written)
    <2>1. base + blocks_written = Cardinality(Below(bitmap, block_id))
        BY <1>1, <1>3
    <2>2. blocks_written + n =< ChunkSize(Cardinality(bitmap), base) /\ ChunkSize(Cardinality(bitmap), base) \in Nat
        BY <1>3, <1>4
    <2> HIDE DEF base
    <2>3. QED BY <1>1, <1>3, <1>4, <2>1, <2>2, RunContents
<1> HIDE DEF base
<1>7. \A b \in start .. start + m - 1 : b \in start .. start + n - 1
    BY <1>5
<1>8. start .. start + m - 1 \subseteq bitmap
    BY <1>6, <1>7 DEF RunIs
<1>9. \A b \in start .. start + m - 1 : write_buffer[blocks_written + b - start + 1] = src[b]
    BY <1>4, <1>6, <1>7 DEF RunIs
<1>10. Written(start, m) = [b \in DOMAIN target |->
                             IF b \in start .. start + m - 1 THEN src[b] ELSE target[b]]
    BY <1>9 DEF Written
<1>11. QED BY <1>3, <1>5, <1>6, <1>8, <1>10 DEF base

(* What a target may hold.                                                 *)
FitsTarget(contents) == contents \in [0 .. size - 1 -> Contents \cup OldContents]

(* Writing a part of a run leaves the target with contents it may hold.    *)
LEMMA GoodTarget ==
    ASSUME NEW src \in [Blocks -> Contents],
           Inv(src), NEW start \in Nat, NEW m \in Nat, start .. start + m - 1 \subseteq bitmap,
           target' = [b \in DOMAIN target |-> IF b \in start .. start + m - 1 THEN src[b] ELSE target[b]]
    PROVE  FitsTarget(target')
<1>1. TypeOK
    BY CommonParts
<1>2. bitmap \in SUBSET Blocks /\ target \in [0 .. size - 1 -> Contents \cup OldContents]
    BY <1>1 DEF TypeOK
<1>3. \A b \in start .. start + m - 1 : b \in Blocks /\ src[b] \in Contents
    BY <1>2
<1>4. target' \in [0 .. size - 1 -> Contents \cup OldContents]
    BY <1>2, <1>3
<1>5. QED BY <1>4 DEF FitsTarget

(* A write fails; part of the run may be on the target.                    *)
LEMMA WriteFailsStep ==
    ASSUME NEW src \in [Blocks -> Contents],
           Inv(src), WriteFails
    PROVE  Inv(src)'
<1>1. /\ TypeOK /\ Given(image, src) /\ size \in TargetSizes
      /\ Len(read_buffer) =< BufferCapacity + 1 /\ RepliesInv
    BY CommonParts DEF Inv, LoopInv
<1>2. /\ pc = "write" /\ pc' = "error" /\ e_code' = 8
      /\ UNCHANGED <<replies, usedblocks, bitmap, restores, image, size, rpos, blocks_read, i,
                     read_buffer, read_offset, blocks_in_cs, checksum, write_buffer,
                     copied_count, block_id, wpos, blocks_written, percent>>
    BY DEF WriteFails, Fail, header, given, verify
<1>3. PICK start \in block_id .. TotalBlocks, n \in 1 .. BufferCapacity :
          /\ UsedRun(block_id, bitmap, blocks_read - blocks_written, start, n)
          /\ n =< blocks_read - blocks_written
          /\ \E k \in 0 .. n - 1 : target' = Written(SeekTo(start), k)
    BY DEF WriteFails
<1>4. PICK k \in 0 .. n - 1 : target' = Written(SeekTo(start), k)
    BY <1>3
<1>5. k \in 0 .. n /\ k \in Nat
    OBVIOUS
<1>6. /\ SeekTo(start) = start /\ start \in Nat
      /\ start .. start + k - 1 \subseteq bitmap
      /\ Written(start, k) = [b \in DOMAIN target |->
                               IF b \in start .. start + k - 1 THEN src[b] ELSE target[b]]
    BY <1>2, <1>3, <1>5, RunFacts
<1>7. target' = [b \in DOMAIN target |-> IF b \in start .. start + k - 1 THEN src[b] ELSE target[b]]
    BY <1>4, <1>6
<1>8. target' \in [0 .. size - 1 -> Contents \cup OldContents]
    <2>1. FitsTarget(target')
        <3>1. Inv(src) /\ start \in Nat /\ k \in Nat
            BY <1>5, <1>6
        <3>2. QED BY <1>6, <1>7, <3>1, GoodTarget
    <2>2. QED BY <2>1 DEF FitsTarget
<1>9. TypeOK'
    BY <1>1, <1>2, <1>8 DEF TypeOK
<1>10. replies = 1
    BY <1>1, <1>2 DEF RepliesInv, Copying
<1>11. QED BY <1>1, <1>2, <1>8, <1>9, <1>10, StoppedStep

(* A run of used blocks is written.  Behind the last one of a chunk the    *)
(* loop is at the end of a group or of the data.                           *)
LEMMA WriteRunStep ==
    ASSUME NEW src \in [Blocks -> Contents],
           Inv(src), WriteRun
    PROVE  Inv(src)'
<1> DEFINE N == Cardinality(bitmap)
           C == blocks_per_checksum
           base == copied_count - blocks_written
           k == blocks_read
<1>1. /\ TypeOK /\ Given(image, src) /\ size \in TargetSizes /\ Len(read_buffer) =< BufferCapacity + 1
      /\ GivenInv /\ RepliesInv /\ PrefixInv(src)
    BY CommonParts DEF Inv, LoopInv
<1>2. /\ pc = "write" /\ percent' = progress_update(copied_count', usedblocks)
      /\ pc' = (IF blocks_written' < k THEN "write" ELSE "read") /\ e_code' = e_code
      /\ UNCHANGED <<replies, usedblocks, bitmap, restores, image, size, rpos, blocks_read, i,
                     read_buffer, read_offset, blocks_in_cs, checksum, write_buffer>>
    BY DEF WriteRun, Goto, header, given, verify
<1>3. PICK start \in block_id .. TotalBlocks, n \in 1 .. BufferCapacity :
          /\ UsedRun(block_id, bitmap, k - blocks_written, start, n)
          /\ n =< k - blocks_written
          /\ target' = Written(SeekTo(start), n)
          /\ wpos' = SeekTo(start) + n
          /\ block_id' = start + n
          /\ blocks_written' = blocks_written + n
          /\ copied_count' = copied_count + n
    BY DEF WriteRun
<1>4. n \in 0 .. n /\ n \in Nat /\ n > 0
    OBVIOUS
<1>5. /\ RunIs(src, bitmap, block_id, start, n, base, blocks_written)
      /\ SeekTo(start) = start /\ start \in Nat /\ start + n =< TotalBlocks /\ TotalBlocks =< size
      /\ start .. start + n - 1 \subseteq bitmap
      /\ Written(start, n) = [b \in DOMAIN target |->
                               IF b \in start .. start + n - 1 THEN src[b] ELSE target[b]]
    BY <1>2, <1>3, <1>4, RunFacts
<1>6. target' = [b \in DOMAIN target |-> IF b \in start .. start + n - 1 THEN src[b] ELSE target[b]]
    BY <1>3, <1>5
<1>7. target' \in [0 .. size - 1 -> Contents \cup OldContents]
    BY <1>4, <1>5, <1>6, GoodTarget DEF FitsTarget
<1>8. /\ bitmap \in SUBSET Blocks /\ N \in Nat /\ copied_count \in Nat /\ block_id \in Nat
      /\ copied_count = Cardinality(Below(bitmap, block_id))
    BY <1>2, LoopFacts
<1>9. /\ base \in Nat /\ base < N /\ base % C = 0
      /\ k = ChunkSize(N, base) /\ rpos = (3 + CellsOf(base)) + k + 1
      /\ i = k
      /\ blocks_in_cs = (IF i = C THEN 0 ELSE i)
      /\ checksum = (IF i = C THEN <<>> ELSE write_buffer)
      /\ Good(src, image, usedblocks, bitmap, rpos)
      /\ write_buffer = ChunkOf(bitmap, src, base)
    BY <1>2, WriteFacts
<1>10. /\ k \in Nat /\ blocks_written \in Nat /\ k =< BufferCapacity /\ usedblocks \in Nat
       /\ C \in Nat \ {0} /\ target \in [0 .. size - 1 -> Contents \cup OldContents]
    BY <1>1 DEF TypeOK, blocks_per_checksum
<1>11. /\ block_id' \in Nat /\ block_id' =< TotalBlocks /\ wpos' = block_id'
       /\ blocks_written' \in Nat /\ blocks_written' =< k
       /\ copied_count' \in Nat /\ copied_count' - blocks_written' = base
       /\ copied_count' = base + blocks_written'
    BY <1>3, <1>4, <1>5, <1>8, <1>10, SMTT(60)
<1>12. copied_count' = Cardinality(Below(bitmap, block_id')) /\ copied_count' =< N
    <2>1. copied_count' = Cardinality(Below(bitmap, block_id'))
        BY <1>3, <1>5, <1>8 DEF RunIs
    <2>2. Cardinality(Below(bitmap, block_id')) =< N
        BY <1>8, <1>11, BitmapFinite
    <2>3. QED BY <2>1, <2>2
<1>13. TypeOK'
    <2>1. N =< TotalBlocks
        BY <1>8, BitmapSize
    <2>2. copied_count' \in 0 .. TotalBlocks /\ block_id' \in 0 .. TotalBlocks /\ blocks_written' \in 0 .. BufferCapacity
        <3>1. /\ copied_count' \in Nat /\ block_id' \in Nat /\ blocks_written' \in Nat /\ N \in Nat /\ k \in Nat
              /\ block_id' =< TotalBlocks /\ blocks_written' =< k /\ k =< BufferCapacity
              /\ copied_count' =< N
            BY <1>8, <1>10, <1>11, <1>12
        <3> HIDE DEF N, k
        <3>2. QED BY <2>1, <3>1
    <2>3. percent' \in 0 .. 100
        BY <1>2, <1>10, <1>11, ProgressHundred
    <2>4. QED BY <1>1, <1>2, <1>7, <2>2, <2>3 DEF TypeOK
<1>14. pc' \in {"read", "write"}
    BY <1>2
<1>15. ReadBufferBound'
    BY <1>1, <1>2, <1>14, BufferCells DEF ReadBufferBound
<1>16. PositionFollowsLoop' /\ RepliesMatchOutcome'
    BY <1>11, <1>14 DEF PositionFollowsLoop, RepliesMatchOutcome
<1>17. GivenInv' /\ RepliesInv'
    BY <1>1, <1>2, <1>14 DEF GivenInv, RepliesInv, Preparing, Copying
<1>18. PrefixInv(src)'
    <2>1. \A b \in Below(bitmap, block_id') : b \in Below(bitmap, block_id) \/ b \in start .. start + n - 1
        BY <1>3, <1>5 DEF RunIs
    <2>2. \A b \in Below(bitmap, block_id) : target[b] = src[b]
        BY <1>1, <1>2 DEF PrefixInv, Copying
    <2>3. \A b \in bitmap : b \in DOMAIN target
        <3>1. size \in Nat
            BY <1>1, RestoreSizesAssumption
        <3>2. QED BY <1>5, <1>8, <1>10, <3>1 DEF Blocks
    <2>4. \A b \in Below(bitmap, block_id') : target'[b] = src[b]
        <3>1. \A b \in Below(bitmap, block_id') : b \in bitmap
            BY DEF Below
        <3>2. QED BY <1>6, <2>1, <2>2, <2>3, <3>1
    <2>5. QED BY <1>2, <1>12, <2>4 DEF PrefixInv
<1>19. /\ k \in 1 .. C /\ base + k =< N
       /\ base + k = N => CellsOf(base) + k + 1 = DataLength(N)
       /\ k = C => (base + k) % C = 0 /\ CellsOf(base + k) = CellsOf(base) + k + 1
       /\ k < C => base + k = N /\ N % C = k
    <2> HIDE DEF base
    <2>1. QED BY <1>8, <1>9, ChunkCells
<1>20. CellsOf(base) \in Nat
    <2> HIDE DEF base
    <2>1. QED BY <1>9, CellsGrow
<1> HIDE DEF base, C, N, k
<1>21. CASE blocks_written' < k
    <2>1. pc' = "write"
        BY <1>2, <1>21
    <2>2. ChunkInv(src)'
        <3>1. /\ base < Cardinality(bitmap') /\ blocks_read' = ChunkSize(Cardinality(bitmap'), base)
              /\ rpos' = (3 + CellsOf(base)) + blocks_read' + 1
              /\ i' = blocks_read' /\ write_buffer' = ChunkOf(bitmap', src, base)
              /\ blocks_in_cs' = (IF i' = C THEN 0 ELSE i')
              /\ checksum' = (IF i' = C THEN <<>> ELSE write_buffer')
              /\ Good(src, image', usedblocks', bitmap', rpos')
              /\ blocks_written' < blocks_read' /\ copied_count' - blocks_written' = base
              /\ base \in Nat /\ base % C = 0
            BY <1>2, <1>9, <1>11, <1>21 DEF N, k
        <3>2. QED BY <2>1, <3>1, ChunkToWrite DEF C
    <2>3. ReadInv(src)'
        BY <2>1 DEF ReadInv
    <2>4. QED BY <1>1, <1>2, <1>7, <1>13, <1>15, <1>16, <1>17, <1>18, <2>2, <2>3 DEF Inv, LoopInv
<1>22. CASE ~(blocks_written' < k)
    <2>1. pc' = "read"
        BY <1>2, <1>22
    <2>2. blocks_written' = k /\ copied_count' = base + k
        <3>1. blocks_written' = k
            BY <1>10, <1>11, <1>22
        <3>2. QED BY <1>11, <3>1
    <2>3. GoodUpTo(src, rpos)'
        BY <1>2, <1>9 DEF GoodUpTo, Good
    <2>4. copied_count' < N =>
             /\ copied_count' % C = 0 /\ blocks_in_cs = 0 /\ checksum = <<>>
             /\ rpos = 3 + CellsOf(copied_count')
        <3>1. SUFFICES ASSUME copied_count' < N
                       PROVE  /\ copied_count' % C = 0 /\ blocks_in_cs = 0 /\ checksum = <<>>
                              /\ rpos = 3 + CellsOf(copied_count')
            OBVIOUS
        <3>2. k = C
            BY <1>10, <1>19, <2>2, <3>1
        <3>3. (base + k) % C = 0 /\ CellsOf(base + k) = CellsOf(base) + k + 1
            BY <1>19, <3>2
        <3>4. blocks_in_cs = 0 /\ checksum = <<>>
            BY <1>9, <3>2
        <3>5. rpos = 3 + CellsOf(copied_count')
            <4>1. rpos = (3 + CellsOf(base)) + k + 1 /\ CellsOf(copied_count') = CellsOf(base) + k + 1
                BY <1>9, <2>2, <3>3
            <4>2. QED BY <1>10, <1>20, <4>1
        <3>6. QED BY <2>2, <3>3, <3>4, <3>5
    <2>5. copied_count' = N => rpos = 3 + DataLength(N)
        <3>1. SUFFICES ASSUME copied_count' = N PROVE rpos = 3 + DataLength(N)
            OBVIOUS
        <3>2. CellsOf(base) + k + 1 = DataLength(N) /\ rpos = (3 + CellsOf(base)) + k + 1
            BY <1>9, <1>19, <2>2, <3>1
        <3>3. QED BY <1>10, <1>20, <3>2
    <2>6. N' = N /\ C' = C
        BY <1>2 DEF N, C, blocks_per_checksum
    <2>7. ReadInv(src)'
        BY <1>2, <2>1, <2>3, <2>4, <2>5, <2>6 DEF ReadInv, N, C
    <2>8. ChunkInv(src)'
        BY <2>1 DEF ChunkInv
    <2>9. QED BY <1>1, <1>2, <1>7, <1>13, <1>15, <1>16, <1>17, <1>18, <2>7, <2>8 DEF Inv, LoopInv
<1>23. QED BY <1>21, <1>22

(* Nothing happens.                                                        *)
LEMMA RestoreStutter ==
    ASSUME NEW src \in [Blocks -> Contents],
           Inv(src), UNCHANGED vars
    PROVE  Inv(src)'
<1>1. UNCHANGED <<pc, e_code, replies, usedblocks, bitmap, restores, image, size, rpos, blocks_read, i,
                  read_buffer, read_offset, blocks_in_cs, checksum, write_buffer,
                  copied_count, block_id, wpos, blocks_written, target, percent>>
    BY DEF vars, header, given, verify, write
<1>2. /\ TypeOK /\ ReadBufferBound /\ PositionFollowsLoop
      /\ RepliesMatchOutcome
      /\ GivenInv /\ RepliesInv /\ PrefixInv(src) /\ ReadInv(src) /\ ChunkInv(src) /\ Given(image, src)
    BY DEF Inv, LoopInv
<1>3. TypeOK'
    BY <1>1, <1>2 DEF TypeOK
<1>4. ReadBufferBound' /\ PositionFollowsLoop' /\ RepliesMatchOutcome'
    BY <1>1, <1>2 DEF ReadBufferBound, PositionFollowsLoop, RepliesMatchOutcome
<1>5. GivenInv' /\ RepliesInv' /\ PrefixInv(src)'
    BY <1>1, <1>2 DEF GivenInv, RepliesInv, PrefixInv
<1>6. Base' = Base /\ \A n \in Nat : GoodUpTo(src, n)' = GoodUpTo(src, n)
    BY <1>1 DEF Base, GoodUpTo
<1>7. ReadInv(src)'
    BY <1>1, <1>2 DEF ReadInv, GoodUpTo
<1>8. ChunkInv(src)'
    BY <1>1, <1>2, <1>6 DEF ChunkInv, GoodUpTo
<1>9. QED BY <1>1, <1>2, <1>3, <1>4, <1>5, <1>7, <1>8 DEF Inv, LoopInv

(* Every step keeps the invariant.                                         *)
LEMMA RestoreStep ==
    ASSUME NEW src \in [Blocks -> Contents], Inv(src), [Next]_vars
    PROVE  Inv(src)'
<1>1. /\ Inv(src) /\ Given(image, src) /\ size \in TargetSizes
      /\ target \in [0 .. size - 1 -> Contents \cup OldContents]
    BY CommonParts DEF TypeOK
<1>2. CASE Request
    <2>1. Restart("open_source") /\ pc' = "open_source" /\ UNCHANGED <<image, size, target>>
        BY <1>2 DEF Request, Restart
    <2>2. restores' \in 0 .. MaxRestores
        <3>1. restores \in 0 .. MaxRestores /\ MaxRestores \in Nat
            BY <1>1, CommonParts, RestoresAssumption DEF TypeOK
        <3>2. QED BY <1>2, <3>1 DEF Request
    <2>3. Restart(pc') /\ pc' \in {"idle", "open_source"}
        BY <2>1
    <2>4. QED BY <1>1, <2>1, <2>2, <2>3, RestartStep
<1>3. CASE DaemonDies
    <2>1. Restart("idle") /\ pc' = "idle" /\ UNCHANGED <<restores, image, size, target>>
        BY <1>3 DEF DaemonDies, Restart, given
    <2>2. restores' \in 0 .. MaxRestores
        BY <1>1, <2>1, CommonParts DEF TypeOK
    <2>3. Restart(pc') /\ pc' \in {"idle", "open_source"}
        BY <2>1
    <2>4. QED BY <1>1, <2>1, <2>2, <2>3, RestartStep
<1>4. CASE OpenSource \/ OpenTarget \/ CheckMemory
    BY <1>1, <1>4, PrepareStep
<1>5. CASE ReadImageDesc
    BY <1>1, <1>5, ReadImageDescStep
<1>6. CASE LoadBitmap
    BY <1>1, <1>6, LoadBitmapStep
<1>7. CASE CheckSpace
    BY <1>1, <1>7, CheckSpaceStep
<1>8. CASE ReadChunk
    BY <1>1, <1>8, ReadChunkStep
<1>9. CASE ReadFails
    BY <1>1, <1>9, ReadFailsStep
<1>10. CASE VerifyBlock
    BY <1>1, <1>10, VerifyBlockStep
<1>11. CASE VerifyRest
    BY <1>1, <1>11, VerifyRestStep
<1>12. CASE WriteRun
    BY <1>1, <1>12, WriteRunStep
<1>13. CASE WriteFails
    BY <1>1, <1>13, WriteFailsStep
<1>14. CASE EmitFinished
    BY <1>1, <1>14, EmitFinishedStep
<1>15. CASE EmitError
    BY <1>1, <1>15, EmitErrorStep
<1>16. CASE UNCHANGED vars
    BY <1>1, <1>16, RestoreStutter
<1>17. QED
    BY <1>1, <1>2, <1>3, <1>4, <1>5, <1>6, <1>7, <1>8, <1>9, <1>10, <1>11, <1>12, <1>13, <1>14,
       <1>15, <1>16 DEF Next, Handler

(* The blocks the image names are those of the bitmap in use, and the      *)
(* target has room for them.                                               *)
LEMMA LoopTarget ==
    ASSUME NEW src \in [Blocks -> Contents], Inv(src), pc \in {"read", "write"}
    PROVE  ImageBits = bitmap /\ bitmap \subseteq DOMAIN target
<1>1. TypeOK /\ Given(image, src) /\ GivenInv /\ RepliesInv
    BY DEF Inv, LoopInv
<1>2. /\ bitmap \in SUBSET Blocks /\ rpos \in Int /\ rpos =< Len(image)
      /\ target \in [0 .. size - 1 -> Contents \cup OldContents]
    BY <1>1 DEF TypeOK
<1>3. size \in Nat /\ Len(image) \in Nat
    BY <1>1, RestoreSizesAssumption, ImageLength DEF GivenInv
<1>4. rpos >= 3 /\ SubSeq(image, 1, 3) = <<Desc(usedblocks), Bits(bitmap), BitsCrc(bitmap)>>
    BY <1>1 DEF GivenInv
<1>5. Len(image) >= 3 /\ Len(image) >= 2
    BY <1>2, <1>3, <1>4
<1>6. image[2] = Bits(bitmap)
    BY <1>1, <1>4, <1>5, HeaderNames
<1>7. ImageBits = bitmap
    BY <1>5, <1>6 DEF ImageBits, Bits
<1>8. TotalBlocks =< size
    BY <1>1 DEF RepliesInv, Copying
<1>9. bitmap \subseteq DOMAIN target
    BY <1>2, <1>3, <1>8 DEF Blocks
<1>10. QED BY <1>7, <1>9

(* All that a step does to the target is to bring used blocks back.        *)
BringsBack(src, used) ==
    \/ target' = target
    \/ \E W \in SUBSET used :
          /\ W \subseteq DOMAIN target
          /\ target' = [b \in DOMAIN target |-> IF b \in W THEN src[b] ELSE target[b]]

LEMMA RestoreTarget ==
    ASSUME NEW src \in [Blocks -> Contents], Inv(src), [Next]_vars
    PROVE  BringsBack(src, bitmap) /\ (target' # target => pc = "write" /\ pc' # "finished")
<1>1. ASSUME NEW start \in block_id .. TotalBlocks, NEW n \in 1 .. BufferCapacity,
             UsedRun(block_id, bitmap, blocks_read - blocks_written, start, n),
             n =< blocks_read - blocks_written, NEW m \in 0 .. n,
             target' = Written(SeekTo(start), m), pc = "write", pc' # "finished"
      PROVE  BringsBack(src, bitmap) /\ pc = "write" /\ pc' # "finished"
    <2>1. /\ SeekTo(start) = start /\ start \in Nat /\ TotalBlocks =< size
          /\ start .. start + m - 1 \subseteq bitmap
          /\ Written(start, m) = [b \in DOMAIN target |->
                                    IF b \in start .. start + m - 1 THEN src[b] ELSE target[b]]
        BY <1>1, RunFacts
    <2>2. target' = [b \in DOMAIN target |-> IF b \in start .. start + m - 1 THEN src[b] ELSE target[b]]
        BY <1>1, <2>1
    <2>3. bitmap \subseteq DOMAIN target
        BY <1>1, LoopTarget
    <2>4. start .. start + m - 1 \in SUBSET bitmap /\ start .. start + m - 1 \subseteq DOMAIN target
        BY <2>1, <2>3
    <2>5. QED BY <1>1, <2>2, <2>4 DEF BringsBack
<1>2. CASE WriteRun
    <2>1. PICK start \in block_id .. TotalBlocks, n \in 1 .. BufferCapacity :
              /\ UsedRun(block_id, bitmap, blocks_read - blocks_written, start, n)
              /\ n =< blocks_read - blocks_written
              /\ target' = Written(SeekTo(start), n)
        BY <1>2 DEF WriteRun
    <2>2. pc = "write" /\ pc' # "finished" /\ n \in 0 .. n
        BY <1>2 DEF WriteRun, Goto
    <2>3. QED BY <1>1, <2>1, <2>2
<1>3. CASE WriteFails
    <2>1. PICK start \in block_id .. TotalBlocks, n \in 1 .. BufferCapacity :
              /\ UsedRun(block_id, bitmap, blocks_read - blocks_written, start, n)
              /\ n =< blocks_read - blocks_written
              /\ \E k \in 0 .. n - 1 : target' = Written(SeekTo(start), k)
        BY <1>3 DEF WriteFails
    <2>2. PICK k \in 0 .. n - 1 : target' = Written(SeekTo(start), k)
        BY <2>1
    <2>3. pc = "write" /\ pc' # "finished" /\ k \in 0 .. n
        BY <1>3 DEF WriteFails, Fail
    <2>4. QED BY <1>1, <2>1, <2>2, <2>3
<1>4. CASE ~WriteRun /\ ~WriteFails
    <2>1. target' = target
        BY <1>4 DEF Next, Handler, vars, write, Request, DaemonDies, OpenSource, OpenTarget, CheckMemory,
             Prepare, ReadImageDesc, LoadBitmap, CheckSpace, ReadChunk, ReadFails, VerifyBlock,
             VerifyRest, EmitFinished, EmitError
    <2>2. QED BY <2>1 DEF BringsBack
<1>5. QED BY <1>2, <1>3, <1>4

(* A step leaves the image as it is.                                       *)
LEMMA ImageKept == [Next]_vars => image' = image
BY DEF Next, Handler, vars, given, Request, DaemonDies, OpenSource, OpenTarget, CheckMemory,
       Prepare, ReadImageDesc, LoadBitmap, CheckSpace, ReadChunk, ReadFails, VerifyBlock, VerifyRest,
       WriteRun, WriteFails, EmitFinished, EmitError

(* At the end of the data, the image is the complete one and every used    *)
(* block has been passed.                                                  *)
LEMMA FinishedRestore ==
    ASSUME NEW src \in [Blocks -> Contents], Inv(src), pc = "finished"
    PROVE  /\ image = CompleteImage(usedblocks, bitmap, src)
           /\ \A b \in bitmap : target[b] = src[b]
<1> DEFINE whole == CompleteImage(usedblocks, bitmap, src)
           n == Cardinality(bitmap)
<1>1. /\ ImageOf(src, image, usedblocks, bitmap) /\ bitmap \in SUBSET Blocks
      /\ block_id \in Nat /\ copied_count = Cardinality(Below(bitmap, block_id))
    BY LoopFacts
<1>2. TypeOK /\ PrefixInv(src) /\ ReadInv(src)
    BY DEF Inv, LoopInv
<1>3. copied_count = n /\ rpos = 3 + DataLength(n) /\ GoodUpTo(src, rpos)
    BY <1>2 DEF ReadInv
<1>4. IsWhole(whole, usedblocks, bitmap, src)
    BY <1>1, WholeCells
<1>5. /\ whole \in Seq({whole[p] : p \in DOMAIN whole}) /\ Len(whole) = rpos /\ Len(whole) \in Nat
    BY <1>3, <1>4 DEF IsWhole
<1>6. /\ image \in Seq({image[p] : p \in DOMAIN image}) /\ Len(image) \in Nat
      /\ Len(image) =< Len(whole) /\ rpos =< Len(image)
    BY <1>1, <1>2 DEF ImageOf, TypeOK
<1>7. \A p \in 1 .. rpos : image[p] = whole[p]
    BY <1>3 DEF GoodUpTo
<1>8. image = whole
    <2> DEFINE S == {image[p] : p \in DOMAIN image}
               T == {whole[p] : p \in DOMAIN whole}
    <2> HIDE DEF whole
    <2>1. S \subseteq S \cup T /\ T \subseteq S \cup T
        OBVIOUS
    <2>2. image \in Seq(S) /\ whole \in Seq(T)
        BY <1>5, <1>6
    <2> HIDE DEF S, T
    <2>3. image \in Seq(S \cup T) /\ whole \in Seq(S \cup T)
        BY <2>1, <2>2, SeqWiden
    <2>4. Len(image) = Len(whole) /\ Len(image) = rpos
        BY <1>5, <1>6
    <2>5. \A p \in 1 .. Len(image) : image[p] = whole[p]
        BY <1>7, <2>4
    <2>6. QED BY <2>3, <2>4, <2>5, SeqEqual
<1>9. \A b \in bitmap : target[b] = src[b]
    <2>1. Below(bitmap, block_id) = bitmap
        <3>1. Cardinality(Below(bitmap, block_id)) = Cardinality(bitmap) /\ block_id \in Int
            BY <1>1, <1>3
        <3>2. bitmap \in SUBSET Blocks
            BY <1>1
        <3>3. QED BY <3>1, <3>2, BitmapFinite
    <2>2. QED BY <1>2, <2>1 DEF PrefixInv
<1>10. QED BY <1>8, <1>9

-----------------------------------------------------------------------------
(* The images of this module are all of one partition, whose contents were *)
(* Source.                                                                 *)
LEMMA GoodBlocksKept ==
    ASSUME Inv(Source), OnlyGoodBlocksWritten, [Next]_vars
    PROVE  OnlyGoodBlocksWritten'
<1>1. BringsBack(Source, bitmap) /\ TypeOK
    BY RestoreTarget, CommonParts, RestoreSourceAssumption
<1>2. CASE target' = target
    BY <1>2 DEF OnlyGoodBlocksWritten
<1>3. ASSUME NEW W \in SUBSET bitmap,
             target' = [b \in DOMAIN target |-> IF b \in W THEN Source[b] ELSE target[b]]
      PROVE  OnlyGoodBlocksWritten'
    <2>1. W \subseteq Blocks
        BY <1>1 DEF TypeOK
    <2>2. QED BY <1>3, <2>1 DEF OnlyGoodBlocksWritten
<1>4. QED BY <1>1, <1>2, <1>3 DEF BringsBack

LEMMA SourceStep ==
    Inv(Source) /\ OnlyGoodBlocksWritten /\ [Next]_vars => Inv(Source)' /\ OnlyGoodBlocksWritten'
BY RestoreStep, GoodBlocksKept, RestoreSourceAssumption

(* Whatever fails and whatever is wrong with the image, at every step of   *)
(* every call the loops' bookkeeping is right, no more is read into the    *)
(* buffer than it holds, and no block of the target holds anything but     *)
(* what it held before or what belongs there.                              *)
THEOREM RestoreIsInvariant == Spec => []RestoreInvariant
<1>1. Inv(Source) /\ OnlyGoodBlocksWritten => RestoreInvariant
    BY DEF Inv, RestoreInvariant
<1>2. QED BY <1>1, RestoreInit, SourceStep, PTL DEF Spec

LEMMA FinishedBy == Inv(Source) => FinishedIsExact
BY FinishedRestore, RestoreSourceAssumption DEF FinishedIsExact

(* A restore announces "finished" only for a complete, undamaged image,    *)
(* and then the target holds what the partition held.                      *)
THEOREM FinishedExact == Spec => []FinishedIsExact
BY RestoreInit, SourceStep, FinishedBy, PTL DEF Spec

LEMMA FinishedPrimed == Inv(Source)' => FinishedIsExact'
BY FinishedBy, PTL

(* A step of a restore copies some used blocks, finishes, or is invisible. *)
LEMMA RestoreAbstractStep == Inv(Source) /\ [Next]_vars => [Abstract!AbstractNext]_(Abstract!avars)
<1>1. SUFFICES ASSUME Inv(Source), [Next]_vars
               PROVE  Abstract!AbstractNext \/ UNCHANGED Abstract!avars
    BY DEF Abstract!avars
<1>2. ImageBits' = ImageBits
    BY <1>1, ImageKept DEF ImageBits
<1>3. /\ BringsBack(Source, bitmap) /\ (target' # target => pc = "write" /\ pc' # "finished")
      /\ Inv(Source)'
    BY <1>1, RestoreTarget, RestoreStep, RestoreSourceAssumption
<1>4. CASE target' # target
    <2>1. PICK W \in SUBSET bitmap :
              /\ W \subseteq DOMAIN target
              /\ target' = [b \in DOMAIN target |-> IF b \in W THEN Source[b] ELSE target[b]]
        BY <1>3, <1>4 DEF BringsBack
    <2>2. ImageBits = bitmap
        BY <1>1, <1>3, <1>4, LoopTarget, RestoreSourceAssumption
    <2>3. status = "running" /\ status' = "running"
        BY <1>3, <1>4 DEF status
    <2>4. Abstract!CopySome
        BY <1>2, <2>1, <2>2, <2>3 DEF Abstract!CopySome
    <2>5. QED BY <2>4 DEF Abstract!AbstractNext
<1>5. CASE EmitFinished
    <2>1. pc = "read" /\ pc' = "finished" /\ UNCHANGED target
        BY <1>5 DEF EmitFinished, Goto, write
    <2>2. FinishedIsExact'
        BY <1>3, FinishedPrimed
    <2>3. \A b \in bitmap' : target'[b] = Source[b]
        BY <2>1, <2>2 DEF FinishedIsExact
    <2>4. bitmap' = bitmap
        BY <1>5 DEF EmitFinished, header
    <2>5. ImageBits = bitmap /\ bitmap \subseteq DOMAIN target
        BY <1>1, <2>1, LoopTarget, RestoreSourceAssumption
    <2>6. status = "running" /\ status' = "finished"
        BY <2>1 DEF status
    <2>7. \A b \in ImageBits : b \in DOMAIN target /\ target[b] = Source[b]
        BY <2>1, <2>3, <2>4, <2>5
    <2>8. Abstract!Finish
        BY <1>2, <2>1, <2>6, <2>7 DEF Abstract!Finish
    <2>9. QED BY <2>8 DEF Abstract!AbstractNext
<1>6. CASE target' = target /\ ~EmitFinished
    <2>1. pc' = pc \/ (pc # "finished" /\ pc' # "finished")
        BY <1>1, <1>6 DEF Next, Handler, vars, Request, DaemonDies, Restart, Ended, OpenSource, OpenTarget,
             CheckMemory, Prepare, ReadImageDesc, LoadBitmap, CheckSpace, ReadChunk, ReadFails,
             VerifyBlock, VerifyRest, WriteRun, WriteFails, EmitError, Goto, Fail
    <2>2. QED BY <1>2, <1>6, <2>1 DEF Abstract!avars, status
<1>7. QED BY <1>4, <1>5, <1>6

(* The restore implements the abstract copy: over all its calls it writes  *)
(* nothing but source contents to used blocks of the image, and announces  *)
(* "finished" only when every one of them is in place.                     *)
THEOREM RestoreRefinement == Spec => ImplementsAbstractCopy
<1>1. Init => Abstract!AbstractInit
    BY DEF Init, NoCallYet, Abstract!AbstractInit, status
<1>2. QED BY <1>1, RestoreInit, SourceStep, RestoreAbstractStep, PTL
       DEF Spec, ImplementsAbstractCopy, Abstract!AbstractSpec

(* When the image is a complete one, it is the one the header names.       *)
LEMMA CompleteInLoop ==
    ASSUME Inv(Source), pc \in {"read", "verify"}, ImageIsComplete
    PROVE  image = CompleteImage(usedblocks, bitmap, Source)
<1>1. TypeOK /\ Given(image, Source) /\ GivenInv
    BY DEF Inv, LoopInv
<1>2. rpos \in Int /\ rpos =< Len(image) /\ Len(image) \in Nat
    BY <1>1, ImageLength DEF TypeOK
<1>3. rpos >= 3 /\ SubSeq(image, 1, 3) = <<Desc(usedblocks), Bits(bitmap), BitsCrc(bitmap)>>
    BY <1>1 DEF GivenInv
<1>4. Len(image) >= 3 /\ Len(image) >= 2
    BY <1>2, <1>3
<1>5. image[1] = Desc(usedblocks) /\ image[2] = Bits(bitmap)
    BY <1>1, <1>3, <1>4, RestoreSourceAssumption, HeaderNames
<1>6. image[1][2] = usedblocks /\ ImageBits = bitmap
    BY <1>4, <1>5 DEF ImageBits, Desc, Bits
<1>7. QED BY <1>6 DEF ImageIsComplete

(* Of a complete image a call never finds too few cells ...                *)
LEMMA EnoughCells ==
    ASSUME Inv(Source), pc = "read", ImageIsComplete
    PROVE  rpos + ReadSize(NextChunk) =< Len(image)
<1> DEFINE n == Cardinality(bitmap)
           base == copied_count
           first == 3 + CellsOf(base)
           k == NextChunk
<1>1. TypeOK /\ Given(image, Source) /\ ReadInv(Source)
    BY DEF Inv, LoopInv
<1>2. rpos \in Nat /\ rpos =< Len(image) /\ Len(image) \in Nat
    BY <1>1, ImageLength DEF TypeOK
<1>3. bitmap \in SUBSET Blocks /\ n \in Nat /\ base \in Nat /\ get_blocks_used = n
    BY RestoreSourceAssumption, LoopFacts
<1>4. k = ChunkSize(n, base) /\ k \in Nat
    BY RestoreSourceAssumption, NextChunkIs
<1>5. CASE k = 0
    <2>1. ReadSize(0) = 0
        <3>1. convert_blocks_to_bytes(base, 0, blocks_per_checksum) = 0
            <4>1. base \div blocks_per_checksum \in Nat /\ base + 0 = base
                <5>1. base \in Nat /\ blocks_per_checksum \in Nat \ {0}
                    BY <1>3 DEF blocks_per_checksum
                <5> HIDE DEF base
                <5>2. QED BY <5>1, DivModSplit
            <4>2. blocks_per_checksum # 0
                BY DEF blocks_per_checksum
            <4>3. QED BY <4>1, <4>2 DEF convert_blocks_to_bytes, get_checksum_count
        <3>2. ~ShortChunk(0)
            BY DEF ShortChunk, blocks_per_checksum
        <3>3. QED BY <3>1, <3>2 DEF ReadSize
    <2>2. QED BY <1>2, <1>5, <2>1
<1>6. CASE k > 0
    <2>1. base < n /\ base % blocks_per_checksum = 0 /\ ReadSize(k) = k + 1
        BY <1>6, RestoreSourceAssumption, ReadSizeIs
    <2>2. rpos = first
        BY <1>1, <2>1 DEF ReadInv
    <2>3. WholeChunk(Source, usedblocks, bitmap, base, k, first)
        BY <1>3, <1>4, <2>1, RestoreSourceAssumption, ChunkOfWhole
    <2>4. first + k + 1 =< Len(image)
        BY <2>3, CompleteInLoop DEF WholeChunk
    <2> HIDE DEF first, k
    <2>5. rpos + (k + 1) =< Len(image)
        BY <1>2, <1>4, <2>2, <2>4
    <2>6. QED BY <2>1, <2>5 DEF k
<1>7. QED BY <1>4, <1>5, <1>6

(* ... or a checksum that does not match.                                  *)
LEMMA ChecksumsMatch ==
    ASSUME Inv(Source), ImageIsComplete, [Next]_vars, pc = "verify"
    PROVE  pc' # "error"
<1> DEFINE C == blocks_per_checksum
           base == copied_count
           first == 3 + CellsOf(base)
           k == blocks_read
<1>1. TypeOK /\ ChunkInv(Source)
    BY DEF Inv, LoopInv
<1>2. /\ Chunk(Source, image, usedblocks, bitmap, base, k, first)
      /\ first \in Nat /\ k \in 1 .. C
      /\ \A j \in 1 .. k + 1 : read_buffer[j] = image[first + j]
      /\ write_buffer = Unpacked(image, first, i)
    BY RestoreSourceAssumption, VerifyFacts
<1>3. i \in Nat /\ i =< k /\ C \in Nat \ {0} /\ C = BufferCapacity
    BY <1>1 DEF TypeOK, blocks_per_checksum
<1>4. Matches(image, first, k)
    <2> HIDE DEF first, base
    <2>1. QED BY <1>2, CompleteInLoop, RestoreSourceAssumption, WholeChunkMatches
<1>5. read_buffer[k + 1] = Checksum(Unpacked(image, first, k))
    <2>1. k + 1 \in 1 .. k + 1 /\ first + (k + 1) = first + k + 1
        BY <1>2, <1>3
    <2>2. read_buffer[k + 1] = image[first + k + 1]
        BY <1>2, <2>1
    <2>3. QED BY <1>4, <2>2 DEF Matches
<1>6. i # C => read_offset = i /\ blocks_in_cs = i /\ checksum = write_buffer
    BY <1>1 DEF ChunkInv
<1>7. CASE VerifyBlock
    <2> DEFINE content == ContentOf(read_buffer[read_offset + 1])
               covered == Append(checksum, content)
    <2>1. i < k /\ i # C
        BY <1>2, <1>3, <1>7 DEF VerifyBlock
    <2>2. CASE i + 1 = C
        <3>1. k = i + 1 /\ i + 2 = k + 1 /\ i + 1 \in 1 .. k + 1
            BY <1>2, <1>3, <2>1, <2>2
        <3>2. read_buffer[i + 1] = image[first + (i + 1)]
            BY <1>2, <3>1
        <3>3. covered = Append(Unpacked(image, first, i), ContentOf(image[first + (i + 1)]))
            BY <1>2, <1>6, <2>1, <3>2
        <3>4. covered = Unpacked(image, first, k)
            <4> HIDE DEF covered, first
            <4>1. QED BY <1>2, <1>3, <3>1, <3>3, UnpackedGrows
        <3>5. ChecksumMatches(read_buffer[i + 2], covered)
            BY <1>5, <3>1, <3>4 DEF ChecksumMatches
        <3>6. blocks_in_cs + 1 = blocks_per_checksum /\ read_offset + 2 = i + 2
            BY <1>6, <2>1, <2>2
        <3>7. QED BY <1>7, <3>5, <3>6 DEF VerifyBlock, Goto
    <2>3. CASE i + 1 # C
        BY <1>6, <1>7, <2>1, <2>3 DEF VerifyBlock, Goto
    <2>4. QED BY <2>2, <2>3
<1>8. CASE VerifyRest
    <2>1. i = k
        BY <1>8 DEF VerifyRest
    <2>2. CASE i = C
        <3>1. ~ShortChunk(blocks_read)
            BY <1>3, <2>1, <2>2 DEF ShortChunk
        <3>2. QED BY <1>8, <3>1 DEF VerifyRest, Goto
    <2>3. CASE i # C
        <3>1. ChecksumMatches(read_buffer[read_offset + 1], checksum)
            BY <1>2, <1>5, <1>6, <2>1, <2>3 DEF ChecksumMatches
        <3>2. QED BY <1>8, <3>1 DEF VerifyRest, Goto
    <2>4. QED BY <2>2, <2>3
<1>9. CASE DaemonDies
    BY <1>9 DEF DaemonDies, Restart
<1>10. CASE UNCHANGED vars
    BY <1>10 DEF vars
<1>11. QED BY <1>7, <1>8, <1>9, <1>10 DEF Next, Handler, Request, OpenSource, OpenTarget, CheckMemory,
         Prepare, ReadImageDesc, LoadBitmap, CheckSpace, ReadChunk, ReadFails, WriteRun, WriteFails,
         EmitFinished, EmitError

(* The loop's chunks and its arithmetic of cells fit what a backup writes: *)
(* of a complete image it never finds too few cells or a wrong checksum.   *)
THEOREM CompleteIsAccepted == Spec => CompleteImageAccepted
<1>1. Inv(Source) /\ [Next]_vars =>
        [ ImageIsComplete =>
             /\ ~(pc = "verify" /\ pc' = "error")
             /\ pc = "read" => rpos + ReadSize(NextChunk) =< Len(image) ]_vars
    BY EnoughCells, ChecksumsMatch
<1>2. QED BY <1>1, RestoreInit, SourceStep, PTL DEF Spec, CompleteImageAccepted
=============================================================================
