------------------------------ MODULE XfsProofs ------------------------------
(***************************************************************************)
(* Proofs about the XFS library: the buffer cache stays consistent however *)
(* often it is shaken and expanded, and the bitmap reader keeps its        *)
(* promises over any number of jobs, devices and failures.                 *)
(***************************************************************************)
EXTENDS XfsLibrary, TLAPS, SequenceTheorems, FiniteSetTheorems, WellFoundedInduction

(***************************************************************************)
(* Lists without repetition.                                               *)
(***************************************************************************)
LEMMA RemoveAtElements ==
    ASSUME NEW S, NEW s \in Seq(S), NEW i \in DOMAIN s
    PROVE  /\ RemoveAt(s, i) \in Seq(S)
           /\ DOMAIN RemoveAt(s, i) = 1 .. Len(s) - 1
           /\ \A k \in 1 .. Len(s) - 1 : RemoveAt(s, i)[k] = IF k < i THEN s[k] ELSE s[k + 1]
  <1>1. /\ SubSeq(s, 1, i - 1) \in Seq(S) /\ Len(SubSeq(s, 1, i - 1)) = i - 1
        /\ \A k \in 1 .. i - 1 : SubSeq(s, 1, i - 1)[k] = s[k]
    BY SubSeqProperties
  <1>2. /\ SubSeq(s, i + 1, Len(s)) \in Seq(S) /\ Len(SubSeq(s, i + 1, Len(s))) = Len(s) - i
        /\ \A k \in 1 .. Len(s) - i : SubSeq(s, i + 1, Len(s))[k] = s[i + k]
    BY SubSeqProperties
  <1> DEFINE a == SubSeq(s, 1, i - 1)
             b == SubSeq(s, i + 1, Len(s))
  <1>3. RemoveAt(s, i) = a \o b
    BY DEF RemoveAt
  <1>4. /\ a \in Seq(S) /\ b \in Seq(S) /\ Len(a) = i - 1 /\ Len(b) = Len(s) - i
        /\ \A k \in 1 .. i - 1 : a[k] = s[k]
        /\ \A k \in 1 .. Len(s) - i : b[k] = s[i + k]
    BY <1>1, <1>2
  <1> HIDE DEF a, b
  <1>5. /\ a \o b \in Seq(S) /\ Len(a \o b) = Len(s) - 1
        /\ \A k \in 1 .. Len(s) - 1 : (a \o b)[k] = IF k =< i - 1 THEN a[k] ELSE b[k - (i - 1)]
    BY <1>4, ConcatProperties, LenProperties, SMTT(30)
  <1>6. DOMAIN s = 1 .. Len(s) /\ Len(s) \in Nat
    BY LenProperties
  <1>7. DOMAIN (a \o b) = 1 .. Len(s) - 1
    BY <1>5, LenProperties
  <1>8. ASSUME NEW k \in 1 .. Len(s) - 1
        PROVE  (a \o b)[k] = IF k < i THEN s[k] ELSE s[k + 1]
    <2>1. CASE k < i
      BY <1>4, <1>5, <1>6, <2>1
    <2>2. CASE ~(k < i)
      <3>1. k - (i - 1) \in 1 .. Len(s) - i /\ i + (k - (i - 1)) = k + 1
        BY <1>6, <2>2
      <3>2. (a \o b)[k] = b[k - (i - 1)]
        BY <1>5, <1>6, <2>2
      <3> QED
        BY <1>4, <2>2, <3>1, <3>2
    <2> QED
      BY <2>1, <2>2
  <1> QED
    BY <1>3, <1>5, <1>7, <1>8

(* What is left when one element is taken off such a list.                 *)
LEMMA Unlinked ==
    ASSUME NEW S, NEW s \in Seq(S), NEW i \in DOMAIN s, IsInjective(s)
    PROVE  /\ RemoveAt(s, i) \in Seq(S) /\ IsInjective(RemoveAt(s, i))
           /\ ToSet(RemoveAt(s, i)) = ToSet(s) \ {s[i]}
  <1> DEFINE r == RemoveAt(s, i)
  <1>1. /\ r \in Seq(S) /\ DOMAIN r = 1 .. Len(s) - 1 /\ DOMAIN s = 1 .. Len(s) /\ Len(s) \in Nat
        /\ \A k \in 1 .. Len(s) - 1 : r[k] = IF k < i THEN s[k] ELSE s[k + 1]
    BY RemoveAtElements, LenProperties
  <1> HIDE DEF r
  <1>2. \A j, k \in 1 .. Len(s) : s[j] = s[k] => j = k
    BY <1>1 DEF IsInjective
  <1>3. IsInjective(r)
    BY <1>1, <1>2 DEF IsInjective
  <1>4. \A x \in ToSet(r) : x \in ToSet(s) /\ x # s[i]
    <2> SUFFICES ASSUME NEW k \in DOMAIN r
                 PROVE  r[k] \in ToSet(s) /\ r[k] # s[i]
      BY DEF ToSet
    <2>1. CASE k < i
      <3>1. r[k] = s[k] /\ k \in DOMAIN s /\ k # i
        BY <1>1, <2>1
      <3> QED
        BY <1>1, <1>2, <3>1 DEF ToSet
    <2>2. CASE ~(k < i)
      <3>1. r[k] = s[k + 1] /\ k + 1 \in DOMAIN s /\ k + 1 # i
        BY <1>1, <2>2
      <3> QED
        BY <1>1, <1>2, <3>1 DEF ToSet
    <2> QED
      BY <2>1, <2>2
  <1>5. ASSUME NEW x \in ToSet(s), x # s[i]
        PROVE  x \in ToSet(r)
    <2>1. PICK k \in 1 .. Len(s) : x = s[k]
      BY <1>1 DEF ToSet
    <2>2. CASE k < i
      BY <1>1, <2>1, <2>2 DEF ToSet
    <2>3. CASE k > i
      <3>1. k - 1 \in 1 .. Len(s) - 1 /\ ~(k - 1 < i) /\ (k - 1) + 1 = k
        BY <1>1, <2>1, <2>3
      <3> QED
        BY <1>1, <2>1, <3>1 DEF ToSet
    <2> QED
      BY <1>1, <1>5, <2>1, <2>2, <2>3
  <1> QED
    BY <1>1, <1>3, <1>4, <1>5 DEF r

LEMMA Linked ==
    ASSUME NEW S, NEW s \in Seq(S), NEW b \in S, IsInjective(s), b \notin ToSet(s)
    PROVE  /\ <<b>> \o s \in Seq(S) /\ IsInjective(<<b>> \o s)
           /\ ToSet(<<b>> \o s) = ToSet(s) \cup {b}
  <1> DEFINE r == <<b>> \o s
  <1>1. /\ r \in Seq(S) /\ Len(r) = Len(s) + 1
        /\ \A k \in 1 .. Len(s) + 1 : r[k] = IF k =< 1 THEN <<b>>[k] ELSE s[k - 1]
    BY ConcatProperties
  <1> HIDE DEF r
  <1>2. /\ DOMAIN r = 1 .. Len(s) + 1 /\ DOMAIN s = 1 .. Len(s) /\ Len(s) \in Nat
        /\ r[1] = b /\ \A k \in 2 .. Len(s) + 1 : r[k] = s[k - 1]
    BY <1>1, LenProperties
  <1>3. ToSet(r) \subseteq ToSet(s) \cup {b} /\ b \in ToSet(r)
    BY <1>2 DEF ToSet
  <1>4. ASSUME NEW x \in ToSet(s)
        PROVE  x \in ToSet(r)
    <2>1. PICK k \in 1 .. Len(s) : x = s[k]
      BY <1>2 DEF ToSet
    <2>2. k + 1 \in 2 .. Len(s) + 1 /\ (k + 1) - 1 = k
      BY <1>2
    <2>3. k + 1 \in DOMAIN r /\ r[k + 1] = x
      BY <1>2, <2>1, <2>2
    <2> QED
      BY <2>3 DEF ToSet
  <1>5. ASSUME NEW j \in DOMAIN r, NEW k \in DOMAIN r, r[j] = r[k]
        PROVE  j = k
    <2>0. \A m \in DOMAIN r : m # 1 => r[m] # b
      <3> SUFFICES ASSUME NEW m \in DOMAIN r, m # 1
                   PROVE  r[m] # b
        OBVIOUS
      <3>1. m - 1 \in DOMAIN s /\ r[m] = s[m - 1]
        BY <1>2
      <3> QED
        BY <3>1 DEF ToSet
    <2>1. CASE j = 1 \/ k = 1
      BY <1>2, <1>5, <2>0, <2>1
    <2>2. CASE j # 1 /\ k # 1
      <3>1. j - 1 \in 1 .. Len(s) /\ k - 1 \in 1 .. Len(s) /\ s[j - 1] = s[k - 1]
        BY <1>2, <1>5, <2>2
      <3>2. j - 1 = k - 1
        BY <1>2, <3>1 DEF IsInjective
      <3> QED
        BY <1>2, <3>2
    <2> QED
      BY <2>1, <2>2
  <1> QED
    BY <1>1, <1>3, <1>4, <1>5 DEF r, IsInjective

(* Such a list cut in two.                                                 *)
LEMMA Cut ==
    ASSUME NEW S, NEW s \in Seq(S), NEW n \in 0 .. Len(s), IsInjective(s)
    PROVE  /\ SubSeq(s, 1, n) \in Seq(S) /\ SubSeq(s, n + 1, Len(s)) \in Seq(S)
           /\ IsInjective(SubSeq(s, 1, n)) /\ IsInjective(SubSeq(s, n + 1, Len(s)))
           /\ ToSet(SubSeq(s, 1, n)) = ToSet(s) \ ToSet(SubSeq(s, n + 1, Len(s)))
           /\ ToSet(SubSeq(s, n + 1, Len(s))) \subseteq ToSet(s)
           /\ Len(SubSeq(s, n + 1, Len(s))) = Len(s) - n
  <1> DEFINE a == SubSeq(s, 1, n)
             b == SubSeq(s, n + 1, Len(s))
  <1>1. /\ a \in Seq(S) /\ Len(a) = n /\ \A k \in 1 .. n : a[k] = s[k]
    BY SubSeqProperties
  <1>2. /\ b \in Seq(S) /\ Len(b) = Len(s) - n /\ \A k \in 1 .. Len(s) - n : b[k] = s[n + k]
    BY SubSeqProperties
  <1> HIDE DEF a, b
  <1>3. DOMAIN a = 1 .. n /\ DOMAIN b = 1 .. Len(s) - n /\ DOMAIN s = 1 .. Len(s) /\ Len(s) \in Nat
    BY <1>1, <1>2, LenProperties
  <1>4. \A j, k \in 1 .. Len(s) : s[j] = s[k] => j = k
    BY <1>3 DEF IsInjective
  <1>5. IsInjective(a)
    BY <1>1, <1>3, <1>4 DEF IsInjective
  <1>6. IsInjective(b)
    <2> SUFFICES ASSUME NEW j \in DOMAIN b, NEW k \in DOMAIN b, b[j] = b[k]
                 PROVE  j = k
      BY DEF IsInjective
    <2>1. n + j \in 1 .. Len(s) /\ n + k \in 1 .. Len(s) /\ s[n + j] = s[n + k]
      BY <1>2, <1>3
    <2>2. n + j = n + k
      BY <1>4, <2>1
    <2> QED
      BY <1>3, <2>2
  <1>7. ToSet(a) \subseteq ToSet(s) /\ ToSet(b) \subseteq ToSet(s) /\ ToSet(a) \cap ToSet(b) = {}
    <2>1. ToSet(a) \subseteq ToSet(s)
      BY <1>1, <1>3 DEF ToSet
    <2>2. ASSUME NEW k \in DOMAIN b
          PROVE  b[k] \in ToSet(s) /\ b[k] \notin ToSet(a)
      <3>1. n + k \in 1 .. Len(s) /\ b[k] = s[n + k]
        BY <1>2, <1>3
      <3>2. \A j \in 1 .. n : a[j] # b[k]
        BY <1>1, <1>3, <1>4, <3>1
      <3> QED
        BY <1>3, <3>1, <3>2 DEF ToSet
    <2> QED
      BY <2>1, <2>2 DEF ToSet
  <1>8. ASSUME NEW x \in ToSet(s), x \notin ToSet(b)
        PROVE  x \in ToSet(a)
    <2>1. PICK k \in 1 .. Len(s) : x = s[k]
      BY <1>3 DEF ToSet
    <2>2. CASE k =< n
      BY <1>1, <1>3, <2>1, <2>2 DEF ToSet
    <2>3. CASE k > n
      <3>1. k - n \in 1 .. Len(s) - n /\ n + (k - n) = k
        BY <1>3, <2>3
      <3>2. b[k - n] = x
        BY <1>2, <2>1, <3>1
      <3> QED
        BY <1>3, <1>8, <3>1, <3>2 DEF ToSet
    <2> QED
      BY <1>3, <2>1, <2>2, <2>3
  <1> QED
    BY <1>1, <1>2, <1>5, <1>6, <1>7, <1>8 DEF a, b

LEMMA Joined ==
    ASSUME NEW S, NEW s \in Seq(S), NEW t \in Seq(S), IsInjective(s), IsInjective(t),
           ToSet(s) \cap ToSet(t) = {}
    PROVE  /\ s \o t \in Seq(S) /\ IsInjective(s \o t)
           /\ ToSet(s \o t) = ToSet(s) \cup ToSet(t)
  <1> DEFINE r == s \o t
  <1>1. /\ r \in Seq(S) /\ Len(r) = Len(s) + Len(t)
        /\ \A k \in 1 .. Len(s) + Len(t) : r[k] = IF k =< Len(s) THEN s[k] ELSE t[k - Len(s)]
    BY ConcatProperties
  <1> HIDE DEF r
  <1>2. /\ DOMAIN r = 1 .. Len(s) + Len(t) /\ DOMAIN s = 1 .. Len(s) /\ DOMAIN t = 1 .. Len(t)
        /\ Len(s) \in Nat /\ Len(t) \in Nat
    BY <1>1, LenProperties
  <1>3. ASSUME NEW k \in DOMAIN r
        PROVE  \/ k \in DOMAIN s /\ r[k] = s[k] /\ r[k] \notin ToSet(t)
               \/ k - Len(s) \in DOMAIN t /\ r[k] = t[k - Len(s)] /\ r[k] \notin ToSet(s)
    <2>1. CASE k =< Len(s)
      <3>1. k \in DOMAIN s /\ r[k] = s[k]
        BY <1>1, <1>2, <2>1
      <3> QED
        BY <3>1 DEF ToSet
    <2>2. CASE k > Len(s)
      <3>1. k - Len(s) \in DOMAIN t /\ r[k] = t[k - Len(s)]
        BY <1>1, <1>2, <2>2
      <3> QED
        BY <3>1 DEF ToSet
    <2>3. k =< Len(s) \/ k > Len(s)
      BY <1>2
    <2> QED
      BY <2>1, <2>2, <2>3
  <1>4. ASSUME NEW j \in DOMAIN r, NEW k \in DOMAIN r, r[j] = r[k]
        PROVE  j = k
    <2>1. CASE j \in DOMAIN s /\ r[j] = s[j] /\ r[j] \notin ToSet(t)
      <3>1. k \in DOMAIN s /\ r[k] = s[k]
        BY <1>3, <1>4, <2>1 DEF ToSet
      <3> QED
        BY <1>4, <2>1, <3>1 DEF IsInjective
    <2>2. CASE j - Len(s) \in DOMAIN t /\ r[j] = t[j - Len(s)] /\ r[j] \notin ToSet(s)
      <3>1. k - Len(s) \in DOMAIN t /\ r[k] = t[k - Len(s)]
        BY <1>3, <1>4, <2>2 DEF ToSet
      <3>2. j - Len(s) = k - Len(s)
        BY <1>4, <2>2, <3>1 DEF IsInjective
      <3> QED
        BY <1>2, <3>2
    <2> QED
      BY <1>3, <2>1, <2>2
  <1>5. ToSet(r) \subseteq ToSet(s) \cup ToSet(t)
    BY <1>3 DEF ToSet
  <1>6. ASSUME NEW x \in ToSet(s) \cup ToSet(t)
        PROVE  x \in ToSet(r)
    <2>1. CASE x \in ToSet(s)
      <3>1. PICK k \in DOMAIN s : x = s[k]
        BY <2>1 DEF ToSet
      <3>2. k \in DOMAIN r /\ r[k] = x
        BY <1>1, <1>2, <3>1
      <3> QED
        BY <3>2 DEF ToSet
    <2>2. CASE x \in ToSet(t)
      <3>1. PICK k \in DOMAIN t : x = t[k]
        BY <2>2 DEF ToSet
      <3>2. k + Len(s) \in DOMAIN r /\ r[k + Len(s)] = t[(k + Len(s)) - Len(s)] /\ (k + Len(s)) - Len(s) = k
        BY <1>1, <1>2, <3>1
      <3> QED
        BY <3>1, <3>2 DEF ToSet
    <2> QED
      BY <2>1, <2>2
  <1> QED
    BY <1>1, <1>4, <1>5, <1>6 DEF r, IsInjective

(* Such a list is as long as the set of its elements is large.             *)
LEMMA ListCounts ==
    ASSUME NEW S, NEW s \in Seq(S), IsInjective(s)
    PROVE  IsFiniteSet(ToSet(s)) /\ Cardinality(ToSet(s)) = Len(s)
  <1>1. DOMAIN s = 1 .. Len(s) /\ Len(s) \in Nat /\ s \in [1 .. Len(s) -> S]
    BY LenProperties
  <1>2. s \in Bijection(1 .. Len(s), ToSet(s))
    BY <1>1 DEF Bijection, Injection, Surjection, ToSet, IsInjective
  <1>3. ExistsBijection(1 .. Len(s), ToSet(s))
    BY <1>2 DEF ExistsBijection
  <1> QED
    BY <1>1, <1>3, FS_CountingElements, FS_NatBijection
-----------------------------------------------------------------------------
(***************************************************************************)
(* The buffer cache.                                                       *)
(***************************************************************************)

(* One buffer changes.                                                     *)
LEMMA OneBuffer ==
    ASSUME bufs \in Seq(Buffers), NEW b \in DOMAIN bufs, NEW r \in Buffers,
           bufs' = [bufs EXCEPT ![b] = r]
    PROVE  /\ bufs' \in Seq(Buffers) /\ DOMAIN bufs' = DOMAIN bufs
           /\ bufs'[b] = r
           /\ \A x \in DOMAIN bufs \ {b} : bufs'[x] = bufs[x]
  BY ExceptSeq

LEMMA Searching ==
    ASSUME CacheTypeOK, lookup.at = "search"
    PROVE  /\ lookup \in [at : {"search"}, key : Keys, priority : 0 .. MaxPriority, put : BOOLEAN]
           /\ lookup.key \in Keys /\ lookup.priority \in 0 .. MaxPriority /\ lookup.put \in BOOLEAN
  <1>1. lookup # NoLookup
    BY DEF NoLookup
  <1>2. ASSUME lookup \in [at : {"read", "put"}, buf : hashed, key : Keys, put : BOOLEAN]
        PROVE  FALSE
    BY <1>2
  <1> QED
    BY <1>1, <1>2 DEF CacheTypeOK

LEMMA Finding ==
    ASSUME CacheTypeOK, lookup.at \in {"read", "put"}
    PROVE  /\ lookup \in [at : {"read", "put"}, buf : hashed, key : Keys, put : BOOLEAN]
           /\ lookup.buf \in hashed /\ lookup.key \in Keys /\ lookup.put \in BOOLEAN
           /\ lookup.buf \in DOMAIN bufs
  <1>1. lookup # NoLookup
    BY DEF NoLookup
  <1>2. ASSUME lookup \in [at : {"search"}, key : Keys, priority : 0 .. MaxPriority, put : BOOLEAN]
        PROVE  FALSE
    BY <1>2
  <1> QED
    BY <1>1, <1>2 DEF CacheTypeOK

(* A lookup that has found its buffer.                                     *)
LEMMA GotFound ==
    ASSUME CacheTypeOK, lookup.at = "search", NEW b, b \in hashed', Got(b)
    PROVE  /\ lookup' \in [at : {"read", "put"}, buf : hashed', key : Keys, put : BOOLEAN]
           /\ lookup'.at = "read" /\ lookup'.buf = b /\ lookup'.key = lookup.key
  BY Searching DEF Got

LEMMA CacheInitial ==
    ASSUME CacheInit
    PROVE  CacheInvariant
  <1>1. /\ bufs = <<>> /\ hashed = {} /\ freelist = <<>> /\ c_count = 0
        /\ mrus = [p \in 0 .. MaxPriority |-> <<>>] /\ lookup = NoLookup /\ lookup.at = "idle"
        /\ c_maxcount = MaxCount /\ opens = 0 /\ gets = 0
    BY DEF CacheInit, NoLookup
  <1>2. CacheTypeOK
    BY <1>1, CacheAssumption, EmptySeq, FS_EmptySet DEF CacheTypeOK
  <1>3. CacheConsistent
    BY <1>1, FS_EmptySet DEF CacheConsistent, ToSet, IsInjective
  <1> QED
    BY <1>1, <1>2, <1>3 DEF CacheInvariant, LookupHolds, OneBufferPerKey, NoForeignData

LEMMA InitStep ==
    ASSUME CacheInvariant, cache_init
    PROVE  CacheInvariant'
  <1>1. /\ bufs' = bufs /\ hashed' = {} /\ freelist' = freelist /\ c_count' = 0
        /\ mrus' = [p \in 0 .. MaxPriority |-> <<>>]
        /\ lookup' = [at |-> "search", key |-> LastSector, priority |-> 0, put |-> TRUE]
        /\ c_maxcount' = MaxCount /\ opens' = opens + 1 /\ opens < MaxOpens /\ gets' = gets
    BY DEF cache_init
  <1>2. CacheTypeOK'
    <2>1. /\ bufs' \in Seq(Buffers) /\ hashed' \subseteq DOMAIN bufs' /\ IsFiniteSet(hashed')
          /\ freelist' \in Seq(DOMAIN bufs')
      BY <1>1, FS_EmptySet DEF CacheInvariant, CacheTypeOK
    <2>2. mrus' \in [0 .. MaxPriority -> Seq(hashed')]
      BY <1>1, EmptySeq
    <2>3. c_count' \in Nat /\ c_maxcount' \in Nat /\ opens' \in 0 .. MaxOpens /\ gets' \in 0 .. MaxGets
      BY <1>1, CacheAssumption DEF CacheInvariant, CacheTypeOK
    <2>4. lookup' \in [at : {"search"}, key : Keys, priority : 0 .. MaxPriority, put : BOOLEAN]
      BY <1>1, CacheAssumption
    <2> QED
      BY <2>1, <2>2, <2>3, <2>4 DEF CacheTypeOK
  <1>3. CacheConsistent'
    BY <1>1, FS_EmptySet DEF CacheInvariant, CacheConsistent, ToSet, IsInjective
  <1>4. lookup'.at = "search"
    BY <1>1
  <1> QED
    BY <1>1, <1>2, <1>3, <1>4 DEF CacheInvariant, LookupHolds, OneBufferPerKey, NoForeignData

LEMMA GetStep ==
    ASSUME CacheInvariant, libxfs_getbuf_flags
    PROVE  CacheInvariant'
  <1>1. PICK k \in Keys : lookup' = [at |-> "search", key |-> k, priority |-> 0, put |-> FALSE]
    BY DEF libxfs_getbuf_flags
  <1>2. /\ bufs' = bufs /\ hashed' = hashed /\ mrus' = mrus /\ freelist' = freelist
        /\ c_count' = c_count /\ c_maxcount' = c_maxcount /\ opens' = opens
        /\ gets' = gets + 1 /\ gets < MaxGets
    BY DEF libxfs_getbuf_flags
  <1>3. lookup' \in [at : {"search"}, key : Keys, priority : 0 .. MaxPriority, put : BOOLEAN]
    BY <1>1, CacheAssumption
  <1>4. CacheTypeOK'
    BY <1>2, <1>3, CacheAssumption DEF CacheInvariant, CacheTypeOK
  <1>5. lookup'.at = "search"
    BY <1>1
  <1> QED
    BY <1>2, <1>4, <1>5 DEF CacheInvariant, CacheConsistent, LookupHolds, OneBufferPerKey,
       NoForeignData

(* A buffer is used again.                                                 *)
LEMMA Reused ==
    ASSUME NEW old \in Buffers, NEW p \in 0 .. MaxPriority
    PROVE  LET r == [old EXCEPT !.count = @ + 1, !.priority = p]
           IN  /\ r \in Buffers /\ r.count = old.count + 1 /\ r.key = old.key
               /\ r.content = old.content /\ r.uptodate = old.uptodate
  <1> DEFINE n == old.count + 1
  <1>1. n \in Nat
    BY DEF Buffers
  <1> HIDE DEF n
  <1>2. [old EXCEPT !.count = n, !.priority = p] \in Buffers
    BY <1>1 DEF Buffers
  <1>3. [old EXCEPT !.count = n, !.priority = p].count = n
    BY DEF Buffers
  <1> QED
    BY <1>2, <1>3 DEF Buffers, n

(* A buffer comes off the list it is on.                                   *)
LEMMA TakenOff ==
    ASSUME CacheInvariant, NEW b \in hashed, mrus' = OffList(b)
    PROVE  /\ mrus' \in [0 .. MaxPriority -> Seq(hashed)]
           /\ \A p \in 0 .. MaxPriority :
                 /\ IsInjective(mrus'[p])
                 /\ ToSet(mrus'[p]) = {x \in hashed \ {b} : bufs[x].count = 0 /\ bufs[x].priority = p}
  <1> DEFINE q == bufs[b].priority
             i == PlaceOf(b, mrus[q])
  <1>1. /\ mrus \in [0 .. MaxPriority -> Seq(hashed)]
        /\ \A p \in 0 .. MaxPriority : IsInjective(mrus[p])
        /\ \A p \in 0 .. MaxPriority :
              ToSet(mrus[p]) = {x \in hashed : bufs[x].count = 0 /\ bufs[x].priority = p}
    BY DEF CacheInvariant, CacheTypeOK, CacheConsistent
  <1>2. q \in 0 .. MaxPriority
    <2>1. bufs[b] \in Buffers
      BY DEF CacheInvariant, CacheTypeOK
    <2> QED
      BY <2>1 DEF Buffers
  <1>3. CASE bufs[b].count # 0
    <2>1. mrus' = mrus
      BY <1>3 DEF OffList
    <2>2. \A p \in 0 .. MaxPriority :
             {x \in hashed : bufs[x].count = 0 /\ bufs[x].priority = p}
                = {x \in hashed \ {b} : bufs[x].count = 0 /\ bufs[x].priority = p}
      BY <1>3
    <2> QED
      BY <1>1, <2>1, <2>2
  <1>4. CASE bufs[b].count = 0
    <2>1. mrus' = [mrus EXCEPT ![q] = RemoveAt(mrus[q], i)]
      BY <1>4 DEF OffList
    <2>2. i \in DOMAIN mrus[q] /\ mrus[q][i] = b
      <3>1. b \in ToSet(mrus[q])
        BY <1>1, <1>2, <1>4
      <3>2. \E k \in DOMAIN mrus[q] : mrus[q][k] = b
        BY <3>1 DEF ToSet
      <3> QED
        BY <3>2 DEF PlaceOf
    <2> HIDE DEF i, q
    <2>3. mrus[q] \in Seq(hashed) /\ IsInjective(mrus[q])
      BY <1>1, <1>2
    <2>4. /\ RemoveAt(mrus[q], i) \in Seq(hashed) /\ IsInjective(RemoveAt(mrus[q], i))
          /\ ToSet(RemoveAt(mrus[q], i)) = ToSet(mrus[q]) \ {b}
      BY <2>2, <2>3, Unlinked
    <2>5. mrus' \in [0 .. MaxPriority -> Seq(hashed)] /\ mrus'[q] = RemoveAt(mrus[q], i)
      BY <1>1, <1>2, <2>1, <2>4
    <2>6. ASSUME NEW p \in 0 .. MaxPriority
          PROVE  /\ IsInjective(mrus'[p])
                 /\ ToSet(mrus'[p]) = {x \in hashed \ {b} : bufs[x].count = 0 /\ bufs[x].priority = p}
      <3>1. CASE p = q
        BY <1>1, <1>2, <2>4, <2>5, <3>1
      <3>2. CASE p # q
        <4>1. mrus'[p] = mrus[p]
          BY <1>1, <2>1, <3>2
        <4>2. bufs[b].priority # p
          BY <3>2 DEF q
        <4> QED
          BY <1>1, <4>1, <4>2
      <3> QED
        BY <3>1, <3>2
    <2> QED
      BY <2>5, <2>6
  <1> QED
    BY <1>3, <1>4

LEMMA HitStep ==
    ASSUME CacheInvariant, CacheHit
    PROVE  CacheInvariant'
  <1>1. PICK b \in Hits(lookup.key) :
            /\ mrus' = OffList(b)
            /\ bufs' = [bufs EXCEPT ![b].count = @ + 1, ![b].priority = Lowered(@)]
            /\ Got(b)
    BY DEF CacheHit
  <1>2. /\ hashed' = hashed /\ freelist' = freelist /\ c_count' = c_count
        /\ c_maxcount' = c_maxcount /\ opens' = opens /\ gets' = gets /\ lookup.at = "search"
    BY DEF CacheHit
  <1>3. b \in hashed /\ b \in DOMAIN bufs /\ bufs[b].key = lookup.key /\ CacheTypeOK
    BY DEF Hits, libxfs_bcompare, CacheInvariant, CacheTypeOK
  <1> DEFINE r == [bufs[b] EXCEPT !.count = @ + 1, !.priority = Lowered(@)]
  <1>4. bufs[b] \in Buffers
    BY <1>3 DEF CacheTypeOK
  <1>5. Lowered(bufs[b].priority) \in 0 .. MaxPriority
    BY <1>4, CacheAssumption DEF Buffers, Lowered
  <1>6. /\ r \in Buffers /\ r.count = bufs[b].count + 1 /\ r.key = bufs[b].key
        /\ r.content = bufs[b].content /\ r.uptodate = bufs[b].uptodate
    BY <1>4, <1>5, Reused
  <1>7. bufs' = [bufs EXCEPT ![b] = r]
    BY <1>1
  <1>8. bufs[b].count \in Nat
    BY <1>4 DEF Buffers
  <1> HIDE DEF r
  <1>9. /\ bufs' \in Seq(Buffers) /\ DOMAIN bufs' = DOMAIN bufs
        /\ bufs'[b] = r /\ \A x \in DOMAIN bufs \ {b} : bufs'[x] = bufs[x]
    BY <1>3, <1>6, <1>7, OneBuffer DEF CacheTypeOK
  <1>10. /\ mrus' \in [0 .. MaxPriority -> Seq(hashed)]
         /\ \A p \in 0 .. MaxPriority :
               /\ IsInjective(mrus'[p])
               /\ ToSet(mrus'[p]) = {x \in hashed \ {b} : bufs[x].count = 0 /\ bufs[x].priority = p}
    BY <1>1, <1>3, TakenOff
  <1>11. /\ lookup' \in [at : {"read", "put"}, buf : hashed', key : Keys, put : BOOLEAN]
         /\ lookup'.at = "read" /\ lookup'.buf = b /\ lookup'.key = lookup.key
    BY <1>1, <1>2, <1>3, GotFound
  <1>12. CacheTypeOK'
    <2>1. hashed' \subseteq DOMAIN bufs' /\ IsFiniteSet(hashed') /\ freelist' \in Seq(DOMAIN bufs')
      BY <1>2, <1>3, <1>9 DEF CacheTypeOK
    <2>2. c_count' \in Nat /\ c_maxcount' \in Nat /\ opens' \in 0 .. MaxOpens /\ gets' \in 0 .. MaxGets
      BY <1>2, <1>3 DEF CacheTypeOK
    <2>3. mrus' \in [0 .. MaxPriority -> Seq(hashed')]
      BY <1>2, <1>10
    <2> QED
      BY <1>9, <1>11, <2>1, <2>2, <2>3 DEF CacheTypeOK
  <1>13. CacheConsistent'
    <2>1. ASSUME NEW p \in 0 .. MaxPriority
          PROVE  /\ IsInjective(mrus'[p])
                 /\ ToSet(mrus'[p]) = {x \in hashed' : bufs'[x].count = 0 /\ bufs'[x].priority = p}
      <3>1. bufs'[b].count # 0 /\ \A x \in hashed \ {b} : bufs'[x] = bufs[x]
        BY <1>3, <1>6, <1>8, <1>9 DEF CacheTypeOK
      <3> QED
        BY <1>2, <1>10, <3>1
    <2> QED
      BY <1>2, <2>1 DEF CacheInvariant, CacheConsistent
  <1>14. \A x \in hashed : /\ bufs'[x].key = bufs[x].key /\ bufs'[x].content = bufs[x].content
                           /\ bufs'[x].uptodate = bufs[x].uptodate
    BY <1>3, <1>6, <1>9 DEF CacheTypeOK
  <1>15. OneBufferPerKey' /\ NoForeignData'
    BY <1>2, <1>14 DEF CacheInvariant, OneBufferPerKey, NoForeignData
  <1>16. LookupHolds'
    BY <1>3, <1>6, <1>8, <1>9, <1>11 DEF LookupHolds
  <1> QED
    BY <1>12, <1>13, <1>15, <1>16 DEF CacheInvariant

(* What allocating comes to: a buffer that was not in the cache is, for    *)
(* the key of the lookup, empty and in use.                                *)
NewInCache(b) ==
    /\ b \notin hashed /\ hashed' = hashed \cup {b} /\ Got(b)
    /\ bufs' \in Seq(Buffers) /\ DOMAIN bufs \cup {b} = DOMAIN bufs'
    /\ bufs'[b] = initbuf(bufs'[b], lookup.key)
    /\ \A x \in DOMAIN bufs \ {b} : bufs'[x] = bufs[x]
    /\ freelist' \in Seq(DOMAIN bufs') /\ IsInjective(freelist')
    /\ ToSet(freelist') = ToSet(freelist) \ {b}
    /\ mrus' = mrus /\ c_count' = c_count + 1 /\ c_maxcount' = c_maxcount
    /\ opens' = opens /\ gets' = gets

LEMMA Allocates ==
    ASSUME CacheInvariant, Allocate
    PROVE  lookup.at = "search" /\ Hits(lookup.key) = {} /\ \E b : NewInCache(b)
  <1>1. /\ lookup.at = "search" /\ Hits(lookup.key) = {} /\ c_count' = c_count + 1
        /\ mrus' = mrus /\ c_maxcount' = c_maxcount /\ opens' = opens /\ gets' = gets
    BY DEF Allocate, CacheMiss
  <1>2. /\ bufs \in Seq(Buffers) /\ hashed \subseteq DOMAIN bufs /\ freelist \in Seq(DOMAIN bufs)
        /\ hashed \cap ToSet(freelist) = {} /\ IsInjective(freelist) /\ lookup.key \in Keys
    BY <1>1, Searching DEF CacheInvariant, CacheTypeOK, CacheConsistent
  <1>3. \A old : /\ initbuf(old, lookup.key) \in Buffers
                 /\ initbuf(initbuf(old, lookup.key), lookup.key) = initbuf(old, lookup.key)
    BY <1>2, CacheAssumption DEF initbuf, Buffers
  <1>4. ASSUME freelist = <<>>, freelist' = freelist, Taken(Len(bufs) + 1),
               bufs' = Append(bufs, initbuf(NewBuffer, lookup.key))
        PROVE  NewInCache(Len(bufs) + 1)
    <2> DEFINE new == initbuf(NewBuffer, lookup.key)
    <2>1. new \in Buffers /\ new = initbuf(new, lookup.key)
      BY <1>3
    <2> HIDE DEF new
    <2>2. /\ bufs' \in Seq(Buffers) /\ Len(bufs') = Len(bufs) + 1 /\ bufs'[Len(bufs) + 1] = new
          /\ \A x \in 1 .. Len(bufs) : bufs'[x] = bufs[x]
      BY <1>2, <1>4, <2>1, AppendProperties DEF new
    <2>3. DOMAIN bufs = 1 .. Len(bufs) /\ DOMAIN bufs' = 1 .. Len(bufs') /\ Len(bufs) \in Nat
      BY <1>2, <2>2, LenProperties
    <2>4. Len(bufs) + 1 \notin DOMAIN bufs /\ DOMAIN bufs' = DOMAIN bufs \cup {Len(bufs) + 1}
      BY <2>2, <2>3
    <2>5. /\ freelist' \in Seq(DOMAIN bufs') /\ IsInjective(freelist')
          /\ ToSet(freelist') = ToSet(freelist) \ {Len(bufs) + 1}
      BY <1>4, EmptySeq DEF IsInjective, ToSet
    <2>6. /\ Len(bufs) + 1 \notin hashed /\ hashed' = hashed \cup {Len(bufs) + 1} /\ Got(Len(bufs) + 1)
          /\ \A x \in DOMAIN bufs \ {Len(bufs) + 1} : bufs'[x] = bufs[x]
          /\ bufs'[Len(bufs) + 1] = initbuf(bufs'[Len(bufs) + 1], lookup.key)
      BY <1>2, <1>4, <2>1, <2>2, <2>3, <2>4 DEF Taken
    <2> QED
      BY <1>1, <2>2, <2>4, <2>5, <2>6 DEF NewInCache
  <1>5. ASSUME NEW i \in DOMAIN freelist, freelist' = RemoveAt(freelist, i), Taken(freelist[i]),
               bufs' = [bufs EXCEPT ![freelist[i]] = initbuf(@, lookup.key)]
        PROVE  NewInCache(freelist[i])
    <2> DEFINE b   == freelist[i]
               new == initbuf(bufs[b], lookup.key)
    <2>1. new \in Buffers /\ new = initbuf(new, lookup.key)
      BY <1>3
    <2>2. b \in DOMAIN bufs /\ b \in ToSet(freelist)
      <3>1. freelist \in [1 .. Len(freelist) -> DOMAIN bufs]
        BY <1>2, LenProperties
      <3> QED
        BY <3>1 DEF ToSet
    <2>3. bufs' = [bufs EXCEPT ![b] = new]
      BY <1>5
    <2>4. /\ freelist' \in Seq(DOMAIN bufs) /\ IsInjective(freelist')
          /\ ToSet(freelist') = ToSet(freelist) \ {b}
      BY <1>2, <1>5, Unlinked
    <2>5. hashed' = hashed \cup {b} /\ Got(b)
      BY <1>5 DEF Taken
    <2> HIDE DEF b, new
    <2>6. /\ bufs' \in Seq(Buffers) /\ DOMAIN bufs' = DOMAIN bufs
          /\ bufs'[b] = new /\ \A x \in DOMAIN bufs \ {b} : bufs'[x] = bufs[x]
      BY <1>2, <2>1, <2>2, <2>3, OneBuffer
    <2>7. b \notin hashed /\ DOMAIN bufs \cup {b} = DOMAIN bufs'
      BY <1>2, <2>2, <2>6
    <2>8. NewInCache(b)
      BY <1>1, <2>1, <2>4, <2>5, <2>6, <2>7 DEF NewInCache
    <2> QED
      BY <2>8 DEF b
  <1> QED
    BY <1>1, <1>4, <1>5 DEF Allocate

LEMMA AllocateStep ==
    ASSUME CacheInvariant, Allocate
    PROVE  CacheInvariant'
  <1>1. lookup.at = "search" /\ Hits(lookup.key) = {}
    BY Allocates
  <1>2. PICK b : NewInCache(b)
    BY Allocates
  <1>3. /\ b \notin hashed /\ hashed' = hashed \cup {b} /\ Got(b)
        /\ bufs' \in Seq(Buffers) /\ DOMAIN bufs \cup {b} = DOMAIN bufs'
        /\ \A x \in DOMAIN bufs \ {b} : bufs'[x] = bufs[x]
        /\ freelist' \in Seq(DOMAIN bufs') /\ IsInjective(freelist')
        /\ ToSet(freelist') = ToSet(freelist) \ {b}
        /\ mrus' = mrus /\ c_count' = c_count + 1 /\ c_maxcount' = c_maxcount
        /\ opens' = opens /\ gets' = gets
    BY <1>2 DEF NewInCache
  <1>4. /\ bufs'[b].key = lookup.key /\ bufs'[b].content = Zeros /\ bufs'[b].uptodate = FALSE
        /\ bufs'[b].count = 1
    <2>1. bufs'[b] = initbuf(bufs'[b], lookup.key)
      BY <1>2 DEF NewInCache
    <2> QED
      BY <2>1 DEF initbuf
  <1>5. CacheTypeOK
    BY DEF CacheInvariant
  <1>6. \A x \in hashed : x \in DOMAIN bufs /\ x # b /\ bufs'[x] = bufs[x]
    BY <1>3, <1>5 DEF CacheTypeOK
  <1>7. /\ lookup' \in [at : {"read", "put"}, buf : hashed', key : Keys, put : BOOLEAN]
        /\ lookup'.at = "read" /\ lookup'.buf = b /\ lookup'.key = lookup.key
    BY <1>1, <1>3, <1>5, GotFound
  <1>8. IsFiniteSet(hashed') /\ Cardinality(hashed') = Cardinality(hashed) + 1
    BY <1>3, <1>5, FS_AddElement DEF CacheTypeOK
  <1>9. CacheTypeOK'
    <2>1. hashed' \subseteq DOMAIN bufs'
      BY <1>3, <1>5 DEF CacheTypeOK
    <2>2. mrus' \in [0 .. MaxPriority -> Seq(hashed')]
      <3>1. mrus \in [0 .. MaxPriority -> Seq(hashed)] /\ Seq(hashed) \subseteq Seq(hashed')
        BY <1>3, <1>5, SeqMonotonic DEF CacheTypeOK
      <3> QED
        BY <1>3, <3>1
    <2>3. c_count' \in Nat /\ c_maxcount' \in Nat /\ opens' \in 0 .. MaxOpens /\ gets' \in 0 .. MaxGets
      BY <1>3, <1>5 DEF CacheTypeOK
    <2> QED
      BY <1>3, <1>7, <1>8, <2>1, <2>2, <2>3 DEF CacheTypeOK
  <1>10. CacheConsistent'
    <2>1. c_count' = Cardinality(hashed')
      BY <1>3, <1>8 DEF CacheInvariant, CacheConsistent
    <2>2. hashed' \cap ToSet(freelist') = {}
      BY <1>3 DEF CacheInvariant, CacheConsistent
    <2>3. \A p \in 0 .. MaxPriority :
             /\ IsInjective(mrus'[p])
             /\ ToSet(mrus'[p]) = {x \in hashed' : bufs'[x].count = 0 /\ bufs'[x].priority = p}
      BY <1>3, <1>4, <1>6 DEF CacheInvariant, CacheConsistent
    <2> QED
      BY <1>3, <2>1, <2>2, <2>3 DEF CacheConsistent
  <1>11. OneBufferPerKey'
    <2>1. \A x \in hashed : bufs[x].key # lookup.key
      BY <1>1 DEF Hits, libxfs_bcompare
    <2> QED
      BY <1>3, <1>4, <1>6, <2>1 DEF CacheInvariant, OneBufferPerKey
  <1>12. NoForeignData'
    BY <1>3, <1>4, <1>6 DEF CacheInvariant, NoForeignData
  <1>13. LookupHolds'
    BY <1>4, <1>7 DEF LookupHolds
  <1> QED
    BY <1>9, <1>10, <1>11, <1>12, <1>13 DEF CacheInvariant

LEMMA ShakeStep ==
    ASSUME CacheInvariant, cache_shake
    PROVE  CacheInvariant'
  <1> DEFINE p    == lookup.priority
             n    == IF Len(mrus[p]) < ShakeCount THEN Len(mrus[p]) ELSE ShakeCount
             m    == Len(mrus[p]) - n
             kept == SubSeq(mrus[p], 1, m)
             gone == SubSeq(mrus[p], m + 1, Len(mrus[p]))
             next == IF n = ShakeCount THEN p ELSE p + 1
  <1>1. /\ lookup.at = "search" /\ bufs' = bufs /\ opens' = opens /\ gets' = gets
        /\ mrus' = [mrus EXCEPT ![p] = kept]
        /\ hashed' = hashed \ ToSet(gone)
        /\ freelist' = gone \o freelist
        /\ c_count' = c_count - n
        /\ IF next > MaxPriority
           THEN c_maxcount' = c_maxcount * 2 /\ lookup' = [lookup EXCEPT !.priority = 0]
           ELSE c_maxcount' = c_maxcount /\ lookup' = [lookup EXCEPT !.priority = next]
    BY DEF cache_shake, CacheMiss, Released, CountAfterShake, Expanded
  <1>2. /\ lookup \in [at : {"search"}, key : Keys, priority : 0 .. MaxPriority, put : BOOLEAN]
        /\ p \in 0 .. MaxPriority
    BY <1>1, Searching DEF CacheInvariant
  <1>3. /\ CacheTypeOK /\ mrus \in [0 .. MaxPriority -> Seq(hashed)]
        /\ \A q \in 0 .. MaxPriority : IsInjective(mrus[q])
        /\ \A q \in 0 .. MaxPriority :
              ToSet(mrus[q]) = {x \in hashed : bufs[x].count = 0 /\ bufs[x].priority = q}
        /\ hashed \subseteq DOMAIN bufs /\ IsFiniteSet(hashed) /\ freelist \in Seq(DOMAIN bufs)
        /\ hashed \cap ToSet(freelist) = {} /\ IsInjective(freelist)
    BY DEF CacheInvariant, CacheTypeOK, CacheConsistent
  <1>4. mrus[p] \in Seq(hashed) /\ IsInjective(mrus[p]) /\ Len(mrus[p]) \in Nat
    <2>1. mrus[p] \in Seq(hashed)
      BY <1>2, <1>3
    <2> QED
      BY <1>2, <1>3, <2>1, LenProperties
  <1>5. n \in 0 .. Len(mrus[p]) /\ m \in 0 .. Len(mrus[p]) /\ Len(mrus[p]) - m = n /\ n =< ShakeCount
    <2>1. \A l, c \in Nat :
             LET k == IF l < c THEN l ELSE c
             IN  k \in 0 .. l /\ l - k \in 0 .. l /\ l - (l - k) = k /\ k =< c
      OBVIOUS
    <2>2. ShakeCount \in Nat
      BY CacheAssumption
    <2> QED
      BY <1>4, <2>1, <2>2
  <1>6. next \in 0 .. MaxPriority + 1
    BY <1>2, CacheAssumption
  <1>7. lookup' \in [at : {"search"}, key : Keys, priority : 0 .. MaxPriority, put : BOOLEAN]
    <2>1. \A q \in 0 .. MaxPriority :
             [lookup EXCEPT !.priority = q] \in [at : {"search"}, key : Keys, priority : 0 .. MaxPriority, put : BOOLEAN]
      BY <1>2
    <2> HIDE DEF next
    <2>2. next > MaxPriority \/ next \in 0 .. MaxPriority
      BY <1>6, CacheAssumption
    <2>3. 0 \in 0 .. MaxPriority
      BY CacheAssumption
    <2> QED
      BY <1>1, <2>1, <2>2, <2>3
  <1>8. c_maxcount' \in Nat
    BY <1>1, <1>3 DEF CacheTypeOK
  <1> HIDE DEF p, n, next, m
  <1>9. /\ kept \in Seq(hashed) /\ gone \in Seq(hashed)
        /\ IsInjective(kept) /\ IsInjective(gone)
        /\ ToSet(kept) = ToSet(mrus[p]) \ ToSet(gone)
        /\ ToSet(gone) \subseteq ToSet(mrus[p])
        /\ Len(gone) = n
    BY <1>4, <1>5, Cut
  <1> HIDE DEF kept, gone
  <1>10. ToSet(gone) \subseteq hashed /\ \A x \in ToSet(gone) : bufs[x].priority = p
    BY <1>2, <1>3, <1>9
  <1>11. mrus' \in [0 .. MaxPriority -> Seq(hashed')]
    <2> SUFFICES ASSUME NEW q \in 0 .. MaxPriority
                 PROVE  mrus'[q] \in Seq(hashed')
      BY <1>1, <1>2, <1>3
    <2>1. ToSet(mrus'[q]) \subseteq hashed' /\ mrus'[q] \in Seq(hashed)
      <3>1. CASE q = p
        BY <1>1, <1>2, <1>3, <1>9, <3>1
      <3>2. CASE q # p
        <4>1. mrus'[q] = mrus[q]
          BY <1>1, <1>3, <3>2
        <4>2. \A x \in ToSet(mrus[q]) : x \in hashed /\ bufs[x].priority = q
          BY <1>3
        <4>3. ToSet(mrus[q]) \subseteq hashed'
          BY <1>1, <1>10, <3>2, <4>2
        <4> QED
          BY <1>3, <4>1, <4>3
      <3> QED
        BY <3>1, <3>2
    <2>2. mrus'[q] \in Seq(hashed')
      <3>1. /\ mrus'[q] \in [1 .. Len(mrus'[q]) -> hashed] /\ Len(mrus'[q]) \in Nat
        BY <2>1, LenProperties
      <3>2. \A k \in 1 .. Len(mrus'[q]) : mrus'[q][k] \in hashed'
        BY <2>1, <3>1 DEF ToSet
      <3>3. mrus'[q] \in [1 .. Len(mrus'[q]) -> hashed']
        BY <3>1, <3>2
      <3> QED
        BY <3>1, <3>3, SeqDef
    <2> QED
      BY <2>2
  <1>12. /\ freelist' \in Seq(DOMAIN bufs') /\ IsInjective(freelist')
         /\ ToSet(freelist') = ToSet(gone) \cup ToSet(freelist)
    <2>1. gone \in Seq(DOMAIN bufs)
      BY <1>3, <1>9, SeqMonotonic
    <2>2. ToSet(gone) \cap ToSet(freelist) = {}
      BY <1>3, <1>10
    <2> QED
      BY <1>1, <1>3, <1>9, <2>1, <2>2, Joined
  <1>13. IsFiniteSet(hashed') /\ c_count' = Cardinality(hashed') /\ c_count' \in Nat
    <2>1. IsFiniteSet(ToSet(gone)) /\ Cardinality(ToSet(gone)) = n
      BY <1>9, ListCounts
    <2>2. hashed \cap ToSet(gone) = ToSet(gone)
      BY <1>10
    <2>3. IsFiniteSet(hashed') /\ Cardinality(hashed') = Cardinality(hashed) - n
      <3>1. /\ IsFiniteSet(hashed \ ToSet(gone))
            /\ Cardinality(hashed \ ToSet(gone)) = Cardinality(hashed) - Cardinality(hashed \cap ToSet(gone))
        BY <1>3, FS_Difference
      <3> QED
        BY <1>1, <2>1, <2>2, <3>1
    <2>4. c_count = Cardinality(hashed)
      BY DEF CacheInvariant, CacheConsistent
    <2> QED
      BY <1>1, <2>3, <2>4, FS_CardinalityType
  <1>14. CacheTypeOK'
    <2>1. hashed' \subseteq DOMAIN bufs' /\ bufs' \in Seq(Buffers)
      BY <1>1, <1>3 DEF CacheTypeOK
    <2>2. opens' \in 0 .. MaxOpens /\ gets' \in 0 .. MaxGets
      BY <1>1, <1>3 DEF CacheTypeOK
    <2> QED
      BY <1>7, <1>8, <1>11, <1>12, <1>13, <2>1, <2>2 DEF CacheTypeOK
  <1>15. \A q \in 0 .. MaxPriority :
            /\ IsInjective(mrus'[q])
            /\ ToSet(mrus'[q]) = {x \in hashed' : bufs'[x].count = 0 /\ bufs'[x].priority = q}
    <2> SUFFICES ASSUME NEW q \in 0 .. MaxPriority
                 PROVE  /\ IsInjective(mrus'[q])
                        /\ ToSet(mrus'[q]) = {x \in hashed' : bufs'[x].count = 0 /\ bufs'[x].priority = q}
      OBVIOUS
    <2>1. CASE q = p
      <3>1. mrus'[q] = kept
        BY <1>1, <1>2, <1>3, <2>1
      <3>2. ToSet(kept) = {x \in hashed' : bufs'[x].count = 0 /\ bufs'[x].priority = q}
        BY <1>1, <1>3, <1>9, <2>1
      <3> QED
        BY <1>9, <3>1, <3>2
    <2>2. CASE q # p
      <3>1. mrus'[q] = mrus[q]
        BY <1>1, <1>3, <2>2
      <3>2. {x \in hashed : bufs[x].count = 0 /\ bufs[x].priority = q}
               = {x \in hashed' : bufs'[x].count = 0 /\ bufs'[x].priority = q}
        BY <1>1, <1>10, <2>2
      <3> QED
        BY <1>3, <3>1, <3>2
    <2> QED
      BY <2>1, <2>2
  <1>16. hashed' \cap ToSet(freelist') = {}
    BY <1>1, <1>3, <1>12
  <1>17. CacheConsistent'
    BY <1>12, <1>13, <1>15, <1>16 DEF CacheConsistent
  <1>18. OneBufferPerKey' /\ NoForeignData'
    BY <1>1 DEF CacheInvariant, OneBufferPerKey, NoForeignData
  <1>19. LookupHolds'
    <2>1. lookup'.at = "search"
      BY <1>7
    <2> QED
      BY <2>1 DEF LookupHolds
  <1> QED
    BY <1>14, <1>17, <1>18, <1>19 DEF CacheInvariant

(* A buffer is read: only its contents change, to those of its own block.  *)
LEMMA ReadStep ==
    ASSUME CacheInvariant, libxfs_readbuf
    PROVE  CacheInvariant'
  <1> DEFINE b == lookup.buf
  <1>1. /\ lookup.at = "read" /\ hashed' = hashed /\ mrus' = mrus /\ freelist' = freelist
        /\ c_count' = c_count /\ c_maxcount' = c_maxcount /\ opens' = opens /\ gets' = gets
        /\ lookup' = IF lookup.put THEN [lookup EXCEPT !.at = "put"] ELSE NoLookup
    BY DEF libxfs_readbuf
  <1>2. /\ lookup \in [at : {"read", "put"}, buf : hashed, key : Keys, put : BOOLEAN]
        /\ b \in hashed /\ b \in DOMAIN bufs /\ lookup.key \in Keys
        /\ bufs[b].key = lookup.key /\ bufs[b].count > 0
    BY <1>1, Finding DEF CacheInvariant, LookupHolds
  <1>3. CacheTypeOK /\ bufs \in Seq(Buffers) /\ bufs[b] \in Buffers
    BY <1>2 DEF CacheInvariant, CacheTypeOK
  <1>4. bufs[b].content \in {Zeros, lookup.key} /\ (bufs[b].uptodate => bufs[b].content = lookup.key)
    BY <1>2 DEF CacheInvariant, NoForeignData
  <1> HIDE DEF b
  <1>5. PICK r \in Buffers :
            /\ bufs' = [bufs EXCEPT ![b] = r]
            /\ r.key = bufs[b].key /\ r.count = bufs[b].count /\ r.priority = bufs[b].priority
            /\ r.content \in {Zeros, lookup.key} /\ (r.uptodate => r.content = lookup.key)
    <2>1. \A c \in Keys \cup {Zeros}, u \in BOOLEAN :
             LET r == [bufs[b] EXCEPT !.content = c, !.uptodate = u]
             IN  /\ r \in Buffers /\ r.content = c /\ r.uptodate = u
                 /\ r.key = bufs[b].key /\ r.count = bufs[b].count /\ r.priority = bufs[b].priority
      BY <1>3 DEF Buffers
    <2>2. CASE bufs' = bufs
      <3>1. bufs = [bufs EXCEPT ![b] = bufs[b]]
        BY <1>3
      <3> QED
        BY <1>3, <1>4, <2>2, <3>1
    <2>3. CASE bufs' = [bufs EXCEPT ![b].content = lookup.key, ![b].uptodate = TRUE]
      <3>1. bufs' = [bufs EXCEPT ![b] = [bufs[b] EXCEPT !.content = lookup.key, !.uptodate = TRUE]]
        BY <2>3
      <3> QED
        BY ZenonT(60), <1>2, <2>1, <3>1
    <2>4. CASE /\ ~bufs[b].uptodate
               /\ \E c \in {bufs[b].content, lookup.key} : bufs' = [bufs EXCEPT ![b].content = c]
      <3>1. PICK c \in {bufs[b].content, lookup.key} : bufs' = [bufs EXCEPT ![b].content = c]
        BY <2>4
      <3>2. c \in Keys \cup {Zeros} /\ c \in {Zeros, lookup.key}
        BY <1>2, <1>4, <3>1
      <3>3. bufs' = [bufs EXCEPT ![b] = [bufs[b] EXCEPT !.content = c, !.uptodate = FALSE]]
        <4>1. bufs[b].uptodate = FALSE
          BY <1>3, <2>4 DEF Buffers
        <4>2. [bufs[b] EXCEPT !.content = c] = [bufs[b] EXCEPT !.content = c, !.uptodate = FALSE]
          BY <1>3, <4>1 DEF Buffers
        <4>3. bufs' = [bufs EXCEPT ![b] = [bufs[b] EXCEPT !.content = c]]
          BY <3>1
        <4> QED
          BY <4>2, <4>3
      <3> QED
        BY ZenonT(60), <2>1, <3>2, <3>3
    <2> QED
      BY <2>2, <2>3, <2>4 DEF libxfs_readbuf, b
  <1>6. /\ bufs' \in Seq(Buffers) /\ DOMAIN bufs' = DOMAIN bufs
        /\ bufs'[b] = r /\ \A x \in DOMAIN bufs \ {b} : bufs'[x] = bufs[x]
    BY <1>2, <1>3, <1>5, OneBuffer
  <1>7. \A x \in DOMAIN bufs : /\ bufs'[x].key = bufs[x].key /\ bufs'[x].count = bufs[x].count
                               /\ bufs'[x].priority = bufs[x].priority
    BY <1>5, <1>6
  <1>8. \/ lookup' = NoLookup
        \/ lookup' \in [at : {"read", "put"}, buf : hashed', key : Keys, put : BOOLEAN]
    BY <1>1, <1>2
  <1>9. CacheTypeOK'
    <2>1. hashed' \subseteq DOMAIN bufs' /\ IsFiniteSet(hashed') /\ freelist' \in Seq(DOMAIN bufs')
      BY <1>1, <1>3, <1>6 DEF CacheTypeOK
    <2>2. c_count' \in Nat /\ c_maxcount' \in Nat /\ opens' \in 0 .. MaxOpens /\ gets' \in 0 .. MaxGets
      BY <1>1, <1>3 DEF CacheTypeOK
    <2>3. mrus' \in [0 .. MaxPriority -> Seq(hashed')]
      BY <1>1, <1>3 DEF CacheTypeOK
    <2> QED
      BY <1>6, <1>8, <2>1, <2>2, <2>3 DEF CacheTypeOK
  <1>10. hashed \subseteq DOMAIN bufs
    BY <1>3 DEF CacheTypeOK
  <1>11. CacheConsistent'
    <2>1. \A p \in 0 .. MaxPriority :
             {x \in hashed' : bufs'[x].count = 0 /\ bufs'[x].priority = p}
                = {x \in hashed : bufs[x].count = 0 /\ bufs[x].priority = p}
      BY <1>1, <1>7, <1>10
    <2> QED
      BY <1>1, <2>1 DEF CacheInvariant, CacheConsistent
  <1>12. OneBufferPerKey'
    BY <1>1, <1>7, <1>10 DEF CacheInvariant, OneBufferPerKey
  <1>13. NoForeignData'
    BY <1>1, <1>2, <1>5, <1>6, <1>10 DEF CacheInvariant, NoForeignData
  <1>14. LookupHolds'
    <2>1. CASE lookup.put
      <3>1. lookup'.buf = b /\ lookup'.key = lookup.key
        BY <1>1, <1>2, <2>1 DEF b
      <3> QED
        BY <1>2, <1>7, <3>1 DEF LookupHolds
    <2>2. CASE ~lookup.put
      BY <1>1, <2>2 DEF LookupHolds, NoLookup
    <2> QED
      BY <2>1, <2>2
  <1> QED
    BY <1>9, <1>11, <1>12, <1>13, <1>14 DEF CacheInvariant

(* The reader of the last sector puts its buffer back.                     *)
LEMMA PutStep ==
    ASSUME CacheInvariant, libxfs_putbuf
    PROVE  CacheInvariant'
  <1> DEFINE b == lookup.buf
             q == bufs[b].priority
  <1>1. /\ lookup.at = "put" /\ lookup' = NoLookup /\ hashed' = hashed /\ freelist' = freelist
        /\ c_count' = c_count /\ c_maxcount' = c_maxcount /\ opens' = opens /\ gets' = gets
        /\ mrus' = IF bufs[b].count = 1 THEN [mrus EXCEPT ![q] = <<b>> \o @] ELSE mrus
        /\ bufs' = [bufs EXCEPT ![b].count = @ - 1]
    BY DEF libxfs_putbuf, cache_node_put
  <1>2. b \in hashed /\ b \in DOMAIN bufs /\ bufs[b].count > 0
    BY <1>1, Finding DEF CacheInvariant, LookupHolds
  <1>3. /\ CacheTypeOK /\ bufs \in Seq(Buffers) /\ bufs[b] \in Buffers /\ hashed \subseteq DOMAIN bufs
        /\ mrus \in [0 .. MaxPriority -> Seq(hashed)]
        /\ \A p \in 0 .. MaxPriority : IsInjective(mrus[p])
        /\ \A p \in 0 .. MaxPriority :
              ToSet(mrus[p]) = {x \in hashed : bufs[x].count = 0 /\ bufs[x].priority = p}
    BY <1>2 DEF CacheInvariant, CacheTypeOK, CacheConsistent
  <1> DEFINE n == bufs[b].count - 1
             r == [bufs[b] EXCEPT !.count = n]
  <1>4. n \in Nat /\ q \in 0 .. MaxPriority /\ (bufs[b].count = 1 <=> n = 0)
    BY <1>2, <1>3 DEF Buffers
  <1>5. bufs' = [bufs EXCEPT ![b] = r]
    BY <1>1
  <1> HIDE DEF n
  <1>6. /\ r \in Buffers /\ r.count = n /\ r.key = bufs[b].key /\ r.priority = q
        /\ r.content = bufs[b].content /\ r.uptodate = bufs[b].uptodate
    BY <1>3, <1>4 DEF Buffers
  <1> HIDE DEF r, b, q
  <1>7. /\ bufs' \in Seq(Buffers) /\ DOMAIN bufs' = DOMAIN bufs
        /\ bufs'[b] = r /\ \A x \in DOMAIN bufs \ {b} : bufs'[x] = bufs[x]
    BY <1>2, <1>3, <1>5, <1>6, OneBuffer
  <1>8. /\ mrus' \in [0 .. MaxPriority -> Seq(hashed)]
        /\ \A p \in 0 .. MaxPriority :
              /\ IsInjective(mrus'[p])
              /\ ToSet(mrus'[p]) = {x \in hashed : bufs'[x].count = 0 /\ bufs'[x].priority = p}
    <2>1. CASE bufs[b].count # 1
      <3>1. mrus' = mrus
        BY <1>1, <2>1
      <3>2. \A x \in hashed : (bufs'[x].count = 0 <=> bufs[x].count = 0) /\ (bufs'[x].count = 0 => bufs'[x].priority = bufs[x].priority)
        <4> SUFFICES ASSUME NEW x \in hashed
                     PROVE  /\ bufs'[x].count = 0 <=> bufs[x].count = 0
                            /\ bufs'[x].count = 0 => bufs'[x].priority = bufs[x].priority
          OBVIOUS
        <4>1. CASE x = b
          BY <1>2, <1>4, <1>6, <1>7, <2>1, <4>1
        <4>2. CASE x # b
          BY <1>3, <1>7, <4>2
        <4> QED
          BY <4>1, <4>2
      <3>3. ASSUME NEW p \in 0 .. MaxPriority
            PROVE  {x \in hashed : bufs'[x].count = 0 /\ bufs'[x].priority = p}
                     = {x \in hashed : bufs[x].count = 0 /\ bufs[x].priority = p}
        BY <3>2
      <3> QED
        BY <1>3, <3>1, <3>3
    <2>2. CASE bufs[b].count = 1
      <3>1. mrus' = [mrus EXCEPT ![q] = <<b>> \o mrus[q]]
        BY <1>1, <2>2
      <3>2. mrus[q] \in Seq(hashed) /\ IsInjective(mrus[q]) /\ b \notin ToSet(mrus[q])
        BY <1>2, <1>3, <1>4
      <3>3. /\ <<b>> \o mrus[q] \in Seq(hashed) /\ IsInjective(<<b>> \o mrus[q])
            /\ ToSet(<<b>> \o mrus[q]) = ToSet(mrus[q]) \cup {b}
        BY <1>2, <3>2, Linked
      <3>4. bufs'[b].count = 0 /\ bufs'[b].priority = q /\ \A x \in hashed \ {b} : bufs'[x] = bufs[x]
        BY <1>3, <1>4, <1>6, <1>7, <2>2
      <3>5. ASSUME NEW p \in 0 .. MaxPriority
            PROVE  /\ IsInjective(mrus'[p])
                   /\ ToSet(mrus'[p]) = {x \in hashed : bufs'[x].count = 0 /\ bufs'[x].priority = p}
        <4>1. CASE p = q
          <5>1. mrus'[p] = <<b>> \o mrus[q]
            BY <1>3, <1>4, <3>1, <4>1
          <5>2. ToSet(mrus[q]) = {x \in hashed : bufs[x].count = 0 /\ bufs[x].priority = q}
            BY <1>3, <1>4
          <5>3. ToSet(mrus[q]) \cup {b} = {x \in hashed : bufs'[x].count = 0 /\ bufs'[x].priority = q}
            BY <1>2, <2>2, <3>4, <5>2
          <5> QED
            BY <3>3, <4>1, <5>1, <5>3
        <4>2. CASE p # q
          <5>1. mrus'[p] = mrus[p]
            BY <1>3, <3>1, <4>2
          <5>2. {x \in hashed : bufs'[x].count = 0 /\ bufs'[x].priority = p}
                  = {x \in hashed : bufs[x].count = 0 /\ bufs[x].priority = p}
            BY <2>2, <3>4, <4>2 DEF q
          <5> QED
            BY <1>3, <5>1, <5>2
        <4> QED
          BY <4>1, <4>2
      <3>6. mrus' \in [0 .. MaxPriority -> Seq(hashed)]
        BY <1>3, <1>4, <3>1, <3>3
      <3> QED
        BY <3>5, <3>6
    <2> QED
      BY <2>1, <2>2
  <1>9. CacheTypeOK'
    <2>1. hashed' \subseteq DOMAIN bufs' /\ IsFiniteSet(hashed') /\ freelist' \in Seq(DOMAIN bufs')
      BY <1>1, <1>3, <1>7 DEF CacheTypeOK
    <2>2. c_count' \in Nat /\ c_maxcount' \in Nat /\ opens' \in 0 .. MaxOpens /\ gets' \in 0 .. MaxGets
      BY <1>1, <1>3 DEF CacheTypeOK
    <2>3. mrus' \in [0 .. MaxPriority -> Seq(hashed')]
      BY <1>1, <1>8
    <2> QED
      BY <1>1, <1>7, <2>1, <2>2, <2>3 DEF CacheTypeOK
  <1>10. CacheConsistent'
    BY <1>1, <1>8 DEF CacheInvariant, CacheConsistent
  <1>11. \A x \in hashed : /\ bufs'[x].key = bufs[x].key /\ bufs'[x].content = bufs[x].content
                           /\ bufs'[x].uptodate = bufs[x].uptodate
    BY <1>3, <1>6, <1>7
  <1>12. OneBufferPerKey' /\ NoForeignData'
    BY <1>1, <1>11 DEF CacheInvariant, OneBufferPerKey, NoForeignData
  <1>13. LookupHolds'
    BY <1>1 DEF LookupHolds, NoLookup
  <1> QED
    BY <1>9, <1>10, <1>12, <1>13 DEF CacheInvariant

LEMMA CacheStep ==
    CacheInvariant /\ [CacheNext]_cacheVars => CacheInvariant'
  <1> SUFFICES ASSUME CacheInvariant, [CacheNext]_cacheVars
               PROVE  CacheInvariant'
    OBVIOUS
  <1>1. CASE CacheNext
    BY <1>1, InitStep, GetStep, HitStep, AllocateStep, ShakeStep, ReadStep, PutStep
       DEF CacheNext, Lookup
  <1>2. CASE UNCHANGED cacheVars
    BY <1>2 DEF cacheVars, CacheInvariant, CacheTypeOK, CacheConsistent, LookupHolds,
       OneBufferPerKey, NoForeignData
  <1> QED
    BY <1>1, <1>2

(* However many blocks are asked for and however often the cache is shaken *)
(* and its limit doubled: its count, its lists and its buffers agree, one  *)
(* buffer holds a block, and what the scan looks at is its own block or    *)
(* zeros.                                                                  *)
THEOREM CacheIsInvariant ==
    LibrarySpec => []CacheInvariant
  <1>1. LibraryInit => CacheInvariant
    BY CacheInitial DEF LibraryInit
  <1>2. CacheInvariant /\ [LibraryNext]_libraryVars => CacheInvariant'
    <2> SUFFICES ASSUME CacheInvariant, [LibraryNext]_libraryVars
                 PROVE  CacheInvariant'
      OBVIOUS
    <2>1. [CacheNext]_cacheVars
      BY DEF LibraryNext, libraryVars
    <2> QED
      BY <2>1, CacheStep
  <1> QED
    BY <1>1, <1>2, PTL DEF LibrarySpec

(***************************************************************************)
(* The table of open devices.                                              *)
(***************************************************************************)
LEMMA FirstIsIn ==
    ASSUME NEW S \in SUBSET Nat, S # {}
    PROVE  First(S) \in S
  <1> DEFINE R == OpToRel(<, Nat)
  <1>1. IsWellFoundedOn(R, Nat)
    BY NatLessThanWellFounded
  <1>2. \A x, y \in Nat : <<y, x>> \in R <=> y < x
    BY DEF OpToRel
  <1> HIDE DEF R
  <1>3. PICK x \in S : \A y \in S : ~(<<y, x>> \in R)
    BY <1>1, WFMin
  <1>4. ASSUME NEW y \in S PROVE x <= y
    <2>1. x \in Nat /\ y \in Nat /\ ~(y < x)
      BY <1>2, <1>3
    <2> QED
      BY <2>1
  <1> QED
    BY <1>3, <1>4 DEF First

(* Tables as values.                                                       *)
Maps      == [1 .. MAX_DEVS -> Devs \cup {NoDev}]
Held(m)   == {m[i] : i \in 1 .. MAX_DEVS} \ {NoDev}
Single(m) == \A i, j \in 1 .. MAX_DEVS : m[i] = m[j] /\ m[i] # NoDev => i = j

LEMMA TableIsHeld ==
    Table = Held(devMap) /\ Table' = Held(devMap')
  BY DEF Table, Held

LEMMA FirstSlot ==
    ASSUME NEW d, Slots(d) # {}
    PROVE  First(Slots(d)) \in 1 .. MAX_DEVS /\ devMap[First(Slots(d))] = d
  <1>1. Slots(d) \in SUBSET Nat
    BY ReaderAssumption DEF Slots
  <1>2. First(Slots(d)) \in Slots(d)
    BY <1>1, FirstIsIn
  <1> QED
    BY <1>2 DEF Slots

(* An open that succeeds takes a slot for a device that had none.          *)
LEMMA SlotTaken ==
    ASSUME devMap \in Maps, Single(devMap), NEW d \in Devs,
           libxfs_device_open(d).dev # NoDev
    PROVE  /\ libxfs_device_open(d).dev = d /\ libxfs_device_open(d).map \in Maps
           /\ Single(libxfs_device_open(d).map)
           /\ d \notin Table
           /\ Held(libxfs_device_open(d).map) = Table \cup {d}
  <1> DEFINE i == First(Slots(NoDev))
             m == [devMap EXCEPT ![i] = d]
  <1>1. Slots(d) = {} /\ Slots(NoDev) # {} /\ libxfs_device_open(d) = [map |-> m, dev |-> d]
    BY DEF libxfs_device_open
  <1>2. i \in 1 .. MAX_DEVS /\ devMap[i] = NoDev
    BY <1>1, FirstSlot
  <1> HIDE DEF i
  <1>3. d # NoDev /\ \A j \in 1 .. MAX_DEVS : devMap[j] # d
    BY <1>1, ReaderAssumption DEF Slots
  <1>4. /\ m \in Maps /\ m[i] = d
        /\ \A j \in 1 .. MAX_DEVS : j # i => m[j] = devMap[j]
    BY <1>2 DEF Maps
  <1> HIDE DEF m
  <1>5. Single(m)
    BY <1>3, <1>4 DEF Single
  <1>6. Held(m) = Held(devMap) \cup {d}
    BY <1>2, <1>3, <1>4 DEF Held
  <1> QED
    BY <1>1, <1>3, <1>4, <1>5, <1>6, TableIsHeld DEF Held

(* A device that is there already, or a full table: nothing changes.       *)
LEMMA SlotRefused ==
    ASSUME NEW d \in Devs, libxfs_device_open(d).dev = NoDev
    PROVE  /\ libxfs_device_open(d).map = devMap
           /\ d \in Table \/ Slots(NoDev) = {}
  <1>1. d # NoDev
    BY ReaderAssumption
  <1>2. Slots(d) # {} \/ Slots(NoDev) = {}
    BY <1>1 DEF libxfs_device_open
  <1> QED
    BY <1>1, <1>2 DEF libxfs_device_open, Slots, Table

(* A close gives the one slot of its device back; that of device 0 leaves  *)
(* the table as it is.                                                     *)
LEMMA SlotGivenBack ==
    ASSUME devMap \in Maps, Single(devMap), NEW d \in Devs \cup {NoDev}
    PROVE  /\ libxfs_device_close(d).map \in Maps
           /\ Single(libxfs_device_close(d).map)
           /\ Held(libxfs_device_close(d).map) = Table \ {d}
           /\ d \in Table => \E j \in 1 .. MAX_DEVS : libxfs_device_close(d).map[j] = NoDev
  <1> DEFINE i == First(Slots(d))
             m == libxfs_device_close(d).map
  <1>1. CASE Slots(d) = {}
    <2>1. m = devMap
      BY <1>1 DEF libxfs_device_close
    <2>2. d \notin Table
      BY <1>1 DEF Slots, Table
    <2> QED
      BY <2>1, <2>2, TableIsHeld
  <1>2. CASE Slots(d) # {}
    <2>1. i \in 1 .. MAX_DEVS /\ devMap[i] = d
      BY <1>2, FirstSlot
    <2>2. m = [devMap EXCEPT ![i] = NoDev]
      BY <1>2 DEF libxfs_device_close
    <2> HIDE DEF i, m
    <2>3. /\ m \in Maps /\ m[i] = NoDev
          /\ \A j \in 1 .. MAX_DEVS : j # i => m[j] = devMap[j]
      BY <2>1, <2>2 DEF Maps
    <2>4. Single(m)
      BY <2>3 DEF Single
    <2>5. Held(m) = Held(devMap) \ {d}
      BY <2>1, <2>3 DEF Held, Single
    <2> QED
      BY <2>1, <2>3, <2>4, <2>5, TableIsHeld DEF m
  <1> QED
    BY <1>1, <1>2

(* The inductive invariant: the devices, and how far the scan is.          *)
ReaderInvariant == GlobalsAcrossJobs /\ ScanInv

(* The types in two halves, for two provers.                               *)
Values ==
    /\ kind \in Kinds /\ devMap \in Maps
    /\ ddev \in Devs \cup {NoDev} /\ dev \in Devs \cup {NoDev}
    /\ mp \in Devs \cup {NoDev, "zero"}
    /\ vol \in Volumes /\ bitmap \subseteq Blocks(vol)
    /\ agno \in 0 .. Len(vol.ags) /\ lost \subseteq 0 .. Len(vol.ags) - 1
    /\ left \subseteq Devs /\ jobs \in 0 .. MaxJobs /\ leaf \in Nat

Flags == agf \in [ok : BOOLEAN] /\ {failures, openFailed, fd0} \subseteq BOOLEAN

LEMMA TypesAre ==
    (ReaderTypeOK <=> Values /\ Flags) /\ (ReaderTypeOK' <=> Values' /\ Flags')
  BY Zenon DEF ReaderTypeOK, Values, Flags, Maps

(* The steps between jobs and the first close.                             *)
LEMMA ReaderInitial ==
    ReaderInit => ReaderInvariant
  <1> SUFFICES ASSUME ReaderInit PROVE ReaderInvariant
    OBVIOUS
  <1>1. NoVolume \in Volumes
    BY ReaderAssumption DEF NoVolume
  <1>2. Len(vol.ags) \in Nat
    BY <1>1, VolumesAssumption DEF ReaderInit
  <1>3. Values /\ Flags
    <2>1. Values
      BY <1>1, <1>2, ReaderAssumption DEF ReaderInit, Values, Kinds, Maps
    <2>2. Flags
      BY DEF ReaderInit, Flags, NoHeader
    <2> QED
      BY <2>1, <2>2
  <1>4. Table = {}
    BY DEF Table, ReaderInit
  <1>5. DevicesInv /\ TableAtRest
    BY <1>4 DEF ReaderInit, DevicesInv, TableAtRest, Scanning
  <1>6. ScansOwnDevice /\ StdinLostByFailedOpen /\ ScanInv
    BY DEF ReaderInit, ScansOwnDevice, Scanning, StdinLostByFailedOpen, ScanInv
  <1> QED
    BY <1>3, <1>5, <1>6, TypesAre DEF ReaderInvariant, GlobalsAcrossJobs

LEMMA StartJobStep ==
    ASSUME ReaderInvariant, StartJob
    PROVE  ReaderInvariant'
  <1>1. ReaderTypeOK /\ DevicesInv /\ Table = left
    BY DEF ReaderInvariant, GlobalsAcrossJobs, StartJob, TableAtRest
  <1>2. Table' = Table
    BY DEF StartJob, Table
  <1>3. Values' /\ Flags'
    <2>1. Values'
      BY <1>1, TypesAre, ReaderAssumption DEF Values, StartJob, scan, Blocks
    <2>2. Flags'
      BY Zenon, <1>1, TypesAre DEF Flags, StartJob, scan
    <2> QED
      BY <2>1, <2>2
  <1>4. DevicesInv'
    BY <1>1, <1>2 DEF DevicesInv, StartJob, Scanning
  <1>5. TableAtRest' /\ ScansOwnDevice' /\ StdinLostByFailedOpen' /\ ScanInv'
    BY DEF StartJob, ReaderInvariant, GlobalsAcrossJobs, TableAtRest, ScansOwnDevice, Scanning,
       StdinLostByFailedOpen, ScanInv
  <1> QED
    BY <1>3, <1>4, <1>5, TypesAre DEF ReaderInvariant, GlobalsAcrossJobs

LEMMA EndJobStep ==
    ASSUME ReaderInvariant, EndJob
    PROVE  ReaderInvariant'
  <1>1. ReaderTypeOK /\ DevicesInv /\ Table = left
    BY DEF ReaderInvariant, GlobalsAcrossJobs, EndJob, DevicesInv
  <1>2. Table' = Table
    BY DEF EndJob, Table
  <1>3. NoVolume \in Volumes /\ Len(NoVolume.ags) \in Nat
    BY ReaderAssumption, VolumesAssumption DEF NoVolume
  <1>4. Values' /\ Flags'
    <2>1. Values'
      BY <1>1, <1>3, TypesAre DEF Values, EndJob
    <2>2. Flags'
      BY Zenon, <1>1, TypesAre DEF Flags, EndJob, NoHeader
    <2> QED
      BY <2>1, <2>2
  <1>5. DevicesInv' /\ TableAtRest'
    BY <1>1, <1>2 DEF DevicesInv, EndJob, Scanning, TableAtRest
  <1>6. ScansOwnDevice' /\ StdinLostByFailedOpen' /\ ScanInv'
    BY DEF EndJob, ReaderInvariant, GlobalsAcrossJobs, ScansOwnDevice, Scanning,
       StdinLostByFailedOpen, ScanInv
  <1> QED
    BY <1>4, <1>5, <1>6, TypesAre DEF ReaderInvariant, GlobalsAcrossJobs

LEMMA CloseSuperStep ==
    ASSUME ReaderInvariant, CloseSuper
    PROVE  ReaderInvariant'
  <1>1. /\ ReaderTypeOK /\ DevicesInv /\ pc = "super_close" /\ pc' = "bitmap"
        /\ UNCHANGED <<kind, ddev, mp, dev, left, failures, openFailed, jobs>>
        /\ UNCHANGED scan
        /\ devMap' = libxfs_device_close(ddev).map /\ fd0' = libxfs_device_close(ddev).fd0
    BY DEF ReaderInvariant, GlobalsAcrossJobs, CloseSuper, fs_close
  <1>2. /\ devMap \in Maps /\ Single(devMap) /\ dev \in Devs /\ ddev = dev /\ mp = dev
        /\ dev \notin left /\ Table = left \cup {dev} /\ kind = "good" /\ dev # NoDev
    BY <1>1, ReaderAssumption DEF ReaderTypeOK, DevicesInv, Maps, Single
  <1>3. /\ devMap' \in Maps /\ Single(devMap') /\ Table' = Table \ {dev}
        /\ \E j \in 1 .. MAX_DEVS : devMap'[j] = NoDev
    BY <1>1, <1>2, SlotGivenBack, TableIsHeld
  <1>4. fd0' = fd0
    BY <1>1, <1>2 DEF libxfs_device_close, ReaderTypeOK
  <1>5. Values' /\ Flags'
    <2>1. Values'
      BY <1>1, <1>3, TypesAre DEF Values, scan, Blocks
    <2>2. Flags'
      BY Zenon, <1>1, <1>4, TypesAre DEF Flags, scan
    <2> QED
      BY <2>1, <2>2
  <1>6. Slots(NoDev)' # {}
    BY <1>3 DEF Slots
  <1>7. DevicesInv' /\ TableAtRest'
    BY <1>1, <1>2, <1>3, <1>6 DEF DevicesInv, Scanning, TableAtRest, Single
  <1>8. StdinLostByFailedOpen'
    BY <1>1, <1>4 DEF ReaderInvariant, GlobalsAcrossJobs, StdinLostByFailedOpen
  <1>9. ScansOwnDevice' /\ ScanInv'
    BY <1>1 DEF ScansOwnDevice, Scanning, ScanInv
  <1> QED
    BY <1>5, <1>7, <1>8, <1>9, TypesAre DEF ReaderInvariant, GlobalsAcrossJobs

(* An open takes a slot for the device, or leaves the table alone.         *)
SlotIsTaken ==
    /\ dev \notin left /\ Table' = left \cup {dev} /\ ddev' = dev /\ openFailed' = openFailed

TableLeftAlone ==
    /\ Table' = left /\ left' = left /\ mp' = mp
    /\ \/ openFailed' = TRUE /\ ddev' \in {ddev, NoDev, dev}
       \/ openFailed' = openFailed /\ ddev' = NoDev /\ pc = "super"

LEMMA InitOutcome ==
    ASSUME ReaderTypeOK, DevicesInv, pc \in {"super", "bitmap"}, NEW ok \in BOOLEAN,
           libxfs_init(ok)
    PROVE  /\ devMap' \in Maps /\ Single(devMap') /\ openFailed' \in BOOLEAN
           /\ ok => SlotIsTaken
           /\ ~ok /\ left' = left /\ mp' = mp => TableLeftAlone
  <1>1. /\ devMap \in Maps /\ Single(devMap) /\ dev \in Devs /\ Table = left
        /\ openFailed \in BOOLEAN /\ dev # NoDev
        /\ pc = "bitmap" => dev \notin Table /\ Slots(NoDev) # {}
    BY ReaderAssumption DEF ReaderTypeOK, DevicesInv, Maps, Single
  <1>2. CASE ok
    <2>1. /\ libxfs_device_open(dev).dev # NoDev
          /\ devMap' = libxfs_device_open(dev).map /\ ddev' = libxfs_device_open(dev).dev
          /\ openFailed' = openFailed
      BY <1>2 DEF libxfs_init
    <2> QED
      BY <1>1, <1>2, <2>1, SlotTaken, TableIsHeld DEF SlotIsTaken
  <1>3. CASE ~ok /\ openFailed' = TRUE /\ devMap' = devMap /\ ddev' \in {NoDev, dev}
    BY <1>1, <1>3, TableIsHeld DEF TableLeftAlone
  <1>4. CASE /\ ~ok /\ openFailed' = openFailed /\ libxfs_device_open(dev).dev = NoDev
             /\ devMap' = libxfs_device_open(dev).map /\ ddev' = libxfs_device_open(dev).dev
    <2>1. devMap' = devMap /\ (dev \in Table \/ Slots(NoDev) = {})
      BY <1>1, <1>4, SlotRefused
    <2>2. pc = "super"
      BY <1>1, <2>1
    <2> QED
      BY <1>1, <1>4, <2>1, <2>2, TableIsHeld DEF TableLeftAlone
  <1> QED
    BY <1>2, <1>3, <1>4 DEF libxfs_init

LEMMA OpenOutcome ==
    ASSUME ReaderTypeOK, DevicesInv, pc \in {"super", "bitmap"}, NEW ok \in BOOLEAN,
           fs_open(ok)
    PROVE  /\ devMap' \in Maps /\ Single(devMap') /\ openFailed' \in BOOLEAN
           /\ \/ /\ SlotIsTaken /\ mp' \in {NoDev, "zero", dev}
                 /\ left' = IF ok \/ pc = "bitmap" THEN left ELSE left \cup {dev}
                 /\ ok => kind = "good" /\ mp' = dev
                 /\ pc = "bitmap" => mp' \in {"zero", dev}
              \/ ~ok /\ TableLeftAlone
  <1>1. /\ devMap \in Maps /\ Single(devMap) /\ dev \in Devs /\ Table = left
        /\ pc = "bitmap" => kind = "good" /\ mp = dev /\ dev # NoDev
    BY ReaderAssumption DEF ReaderTypeOK, DevicesInv, Maps, Single
  <1>2. CASE OpenFails /\ ~ok
    BY <1>1, <1>2, TableIsHeld DEF OpenFails, TableLeftAlone
  <1>3. CASE InitFails /\ ~ok
    BY <1>3, InitOutcome DEF InitFails
  <1>4. CASE GetSbFails /\ ~ok
    <2>1. /\ libxfs_init(TRUE) /\ mp' = IF mp = NoDev THEN NoDev ELSE "zero"
          /\ left' = IF pc = "super" THEN left \cup {dev} ELSE left
      BY <1>4 DEF GetSbFails, Opened, Left
    <2> QED
      BY <1>1, <1>4, <2>1, InitOutcome
  <1>5. CASE MountFails /\ ~ok
    <2>1. /\ libxfs_init(TRUE) /\ mp' = NoDev /\ kind = "alien"
          /\ left' = IF pc = "super" THEN left \cup {dev} ELSE left
      BY <1>5 DEF MountFails, Opened, Left
    <2> QED
      BY <1>1, <1>5, <2>1, InitOutcome
  <1>6. CASE ChecksFail /\ ~ok
    <2>1. /\ libxfs_init(TRUE) /\ mp' = dev /\ kind = "odd"
          /\ left' = IF pc = "super" THEN left \cup {dev} ELSE left
      BY <1>6 DEF ChecksFail, Opened, Left
    <2> QED
      BY <1>1, <1>6, <2>1, InitOutcome
  <1>7. CASE OpenSucceeds /\ ok
    <2>1. libxfs_init(TRUE) /\ mp' = dev /\ kind = "good" /\ left' = left
      BY <1>7 DEF OpenSucceeds, Opened
    <2> QED
      BY <1>1, <1>7, <2>1, InitOutcome
  <1> QED
    BY <1>2, <1>3, <1>4, <1>5, <1>6, <1>7 DEF fs_open

LEMMA SuperStep ==
    ASSUME ReaderInvariant, read_super_blocks
    PROVE  ReaderInvariant'
  <1>1. PICK ok \in BOOLEAN :
           /\ fs_open(ok) /\ pc' = IF ok THEN "super_close" ELSE "idle"
           /\ pc = "super" /\ UNCHANGED <<kind, dev, failures, fd0, jobs>> /\ UNCHANGED scan
    BY DEF read_super_blocks
  <1>2. ReaderTypeOK /\ DevicesInv /\ StdinLostByFailedOpen
    BY DEF ReaderInvariant, GlobalsAcrossJobs
  <1>3. /\ devMap' \in Maps /\ Single(devMap') /\ openFailed' \in BOOLEAN
        /\ \/ /\ SlotIsTaken /\ mp' \in {NoDev, "zero", dev}
              /\ left' = IF ok THEN left ELSE left \cup {dev}
              /\ ok => kind = "good" /\ mp' = dev
           \/ ~ok /\ TableLeftAlone
    BY <1>1, <1>2, OpenOutcome
  <1>4. dev \in Devs
    BY <1>1, <1>2 DEF DevicesInv
  <1>5. Values' /\ Flags'
    <2>1. Values'
      BY <1>1, <1>2, <1>3, <1>4, TypesAre
         DEF Values, scan, Blocks, SlotIsTaken, TableLeftAlone
    <2>2. Flags'
      BY Zenon, <1>1, <1>2, <1>3, TypesAre DEF Flags, scan
    <2> QED
      BY <2>1, <2>2
  <1>6. DevicesInv' /\ TableAtRest'
    BY <1>1, <1>2, <1>3, <1>4
       DEF DevicesInv, Scanning, TableAtRest, Single, SlotIsTaken, TableLeftAlone
  <1>7. StdinLostByFailedOpen'
    <2>1. openFailed' = openFailed \/ openFailed' = TRUE
      BY <1>3 DEF SlotIsTaken, TableLeftAlone
    <2> QED
      BY Zenon, <1>1, <1>2, <2>1 DEF StdinLostByFailedOpen
  <1>8. ScansOwnDevice' /\ ScanInv'
    BY <1>1 DEF ScansOwnDevice, Scanning, ScanInv
  <1> QED
    BY <1>5, <1>6, <1>7, <1>8, TypesAre DEF ReaderInvariant, GlobalsAcrossJobs

(***************************************************************************)
(* What the scan clears.                                                   *)
(***************************************************************************)
(* VolumesAssumption for one group.                                        *)
GroupIsSound(v, n) ==
    /\ (n - 1) * v.agblocks < v.dblocks
    /\ {v.ags[n].flcount, v.ags[n].flfirst, v.ags[n].fllast} \subseteq Nat
    /\ ListValid(v.ags[n]) =>
          v.ags[n].listed = IF v.ags[n].flcount = 0 THEN {} ELSE ListIndexes(v.ags[n])
    /\ \A i \in v.ags[n].listed : v.ags[n].agfl[i] \in Nat
    /\ v.ags[n].leaves \in Seq(ToSet(v.ags[n].leaves))
    /\ \A l \in DOMAIN v.ags[n].leaves : ToSet(v.ags[n].leaves[l]) \subseteq Nat \X Nat
    /\ Listed(v, n) \cup InTree(v, n) \subseteq Blocks(v)
    /\ \A k \in DOMAIN v.ags :
          /\ Listed(v, n) \cap InTree(v, k) = {}
          /\ n # k => Listed(v, n) \cap Listed(v, k) = {}

LEMMA Sound ==
    ASSUME NEW v \in Volumes
    PROVE  /\ v.dblocks \in Nat /\ v.agblocks \in Nat
           /\ Len(v.ags) \in Nat /\ DOMAIN v.ags = 1 .. Len(v.ags)
           /\ \A n \in DOMAIN v.ags : GroupIsSound(v, n)
           /\ v.used = Blocks(v) \ UNION {Listed(v, n) \cup InTree(v, n) : n \in DOMAIN v.ags}
  <1>1. v.ags \in Seq(ToSet(v.ags))
    BY VolumesAssumption
  <1>2. Len(v.ags) \in Nat /\ DOMAIN v.ags = 1 .. Len(v.ags)
    BY <1>1
  <1> QED
    BY <1>2, VolumesAssumption DEF GroupIsSound

LEMMA Numbered ==
    ASSUME NEW x \in Nat, NEW w \in Nat, NEW a \in Nat, NEW W \in Nat, x * w + a < W
    PROVE  (x * w + a) % W = x * w + a /\ x * w \in Nat
  OBVIOUS

(* A run of blocks of the file system loses exactly its own bits.          *)
LEMMA RunCleared ==
    ASSUME Values, vol.dblocks <= Word, NEW map \in SUBSET Blocks(vol), NEW a \in Nat,
           NEW len \in Nat,
           agno * vol.agblocks + a .. agno * vol.agblocks + a + len - 1 \subseteq Blocks(vol)
    PROVE  addtohist(map, agno, a, len)
             = map \ (agno * vol.agblocks + a .. agno * vol.agblocks + a + len - 1)
  <1> DEFINE s == agno * vol.agblocks + a
  <1>1. vol.dblocks \in Nat /\ vol.agblocks \in Nat /\ agno \in Nat /\ Word \in Nat
    BY Sound, ReaderAssumption DEF Values
  <1>2. s \in Nat
    BY <1>1, Numbered
  <1>3. CASE len = 0
    <2>1. StartBlock(agno, a) \in Int
      BY <1>1, <1>2, ReaderAssumption DEF StartBlock
    <2>2. StartBlock(agno, a) .. (StartBlock(agno, a) + len - 1) = {} /\ s .. s + len - 1 = {}
      BY <1>2, <1>3, <2>1
    <2> QED
      BY <2>2 DEF addtohist
  <1>4. CASE len # 0
    <2>1. s \in s .. s + len - 1
      BY <1>2, <1>4
    <2>2. s < vol.dblocks
      BY <1>1, <2>1 DEF Blocks
    <2>3. StartBlock(agno, a) = s
      BY <1>1, <1>2, <2>2, Numbered DEF StartBlock
    <2> HIDE DEF s
    <2> QED
      BY <2>3 DEF addtohist, s
  <1> QED
    BY <1>3, <1>4

LEMMA BlockCleared ==
    ASSUME Values, vol.dblocks <= Word, NEW map \in SUBSET Blocks(vol), NEW a \in Nat,
           agno * vol.agblocks + a \in Blocks(vol)
    PROVE  addtohist(map, agno, a, 1) = map \ {agno * vol.agblocks + a}
  <1> DEFINE s == agno * vol.agblocks + a
  <1>1. s \in Nat
    BY Sound DEF Values, Blocks
  <1> HIDE DEF s
  <1>2. s .. s + 1 - 1 = {s}
    BY <1>1
  <1>3. s .. s + 1 - 1 \subseteq Blocks(vol)
    BY <1>2 DEF s
  <1> QED
    BY <1>2, <1>3, RunCleared DEF s

(* The parts of the invariant about the bitmap, by name.                   *)
UsedKept == \A b \in vol.used : b \in bitmap \/ \E n \in lost : b = n * vol.agblocks

ScanPlace ==
    /\ pc \in {"agfl", "root", "leaf"} => agno < Len(vol.ags)
    /\ pc = "root" => leaf = 1
    /\ pc = "leaf" => leaf \in 1 .. Len(vol.ags[agno + 1].leaves) + 1

ScanFlags ==
    ~failures => /\ pc \in {"agfl", "root"} => agf.ok
                 /\ pc \in {"bitmap_close", "done"} => agno = Len(vol.ags)

ScanBits ==
    pc \in Scanning \cup {"bitmap_close", "done"} /\ vol.dblocks <= Word =>
        UsedKept /\ (~failures => bitmap = Blocks(vol) \ Cleared)

LEMMA ScanInvIs ==
    /\ ScanInv <=> ScanPlace /\ ScanFlags /\ ScanBits
    /\ ScanInv' <=> ScanPlace' /\ ScanFlags' /\ ScanBits'
  BY Zenon DEF ScanInv, ScanPlace, ScanFlags, ScanBits, UsedKept

LEMMA BitmapInfoStep ==
    ASSUME ReaderInvariant, read_bitmap_info
    PROVE  ReaderInvariant'
  <1>1. PICK ok \in BOOLEAN :
           /\ fs_open(ok) /\ failures' = ~ok /\ pc = "bitmap"
           /\ vol' \in Volumes /\ bitmap' = Blocks(vol') /\ agno' = 0 /\ lost' = {}
           /\ pc' = (IF mp' = "zero" THEN "bitmap_close" ELSE "agf")
           /\ UNCHANGED <<kind, dev, agf, leaf, fd0, jobs>>
    BY DEF read_bitmap_info
  <1>2. ReaderTypeOK /\ DevicesInv /\ StdinLostByFailedOpen
    BY DEF ReaderInvariant, GlobalsAcrossJobs
  <1>3. /\ devMap' \in Maps /\ Single(devMap') /\ openFailed' \in BOOLEAN
        /\ \/ /\ SlotIsTaken /\ mp' \in {"zero", dev} /\ left' = left
              /\ ok => mp' = dev
           \/ ~ok /\ TableLeftAlone
    BY <1>1, <1>2, OpenOutcome
  <1>4. /\ dev \in Devs /\ kind = "good" /\ dev \notin left /\ ddev = dev /\ mp = dev
        /\ dev # NoDev /\ dev # "zero"
    BY <1>1, <1>2, ReaderAssumption DEF DevicesInv
  <1>5. Len(vol'.ags) \in Nat /\ DOMAIN vol'.ags = 1 .. Len(vol'.ags)
        /\ vol'.used \subseteq Blocks(vol')
    BY <1>1, Sound
  <1>6. Values' /\ Flags'
    <2>1. Values'
      BY <1>1, <1>2, <1>3, <1>4, <1>5, TypesAre DEF Values, SlotIsTaken, TableLeftAlone
    <2>2. Flags'
      <3>1. (~ok) \in BOOLEAN
        OBVIOUS
      <3> QED
        BY Zenon, <1>1, <1>2, <1>3, <3>1, TypesAre DEF Flags
    <2> QED
      BY <2>1, <2>2
  <1>7. DevicesInv' /\ TableAtRest' /\ ScansOwnDevice'
    BY <1>1, <1>2, <1>3, <1>4
       DEF DevicesInv, Scanning, TableAtRest, ScansOwnDevice, Single, SlotIsTaken, TableLeftAlone
  <1>8. StdinLostByFailedOpen'
    <2>1. openFailed' = openFailed \/ openFailed' = TRUE
      BY <1>3 DEF SlotIsTaken, TableLeftAlone
    <2> QED
      BY Zenon, <1>1, <1>2, <2>1 DEF StdinLostByFailedOpen
  <1>9. ScanInv'
    <2>1. pc' \in {"bitmap_close", "agf"} /\ (ok => pc' = "agf")
      BY <1>1, <1>3, <1>4 DEF Scanning
    <2>2. Cleared' = {}
      BY <1>1, <2>1 DEF Cleared, Through, Begun, Leaves
    <2>3. UsedKept'
      BY <1>1, <1>5 DEF UsedKept
    <2>4. ScanPlace' /\ ScanFlags'
      BY <1>1, <2>1 DEF ScanPlace, ScanFlags
    <2>5. ScanBits'
      BY <1>1, <2>2, <2>3 DEF ScanBits
    <2> QED
      BY <2>4, <2>5, ScanInvIs
  <1> QED
    BY <1>6, <1>7, <1>8, <1>9, TypesAre DEF ReaderInvariant, GlobalsAcrossJobs

(* A step of the scan leaves the devices alone.                            *)
LEMMA DevicesStay ==
    ASSUME ReaderInvariant, pc \in Scanning, pc' \in Scanning \cup {"bitmap_close"},
           UNCHANGED <<kind, devMap, ddev, mp, dev, left, openFailed, fd0, jobs>>,
           Values', Flags'
    PROVE  GlobalsAcrossJobs'
  <1>1. DevicesInv /\ StdinLostByFailedOpen /\ ScansOwnDevice
    BY DEF ReaderInvariant, GlobalsAcrossJobs
  <1>2. Table' = Table
    BY DEF Table
  <1>3. DevicesInv'
    BY <1>1, <1>2 DEF DevicesInv, Scanning
  <1>4. TableAtRest' /\ ScansOwnDevice'
    BY <1>1 DEF Scanning, TableAtRest, ScansOwnDevice
  <1>5. StdinLostByFailedOpen'
    BY Zenon, <1>1 DEF StdinLostByFailedOpen
  <1> QED
    BY <1>3, <1>4, <1>5, TypesAre DEF GlobalsAcrossJobs

LEMMA ScanAgStep ==
    ASSUME ReaderInvariant, scan_ag
    PROVE  ReaderInvariant'
  <1>1. /\ pc = "agf"
        /\ UNCHANGED <<kind, devMap, ddev, mp, dev, vol, bitmap, agno, leaf, lost,
                       left, openFailed, fd0, jobs>>
    BY DEF scan_ag
  <1>2. Values /\ Flags /\ ScanPlace /\ ScanBits
    BY TypesAre, ScanInvIs DEF ReaderInvariant, GlobalsAcrossJobs
  <1>3. Len(vol.ags) \in Nat /\ agno \in 0 .. Len(vol.ags)
    BY <1>2, Sound DEF Values
  <1>4. Values'
    BY <1>1, <1>2 DEF Values, Blocks
  <1>5. CASE agno = Len(vol.ags) /\ pc' = "bitmap_close" /\ UNCHANGED <<agf, failures>>
    <2>1. Flags'
      BY Zenon, <1>1, <1>2, <1>5 DEF Flags
    <2>2. Cleared' = Cleared
      BY <1>1, <1>5 DEF Cleared, Through, Begun, Leaves, OnList, InTree, InLeaf, InRecord, Listed
    <2>3. ScanPlace' /\ ScanFlags'
      BY <1>1, <1>5 DEF ScanPlace, ScanFlags
    <2>4. ScanBits'
      BY <1>1, <1>2, <1>5, <2>2 DEF ScanBits, UsedKept, Blocks, Scanning
    <2> QED
      BY <1>1, <1>4, <1>5, <2>1, <2>3, <2>4, DevicesStay, ScanInvIs DEF ReaderInvariant, Scanning
  <1>6. ASSUME NEW ok \in BOOLEAN, agno # Len(vol.ags), Read(ok), pc' = "agfl",
               agf' = [ok |-> ok]
        PROVE  ReaderInvariant'
    <2>1. failures' = (failures \/ ~ok)
      BY <1>6 DEF Read
    <2>2. Flags'
      <3>1. (failures \/ ~ok) \in BOOLEAN /\ [ok |-> ok] \in [ok : BOOLEAN]
        OBVIOUS
      <3> QED
        BY Zenon, <1>1, <1>2, <1>6, <2>1, <3>1 DEF Flags
    <2>3. Cleared' = Cleared
      BY <1>1, <1>6 DEF Cleared, Through, Begun, Leaves, OnList, InTree, InLeaf, InRecord, Listed
    <2>4. ScanPlace'
      BY <1>1, <1>3, <1>6 DEF ScanPlace
    <2>5. ScanFlags'
      BY <1>6, <2>1 DEF ScanFlags
    <2>6. ScanBits'
      BY <1>1, <1>2, <1>6, <2>1, <2>3 DEF ScanBits, UsedKept, Blocks, Scanning
    <2> QED
      BY <1>1, <1>4, <1>6, <2>2, <2>4, <2>5, <2>6, DevicesStay, ScanInvIs
         DEF ReaderInvariant, Scanning
  <1> QED
    BY <1>5, <1>6 DEF scan_ag

(* What scan_freelist leaves set.                                          *)
AfterList(ok) ==
    {b \in bitmap : \A f \in {IF ok THEN Ag(agno).agfl[i] ELSE 0 : i \in ListIndexes(Ag(agno))} :
        b \in addtohist(bitmap, agno, f, 1)}

LEMMA GroupOfScan ==
    ASSUME Values, agno < Len(vol.ags)
    PROVE  /\ agno + 1 \in DOMAIN vol.ags /\ GroupIsSound(vol, agno + 1)
           /\ (agno + 1) - 1 = agno /\ agno \in Nat /\ agno * vol.agblocks \in Nat
  <1>1. /\ vol.agblocks \in Nat /\ Len(vol.ags) \in Nat /\ DOMAIN vol.ags = 1 .. Len(vol.ags)
        /\ \A n \in DOMAIN vol.ags : GroupIsSound(vol, n)
    BY Sound DEF Values
  <1>2. agno \in Nat /\ agno + 1 \in DOMAIN vol.ags
    BY <1>1 DEF Values
  <1> QED
    BY <1>1, <1>2

LEMMA ListIsCleared ==
    ASSUME Values, agno < Len(vol.ags), vol.dblocks <= Word,
           ListValid(Ag(agno)), Ag(agno).flcount # 0
    PROVE  /\ AfterList(TRUE) = bitmap \ OnList(agno + 1)
           /\ bitmap \ {agno * vol.agblocks} \subseteq AfterList(FALSE)
  <1> DEFINE ag == vol.ags[agno + 1]
             base == agno * vol.agblocks
  <1>1. /\ GroupIsSound(vol, agno + 1) /\ (agno + 1) - 1 = agno /\ agno \in Nat /\ base \in Nat
        /\ bitmap \subseteq Blocks(vol) /\ vol.dblocks \in Nat
    BY GroupOfScan, Sound DEF Values
  <1>2. Ag(agno) = ag
    BY DEF Ag
  <1> HIDE DEF base
  <1>3. Listed(vol, agno + 1) = {base + ag.agfl[i] : i \in ag.listed}
    BY <1>1 DEF Listed, base
  <1>4. /\ ag.listed = ListIndexes(ag) /\ \A i \in ag.listed : ag.agfl[i] \in Nat
        /\ Listed(vol, agno + 1) \subseteq Blocks(vol)
        /\ base < vol.dblocks
    BY <1>1, <1>2 DEF GroupIsSound, base
  <1> HIDE DEF ag
  <1>5. \A i \in ag.listed : addtohist(bitmap, agno, ag.agfl[i], 1) = bitmap \ {base + ag.agfl[i]}
    <2> TAKE i \in ag.listed
    <2>1. base + ag.agfl[i] \in Blocks(vol) /\ ag.agfl[i] \in Nat
      BY <1>3, <1>4
    <2> QED
      BY <1>1, <2>1, BlockCleared DEF base
  <1>6. addtohist(bitmap, agno, 0, 1) = bitmap \ {base}
    <2>1. base + 0 \in Blocks(vol) /\ base + 0 = base
      BY <1>1, <1>4 DEF Blocks
    <2> QED
      BY <1>1, <2>1, BlockCleared DEF base
  <1>7. OnList(agno + 1) = {base + ag.agfl[i] : i \in ag.listed}
    BY <1>2, <1>3 DEF OnList, ag
  <1>8. AfterList(TRUE) = {b \in bitmap : \A i \in ag.listed : b \in addtohist(bitmap, agno, ag.agfl[i], 1)}
    BY <1>2, <1>4 DEF AfterList
  <1>9. \A b \in bitmap \ {base} : b \in AfterList(FALSE)
    BY <1>6 DEF AfterList
  <1> QED
    BY <1>5, <1>7, <1>8, <1>9 DEF base

LEMMA FreeListStep ==
    ASSUME ReaderInvariant, scan_freelist
    PROVE  ReaderInvariant'
  <1>1. /\ pc = "agfl" /\ pc' = "root" /\ leaf' = 1
        /\ UNCHANGED <<kind, devMap, ddev, mp, dev, vol, agno, agf, left, openFailed,
                       fd0, jobs>>
    BY DEF scan_freelist
  <1>2. Values /\ Flags /\ ScanPlace /\ ScanFlags /\ ScanBits
    BY TypesAre, ScanInvIs DEF ReaderInvariant, GlobalsAcrossJobs
  <1>3. agno < Len(vol.ags)
    BY <1>1, <1>2 DEF ScanPlace
  <1>4. /\ GroupIsSound(vol, agno + 1) /\ agno + 1 \in DOMAIN vol.ags /\ agno \in Nat
        /\ Len(vol.ags) \in Nat
    BY <1>2, <1>3, GroupOfScan, Sound DEF Values
  <1>5. Cleared' = Cleared \cup OnList(agno + 1)
    <2>1. UNCHANGED <<vol, agno>> /\ \A n : OnList(n)' = OnList(n)
      BY <1>1 DEF OnList
    <2> HIDE DEF OnList
    <2>2. Through' = Through
      BY <2>1 DEF Through
    <2>3. Begun = {} /\ Begun' = OnList(agno + 1)
      BY <1>1, <2>1 DEF Begun
    <2>4. Leaves = {} /\ Leaves' = {}
      BY <1>1 DEF Leaves
    <2> QED
      BY <2>2, <2>3, <2>4 DEF Cleared
  <1>6. ScanPlace'
    BY <1>1, <1>3 DEF ScanPlace
  <1>7. ScanFlags' \/ (~failures' /\ failures)
    BY <1>1, <1>2 DEF ScanFlags
  <1>8. Ag(agno) = vol.ags[agno + 1]
    BY DEF Ag
  <1>9. CASE /\ ~agf.ok \/ Ag(agno).flcount = 0
             /\ UNCHANGED <<bitmap, lost, failures>>
    <2>1. Values'
      BY <1>1, <1>2, <1>9 DEF Values, Blocks
    <2>2. Flags'
      BY Zenon, <1>1, <1>2, <1>9 DEF Flags
    <2>3. ~failures => OnList(agno + 1) = {}
      BY <1>1, <1>2, <1>4, <1>8, <1>9 DEF ScanFlags, OnList, GroupIsSound, Listed
    <2>4. ScanBits'
      BY <1>1, <1>2, <1>5, <1>9, <2>3 DEF ScanBits, UsedKept, Scanning, Blocks
    <2> QED
      BY <1>1, <1>6, <1>7, <1>9, <2>1, <2>2, <2>4, DevicesStay, ScanInvIs
         DEF ReaderInvariant, Scanning
  <1>10. ASSUME NEW ok \in BOOLEAN, Read(ok), Ag(agno).flcount # 0, agf.ok,
                IF ListValid(Ag(agno))
                THEN bitmap' = AfterList(ok) /\ lost' = IF ok THEN lost ELSE lost \cup {agno}
                ELSE UNCHANGED <<bitmap, lost>>
         PROVE  ReaderInvariant'
    <2>1. failures' = (failures \/ ~ok)
      BY <1>10 DEF Read
    <2>2. bitmap' \subseteq bitmap /\ lost \subseteq lost' /\ lost' \subseteq lost \cup {agno}
      BY <1>10 DEF AfterList
    <2>3. Values'
      BY <1>1, <1>2, <1>3, <1>4, <2>2 DEF Values, Blocks
    <2>4. Flags'
      <3>1. (failures \/ ~ok) \in BOOLEAN
        OBVIOUS
      <3> QED
        BY Zenon, <1>1, <1>2, <2>1, <3>1 DEF Flags
    <2>5. ScanFlags'
      BY <1>7, <2>1
    <2>6. ASSUME vol.dblocks <= Word, UsedKept
          PROVE  UsedKept' /\ (ok => bitmap' = bitmap \ OnList(agno + 1))
      <3>1. CASE ListValid(Ag(agno))
        <4>1. /\ AfterList(TRUE) = bitmap \ OnList(agno + 1)
              /\ bitmap \ {agno * vol.agblocks} \subseteq AfterList(FALSE)
          BY <1>2, <1>3, <1>10, <2>6, <3>1, ListIsCleared
        <4>2. CASE ok
          <5>1. bitmap' = bitmap \ OnList(agno + 1)
            BY <1>10, <3>1, <4>1, <4>2
          <5>2. OnList(agno + 1) \cap vol.used = {}
            BY <1>2, <1>4, Sound DEF OnList, Values
          <5> QED
            BY <1>1, <2>2, <2>6, <5>1, <5>2 DEF UsedKept
        <4>3. CASE ~ok
          <5>1. bitmap \ {agno * vol.agblocks} \subseteq bitmap' /\ agno \in lost'
            BY <1>10, <3>1, <4>1, <4>3
          <5> QED
            BY <1>1, <2>2, <2>6, <4>3, <5>1 DEF UsedKept
        <4> QED
          BY <4>2, <4>3
      <3>2. CASE ~ListValid(Ag(agno))
        BY <1>1, <1>8, <1>10, <2>6, <3>2 DEF OnList, UsedKept
      <3> QED
        BY <3>1, <3>2
    <2>7. ScanBits'
      BY <1>1, <1>2, <1>5, <2>1, <2>6 DEF ScanBits, Scanning, Blocks
    <2> QED
      BY <1>1, <1>6, <2>3, <2>4, <2>5, <2>7, DevicesStay, ScanInvIs
         DEF ReaderInvariant, Scanning
  <1> QED
    BY <1>9, <1>10 DEF scan_freelist, AfterList

LEMMA TreeRootStep ==
    ASSUME ReaderInvariant, scan_sbtree
    PROVE  ReaderInvariant'
  <1>1. PICK ok \in BOOLEAN :
           /\ pc = "root" /\ Read(ok)
           /\ pc' = IF ok /\ agf.ok THEN "leaf" ELSE "agf"
           /\ agno' = IF ok /\ agf.ok THEN agno ELSE agno + 1
           /\ UNCHANGED <<kind, devMap, ddev, mp, dev, vol, bitmap, agf, leaf, lost,
                          left, openFailed, fd0, jobs>>
    BY DEF scan_sbtree
  <1>2. Values /\ Flags /\ ScanPlace /\ ScanFlags /\ ScanBits
    BY TypesAre, ScanInvIs DEF ReaderInvariant, GlobalsAcrossJobs
  <1>3. agno < Len(vol.ags) /\ leaf = 1
    BY <1>1, <1>2 DEF ScanPlace
  <1>4. /\ GroupIsSound(vol, agno + 1) /\ agno \in Nat /\ Len(vol.ags) \in Nat
    BY <1>2, <1>3, GroupOfScan, Sound DEF Values
  <1>5. failures' = (failures \/ ~ok)
    BY <1>1 DEF Read
  <1>6. Values'
    BY <1>1, <1>2, <1>3, <1>4 DEF Values, Blocks
  <1>7. Flags'
    <2>1. (failures \/ ~ok) \in BOOLEAN
      OBVIOUS
    <2> QED
      BY Zenon, <1>1, <1>2, <1>5, <2>1 DEF Flags
  <1>8. ScanPlace'
    <2>1. Len(vol.ags[agno + 1].leaves) \in Nat
      BY <1>4 DEF GroupIsSound
    <2> QED
      BY <1>1, <1>3, <2>1 DEF ScanPlace
  <1>9. ScanFlags'
    BY <1>1, <1>5 DEF ScanFlags
  <1>10. ~failures' => pc' = "leaf" /\ agno' = agno
    BY <1>1, <1>2, <1>5 DEF ScanFlags
  <1>11. pc' = "leaf" /\ agno' = agno => Cleared' = Cleared
    BY <1>1, <1>3 DEF Cleared, Through, Begun, Leaves, OnList, InTree, InLeaf, InRecord, Listed
  <1>12. ScanBits'
    BY <1>1, <1>2, <1>5, <1>10, <1>11 DEF ScanBits, UsedKept, Blocks, Scanning
  <1> QED
    BY <1>1, <1>6, <1>7, <1>8, <1>9, <1>12, DevicesStay, ScanInvIs DEF ReaderInvariant, Scanning

(* The records of a leaf lose exactly the bits they list.                  *)
LEMMA LeafIsCleared ==
    ASSUME Values, agno < Len(vol.ags), vol.dblocks <= Word,
           NEW l \in DOMAIN vol.ags[agno + 1].leaves
    PROVE  ClearRecords(bitmap, vol.ags[agno + 1].leaves[l]) = bitmap \ InLeaf(vol, agno + 1, l)
  <1> DEFINE recs == vol.ags[agno + 1].leaves[l]
             run(r) == agno * vol.agblocks + r[1] .. agno * vol.agblocks + r[1] + r[2] - 1
  <1>1. /\ GroupIsSound(vol, agno + 1) /\ (agno + 1) - 1 = agno /\ bitmap \subseteq Blocks(vol)
    BY GroupOfScan DEF Values
  <1>2. \A r \in ToSet(recs) : InRecord(vol, agno + 1, r) = run(r)
    <2> TAKE r \in ToSet(recs)
    <2>1. ((agno + 1) - 1) * vol.agblocks = agno * vol.agblocks
      BY <1>1
    <2> QED
      BY Zenon, <2>1 DEF InRecord
  <1>3. ToSet(recs) \subseteq Nat \X Nat
    BY <1>1 DEF GroupIsSound
  <1>4. InLeaf(vol, agno + 1, l) = UNION {InRecord(vol, agno + 1, r) : r \in ToSet(recs)}
    BY DEF InLeaf
  <1>5. InLeaf(vol, agno + 1, l) \subseteq Blocks(vol)
    BY <1>1 DEF GroupIsSound, InTree
  <1> HIDE DEF run, recs
  <1>6. \A r \in ToSet(recs) : addtohist(bitmap, agno, r[1], r[2]) = bitmap \ run(r)
    <2> TAKE r \in ToSet(recs)
    <2>1. r[1] \in Nat /\ r[2] \in Nat
      BY <1>3
    <2>2. run(r) \subseteq Blocks(vol)
      BY <1>2, <1>4, <1>5
    <2> QED
      BY <1>1, <2>1, <2>2, RunCleared DEF run
  <1>7. ClearRecords(bitmap, recs)
          = {b \in bitmap : \A r \in ToSet(recs) : b \in addtohist(bitmap, agno, r[1], r[2])}
    BY DEF ClearRecords, ToSet
  <1>8. ClearRecords(bitmap, recs) = bitmap \ InLeaf(vol, agno + 1, l)
    BY <1>2, <1>4, <1>6, <1>7
  <1> QED
    BY <1>8 DEF recs

LEMMA LeafStep ==
    ASSUME ReaderInvariant, scanfunc_bno
    PROVE  ReaderInvariant'
  <1> DEFINE leaves == vol.ags[agno + 1].leaves
  <1>1. /\ pc = "leaf"
        /\ UNCHANGED <<kind, devMap, ddev, mp, dev, vol, agf, lost, left, openFailed,
                       fd0, jobs>>
    BY DEF scanfunc_bno
  <1>2. Values /\ Flags /\ ScanPlace /\ ScanFlags /\ ScanBits
    BY TypesAre, ScanInvIs DEF ReaderInvariant, GlobalsAcrossJobs
  <1>3. agno < Len(vol.ags) /\ leaf \in 1 .. Len(leaves) + 1
    BY <1>1, <1>2 DEF ScanPlace
  <1>4. /\ GroupIsSound(vol, agno + 1) /\ agno + 1 \in DOMAIN vol.ags /\ agno \in Nat
        /\ Len(vol.ags) \in Nat
    BY <1>2, <1>3, GroupOfScan, Sound DEF Values
  <1>5. Len(leaves) \in Nat /\ DOMAIN leaves = 1 .. Len(leaves) /\ leaf \in Nat
    <2>1. leaves \in Seq(ToSet(leaves))
      BY <1>4 DEF GroupIsSound
    <2> HIDE DEF leaves
    <2> QED
      BY <1>3, <2>1
  <1>6. Ag(agno).leaves = leaves
    BY DEF Ag
  <1>7. CASE /\ leaf > Len(leaves) /\ pc' = "agf" /\ agno' = agno + 1
             /\ UNCHANGED <<bitmap, leaf, failures>>
    <2>1. Values'
      BY <1>1, <1>2, <1>3, <1>4, <1>7 DEF Values, Blocks
    <2>2. Flags'
      BY Zenon, <1>1, <1>2, <1>7 DEF Flags
    <2>3. ScanPlace' /\ ScanFlags'
      BY <1>7 DEF ScanPlace, ScanFlags
    <2>4. Cleared' = Cleared
      <3>1. vol' = vol /\ \A n : OnList(n)' = OnList(n)
        BY <1>1 DEF OnList
      <3>2. 1 .. agno + 1 = 1 .. agno \cup {agno + 1}
        BY <1>4
      <3> HIDE DEF OnList, leaves
      <3>3. Through' = Through \cup OnList(agno + 1) \cup InTree(vol, agno + 1)
        BY <1>7, <3>1, <3>2 DEF Through
      <3>4. Begun = OnList(agno + 1) /\ Begun' = {} /\ Leaves' = {}
        BY <1>1, <1>7 DEF Begun, Leaves
      <3>5. 1 .. leaf - 1 = DOMAIN leaves
        BY <1>3, <1>5, <1>7
      <3>6. Leaves = InTree(vol, agno + 1)
        BY <1>1, <3>5 DEF Leaves, InTree, leaves
      <3> QED
        BY <3>3, <3>4, <3>6 DEF Cleared
    <2>5. ScanBits'
      BY <1>1, <1>2, <1>7, <2>4 DEF ScanBits, UsedKept, Blocks, Scanning
    <2> QED
      BY <1>1, <1>7, <2>1, <2>2, <2>3, <2>5, DevicesStay, ScanInvIs DEF ReaderInvariant, Scanning
  <1>8. ASSUME NEW ok \in BOOLEAN, leaf <= Len(leaves), Read(ok), leaf' = leaf + 1,
               bitmap' = IF ok THEN ClearRecords(bitmap, leaves[leaf]) ELSE bitmap,
               UNCHANGED <<pc, agno>>
        PROVE  ReaderInvariant'
    <2>1. failures' = (failures \/ ~ok)
      BY <1>8 DEF Read
    <2>2. leaf \in DOMAIN leaves
      BY <1>3, <1>5, <1>8
    <2>3. bitmap' \subseteq bitmap
      BY <1>8 DEF ClearRecords
    <2>4. Values'
      <3>1. leaf' \in Nat /\ agno' = agno
        BY <1>5, <1>8
      <3> QED
        BY <1>1, <1>2, <2>3, <3>1 DEF Values, Blocks
    <2>5. Flags'
      <3>1. (failures \/ ~ok) \in BOOLEAN
        OBVIOUS
      <3> QED
        BY Zenon, <1>1, <1>2, <2>1, <3>1 DEF Flags
    <2>6. ScanPlace'
      BY <1>1, <1>3, <1>5, <1>8 DEF ScanPlace
    <2>7. ScanFlags'
      BY <1>1, <1>8 DEF ScanFlags
    <2>8. Cleared' = Cleared \cup InLeaf(vol, agno + 1, leaf)
      <3>1. vol' = vol /\ \A n : OnList(n)' = OnList(n)
        BY <1>1 DEF OnList
      <3>2. 1 .. leaf' - 1 = 1 .. leaf - 1 \cup {leaf}
        BY <1>3, <1>5, <1>8
      <3> HIDE DEF OnList, leaves
      <3>3. Through' = Through
        BY <1>8, <3>1 DEF Through
      <3>4. Begun' = Begun
        BY <1>1, <1>8, <3>1 DEF Begun
      <3>5. Leaves' = Leaves \cup InLeaf(vol, agno + 1, leaf)
        BY <1>1, <1>8, <3>1, <3>2 DEF Leaves
      <3> QED
        BY <3>3, <3>4, <3>5 DEF Cleared
    <2>9. InLeaf(vol, agno + 1, leaf) \cap vol.used = {}
      <3>1. InLeaf(vol, agno + 1, leaf) \subseteq InTree(vol, agno + 1)
        BY <2>2 DEF InTree
      <3> QED
        BY <1>2, <1>4, <3>1, Sound DEF Values
    <2>10. ASSUME vol.dblocks <= Word
           PROVE  ok => bitmap' = bitmap \ InLeaf(vol, agno + 1, leaf)
      BY <1>2, <1>3, <1>8, <2>2, <2>10, LeafIsCleared
    <2>11. ScanBits'
      <3>1. ASSUME vol.dblocks <= Word, UsedKept
            PROVE  UsedKept'
        BY <1>1, <1>8, <2>9, <2>10, <3>1 DEF UsedKept
      <3> QED
        BY <1>1, <1>2, <1>8, <2>1, <2>8, <2>10, <3>1 DEF ScanBits, Scanning, Blocks
    <2> QED
      BY <1>1, <1>8, <2>4, <2>5, <2>6, <2>7, <2>11, DevicesStay, ScanInvIs
         DEF ReaderInvariant, Scanning
  <1> QED
    BY <1>3, <1>5, <1>6, <1>7, <1>8 DEF scanfunc_bno

LEMMA CloseBitmapStep ==
    ASSUME ReaderInvariant, CloseBitmap
    PROVE  ReaderInvariant'
  <1>1. /\ pc = "bitmap_close" /\ pc' = "done"
        /\ UNCHANGED <<kind, ddev, mp, dev, left, failures, openFailed, jobs>>
        /\ UNCHANGED scan
        /\ devMap' = libxfs_device_close(ddev).map /\ fd0' = libxfs_device_close(ddev).fd0
    BY DEF CloseBitmap, fs_close
  <1>2. Values /\ Flags /\ DevicesInv /\ ScanPlace /\ ScanFlags /\ ScanBits /\ StdinLostByFailedOpen
    BY TypesAre, ScanInvIs DEF ReaderInvariant, GlobalsAcrossJobs
  <1>3. /\ devMap \in Maps /\ Single(devMap) /\ ddev \in Devs \cup {NoDev}
        /\ dev \in Devs /\ dev # NoDev /\ dev \notin left /\ kind = "good" /\ left \subseteq Devs
        /\ \/ ddev = dev /\ Table \in {left, left \cup {dev}}
           \/ ddev = NoDev /\ Table = left /\ openFailed
    BY <1>1, <1>2, ReaderAssumption DEF Values, DevicesInv, Single
  <1>4. devMap' \in Maps /\ Single(devMap') /\ Table' = Table \ {ddev}
    BY <1>1, <1>3, SlotGivenBack, TableIsHeld
  <1>5. Table' = left
    BY <1>3, <1>4, ReaderAssumption
  <1>6. fd0' = (fd0 /\ ~(ddev = NoDev /\ Slots(NoDev) # {}))
    BY <1>1 DEF libxfs_device_close
  <1>7. Values' /\ Flags'
    <2>1. Values'
      BY <1>1, <1>2, <1>4 DEF Values, scan, Blocks
    <2>2. (fd0 /\ ~(ddev = NoDev /\ Slots(NoDev) # {})) \in BOOLEAN
      OBVIOUS
    <2>3. Flags'
      BY Zenon, <1>1, <1>2, <1>6, <2>2 DEF Flags, scan
    <2> QED
      BY <2>1, <2>3
  <1>8. DevicesInv' /\ TableAtRest'
    BY <1>1, <1>3, <1>4, <1>5 DEF DevicesInv, Scanning, TableAtRest, Single
  <1>9. StdinLostByFailedOpen'
    <2>1. ddev = NoDev => openFailed
      BY <1>3
    <2> QED
      BY Zenon, <1>1, <1>2, <1>6, <2>1 DEF StdinLostByFailedOpen
  <1>10. ScansOwnDevice' /\ ScanPlace' /\ ScanFlags'
    BY <1>1, <1>2 DEF ScansOwnDevice, Scanning, ScanPlace, ScanFlags, scan
  <1>11. Cleared' = Cleared
    <2>1. vol' = vol /\ agno' = agno /\ \A n : OnList(n)' = OnList(n)
      BY <1>1 DEF OnList, scan
    <2> HIDE DEF OnList
    <2> QED
      BY <1>1, <2>1 DEF Cleared, Through, Begun, Leaves
  <1>12. ScanBits'
    BY <1>1, <1>2, <1>11 DEF ScanBits, UsedKept, Blocks, Scanning, scan
  <1> QED
    BY <1>7, <1>8, <1>9, <1>10, <1>12, TypesAre, ScanInvIs DEF ReaderInvariant, GlobalsAcrossJobs

LEMMA ReaderStep ==
    ReaderInvariant /\ [ReaderNext]_readerVars => ReaderInvariant'
  <1> SUFFICES ASSUME ReaderInvariant, [ReaderNext]_readerVars
               PROVE  ReaderInvariant'
    OBVIOUS
  <1>1. CASE ReaderNext
    BY <1>1, StartJobStep, SuperStep, CloseSuperStep, BitmapInfoStep, ScanAgStep, FreeListStep,
       TreeRootStep, LeafStep, CloseBitmapStep, EndJobStep DEF ReaderNext
  <1>2. CASE UNCHANGED readerVars
    <2>1. /\ UNCHANGED <<kind, devMap, ddev, mp, dev, pc, vol, bitmap, agno, agf, leaf, lost, left>>
          /\ UNCHANGED <<failures, openFailed, fd0, jobs>>
      BY <1>2 DEF readerVars
    <2>2. Values /\ Flags /\ ScanPlace /\ ScanFlags /\ ScanBits
      BY TypesAre, ScanInvIs DEF ReaderInvariant, GlobalsAcrossJobs
    <2>3. DevicesInv /\ TableAtRest /\ ScansOwnDevice /\ StdinLostByFailedOpen
      BY DEF ReaderInvariant, GlobalsAcrossJobs
    <2>4. Values' /\ ScanPlace' /\ ScanFlags'
      BY <2>1, <2>2 DEF Values, ScanPlace, ScanFlags, Blocks
    <2>5. Flags' /\ StdinLostByFailedOpen'
      BY Zenon, <2>1, <2>2, <2>3 DEF Flags, StdinLostByFailedOpen
    <2>6. DevicesInv' /\ TableAtRest' /\ ScansOwnDevice'
      BY <2>1, <2>3 DEF DevicesInv, TableAtRest, ScansOwnDevice, Table, Slots
    <2>7. Cleared' = Cleared
      <3>1. \A n : OnList(n)' = OnList(n)
        BY <2>1 DEF OnList
      <3> HIDE DEF OnList
      <3> QED
        BY <2>1, <3>1 DEF Cleared, Through, Begun, Leaves
    <2>8. ScanBits'
      BY <2>1, <2>2, <2>7 DEF ScanBits, UsedKept, Blocks
    <2> QED
      BY <2>4, <2>5, <2>6, <2>8, TypesAre, ScanInvIs DEF ReaderInvariant, GlobalsAcrossJobs
  <1> QED
    BY <1>1, <1>2

(* A scan that is through has cleared every group.                         *)
LEMMA ScanGives ==
    ReaderInvariant => XfsBitmapRight
  <1> SUFFICES ASSUME ReaderInvariant PROVE XfsUsedKept /\ XfsExact
    BY DEF ReaderInvariant, XfsBitmapRight
  <1>1. Values /\ ScanFlags /\ ScanBits /\ vol \in Volumes
    BY TypesAre, ScanInvIs DEF ReaderInvariant, GlobalsAcrossJobs, Values
  <1>2. XfsUsedKept
    BY <1>1 DEF ScanBits, XfsUsedKept, UsedKept, Scanning
  <1>3. ASSUME pc = "done", vol.dblocks <= Word, ~failures
        PROVE  bitmap = vol.used \cup
                 UNION {Listed(vol, n) : n \in {k \in DOMAIN vol.ags : ~ListValid(vol.ags[k])}}
    <2> DEFINE groups == DOMAIN vol.ags
               lists == UNION {OnList(n) : n \in groups}
               trees == UNION {InTree(vol, n) : n \in groups}
               alone == UNION {Listed(vol, n) : n \in {k \in groups : ~ListValid(vol.ags[k])}}
    <2>1. bitmap = Blocks(vol) \ Cleared /\ 1 .. agno = groups
      BY <1>1, <1>3, Sound DEF ScanFlags, ScanBits, Scanning
    <2>2. Cleared = UNION {OnList(n) \cup InTree(vol, n) : n \in groups}
      BY <1>3, <2>1 DEF Cleared, Through, Begun, Leaves
    <2>3. Cleared = lists \cup trees
      BY <2>2
    <2>4. /\ vol.used = Blocks(vol) \ UNION {Listed(vol, n) \cup InTree(vol, n) : n \in groups}
          /\ \A n \in groups : GroupIsSound(vol, n)
      BY <1>1, Sound
    <2>5. UNION {Listed(vol, n) \cup InTree(vol, n) : n \in groups} = lists \cup trees \cup alone
      BY DEF OnList
    <2>6. alone \subseteq Blocks(vol) /\ alone \cap trees = {}
      BY <2>4 DEF GroupIsSound
    <2>7. alone \cap lists = {}
      BY <2>4 DEF GroupIsSound, OnList
    <2> HIDE DEF groups, lists, trees, alone
    <2>8. bitmap = vol.used \cup alone
      BY <2>1, <2>3, <2>4, <2>5, <2>6, <2>7
    <2> QED
      BY <2>8 DEF alone, groups
  <1> QED
    BY <1>2, <1>3 DEF XfsExact

(* Over any number of jobs, with any read or open failing: the table, the  *)
(* globals and the scan agree at every step.                               *)
THEOREM ReaderIsInvariant ==
    LibrarySpec => []ReaderInvariant
  <1>1. LibraryInit => ReaderInvariant
    BY ReaderInitial DEF LibraryInit
  <1>2. ReaderInvariant /\ [LibraryNext]_libraryVars => ReaderInvariant'
    <2> SUFFICES ASSUME ReaderInvariant, [LibraryNext]_libraryVars
                 PROVE  ReaderInvariant'
      OBVIOUS
    <2>1. [ReaderNext]_readerVars
      BY DEF LibraryNext, libraryVars
    <2> QED
      BY <2>1, ReaderStep
  <1> QED
    BY <1>1, <1>2, PTL DEF LibrarySpec

(* A job that succeeds gives its slot back, a scan uses its own device,    *)
(* and descriptor 0 goes only after an open has failed.                    *)
THEOREM GlobalsAreKept ==
    LibrarySpec => []GlobalsAcrossJobs
  <1>1. ReaderInvariant => GlobalsAcrossJobs
    BY DEF ReaderInvariant
  <1> QED
    BY <1>1, ReaderIsInvariant, PTL

(* A scan loses no block in use, except block 0 of a group whose list was  *)
(* read as zeros, and is exact when nothing fails.                         *)
THEOREM BitmapIsRight ==
    LibrarySpec => []XfsBitmapRight
  BY ReaderIsInvariant, ScanGives, PTL
=============================================================================
