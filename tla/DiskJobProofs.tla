--------------------------- MODULE DiskJobProofs ---------------------------
(***************************************************************************)
(* The proofs about the backup and the restore of a whole disk, for every  *)
(* listing of lsblk, every set of mounted partitions, every size and any   *)
(* number of operations.                                                   *)
(***************************************************************************)
EXTENDS DiskJob, FiniteSetTheorems, SequenceTheorems, WellFoundedInduction, TLAPS

(* A set of numbers that is not empty has a least one.                     *)
LEMMA LeastNumber ==
    ASSUME NEW T \in SUBSET Nat, T # {}
    PROVE  \E x \in T : \A y \in T : x =< y
<1> DEFINE R == OpToRel(<, Nat)
<1>1. IsWellFoundedOn(R, Nat)
    BY NatLessThanWellFounded
<1>2. \A x, y \in Nat : <<y, x>> \in R <=> y < x
    BY DEF OpToRel
<1> HIDE DEF R
<1>3. PICK x \in T : \A y \in T : ~(<<y, x>> \in R)
    BY <1>1, WFMin
<1>4. \A y \in T : x =< y
    <2>1. TAKE y \in T
    <2>2. x \in Nat /\ y \in Nat /\ ~(y < x)
        BY <1>2, <1>3
    <2>3. QED BY <2>2
<1>5. QED BY <1>4

(* The positions below a position are finitely many.                       *)
LEMMA BelowFinite ==
    ASSUME NEW n \in Nat, NEW P \in SUBSET (1 .. n), NEW i \in Int
    PROVE  /\ IsFiniteSet(P) /\ Cardinality(P) \in Nat
           /\ IsFiniteSet(Below(P, i)) /\ Cardinality(Below(P, i)) \in Nat
           /\ Cardinality(Below(P, i)) =< Cardinality(P)
           /\ Cardinality(Below(P, i)) = Cardinality(P) => Below(P, i) = P
<1>1. IsFiniteSet(1 .. n)
    BY FS_Interval
<1>2. IsFiniteSet(P)
    BY <1>1, FS_Subset
<1>3. Below(P, i) \in SUBSET P
    BY DEF Below
<1>4. /\ IsFiniteSet(Below(P, i)) /\ Cardinality(Below(P, i)) =< Cardinality(P)
      /\ Cardinality(P) = Cardinality(Below(P, i)) => P = Below(P, i)
    BY <1>2, <1>3, FS_Subset
<1>5. QED BY <1>2, <1>4, FS_CardinalityType

(* One position further, there is one more below or there are as many.     *)
LEMMA BelowNext ==
    ASSUME NEW n \in Nat, NEW P \in SUBSET (1 .. n), NEW i \in Nat
    PROVE  Cardinality(Below(P, i + 1)) = Cardinality(Below(P, i)) + IF i \in P THEN 1 ELSE 0
<1>0. i \in Int
    OBVIOUS
<1>1. \A j \in P : j < i + 1 <=> j < i \/ j = i
    OBVIOUS
<1>2. IsFiniteSet(Below(P, i)) /\ Cardinality(Below(P, i)) \in Nat
    BY <1>0, BelowFinite
<1>3. CASE i \in P
    <2>0. ~(i < i)
        OBVIOUS
    <2>1. Below(P, i + 1) = Below(P, i) \cup {i} /\ i \notin Below(P, i)
        BY <1>1, <1>3, <2>0, Zenon DEF Below
    <2>2. Cardinality(Below(P, i) \cup {i}) = Cardinality(Below(P, i)) + 1
        BY <1>2, <2>1, FS_AddElement
    <2>3. QED BY <1>3, <2>1, <2>2
<1>4. CASE i \notin P
    <2>1. Below(P, i + 1) = Below(P, i)
        BY <1>1, <1>4, Zenon DEF Below
    <2>2. QED BY <1>2, <1>4, <2>1
<1>5. QED BY <1>3, <1>4

(* There is a k-th position for every number up to the number of them.     *)
LEMMA KthExists ==
    ASSUME NEW n \in Nat, NEW P \in SUBSET (1 .. n), NEW k \in 1 .. Cardinality(P)
    PROVE  Kth(P, k) \in P
<1> DEFINE T == {i \in 1 .. n + 1 : Cardinality(Below(P, i)) >= k}
<1>1. Cardinality(P) \in Nat /\ \A i \in 0 .. n + 1 : Cardinality(Below(P, i)) \in Nat
    <2>1. \A i \in 0 .. n + 1 : i \in Int
        OBVIOUS
    <2>2. n \in Int
        OBVIOUS
    <2>3. Cardinality(P) \in Nat
        BY <2>2, BelowFinite
    <2>4. \A i \in 0 .. n + 1 : Cardinality(Below(P, i)) \in Nat
        BY <2>1, BelowFinite
    <2>5. QED BY <2>3, <2>4
<1>2. n + 1 \in T
    <2>0. \A i \in P : i < n + 1
        OBVIOUS
    <2>1. Below(P, n + 1) = P
        BY <2>0, Zenon DEF Below
    <2>2. QED BY <1>1, <2>1
<1>3. PICK b \in T : \A y \in T : b =< y
    <2>1. T \in SUBSET Nat /\ T # {}
        BY <1>2
    <2> HIDE DEF T
    <2>2. QED BY <2>1, LeastNumber
<1>4. b # 1
    <2>0. \A i \in P : ~(i < 1)
        OBVIOUS
    <2>1. Below(P, 1) = {}
        BY <2>0, Zenon DEF Below
    <2>2. Cardinality(Below(P, 1)) = 0
        BY <2>1, FS_EmptySet
    <2>3. QED BY <1>3, <2>2
<1> DEFINE a == b - 1
<1>5. a \in 1 .. n + 1 /\ a \notin T /\ a \in Nat /\ b = a + 1
    BY <1>3, <1>4
<1>6. Cardinality(Below(P, a)) < k
    BY <1>1, <1>5
<1>7. Cardinality(Below(P, a + 1)) >= k
    BY <1>3, <1>5
<1>8. Cardinality(Below(P, a + 1)) = Cardinality(Below(P, a)) + IF a \in P THEN 1 ELSE 0
    BY <1>5, BelowNext
<1>9. Cardinality(Below(P, a)) \in Nat
    BY <1>1, <1>5
<1>10. a \in P
    BY <1>6, <1>7, <1>8, <1>9
<1>11. Cardinality(Below(P, a)) = k - 1
    BY <1>6, <1>7, <1>8, <1>9, <1>10
<1>12. QED BY <1>10, <1>11 DEF Kth

(* Every position is the k-th for some number.                             *)
LEMMA KthIs ==
    ASSUME NEW n \in Nat, NEW P \in SUBSET (1 .. n), NEW i \in P
    PROVE  \E k \in 1 .. Cardinality(P) : Kth(P, k) = i
<1> DEFINE k == Cardinality(Below(P, i)) + 1
<1>1. i \in Int /\ i \notin Below(P, i)
    BY DEF Below
<1>2. /\ Cardinality(P) \in Nat /\ Cardinality(Below(P, i)) \in Nat
      /\ Cardinality(Below(P, i)) =< Cardinality(P)
      /\ Cardinality(Below(P, i)) = Cardinality(P) => Below(P, i) = P
    BY <1>1, BelowFinite
<1>3. k \in 1 .. Cardinality(P) /\ Cardinality(Below(P, i)) = k - 1
    BY <1>1, <1>2
<1>4. ASSUME NEW c \in P, NEW d \in P, c < d
      PROVE  Cardinality(Below(P, c)) # Cardinality(Below(P, d))
    <2>1. c \in Int /\ d \in Int
        OBVIOUS
    <2>6. ~(c < c) /\ \A j \in P : j < c => j < d
        BY <1>4
    <2>2. Below(P, c) \in SUBSET Below(P, d) /\ c \in Below(P, d) /\ c \notin Below(P, c)
        BY <1>4, <2>6, Zenon DEF Below
    <2>3. IsFiniteSet(Below(P, d))
        BY <2>1, BelowFinite
    <2>4. Cardinality(Below(P, c)) = Cardinality(Below(P, d)) => Below(P, c) = Below(P, d)
        BY <2>2, <2>3, FS_Subset
    <2>5. QED BY <2>2, <2>4
<1>5. \A c \in P : Cardinality(Below(P, c)) = k - 1 => c = i
    <2>1. TAKE c \in P
    <2>2. c \in Int /\ i \in Int
        OBVIOUS
    <2>3. c < i \/ c = i \/ i < c
        BY <2>2
    <2>4. QED BY <1>3, <1>4, <2>3
<1>6. Kth(P, k) = i
    BY <1>3, <1>5 DEF Kth
<1>7. QED BY <1>3, <1>6

-----------------------------------------------------------------------------
(* What lsblk lists, and the groups made of it.                            *)

Elements(s) == {s[i] : i \in DOMAIN s}

LEMMA ConcatElements ==
    ASSUME NEW S, NEW s \in Seq(S), NEW t \in Seq(S)
    PROVE  s \o t \in Seq(S) /\ Elements(s \o t) = Elements(s) \cup Elements(t)
<1>1. /\ s \o t \in Seq(S) /\ Len(s \o t) = Len(s) + Len(t)
      /\ \A i \in 1 .. Len(s) + Len(t) :
            (s \o t)[i] = IF i =< Len(s) THEN s[i] ELSE t[i - Len(s)]
    BY ConcatProperties
<1>2. /\ Len(s) \in Nat /\ Len(t) \in Nat /\ DOMAIN s = 1 .. Len(s) /\ DOMAIN t = 1 .. Len(t)
      /\ DOMAIN (s \o t) = 1 .. Len(s) + Len(t)
    BY <1>1, LenProperties
<1>3. ASSUME NEW i \in DOMAIN (s \o t)
      PROVE  (s \o t)[i] \in Elements(s) \cup Elements(t)
    <2>1. CASE i =< Len(s)
        <3>1. i \in DOMAIN s /\ (s \o t)[i] = s[i]
            BY <1>1, <1>2, <2>1
        <3>2. QED BY <3>1 DEF Elements
    <2>2. CASE ~(i =< Len(s))
        <3>1. i - Len(s) \in DOMAIN t /\ (s \o t)[i] = t[i - Len(s)]
            BY <1>1, <1>2, <2>2
        <3>2. QED BY <3>1 DEF Elements
    <2>3. QED BY <2>1, <2>2
<1>4. ASSUME NEW i \in DOMAIN s
      PROVE  s[i] \in Elements(s \o t)
    <2>1. i \in DOMAIN (s \o t) /\ (s \o t)[i] = s[i]
        BY <1>1, <1>2
    <2>2. QED BY <2>1 DEF Elements
<1>5. ASSUME NEW i \in DOMAIN t
      PROVE  t[i] \in Elements(s \o t)
    <2>1. i + Len(s) \in DOMAIN (s \o t) /\ ~(i + Len(s) =< Len(s)) /\ (i + Len(s)) - Len(s) = i
        BY <1>2
    <2>2. (s \o t)[i + Len(s)] = t[i]
        BY <1>1, <1>2, <2>1
    <2>3. QED BY <2>1, <2>2 DEF Elements
<1>6. Elements(s \o t) \subseteq Elements(s) \cup Elements(t)
    BY <1>3 DEF Elements
<1>7. Elements(s) \subseteq Elements(s \o t) /\ Elements(t) \subseteq Elements(s \o t)
    <2>1. \A x \in Elements(s) : x \in Elements(s \o t)
        <3>1. TAKE x \in Elements(s)
        <3>2. PICK i \in DOMAIN s : x = s[i]
            BY DEF Elements
        <3>3. QED BY <1>4, <3>2
    <2>2. \A x \in Elements(t) : x \in Elements(s \o t)
        <3>1. TAKE x \in Elements(t)
        <3>2. PICK i \in DOMAIN t : x = t[i]
            BY DEF Elements
        <3>3. QED BY <1>5, <3>2
    <2>3. QED BY <2>1, <2>2
<1>8. QED BY <1>1, <1>6, <1>7

EntrySet ==
    [name : Names \cup {"disk", "end"}, lv : BOOLEAN, fs : STRING \cup {"free", "lvm"}]

(* An entry is found by its name, which is that of no other file.          *)
LEMMA EntryFacts ==
    ASSUME world \in Worlds
    PROVE  /\ Entries \in Seq(EntrySet)
           /\ NamesOf(Entries) \subseteq Names
           /\ \A i \in DOMAIN Entries :
                 /\ Entries[i].name \in NamesOf(Entries)
                 /\ Entries[i].name # "end" /\ Entries[i].name \notin OtherFiles
                 /\ Entry(Entries[i].name) = Entries[i]
<1>1. world.layout \in Layouts
    BY DEF Worlds
<1>2. Entries \in Layouts
    BY <1>1 DEF Entries
<1>3. /\ Entries \in Seq([name : NamesOf(Entries), lv : BOOLEAN, fs : STRING])
      /\ \A i, j \in DOMAIN Entries : Entries[i].name = Entries[j].name => i = j
      /\ NamesOf(Entries) \cap (OtherFiles \cup {"end"}) = {}
    BY <1>2, LayoutsAssumption
<1>4. NamesOf(Entries) \subseteq Names
    BY <1>2 DEF Names
<1>5. [name : NamesOf(Entries), lv : BOOLEAN, fs : STRING] \subseteq EntrySet
    BY <1>4 DEF EntrySet
<1>6. Entries \in Seq(EntrySet)
    <2>1. /\ Entries \in [1 .. Len(Entries) -> [name : NamesOf(Entries), lv : BOOLEAN, fs : STRING]]
          /\ Len(Entries) \in Nat
        BY <1>3, LenProperties
    <2>2. Entries \in [1 .. Len(Entries) -> EntrySet]
        BY <1>5, <2>1, Zenon
    <2>3. QED BY <2>1, <2>2, SeqDef
<1>7. ASSUME NEW i \in DOMAIN Entries
      PROVE  /\ Entries[i].name \in NamesOf(Entries)
             /\ Entries[i].name # "end" /\ Entries[i].name \notin OtherFiles
             /\ Entry(Entries[i].name) = Entries[i]
    <2>1. Entries[i].name \in NamesOf(Entries)
        BY DEF NamesOf
    <2>2. \A j \in DOMAIN Entries : Entries[j].name = Entries[i].name => j = i
        BY <1>3
    <2>3. (CHOOSE j \in DOMAIN Entries : Entries[j].name = Entries[i].name) = i
        BY <2>2
    <2>4. QED BY <1>3, <2>1, <2>3 DEF Entry
<1>8. QED BY <1>4, <1>6, <1>7

LEMMA ListedFacts ==
    ASSUME world \in Worlds, NEW P \in SUBSET DOMAIN Entries
    PROVE  Listed(P) \in Seq(EntrySet) /\ Elements(Listed(P)) = {Entries[i] : i \in P}
<1>1. Len(Entries) \in Nat /\ DOMAIN Entries = 1 .. Len(Entries)
      /\ \A i \in DOMAIN Entries : Entries[i] \in EntrySet
    BY EntryFacts, ElementOfSeq, LenProperties
<1>2. P \in SUBSET (1 .. Len(Entries))
    BY <1>1
<1>3. \A k \in 1 .. Cardinality(P) : Kth(P, k) \in P
    BY <1>1, <1>2, KthExists
<1>4. \A i \in P : \E k \in 1 .. Cardinality(P) : Kth(P, k) = i
    BY <1>1, <1>2, KthIs
<1>5. Cardinality(P) \in Nat
    <2>1. Len(Entries) \in Int
        BY <1>1
    <2>2. QED BY <1>1, <1>2, <2>1, BelowFinite
<1>6. DOMAIN Listed(P) = 1 .. Cardinality(P)
      /\ \A k \in 1 .. Cardinality(P) : Listed(P)[k] = Entries[Kth(P, k)]
    BY DEF Listed
<1>7. Listed(P) \in [1 .. Cardinality(P) -> EntrySet]
    BY <1>1, <1>3 DEF Listed
<1>8. Listed(P) \in Seq(EntrySet)
    BY <1>5, <1>7, SeqDef
<1>9. Elements(Listed(P)) = {Entries[i] : i \in P}
    <2>1. \A x \in Elements(Listed(P)) : x \in {Entries[i] : i \in P}
        BY <1>3, <1>6 DEF Elements
    <2>2. ASSUME NEW i \in P
          PROVE  Entries[i] \in Elements(Listed(P))
        <3>1. PICK k \in 1 .. Cardinality(P) : Kth(P, k) = i
            BY <1>4
        <3>2. QED BY <1>6, <3>1 DEF Elements
    <2>3. QED BY <2>1, <2>2
<1>10. QED BY <1>8, <1>9

(* disk-info.ini holds the entries of the listing, the mark and perhaps    *)
(* the disk itself.                                                        *)
LEMMA GroupFacts ==
    ASSUME world \in Worlds
    PROVE  /\ json_parse_array \in Seq(Groups) /\ Groups \subseteq EntrySet
           /\ EndGroup \in Groups /\ \A i \in DOMAIN Entries : Entries[i] \in Groups
           /\ \A g \in Groups : g \in {DiskGroup, EndGroup} \/ \E i \in DOMAIN Entries : g = Entries[i]
<1> DEFINE P == {i \in DOMAIN Entries : ~Entries[i].lv}
           Q == {i \in DOMAIN Entries : Entries[i].lv}
           d == IF world.longName THEN <<DiskGroup>> ELSE <<>>
           dp == d \o Listed(P)
           e == <<EndGroup>>
           dpe == dp \o e
<1>1. DiskGroup \in EntrySet /\ EndGroup \in EntrySet
    <2>0. FALSE \in BOOLEAN
        BY Zenon
    <2>1. "free" \in STRING \cup {"free", "lvm"} /\ "lvm" \in STRING \cup {"free", "lvm"}
        OBVIOUS
    <2>2. "disk" \in Names \cup {"disk", "end"} /\ "end" \in Names \cup {"disk", "end"}
        OBVIOUS
    <2>3. [name |-> "disk", lv |-> FALSE, fs |-> "free"] \in EntrySet
        BY <2>0, <2>1, <2>2, Zenon DEF EntrySet
    <2>4. [name |-> "end", lv |-> FALSE, fs |-> "lvm"] \in EntrySet
        BY <2>0, <2>1, <2>2, Zenon DEF EntrySet
    <2>5. QED BY <2>3, <2>4, Zenon DEF DiskGroup, EndGroup
<1>2. /\ d \in Seq(EntrySet) /\ Elements(d) \subseteq {DiskGroup}
      /\ e \in Seq(EntrySet) /\ Elements(e) = {EndGroup}
    <2>1. <<>> \in Seq(EntrySet) /\ <<DiskGroup>> \in Seq(EntrySet) /\ <<EndGroup>> \in Seq(EntrySet)
        BY <1>1
    <2>2. Elements(<<>>) = {} /\ Elements(<<DiskGroup>>) = {DiskGroup} /\ Elements(<<EndGroup>>) = {EndGroup}
        BY DEF Elements
    <2>3. QED BY <2>1, <2>2
<1>3. /\ Listed(P) \in Seq(EntrySet) /\ Elements(Listed(P)) = {Entries[i] : i \in P}
      /\ Listed(Q) \in Seq(EntrySet) /\ Elements(Listed(Q)) = {Entries[i] : i \in Q}
    BY ListedFacts
<1>4. \A i \in DOMAIN Entries : i \in P \/ i \in Q
    OBVIOUS
<1>5. json_parse_array = dpe \o Listed(Q)
    BY DEF json_parse_array, record_standard_disk_info, record_lvm_disk_info
<1>6. P \subseteq DOMAIN Entries /\ Q \subseteq DOMAIN Entries
    OBVIOUS
<1> HIDE DEF P, Q, d, e
<1>7. dp \in Seq(EntrySet) /\ Elements(dp) = Elements(d) \cup Elements(Listed(P))
    BY <1>2, <1>3, ConcatElements
<1> HIDE DEF dp
<1>8. dpe \in Seq(EntrySet) /\ Elements(dpe) = Elements(dp) \cup {EndGroup}
    BY <1>2, <1>7, ConcatElements
<1> HIDE DEF dpe
<1>9. /\ json_parse_array \in Seq(EntrySet)
      /\ Elements(json_parse_array) = Elements(dpe) \cup Elements(Listed(Q))
    BY <1>3, <1>5, <1>8, ConcatElements
<1>10. Groups = ((Elements(d) \cup {Entries[i] : i \in P}) \cup {EndGroup}) \cup {Entries[i] : i \in Q}
    BY <1>3, <1>7, <1>8, <1>9 DEF Groups, Elements
<1>11. json_parse_array \in Seq(Groups) /\ Groups \subseteq EntrySet
    <2>1. /\ json_parse_array \in [1 .. Len(json_parse_array) -> EntrySet]
          /\ Len(json_parse_array) \in Nat /\ DOMAIN json_parse_array = 1 .. Len(json_parse_array)
        BY <1>9, LenProperties
    <2>2. \A i \in DOMAIN json_parse_array : json_parse_array[i] \in Groups
        BY DEF Groups
    <2>3. json_parse_array \in [1 .. Len(json_parse_array) -> Groups]
        BY <2>1, <2>2
    <2>4. json_parse_array \in Seq(Groups)
        BY <2>1, <2>3, SeqDef
    <2>5. Groups \subseteq EntrySet
        BY <2>1 DEF Groups
    <2>6. QED BY <2>4, <2>5
<1>12. \A g \in Groups : g \in {DiskGroup, EndGroup} \/ \E i \in DOMAIN Entries : g = Entries[i]
    BY <1>2, <1>6, <1>10
<1>13. EndGroup \in Groups /\ \A i \in DOMAIN Entries : Entries[i] \in Groups
    BY <1>4, <1>10
<1>14. QED BY <1>11, <1>12, <1>13

-----------------------------------------------------------------------------
(* The queue and the groups that are left, as sets.                        *)

LEMMA AppendElements ==
    ASSUME NEW S, NEW s \in Seq(S), NEW x \in S
    PROVE  Append(s, x) \in Seq(S) /\ Elements(Append(s, x)) = Elements(s) \cup {x}
<1>1. /\ Append(s, x) \in Seq(S) /\ Len(Append(s, x)) = Len(s) + 1
      /\ \A i \in 1 .. Len(s) : Append(s, x)[i] = s[i]
      /\ Append(s, x)[Len(s) + 1] = x
    BY AppendProperties
<1>2. /\ Len(s) \in Nat /\ DOMAIN s = 1 .. Len(s)
      /\ DOMAIN Append(s, x) = 1 .. Len(s) + 1
    BY <1>1, LenProperties
<1>3. \A i \in 1 .. Len(s) + 1 : i \in 1 .. Len(s) \/ i = Len(s) + 1
    BY <1>2
<1>4. 1 .. Len(s) \subseteq 1 .. Len(s) + 1 /\ Len(s) + 1 \in 1 .. Len(s) + 1
    BY <1>2
<1> DEFINE a == Append(s, x)
           n == Len(s) + 1
<1>5. /\ \A i \in 1 .. Len(s) : a[i] = s[i] /\ i \in DOMAIN a
      /\ a[n] = x /\ n \in DOMAIN a
      /\ \A i \in DOMAIN a : i \in 1 .. Len(s) \/ i = n
    BY <1>1, <1>2, <1>3, <1>4
<1> HIDE DEF a, n
<1>6. Elements(a) = Elements(s) \cup {x}
    <2>1. \A y \in Elements(a) : y \in Elements(s) \cup {x}
        BY <1>2, <1>5 DEF Elements
    <2>2. \A y \in Elements(s) : y \in Elements(a)
        BY <1>2, <1>5 DEF Elements
    <2>3. x \in Elements(a)
        BY <1>5 DEF Elements
    <2>4. QED BY <2>1, <2>2, <2>3
<1>7. QED BY <1>1, <1>6 DEF a

LEMMA TailElements ==
    ASSUME NEW S, NEW s \in Seq(S), s # <<>>
    PROVE  /\ Tail(s) \in Seq(S) /\ Head(s) \in S /\ Head(s) \in Elements(s)
           /\ Elements(s) = Elements(Tail(s)) \cup {Head(s)}
           /\ Len(Tail(s)) = Len(s) - 1
           /\ Head(s) = s[1] /\ \A i \in 1 .. Len(s) - 1 : Tail(s)[i] = s[i + 1]
<1>1. /\ Tail(s) \in Seq(S) /\ Head(s) \in S /\ Head(s) = s[1]
      /\ Len(Tail(s)) = Len(s) - 1
      /\ \A i \in 1 .. Len(Tail(s)) : Tail(s)[i] = s[i + 1]
    BY HeadTailProperties
<1>2. Len(s) \in Nat /\ Len(s) # 0 /\ DOMAIN s = 1 .. Len(s)
    BY LenProperties, EmptySeq
<1>3. DOMAIN Tail(s) = 1 .. Len(s) - 1
    BY <1>1, LenProperties
<1>4. 1 \in DOMAIN s /\ \A i \in 1 .. Len(s) - 1 : i + 1 \in DOMAIN s
    BY <1>2
<1>5. \A i \in DOMAIN s : i = 1 \/ (i - 1 \in 1 .. Len(s) - 1 /\ (i - 1) + 1 = i)
    BY <1>2
<1>6. \A i \in 1 .. Len(s) - 1 : Tail(s)[i] = s[i + 1]
    BY <1>1
<1>7. Head(s) \in Elements(s)
    BY <1>1, <1>4 DEF Elements
<1>8. ASSUME NEW i \in DOMAIN s, i # 1
      PROVE  s[i] \in Elements(Tail(s))
    <2>1. i - 1 \in DOMAIN Tail(s) /\ Tail(s)[i - 1] = s[i]
        BY <1>3, <1>5, <1>6, <1>8
    <2>2. QED BY <2>1 DEF Elements
<1>9. ASSUME NEW i \in DOMAIN Tail(s)
      PROVE  Tail(s)[i] \in Elements(s)
    BY <1>3, <1>4, <1>6 DEF Elements
<1>10. Elements(s) = Elements(Tail(s)) \cup {Head(s)}
    <2>1. \A y \in Elements(s) : y \in Elements(Tail(s)) \cup {Head(s)}
        BY <1>1, <1>8 DEF Elements
    <2>2. \A y \in Elements(Tail(s)) : y \in Elements(s)
        <3>1. TAKE y \in Elements(Tail(s))
        <3>2. PICK i \in DOMAIN Tail(s) : y = Tail(s)[i]
            BY DEF Elements
        <3>3. QED BY <1>9, <3>2
    <2>3. QED BY <1>7, <2>1, <2>2
<1>11. QED BY <1>1, <1>6, <1>7, <1>10

(* A call is added to the queue.                                           *)
LEMMA CallAdded ==
    ASSUME queue \in Seq(Calls), NEW c \in Calls, queue' = Append(queue, c)
    PROVE  /\ queue' \in Seq(Calls)
           /\ \A m : Queued(m)' = Queued(m) \cup (IF c[1] = m THEN {c} ELSE {})
<1>1. queue' \in Seq(Calls) /\ Elements(queue') = Elements(queue) \cup {c}
    BY AppendElements
<1>2. \A m : Queued(m)' = {x \in Elements(queue') : x[1] = m}
    BY DEF Queued, Elements
<1>3. \A m : Queued(m) = {x \in Elements(queue) : x[1] = m}
    BY DEF Queued, Elements
<1>4. QED BY <1>1, <1>2, <1>3

(* A call is taken from the queue.                                         *)
LEMMA CallTaken ==
    ASSUME queue \in Seq(Calls), queue # <<>>, queue' = Tail(queue)
    PROVE  /\ queue' \in Seq(Calls) /\ Head(queue) \in Calls
           /\ Head(queue) \in Queued(Head(queue)[1])
           /\ \A m : Queued(m)' \subseteq Queued(m)
           /\ \A m : \A c \in Queued(m) : c = Head(queue) \/ c \in Queued(m)'
<1>1. /\ queue' \in Seq(Calls) /\ Head(queue) \in Calls
      /\ Elements(queue) = Elements(queue') \cup {Head(queue)}
    BY TailElements
<1>2. \A m : Queued(m)' = {x \in Elements(queue') : x[1] = m}
    BY DEF Queued, Elements
<1>3. \A m : Queued(m) = {x \in Elements(queue) : x[1] = m}
    BY DEF Queued, Elements
<1>4. QED BY <1>1, <1>2, <1>3

LEMMA QueuedCalls ==
    ASSUME queue \in Seq(Calls), NEW m, NEW c \in Queued(m)
    PROVE  c \in Calls /\ c[1] = m
<1>1. \A i \in DOMAIN queue : queue[i] \in Calls
    BY ElementOfSeq, LenProperties
<1>2. QED BY <1>1 DEF Queued

LEMMA NothingQueued ==
    ASSUME queue = <<>>, NEW m
    PROVE  Queued(m) = {}
BY DEF Queued

-----------------------------------------------------------------------------
(* Types.                                                                  *)

LEMMA CallParts ==
    ASSUME NEW c \in Calls
    PROVE  /\ c[1] \in {"ptf", "restore"} => c[2] \in Names
           /\ c[1] \in {"remove", "vgcfgrestore", "restart"} => c[2] \in Vgs
           /\ c[3] \in 1 .. MaxOps
BY DEF Calls

LEMMA Numbers ==
    /\ Word \in Nat /\ Word > 0 /\ Word % 2 = 0 /\ MaxOps \in Nat
    /\ Length \in Nat /\ Length >= 1 /\ Length =< Word \div 2 - 1
    /\ Starts \subseteq Nat /\ DiskSizes \subseteq Nat
BY BoundsAssumption

(* The world stays, and with it everything made of it.                     *)
LEMMA WorldStays ==
    ASSUME [Next]_vars
    PROVE  world' = world
<1>1. CASE UNCHANGED vars
    BY <1>1, SMTT(60) DEF vars
<1>2. CASE Next
    BY <1>2, ZenonT(60) DEF Next, sysbak_admin_disk_to_file, MakeDir, get_disk_lvm_metadata, BackupStep,
        get_disk_info_config, get_disk_partition_table, get_disk_mbr,
        sysbak_admin_disk_data, BackupGroup, BackupReturns, sysbak_admin_restore_disk,
        CheckRestore, CheckRestoreSpace, restore_disk_mbr, restore_partition_table,
        restore_lvm_pv, activation_lvm_pv, SkipFree, restore_disk_partition_data,
        RestoreReturns, gdbus_sysbak_ptf, gdbus_remove_all_vg, gdbus_restore_lvm_meta,
        gdbus_restart_vg, gdbus_sysbak_restore, ClientDies, DaemonDies, BackupCallLost,
        TableCallLost, PvCallLost
<1>3. QED BY <1>1, <1>2

LEMMA SameWorld ==
    ASSUME world' = world
    PROVE  /\ Entries' = Entries /\ json_parse_array' = json_parse_array /\ Groups' = Groups
           /\ \A n : IsLv(n)' = IsLv(n)
           /\ \A n : Entry(n)' = Entry(n)
           /\ Fits' = Fits
<1>1. Entries' = Entries
    BY DEF Entries
<1>2. \A P : Listed(P)' = Listed(P)
    BY <1>1 DEF Listed
<1>3. json_parse_array' = json_parse_array
    BY <1>1, <1>2 DEF json_parse_array, record_standard_disk_info, record_lvm_disk_info
<1>4. Groups' = Groups
    BY <1>3 DEF Groups
<1>5. \A n : Entry(n)' = Entry(n)
    BY <1>1 DEF Entry
<1>6. \A n : IsLv(n)' = IsLv(n)
    BY <1>1, <1>5 DEF IsLv
<1>7. Fits' = Fits
    BY DEF Fits
<1>8. QED BY <1>1, <1>3, <1>4, <1>5, <1>6, <1>7

DirType  == [Files -> [run : 0..MaxOps, ok : BOOLEAN]]
DiskType ==
    [mbr : {"old", "bad", "backup"}, table : {"old", "bad", "backup"},
     pv : {"old", "none", "new"},
     vg : [Vgs -> {"old", "none", "inactive", "new"}],
     data : [Names -> {"old", "bad", "image"}]]

LEMMA InitHolds == Init => DiskJobInvariant
<1> SUFFICES ASSUME Init PROVE DiskJobInvariant
    OBVIOUS
<1>1. dir \in DirType
    <2>1. FALSE \in BOOLEAN
        BY Zenon
    <2>2. 0 \in 0 .. MaxOps
        BY Numbers
    <2>3. NoFile \in [run : 0..MaxOps, ok : BOOLEAN]
        BY <2>1, <2>2, Zenon DEF NoFile
    <2>4. QED BY <2>3, Zenon DEF Init, DirType
<1>2. disk \in DiskType
    BY DEF Init, DiskType
<1>3. /\ queue = <<>> /\ groups = <<>> /\ pc = "idle" /\ ops = 0 /\ ret = "none"
      /\ world \in Worlds /\ queue \in Seq(Calls) /\ lost = {}
    BY DEF Init
<1>4. told \in BOOLEAN
    BY Zenon DEF Init
<1>5. ops \in 0 .. MaxOps
    BY <1>3, Numbers
<1>6. TypeOK
    BY <1>1, <1>2, <1>3, <1>4, <1>5 DEF TypeOK, DirType, DiskType, Steps
<1>7. \A m : Queued(m) = {}
    BY <1>3, NothingQueued
<1>8. \A f \in Files : dir[f] = NoFile
    BY DEF Init
<1>9. OneBackup
    BY <1>3, <1>7, <1>8 DEF OneBackup
<1>10. ImagesLast
    BY <1>3, <1>7, <1>8 DEF ImagesLast, Files
<1>11. BackupTold
    BY <1>3 DEF BackupTold
<1>12. OthersKept /\ MountedSeen
    <2>1. world.to \subseteq Names
        BY <1>3, MountsAssumption DEF Worlds
    <2>2. \A n \in Names : disk.data[n] = "old"
        BY DEF Init
    <2>3. \A v \in Vgs : disk.vg[v] = "old"
        BY DEF Init
    <2>4. OthersKept
        BY <2>1, <2>2, <2>3 DEF OthersKept, MountedDataKept, OtherGroupKept, Vgs
    <2>5. MountedSeen
        BY <1>7, <2>3 DEF MountedSeen, Vgs
    <2>6. QED BY <2>4, <2>5
<1>13. TableFirst
    BY <1>3, <1>7 DEF TableFirst
<1>14. QuietProgress
    BY <1>3, SMTT(60) DEF QuietProgress, Quiet
<1>15. QED BY <1>6, <1>9, <1>10, <1>11, <1>12, <1>13, <1>14 DEF DiskJobInvariant


(* How a step changes the directory.                                       *)
LEMMA DirSteps ==
    ASSUME Next
    PROVE  \/ dir' = dir
           \/ MakeDir \/ get_disk_lvm_metadata \/ get_disk_info_config
           \/ get_disk_partition_table \/ get_disk_mbr \/ gdbus_sysbak_ptf
           \/ DaemonDies \/ BackupCallLost
BY DEF Next, sysbak_admin_disk_to_file,
    sysbak_admin_disk_data, BackupGroup, BackupReturns, sysbak_admin_restore_disk,
    CheckRestore, CheckRestoreSpace, restore_disk_mbr, restore_partition_table,
    restore_lvm_pv, activation_lvm_pv, SkipFree, restore_disk_partition_data,
    RestoreReturns, gdbus_remove_all_vg, gdbus_restore_lvm_meta,
    gdbus_restart_vg, gdbus_sysbak_restore, ClientDies, TableCallLost, PvCallLost

(* A step writes at most one file: the next one of a backup, in the name   *)
(* of this operation, or an image, in the name of the call's.              *)
DirWritten(f, run, ok) ==
    /\ f \in Files /\ run \in 0 .. MaxOps /\ ok \in BOOLEAN
    /\ dir' = [dir EXCEPT ![f] = [run |-> run, ok |-> ok]]

(* The daemon dies: the queue is gone, and the call that was under way may *)
(* have spoilt its image or its partition.                                 *)
LEMMA DeathEffect ==
    ASSUME TypeOK, DaemonDies
    PROVE  /\ pc' = pc /\ groups' = groups /\ ops' = ops /\ ret' = ret
           /\ queue # <<>> /\ queue' = <<>> /\ \A m : Queued(m)' = {}
           /\ told' \in {told, told \/ Queued("ptf") # {}}
           /\ lost' = IF told' THEN {} ELSE lost \cup Silent
           /\ \/ dir' = dir
              \/ /\ Head(queue) \in Queued("ptf") /\ Arg \in Names
                 /\ DirWritten(Arg, Head(queue)[3], FALSE)
           /\ disk' \in DiskType
           /\ disk'.mbr = disk.mbr /\ disk'.table = disk.table /\ disk'.vg = disk.vg
           /\ \/ disk' = disk
              \/ /\ Head(queue) \in Queued("restore") /\ Arg \in Names /\ DevExists(Entry(Arg))
                 /\ \A n \in Names : n # Arg => disk'.data[n] = disk.data[n]
<1>1. /\ pc' = pc /\ groups' = groups /\ ops' = ops /\ ret' = ret
      /\ queue # <<>> /\ queue' = <<>>
      /\ told' \in {told, told \/ Queued("ptf") # {}}
      /\ lost' = IF told' THEN {} ELSE lost \cup Silent
    BY DEF DaemonDies
<1>2. \A m : Queued(m)' = {}
    BY <1>1 DEF Queued
<1>3. queue \in Seq(Calls) /\ Head(queue) \in Calls
      /\ \A m : Head(queue)[1] = m => Head(queue) \in Queued(m)
    <2>1. queue \in Seq(Calls)
        BY DEF TypeOK
    <2>2. Head(queue) \in Calls /\ Head(queue) \in Elements(queue)
        BY <1>1, <2>1, TailElements
    <2>3. QED BY <2>1, <2>2 DEF Queued, Elements
<1>4. disk \in DiskType
    BY DEF TypeOK, DiskType
<1>5. CASE dir' = dir /\ disk' = disk
    BY <1>1, <1>2, <1>4, <1>5
<1>6. CASE /\ Head(queue)[1] = "ptf" /\ disk' = disk
           /\ dir' = [dir EXCEPT ![Arg] = [run |-> Head(queue)[3], ok |-> FALSE]]
    <2>1. Arg \in Names /\ Head(queue)[3] \in 1 .. MaxOps /\ Head(queue) \in Queued("ptf")
        BY <1>3, <1>6, CallParts DEF Arg
    <2>2. Arg \in Files /\ Head(queue)[3] \in 0 .. MaxOps
        <3>1. Arg \in Files
            BY <2>1 DEF Files
        <3>2. Head(queue)[3] \in 0 .. MaxOps
            BY <2>1, Numbers
        <3>3. QED BY <3>1, <3>2
    <2>3. FALSE \in BOOLEAN
        BY Zenon
    <2>4. DirWritten(Arg, Head(queue)[3], FALSE)
        BY <1>6, <2>2, <2>3, Zenon DEF DirWritten
    <2>5. QED BY <1>1, <1>2, <1>4, <1>6, <2>1, <2>4
<1>7. CASE /\ Head(queue)[1] = "restore" /\ DevExists(Entry(Arg)) /\ dir' = dir
           /\ disk' = [disk EXCEPT !.data[Arg] = "bad"]
    <2>1. Arg \in Names /\ Head(queue) \in Queued("restore")
        BY <1>3, <1>7, CallParts DEF Arg
    <2>2. disk.data \in [Names -> {"old", "bad", "image"}]
        BY DEF TypeOK
    <2>3. disk' = [disk EXCEPT !.data = [disk.data EXCEPT ![Arg] = "bad"]]
        BY <1>7
    <2>4. [disk.data EXCEPT ![Arg] = "bad"] \in [Names -> {"old", "bad", "image"}]
        BY <2>1, <2>2
    <2>5. /\ disk' \in DiskType /\ disk'.data = [disk.data EXCEPT ![Arg] = "bad"]
          /\ disk'.mbr = disk.mbr /\ disk'.table = disk.table /\ disk'.vg = disk.vg
        BY <2>3, <2>4 DEF TypeOK, DiskType
    <2>6. \A n \in Names : n # Arg => disk'.data[n] = disk.data[n]
        BY <2>2, <2>5
    <2>7. QED BY <1>1, <1>2, <1>7, <2>1, <2>5, <2>6
<1>8. QED BY <1>5, <1>6, <1>7 DEF DaemonDies

(* A call whose answer was lost may have written its file.                  *)
LEMMA BackupLostWrites ==
    ASSUME TypeOK, BackupCallLost
    PROVE  dir' = dir \/ \E f \in {"lvm", "table", "mbr"}, ok \in BOOLEAN : DirWritten(f, ops, ok)
<1>1. dir' = dir \/ \E f \in {"lvm", "table", "mbr"}, ok \in BOOLEAN : Write(f, ok)
    BY DEF BackupCallLost
<1>2. {"lvm", "table", "mbr"} \subseteq Files /\ ops \in 0 .. MaxOps
    BY DEF Files, OtherFiles, TypeOK
<1>3. QED BY <1>1, <1>2, Zenon DEF Write, DirWritten

LEMMA DirChanges ==
    ASSUME TypeOK, Next
    PROVE  \/ dir' = dir
           \/ MakeDir /\ create_target_dir /\ DirWritten("dir", ops, TRUE)
           \/ get_disk_lvm_metadata /\ \E ok \in BOOLEAN : DirWritten("lvm", ops, ok)
           \/ get_disk_info_config /\ \E ok \in BOOLEAN : DirWritten("info", ops, ok)
           \/ get_disk_partition_table /\ \E ok \in BOOLEAN : DirWritten("table", ops, ok)
           \/ get_disk_mbr /\ \E ok \in BOOLEAN : DirWritten("mbr", ops, ok)
           \/ gdbus_sysbak_ptf /\ \E ok \in BOOLEAN : DirWritten(Arg, Head(queue)[3], ok)
           \/ DaemonDies /\ \E ok \in BOOLEAN : DirWritten(Arg, Head(queue)[3], ok)
           \/ BackupCallLost /\ \E f \in {"lvm", "table", "mbr"}, ok \in BOOLEAN : DirWritten(f, ops, ok)
<1>1. ops \in 0 .. MaxOps
    BY DEF TypeOK
<1>2. OtherFiles \subseteq Files /\ {"dir", "lvm", "info", "table", "mbr"} \subseteq Files
    BY DEF Files, OtherFiles
<1>3. TRUE \in BOOLEAN /\ FALSE \in BOOLEAN
    BY Zenon
<1>4. ASSUME NEW f \in Files, NEW ok \in BOOLEAN, Write(f, ok)
      PROVE  DirWritten(f, ops, ok)
    BY <1>1, <1>4, Zenon DEF Write, DirWritten
<1>5. ASSUME NEW f \in Files, NEW ok \in BOOLEAN, Tool(f, ok)
      PROVE  dir' = dir \/ \E b \in BOOLEAN : DirWritten(f, ops, b)
    BY <1>3, <1>4, <1>5, Zenon DEF Tool
<1>6. CASE MakeDir
    BY <1>2, <1>3, <1>4, <1>6, Zenon DEF MakeDir
<1>7. CASE get_disk_lvm_metadata
    BY <1>2, <1>3, <1>5, <1>7, Zenon DEF get_disk_lvm_metadata, BackupStep, gdbus_backup_lvm_meta
<1>8. CASE get_disk_info_config
    BY <1>2, <1>3, <1>4, <1>8, Zenon DEF get_disk_info_config
<1>9. CASE get_disk_partition_table
    BY <1>2, <1>3, <1>5, <1>9, Zenon
       DEF get_disk_partition_table, BackupStep, gdbus_backup_partition_table
<1>10. CASE get_disk_mbr
    BY <1>2, <1>3, <1>5, <1>10, Zenon DEF get_disk_mbr, BackupStep, gdbus_backup_disk_mbr
<1>11. CASE gdbus_sysbak_ptf
    <2>1. /\ queue # <<>> /\ Head(queue)[1] = "ptf" /\ queue' = Tail(queue)
        BY <1>11 DEF gdbus_sysbak_ptf, Handle
    <2>2. Head(queue) \in Calls
        BY <2>1, CallTaken DEF TypeOK
    <2>3. Arg \in Names /\ Head(queue)[3] \in 1 .. MaxOps
        BY <2>1, <2>2, CallParts DEF Arg
    <2>4. Arg \in Files /\ Head(queue)[3] \in 0 .. MaxOps
        <3>1. Arg \in Files
            BY <2>3 DEF Files
        <3>2. Head(queue)[3] \in 0 .. MaxOps
            BY <2>3, Numbers
        <3>3. QED BY <3>1, <3>2
    <2>5. \/ dir' = dir
          \/ \E ok \in BOOLEAN : dir' = [dir EXCEPT ![Arg] = [run |-> Head(queue)[3], ok |-> ok]]
        BY <1>3, <1>11, Zenon DEF gdbus_sysbak_ptf
    <2>6. QED BY <1>11, <2>4, <2>5, Zenon DEF DirWritten
<1>12. CASE DaemonDies
    BY <1>3, <1>12, DeathEffect, Zenon
<1>13. CASE BackupCallLost
    BY <1>13, BackupLostWrites, Zenon
<1>14. QED BY <1>6, <1>7, <1>8, <1>9, <1>10, <1>11, <1>12, <1>13, DirSteps

LEMMA WrittenFacts ==
    ASSUME dir \in DirType, NEW f, NEW run, NEW ok, DirWritten(f, run, ok)
    PROVE  /\ dir' \in DirType
           /\ dir'[f] = [run |-> run, ok |-> ok] /\ dir'[f].run = run /\ (dir'[f].ok <=> ok)
           /\ \A g \in Files : g # f => dir'[g] = dir[g]
<1>1. [run |-> run, ok |-> ok] \in [run : 0..MaxOps, ok : BOOLEAN]
    BY Zenon DEF DirWritten
<1>2. dir' \in DirType
    BY <1>1, Zenon DEF DirWritten, DirType
<1>3. f \in DOMAIN dir /\ dir' = [dir EXCEPT ![f] = [run |-> run, ok |-> ok]]
    BY Zenon DEF DirWritten, DirType
<1>4. dir'[f] = [run |-> run, ok |-> ok]
    BY <1>3, Zenon
<1>5. \A g \in Files : g # f => dir'[g] = dir[g]
    BY <1>3, Zenon DEF DirType
<1>6. dir'[f].run = run /\ dir'[f].ok = ok
    <2>1. \A x : x = [run |-> run, ok |-> ok] => x.run = run /\ x.ok = ok
        OBVIOUS
    <2>2. QED BY <1>4, <2>1, Zenon
<1>7. QED BY <1>2, <1>4, <1>5, <1>6, Zenon

LEMMA DirTyped ==
    ASSUME TypeOK, Next
    PROVE  dir' \in DirType
<1>1. dir \in DirType
    BY DEF TypeOK, DirType
<1>2. QED BY <1>1, DirChanges, WrittenFacts, Zenon


(* How a step changes the disk.                                            *)
LEMMA DiskSteps ==
    ASSUME Next
    PROVE  \/ disk' = disk
           \/ restore_disk_mbr \/ restore_partition_table \/ restore_lvm_pv
           \/ gdbus_remove_all_vg \/ gdbus_restore_lvm_meta \/ gdbus_restart_vg
           \/ gdbus_sysbak_restore \/ DaemonDies \/ TableCallLost
BY DEF Next, sysbak_admin_disk_to_file, MakeDir, get_disk_lvm_metadata, BackupStep,
    get_disk_info_config, get_disk_partition_table, get_disk_mbr,
    sysbak_admin_disk_data, BackupGroup, BackupReturns, sysbak_admin_restore_disk,
    CheckRestore, CheckRestoreSpace, activation_lvm_pv, SkipFree,
    restore_disk_partition_data, RestoreReturns, gdbus_sysbak_ptf, ClientDies,
    BackupCallLost, PvCallLost

LEMMA MbrEffect ==
    ASSUME TypeOK, restore_disk_mbr
    PROVE  /\ disk' \in DiskType
           /\ disk'.table = disk.table /\ disk'.vg = disk.vg /\ disk'.data = disk.data
           /\ pc' = "r_table" => (dir["mbr"].ok => disk'.mbr = "backup")
BY DEF TypeOK, DiskType, restore_disk_mbr, RestoreRefused, Return

LEMMA TableEffect ==
    ASSUME TypeOK, restore_partition_table
    PROVE  /\ disk' \in DiskType
           /\ disk'.mbr = disk.mbr /\ disk'.vg = disk.vg /\ disk'.data = disk.data
           /\ pc' = "r_group" => disk'.table = "backup"
           /\ disk'.table = "backup" => disk.table = "backup" \/ dir["table"].ok
BY DEF TypeOK, DiskType, restore_partition_table, Return

LEMMA TableLostEffect ==
    ASSUME TypeOK, TableCallLost
    PROVE  /\ disk' \in DiskType
           /\ disk'.mbr = disk.mbr /\ disk'.vg = disk.vg /\ disk'.data = disk.data
           /\ disk'.table = "backup" => disk.table = "backup" \/ dir["table"].ok
BY DEF TypeOK, DiskType, TableCallLost, Return

LEMMA PvEffect ==
    ASSUME TypeOK, restore_lvm_pv
    PROVE  /\ disk' \in DiskType
           /\ disk'.mbr = disk.mbr /\ disk'.table = disk.table
           /\ disk'.vg = disk.vg /\ disk'.data = disk.data
BY ZenonT(60) DEF TypeOK, DiskType, restore_lvm_pv, gdbus_create_pv

(* The groups that are removed, and what becomes of the volumes of the     *)
(* disk's own group.                                                       *)
LEMMA RemoveEffect ==
    ASSUME TypeOK, gdbus_remove_all_vg
    PROVE  /\ disk' \in DiskType
           /\ disk'.mbr = disk.mbr /\ disk'.table = disk.table
           /\ \E gone \in SUBSET get_vg_pvs :
                 /\ DiskVg \in gone => \A n \in world.to : ~IsLv(n)
                 /\ \A v \in Vgs : disk'.vg[v] = IF v \in gone THEN "none" ELSE disk.vg[v]
           /\ \A n \in Names : disk'.data[n] \in {"old", disk.data[n]}
<1>1. PICK gone \in SUBSET get_vg_pvs, keepsLabel \in BOOLEAN :
          /\ DiskVg \in gone => \A n \in world.to : ~IsLv(n)
          /\ disk' = [disk EXCEPT
                 !.vg = [v \in Vgs |-> IF v \in gone THEN "none" ELSE @[v]],
                 !.pv = IF DiskVg \in gone /\ ~keepsLabel THEN "none" ELSE @,
                 !.data = [n \in Names |-> IF DiskVg \in gone /\ IsLv(n) THEN "old" ELSE @[n]]]
    BY ZenonT(60) DEF gdbus_remove_all_vg
<1> DEFINE vg == [v \in Vgs |-> IF v \in gone THEN "none" ELSE disk.vg[v]]
           pv == IF DiskVg \in gone /\ ~keepsLabel THEN "none" ELSE disk.pv
           data == [n \in Names |-> IF DiskVg \in gone /\ IsLv(n) THEN "old" ELSE disk.data[n]]
<1>2. /\ disk.vg \in [Vgs -> {"old", "none", "inactive", "new"}]
      /\ disk.data \in [Names -> {"old", "bad", "image"}]
      /\ disk.pv \in {"old", "none", "new"}
      /\ disk.mbr \in {"old", "bad", "backup"} /\ disk.table \in {"old", "bad", "backup"}
    BY DEF TypeOK
<1>3. disk' = [mbr |-> disk.mbr, table |-> disk.table, pv |-> pv, vg |-> vg, data |-> data]
    BY <1>1 DEF TypeOK
<1>4. vg \in [Vgs -> {"old", "none", "inactive", "new"}] /\ data \in [Names -> {"old", "bad", "image"}]
    BY <1>2
<1>5. pv \in {"old", "none", "new"}
    BY <1>2
<1>6. \A v \in Vgs : vg[v] = IF v \in gone THEN "none" ELSE disk.vg[v]
    OBVIOUS
<1>7. \A n \in Names : data[n] \in {"old", disk.data[n]}
    OBVIOUS
<1> HIDE DEF vg, pv, data
<1>8. disk'.vg = vg /\ disk'.data = data /\ disk'.mbr = disk.mbr /\ disk'.table = disk.table
    BY <1>3
<1>9. disk' \in DiskType
    BY <1>2, <1>3, <1>4, <1>5 DEF DiskType
<1>10. QED BY <1>1, <1>6, <1>7, <1>8, <1>9

LEMMA MetaEffect ==
    ASSUME TypeOK, gdbus_restore_lvm_meta
    PROVE  /\ Arg \in Vgs /\ disk' \in DiskType
           /\ disk'.mbr = disk.mbr /\ disk'.table = disk.table /\ disk'.data = disk.data
           /\ \/ disk' = disk /\ told' = TRUE
              \/ /\ disk'.vg[Arg] = IF disk.vg[Arg] \in {"none", "inactive"} THEN "inactive" ELSE "new"
                 /\ \A v \in Vgs : v # Arg => disk'.vg[v] = disk.vg[v]
<1>1. queue # <<>> /\ Head(queue)[1] = "vgcfgrestore" /\ queue' = Tail(queue)
    BY DEF gdbus_restore_lvm_meta, Handle
<1>2. Head(queue) \in Calls
    BY <1>1, CallTaken DEF TypeOK
<1>3. Arg \in Vgs
    BY <1>1, <1>2, CallParts DEF Arg
<1> DEFINE new == IF disk.vg[Arg] \in {"none", "inactive"} THEN "inactive" ELSE "new"
<1>4. CASE disk' = disk /\ told' = TRUE
    BY <1>3, <1>4 DEF TypeOK, DiskType
<1>5. CASE disk' = [disk EXCEPT !.vg[Arg] = new]
    <2>1. disk.vg \in [Vgs -> {"old", "none", "inactive", "new"}]
        BY DEF TypeOK
    <2>2. disk' = [disk EXCEPT !.vg = [disk.vg EXCEPT ![Arg] = new]]
        BY <1>5
    <2>3. [disk.vg EXCEPT ![Arg] = new] \in [Vgs -> {"old", "none", "inactive", "new"}]
        BY <2>1
    <2> HIDE DEF new
    <2>4. /\ disk' \in DiskType /\ disk'.vg = [disk.vg EXCEPT ![Arg] = new]
          /\ disk'.mbr = disk.mbr /\ disk'.table = disk.table /\ disk'.data = disk.data
        BY <2>2, <2>3 DEF TypeOK, DiskType
    <2>5. disk'.vg[Arg] = new /\ \A v \in Vgs : v # Arg => disk'.vg[v] = disk.vg[v]
        BY <1>3, <2>1, <2>4
    <2>6. QED BY <1>3, <2>4, <2>5 DEF new
<1>6. QED BY <1>4, <1>5 DEF gdbus_restore_lvm_meta

LEMMA RestartEffect ==
    ASSUME TypeOK, gdbus_restart_vg
    PROVE  /\ Arg \in Vgs /\ disk' \in DiskType
           /\ disk'.mbr = disk.mbr /\ disk'.table = disk.table /\ disk'.data = disk.data
           /\ \/ disk' = disk /\ told' = TRUE
              \/ /\ disk.vg[Arg] # "none"
                 /\ disk'.vg[Arg] = IF disk.vg[Arg] = "inactive" THEN "new" ELSE disk.vg[Arg]
                 /\ \A v \in Vgs : v # Arg => disk'.vg[v] = disk.vg[v]
<1>1. queue # <<>> /\ Head(queue)[1] = "restart" /\ queue' = Tail(queue)
    BY DEF gdbus_restart_vg, Handle
<1>2. Head(queue) \in Calls
    BY <1>1, CallTaken DEF TypeOK
<1>3. Arg \in Vgs
    BY <1>1, <1>2, CallParts DEF Arg
<1> DEFINE new == IF disk.vg[Arg] = "inactive" THEN "new" ELSE disk.vg[Arg]
<1>4. CASE disk' = disk /\ told' = TRUE
    BY <1>3, <1>4 DEF TypeOK, DiskType
<1>5. CASE disk.vg[Arg] # "none" /\ disk' = [disk EXCEPT !.vg[Arg] = new]
    <2>1. disk.vg \in [Vgs -> {"old", "none", "inactive", "new"}]
        BY DEF TypeOK
    <2>2. disk' = [disk EXCEPT !.vg = [disk.vg EXCEPT ![Arg] = new]]
        BY <1>5
    <2>3. [disk.vg EXCEPT ![Arg] = new] \in [Vgs -> {"old", "none", "inactive", "new"}]
        BY <1>3, <2>1
    <2> HIDE DEF new
    <2>4. /\ disk' \in DiskType /\ disk'.vg = [disk.vg EXCEPT ![Arg] = new]
          /\ disk'.mbr = disk.mbr /\ disk'.table = disk.table /\ disk'.data = disk.data
        BY <2>2, <2>3 DEF TypeOK, DiskType
    <2>5. disk'.vg[Arg] = new /\ \A v \in Vgs : v # Arg => disk'.vg[v] = disk.vg[v]
        BY <1>3, <2>1, <2>4
    <2>6. QED BY <1>3, <1>5, <2>4, <2>5 DEF new
<1>6. QED BY <1>4, <1>5 DEF gdbus_restart_vg

LEMMA RestoreEffect ==
    ASSUME TypeOK, gdbus_sysbak_restore
    PROVE  /\ Arg \in Names /\ Head(queue) \in Queued("restore") /\ disk' \in DiskType
           /\ disk'.mbr = disk.mbr /\ disk'.table = disk.table /\ disk'.vg = disk.vg
           /\ \/ disk' = disk /\ told' = TRUE
              \/ /\ DevExists(Entry(Arg))
                 /\ (disk'.data[Arg] = "image" /\ told' = told) \/ told' = TRUE
                 /\ \A n \in Names : n # Arg => disk'.data[n] = disk.data[n]
<1>1. queue # <<>> /\ Head(queue)[1] = "restore" /\ queue' = Tail(queue)
    BY DEF gdbus_sysbak_restore, Handle
<1>2. Head(queue) \in Calls /\ Head(queue) \in Queued("restore")
    BY <1>1, CallTaken DEF TypeOK
<1>3. Arg \in Names
    BY <1>1, <1>2, CallParts DEF Arg
<1>4. CASE disk' = disk /\ told' = TRUE
    BY <1>2, <1>3, <1>4 DEF TypeOK, DiskType
<1>5. ASSUME NEW new \in {"image", "bad"}, disk' = [disk EXCEPT !.data[Arg] = new]
      PROVE  /\ disk' \in DiskType /\ disk'.data[Arg] = new
             /\ disk'.mbr = disk.mbr /\ disk'.table = disk.table /\ disk'.vg = disk.vg
             /\ \A n \in Names : n # Arg => disk'.data[n] = disk.data[n]
    <2>1. disk.data \in [Names -> {"old", "bad", "image"}]
        BY DEF TypeOK
    <2>2. disk' = [disk EXCEPT !.data = [disk.data EXCEPT ![Arg] = new]]
        BY <1>5
    <2>3. [disk.data EXCEPT ![Arg] = new] \in [Names -> {"old", "bad", "image"}]
        BY <1>3, <2>1
    <2>4. /\ disk' \in DiskType /\ disk'.data = [disk.data EXCEPT ![Arg] = new]
          /\ disk'.mbr = disk.mbr /\ disk'.table = disk.table /\ disk'.vg = disk.vg
        BY <2>2, <2>3 DEF TypeOK, DiskType
    <2>5. QED BY <1>3, <2>1, <2>4
<1>6. CASE DevExists(Entry(Arg)) /\ disk' = [disk EXCEPT !.data[Arg] = "image"] /\ told' = told
    BY <1>2, <1>3, <1>5, <1>6, Zenon
<1>7. CASE DevExists(Entry(Arg)) /\ disk' = [disk EXCEPT !.data[Arg] = "bad"] /\ told' = TRUE
    BY <1>2, <1>3, <1>5, <1>7, Zenon
<1>8. QED BY <1>4, <1>6, <1>7 DEF gdbus_sysbak_restore

LEMMA DiskTyped ==
    ASSUME TypeOK, Next
    PROVE  disk' \in DiskType
<1>1. disk \in DiskType
    BY DEF TypeOK, DiskType
<1>2. QED BY <1>1, DiskSteps, MbrEffect, TableEffect, PvEffect, RemoveEffect, MetaEffect,
             RestartEffect, RestoreEffect, DeathEffect, TableLostEffect


(* The group at the head of those that are left.                           *)
LEMMA NextGroup ==
    ASSUME TypeOK, pc \in {"b_group", "r_group"}, groups # <<>>, groups' = Tail(groups)
    PROVE  /\ groups' \in Seq(Groups) /\ Head(groups) \in Groups
           /\ Left = Left' \cup {Head(groups)}
<1>1. groups \in Seq(Groups)
    BY DEF TypeOK
<1>2. /\ Tail(groups) \in Seq(Groups) /\ Head(groups) \in Groups
      /\ Elements(groups) = Elements(Tail(groups)) \cup {Head(groups)}
    BY <1>1, TailElements
<1>3. QED BY <1>2 DEF Left, Elements

(* A group with data, other than the mark, is an entry of the listing.     *)
LEMMA DataGroup ==
    ASSUME world \in Worlds, NEW g \in Groups
    PROVE  /\ g.name = "end" <=> g = EndGroup
           /\ g # EndGroup /\ HasData(g) => \E i \in DOMAIN Entries : g = Entries[i]
<1>1. g \in {DiskGroup, EndGroup} \/ \E i \in DOMAIN Entries : g = Entries[i]
    BY GroupFacts
<1>2. ~HasData(DiskGroup) /\ DiskGroup.name # "end" /\ EndGroup.name = "end"
    BY DEF HasData, DiskGroup, EndGroup
<1>3. \A i \in DOMAIN Entries : Entries[i].name # "end"
    BY EntryFacts, SMTT(60)
<1>4. QED BY <1>1, <1>2, <1>3

LEMMA QueueSteps ==
    ASSUME Next
    PROVE  \/ queue' = queue
           \/ queue # <<>> /\ queue' = Tail(queue)
           \/ queue' = <<>>
           \/ BackupGroup \/ CheckRestore \/ activation_lvm_pv \/ restore_disk_partition_data
BY DEF Next, sysbak_admin_disk_to_file, MakeDir, get_disk_lvm_metadata, BackupStep,
    get_disk_info_config, get_disk_partition_table, get_disk_mbr,
    sysbak_admin_disk_data, BackupReturns, sysbak_admin_restore_disk,
    CheckRestoreSpace, restore_disk_mbr, restore_partition_table,
    restore_lvm_pv, SkipFree, RestoreReturns, gdbus_sysbak_ptf, gdbus_remove_all_vg,
    gdbus_restore_lvm_meta, gdbus_restart_vg, gdbus_sysbak_restore, ClientDies, Handle,
    DaemonDies, BackupCallLost, TableCallLost, PvCallLost

LEMMA BackupGroupEffect ==
    ASSUME TypeOK, BackupGroup
    PROVE  /\ queue' \in Seq(Calls)
           /\ \A m : m # "ptf" => Queued(m)' = Queued(m)
           /\ \A c \in Queued("ptf")' : c \in Queued("ptf") \/ c[3] = ops
<1>1. /\ pc = "b_group" /\ groups # <<>> /\ groups' = Tail(groups)
      /\ queue' = IF Head(groups).fs \in array_data /\ Head(groups).name \notin world.from
                  THEN Append(queue, <<"ptf", Head(groups).name, ops>>) ELSE queue
    BY DEF BackupGroup
<1>2. queue \in Seq(Calls) /\ world \in Worlds
    BY DEF TypeOK
<1>3. CASE queue' = queue
    BY <1>2, <1>3 DEF Queued
<1>4. CASE /\ Head(groups).fs \in array_data
           /\ queue' = Append(queue, <<"ptf", Head(groups).name, ops>>)
    <2>1. Head(groups) \in Groups
        BY <1>1, NextGroup
    <2>2. HasData(Head(groups)) /\ Head(groups) # EndGroup
        BY <1>4 DEF array_data, HasData, EndGroup
    <2>3. PICK i \in DOMAIN Entries : Head(groups) = Entries[i]
        BY <1>2, <2>1, <2>2, DataGroup
    <2>4. Head(groups).name \in Names
        BY <1>2, <2>3, EntryFacts
    <2>5. ops \in 1 .. MaxOps
        BY <1>1, Numbers DEF TypeOK
    <2> DEFINE c == <<"ptf", Head(groups).name, ops>>
    <2>6. c \in Calls /\ c[1] = "ptf" /\ c[3] = ops
        BY <2>4, <2>5 DEF Calls
    <2> HIDE DEF c
    <2>7. queue' = Append(queue, c)
        BY <1>4 DEF c
    <2>8. /\ queue' \in Seq(Calls)
          /\ \A m : Queued(m)' = Queued(m) \cup (IF c[1] = m THEN {c} ELSE {})
        BY <1>2, <2>6, <2>7, CallAdded
    <2>9. QED BY <2>6, <2>8
<1>5. QED BY <1>1, <1>3, <1>4

LEMMA CheckRestoreEffect ==
    ASSUME TypeOK, CheckRestore
    PROVE  /\ queue' \in Seq(Calls)
           /\ \A m : m # "remove" => Queued(m)' = Queued(m)
<1>1. queue \in Seq(Calls)
    BY DEF TypeOK
<1>2. CASE queue' = queue
    BY <1>1, <1>2 DEF Queued
<1>3. CASE queue' = Append(queue, <<"remove", DiskVg, ops>>)
    <2>1. ops \in 1 .. MaxOps
        BY Numbers DEF TypeOK, CheckRestore
    <2> DEFINE c == <<"remove", DiskVg, ops>>
    <2>2. c \in Calls /\ c[1] = "remove"
        BY <2>1 DEF Calls, Vgs
    <2> HIDE DEF c
    <2>3. queue' = Append(queue, c)
        BY <1>3 DEF c
    <2>4. /\ queue' \in Seq(Calls)
          /\ \A m : Queued(m)' = Queued(m) \cup (IF c[1] = m THEN {c} ELSE {})
        BY <1>1, <2>2, <2>3, CallAdded
    <2>5. QED BY <2>2, <2>4
<1>4. QED BY <1>2, <1>3 DEF CheckRestore

(* The two calls for each group; those of the disk's group are in order.   *)
LEMMA ActivationEffect ==
    ASSUME TypeOK, activation_lvm_pv
    PROVE  /\ queue' \in Seq(Calls)
           /\ \A m : m \notin {"vgcfgrestore", "restart"} => Queued(m)' = Queued(m)
           /\ Len(queue) =< Len(queue') /\ \A i \in 1 .. Len(queue) : queue'[i] = queue[i]
           /\ \A i \in Len(queue) + 1 .. Len(queue') : queue'[i][3] = ops
           /\ dir["lvm"] # NoFile =>
                 \E j \in 1 .. Len(queue') : \E i \in 1 .. j - 1 :
                    /\ queue'[j][1] = "restart" /\ queue'[j][2] = DiskVg
                    /\ queue'[i][1] = "vgcfgrestore" /\ queue'[i][2] = DiskVg
<1>1. queue \in Seq(Calls) /\ Len(queue) \in Nat
    BY LenProperties DEF TypeOK
<1>2. CASE queue' = queue /\ dir["lvm"] = NoFile
    <2>1. \A i \in Len(queue) + 1 .. Len(queue') : FALSE
        BY <1>1, <1>2
    <2>2. QED BY <1>1, <1>2, <2>1 DEF Queued
<1>3. CASE \E first, second \in Vgs :
                /\ first # second
                /\ queue' = queue \o <<<<"vgcfgrestore", first, ops>>, <<"restart", first, ops>>,
                                       <<"vgcfgrestore", second, ops>>, <<"restart", second, ops>>>>
    <2>1. PICK first \in Vgs, second \in Vgs :
                /\ first # second
                /\ queue' = queue \o <<<<"vgcfgrestore", first, ops>>, <<"restart", first, ops>>,
                                       <<"vgcfgrestore", second, ops>>, <<"restart", second, ops>>>>
        BY <1>3
    <2>2. ops \in 1 .. MaxOps
        BY Numbers DEF TypeOK, activation_lvm_pv, Group
    <2> DEFINE a == <<"vgcfgrestore", first, ops>>
               b == <<"restart", first, ops>>
               c == <<"vgcfgrestore", second, ops>>
               d == <<"restart", second, ops>>
               t == <<a, b, c, d>>
    <2>3. /\ a \in Calls /\ a[1] = "vgcfgrestore" /\ a[2] = first
          /\ b \in Calls /\ b[1] = "restart" /\ b[2] = first
          /\ c \in Calls /\ c[1] = "vgcfgrestore" /\ c[2] = second
          /\ d \in Calls /\ d[1] = "restart" /\ d[2] = second
          /\ a[3] = ops /\ b[3] = ops /\ c[3] = ops /\ d[3] = ops
        BY <2>2 DEF Calls
    <2>4. queue' = queue \o t
        BY <2>1
    <2> HIDE DEF a, b, c, d
    <2>5. t \in Seq(Calls) /\ Len(t) = 4 /\ t[1] = a /\ t[2] = b /\ t[3] = c /\ t[4] = d
        BY <2>3
    <2>6. Elements(t) = {a, b, c, d}
        BY DEF Elements
    <2> HIDE DEF t
    <2>7. queue' \in Seq(Calls) /\ Elements(queue') = Elements(queue) \cup {a, b, c, d}
        BY <1>1, <2>4, <2>5, <2>6, ConcatElements
    <2>8. \A m : m \notin {"vgcfgrestore", "restart"} => Queued(m)' = Queued(m)
        <3>1. \A m : Queued(m)' = {x \in Elements(queue') : x[1] = m}
            BY DEF Queued, Elements
        <3>2. \A m : Queued(m) = {x \in Elements(queue) : x[1] = m}
            BY DEF Queued, Elements
        <3>3. QED BY <2>3, <2>7, <3>1, <3>2
    <2>9. /\ Len(queue') = Len(queue) + 4
          /\ \A i \in 1 .. Len(queue) + 4 :
                queue'[i] = IF i =< Len(queue) THEN queue[i] ELSE t[i - Len(queue)]
        <3> DEFINE q == queue \o t
        <3>1. /\ Len(q) = Len(queue) + Len(t)
              /\ \A i \in 1 .. Len(queue) + Len(t) :
                    q[i] = IF i =< Len(queue) THEN queue[i] ELSE t[i - Len(queue)]
            BY <1>1, <2>5, ConcatProperties
        <3>2. queue' = q
            BY <2>4
        <3> HIDE DEF q
        <3>3. QED BY <2>5, <3>1, <3>2
    <2>10. \A i \in 1 .. Len(queue) : queue'[i] = queue[i]
        BY <1>1, <2>9
    <2>11. /\ queue'[Len(queue) + 1] = a /\ queue'[Len(queue) + 2] = b
           /\ queue'[Len(queue) + 3] = c /\ queue'[Len(queue) + 4] = d
        <3>1. \A k \in 1 .. 4 : queue'[Len(queue) + k] = t[k]
            <4>1. TAKE k \in 1 .. 4
            <4>2. /\ Len(queue) + k \in 1 .. Len(queue) + 4 /\ ~(Len(queue) + k =< Len(queue))
                  /\ (Len(queue) + k) - Len(queue) = k
                BY <1>1
            <4>3. QED BY <2>9, <4>2
        <3>2. QED BY <2>5, <3>1
    <2>12. first = DiskVg \/ second = DiskVg
        BY <2>1 DEF Vgs
    <2>13. /\ Len(queue) + 2 \in 1 .. Len(queue') /\ Len(queue) + 1 \in 1 .. (Len(queue) + 2) - 1
           /\ Len(queue) + 4 \in 1 .. Len(queue') /\ Len(queue) + 3 \in 1 .. (Len(queue) + 4) - 1
           /\ Len(queue) =< Len(queue')
        BY <1>1, <2>9
    <2> DEFINE J(j, i) == /\ j \in 1 .. Len(queue') /\ i \in 1 .. j - 1
                          /\ queue'[j][1] = "restart" /\ queue'[j][2] = DiskVg
                          /\ queue'[i][1] = "vgcfgrestore" /\ queue'[i][2] = DiskVg
    <2>14. J(Len(queue) + 2, Len(queue) + 1) \/ J(Len(queue) + 4, Len(queue) + 3)
        BY <2>3, <2>11, <2>12, <2>13
    <2>15. \E j \in 1 .. Len(queue') : \E i \in 1 .. j - 1 :
              /\ queue'[j][1] = "restart" /\ queue'[j][2] = DiskVg
              /\ queue'[i][1] = "vgcfgrestore" /\ queue'[i][2] = DiskVg
        BY <2>14, Zenon
    <2>16. \A i \in Len(queue) + 1 .. Len(queue') : queue'[i][3] = ops
        <3>1. \A i \in Len(queue) + 1 .. Len(queue') :
                 i \in {Len(queue) + 1, Len(queue) + 2, Len(queue) + 3, Len(queue) + 4}
            BY <1>1, <2>9
        <3>2. QED BY <2>3, <2>11, <3>1
    <2>17. QED BY <2>7, <2>8, <2>10, <2>13, <2>15, <2>16
<1>4. QED BY <1>2, <1>3 DEF activation_lvm_pv


LEMMA DataEffect ==
    ASSUME TypeOK, restore_disk_partition_data
    PROVE  /\ queue' \in Seq(Calls)
           /\ \A m : m # "restore" => Queued(m)' = Queued(m)
           /\ Len(queue) =< Len(queue') /\ \A i \in 1 .. Len(queue) : queue'[i] = queue[i]
           /\ \A i \in Len(queue) + 1 .. Len(queue') : queue'[i][3] = ops
           /\ \/ ~RestoreAccepted(Head(groups)) /\ queue' = queue /\ told' = TRUE
              \/ /\ RestoreAccepted(Head(groups))
                 /\ <<"restore", Head(groups).name, ops>> \in Queued("restore")'
           /\ \A c \in Queued("restore")' :
                 \/ c \in Queued("restore")
                 \/ RestoreAccepted(Head(groups)) /\ c[2] = Head(groups).name
           /\ \E i \in DOMAIN Entries : Head(groups) = Entries[i]
<1>1. /\ pc = "r_group" /\ groups # <<>> /\ groups' = Tail(groups)
      /\ Head(groups).name # "end" /\ HasData(Head(groups))
      /\ IF RestoreAccepted(Head(groups))
         THEN queue' = Append(queue, <<"restore", Head(groups).name, ops>>) /\ told' = told
         ELSE queue' = queue /\ told' = TRUE
    BY DEF restore_disk_partition_data, Group, HasData
<1>2. queue \in Seq(Calls) /\ world \in Worlds /\ Len(queue) \in Nat
    BY LenProperties DEF TypeOK
<1>3. PICK e \in DOMAIN Entries : Head(groups) = Entries[e]
    <2>1. Head(groups) \in Groups
        BY <1>1, NextGroup
    <2>2. QED BY <1>1, <1>2, <2>1, DataGroup
<1>4. CASE ~RestoreAccepted(Head(groups))
    <2>1. queue' = queue /\ told' = TRUE
        BY <1>1, <1>4
    <2>2. \A m : Queued(m)' = Queued(m)
        BY <2>1 DEF Queued
    <2>3. Len(queue) =< Len(queue') /\ \A i \in 1 .. Len(queue) : queue'[i] = queue[i]
        BY <1>2, <2>1
    <2>4. \A i \in Len(queue) + 1 .. Len(queue') : FALSE
        BY <1>2, <2>1
    <2>5. QED BY <1>2, <1>3, <1>4, <2>1, <2>2, <2>3, <2>4
<1>5. CASE RestoreAccepted(Head(groups))
    <2>1. Head(groups).name \in Names
        BY <1>2, <1>3, EntryFacts
    <2>2. ops \in 1 .. MaxOps
        BY <1>1, Numbers DEF TypeOK
    <2> DEFINE c == <<"restore", Head(groups).name, ops>>
    <2>3. c \in Calls /\ c[1] = "restore" /\ c[2] = Head(groups).name /\ c[3] = ops
        BY <2>1, <2>2 DEF Calls
    <2>4. queue' = Append(queue, c)
        BY <1>1, <1>5
    <2> HIDE DEF c
    <2>5. /\ queue' \in Seq(Calls)
          /\ \A m : Queued(m)' = Queued(m) \cup (IF c[1] = m THEN {c} ELSE {})
        BY <1>2, <2>3, <2>4, CallAdded
    <2>6. Queued("restore")' = Queued("restore") \cup {c} /\ \A m : m # "restore" => Queued(m)' = Queued(m)
        BY <2>3, <2>5
    <2>7. /\ Len(queue) =< Len(queue') /\ \A i \in 1 .. Len(queue) : queue'[i] = queue[i]
          /\ \A i \in Len(queue) + 1 .. Len(queue') : queue'[i][3] = ops
        <3>1. /\ Len(Append(queue, c)) = Len(queue) + 1
              /\ \A i \in 1 .. Len(queue) : Append(queue, c)[i] = queue[i]
              /\ Append(queue, c)[Len(queue) + 1] = c
            BY <1>2, <2>3, AppendProperties
        <3>2. Len(queue') = Len(queue) + 1 /\ queue'[Len(queue) + 1][3] = ops
            BY <2>3, <2>4, <3>1
        <3>3. \A i \in Len(queue) + 1 .. Len(queue') : i = Len(queue) + 1
            BY <1>2, <3>2
        <3>4. QED BY <1>2, <2>4, <3>1, <3>2, <3>3
    <2>8. <<"restore", Head(groups).name, ops>> \in Queued("restore")'
        BY <2>6 DEF c
    <2>9. \A x \in Queued("restore")' :
                 \/ x \in Queued("restore")
                 \/ RestoreAccepted(Head(groups)) /\ x[2] = Head(groups).name
        BY <1>5, <2>3, <2>6
    <2>10. QED BY <1>3, <1>5, <2>5, <2>6, <2>7, <2>8, <2>9
<1>6. QED BY <1>4, <1>5

LEMMA QueueTyped ==
    ASSUME TypeOK, Next
    PROVE  queue' \in Seq(Calls)
<1>1. queue \in Seq(Calls)
    BY DEF TypeOK
<1>2. CASE queue # <<>> /\ queue' = Tail(queue)
    BY <1>1, <1>2, CallTaken
<1>3. <<>> \in Seq(Calls)
    OBVIOUS
<1>4. QED BY <1>1, <1>2, <1>3, QueueSteps, BackupGroupEffect, CheckRestoreEffect,
             ActivationEffect, DataEffect

(* Only a backup queues backups, only a restore queues restores.           *)
LEMMA QueuedAfter ==
    ASSUME TypeOK, Next
    PROVE  /\ BackupGroup \/ Queued("ptf")' \subseteq Queued("ptf")
           /\ restore_disk_partition_data \/ Queued("restore")' \subseteq Queued("restore")
           /\ CheckRestore \/ Queued("remove")' \subseteq Queued("remove")
<1>1. queue \in Seq(Calls)
    BY DEF TypeOK
<1>2. CASE queue # <<>> /\ queue' = Tail(queue)
    <2>1. \A m : Queued(m)' \subseteq Queued(m)
        BY <1>1, <1>2, CallTaken
    <2>2. QED BY <2>1
<1>3. CASE queue' = queue
    BY <1>3 DEF Queued
<1>4. CASE BackupGroup
    BY <1>4, BackupGroupEffect
<1>5. CASE CheckRestore
    BY <1>5, CheckRestoreEffect
<1>6. CASE activation_lvm_pv
    BY <1>6, ActivationEffect
<1>7. CASE restore_disk_partition_data
    BY <1>7, DataEffect
<1>8. CASE queue' = <<>>
    BY <1>8 DEF Queued
<1>9. QED BY <1>2, <1>3, <1>4, <1>5, <1>6, <1>7, <1>8, QueueSteps

LEMMA ScalarsTyped ==
    ASSUME TypeOK, Next
    PROVE  pc' \in Steps /\ ops' \in 0 .. MaxOps /\ ret' \in {"none", "true", "false"}
           /\ (pc' # "idle" => ops' > 0)
<1>1. pc \in Steps /\ ops \in 0 .. MaxOps /\ ret \in {"none", "true", "false"} /\ (pc # "idle" => ops > 0)
    BY DEF TypeOK
<1>2. CASE sysbak_admin_disk_to_file \/ sysbak_admin_restore_disk
    BY <1>1, <1>2, Numbers DEF sysbak_admin_disk_to_file, sysbak_admin_restore_disk, Begin, Steps
<1>3. CASE MakeDir \/ get_disk_lvm_metadata \/ get_disk_info_config
               \/ get_disk_partition_table \/ get_disk_mbr
               \/ sysbak_admin_disk_data \/ BackupGroup \/ BackupReturns
    <2>1. pc # "idle" /\ ops' = ops /\ pc' \in Steps /\ ret' \in {"none", "true", "false"}
        BY <1>1, <1>3 DEF MakeDir, get_disk_lvm_metadata, BackupStep, Sync, get_disk_info_config,
            get_disk_partition_table, get_disk_mbr, sysbak_admin_disk_data, BackupGroup,
            BackupReturns, Return, Steps
    <2>2. QED BY <1>1, <2>1
<1>4. CASE CheckRestore \/ CheckRestoreSpace \/ restore_disk_mbr \/ restore_partition_table
               \/ restore_lvm_pv \/ activation_lvm_pv \/ SkipFree
               \/ restore_disk_partition_data \/ RestoreReturns \/ ClientDies
    <2>1. pc # "idle" /\ ops' = ops /\ pc' \in Steps /\ ret' \in {"none", "true", "false"}
        BY <1>1, <1>4 DEF CheckRestore, CheckRestoreSpace, Sync, RestoreRefused, Return,
            restore_disk_mbr, restore_partition_table, restore_lvm_pv, activation_lvm_pv, SkipFree,
            restore_disk_partition_data, Group, RestoreReturns, ClientDies, Steps
    <2>2. QED BY <1>1, <2>1
<1>5. CASE gdbus_sysbak_ptf \/ gdbus_remove_all_vg \/ gdbus_restore_lvm_meta
               \/ gdbus_restart_vg \/ gdbus_sysbak_restore \/ DaemonDies
    <2>1. pc' = pc /\ ops' = ops /\ ret' = ret
        BY <1>5 DEF gdbus_sysbak_ptf, gdbus_remove_all_vg, gdbus_restore_lvm_meta,
            gdbus_restart_vg, gdbus_sysbak_restore, DaemonDies
    <2>2. QED BY <1>1, <2>1, SMTT(60)
<1>6. CASE BackupCallLost \/ TableCallLost \/ PvCallLost
    <2>1. pc # "idle" /\ ops' = ops /\ pc' \in Steps /\ ret' \in {"none", "true", "false"}
        BY <1>1, <1>6 DEF BackupCallLost, TableCallLost, PvCallLost, Sync, Group, Return, Steps
    <2>2. QED BY <1>1, <2>1
<1>7. QED BY <1>2, <1>3, <1>4, <1>5, <1>6 DEF Next

LEMMA ToldTyped ==
    ASSUME TypeOK, Next
    PROVE  told' \in BOOLEAN
<1>1. told \in BOOLEAN
    BY DEF TypeOK
<1>2. CASE sysbak_admin_disk_to_file \/ sysbak_admin_restore_disk
    BY <1>2, Zenon DEF sysbak_admin_disk_to_file, sysbak_admin_restore_disk, Begin
<1>3. CASE MakeDir \/ get_disk_info_config \/ sysbak_admin_disk_data \/ BackupReturns
               \/ activation_lvm_pv \/ SkipFree \/ RestoreReturns \/ ClientDies
               \/ gdbus_remove_all_vg \/ BackupCallLost \/ TableCallLost \/ PvCallLost
    <2>1. told' = told
        BY <1>3 DEF MakeDir, get_disk_info_config, sysbak_admin_disk_data, BackupReturns,
            activation_lvm_pv, SkipFree, RestoreReturns, ClientDies, gdbus_remove_all_vg,
            BackupCallLost, TableCallLost, PvCallLost
    <2>2. QED BY <1>1, <2>1
<1>4. CASE get_disk_lvm_metadata \/ get_disk_partition_table \/ get_disk_mbr \/ BackupGroup
               \/ CheckRestore \/ restore_disk_mbr
               \/ restore_lvm_pv \/ restore_disk_partition_data \/ gdbus_sysbak_ptf
               \/ gdbus_restore_lvm_meta \/ gdbus_restart_vg \/ gdbus_sysbak_restore
    <2>1. told' = told \/ told' = TRUE
        BY <1>4, Zenon DEF get_disk_lvm_metadata, get_disk_partition_table, get_disk_mbr, BackupStep,
            gdbus_backup_lvm_meta, gdbus_backup_partition_table, gdbus_backup_disk_mbr, Tool,
            BackupGroup, CheckRestore, restore_disk_mbr, RestoreRefused,
            restore_lvm_pv, gdbus_create_pv, restore_disk_partition_data, gdbus_sysbak_ptf,
            gdbus_restore_lvm_meta, gdbus_restart_vg, gdbus_sysbak_restore
    <2>2. QED BY <1>1, <2>1, Zenon
<1>5. CASE CheckRestoreSpace
    <2>1. told' = TRUE \/ \E a, b : told' = (told \/ a \/ b)
        BY <1>5, Zenon DEF CheckRestoreSpace, RestoreRefused
    <2>2. \A a, b : (told \/ a \/ b) \in BOOLEAN
        BY Zenon
    <2>3. QED BY <2>1, <2>2, Zenon
<1>6. CASE restore_partition_table
    <2>1. told' = told \/ told' = (told \/ dir["table"] # NoFile)
        BY <1>6, Zenon DEF restore_partition_table
    <2>2. (told \/ dir["table"] # NoFile) \in BOOLEAN
        BY Zenon
    <2>3. QED BY <1>1, <2>1, <2>2, Zenon
<1>7. CASE DaemonDies
    <2>1. told' = told \/ told' = (told \/ Queued("ptf") # {})
        BY <1>7, Zenon DEF DaemonDies
    <2>2. (told \/ Queued("ptf") # {}) \in BOOLEAN
        BY Zenon
    <2>3. QED BY <1>1, <2>1, <2>2, Zenon
<1>8. QED BY <1>2, <1>3, <1>4, <1>5, <1>6, <1>7 DEF Next

LostOK == lost \subseteq ({"restore"} \X Names) \cup {RestartCall, SizeCall}

LEMMA LostTyped ==
    ASSUME TypeOK, Next
    PROVE  LostOK'
<1>1. LostOK
    BY DEF TypeOK, LostOK
<1>2. CASE lost' = lost \/ lost' = {} \/ lost' = lost \cup {SizeCall}
    BY <1>1, <1>2 DEF LostOK, RestartCall, SizeCall
<1>3. CASE DaemonDies
    <2>1. Silent \subseteq ({"restore"} \X Names) \cup {RestartCall}
        <3>1. {<<"restore", n>> : n \in {m \in Names : <<"restore", m, ops>> \in Queued("restore")}}
                 \subseteq {"restore"} \X Names
            <4> DEFINE T == {m \in Names : <<"restore", m, ops>> \in Queued("restore")}
            <4>1. \A n \in T : n \in Names
                OBVIOUS
            <4> HIDE DEF T
            <4>2. \A n \in T : <<"restore", n>> \in {"restore"} \X Names
                BY <4>1
            <4>3. {<<"restore", n>> : n \in T} \subseteq {"restore"} \X Names
                BY <4>2
            <4>4. QED BY <4>3 DEF T
        <3>2. QED BY <3>1, Zenon DEF Silent
    <2>2. lost' = {} \/ lost' = lost \cup Silent
        BY <1>3, DeathEffect
    <2>3. QED BY <1>1, <2>1, <2>2 DEF LostOK, RestartCall, SizeCall
<1>4. CASE CheckRestoreSpace
    <2>1. \E b \in {{}, {SizeCall}} : lost' = lost \cup b
        BY <1>4 DEF CheckRestoreSpace
    <2>2. QED BY <1>2, <2>1
<1>5. CASE sysbak_admin_disk_to_file \/ sysbak_admin_restore_disk \/ ClientDies
    BY <1>2, <1>5 DEF sysbak_admin_disk_to_file, sysbak_admin_restore_disk, Begin, ClientDies
<1>6. CASE ~(sysbak_admin_disk_to_file \/ sysbak_admin_restore_disk \/ ClientDies
             \/ DaemonDies \/ CheckRestoreSpace)
    <2>1. lost' = lost
        BY <1>6, ZenonT(60) DEF Next, MakeDir, get_disk_lvm_metadata, BackupStep,
            get_disk_info_config, get_disk_partition_table, get_disk_mbr,
            sysbak_admin_disk_data, BackupGroup, BackupReturns,
            CheckRestore, restore_disk_mbr, restore_partition_table,
            restore_lvm_pv, activation_lvm_pv, SkipFree, restore_disk_partition_data,
            RestoreReturns, gdbus_sysbak_ptf, gdbus_remove_all_vg, gdbus_restore_lvm_meta,
            gdbus_restart_vg, gdbus_sysbak_restore, BackupCallLost, TableCallLost, PvCallLost
    <2>2. QED BY <1>2, <2>1
<1>7. QED BY <1>3, <1>4, <1>5, <1>6


GroupsOK == IF pc \in {"b_group", "r_group"} THEN groups \in Seq(Groups) ELSE groups = <<>>

LEMMA GroupsTyped ==
    ASSUME TypeOK, Next
    PROVE  GroupsOK'
<1>1. GroupsOK /\ world \in Worlds
    BY DEF TypeOK, GroupsOK
<1>2. Groups' = Groups
    BY WorldStays, SameWorld
<1>3. json_parse_array \in Seq(Groups)
    BY <1>1, GroupFacts
<1>4. CASE sysbak_admin_disk_data
    BY <1>2, <1>3, <1>4 DEF sysbak_admin_disk_data, GroupsOK
<1>5. CASE restore_partition_table
    BY <1>1, <1>2, <1>3, <1>5 DEF restore_partition_table, Sync, Return, GroupsOK
<1>6. CASE BackupGroup \/ restore_lvm_pv \/ activation_lvm_pv \/ SkipFree
               \/ restore_disk_partition_data \/ PvCallLost
    <2>1. pc \in {"b_group", "r_group"} /\ groups # <<>> /\ groups' = Tail(groups) /\ pc' = pc
        BY <1>6 DEF BackupGroup, restore_lvm_pv, activation_lvm_pv, SkipFree,
            restore_disk_partition_data, PvCallLost, Group
    <2>2. groups' \in Seq(Groups)
        BY <2>1, NextGroup
    <2>3. QED BY <1>2, <2>1, <2>2 DEF GroupsOK
<1>7. CASE BackupReturns \/ RestoreReturns \/ ClientDies
    BY <1>7 DEF BackupReturns, RestoreReturns, ClientDies, Return, GroupsOK
<1>8. CASE gdbus_sysbak_ptf \/ gdbus_remove_all_vg \/ gdbus_restore_lvm_meta
               \/ gdbus_restart_vg \/ gdbus_sysbak_restore \/ DaemonDies
    <2>1. pc' = pc /\ groups' = groups
        BY <1>8 DEF gdbus_sysbak_ptf, gdbus_remove_all_vg, gdbus_restore_lvm_meta,
            gdbus_restart_vg, gdbus_sysbak_restore, DaemonDies
    <2>2. QED BY <1>1, <1>2, <2>1, SMTT(60) DEF GroupsOK
<1>9. CASE sysbak_admin_disk_to_file \/ MakeDir \/ get_disk_lvm_metadata
               \/ get_disk_info_config \/ get_disk_partition_table \/ get_disk_mbr
               \/ sysbak_admin_restore_disk \/ CheckRestore \/ CheckRestoreSpace \/ restore_disk_mbr
    <2>1. /\ groups' = groups /\ pc \notin {"b_group", "r_group"} /\ pc' \notin {"b_group", "r_group"}
        BY <1>9 DEF sysbak_admin_disk_to_file, MakeDir, get_disk_lvm_metadata, BackupStep,
            get_disk_info_config, get_disk_partition_table, get_disk_mbr,
            sysbak_admin_restore_disk, CheckRestore, CheckRestoreSpace, restore_disk_mbr,
            RestoreRefused, Begin, Return, Sync
    <2>2. QED BY <1>1, <2>1 DEF GroupsOK
<1>10. CASE BackupCallLost \/ TableCallLost
    <2>1. pc \in {"b_lvm", "b_table", "b_mbr", "r_table"} /\ pc' = "idle" /\ groups' = groups
        BY <1>10 DEF BackupCallLost, TableCallLost, Return, Sync
    <2>2. QED BY <1>1, <2>1 DEF GroupsOK
<1>11. QED BY <1>4, <1>5, <1>6, <1>7, <1>8, <1>9, <1>10 DEF Next

LEMMA TypeStep ==
    ASSUME TypeOK, [Next]_vars
    PROVE  TypeOK'
<1>1. CASE UNCHANGED vars
    <2>1. world' = world
        BY WorldStays
    <2>2. Groups' = Groups
        BY <2>1, SameWorld
    <2>3. QED BY <1>1, <2>2 DEF TypeOK, vars
<1>2. CASE Next
    <2>1. dir' \in DirType /\ disk' \in DiskType /\ queue' \in Seq(Calls)
        BY <1>2, DirTyped, DiskTyped, QueueTyped
    <2>2. GroupsOK' /\ told' \in BOOLEAN /\ LostOK'
        BY <1>2, GroupsTyped, ToldTyped, LostTyped
    <2>3. /\ pc' \in Steps /\ ops' \in 0 .. MaxOps /\ ret' \in {"none", "true", "false"}
          /\ pc' # "idle" => ops' > 0
        BY <1>2, ScalarsTyped
    <2>4. world' \in Worlds
        BY WorldStays, SMTT(60) DEF TypeOK
    <2>5. QED BY <2>1, <2>2, <2>3, <2>4 DEF TypeOK, DirType, DiskType, GroupsOK, LostOK
<1>3. QED BY <1>1, <1>2
-----------------------------------------------------------------------------
(* The files of the directory.                                             *)

BackupSteps == {"b_lvm", "b_info", "b_table", "b_mbr", "b_data", "b_group"}

(* A step stays in a backup that made its directory, starts one, or is     *)
(* none of it.                                                             *)
LEMMA PcInBackup ==
    ASSUME Next, pc' \in BackupSteps
    PROVE  ops' = ops /\ (pc \in BackupSteps \/ (MakeDir /\ create_target_dir /\ Write("dir", TRUE) /\ pc' = "b_lvm"))
BY DEF Next, sysbak_admin_disk_to_file, MakeDir, get_disk_lvm_metadata, BackupStep,
    get_disk_info_config, get_disk_partition_table, get_disk_mbr,
    sysbak_admin_disk_data, BackupGroup, BackupReturns, sysbak_admin_restore_disk,
    CheckRestore, CheckRestoreSpace, restore_disk_mbr, restore_partition_table,
    restore_lvm_pv, activation_lvm_pv, SkipFree, restore_disk_partition_data,
    RestoreReturns, gdbus_sysbak_ptf, gdbus_remove_all_vg, gdbus_restore_lvm_meta,
    gdbus_restart_vg, gdbus_sysbak_restore, ClientDies, Begin, Return, Sync,
    RestoreRefused, BackupSteps, Group, DaemonDies, BackupCallLost, TableCallLost, PvCallLost

LEMMA PcMakeDir ==
    ASSUME TypeOK, MakeDir, create_target_dir
    PROVE  DirWritten("dir", ops, TRUE)
<1>1. TRUE \in BOOLEAN
    BY Zenon
<1>2. "dir" \in Files
    BY DEF Files, OtherFiles
<1>3. ops \in 0 .. MaxOps
    BY DEF TypeOK
<1>4. QED BY <1>1, <1>2, <1>3, Zenon DEF MakeDir, Write, DirWritten

LEMMA OneBackupStep ==
    ASSUME TypeOK, OneBackup, [Next]_vars
    PROVE  OneBackup'
<1>1. CASE UNCHANGED vars
    BY <1>1 DEF OneBackup, ByThis, Queued, vars
<1>2. CASE Next
    <2>1. dir \in DirType /\ queue \in Seq(Calls)
        BY DEF TypeOK, DirType
    <2>2. "dir" \in Files /\ "dir" \notin Names
        <3>1. "dir" \in OtherFiles
            BY DEF OtherFiles
        <3>2. \A l \in Layouts : NamesOf(l) \cap (OtherFiles \cup {"end"}) = {}
            BY LayoutsAssumption
        <3>3. QED BY <3>1, <3>2 DEF Names, Files
    <2>3. CASE MakeDir /\ create_target_dir /\ DirWritten("dir", ops, TRUE)
        <3>1. \A f \in Files : dir[f] = NoFile
            BY <2>3 DEF OneBackup, ByThis, create_target_dir
        <3>2. Queued("ptf") = {}
            BY <2>3 DEF OneBackup, ByThis, create_target_dir
        <3>3. Queued("ptf")' = {}
            BY <2>3, <3>2 DEF MakeDir, Queued
        <3>4. /\ dir'["dir"] = [run |-> ops, ok |-> TRUE] /\ dir'["dir"].run = ops
              /\ \A g \in Files : g # "dir" => dir'[g] = dir[g]
            BY <2>1, <2>3, WrittenFacts
        <3>5. dir'["dir"] # NoFile
            <4>1. dir'["dir"].ok = TRUE /\ NoFile.ok = FALSE
                BY <3>4 DEF NoFile
            <4>2. QED BY <4>1
        <3>6. ops' = ops
            BY <2>3 DEF MakeDir
        <3>7. \A f \in Files : dir'[f] # NoFile => dir'[f].run = ops
            BY <3>1, <3>4
        <3>8. QED BY <3>3, <3>4, <3>5, <3>6, <3>7 DEF OneBackup, ByThis
    <2>4. CASE ~(MakeDir /\ create_target_dir)
        <3> DEFINE Kept == /\ dir'["dir"] = dir["dir"]
                           /\ \A f \in Files : dir'[f] # NoFile =>
                                 dir["dir"] # NoFile /\ dir'[f].run = dir["dir"].run
        <3>1. ASSUME NEW f, NEW run, NEW ok, DirWritten(f, run, ok), f # "dir",
                     dir["dir"] # NoFile, run = dir["dir"].run
              PROVE  Kept
            <4>1. /\ dir'[f].run = run
                  /\ \A g \in Files : g # f => dir'[g] = dir[g]
                BY <2>1, <3>1, WrittenFacts
            <4>2. dir'["dir"] = dir["dir"]
                BY <2>2, <3>1, <4>1
            <4>3. \A g \in Files : dir[g] # NoFile => dir[g].run = dir["dir"].run
                BY DEF OneBackup, ByThis
            <4>4. \A g \in Files : dir'[g] # NoFile => dir'[g].run = dir["dir"].run
                <5>1. TAKE g \in Files
                <5>2. CASE g = f
                    BY <3>1, <4>1, <5>2
                <5>3. CASE g # f
                    BY <4>1, <4>3, <5>3
                <5>4. QED BY <5>2, <5>3
            <4>5. QED BY <3>1, <4>2, <4>4
        <3>2. ASSUME NEW f \in {"lvm", "info", "table", "mbr"}, NEW ok, DirWritten(f, ops, ok),
                     pc \in BackupSteps
              PROVE  Kept
            <4>1. dir["dir"] # NoFile /\ ops = dir["dir"].run /\ f # "dir"
                BY <3>2 DEF OneBackup, ByThis, BackupSteps
            <4>2. QED BY <3>1, <3>2, <4>1
        <3>3. ASSUME gdbus_sysbak_ptf, NEW ok, DirWritten(Arg, Head(queue)[3], ok)
              PROVE  Kept
            <4>1. queue # <<>> /\ Head(queue)[1] = "ptf" /\ queue' = Tail(queue)
                BY <3>3 DEF gdbus_sysbak_ptf, Handle
            <4>2. Head(queue) \in Queued("ptf") /\ Head(queue) \in Calls
                BY <2>1, <4>1, CallTaken
            <4>3. Arg \in Names
                BY <4>1, <4>2, CallParts DEF Arg
            <4>4. dir["dir"] # NoFile /\ Head(queue)[3] = dir["dir"].run
                BY <4>2 DEF OneBackup, ByThis
            <4>5. QED BY <2>2, <3>1, <3>3, <4>3, <4>4
        <3>4. ASSUME dir' = dir
              PROVE  Kept
            BY <3>4 DEF OneBackup, ByThis
        <3>12. ASSUME DaemonDies
               PROVE  Kept
            <4>1. CASE Head(queue) \in Queued("ptf") /\ Arg \in Names /\ DirWritten(Arg, Head(queue)[3], FALSE)
                <5>1. dir["dir"] # NoFile /\ Head(queue)[3] = dir["dir"].run
                    BY <4>1 DEF OneBackup, ByThis
                <5>2. QED BY <2>2, <3>1, <4>1, <5>1
            <4>2. QED BY <3>4, <3>12, <4>1, DeathEffect
        <3>13. ASSUME BackupCallLost, NEW f \in {"lvm", "table", "mbr"}, NEW ok, DirWritten(f, ops, ok)
               PROVE  Kept
            <4>1. pc \in BackupSteps
                BY <3>13 DEF BackupCallLost, Sync, BackupSteps
            <4>2. QED BY <3>2, <3>13, <4>1
        <3>5. /\ get_disk_lvm_metadata => pc \in BackupSteps
              /\ get_disk_info_config => pc \in BackupSteps
              /\ get_disk_partition_table => pc \in BackupSteps
              /\ get_disk_mbr => pc \in BackupSteps
            BY DEF get_disk_lvm_metadata, get_disk_info_config, get_disk_partition_table,
                get_disk_mbr, BackupStep, Sync, BackupSteps
        <3>6. Kept
            <4>1. CASE BackupCallLost
                BY <1>2, <3>4, <3>13, <4>1, BackupLostWrites
            <4>2. CASE ~BackupCallLost
                BY <1>2, <2>4, <3>2, <3>3, <3>4, <3>5, <3>12, <4>2, DirChanges, Zenon
            <4>3. QED BY <4>1, <4>2
        <3>7. (\A f \in Files : dir[f] # NoFile => ByThis(dir[f].run))'
            BY <3>6 DEF ByThis
        <3>8. \A run : ByThis(run)' = ByThis(run)
            BY <3>6 DEF ByThis
        <3> HIDE DEF Kept
        <3>9. pc' \in BackupSteps => (ByThis(ops))'
            <4>1. SUFFICES ASSUME pc' \in BackupSteps PROVE (ByThis(ops))'
                OBVIOUS
            <4>2. ops' = ops /\ pc \in BackupSteps
                BY <1>2, <2>4, <4>1, PcInBackup
            <4>3. ByThis(ops)
                BY <4>2 DEF OneBackup, BackupSteps
            <4>4. QED BY <3>6, <4>2, <4>3 DEF ByThis, Kept
        <3>10. (\A c \in Queued("ptf") : ByThis(c[3]))'
            <4>1. TAKE c \in Queued("ptf")'
            <4>2. CASE c \in Queued("ptf")
                BY <3>8, <4>2 DEF OneBackup
            <4>3. CASE BackupGroup
                <5>1. c \in Queued("ptf") \/ c[3] = ops
                    BY <4>3, BackupGroupEffect
                <5>2. ByThis(ops)
                    BY <4>3, SMTT(60) DEF OneBackup, BackupGroup
                <5>3. QED BY <3>8, <4>2, <5>1, <5>2
            <4>4. QED BY <1>2, <4>2, <4>3, QueuedAfter
        <3>11. QED BY <3>7, <3>9, <3>10 DEF OneBackup, BackupSteps
    <2>5. QED BY <1>2, <2>3, <2>4, DirChanges, PcMakeDir
<1>3. QED BY <1>1, <1>2


(* Every step that is none of a backup's own keeps what a backup made.     *)
LEMMA OtherSteps ==
    ASSUME Next
    PROVE  \/ MakeDir \/ get_disk_lvm_metadata \/ get_disk_info_config
           \/ get_disk_partition_table \/ get_disk_mbr
           \/ sysbak_admin_disk_data \/ BackupGroup \/ gdbus_sysbak_ptf
           \/ DaemonDies \/ BackupCallLost
           \/ dir' = dir /\ (pc' = pc \/ pc' \notin BackupSteps)
BY DEF Next, sysbak_admin_disk_to_file,
    BackupReturns, sysbak_admin_restore_disk,
    CheckRestore, CheckRestoreSpace, restore_disk_mbr, restore_partition_table,
    restore_lvm_pv, activation_lvm_pv, SkipFree, restore_disk_partition_data,
    RestoreReturns, gdbus_remove_all_vg, gdbus_restore_lvm_meta,
    gdbus_restart_vg, gdbus_sysbak_restore, ClientDies, Begin, Return,
    RestoreRefused, BackupSteps, TableCallLost, PvCallLost

LEMMA FileNames == /\ Names \cap OtherFiles = {} /\ Names \subseteq Files
                   /\ {"dir", "lvm", "info", "table", "mbr"} \subseteq Files
                   /\ \A n \in Names : n \notin {"dir", "lvm", "info", "table", "mbr", "end"}
<1>1. \A n \in Names : n \notin {"dir", "lvm", "info", "table", "mbr", "end"}
    <2>1. TAKE n \in Names
    <2>2. PICK l \in Layouts : n \in NamesOf(l)
        BY DEF Names
    <2>3. NamesOf(l) \cap (OtherFiles \cup {"end"}) = {}
        BY LayoutsAssumption
    <2>4. QED BY <2>2, <2>3 DEF OtherFiles
<1>2. QED BY <1>1 DEF Files, OtherFiles

(* The next file of a backup was made and the backup goes on, or it ends.  *)
LEMMA FileStep ==
    ASSUME TypeOK, NEW f \in {"lvm", "info", "table", "mbr"},
           Write(f, TRUE) \/ (pc' = "idle" /\ (dir' = dir \/ Write(f, FALSE)))
    PROVE  /\ \A g \in Files : g # f => dir'[g] = dir[g]
           /\ pc' = "idle" \/ dir'[f].ok
<1>1. dir \in DirType
    BY DEF TypeOK, DirType
<1>2. f \in Files
    BY FileNames
<1>3. TRUE \in BOOLEAN /\ FALSE \in BOOLEAN
    BY Zenon
<1>4. ops \in 0 .. MaxOps
    BY DEF TypeOK
<1>5. ASSUME NEW ok \in BOOLEAN, Write(f, ok)
      PROVE  (\A g \in Files : g # f => dir'[g] = dir[g]) /\ (dir'[f].ok <=> ok)
    <2>1. DirWritten(f, ops, ok)
        BY <1>2, <1>4, <1>5, Zenon DEF Write, DirWritten
    <2>2. \A g \in Files : g # f => dir'[g] = dir[g]
        BY <1>1, <2>1, WrittenFacts
    <2>3. dir'[f] = [run |-> ops, ok |-> ok]
        BY <1>1, <2>1, WrittenFacts
    <2>4. dir'[f].ok = ok
        BY <2>3
    <2>5. QED BY <2>2, <2>4, Zenon
<1>6. CASE Write(f, TRUE)
    <2>1. (\A g \in Files : g # f => dir'[g] = dir[g]) /\ (dir'[f].ok <=> TRUE)
        BY <1>3, <1>5, <1>6, Zenon
    <2>2. QED BY <2>1, Zenon
<1>7. CASE pc' = "idle" /\ Write(f, FALSE)
    <2>1. \A g \in Files : g # f => dir'[g] = dir[g]
        BY <1>3, <1>5, <1>7, Zenon
    <2>2. QED BY <1>7, <2>1, Zenon
<1>8. CASE pc' = "idle" /\ dir' = dir
    BY <1>8, Zenon
<1>9. QED BY <1>6, <1>7, <1>8

MetaFiles == {"lvm", "info", "table", "mbr"}

LEMMA ImagesLastStep ==
    ASSUME TypeOK, OneBackup, ImagesLast, [Next]_vars
    PROVE  ImagesLast'
<1>1. CASE UNCHANGED vars
    BY <1>1 DEF ImagesLast, Whole, Queued, vars
<1>2. dir \in DirType /\ queue \in Seq(Calls)
    BY DEF TypeOK, DirType
<1> DEFINE Bare == Queued("ptf") = {} /\ \A n \in Names : dir[n] = NoFile
<1>3. CASE MakeDir
    <2>1. CASE create_target_dir
        <3>1. Bare
            BY <2>1, FileNames DEF OneBackup, ByThis, create_target_dir
        <3>2. DirWritten("dir", ops, TRUE)
            BY <1>3, <2>1, PcMakeDir
        <3>3. \A g \in Files : g # "dir" => dir'[g] = dir[g]
            BY <1>2, <3>2, WrittenFacts
        <3>4. \A n \in Names : dir'[n] = NoFile
            BY <3>1, <3>3, FileNames
        <3>5. Queued("ptf")' = {} /\ pc' = "b_lvm"
            BY <1>3, <2>1, <3>1 DEF MakeDir, Queued
        <3>6. QED BY <3>4, <3>5 DEF ImagesLast
    <2>2. CASE ~create_target_dir
        <3>1. dir' = dir /\ queue' = queue /\ pc' = "idle"
            BY <1>3, <2>2 DEF MakeDir, Return
        <3>2. QED BY <3>1 DEF ImagesLast, Whole, Queued
    <2>3. QED BY <2>1, <2>2
<1>4. ASSUME NEW f \in MetaFiles, pc \in {"b_lvm", "b_info", "b_table", "b_mbr"},
             Write(f, TRUE) \/ (pc' = "idle" /\ (dir' = dir \/ Write(f, FALSE))), queue' = queue
      PROVE  /\ Bare' /\ \A g \in MetaFiles : g # f => dir'[g] = dir[g]
             /\ pc' = "idle" \/ dir'[f].ok
    <2>1. Bare
        BY <1>4 DEF ImagesLast
    <2>2. /\ \A g \in Files : g # f => dir'[g] = dir[g]
          /\ pc' = "idle" \/ dir'[f].ok
        BY <1>4, FileStep DEF MetaFiles
    <2>3. \A n \in Names : dir'[n] = NoFile
        BY <2>1, <2>2, FileNames DEF MetaFiles
    <2>4. Queued("ptf")' = {}
        BY <1>4, <2>1 DEF Queued
    <2>5. QED BY <2>2, <2>3, <2>4, FileNames DEF MetaFiles
<1>5. CASE get_disk_lvm_metadata
    <2>1. /\ pc = "b_lvm" /\ queue' = queue /\ pc' \in {"idle", "b_info"}
          /\ Write("lvm", TRUE) \/ (pc' = "idle" /\ (dir' = dir \/ Write("lvm", FALSE)))
        BY <1>5, Zenon DEF get_disk_lvm_metadata, BackupStep, Sync, Return, gdbus_backup_lvm_meta, Tool
    <2>2. Bare' /\ (pc' = "idle" \/ dir'["lvm"].ok)
        BY <1>4, <2>1 DEF MetaFiles
    <2>3. QED BY <2>1, <2>2 DEF ImagesLast, Whole
<1>6. CASE get_disk_info_config
    <2>1. /\ pc = "b_info" /\ queue' = queue /\ pc' \in {"idle", "b_table"}
          /\ Write("info", TRUE) \/ (pc' = "idle" /\ (dir' = dir \/ Write("info", FALSE)))
        BY <1>6, Zenon DEF get_disk_info_config, Return
    <2>2. Bare' /\ (pc' = "idle" \/ dir'["info"].ok) /\ dir'["lvm"] = dir["lvm"]
        BY <1>4, <2>1 DEF MetaFiles
    <2>3. dir["lvm"].ok
        BY <2>1 DEF ImagesLast, Whole
    <2>4. QED BY <2>1, <2>2, <2>3 DEF ImagesLast, Whole
<1>7. CASE get_disk_partition_table
    <2>1. /\ pc = "b_table" /\ queue' = queue /\ pc' \in {"idle", "b_mbr"}
          /\ Write("table", TRUE) \/ (pc' = "idle" /\ (dir' = dir \/ Write("table", FALSE)))
        BY <1>7, Zenon DEF get_disk_partition_table, BackupStep, Sync, Return,
            gdbus_backup_partition_table, Tool
    <2>2. /\ Bare' /\ (pc' = "idle" \/ dir'["table"].ok)
          /\ dir'["lvm"] = dir["lvm"] /\ dir'["info"] = dir["info"]
        BY <1>4, <2>1 DEF MetaFiles
    <2>3. dir["lvm"].ok /\ dir["info"].ok
        BY <2>1 DEF ImagesLast, Whole
    <2>4. QED BY <2>1, <2>2, <2>3 DEF ImagesLast, Whole
<1>8. CASE get_disk_mbr
    <2>1. /\ pc = "b_mbr" /\ queue' = queue /\ pc' \in {"idle", "b_data"}
          /\ Write("mbr", TRUE) \/ (pc' = "idle" /\ (dir' = dir \/ Write("mbr", FALSE)))
        BY <1>8, Zenon DEF get_disk_mbr, BackupStep, Sync, Return, gdbus_backup_disk_mbr, Tool
    <2>2. /\ Bare' /\ (pc' = "idle" \/ dir'["mbr"].ok)
          /\ dir'["lvm"] = dir["lvm"] /\ dir'["info"] = dir["info"] /\ dir'["table"] = dir["table"]
        BY <1>4, <2>1 DEF MetaFiles
    <2>3. dir["lvm"].ok /\ dir["info"].ok /\ dir["table"].ok
        BY <2>1 DEF ImagesLast, Whole
    <2>4. QED BY <2>1, <2>2, <2>3 DEF ImagesLast, Whole
<1>9. CASE sysbak_admin_disk_data \/ BackupGroup
    <2>1. pc \in {"b_data", "b_group"} /\ pc' = "b_group" /\ dir' = dir
        BY <1>9 DEF sysbak_admin_disk_data, BackupGroup
    <2>2. Whole(MetaFiles)
        BY <2>1 DEF ImagesLast, MetaFiles
    <2>3. QED BY <2>1, <2>2 DEF ImagesLast, Whole, MetaFiles
<1>10. CASE gdbus_sysbak_ptf
    <2>1. queue # <<>> /\ Head(queue)[1] = "ptf" /\ queue' = Tail(queue) /\ pc' = pc
        BY <1>10 DEF gdbus_sysbak_ptf, Handle
    <2>2. Head(queue) \in Queued("ptf") /\ Head(queue) \in Calls
        BY <1>2, <2>1, CallTaken
    <2>3. Arg \in Names
        BY <2>1, <2>2, CallParts DEF Arg
    <2>4. pc \notin {"b_lvm", "b_info", "b_table", "b_mbr"} /\ Whole(MetaFiles)
        BY <2>2 DEF ImagesLast, MetaFiles
    <2>5. \A g \in MetaFiles : dir'[g] = dir[g]
        <3>1. MetaFiles \subseteq Files /\ Arg \notin MetaFiles
            BY <2>3, FileNames DEF MetaFiles
        <3>3. dir' = dir \/ \E ok \in BOOLEAN : dir' = [dir EXCEPT ![Arg] = [run |-> Head(queue)[3], ok |-> ok]]
            <4>1. TRUE \in BOOLEAN /\ FALSE \in BOOLEAN
                BY Zenon
            <4>2. QED BY <1>10, <4>1, Zenon DEF gdbus_sysbak_ptf
        <3>4. \A g \in Files : g # Arg => dir'[g] = dir[g]
            BY <1>2, <3>3, Zenon DEF DirType
        <3>5. QED BY <3>1, <3>4
    <2>6. Whole(MetaFiles)'
        BY <2>4, <2>5 DEF Whole, MetaFiles
    <2>7. QED BY <2>1, <2>4, <2>6 DEF ImagesLast, MetaFiles
<1>11. CASE Next /\ dir' = dir /\ (pc' = pc \/ pc' \notin BackupSteps) /\ ~BackupGroup
    <2>1. Queued("ptf")' \subseteq Queued("ptf")
        BY <1>11, QueuedAfter
    <2>2. \A S : Whole(S)' = Whole(S)
        BY <1>11 DEF Whole
    <2>3. QED BY <1>11, <2>1, <2>2 DEF ImagesLast, BackupSteps
<1>12. CASE DaemonDies
    <2>1. pc' = pc /\ \A m : Queued(m)' = {}
        BY <1>12, DeathEffect
    <2>2. CASE dir' = dir
        BY <2>1, <2>2 DEF ImagesLast, Whole
    <2>3. CASE Head(queue) \in Queued("ptf") /\ Arg \in Names /\ DirWritten(Arg, Head(queue)[3], FALSE)
        <3>1. pc \notin {"b_lvm", "b_info", "b_table", "b_mbr"} /\ Whole(MetaFiles)
            BY <2>3 DEF ImagesLast, MetaFiles
        <3>2. MetaFiles \subseteq Files /\ Arg \notin MetaFiles
            BY <2>3, FileNames DEF MetaFiles
        <3>3. \A g \in MetaFiles : dir'[g] = dir[g]
            BY <1>2, <2>3, <3>2, WrittenFacts
        <3>4. Whole(MetaFiles)'
            BY <3>1, <3>3 DEF Whole, MetaFiles
        <3>5. QED BY <2>1, <3>1, <3>4 DEF ImagesLast, MetaFiles
    <2>4. QED BY <1>12, <2>2, <2>3, DeathEffect
<1>13. CASE BackupCallLost
    <2>1. pc \in {"b_lvm", "b_table", "b_mbr"} /\ pc' = "idle" /\ queue' = queue
        BY <1>13 DEF BackupCallLost, Sync, Return
    <2>2. Bare
        BY <2>1 DEF ImagesLast
    <2>3. Queued("ptf")' = {}
        BY <2>1, <2>2 DEF Queued
    <2>4. \A n \in Names : dir'[n] = dir[n]
        <3>1. CASE dir' = dir
            BY <3>1
        <3>2. ASSUME NEW f \in {"lvm", "table", "mbr"}, NEW ok, DirWritten(f, ops, ok)
              PROVE  \A n \in Names : dir'[n] = dir[n]
            BY <1>2, <3>2, WrittenFacts, FileNames
        <3>3. QED BY <1>13, <3>1, <3>2, BackupLostWrites
    <2>5. QED BY <2>1, <2>2, <2>3, <2>4 DEF ImagesLast
<1>14. QED BY <1>1, <1>3, <1>5, <1>6, <1>7, <1>8, <1>9, <1>10, <1>11, <1>12, <1>13, OtherSteps


(* The calls the daemon handles for nobody who waits.                      *)
Handled ==
    \/ gdbus_sysbak_ptf \/ gdbus_remove_all_vg \/ gdbus_restore_lvm_meta
    \/ gdbus_restart_vg \/ gdbus_sysbak_restore

LEMMA HandledFacts ==
    ASSUME Handled
    PROVE  /\ pc' = pc /\ groups' = groups /\ ops' = ops /\ ret' = ret /\ lost' = lost
           /\ queue # <<>> /\ queue' = Tail(queue)
           /\ told' = told \/ told' = TRUE
<1>1. /\ pc' = pc /\ groups' = groups /\ ops' = ops /\ ret' = ret /\ lost' = lost
      /\ queue # <<>> /\ queue' = Tail(queue)
    BY DEF Handled, gdbus_sysbak_ptf, gdbus_remove_all_vg, gdbus_restore_lvm_meta,
        gdbus_restart_vg, gdbus_sysbak_restore, Handle
<1>2. told' = told \/ told' = TRUE
    BY Zenon DEF Handled, gdbus_sysbak_ptf, gdbus_remove_all_vg, gdbus_restore_lvm_meta,
        gdbus_restart_vg, gdbus_sysbak_restore
<1>3. QED BY <1>1, <1>2, SMTT(60)

LEMMA BackupToldStep ==
    ASSUME TypeOK, BackupTold, [Next]_vars
    PROVE  BackupTold'
<1>1. CASE UNCHANGED vars
    BY <1>1 DEF BackupTold, Left, vars
<1>2. CASE sysbak_admin_disk_data
    <2>1. EndGroup \in Groups
        BY GroupFacts DEF TypeOK
    <2>2. groups' = json_parse_array
        BY <1>2 DEF sysbak_admin_disk_data
    <2>3. Left' = Groups
        BY <2>2 DEF Left, Groups
    <2>4. EndGroup' = EndGroup
        BY DEF EndGroup
    <2>5. QED BY <2>1, <2>3, <2>4 DEF BackupTold
<1>3. CASE BackupGroup
    BY <1>3 DEF BackupGroup, BackupTold
<1>4. CASE Handled
    BY <1>4, HandledFacts DEF BackupTold, Left
<1>5. CASE Next /\ ~sysbak_admin_disk_data /\ ~BackupGroup /\ ~Handled /\ ~DaemonDies
    <2>1. pc' # "b_group"
        BY <1>5 DEF Next, sysbak_admin_disk_to_file, MakeDir, get_disk_lvm_metadata, BackupStep,
            get_disk_info_config, get_disk_partition_table, get_disk_mbr,
            BackupReturns, sysbak_admin_restore_disk,
            CheckRestore, CheckRestoreSpace, restore_disk_mbr, restore_partition_table,
            restore_lvm_pv, activation_lvm_pv, SkipFree, restore_disk_partition_data,
            RestoreReturns, Handled, ClientDies, Begin, Return, Sync, RestoreRefused, Group,
            BackupCallLost, TableCallLost, PvCallLost
    <2>2. QED BY <2>1 DEF BackupTold
<1>6. CASE DaemonDies
    <2>1. pc' = pc /\ groups' = groups /\ told' \in {told, told \/ Queued("ptf") # {}}
        BY <1>6, DeathEffect
    <2>2. told => told'
        BY <2>1, Zenon
    <2>3. Left' = Left /\ EndGroup' = EndGroup
        BY <2>1 DEF Left, EndGroup
    <2>4. QED BY <2>1, <2>2, <2>3 DEF BackupTold
<1>7. QED BY <1>1, <1>2, <1>3, <1>4, <1>5, <1>6
-----------------------------------------------------------------------------
(* What is mounted and the groups of other disks.                          *)

LEMMA OthersStep ==
    ASSUME TypeOK, OthersKept, MountedSeen, [Next]_vars
    PROVE  OthersKept' /\ MountedSeen'
<1>1. CASE UNCHANGED vars
    <2>1. /\ world' = world /\ disk' = disk /\ queue' = queue
        BY <1>1 DEF vars
    <2>2. \A n : IsLv(n)' = IsLv(n)
        BY <2>1, SameWorld
    <2>3. Entries' = Entries
        BY <2>1, SameWorld
    <2>4. QED BY <2>1, <2>2, <2>3
           DEF OthersKept, MountedDataKept, OtherGroupKept, MountedSeen, Queued
<1>2. CASE Next
    <2>1. world' = world /\ Entries' = Entries /\ \A n : IsLv(n)' = IsLv(n)
        BY WorldStays, SameWorld
    <2>2. world \in Worlds /\ world.to \subseteq Names
        <3>1. world \in Worlds
            BY DEF TypeOK
        <3>2. world.to \in Mounts
            BY <3>1 DEF Worlds
        <3>3. QED BY <3>1, <3>2, MountsAssumption
    <2>3. DiskVg \in Vgs /\ OtherVg \in Vgs /\ DiskVg # OtherVg
        BY VgsAssumption DEF Vgs
    <2>4. /\ disk'.vg[OtherVg] = "none" => world.nameInOther
          /\ (\E n \in world.to : IsLv(n)) => disk'.vg[DiskVg] \in {"old", "new"}
        <3>1. /\ disk.vg[OtherVg] = "none" => world.nameInOther
              /\ (\E n \in world.to : IsLv(n)) => disk.vg[DiskVg] \in {"old", "new"}
            BY DEF OthersKept, OtherGroupKept, MountedSeen
        <3>2. CASE disk'.vg = disk.vg
            BY <3>1, <3>2
        <3>3. CASE gdbus_remove_all_vg
            <4>1. PICK gone \in SUBSET get_vg_pvs :
                     /\ DiskVg \in gone => \A n \in world.to : ~IsLv(n)
                     /\ \A v \in Vgs : disk'.vg[v] = IF v \in gone THEN "none" ELSE disk.vg[v]
                BY <3>3, RemoveEffect
            <4>2. OtherVg \in gone => world.nameInOther
                BY <2>3 DEF get_vg_pvs
            <4>3. QED BY <2>3, <3>1, <4>1, <4>2
        <3>4. CASE gdbus_restore_lvm_meta
            BY <2>3, <3>1, <3>4, MetaEffect
        <3>5. CASE gdbus_restart_vg
            BY <2>3, <3>1, <3>5, RestartEffect
        <3>6. CASE restore_disk_mbr \/ restore_partition_table \/ restore_lvm_pv \/ gdbus_sysbak_restore
                     \/ DaemonDies \/ TableCallLost
            BY <3>2, <3>6, MbrEffect, TableEffect, PvEffect, RestoreEffect, DeathEffect, TableLostEffect
        <3>7. QED BY <1>2, <3>2, <3>3, <3>4, <3>5, <3>6, DiskSteps
    <2>5. \A n \in world.to : disk'.data[n] = "old"
        <3>1. \A n \in world.to : disk.data[n] = "old"
            BY DEF OthersKept, MountedDataKept
        <3>2. CASE disk'.data = disk.data
            BY <3>1, <3>2
        <3>3. CASE gdbus_remove_all_vg
            BY <2>2, <3>1, <3>3, RemoveEffect
        <3>4. CASE gdbus_sysbak_restore \/ DaemonDies
            <4>1. CASE disk' = disk
                BY <3>1, <4>1
            <4>2. CASE /\ Head(queue) \in Queued("restore") /\ DevExists(Entry(Arg))
                       /\ \A n \in Names : n # Arg => disk'.data[n] = disk.data[n]
                <5>1. Arg \notin world.to
                    <6>1. SUFFICES ASSUME Arg \in world.to PROVE FALSE
                        OBVIOUS
                    <6>3. Arg \in NamesOf(Entries) /\ ~IsLv(Arg) /\ world.longName
                        BY <4>2, <6>1 DEF MountedSeen, Arg
                    <6>4. ~Entry(Arg).lv
                        BY <6>3 DEF IsLv
                    <6>5. QED BY <4>2, <6>3, <6>4 DEF DevExists
                <5>2. QED BY <2>2, <3>1, <4>2, <5>1
            <4>3. QED BY <3>4, <4>1, <4>2, RestoreEffect, DeathEffect
        <3>5. CASE restore_disk_mbr \/ restore_partition_table \/ restore_lvm_pv
                     \/ gdbus_restore_lvm_meta \/ gdbus_restart_vg \/ TableCallLost
            BY <3>2, <3>5, MbrEffect, TableEffect, PvEffect, MetaEffect, RestartEffect, TableLostEffect
        <3>6. QED BY <1>2, <3>2, <3>3, <3>4, <3>5, DiskSteps
    <2>6. \A c \in Queued("restore")' :
             c[2] \in NamesOf(Entries) /\ (c[2] \in world.to => ~IsLv(c[2]) /\ world.longName)
        <3>1. CASE Queued("restore")' \subseteq Queued("restore")
            BY <3>1 DEF MountedSeen
        <3>2. CASE restore_disk_partition_data
            <4>1. TAKE c \in Queued("restore")'
            <4>2. CASE c \in Queued("restore")
                BY <4>2 DEF MountedSeen
            <4>3. CASE RestoreAccepted(Head(groups)) /\ c[2] = Head(groups).name
                <5>1. PICK i \in DOMAIN Entries : Head(groups) = Entries[i]
                    BY <3>2, DataEffect
                <5>2. c[2] \in NamesOf(Entries) /\ Entry(c[2]) = Entries[i]
                    BY <2>2, <4>3, <5>1, EntryFacts
                <5>3. ASSUME c[2] \in world.to
                      PROVE  ~IsLv(c[2]) /\ world.longName
                    <6>1. ~DevExists(Entries[i])
                        BY <4>3, <5>1, <5>3 DEF RestoreAccepted
                    <6>2. ~IsLv(c[2])
                        <7>1. SUFFICES ASSUME IsLv(c[2]) PROVE FALSE
                            OBVIOUS
                        <7>2. Entries[i].lv
                            BY <5>2, <7>1 DEF IsLv
                        <7>3. disk.vg[DiskVg] \in {"old", "new"}
                            BY <5>3, <7>1 DEF MountedSeen
                        <7>4. QED BY <6>1, <7>2, <7>3 DEF DevExists
                    <6>3. ~Entries[i].lv
                        BY <5>2, <6>2 DEF IsLv
                    <6>4. QED BY <6>1, <6>2, <6>3 DEF DevExists
                <5>4. QED BY <5>2, <5>3
            <4>4. QED BY <3>2, <4>2, <4>3, DataEffect
        <3>3. QED BY <1>2, <3>1, <3>2, QueuedAfter
    <2>7. OthersKept'
        BY <2>1, <2>4, <2>5 DEF OthersKept, MountedDataKept, OtherGroupKept
    <2>8. MountedSeen'
        BY <2>1, <2>4, <2>6 DEF MountedSeen
    <2>9. QED BY <2>7, <2>8
<1>3. QED BY <1>1, <1>2

-----------------------------------------------------------------------------
(* The order of a restore.                                                 *)

(* In the range of an int the sizes are compared as they are; the sum of   *)
(* start and length may leave the range, but then it counts as enormous.   *)
LEMMA SpaceEnough ==
    ASSUME NEW start \in Nat, NEW size \in Nat, start < Word \div 2,
           size >= gdbus_get_source_use_size(start, Length)
    PROVE  start + Length =< 2 * size + 1
<1> DEFINE half == Word \div 2
           sum == start + Length
<1>1. half \in Nat /\ Word = 2 * half /\ half > 0
    BY Numbers
<1>2. Length \in Nat /\ Length < half /\ start < half
    BY <1>1, Numbers
<1>3. Word \in Nat /\ start < Word /\ Length < Word /\ sum \in Nat /\ sum < Word - 1
    BY <1>1, <1>2, Numbers
<1>4. ToInt(start) = start /\ ToInt(Length) = Length
    <2>1. start % Word = start /\ Length % Word = Length
        BY <1>2, <1>3
    <2>2. QED BY <1>2, <2>1 DEF ToInt
<1>5. ToInt(sum) = IF sum < half THEN sum ELSE sum - Word
    <2>1. sum % Word = sum
        BY <1>3
    <2>2. QED BY <2>1 DEF ToInt
<1>6. CASE sum < half
    <2>1. Halved(ToInt(sum)) = sum \div 2
        BY <1>3, <1>5, <1>6 DEF Halved
    <2>2. sum \div 2 \in Nat /\ sum =< 2 * (sum \div 2) + 1
        BY <1>3
    <2>3. gdbus_get_source_use_size(start, Length) = sum \div 2
        BY <1>4, <2>1, <2>2 DEF gdbus_get_source_use_size
    <2>4. size >= sum \div 2
        BY <2>3
    <2> HIDE DEF sum
    <2>5. sum =< 2 * size + 1
        BY <1>3, <2>2, <2>4
    <2>6. QED BY <2>5 DEF sum
<1>7. CASE ~(sum < half)
    <2> DEFINE over == Word - sum
               h == over \div 2
    <2>1. over \in Nat /\ over >= 2 /\ over =< half /\ ToInt(sum) = sum - Word /\ ~(sum - Word >= 0)
          /\ -(sum - Word) = over
        BY <1>1, <1>3, <1>5, <1>7
    <2>2. h \in Nat /\ h >= 1 /\ h =< half
        <3>1. \A x \in Nat : x >= 2 => x \div 2 \in Nat /\ x \div 2 >= 1 /\ x \div 2 =< x
            OBVIOUS
        <3>2. h \in Nat /\ h >= 1 /\ h =< over
            BY <2>1, <3>1
        <3> HIDE DEF h, over, half
        <3>3. QED BY <1>1, <2>1, <3>2
    <2>3. Halved(ToInt(sum)) = -h
        BY <2>1 DEF Halved
    <2>4. gdbus_get_source_use_size(start, Length) = Word * Word + (-h)
        BY <1>4, <2>2, <2>3 DEF gdbus_get_source_use_size
    <2>5. Word * Word \in Nat /\ Word * Word >= 2 * Word
        BY <1>1, <1>3
    <2>6. size >= Word * Word + (-h)
        BY <2>4
    <2> DEFINE ww == Word * Word
    <2>7. size >= ww + (-h) /\ ww \in Nat /\ ww >= 2 * Word
        BY <2>5, <2>6
    <2> HIDE DEF ww, h, sum, half
    <2>8. size >= Word
        BY <1>1, <1>3, <2>2, <2>7
    <2>9. sum =< 2 * size + 1
        BY <1>3, <2>8
    <2>10. QED BY <2>9 DEF sum
<1>8. QED BY <1>6, <1>7

(* A restore goes on to the table in silence only if the disk is large     *)
(* enough for what a whole table says.                                     *)
LEMMA SpaceChecked ==
    ASSUME TypeOK, CheckRestoreSpace, pc' = "r_mbr", ~told', SizeCall \notin lost', dir["table"].ok
    PROVE  Fits
<1>1. PICK needed \in get_source_space_size, space \in get_disk_space_size :
          /\ space.size >= needed.size
          /\ told' = (told \/ needed.failed \/ space.failed)
          /\ lost' = lost \cup IF needed.lost \/ space.lost THEN {SizeCall} ELSE {}
    BY DEF CheckRestoreSpace, RestoreRefused, Return
<1>2. ~needed.failed /\ ~space.failed /\ ~needed.lost /\ ~space.lost
    BY <1>1
<1>3. dir["table"] # NoFile
    BY DEF NoFile
<1>4. needed.size = gdbus_get_source_use_size(world.start, Length)
    BY <1>1, <1>2, <1>3 DEF get_source_space_size, Size, Failed, Unheard
<1>5. space.size = world.size
    BY <1>1, <1>2 DEF get_disk_space_size, gdbus_get_disk_size, Size, Failed, Unheard
<1>6. world.start \in Nat /\ world.size \in Nat
    BY Numbers DEF TypeOK, Worlds
<1>7. QED BY <1>1, <1>4, <1>5, <1>6, SpaceEnough DEF Fits

LEMMA PcInRestore ==
    ASSUME Next
    PROVE  /\ pc' = "r_group" => pc = "r_group" \/ restore_partition_table
           /\ pc' = "r_mbr" => (pc = "r_mbr" /\ queue # <<>>) \/ CheckRestoreSpace
           /\ pc' = "r_table" => (pc = "r_table" /\ queue # <<>>) \/ restore_disk_mbr
<1>1. CASE Handled \/ DaemonDies
    BY <1>1, HandledFacts DEF DaemonDies
<1>2. CASE ~Handled /\ ~DaemonDies
    BY <1>2 DEF Next, sysbak_admin_disk_to_file, MakeDir, get_disk_lvm_metadata, BackupStep,
        get_disk_info_config, get_disk_partition_table, get_disk_mbr,
        sysbak_admin_disk_data, BackupGroup, BackupReturns, sysbak_admin_restore_disk,
        CheckRestore, restore_lvm_pv, activation_lvm_pv, SkipFree, restore_disk_partition_data,
        RestoreReturns, Handled, ClientDies, Begin, Return, Sync, RestoreRefused, Group,
        CheckRestoreSpace, restore_disk_mbr, restore_partition_table,
        BackupCallLost, TableCallLost, PvCallLost
<1>3. QED BY <1>1, <1>2

LEMMA TableStays ==
    ASSUME TypeOK, Next, ~restore_partition_table, ~TableCallLost
    PROVE  disk'.table = disk.table
BY DiskSteps, MbrEffect, PvEffect, RemoveEffect, MetaEffect, RestartEffect, RestoreEffect, DeathEffect

LEMMA TableFirstStep ==
    ASSUME TypeOK, TableFirst, [Next]_vars
    PROVE  TableFirst'
<1>1. CASE UNCHANGED vars
    <2>1. Fits' = Fits
        BY WorldStays, SameWorld
    <2>2. QED BY <1>1, <2>1 DEF TableFirst, Queued, vars
<1>2. CASE Next
    <2>1. Fits' = Fits
        BY WorldStays, SameWorld
    <2>2. (pc' = "r_group" \/ Queued("restore")' # {}) => disk'.table = "backup"
        <3>1. CASE restore_partition_table
            <4>1. queue = <<>> /\ queue' = queue
                BY <3>1 DEF restore_partition_table, Sync
            <4>2. Queued("restore")' = {}
                BY <4>1 DEF Queued
            <4>3. QED BY <3>1, <4>2, TableEffect
        <3>2. CASE TableCallLost
            <4>1. queue' = <<>> /\ pc' = "idle"
                BY <3>2 DEF TableCallLost, Sync, Return
            <4>2. QED BY <4>1 DEF Queued
        <3>3. CASE ~restore_partition_table /\ ~TableCallLost
            <4>1. disk'.table = disk.table
                BY <1>2, <3>3, TableStays
            <4>2. pc' = "r_group" => pc = "r_group"
                BY <1>2, <3>3, PcInRestore
            <4>3. Queued("restore")' # {} => pc = "r_group" \/ Queued("restore") # {}
                <5>1. restore_disk_partition_data => pc = "r_group"
                    BY DEF restore_disk_partition_data, Group
                <5>2. QED BY <1>2, <5>1, QueuedAfter
            <4>4. QED BY <4>1, <4>2, <4>3 DEF TableFirst
        <3>4. QED BY <3>1, <3>2, <3>3
    <2>3. pc' \in {"r_mbr", "r_table"} =>
             queue' = <<>> /\ (~told' /\ dir'["table"].ok /\ SizeCall \notin lost' => Fits)
        <3>1. ASSUME pc \in {"r_mbr", "r_table"}, queue # <<>>
              PROVE  FALSE
            BY <3>1 DEF TableFirst
        <3>2. CASE CheckRestoreSpace /\ pc' = "r_mbr"
            <4>1. queue' = <<>> /\ dir' = dir
                BY <3>2 DEF CheckRestoreSpace, Sync
            <4>2. QED BY <3>2, <4>1, SpaceChecked
        <3>3. CASE restore_disk_mbr /\ pc' = "r_table"
            <4>1. pc = "r_mbr" /\ queue' = <<>> /\ dir' = dir /\ told' = told /\ lost' = lost
                BY <3>3 DEF restore_disk_mbr, Sync, RestoreRefused, Return
            <4>2. QED BY <4>1 DEF TableFirst
        <3>4. QED BY <1>2, <3>1, <3>2, <3>3, PcInRestore
    <2>4. SizeCall' = SizeCall
        BY DEF SizeCall
    <2>5. QED BY <2>1, <2>2, <2>3, <2>4 DEF TableFirst
<1>3. QED BY <1>1, <1>2

-----------------------------------------------------------------------------
(* A restore that reports nothing.                                         *)

(* The first call in the queue decides which of the actions handles it.    *)
LEMMA HandledBy ==
    ASSUME Handled
    PROVE  /\ Head(queue)[1] = "ptf" => gdbus_sysbak_ptf
           /\ Head(queue)[1] = "remove" => gdbus_remove_all_vg
           /\ Head(queue)[1] = "vgcfgrestore" => gdbus_restore_lvm_meta
           /\ Head(queue)[1] = "restart" => gdbus_restart_vg
           /\ Head(queue)[1] = "restore" => gdbus_sysbak_restore
           /\ gdbus_sysbak_ptf => Head(queue)[1] = "ptf"
           /\ gdbus_remove_all_vg => Head(queue)[1] = "remove"
           /\ gdbus_restore_lvm_meta => Head(queue)[1] = "vgcfgrestore"
           /\ gdbus_restart_vg => Head(queue)[1] = "restart"
           /\ gdbus_sysbak_restore => Head(queue)[1] = "restore"
<1>1. /\ gdbus_sysbak_ptf => Head(queue)[1] = "ptf"
      /\ gdbus_remove_all_vg => Head(queue)[1] = "remove"
      /\ gdbus_restore_lvm_meta => Head(queue)[1] = "vgcfgrestore"
      /\ gdbus_restart_vg => Head(queue)[1] = "restart"
      /\ gdbus_sysbak_restore => Head(queue)[1] = "restore"
    BY DEF gdbus_sysbak_ptf, gdbus_remove_all_vg, gdbus_restore_lvm_meta,
        gdbus_restart_vg, gdbus_sysbak_restore, Handle
<1>2. QED BY <1>1, SMTT(60) DEF Handled

GroupStep ==
    \/ restore_lvm_pv \/ activation_lvm_pv \/ SkipFree \/ restore_disk_partition_data
    \/ PvCallLost

(* A quiet restore has just written the table, or it was quiet before.     *)
LEMMA QuietBefore ==
    ASSUME TypeOK, BackupTold, Next, Quiet'
    PROVE  \/ restore_partition_table /\ pc' = "r_group" /\ ~told
           \/ Quiet /\ (Handled \/ GroupStep \/ RestoreReturns \/ DaemonDies)
<1>1. /\ ~told' /\ (pc' = "r_group" \/ (pc' = "idle" /\ ret' = "true"))
    BY DEF Quiet
<1>2. CASE Handled
    <2>1. pc' = pc /\ ret' = ret /\ (told' = told \/ told' = TRUE)
        BY <1>2, HandledFacts
    <2>2. ~told
        BY <1>1, <2>1
    <2>3. QED BY <1>1, <1>2, <2>1, <2>2 DEF Quiet
<1>3. CASE restore_partition_table
    <2>1. pc' = "r_group" /\ told' = told
        BY <1>1, <1>3 DEF restore_partition_table, Return
    <2>2. QED BY <1>1, <1>3, <2>1
<1>4. CASE BackupReturns
    <2>1. pc = "b_group" /\ groups = <<>> /\ told' = told
        BY <1>4 DEF BackupReturns
    <2>2. Left = {}
        BY <2>1 DEF Left
    <2>3. QED BY <1>1, <2>1, <2>2 DEF BackupTold
<1>5. CASE GroupStep \/ RestoreReturns
    <2>1. pc = "r_group"
        BY <1>5 DEF GroupStep, restore_lvm_pv, activation_lvm_pv, SkipFree,
            restore_disk_partition_data, RestoreReturns, PvCallLost, Group
    <2>2. told' = told \/ told' = TRUE
        BY <1>5, Zenon DEF GroupStep, restore_lvm_pv, gdbus_create_pv, activation_lvm_pv, SkipFree,
            restore_disk_partition_data, RestoreReturns, PvCallLost
    <2>3. ~told
        BY <1>1, <2>2
    <2>4. QED BY <1>5, <2>1, <2>3 DEF Quiet
<1>6. CASE /\ ~Handled /\ ~restore_partition_table /\ ~BackupReturns /\ ~GroupStep
           /\ ~RestoreReturns /\ ~DaemonDies
    <2>1. ~(pc' = "r_group" \/ (pc' = "idle" /\ ret' = "true")) \/ told' = TRUE
        BY <1>6 DEF Next, sysbak_admin_disk_to_file, MakeDir, get_disk_lvm_metadata, BackupStep,
            get_disk_info_config, get_disk_partition_table, get_disk_mbr,
            sysbak_admin_disk_data, BackupGroup, sysbak_admin_restore_disk,
            CheckRestore, CheckRestoreSpace, restore_disk_mbr,
            Handled, GroupStep, ClientDies, Begin, Return, Sync, RestoreRefused,
            BackupCallLost, TableCallLost
    <2>2. QED BY <1>1, <2>1
<1>7. CASE DaemonDies
    <2>1. pc' = pc /\ ret' = ret /\ told' \in {told, told \/ Queued("ptf") # {}}
        BY <1>7, DeathEffect
    <2>2. ~told
        BY <1>1, <2>1, Zenon
    <2>3. QED BY <1>1, <1>7, <2>1, <2>2 DEF Quiet
<1>8. QED BY <1>2, <1>3, <1>4, <1>5, <1>6, <1>7

(* The calls stay in order when others are added behind them.              *)
LEMMA ActivatedGrows ==
    ASSUME queue \in Seq(Calls), queue' \in Seq(Calls), Activated, disk'.vg = disk.vg, lost' = lost,
           Len(queue) =< Len(queue'), \A i \in 1 .. Len(queue) : queue'[i] = queue[i]
    PROVE  Activated'
<1> SUFFICES ASSUME RestartCall \notin lost PROVE Activated'
    BY DEF Activated, RestartCall
<1>1. /\ Len(queue) \in Nat /\ DOMAIN queue = 1 .. Len(queue)
      /\ Len(queue') \in Nat /\ DOMAIN queue' = 1 .. Len(queue')
    BY LenProperties
<1>2. CASE disk.vg[DiskVg] = "new"
    BY <1>2 DEF Activated
<1>3. CASE disk.vg[DiskVg] # "new"
    <2>1. PICK j \in DOMAIN queue :
             /\ queue[j][1] = "restart" /\ queue[j][2] = DiskVg
             /\ \/ disk.vg[DiskVg] = "inactive"
                \/ \E i \in 1 .. j - 1 : queue[i][1] = "vgcfgrestore" /\ queue[i][2] = DiskVg
        BY <1>3 DEF Activated
    <2>2. j \in DOMAIN queue' /\ queue'[j] = queue[j]
        BY <1>1
    <2>3. \A i \in 1 .. j - 1 : queue'[i] = queue[i]
        <3>1. \A i \in 1 .. j - 1 : i \in 1 .. Len(queue)
            BY <1>1
        <3>2. QED BY <3>1
    <2>4. \/ disk'.vg[DiskVg] = "inactive"
          \/ \E i \in 1 .. j - 1 : queue'[i][1] = "vgcfgrestore" /\ queue'[i][2] = DiskVg
        BY <2>1, <2>3
    <2>5. queue'[j][1] = "restart" /\ queue'[j][2] = DiskVg
        BY <2>1, <2>2
    <2>6. QED BY <2>2, <2>4, <2>5 DEF Activated
<1>4. QED BY <1>2, <1>3

(* Handling a call in silence brings the group forward or leaves it.       *)
LEMMA ActivatedHandled ==
    ASSUME TypeOK, Activated, Handled, told' # TRUE, Head(queue)[1] # "remove"
    PROVE  Activated'
<1> SUFFICES ASSUME RestartCall \notin lost PROVE Activated'
    BY HandledFacts DEF Activated, RestartCall
<1>1. queue \in Seq(Calls) /\ queue # <<>> /\ queue' = Tail(queue)
    BY HandledFacts DEF TypeOK
<1>2. /\ Len(queue) \in Nat /\ DOMAIN queue = 1 .. Len(queue)
      /\ DOMAIN queue' = 1 .. Len(queue) - 1
      /\ Head(queue) = queue[1] /\ \A i \in 1 .. Len(queue) - 1 : queue'[i] = queue[i + 1]
    <2>1. /\ queue' \in Seq(Calls) /\ Len(queue') = Len(queue) - 1
          /\ Head(queue) = queue[1] /\ \A i \in 1 .. Len(queue) - 1 : queue'[i] = queue[i + 1]
        BY <1>1, TailElements
    <2>2. QED BY <1>1, <2>1, LenProperties
<1>3. DiskVg \in Vgs /\ ~gdbus_remove_all_vg /\ Arg = queue[1][2]
    BY <1>2, HandledBy DEF Vgs, Arg
<1>4. CASE gdbus_restore_lvm_meta /\ Arg = DiskVg
    <2>1. /\ disk'.vg[DiskVg] = IF disk.vg[DiskVg] \in {"none", "inactive"} THEN "inactive" ELSE "new"
          /\ queue[1][1] = "vgcfgrestore"
        BY <1>2, <1>4, MetaEffect, HandledBy
    <2>2. QED
        <3>1. CASE disk.vg[DiskVg] = "new"
            BY <2>1, <3>1 DEF Activated
        <3>2. CASE disk.vg[DiskVg] # "new"
            <4>1. PICK j \in DOMAIN queue : queue[j][1] = "restart" /\ queue[j][2] = DiskVg
                BY <3>2 DEF Activated
            <4>2. j # 1
                BY <2>1, <4>1
            <4>3. j - 1 \in DOMAIN queue' /\ queue'[j - 1] = queue[j]
                BY <1>2, <4>2
            <4>4. disk'.vg[DiskVg] \in {"inactive", "new"}
                BY <2>1
            <4>5. QED BY <4>1, <4>3, <4>4 DEF Activated
        <3>3. QED BY <3>1, <3>2
<1>5. CASE gdbus_restart_vg /\ Arg = DiskVg
    <2>1. /\ disk.vg[DiskVg] # "none"
          /\ disk'.vg[DiskVg] = IF disk.vg[DiskVg] = "inactive" THEN "new" ELSE disk.vg[DiskVg]
          /\ queue[1][1] = "restart"
        BY <1>2, <1>5, RestartEffect, HandledBy
    <2>2. CASE disk.vg[DiskVg] \in {"new", "inactive"}
        BY <2>1, <2>2 DEF Activated
    <2>3. CASE disk.vg[DiskVg] \notin {"new", "inactive"}
        <3>1. PICK j \in DOMAIN queue :
                 /\ queue[j][1] = "restart" /\ queue[j][2] = DiskVg
                 /\ \E i \in 1 .. j - 1 : queue[i][1] = "vgcfgrestore" /\ queue[i][2] = DiskVg
            BY <2>3 DEF Activated
        <3>2. PICK i \in 1 .. j - 1 : queue[i][1] = "vgcfgrestore" /\ queue[i][2] = DiskVg
            BY <3>1
        <3>3. i # 1
            BY <2>1, <3>2
        <3>4. /\ j - 1 \in DOMAIN queue' /\ queue'[j - 1] = queue[j]
              /\ i - 1 \in 1 .. (j - 1) - 1 /\ queue'[i - 1] = queue[i]
            BY <1>2, <3>3
        <3>5. QED BY <3>1, <3>2, <3>4 DEF Activated
    <2>4. QED BY <2>2, <2>3
<1>6. CASE ~(gdbus_restore_lvm_meta /\ Arg = DiskVg) /\ ~(gdbus_restart_vg /\ Arg = DiskVg)
    <2>1. disk'.vg[DiskVg] = disk.vg[DiskVg]
        <3>1. CASE gdbus_sysbak_ptf
            BY <3>1 DEF gdbus_sysbak_ptf
        <3>2. CASE gdbus_restore_lvm_meta
            BY <1>3, <1>6, <3>2, MetaEffect
        <3>3. CASE gdbus_restart_vg
            BY <1>3, <1>6, <3>3, RestartEffect
        <3>4. CASE gdbus_sysbak_restore
            BY <3>4, RestoreEffect
        <3>5. QED BY <1>3, <3>1, <3>2, <3>3, <3>4 DEF Handled
    <2>2. CASE disk.vg[DiskVg] = "new"
        BY <2>1, <2>2 DEF Activated
    <2>3. CASE disk.vg[DiskVg] # "new"
        <3>1. PICK j \in DOMAIN queue :
                 /\ queue[j][1] = "restart" /\ queue[j][2] = DiskVg
                 /\ \/ disk.vg[DiskVg] = "inactive"
                    \/ \E i \in 1 .. j - 1 : queue[i][1] = "vgcfgrestore" /\ queue[i][2] = DiskVg
            BY <2>3 DEF Activated
        <3>2. ~(queue[1][1] \in {"vgcfgrestore", "restart"} /\ queue[1][2] = DiskVg)
            BY <1>2, <1>3, <1>6, HandledBy
        <3>3. j # 1
            BY <3>1, <3>2
        <3>4. j - 1 \in DOMAIN queue' /\ queue'[j - 1] = queue[j]
            BY <1>2, <3>3
        <3>5. \/ disk'.vg[DiskVg] = "inactive"
              \/ \E i \in 1 .. (j - 1) - 1 : queue'[i][1] = "vgcfgrestore" /\ queue'[i][2] = DiskVg
            <4>1. CASE disk.vg[DiskVg] = "inactive"
                BY <2>1, <4>1
            <4>2. CASE \E i \in 1 .. j - 1 : queue[i][1] = "vgcfgrestore" /\ queue[i][2] = DiskVg
                <5>1. PICK i \in 1 .. j - 1 : queue[i][1] = "vgcfgrestore" /\ queue[i][2] = DiskVg
                    BY <4>2
                <5>2. i # 1
                    BY <3>2, <5>1
                <5>3. i - 1 \in 1 .. (j - 1) - 1 /\ queue'[i - 1] = queue[i]
                    BY <1>2, <5>2
                <5>4. QED BY <5>1, <5>3
            <4>3. QED BY <3>1, <4>1, <4>2
        <3>6. QED BY <3>1, <3>4, <3>5 DEF Activated
    <2>4. QED BY <2>2, <2>3
<1>7. QED BY <1>4, <1>5, <1>6


(* A restore that was called in silence is still called, or done.          *)
LEMMA ImagedHandled ==
    ASSUME TypeOK, Handled, told' # TRUE, Head(queue)[1] \notin {"ptf", "remove"},
           NEW n \in Names, Imaged(n)
    PROVE  Imaged(n)'
<1>1. queue \in Seq(Calls) /\ queue # <<>> /\ queue' = Tail(queue) /\ ops' = ops /\ lost' = lost
    BY HandledFacts DEF TypeOK
<1>2. \A c \in Queued("restore") : c = Head(queue) \/ c \in Queued("restore")'
    BY <1>1, CallTaken
<1>3. ~gdbus_sysbak_ptf /\ ~gdbus_remove_all_vg
    BY HandledBy
<1>4. dir' = dir
    BY <1>3 DEF Handled, gdbus_restore_lvm_meta, gdbus_restart_vg, gdbus_sysbak_restore
<1>5. CASE gdbus_restore_lvm_meta \/ gdbus_restart_vg
    <2>1. disk'.data = disk.data
        BY <1>5, MetaEffect, RestartEffect
    <2>2. Head(queue) \notin Queued("restore")
        BY <1>5, HandledBy DEF Queued
    <2>3. QED BY <1>1, <1>2, <1>4, <2>1, <2>2 DEF Imaged
<1>6. CASE gdbus_sysbak_restore
    <2>1. /\ disk'.data[Arg] = "image"
          /\ \A m \in Names : m # Arg => disk'.data[m] = disk.data[m]
        BY <1>6, RestoreEffect
    <2>2. CASE n = Arg
        BY <1>4, <2>1, <2>2 DEF Imaged
    <2>3. CASE n # Arg
        <3>1. \A c \in Queued("restore") : c[2] = n => c \in Queued("restore")'
            BY <1>2, <2>3 DEF Arg
        <3>2. <<"restore", n, ops>>[2] = n
            OBVIOUS
        <3>3. QED BY <1>1, <1>4, <2>1, <2>3, <3>1, <3>2 DEF Imaged
    <2>4. QED BY <2>2, <2>3
<1>7. QED BY <1>3, <1>5, <1>6 DEF Handled

Done(g) ==
    /\ g = EndGroup /\ dir["lvm"] # NoFile => Activated
    /\ g # EndGroup /\ HasData(g) => Imaged(g.name)

LEMMA DataName ==
    ASSUME world \in Worlds, NEW g \in Groups, g # EndGroup, HasData(g)
    PROVE  g.name \in Names
BY DataGroup, EntryFacts

(* A step of the client handles the next group and keeps the others.       *)
LEMMA GroupDone ==
    ASSUME TypeOK, GroupStep, told' # TRUE, \A g \in Groups : g \in Left \/ Done(g)
    PROVE  \A g \in Groups : g \in Left' \/ Done(g)'
<1>1. /\ pc = "r_group" /\ groups # <<>> /\ groups' = Tail(groups) /\ dir' = dir
      /\ disk'.vg = disk.vg /\ disk'.data = disk.data /\ ops' = ops /\ lost' = lost
    <2>1. /\ pc = "r_group" /\ groups # <<>> /\ groups' = Tail(groups) /\ dir' = dir
          /\ ops' = ops /\ lost' = lost
        BY DEF GroupStep, restore_lvm_pv, activation_lvm_pv, SkipFree,
            restore_disk_partition_data, PvCallLost, Group
    <2>2. CASE restore_lvm_pv
        BY <2>1, <2>2, PvEffect
    <2>3. CASE ~restore_lvm_pv
        BY <2>1, <2>3 DEF GroupStep, activation_lvm_pv, SkipFree, restore_disk_partition_data,
            PvCallLost
    <2>4. QED BY <2>2, <2>3
<1>2. world \in Worlds /\ queue \in Seq(Calls)
    BY DEF TypeOK
<1>3. Left = Left' \cup {Head(groups)} /\ Head(groups) \in Groups
    BY <1>1, NextGroup
<1>4. /\ queue' \in Seq(Calls) /\ Queued("restore") \subseteq Queued("restore")'
      /\ Len(queue) =< Len(queue') /\ \A i \in 1 .. Len(queue) : queue'[i] = queue[i]
    <2>1. CASE activation_lvm_pv
        BY <2>1, ActivationEffect
    <2>2. CASE restore_disk_partition_data
        <3>1. /\ queue' \in Seq(Calls)
              /\ Len(queue) =< Len(queue') /\ \A i \in 1 .. Len(queue) : queue'[i] = queue[i]
            BY <2>2, DataEffect
        <3>2. DOMAIN queue = 1 .. Len(queue) /\ DOMAIN queue' = 1 .. Len(queue')
              /\ Len(queue) \in Nat /\ Len(queue') \in Nat
            BY <1>2, <3>1, LenProperties
        <3>3. \A i \in DOMAIN queue : i \in DOMAIN queue' /\ queue'[i] = queue[i]
            BY <3>1, <3>2
        <3>4. QED BY <3>1, <3>3 DEF Queued
    <2>3. CASE restore_lvm_pv \/ SkipFree \/ PvCallLost
        <3>1. queue' = queue /\ Len(queue) \in Nat
            BY <1>2, <2>3, LenProperties DEF restore_lvm_pv, SkipFree, PvCallLost
        <3>2. QED BY <1>2, <3>1 DEF Queued
    <2>4. QED BY <2>1, <2>2, <2>3 DEF GroupStep
<1>5. Activated => Activated'
    BY <1>1, <1>2, <1>4, ActivatedGrows
<1>6. \A n : Imaged(n) => Imaged(n)'
    BY <1>1, <1>4 DEF Imaged
<1>7. \A g \in Groups : Done(g) => Done(g)'
    BY <1>1, <1>5, <1>6 DEF Done, EndGroup, HasData
<1>8. \A g : g = Head(groups) => Done(g)'
    <2> DEFINE h == Head(groups)
    <2>1. h.name = "end" <=> h = EndGroup
        BY <1>2, <1>3, DataGroup
    <2>2. ASSUME ~HasData(h), h # EndGroup
          PROVE  (\A g : g = h => Done(g)')
        BY <2>2 DEF Done, HasData, EndGroup
    <2>3. ASSUME NEW g, g = h
          PROVE  Done(g)'
        <3>1. CASE restore_lvm_pv \/ PvCallLost
            <4>1. h.fs = "LVM2_member"
                BY <3>1 DEF restore_lvm_pv, PvCallLost, Group
            <4>2. ~HasData(h) /\ h # EndGroup
                BY <4>1 DEF HasData, EndGroup
            <4>3. QED BY <2>2, <2>3, <4>2
        <3>2. CASE SkipFree
            <4>1. h.fs = "free" /\ h.name # "end"
                BY <3>2 DEF SkipFree, Group
            <4>2. ~HasData(h)
                BY <4>1 DEF HasData
            <4>3. QED BY <2>1, <2>2, <2>3, <4>1, <4>2
        <3>3. CASE activation_lvm_pv
            <4>1. h = EndGroup
                BY <2>1, <3>3 DEF activation_lvm_pv, Group
            <4>2. dir["lvm"] # NoFile => Activated'
                <5>1. SUFFICES ASSUME dir["lvm"] # NoFile PROVE Activated'
                    OBVIOUS
                <5>2. PICK j \in 1 .. Len(queue') : \E i \in 1 .. j - 1 :
                        /\ queue'[j][1] = "restart" /\ queue'[j][2] = DiskVg
                        /\ queue'[i][1] = "vgcfgrestore" /\ queue'[i][2] = DiskVg
                    BY <3>3, <5>1, ActivationEffect
                <5>3. DOMAIN queue' = 1 .. Len(queue')
                    BY <1>4, LenProperties
                <5>4. QED BY <5>2, <5>3 DEF Activated
            <4>3. QED BY <1>1, <2>3, <4>1, <4>2 DEF Done, EndGroup
        <3>4. CASE restore_disk_partition_data
            <4>1. /\ RestoreAccepted(h) /\ <<"restore", h.name, ops>> \in Queued("restore")'
                BY <3>4, DataEffect
            <4>2. dir[h.name] # NoFile
                BY <4>1 DEF RestoreAccepted
            <4>3. <<"restore", h.name, ops>>[2] = h.name
                OBVIOUS
            <4>4. \A n : n = h.name => Imaged(n)'
                BY <1>1, <4>1, <4>2, <4>3 DEF Imaged
            <4>5. h # EndGroup
                BY <2>1, <3>4 DEF restore_disk_partition_data, Group
            <4>6. g.name = h.name /\ g # EndGroup /\ EndGroup' = EndGroup
                BY <2>3, <4>5 DEF EndGroup
            <4>7. Imaged(g.name)'
                BY <4>4, <4>6
            <4>8. QED BY <4>6, <4>7 DEF Done
        <3>5. QED BY <3>1, <3>2, <3>3, <3>4 DEF GroupStep
    <2>4. QED BY <2>3
<1>9. QED BY <1>3, <1>7, <1>8


LEMMA HandledDone ==
    ASSUME TypeOK, Handled, told' # TRUE, Queued("ptf") = {}, Queued("remove") = {},
           \A g \in Groups : g \in Left \/ Done(g)
    PROVE  dir' = dir /\ \A g \in Groups : g \in Left' \/ Done(g)'
<1>1. queue \in Seq(Calls) /\ queue # <<>> /\ queue' = Tail(queue) /\ groups' = groups
    BY HandledFacts DEF TypeOK
<1>2. Head(queue) \in Queued(Head(queue)[1])
    BY <1>1, CallTaken
<1>3. Head(queue)[1] \notin {"ptf", "remove"}
    BY <1>2
<1>4. dir' = dir
    <2>1. ~gdbus_sysbak_ptf /\ ~gdbus_remove_all_vg
        BY <1>3, HandledBy
    <2>2. QED BY <2>1 DEF Handled, gdbus_restore_lvm_meta, gdbus_restart_vg, gdbus_sysbak_restore
<1>5. Left' = Left /\ world \in Worlds
    BY <1>1 DEF Left, TypeOK
<1>6. Activated => Activated'
    BY <1>3, ActivatedHandled
<1>7. ASSUME NEW g \in Groups, Done(g)
      PROVE  Done(g)'
    <2>1. CASE g = EndGroup
        BY <1>4, <1>6, <1>7, <2>1 DEF Done, EndGroup
    <2>2. CASE g # EndGroup /\ ~HasData(g)
        BY <2>2 DEF Done, EndGroup, HasData
    <2>3. CASE g # EndGroup /\ HasData(g)
        <3>1. g.name \in Names /\ Imaged(g.name)
            BY <1>5, <1>7, <2>3, DataName DEF Done
        <3>2. Imaged(g.name)'
            BY <1>3, <3>1, ImagedHandled
        <3>3. QED BY <2>3, <3>2 DEF Done, EndGroup
    <2>4. QED BY <2>1, <2>2, <2>3
<1>8. QED BY <1>4, <1>5, <1>7

(* The death of the daemon takes only calls of the restore that is quiet,  *)
(* and they count as lost.                                                 *)
LEMMA DeathDone ==
    ASSUME TypeOK, DaemonDies, told' # TRUE, ~told', Queued("ptf") = {},
           \A i \in DOMAIN queue : queue[i][3] = ops,
           \A g \in Groups : g \in Left \/ Done(g)
    PROVE  dir' = dir /\ \A g \in Groups : g \in Left' \/ Done(g)'
<1>1. /\ dir' = dir /\ groups' = groups /\ ops' = ops /\ lost' = lost \cup Silent
      /\ disk'.vg = disk.vg
    BY DeathEffect
<1>2. Left' = Left /\ world \in Worlds /\ queue \in Seq(Calls)
    BY <1>1 DEF Left, TypeOK
<1>3. ASSUME NEW m, NEW c \in Queued(m)
      PROVE  c = <<m, c[2], ops>>
    <2>1. c \in Calls /\ c[1] = m
        BY <1>2, <1>3, QueuedCalls
    <2>2. PICK i \in DOMAIN queue : c = queue[i]
        BY <1>3 DEF Queued
    <2>3. c[3] = ops
        BY <2>2
    <2>4. QED BY <2>1, <2>3 DEF Calls
<1>4. Activated => Activated'
    <2>1. SUFFICES ASSUME Activated PROVE Activated'
        OBVIOUS
    <2>2. CASE disk.vg[DiskVg] = "new"
        BY <1>1, <2>2 DEF Activated
    <2>3. CASE RestartCall \in lost
        BY <1>1, <2>3 DEF Activated, RestartCall
    <2>4. CASE \E j \in DOMAIN queue : queue[j][1] = "restart" /\ queue[j][2] = DiskVg
        <3>1. PICK j \in DOMAIN queue : queue[j][1] = "restart" /\ queue[j][2] = DiskVg
            BY <2>4
        <3>2. queue[j] \in Queued("restart")
            BY <3>1 DEF Queued
        <3>3. <<"restart", DiskVg, ops>> \in Queued("restart")
            BY <1>3, <3>1, <3>2
        <3>4. RestartCall \in lost'
            BY <1>1, <3>3 DEF Silent
        <3>5. QED BY <3>4 DEF Activated, RestartCall
    <2>5. QED BY <2>1, <2>2, <2>3, <2>4 DEF Activated
<1>5. ASSUME NEW n \in Names, Imaged(n)
      PROVE  Imaged(n)'
    <2>1. CASE <<"restore", n, ops>> \in Queued("restore")
        <3>1. <<"restore", n>> \in lost'
            BY <1>1, <2>1 DEF Silent
        <3>2. QED BY <1>1, <1>5, <3>1 DEF Imaged
    <2>2. CASE <<"restore", n>> \in lost
        BY <1>1, <1>5, <2>2 DEF Imaged
    <2>3. CASE disk.data[n] = "image"
        <3>1. CASE disk'.data[n] = disk.data[n]
            BY <1>1, <1>5, <2>3, <3>1 DEF Imaged
        <3>2. CASE Head(queue) \in Queued("restore") /\ Arg = n
            <4>1. Head(queue) = <<"restore", n, ops>>
                BY <1>3, <3>2 DEF Arg
            <4>2. QED BY <2>1, <3>2, <4>1
        <3>3. QED BY <3>1, <3>2, DeathEffect
    <2>4. QED BY <1>5, <2>1, <2>2, <2>3 DEF Imaged
<1>6. ASSUME NEW g \in Groups, Done(g)
      PROVE  Done(g)'
    <2>1. CASE g = EndGroup
        BY <1>1, <1>4, <1>6, <2>1 DEF Done, EndGroup
    <2>2. CASE g # EndGroup /\ ~HasData(g)
        BY <2>2 DEF Done, EndGroup, HasData
    <2>3. CASE g # EndGroup /\ HasData(g)
        <3>1. g.name \in Names /\ Imaged(g.name)
            BY <1>2, <1>6, <2>3, DataName DEF Done
        <3>2. Imaged(g.name)'
            BY <1>5, <3>1
        <3>3. QED BY <2>3, <3>2 DEF Done, EndGroup
    <2>4. QED BY <2>1, <2>2, <2>3
<1>7. QED BY <1>1, <1>2, <1>6

(* A quiet restore has only its own calls in the queue.                    *)
LEMMA OwnCalls ==
    ASSUME TypeOK, Handled \/ GroupStep \/ RestoreReturns \/ DaemonDies,
           \A i \in DOMAIN queue : queue[i][3] = ops
    PROVE  \A i \in DOMAIN queue' : queue'[i][3] = ops'
<1>1. queue \in Seq(Calls) /\ Len(queue) \in Nat /\ DOMAIN queue = 1 .. Len(queue)
    BY LenProperties DEF TypeOK
<1>2. ops' = ops
    BY HandledFacts DEF GroupStep, restore_lvm_pv, activation_lvm_pv, SkipFree,
        restore_disk_partition_data, PvCallLost, RestoreReturns, DaemonDies
<1>3. CASE Handled
    <2>1. queue # <<>> /\ queue' = Tail(queue)
        BY <1>3, HandledFacts
    <2>2. /\ queue' \in Seq(Calls) /\ Len(queue') = Len(queue) - 1
          /\ \A i \in 1 .. Len(queue) - 1 : queue'[i] = queue[i + 1]
        BY <1>1, <2>1, TailElements
    <2>3. DOMAIN queue' = 1 .. Len(queue) - 1 /\ \A i \in 1 .. Len(queue) - 1 : i + 1 \in DOMAIN queue
        BY <1>1, <2>2, LenProperties
    <2>4. QED BY <1>2, <2>2, <2>3
<1>4. CASE activation_lvm_pv \/ restore_disk_partition_data
    <2>1. /\ queue' \in Seq(Calls)
          /\ \A i \in 1 .. Len(queue) : queue'[i] = queue[i]
          /\ \A i \in Len(queue) + 1 .. Len(queue') : queue'[i][3] = ops
        BY <1>4, ActivationEffect, DataEffect
    <2>2. DOMAIN queue' = 1 .. Len(queue') /\ Len(queue') \in Nat
        BY <2>1, LenProperties
    <2>3. \A i \in 1 .. Len(queue') : i \in 1 .. Len(queue) \/ i \in Len(queue) + 1 .. Len(queue')
        BY <1>1, <2>2
    <2>4. QED BY <1>1, <1>2, <2>1, <2>2, <2>3
<1>5. CASE restore_lvm_pv \/ SkipFree \/ PvCallLost \/ RestoreReturns
    <2>1. queue' = queue
        BY <1>5 DEF restore_lvm_pv, SkipFree, PvCallLost, RestoreReturns
    <2>2. QED BY <1>2, <2>1
<1>6. CASE DaemonDies
    <2>1. queue' = <<>>
        BY <1>6, DeathEffect
    <2>2. QED BY <2>1
<1>7. QED BY <1>3, <1>4, <1>5, <1>6 DEF GroupStep

LEMMA QuietStep ==
    ASSUME TypeOK, BackupTold, TableFirst, QuietProgress, [Next]_vars
    PROVE  QuietProgress'
<1>1. Groups' = Groups /\ EndGroup' = EndGroup
    BY WorldStays, SameWorld DEF EndGroup
<1>2. CASE UNCHANGED vars
    <2>1. /\ dir' = dir /\ disk' = disk /\ queue' = queue /\ groups' = groups
          /\ pc' = pc /\ ret' = ret /\ told' = told /\ ops' = ops /\ lost' = lost
        BY <1>2 DEF vars
    <2>2. /\ Quiet' = Quiet /\ Left' = Left /\ Activated' = Activated
          /\ \A m : Queued(m)' = Queued(m)
        BY <2>1 DEF Quiet, Left, Activated, Queued, RestartCall
    <2>3. \A n : Imaged(n)' = Imaged(n)
        BY <2>1, <2>2 DEF Imaged
    <2>4. \A g : HasData(g)' = HasData(g)
        BY DEF HasData
    <2>5. QED BY <1>1, <2>1, <2>2, <2>3, <2>4 DEF QuietProgress
<1>3. CASE Next
    <2>1. pc' = "r_table" /\ dir'["mbr"].ok => disk'.mbr = "backup"
        <3>1. SUFFICES ASSUME pc' = "r_table", dir'["mbr"].ok PROVE disk'.mbr = "backup"
            OBVIOUS
        <3>2. restore_disk_mbr
            <4>1. ASSUME pc = "r_table", queue # <<>>
                  PROVE  FALSE
                BY <4>1 DEF TableFirst
            <4>2. QED BY <1>3, <3>1, <4>1, PcInRestore
        <3>3. dir' = dir
            BY <3>2 DEF restore_disk_mbr
        <3>4. QED BY <3>1, <3>2, <3>3, MbrEffect
    <2> DEFINE Goal == /\ Queued("ptf")' = {} /\ Queued("remove")' = {}
                       /\ \A i \in DOMAIN queue' : queue'[i][3] = ops'
                       /\ disk'.table = "backup" /\ (dir'["mbr"].ok => disk'.mbr = "backup")
                       /\ \A g \in Groups : g \in Left' \/ Done(g)'
    <2>2. ASSUME restore_partition_table, pc' = "r_group"
          PROVE  Goal
        <3>1. /\ pc = "r_table" /\ queue = <<>> /\ queue' = queue /\ dir' = dir
              /\ groups' = json_parse_array
            BY <2>2 DEF restore_partition_table, Sync, Return
        <3>2. \A m : Queued(m)' = {}
            BY <3>1 DEF Queued
        <3>3. Left' = Groups
            BY <3>1 DEF Left, Groups
        <3>4. disk'.table = "backup" /\ disk'.mbr = disk.mbr
            BY <2>2, TableEffect
        <3>5. dir["mbr"].ok => disk.mbr = "backup"
            BY <3>1 DEF QuietProgress
        <3>6. \A i \in DOMAIN queue' : queue'[i][3] = ops'
            BY <3>1
        <3>7. QED BY <3>1, <3>2, <3>3, <3>4, <3>5, <3>6
    <2>3. ASSUME Quiet, Handled \/ GroupStep \/ RestoreReturns \/ DaemonDies, ~told'
          PROVE  Goal
        <3>1. /\ Queued("ptf") = {} /\ Queued("remove") = {}
              /\ \A i \in DOMAIN queue : queue[i][3] = ops
              /\ disk.table = "backup" /\ (dir["mbr"].ok => disk.mbr = "backup")
              /\ \A g \in Groups : g \in Left \/ Done(g)
            BY <2>3 DEF QuietProgress, Done
        <3>2. pc \in {"r_group", "idle"}
            BY <2>3 DEF Quiet
        <3>3. /\ ~BackupGroup /\ ~CheckRestore /\ ~restore_partition_table /\ ~restore_disk_mbr
              /\ ~TableCallLost
            BY <3>2 DEF BackupGroup, CheckRestore, restore_partition_table, restore_disk_mbr,
                TableCallLost, Sync
        <3>4. Queued("ptf")' = {} /\ Queued("remove")' = {}
            BY <1>3, <3>1, <3>3, QueuedAfter
        <3>5. disk'.table = disk.table /\ disk'.mbr = disk.mbr
            BY <1>3, <3>3, DiskSteps, PvEffect, RemoveEffect, MetaEffect, RestartEffect, RestoreEffect,
               DeathEffect
        <3>6. dir' = dir /\ \A g \in Groups : g \in Left' \/ Done(g)'
            <4>1. told' # TRUE
                BY <2>3
            <4>2. CASE Handled
                BY <3>1, <4>1, <4>2, HandledDone
            <4>3. CASE GroupStep
                <5>1. dir' = dir
                    BY <4>3 DEF GroupStep, restore_lvm_pv, activation_lvm_pv, SkipFree,
                        restore_disk_partition_data, PvCallLost
                <5>2. QED BY <3>1, <4>1, <4>3, <5>1, GroupDone
            <4>4. CASE RestoreReturns
                <5>1. /\ dir' = dir /\ disk' = disk /\ queue' = queue /\ groups' = groups
                      /\ ops' = ops /\ lost' = lost
                    BY <4>4 DEF RestoreReturns
                <5>2. Left' = Left /\ Activated' = Activated /\ \A n : Imaged(n)' = Imaged(n)
                    BY <5>1 DEF Left, Activated, Imaged, Queued, RestartCall
                <5>3. \A g : Done(g) => Done(g)'
                    BY <5>1, <5>2 DEF Done, EndGroup, HasData
                <5>4. QED BY <3>1, <5>1, <5>2, <5>3
            <4>5. CASE DaemonDies
                BY <2>3, <3>1, <4>1, <4>5, DeathDone
            <4>6. QED BY <2>3, <4>2, <4>3, <4>4, <4>5
        <3>7. \A i \in DOMAIN queue' : queue'[i][3] = ops'
            BY <2>3, <3>1, OwnCalls
        <3>8. QED BY <3>1, <3>4, <3>5, <3>6, <3>7
    <2>4. Quiet' => Goal
        <3>1. SUFFICES ASSUME Quiet' PROVE Goal
            OBVIOUS
        <3>2. ~told'
            BY <3>1 DEF Quiet
        <3> HIDE DEF Goal
        <3>3. QED BY <1>3, <2>2, <2>3, <3>1, <3>2, QuietBefore
    <2>5. (Quiet => /\ Queued("ptf") = {} /\ Queued("remove") = {}
                    /\ \A i \in DOMAIN queue : queue[i][3] = ops
                    /\ disk.table = "backup" /\ (dir["mbr"].ok => disk.mbr = "backup")
                    /\ \A g \in Groups : g \in Left \/ Done(g))'
        BY <1>1, <2>4
    <2>6. QED BY <2>1, <2>5 DEF QuietProgress, Done
<1>4. QED BY <1>2, <1>3
-----------------------------------------------------------------------------
(* The theorems.                                                           *)

(* Whatever is backed up and restored, whatever fails, and whenever the    *)
(* client or the daemon dies (sysbak-disk.c, gdbus-disk.c): the files of a *)
(* directory are those of one backup, made in their order; what is mounted *)
(* and the groups of other disks stay; and a restore without an error to   *)
(* report has done everything so far but what died with the daemon.        *)
THEOREM DiskJobIsInvariant == Spec => []DiskJobInvariant
<1>1. Init => DiskJobInvariant
    BY InitHolds
<1>2. DiskJobInvariant /\ [Next]_vars => DiskJobInvariant'
    <2> SUFFICES ASSUME DiskJobInvariant, [Next]_vars PROVE DiskJobInvariant'
        OBVIOUS
    <2>1. /\ TypeOK /\ OneBackup /\ ImagesLast /\ BackupTold
          /\ OthersKept /\ MountedSeen /\ TableFirst /\ QuietProgress
        BY DEF DiskJobInvariant
    <2>2. TypeOK'
        BY <2>1, TypeStep
    <2>3. OneBackup'
        BY <2>1, OneBackupStep
    <2>4. ImagesLast'
        BY <2>1, ImagesLastStep
    <2>5. BackupTold'
        BY <2>1, BackupToldStep
    <2>6. OthersKept' /\ MountedSeen'
        BY <2>1, OthersStep
    <2>7. TableFirst'
        BY <2>1, TableFirstStep
    <2>8. QuietProgress'
        BY <2>1, QuietStep
    <2>9. QED BY <2>2, <2>3, <2>4, <2>5, <2>6, <2>7, <2>8 DEF DiskJobInvariant
<1>3. QED BY <1>1, <1>2, PTL DEF Spec

(* All files of a backup directory come from one backup, however often it  *)
(* is repeated (create_target_dir refuses a directory that is there).      *)
THEOREM DirectoryOfOneRun == Spec => []OneRunPerDirectory
<1>1. DiskJobInvariant => OneRunPerDirectory
    BY DEF DiskJobInvariant, OneBackup, ByThis, OneRunPerDirectory
<1>2. QED BY <1>1, DiskJobIsInvariant, PTL

(* A restore touches nothing that it was not asked to: nothing mounted,    *)
(* and no group of another disk unless the names are confused.             *)
THEOREM OthersAreKept == Spec => []OthersKept
<1>1. DiskJobInvariant => OthersKept
    BY DEF DiskJobInvariant
<1>2. QED BY <1>1, DiskJobIsInvariant, PTL

(* A restore of a disk that returned TRUE and emitted no error, with all   *)
(* its calls handled or lost, has restored all of the disk but what was    *)
(* lost with the daemon: of the failures of the calls whose results it     *)
(* ignores, that one alone reaches nobody (call_sysbak_restore gets the    *)
(* error and does not emit it).                                            *)
THEOREM SilenceIsSuccess == Spec => []NoNewsIsGoodNews
<1>1. DiskJobInvariant => NoNewsIsGoodNews
    <2> SUFFICES ASSUME DiskJobInvariant, pc = "idle", ret = "true", queue = <<>>, ~told,
                        NEW e \in DOMAIN Entries, HasData(Entries[e])
                 PROVE  /\ disk.mbr = "backup" /\ disk.table = "backup"
                        /\ \A i \in DOMAIN Entries :
                              /\ HasData(Entries[i]) =>
                                    \/ disk.data[Entries[i].name] = "image"
                                    \/ <<"restore", Entries[i].name>> \in lost
                              /\ Entries[i].lv => disk.vg[DiskVg] = "new" \/ RestartCall \in lost
        BY DEF NoNewsIsGoodNews
    <2>1. TypeOK /\ ImagesLast /\ QuietProgress /\ Quiet
        BY DEF DiskJobInvariant, Quiet
    <2>2. world \in Worlds /\ groups = <<>>
        BY <2>1 DEF TypeOK
    <2>3. Left = {} /\ \A m : Queued(m) = {}
        BY <2>2, NothingQueued DEF Left
    <2>4. /\ disk.table = "backup" /\ (dir["mbr"].ok => disk.mbr = "backup")
          /\ \A g \in Groups : Done(g)
        BY <2>1, <2>3 DEF QuietProgress, Done
    <2>5. ASSUME NEW i \in DOMAIN Entries, HasData(Entries[i])
          PROVE  /\ \/ disk.data[Entries[i].name] = "image"
                    \/ <<"restore", Entries[i].name>> \in lost
                 /\ Entries[i].name \in Names /\ dir[Entries[i].name] # NoFile
        <3>1. Entries[i] \in Groups /\ Entries[i] # EndGroup
            BY <2>2, GroupFacts, EntryFacts DEF EndGroup
        <3>2. Imaged(Entries[i].name)
            BY <2>4, <2>5, <3>1 DEF Done
        <3>3. Entries[i].name \in Names
            BY <2>2, EntryFacts
        <3>4. QED BY <2>3, <3>2, <3>3 DEF Imaged
    <2>6. dir["mbr"].ok /\ dir["lvm"].ok
        <3>1. \E n \in Names : dir[n] # NoFile
            BY <2>5
        <3>2. Whole({"lvm", "info", "table", "mbr"})
            BY <2>1, <3>1 DEF ImagesLast
        <3>3. QED BY <3>2 DEF Whole
    <2>7. disk.vg[DiskVg] = "new" \/ RestartCall \in lost
        <3>1. dir["lvm"] # NoFile
            BY <2>6 DEF NoFile
        <3>2. Activated
            BY <2>2, <2>4, <3>1, GroupFacts DEF Done
        <3>3. DOMAIN queue = {}
            OBVIOUS
        <3>4. QED BY <3>2, <3>3 DEF Activated
    <2>8. QED BY <2>4, <2>5, <2>6, <2>7
<1>2. QED BY <1>1, DiskJobIsInvariant, PTL

(* The order of a restore: the space is checked before the table is        *)
(* written, and an image is written only behind the table of the backup.   *)
THEOREM OrderIsKept == Spec => RestoreInOrder
<1> DEFINE After == \A n \in Names :
                        disk'.data[n] \notin {"old", disk.data[n]} => disk.table = "backup"
           Enough == disk.table # "backup" /\ disk'.table = "backup" /\ ~told /\ SizeCall \notin lost
                        => Fits
<1>1. DiskJobInvariant /\ [Next]_vars => [After]_vars /\ [Enough]_vars
    <2> SUFFICES ASSUME DiskJobInvariant, Next PROVE After /\ Enough
        OBVIOUS
    <2>1. TypeOK /\ TableFirst
        BY DEF DiskJobInvariant
    <2>2. After
        <3>1. CASE disk'.data = disk.data
            BY <3>1
        <3>2. CASE gdbus_remove_all_vg
            BY <2>1, <3>2, RemoveEffect
        <3>3. CASE gdbus_sysbak_restore \/ (DaemonDies /\ disk' # disk)
            <4>1. Head(queue) \in Queued("restore")
                BY <2>1, <3>3, RestoreEffect, DeathEffect
            <4>2. disk.table = "backup"
                BY <2>1, <4>1 DEF TableFirst
            <4>3. QED BY <4>2
        <3>4. CASE restore_disk_mbr \/ restore_partition_table \/ restore_lvm_pv
                     \/ gdbus_restore_lvm_meta \/ gdbus_restart_vg \/ TableCallLost
            BY <2>1, <3>1, <3>4, MbrEffect, TableEffect, PvEffect, MetaEffect, RestartEffect,
               TableLostEffect
        <3>5. QED BY <3>1, <3>2, <3>3, <3>4, DiskSteps
    <2>3. Enough
        <3>1. CASE restore_partition_table \/ TableCallLost
            <4>1. pc = "r_table"
                BY <3>1 DEF restore_partition_table, TableCallLost, Sync
            <4>2. disk'.table = "backup" => disk.table = "backup" \/ dir["table"].ok
                BY <2>1, <3>1, TableEffect, TableLostEffect
            <4>3. QED BY <2>1, <4>1, <4>2 DEF TableFirst
        <3>2. CASE ~restore_partition_table /\ ~TableCallLost
            BY <2>1, <3>2, TableStays
        <3>3. QED BY <3>1, <3>2
    <2>4. QED BY <2>2, <2>3
<1>2. Spec => [][After]_vars
    BY <1>1, DiskJobIsInvariant, PTL DEF Spec
<1>3. Spec => [][Enough]_vars
    BY <1>1, DiskJobIsInvariant, PTL DEF Spec
<1>4. QED BY <1>2, <1>3 DEF RestoreInOrder, DataAfterTable, SpaceCheckSound
=============================================================================
