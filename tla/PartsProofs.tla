----------------------------- MODULE PartsProofs -----------------------------
(***************************************************************************)
(* Proofs about the six modules of Parts, for all their constants: the     *)
(* inductive invariants of HashCache, ProxyServer, ThreadPool and          *)
(* FastcgiProcess, and that what AsyncRunnerProofs and ContinuumProofs     *)
(* show of their modules holds of the parts.  Each section begins with     *)
(* what a step of Next is for its part: an action of it, or no change.     *)
(***************************************************************************)
EXTENDS Parts, FiniteSetTheorems, SequenceTheorems, TLAPS

\* The operators of the community modules are the same in each instance.
LEMMA SameCardinality == \A T : H!Cardinality(T) = Cardinality(T)
BY DEF Cardinality, H!Cardinality

\* A sequence without the element at p.
LEMMA RemovedAt ==
  ASSUME NEW T, NEW s \in Seq(T), NEW p \in 1 .. Len(s), NEW t,
         t = H!RemoveAt(s, p) \/ t = P!RemoveAt(s, p)
  PROVE  /\ t \in Seq(T) /\ Len(t) = Len(s) - 1
         /\ \A i \in 1 .. Len(s) - 1 : t[i] = IF i < p THEN s[i] ELSE s[i + 1]
<1> DEFINE x == SubSeq(s, 1, p - 1)  y == SubSeq(s, p + 1, Len(s))
<1>1. Len(s) \in Nat /\ p \in Nat /\ p >= 1 /\ p <= Len(s)
      /\ \A i \in 1 .. Len(s) : s[i] \in T
  BY LenProperties, ElementOfSeq
<1>2. x \in Seq(T) /\ Len(x) = p - 1 /\ \A i \in 1 .. p - 1 : x[i] = s[i]
  <2>1. \A i \in 1 .. p - 1 : s[i] \in T
    BY <1>1
  <2>2. /\ x \in Seq(T) /\ Len(x) = IF 1 <= p - 1 THEN p - 1 - 1 + 1 ELSE 0
        /\ \A i \in 1 .. p - 1 - 1 + 1 : x[i] = s[1 + i - 1]
    BY <1>1, <2>1, SubSeqProperties
  <2> HIDE DEF x
  <2> QED
    BY <1>1, <2>2
<1>3. y \in Seq(T) /\ Len(y) = Len(s) - p /\ \A i \in 1 .. Len(s) - p : y[i] = s[p + i]
  <2>1. \A i \in p + 1 .. Len(s) : s[i] \in T
    BY <1>1
  <2>2. /\ y \in Seq(T) /\ Len(y) = IF p + 1 <= Len(s) THEN Len(s) - (p + 1) + 1 ELSE 0
        /\ \A i \in 1 .. Len(s) - (p + 1) + 1 : y[i] = s[p + 1 + i - 1]
    BY <1>1, <2>1, SubSeqProperties
  <2> HIDE DEF y
  <2> QED
    BY <1>1, <2>2
<1>4. t = x \o y
  BY DEF H!RemoveAt, P!RemoveAt
<1> HIDE DEF x, y
<1>5. /\ t \in Seq(T) /\ Len(t) = Len(x) + Len(y)
      /\ \A i \in 1 .. Len(x) + Len(y) : t[i] = IF i <= Len(x) THEN x[i] ELSE y[i - Len(x)]
  BY <1>2, <1>3, <1>4, ConcatProperties
<1>6. Len(t) = Len(s) - 1
  <2>1. Len(t) = Len(x) + Len(y) /\ Len(x) = p - 1 /\ Len(y) = Len(s) - p
    BY <1>2, <1>3, <1>5
  <2> QED
    BY <1>1, <2>1
<1>7. ASSUME NEW i \in 1 .. Len(s) - 1
      PROVE  t[i] = IF i < p THEN s[i] ELSE s[i + 1]
  <2>1. CASE i < p
    <3>1. i \in 1 .. p - 1 /\ i <= p - 1 /\ i \in 1 .. (p - 1) + (Len(s) - p)
      BY <1>1, <2>1
    <3>2. Len(x) = p - 1 /\ Len(y) = Len(s) - p
      BY <1>2, <1>3
    <3>3. t[i] = x[i]
      BY <1>5, <3>1, <3>2
    <3> QED
      BY <1>2, <2>1, <3>1, <3>3
  <2>2. CASE ~ (i < p)
    <3>1. i - (p - 1) \in 1 .. Len(s) - p /\ ~ (i <= p - 1) /\ i \in 1 .. (p - 1) + (Len(s) - p)
      BY <1>1, <2>2
    <3>2. Len(x) = p - 1 /\ Len(y) = Len(s) - p
      BY <1>2, <1>3
    <3>3. t[i] = y[i - (p - 1)]
      BY <1>5, <3>1, <3>2
    <3>4. y[i - (p - 1)] = s[p + (i - (p - 1))] /\ p + (i - (p - 1)) = i + 1
      BY <1>1, <1>3, <3>1
    <3> QED
      BY <2>2, <3>3, <3>4
  <2> QED
    BY <2>1, <2>2
<1> QED
  BY <1>5, <1>6, <1>7

-----------------------------------------------------------------------------
(* HashCache. *)

\* The entries of the list are of different calls of Insert.
EntriesDiffer ==
  \A i, j \in DOMAIN list : /\ list[i].id <= inserted
                            /\ i # j => list[i].id # list[j].id

\* The inductive invariant of HashCache.
CacheInv ==
  H!TypeOK /\ EntriesDiffer /\ H!ListMatchesMap /\ H!ReplaceIsDue /\ H!OversizeIsAnswered

\* What the proofs use of a list that is typed.
LEMMA ListTyped ==
  ASSUME H!TypeOK
  PROVE  /\ list \in Seq(H!Entries) /\ Len(list) \in Nat /\ DOMAIN list = 1 .. Len(list)
         /\ \A i \in 1 .. Len(list) :
              /\ list[i] \in H!Entries /\ list[i].key \in Keys /\ list[i].id \in Nat
              /\ list[i].id # 0 /\ list[i] = [key |-> list[i].key, id |-> list[i].id]
         /\ MaxInserts \in Nat /\ CacheSize \in Nat
         /\ map \in [Keys -> Nat] /\ inserted \in Nat
<1>1. MaxInserts \in Nat /\ CacheSize \in Nat
  BY PartsAssumption DEF H!CacheAssumption
<1>2. list \in Seq(H!Entries)
  BY DEF H!TypeOK
<1>3. Len(list) \in Nat /\ DOMAIN list = 1 .. Len(list)
      /\ \A i \in 1 .. Len(list) : list[i] \in H!Entries
  BY <1>2, LenProperties, ElementOfSeq
<1>4. \A e \in H!Entries : /\ e.key \in Keys /\ e.id \in Nat /\ e.id # 0
                           /\ e = [key |-> e.key, id |-> e.id]
  BY <1>1 DEF H!Entries
<1>5. map \in [Keys -> Nat] /\ inserted \in Nat
  BY <1>1 DEF H!TypeOK
<1> QED
  BY <1>1, <1>2, <1>3, <1>4, <1>5

\* The map has an entry for each of its keys, so it is not larger than the list.
LEMMA CachedFits ==
  ASSUME H!TypeOK, H!ListMatchesMap
  PROVE  /\ IsFiniteSet(H!Cached) /\ H!Size \in Nat /\ H!Size <= Len(list)
<1> DEFINE f == [i \in 1 .. Len(list) |-> list[i].key]
           T == {list[i].key : i \in 1 .. Len(list)}
<1>1. f \in Surjection(1 .. Len(list), T)
  BY DEF Surjection
<1>2. IsFiniteSet(1 .. Len(list)) /\ Cardinality(1 .. Len(list)) = Len(list)
  <2>1. Len(list) \in Nat
    BY ListTyped
  <2>2. IsFiniteSet(1 .. Len(list)) /\ Cardinality(1 .. Len(list)) =
          IF 1 > Len(list) THEN 0 ELSE Len(list) - 1 + 1
    BY <2>1, FS_Interval, SMTT(30)
  <2> QED
    BY <2>1, <2>2
<1>3. H!Cached \subseteq T
  BY ListTyped DEF H!ListMatchesMap, H!EntryOf
<1> HIDE DEF f, T
<1>4. IsFiniteSet(T) /\ Cardinality(T) <= Len(list)
  BY <1>1, <1>2, FS_Surjection
<1>5. IsFiniteSet(H!Cached) /\ Cardinality(H!Cached) <= Cardinality(T)
  BY <1>3, <1>4, FS_Subset
<1>6. Cardinality(T) \in Nat /\ Cardinality(H!Cached) \in Nat
  BY <1>4, <1>5, FS_CardinalityType
<1>7. Len(list) \in Nat
  BY ListTyped
<1>8. H!Size = Cardinality(H!Cached)
  BY SameCardinality DEF H!Size
<1> QED
  BY <1>4, <1>5, <1>6, <1>7, <1>8

\* Replace erases entries that there are: as many as are over the limit, or of a
\* cache below it some number.
LEMMA CountFits ==
  ASSUME H!TypeOK, H!ListMatchesMap
  PROVE  /\ H!Count \in Nat /\ H!Count <= Len(list)
         /\ H!Size >= CacheSize => H!Count = H!Size - CacheSize
<1> DEFINE size == H!Size  length == Len(list)
<1>1. size \in Nat /\ length \in Nat /\ CacheSize \in Nat /\ size <= length
  BY CachedFits, ListTyped
<1>2. H!Count = (size - CacheSize) % (length + 1)
  BY DEF H!Count
<1> HIDE DEF size, length
<1>3. (size - CacheSize) % (length + 1) \in 0 .. length
  BY <1>1
<1>4. size >= CacheSize => (size - CacheSize) % (length + 1) = size - CacheSize
  BY <1>1
<1> QED
  BY <1>1, <1>2, <1>3, <1>4 DEF size, length

\* The list without the entry that the map holds for k.
LEMMA WithoutEntry ==
  ASSUME H!TypeOK, H!ListMatchesMap, NEW k \in H!Cached, NEW w, w = H!Without(k)
  PROVE  \E p \in 1 .. Len(list) :
            /\ list[p] = H!EntryOf(k)
            /\ w \in Seq(H!Entries) /\ Len(w) = Len(list) - 1
            /\ \A i \in 1 .. Len(list) - 1 : w[i] = IF i < p THEN list[i] ELSE list[i + 1]
<1> DEFINE p == H!Position(k)
<1>1. p \in DOMAIN list /\ list[p] = H!EntryOf(k)
  BY DEF H!ListMatchesMap, H!Position
<1>2. p \in 1 .. Len(list) /\ list \in Seq(H!Entries)
  BY <1>1, ListTyped
<1>3. w = H!RemoveAt(list, p)
  BY DEF H!Without
<1> HIDE DEF p
<1>4. /\ w \in Seq(H!Entries) /\ Len(w) = Len(list) - 1
      /\ \A i \in 1 .. Len(list) - 1 : w[i] = IF i < p THEN list[i] ELSE list[i + 1]
  BY <1>2, <1>3, RemovedAt, SMTT(30)
<1> QED
  BY <1>1, <1>2, <1>4

\* ebaseed in terms of the size.
LEMMA EbaseedIs ==
  ASSUME NEW m
  PROVE  LET size == Cardinality({k \in Keys : m[k] # 0})
         IN  H!Ebaseed(m) <=> size > CacheSize /\ size - CacheSize > CacheSize \div 10
BY SameCardinality DEF H!Ebaseed

\* Each conjunct holds to begin with.
LEMMA CacheInit == Init => CacheInv
<1> SUFFICES ASSUME Init PROVE CacheInv
  OBVIOUS
<1>1. /\ list = <<>> /\ map = [k \in Keys |-> 0] /\ replacing = FALSE
      /\ creating = [u \in Users |-> {}] /\ inserted = 0 /\ duplicated = FALSE /\ erased = FALSE
      /\ MaxInserts \in Nat /\ CacheSize \in Nat
  BY PartsAssumption DEF Init, H!Init, H!CacheAssumption
<1>2. list \in Seq(H!Entries) /\ DOMAIN list = {}
  BY <1>1
<1>3. H!TypeOK
  <2>1. /\ map \in [Keys -> 0 .. MaxInserts] /\ inserted \in 0 .. MaxInserts
        /\ creating \in [Users -> SUBSET Keys]
    BY <1>1
  <2>2. /\ replacing \in BOOLEAN
        /\ duplicated \in BOOLEAN /\ erased \in BOOLEAN
    BY <1>1
  <2> QED
    BY <1>2, <2>1, <2>2 DEF H!TypeOK
<1>4. {k \in Keys : map[k] # 0} = {}
  BY <1>1
<1>5. EntriesDiffer /\ H!ListMatchesMap /\ H!ReplaceIsDue
  <2>1. EntriesDiffer
    BY <1>2 DEF EntriesDiffer
  <2>2. H!ListMatchesMap
    BY <1>2, <1>4 DEF H!ListMatchesMap, H!Cached
  <2>3. H!ReplaceIsDue
    BY <1>1 DEF H!ReplaceIsDue
  <2> QED
    BY <2>1, <2>2, <2>3
<1>6. ~ H!Ebaseed(map)
  <2> DEFINE size == Cardinality({k \in Keys : map[k] # 0})
  <2>1. size = 0
    BY <1>4, FS_EmptySet
  <2>2. H!Ebaseed(map) => size > CacheSize
    BY EbaseedIs
  <2> HIDE DEF size
  <2> QED
    BY <1>1, <2>1, <2>2
<1>7. H!OversizeIsAnswered
  BY <1>1, <1>5, <1>6 DEF H!OversizeIsAnswered
<1> QED
  BY <1>3, <1>5, <1>7 DEF CacheInv

\* What each step of the cache is.
LEMMA CacheStep ==
  ASSUME Next
  PROVE  \/ \E k \in Keys : H!Touch(k) \/ H!Erase(k)
         \/ \E u \in Users, k \in Keys : H!LocateMiss(u, k) \/ H!InsertGiven(u, k)
         \/ \E u \in Users : H!InsertCreated(u) \/ H!CreateFails(u)
         \/ H!Replace
         \/ UNCHANGED cacheVars
<1>1. CASE Cache
  BY <1>1 DEF Cache
<1>2. CASE Runner
  BY <1>2 DEF Runner, Of
<1>3. CASE Ring
  BY <1>3 DEF Ring, Of
<1>4. CASE Fastcgi
  BY <1>4 DEF Fastcgi, Of
<1>5. CASE Pool
  BY <1>5 DEF Pool, Of
<1>6. CASE Proxy
  BY <1>6 DEF Proxy, Of
<1> QED
  BY <1>1, <1>2, <1>3, <1>4, <1>5, <1>6 DEF Next

\* The types.
LEMMA CacheTypeStep ==
  ASSUME CacheInv, Next PROVE H!TypeOK'
<1> USE DEF CacheInv
<1>1. /\ list \in Seq(H!Entries) /\ map \in [Keys -> 0 .. MaxInserts]
      /\ replacing \in BOOLEAN
      /\ creating \in [Users -> SUBSET Keys] /\ inserted \in 0 .. MaxInserts
      /\ duplicated \in BOOLEAN /\ erased \in BOOLEAN /\ MaxInserts \in Nat
  BY ListTyped DEF H!TypeOK
<1>2. ASSUME NEW k \in Keys, H!Touch(k) PROVE H!TypeOK'
  <2>1. H!Without(k) \in Seq(H!Entries)
    BY <1>2, WithoutEntry DEF H!Touch
  <2>2. H!EntryOf(k) \in H!Entries
    BY <1>1, <1>2 DEF H!Touch, H!EntryOf, H!Entries, H!Cached
  <2>3. list' \in Seq(H!Entries)
    BY <1>2, <2>1, <2>2, AppendProperties DEF H!Touch
  <2> QED
    BY <1>1, <1>2, <2>3 DEF H!Touch, H!TypeOK
<1>3. ASSUME NEW k \in Keys, H!Erase(k) PROVE H!TypeOK'
  <2>1. list' \in Seq(H!Entries)
    BY <1>3, WithoutEntry DEF H!Erase
  <2> QED
    BY <1>1, <1>3, <2>1 DEF H!Erase, H!TypeOK
<1>4. ASSUME NEW u \in Users, NEW k \in Keys, H!Insert(u, k), creating' \in [Users -> SUBSET Keys]
      PROVE  H!TypeOK'
  <2>1. inserted' \in 1 .. MaxInserts
    BY <1>1, <1>4 DEF H!Insert
  <2>2. [key |-> k, id |-> inserted'] \in H!Entries
    BY <2>1 DEF H!Entries
  <2>3. list' \in Seq(H!Entries)
    BY <1>1, <1>4, <2>2, AppendProperties DEF H!Insert
  <2>4. map' \in [Keys -> 0 .. MaxInserts]
    BY <1>1, <1>4, <2>1 DEF H!Insert
  <2>5. replacing' \in BOOLEAN /\ duplicated' \in BOOLEAN /\ erased' = erased
    BY <1>1, <1>4 DEF H!Insert
  <2> QED
    BY <1>1, <1>4, <2>1, <2>3, <2>4, <2>5 DEF H!TypeOK
<1>5. ASSUME NEW u \in Users, NEW k \in Keys, H!LocateMiss(u, k) \/ H!InsertGiven(u, k)
      PROVE  H!TypeOK'
  <2>1. CASE H!LocateMiss(u, k)
    BY <1>1, <2>1 DEF H!LocateMiss, H!cacheVars, H!TypeOK
  <2>2. CASE H!InsertGiven(u, k)
    BY <1>1, <1>4, <2>2 DEF H!InsertGiven
  <2> QED
    BY <1>5, <2>1, <2>2
<1>6. ASSUME NEW u \in Users, H!InsertCreated(u) \/ H!CreateFails(u) PROVE H!TypeOK'
  <2>1. CASE H!CreateFails(u)
    BY <1>1, <2>1 DEF H!CreateFails, H!cacheVars, H!TypeOK
  <2>2. CASE H!InsertCreated(u)
    <3>1. PICK k \in creating[u] : H!Insert(u, k)
      BY <2>2 DEF H!InsertCreated
    <3>2. k \in Keys /\ creating' \in [Users -> SUBSET Keys]
      BY <1>1, <2>2 DEF H!InsertCreated
    <3> QED
      BY <1>4, <3>1, <3>2
  <2> QED
    BY <1>6, <2>1, <2>2
<1>7. CASE H!Replace
  <2> DEFINE count == H!Count
  <2>1. count \in Nat /\ Len(list) \in Nat /\ \A i \in 1 .. Len(list) : list[i] \in H!Entries
    BY CountFits, ListTyped
  <2>2. list' = SubSeq(list, count + 1, Len(list))
    BY <1>7 DEF H!Replace
  <2> HIDE DEF count
  <2>3. SubSeq(list, count + 1, Len(list)) \in Seq(H!Entries)
    BY <2>1, SubSeqProperties
  <2>4. /\ map' \in [Keys -> 0 .. MaxInserts] /\ replacing' = FALSE /\ erased' = FALSE
        /\ UNCHANGED <<creating, inserted, duplicated>>
    BY <1>1, <1>7 DEF H!Replace
  <2> QED
    BY <1>1, <2>2, <2>3, <2>4 DEF H!TypeOK
<1>8. CASE UNCHANGED cacheVars
  BY <1>1, <1>8 DEF cacheVars, H!TypeOK
<1> QED
  BY <1>2, <1>3, <1>5, <1>6, <1>7, <1>8, CacheStep

\* Without k's entry the list tells the others apart, still has those that the
\* map holds, and has no other of k unless one was inserted twice.
LEMMA WithoutMatches ==
  ASSUME H!TypeOK, EntriesDiffer, H!ListMatchesMap, NEW k \in H!Cached,
         NEW w, w = H!Without(k)
  PROVE  /\ w \in Seq(H!Entries) /\ Len(w) \in Nat
         /\ \A i, j \in 1 .. Len(w) : /\ w[i].id <= inserted /\ w[i].id # map[k]
                                      /\ i # j => w[i].id # w[j].id
         /\ \A c \in H!Cached \ {k} : \E i \in 1 .. Len(w) :
               /\ w[i] = H!EntryOf(c)
               /\ \A j \in i + 1 .. Len(w) : w[j].key # c
         /\ ~ duplicated => \A i \in 1 .. Len(w) : /\ w[i] = H!EntryOf(w[i].key)
                                                   /\ w[i].key # k
<1> DEFINE Source(p, i) == IF i < p THEN i ELSE i + 1
<1>1. PICK p \in 1 .. Len(list) :
            /\ list[p] = H!EntryOf(k)
            /\ w \in Seq(H!Entries) /\ Len(w) = Len(list) - 1
            /\ \A i \in 1 .. Len(list) - 1 : w[i] = IF i < p THEN list[i] ELSE list[i + 1]
  BY WithoutEntry
<1>2. Len(list) \in Nat /\ DOMAIN list = 1 .. Len(list)
  BY ListTyped
<1>3. \A i \in 1 .. Len(w) : w[i] = list[Source(p, i)]
  BY <1>1, <1>2
<1>4. \A i \in 1 .. Len(w) : Source(p, i) \in 1 .. Len(list) /\ Source(p, i) # p
  BY <1>1, <1>2
<1>5. \A i, j \in 1 .. Len(w) : i < j => Source(p, i) < Source(p, j)
  BY <1>1, <1>2
<1>6. \A n \in 1 .. Len(list) : n # p => \E i \in 1 .. Len(w) : Source(p, i) = n
  <2> SUFFICES ASSUME NEW n \in 1 .. Len(list), n # p
               PROVE  \E i \in 1 .. Len(w) : Source(p, i) = n
    OBVIOUS
  <2>1. CASE n < p
    <3>1. n \in 1 .. Len(w) /\ Source(p, n) = n
      BY <1>1, <1>2, <2>1
    <3> QED
      BY <3>1
  <2>2. CASE n > p
    <3>1. n - 1 \in 1 .. Len(w) /\ Source(p, n - 1) = n
      BY <1>1, <1>2, <2>2
    <3> QED
      BY <3>1
  <2> QED
    BY <1>1, <1>2, <2>1, <2>2
<1>7. list[p].id = map[k] /\ list[p].key = k
  BY <1>1 DEF H!EntryOf
<1>8. \A i, j \in 1 .. Len(list) : /\ list[i].id <= inserted
                                   /\ i # j => list[i].id # list[j].id
  BY <1>2 DEF EntriesDiffer
<1> HIDE DEF Source
<1>9. ASSUME NEW i \in 1 .. Len(w), NEW j \in 1 .. Len(w)
      PROVE  /\ w[i].id <= inserted /\ w[i].id # map[k]
             /\ i # j => w[i].id # w[j].id
  <2>1. w[i].id <= inserted /\ w[i].id # map[k]
    BY <1>3, <1>4, <1>7, <1>8, SMTT(30)
  <2>2. i # j => Source(p, i) # Source(p, j)
    <3>1. i \in Nat /\ j \in Nat /\ Source(p, i) \in Nat /\ Source(p, j) \in Nat
      BY <1>2, <1>4
    <3> QED
      BY <1>5, <3>1
  <2>3. i # j => w[i].id # w[j].id
    BY <1>3, <1>4, <1>8, <2>2
  <2> QED
    BY <2>1, <2>3
<1>10. ASSUME NEW c \in H!Cached \ {k}
       PROVE  \E i \in 1 .. Len(w) : /\ w[i] = H!EntryOf(c)
                                     /\ \A j \in i + 1 .. Len(w) : w[j].key # c
  <2>1. PICK n \in 1 .. Len(list) : /\ list[n] = H!EntryOf(c)
                                    /\ \A m \in n + 1 .. Len(list) : list[m].key # c
    BY <1>2 DEF H!ListMatchesMap
  <2>2. n # p
    BY <1>7, <2>1 DEF H!EntryOf
  <2>3. PICK i \in 1 .. Len(w) : Source(p, i) = n
    BY <1>6, <2>2
  <2>4. ASSUME NEW j \in i + 1 .. Len(w) PROVE w[j].key # c
    <3>1. j \in 1 .. Len(w) /\ i < j
      BY <1>1, <1>2
    <3>2. Source(p, j) \in 1 .. Len(list) /\ n < Source(p, j)
      BY <1>4, <1>5, <2>3, <3>1
    <3>3. Source(p, j) \in n + 1 .. Len(list)
      BY <1>2, <3>2
    <3> QED
      BY <1>3, <2>1, <3>1, <3>3
  <2> QED
    BY <1>3, <2>1, <2>3, <2>4
<1>11. ASSUME ~ duplicated, NEW i \in 1 .. Len(w)
       PROVE  w[i] = H!EntryOf(w[i].key) /\ w[i].key # k
  <2>1. w[i] = H!EntryOf(w[i].key)
    BY <1>2, <1>3, <1>4, <1>11 DEF H!ListMatchesMap
  <2>2. w[i].id # map[k]
    BY <1>9
  <2> QED
    BY <2>1, <2>2 DEF H!EntryOf
<1>12. Len(w) \in Nat
  BY <1>1, LenProperties
<1> QED
  BY <1>1, <1>9, <1>10, <1>11, <1>12

\* The conjuncts about the list, after a step that has neither replaced nor
\* moved anything.
LEMMA ListKept ==
  ASSUME CacheInv, UNCHANGED <<list, map, inserted, duplicated>>
  PROVE  EntriesDiffer' /\ H!ListMatchesMap'
BY DEF CacheInv, EntriesDiffer, H!ListMatchesMap, H!Cached, H!EntryOf

\* Locate and Find move an entry to the end of the list.
LEMMA TouchKeepsList ==
  ASSUME CacheInv, NEW k \in Keys, H!Touch(k)
  PROVE  EntriesDiffer' /\ H!ListMatchesMap'
<1> DEFINE w == H!Without(k)  e == H!EntryOf(k)
<1>1. k \in H!Cached /\ list' = Append(w, e)
      /\ UNCHANGED <<map, inserted, duplicated>>
  BY DEF H!Touch
<1>2. /\ w \in Seq(H!Entries) /\ Len(w) \in Nat
      /\ \A i, j \in 1 .. Len(w) : /\ w[i].id <= inserted /\ w[i].id # map[k]
                                   /\ i # j => w[i].id # w[j].id
      /\ \A c \in H!Cached \ {k} : \E i \in 1 .. Len(w) :
            /\ w[i] = H!EntryOf(c)
            /\ \A j \in i + 1 .. Len(w) : w[j].key # c
      /\ ~ duplicated => \A i \in 1 .. Len(w) : /\ w[i] = H!EntryOf(w[i].key)
                                                /\ w[i].key # k
  BY <1>1, WithoutMatches DEF CacheInv
<1>3. e \in H!Entries /\ e.id = map[k] /\ e.key = k /\ e.id <= inserted
  <2>1. PICK i \in DOMAIN list : list[i] = e
    BY <1>1 DEF CacheInv, H!ListMatchesMap
  <2>2. list[i] \in H!Entries /\ list[i].id <= inserted
    BY ListTyped DEF CacheInv, EntriesDiffer
  <2> QED
    BY <2>1, <2>2 DEF H!EntryOf
<1>4. e = H!EntryOf(k) /\ H!EntryOf(k).key = k
  BY <1>3
<1> HIDE DEF w, e
<1> DEFINE l == list'
<1>5. /\ l \in Seq(H!Entries) /\ Len(l) = Len(w) + 1
      /\ \A i \in 1 .. Len(w) : l[i] = w[i]
      /\ l[Len(w) + 1] = e
  BY <1>1, <1>2, <1>3, AppendProperties
<1>6. DOMAIN l = 1 .. Len(w) + 1
  BY <1>5, LenProperties
<1> HIDE DEF l
<1>7. \A i \in DOMAIN l : i \in 1 .. Len(w) \/ i = Len(w) + 1
  BY <1>2, <1>6
<1>8. \A i, j \in DOMAIN l : l[i].id <= inserted /\ (i # j => l[i].id # l[j].id)
  BY <1>2, <1>3, <1>5, <1>7
<1>9. ASSUME NEW c \in H!Cached
      PROVE  \E i \in DOMAIN l : /\ l[i] = H!EntryOf(c)
                                 /\ \A j \in i + 1 .. Len(l) : l[j].key # c
  <2>1. CASE c = k
    <3>1. l[Len(w) + 1] = H!EntryOf(c) /\ Len(w) + 1 \in DOMAIN l
      BY <1>2, <1>4, <1>5, <1>6, <2>1
    <3>2. Len(w) + 1 + 1 .. Len(l) = {}
      BY <1>2, <1>5
    <3> QED
      BY <3>1, <3>2
  <2>2. CASE c # k
    <3>1. PICK i \in 1 .. Len(w) : /\ w[i] = H!EntryOf(c)
                                   /\ \A j \in i + 1 .. Len(w) : w[j].key # c
      BY <1>2, <2>2
    <3>2. ASSUME NEW j \in i + 1 .. Len(l) PROVE l[j].key # c
      <4>1. CASE j \in i + 1 .. Len(w)
        BY <1>2, <1>5, <3>1, <4>1
      <4>2. CASE j = Len(w) + 1
        BY <1>3, <1>5, <2>2, <4>2
      <4> QED
        BY <1>2, <1>5, <4>1, <4>2
    <3>3. i \in DOMAIN l /\ l[i] = H!EntryOf(c)
      BY <1>2, <1>5, <1>6, <3>1
    <3> QED
      BY <3>2, <3>3
  <2> QED
    BY <2>1, <2>2
<1>10. ~ duplicated => \A i \in DOMAIN l : l[i] = H!EntryOf(l[i].key)
  BY <1>2, <1>4, <1>5, <1>7
<1>11. H!Cached' = H!Cached /\ \A c : H!EntryOf(c)' = H!EntryOf(c)
  BY <1>1 DEF H!Cached, H!EntryOf
<1>12. EntriesDiffer'
  BY <1>1, <1>8 DEF EntriesDiffer, l
<1>13. H!ListMatchesMap'
  BY <1>1, <1>9, <1>10, <1>11 DEF H!ListMatchesMap, l
<1> QED
  BY <1>12, <1>13

\* Erase takes the entry of its key out of both.
LEMMA EraseKeepsList ==
  ASSUME CacheInv, NEW k \in Keys, H!Erase(k)
  PROVE  EntriesDiffer' /\ H!ListMatchesMap'
<1> DEFINE w == H!Without(k)
<1>1. k \in H!Cached /\ list' = w /\ map' = [map EXCEPT ![k] = 0]
      /\ UNCHANGED <<inserted, duplicated>>
  BY DEF H!Erase
<1>2. /\ w \in Seq(H!Entries) /\ Len(w) \in Nat
      /\ \A i, j \in 1 .. Len(w) : /\ w[i].id <= inserted /\ w[i].id # map[k]
                                   /\ i # j => w[i].id # w[j].id
      /\ \A c \in H!Cached \ {k} : \E i \in 1 .. Len(w) :
            /\ w[i] = H!EntryOf(c)
            /\ \A j \in i + 1 .. Len(w) : w[j].key # c
      /\ ~ duplicated => \A i \in 1 .. Len(w) : /\ w[i] = H!EntryOf(w[i].key)
                                                /\ w[i].key # k
  BY <1>1, WithoutMatches DEF CacheInv
<1>3. map \in [Keys -> Nat]
  BY ListTyped DEF CacheInv
<1>4. \A c \in Keys \ {k} : map'[c] = map[c] /\ map'[k] = 0
  BY <1>1, <1>3
<1>5. H!Cached' = H!Cached \ {k} /\ \A c \in Keys \ {k} : H!EntryOf(c)' = H!EntryOf(c)
  BY <1>1, <1>3, <1>4 DEF H!Cached, H!EntryOf
<1> HIDE DEF w
<1>6. DOMAIN w = 1 .. Len(w) /\ \A i \in 1 .. Len(w) : w[i].key \in Keys
  <2>1. DOMAIN w = 1 .. Len(w) /\ \A i \in 1 .. Len(w) : w[i] \in H!Entries
    BY <1>2, LenProperties, ElementOfSeq
  <2> QED
    BY <2>1 DEF H!Entries
<1>7. EntriesDiffer'
  BY <1>1, <1>2, <1>6 DEF EntriesDiffer
<1>8. \A c \in H!Cached' : c \in Keys \ {k}
  BY <1>5 DEF H!Cached
<1>9. H!ListMatchesMap'
  BY <1>1, <1>2, <1>5, <1>6, <1>8 DEF H!ListMatchesMap
<1> QED
  BY <1>7, <1>9

\* What Insert appends is of a call of its own, and it is the last of its key.
LEMMA InsertKeepsList ==
  ASSUME CacheInv, NEW u \in Users, NEW k \in Keys, H!Insert(u, k)
  PROVE  EntriesDiffer' /\ H!ListMatchesMap'
<1> DEFINE e == [key |-> k, id |-> inserted + 1]  l == list'  n == Len(list)
<1>1. /\ inserted' = inserted + 1 /\ l = Append(list, e)
      /\ map' = [map EXCEPT ![k] = inserted + 1]
      /\ duplicated' = (duplicated \/ k \in H!Cached) /\ inserted < MaxInserts
  BY DEF H!Insert
<1>2. /\ list \in Seq(H!Entries) /\ n \in Nat /\ DOMAIN list = 1 .. n
      /\ \A i \in 1 .. n : /\ list[i].key \in Keys /\ list[i].id \in Nat
                           /\ list[i] = [key |-> list[i].key, id |-> list[i].id]
                           /\ list[i].id # 0
      /\ map \in [Keys -> Nat] /\ inserted \in Nat /\ MaxInserts \in Nat
  BY ListTyped DEF CacheInv
<1>3. e \in H!Entries /\ e.key = k /\ e.id = inserted + 1
  BY <1>1, <1>2 DEF H!Entries
<1>4. /\ l \in Seq(H!Entries) /\ Len(l) = n + 1
      /\ \A i \in 1 .. n : l[i] = list[i]
      /\ l[n + 1] = e
  BY <1>1, <1>2, <1>3, AppendProperties
<1>5. DOMAIN l = 1 .. n + 1
  BY <1>4, LenProperties
<1>6. /\ \A c \in Keys \ {k} : map'[c] = map[c] /\ H!EntryOf(c)' = H!EntryOf(c)
      /\ map'[k] = inserted + 1 /\ H!EntryOf(k)' = e
  BY <1>1, <1>2 DEF H!EntryOf
<1>7. H!Cached' = H!Cached \cup {k} /\ H!Cached \subseteq Keys
  BY <1>1, <1>2, <1>6 DEF H!Cached
<1> HIDE DEF e, l, n
<1>8. \A i \in DOMAIN l : i \in 1 .. n \/ i = n + 1
  BY <1>2, <1>5
<1>9. \A i, j \in 1 .. n : list[i].id <= inserted /\ (i # j => list[i].id # list[j].id)
  BY <1>2 DEF CacheInv, EntriesDiffer
<1>10. \A i \in 1 .. n : list[i].id < inserted + 1 /\ list[i].id <= inserted + 1
  BY <1>2, <1>9
<1>11. \A i, j \in DOMAIN l : l[i].id <= inserted + 1 /\ (i # j => l[i].id # l[j].id)
  <2> SUFFICES ASSUME NEW i \in DOMAIN l, NEW j \in DOMAIN l
               PROVE  l[i].id <= inserted + 1 /\ (i # j => l[i].id # l[j].id)
    OBVIOUS
  <2>1. l[i].id <= inserted + 1
    BY <1>2, <1>3, <1>4, <1>8, <1>10
  <2>2. CASE i \in 1 .. n /\ j \in 1 .. n
    BY <1>4, <1>9, <2>1, <2>2
  <2>3. CASE i = n + 1 /\ j \in 1 .. n
    BY <1>2, <1>3, <1>4, <1>10, <2>1, <2>3
  <2>4. CASE i \in 1 .. n /\ j = n + 1
    BY <1>2, <1>3, <1>4, <1>10, <2>1, <2>4
  <2> QED
    BY <1>8, <2>1, <2>2, <2>3, <2>4
<1>12. EntriesDiffer'
  BY <1>1, <1>11 DEF EntriesDiffer, l
<1>13. ASSUME NEW c \in H!Cached'
       PROVE  \E i \in DOMAIN l : /\ l[i] = H!EntryOf(c)'
                                  /\ \A j \in i + 1 .. Len(l) : l[j].key # c
  <2>1. CASE c = k
    <3>1. l[n + 1] = H!EntryOf(c)' /\ n + 1 \in DOMAIN l
      BY <1>2, <1>4, <1>5, <1>6, <2>1
    <3>2. n + 1 + 1 .. Len(l) = {}
      BY <1>2, <1>4
    <3> QED
      BY <3>1, <3>2
  <2>2. CASE c # k
    <3>1. c \in H!Cached /\ c \in Keys \ {k}
      BY <1>7, <2>2
    <3>2. PICK i \in 1 .. n : /\ list[i] = H!EntryOf(c)
                              /\ \A j \in i + 1 .. n : list[j].key # c
      BY <1>2, <3>1 DEF CacheInv, H!ListMatchesMap, n
    <3>3. ASSUME NEW j \in i + 1 .. Len(l) PROVE l[j].key # c
      <4>1. CASE j \in i + 1 .. n
        BY <1>2, <1>4, <3>2, <4>1
      <4>2. CASE j = n + 1
        BY <1>3, <1>4, <2>2, <4>2
      <4> QED
        BY <1>2, <1>4, <4>1, <4>2
    <3>4. i \in DOMAIN l /\ l[i] = H!EntryOf(c)'
      BY <1>2, <1>4, <1>5, <1>6, <3>1, <3>2
    <3> QED
      BY <3>3, <3>4
  <2> QED
    BY <2>1, <2>2
<1>14. ASSUME ~ duplicated', NEW i \in DOMAIN l
       PROVE  l[i] = [key |-> l[i].key, id |-> map'[l[i].key]]
  <2>1. CASE i = n + 1
    BY <1>4, <1>6, <2>1 DEF e
  <2>2. CASE i \in 1 .. n
    <3>1. ~ duplicated /\ k \notin H!Cached
      BY <1>1, <1>14
    <3>2. list[i] = [key |-> list[i].key, id |-> map[list[i].key]] /\ list[i].key \in Keys
      BY <1>2, <2>2, <3>1 DEF CacheInv, H!ListMatchesMap, H!EntryOf
    <3>3. map[list[i].key] # 0
      BY <1>2, <2>2, <3>2
    <3>4. list[i].key # k
      BY <3>1, <3>2, <3>3 DEF H!Cached
    <3> QED
      BY <1>4, <1>6, <2>2, <3>2, <3>4
  <2> QED
    BY <1>8, <2>1, <2>2
<1>15. H!ListMatchesMap'
  BY <1>13, <1>14 DEF H!ListMatchesMap, H!EntryOf, l
<1> QED
  BY <1>12, <1>15

\* What Replace leaves of the list and of the map.
LEMMA ReplaceKeeps ==
  ASSUME CacheInv, H!Replace, NEW n, n = H!Count
  PROVE  LET dropped == {list[i].key : i \in 1 .. n}
         IN  /\ n \in Nat /\ n <= Len(list)
             /\ map' = [c \in Keys |-> IF c \in dropped THEN 0 ELSE map[c]]
             /\ list' \in Seq(H!Entries) /\ Len(list') = Len(list) - n
             /\ \A i \in 1 .. Len(list) - n : list'[i] = list[n + i]
             /\ DOMAIN list' = 1 .. Len(list) - n
<1>1. Len(list) \in Nat /\ \A i \in 1 .. Len(list) : list[i] \in H!Entries
  BY ListTyped DEF CacheInv
<1>2. n \in Nat /\ n <= Len(list)
  BY CountFits DEF CacheInv
<1>3. /\ list' = SubSeq(list, n + 1, Len(list))
      /\ map' = [c \in Keys |-> IF c \in {list[i].key : i \in 1 .. n} THEN 0 ELSE map[c]]
  BY DEF H!Replace
<1>4. /\ SubSeq(list, n + 1, Len(list)) \in Seq(H!Entries)
      /\ Len(SubSeq(list, n + 1, Len(list))) = IF n + 1 <= Len(list) THEN Len(list) - (n + 1) + 1 ELSE 0
      /\ \A i \in 1 .. Len(list) - (n + 1) + 1 :
            SubSeq(list, n + 1, Len(list))[i] = list[n + 1 + i - 1]
  <2>1. \A i \in n + 1 .. Len(list) : list[i] \in H!Entries
    BY <1>1, <1>2
  <2> QED
    BY <1>1, <1>2, <2>1, SubSeqProperties
<1> DEFINE l == list'
<1>5. /\ l \in Seq(H!Entries)
      /\ Len(l) = IF n + 1 <= Len(list) THEN Len(list) - (n + 1) + 1 ELSE 0
      /\ \A i \in 1 .. Len(list) - (n + 1) + 1 : l[i] = list[n + 1 + i - 1]
  BY <1>3, <1>4
<1> HIDE DEF l
<1>6. Len(l) = Len(list) - n
  BY <1>1, <1>2, <1>5
<1>7. DOMAIN l = 1 .. Len(list) - n
  BY <1>5, <1>6, LenProperties
<1>8. ASSUME NEW i \in 1 .. Len(list) - n PROVE l[i] = list[n + i]
  <2>1. n + 1 + i - 1 = n + i /\ i \in 1 .. Len(list) - (n + 1) + 1
    BY <1>1, <1>2
  <2> QED
    BY <1>5, <2>1
<1> QED
  BY <1>2, <1>3, <1>5, <1>6, <1>7, <1>8 DEF l

\* An entry that stays is not of a key that Replace has dropped, unless the
\* key was inserted twice.
LEMMA ReplaceKeepsList ==
  ASSUME CacheInv, H!Replace
  PROVE  EntriesDiffer' /\ H!ListMatchesMap'
<1> DEFINE n == H!Count
           dropped == {list[i].key : i \in 1 .. n}
           l == list'
<1>1. /\ n \in Nat /\ n <= Len(list)
      /\ map' = [c \in Keys |-> IF c \in dropped THEN 0 ELSE map[c]]
      /\ Len(l) = Len(list) - n
      /\ \A i \in 1 .. Len(list) - n : l[i] = list[n + i]
      /\ DOMAIN l = 1 .. Len(list) - n
  BY ReplaceKeeps
<1>2. UNCHANGED <<inserted, duplicated>>
  BY DEF H!Replace
<1>3. /\ Len(list) \in Nat /\ DOMAIN list = 1 .. Len(list) /\ map \in [Keys -> Nat]
      /\ \A i \in 1 .. Len(list) : list[i].key \in Keys
  BY ListTyped DEF CacheInv
<1>4. \A i, j \in 1 .. Len(list) : /\ list[i].id <= inserted
                                   /\ i # j => list[i].id # list[j].id
  BY <1>3 DEF CacheInv, EntriesDiffer
<1> HIDE DEF n, l
<1>5. \A i \in DOMAIN l : n + i \in 1 .. Len(list) /\ l[i] = list[n + i]
  BY <1>1, <1>3
<1>6. \A i, j \in DOMAIN l : l[i].id <= inserted /\ (i # j => l[i].id # l[j].id)
  <2> SUFFICES ASSUME NEW i \in DOMAIN l, NEW j \in DOMAIN l
               PROVE  l[i].id <= inserted /\ (i # j => l[i].id # l[j].id)
    OBVIOUS
  <2>1. i # j => n + i # n + j
    BY <1>1, <1>3
  <2> QED
    BY <1>4, <1>5, <2>1
<1>7. EntriesDiffer'
  BY <1>2, <1>6 DEF EntriesDiffer, l
<1>8. ASSUME NEW c \in H!Cached'
      PROVE  \E i \in DOMAIN l : /\ l[i] = H!EntryOf(c)'
                                 /\ \A j \in i + 1 .. Len(l) : l[j].key # c
  <2>1. c \in Keys /\ c \notin dropped /\ map'[c] = map[c] /\ c \in H!Cached
    BY <1>1 DEF H!Cached
  <2>2. PICK m \in 1 .. Len(list) : /\ list[m] = H!EntryOf(c)
                                    /\ \A j \in m + 1 .. Len(list) : list[j].key # c
    BY <1>3, <2>1 DEF CacheInv, H!ListMatchesMap
  <2>3. list[m].key = c
    BY <2>2 DEF H!EntryOf
  <2>4. m \notin 1 .. n
    BY <2>1, <2>3
  <2>5. m - n \in DOMAIN l /\ n + (m - n) = m
    BY <1>1, <1>3, <2>4
  <2>6. l[m - n] = H!EntryOf(c)'
    BY <1>5, <2>1, <2>2, <2>5 DEF H!EntryOf
  <2>7. ASSUME NEW j \in (m - n) + 1 .. Len(l) PROVE l[j].key # c
    <3>1. j \in DOMAIN l /\ n + j \in m + 1 .. Len(list)
      BY <1>1, <1>3, <2>4
    <3> QED
      BY <1>5, <2>2, <3>1
  <2> QED
    BY <2>5, <2>6, <2>7
<1>9. ASSUME ~ duplicated', NEW i \in DOMAIN l
      PROVE  l[i] = [key |-> l[i].key, id |-> map'[l[i].key]]
  <2>1. \A j \in 1 .. Len(list) : list[j] = [key |-> list[j].key, id |-> map[list[j].key]]
    BY <1>2, <1>3, <1>9 DEF CacheInv, H!ListMatchesMap, H!EntryOf
  <2>2. l[i].key \notin dropped
    <3>1. SUFFICES ASSUME NEW j \in 1 .. n, list[j].key = l[i].key PROVE FALSE
      OBVIOUS
    <3>2. j \in 1 .. Len(list) /\ n + i \in 1 .. Len(list) /\ j # n + i
      BY <1>1, <1>3
    <3>3. list[j].id = list[n + i].id
      BY <1>5, <2>1, <3>1, <3>2, ZenonT(40)
    <3> QED
      BY <1>4, <3>2, <3>3
  <2>3. l[i].key \in Keys /\ l[i] = [key |-> l[i].key, id |-> map[l[i].key]]
    BY <1>3, <1>5, <2>1
  <2> QED
    BY <1>1, <2>2, <2>3
<1>10. H!ListMatchesMap'
  BY <1>8, <1>9 DEF H!ListMatchesMap, H!EntryOf, l
<1> QED
  BY <1>7, <1>10

\* Without a key inserted twice, Replace cuts the map down to the limit.
LEMMA ReplaceCutsBack ==
  ASSUME CacheInv, H!Replace, ~ (H!Size < CacheSize), ~ duplicated
  PROVE  ~ H!Ebaseed(map')
<1> DEFINE n == H!Count
           dropped == {list[i].key : i \in 1 .. n}
           f == [i \in 1 .. n |-> list[i].key]
           rest == {k \in Keys : map'[k] # 0}
<1>1. /\ n \in Nat /\ n <= Len(list)
      /\ map' = [c \in Keys |-> IF c \in dropped THEN 0 ELSE map[c]]
  BY ReplaceKeeps
<1>2. /\ Len(list) \in Nat /\ DOMAIN list = 1 .. Len(list) /\ map \in [Keys -> Nat]
      /\ \A i \in 1 .. Len(list) : list[i].key \in Keys /\ list[i].id # 0
      /\ CacheSize \in Nat
  BY ListTyped DEF CacheInv
<1>3. \A i, j \in 1 .. Len(list) : i # j => list[i].id # list[j].id
  BY <1>2 DEF CacheInv, EntriesDiffer
<1>4. \A i \in 1 .. Len(list) : list[i].id = map[list[i].key]
  <2>1. \A i \in 1 .. Len(list) : list[i] = H!EntryOf(list[i].key)
    BY <1>2 DEF CacheInv, H!ListMatchesMap
  <2>2. \A k : H!EntryOf(k).id = map[k]
    BY DEF H!EntryOf
  <2> QED
    BY <2>1, <2>2
<1>5. IsFiniteSet(H!Cached) /\ H!Size = Cardinality(H!Cached) /\ H!Size \in Nat
  BY CachedFits, SameCardinality DEF CacheInv, H!Size
<1>6. \A i \in 1 .. n : i \in 1 .. Len(list)
  <2> HIDE DEF n
  <2> QED
    BY <1>1, <1>2
<1>7. ASSUME NEW i \in 1 .. n, NEW j \in 1 .. n, list[i].key = list[j].key PROVE i = j
  <2>1. i \in 1 .. Len(list) /\ j \in 1 .. Len(list)
    BY <1>6
  <2>2. list[i].id = map[list[i].key] /\ list[j].id = map[list[j].key]
    BY <1>4, <2>1
  <2> QED
    BY <1>3, <1>7, <2>1, <2>2
<1>8. ExistsBijection(1 .. n, dropped)
  <2>1. f \in Bijection(1 .. n, dropped)
    <3>1. f \in Injection(1 .. n, dropped)
      BY <1>7 DEF Injection, IsInjective
    <3>2. f \in Surjection(1 .. n, dropped)
      BY DEF Surjection
    <3> QED
      BY <3>1, <3>2 DEF Bijection
  <2> QED
    BY <2>1 DEF ExistsBijection
<1>9. dropped \subseteq H!Cached
  BY <1>2, <1>4, <1>6 DEF H!Cached
<1>10. rest = H!Cached \ dropped
  BY <1>1 DEF H!Cached
<1> HIDE DEF n, dropped, f, rest
<1>11. IsFiniteSet(1 .. n) /\ Cardinality(1 .. n) = n
  <2>1. /\ IsFiniteSet(1 .. n)
        /\ Cardinality(1 .. n) = IF 1 > n THEN 0 ELSE n - 1 + 1
    BY <1>1, FS_Interval
  <2> QED
    BY <1>1, <2>1
<1>12. Cardinality(dropped) = n
  BY <1>8, <1>11, FS_Bijection
<1>13. H!Cached \cap dropped = dropped
  BY <1>9
<1>14. Cardinality(rest) = Cardinality(H!Cached) - Cardinality(dropped)
  <2>1. Cardinality(H!Cached \ dropped)
          = Cardinality(H!Cached) - Cardinality(H!Cached \cap dropped)
    BY <1>5, FS_Difference
  <2> QED
    BY <1>10, <1>13, <2>1
<1>15. Cardinality(rest) = CacheSize
  <2>1. n = H!Size - CacheSize
    <3>1. H!Size >= CacheSize
      BY <1>2, <1>5
    <3> QED
      BY <3>1, CountFits DEF CacheInv, n
  <2> QED
    BY <1>2, <1>5, <1>12, <1>14, <2>1
<1>16. H!Ebaseed(map') => Cardinality(rest) > CacheSize
  BY EbaseedIs DEF rest
<1> QED
  BY <1>2, <1>15, <1>16

\* Erase and Insert take one key from the map, or add one.
LEMMA SizeAfter ==
  ASSUME CacheInv, NEW k \in Keys, NEW id \in Nat, map' = [map EXCEPT ![k] = id]
  PROVE  /\ H!Size \in Nat /\ H!Size' \in Nat
         /\ id = 0 => H!Size' <= H!Size
         /\ id # 0 => H!Size' >= H!Size
<1>1. IsFiniteSet(H!Cached) /\ H!Size = Cardinality(H!Cached) /\ H!Size \in Nat
  BY CachedFits, SameCardinality DEF CacheInv, H!Size
<1>2. H!Size' = Cardinality(H!Cached')
  BY SameCardinality DEF H!Size
<1>3. map \in [Keys -> Nat]
  BY ListTyped DEF CacheInv
<1>4. CASE id = 0
  <2>1. H!Cached' \subseteq H!Cached
    BY <1>3, <1>4 DEF H!Cached
  <2> DEFINE S2 == H!Cached'
  <2>2. S2 \in SUBSET H!Cached
    BY <2>1
  <2> HIDE DEF S2
  <2>3. IsFiniteSet(S2) /\ Cardinality(S2) <= Cardinality(H!Cached)
    BY <1>1, <2>2, FS_Subset
  <2>4. Cardinality(S2) \in Nat
    BY <2>3, FS_CardinalityType
  <2> QED
    BY <1>1, <1>2, <1>4, <2>3, <2>4 DEF S2
<1>5. CASE id # 0
  <2>1. H!Cached' = H!Cached \cup {k}
    BY <1>3, <1>5 DEF H!Cached
  <2> DEFINE S2 == H!Cached'
  <2>2. S2 = H!Cached \cup {k}
    BY <2>1
  <2> HIDE DEF S2
  <2>3. IsFiniteSet(S2) /\ Cardinality(S2) >= Cardinality(H!Cached)
    <3>1. /\ IsFiniteSet(H!Cached \cup {k})
          /\ Cardinality(H!Cached \cup {k}) =
               IF k \in H!Cached THEN Cardinality(H!Cached) ELSE Cardinality(H!Cached) + 1
      BY <1>1, FS_AddElement
    <3> QED
      BY <1>1, <2>2, <3>1
  <2>4. Cardinality(S2) \in Nat
    BY <2>3, FS_CardinalityType
  <2> QED
    BY <1>1, <1>2, <1>5, <2>3, <2>4 DEF S2
<1> QED
  BY <1>4, <1>5

\* ebaseed of the map as it is, and as it will be.
LEMMA EbaseedSize ==
  /\ H!Ebaseed(map) <=> H!Size > CacheSize /\ H!Size - CacheSize > CacheSize \div 10
  /\ H!Ebaseed(map)' <=> H!Size' > CacheSize /\ H!Size' - CacheSize > CacheSize \div 10
  /\ H!Ebaseed(map)' <=> H!Ebaseed(map')
BY DEF H!Ebaseed, H!Size, H!Cached

\* Whatever leaves the map and the flags alone.
LEMMA SizeKept ==
  ASSUME CacheInv, UNCHANGED <<map, replacing, duplicated, erased>>
  PROVE  H!ReplaceIsDue' /\ H!OversizeIsAnswered'
BY DEF CacheInv, H!ReplaceIsDue, H!OversizeIsAnswered, H!Size, H!Cached, H!Ebaseed

\* An Erase that makes the cache too small for Replace has come before it.
LEMMA EraseAnswers ==
  ASSUME CacheInv, NEW k \in Keys, H!Erase(k)
  PROVE  H!ReplaceIsDue' /\ H!OversizeIsAnswered'
<1>1. /\ map' = [map EXCEPT ![k] = 0] /\ erased' = (erased \/ replacing)
      /\ replacing' = replacing /\ duplicated' = duplicated
  BY DEF H!Erase
<1>2. H!ReplaceIsDue'
  BY <1>1 DEF H!ReplaceIsDue
<1>3. H!Size \in Nat /\ H!Size' \in Nat /\ H!Size' <= H!Size
  BY <1>1, SizeAfter
<1>4. CacheSize \in Nat /\ CacheSize \div 10 \in Nat
  BY ListTyped DEF CacheInv
<1>5. H!Ebaseed(map)' => H!Ebaseed(map)
  <2> DEFINE size == H!Size  later == H!Size'  tenth == CacheSize \div 10
  <2>1. size \in Nat /\ later \in Nat /\ later <= size /\ CacheSize \in Nat /\ tenth \in Nat
    BY <1>3, <1>4
  <2>2. /\ H!Ebaseed(map) <=> size > CacheSize /\ size - CacheSize > tenth
        /\ H!Ebaseed(map)' <=> later > CacheSize /\ later - CacheSize > tenth
    BY EbaseedSize
  <2> HIDE DEF size, later, tenth
  <2> QED
    BY <2>1, <2>2
<1>6. H!OversizeIsAnswered'
  BY <1>1, <1>2, <1>5 DEF CacheInv, H!OversizeIsAnswered
<1> QED
  BY <1>2, <1>6

\* The Insert that goes over the limit posts the Replace.
LEMMA InsertAnswers ==
  ASSUME CacheInv, NEW u \in Users, NEW k \in Keys, H!Insert(u, k)
  PROVE  H!ReplaceIsDue' /\ H!OversizeIsAnswered'
<1>1. /\ map' = [map EXCEPT ![k] = inserted + 1] /\ erased' = erased
      /\ replacing' = (replacing \/ H!Ebaseed(map'))
  BY DEF H!Insert
<1>2. inserted + 1 \in Nat /\ inserted + 1 # 0 /\ CacheSize \in Nat
  BY ListTyped DEF CacheInv
<1>3. H!Size \in Nat /\ H!Size' \in Nat /\ H!Size' >= H!Size
  BY <1>1, <1>2, SizeAfter
<1>4. ASSUME replacing', ~ erased' PROVE H!Size' > CacheSize
  <2>1. CASE replacing
    <3>1. H!Size > CacheSize
      BY <1>1, <1>4, <2>1 DEF CacheInv, H!ReplaceIsDue
    <3> QED
      BY <1>2, <1>3, <3>1
  <2>2. CASE H!Ebaseed(map')
    BY <2>2, EbaseedSize
  <2> QED
    BY <1>1, <1>4, <2>1, <2>2
<1>5. H!ReplaceIsDue'
  BY <1>4 DEF H!ReplaceIsDue
<1>6. H!OversizeIsAnswered'
  BY <1>1, <1>5, EbaseedSize DEF H!OversizeIsAnswered
<1> QED
  BY <1>5, <1>6

\* A Replace leaves no more keys than there are.
LEMMA ReplaceRemoves ==
  ASSUME CacheInv, H!Replace
  PROVE  H!Size' \in Nat /\ H!Size' <= H!Size
<1>1. IsFiniteSet(H!Cached) /\ H!Size = Cardinality(H!Cached) /\ H!Size \in Nat
  BY CachedFits, SameCardinality DEF CacheInv, H!Size
<1>2. H!Size' = Cardinality(H!Cached')
  BY SameCardinality DEF H!Size
<1>3. H!Cached' \subseteq H!Cached
  BY DEF H!Replace, H!Cached
<1> DEFINE kept == H!Cached'
<1>4. IsFiniteSet(kept) /\ Cardinality(kept) <= Cardinality(H!Cached)
  BY <1>1, <1>3, FS_Subset
<1>5. Cardinality(kept) \in Nat
  BY <1>4, FS_CardinalityType
<1> QED
  BY <1>1, <1>2, <1>4, <1>5

\* A Replace has cut the cache back, unless it met a key twice.
LEMMA ReplaceAnswers ==
  ASSUME CacheInv, H!Replace
  PROVE  H!ReplaceIsDue' /\ H!OversizeIsAnswered'
<1>1. replacing' = FALSE /\ duplicated' = duplicated
  BY DEF H!Replace
<1>2. H!ReplaceIsDue'
  BY <1>1 DEF H!ReplaceIsDue
<1>3. ~ duplicated => ~ H!Ebaseed(map)'
  <2>1. CASE H!Size < CacheSize
    <3> DEFINE size == H!Size  later == H!Size'
    <3>1. size \in Nat /\ later \in Nat /\ later <= size /\ CacheSize \in Nat /\ size < CacheSize
      BY <2>1, ReplaceRemoves, CachedFits, ListTyped DEF CacheInv
    <3>2. H!Ebaseed(map)' => later > CacheSize
      BY EbaseedSize
    <3> HIDE DEF size, later
    <3> QED
      BY <3>1, <3>2
  <2>2. CASE ~ (H!Size < CacheSize)
    BY <2>2, ReplaceCutsBack, EbaseedSize
  <2> QED
    BY <2>1, <2>2
<1> QED
  BY <1>1, <1>2, <1>3 DEF H!OversizeIsAnswered

\* CacheInv is inductive.
LEMMA CacheNext ==
  ASSUME CacheInv, [Next]_vars PROVE CacheInv'
<1> SUFFICES ASSUME Next PROVE EntriesDiffer' /\ H!ListMatchesMap' /\ H!ReplaceIsDue' /\ H!OversizeIsAnswered'
  <2>1. CASE UNCHANGED vars
    <3>1. UNCHANGED <<list, map, replacing, creating, inserted, duplicated, erased>>
      BY <2>1 DEF vars, cacheVars
    <3>2. H!TypeOK'
      BY <3>1 DEF CacheInv, H!TypeOK
    <3> QED
      BY <3>1, <3>2, ListKept, SizeKept DEF CacheInv
  <2>2. CASE Next
    BY <2>2, CacheTypeStep DEF CacheInv
  <2> QED
    BY <2>1, <2>2
<1>1. ASSUME NEW k \in Keys, H!Touch(k) PROVE EntriesDiffer' /\ H!ListMatchesMap' /\ H!ReplaceIsDue' /\ H!OversizeIsAnswered'
  <2>1. UNCHANGED <<map, replacing, duplicated, erased>>
    BY <1>1 DEF H!Touch
  <2> QED
    BY <1>1, <2>1, TouchKeepsList, SizeKept
<1>2. ASSUME NEW k \in Keys, H!Erase(k) PROVE EntriesDiffer' /\ H!ListMatchesMap' /\ H!ReplaceIsDue' /\ H!OversizeIsAnswered'
  BY <1>2, EraseKeepsList, EraseAnswers
<1>3. ASSUME NEW u \in Users, NEW k \in Keys, H!Insert(u, k)
      PROVE  EntriesDiffer' /\ H!ListMatchesMap' /\ H!ReplaceIsDue' /\ H!OversizeIsAnswered'
  BY <1>3, InsertKeepsList, InsertAnswers
<1>4. ASSUME NEW u \in Users, H!InsertCreated(u)
      PROVE  EntriesDiffer' /\ H!ListMatchesMap' /\ H!ReplaceIsDue' /\ H!OversizeIsAnswered'
  <2>1. PICK k \in creating[u] : H!Insert(u, k)
    BY <1>4 DEF H!InsertCreated
  <2>2. k \in Keys
    BY <2>1 DEF CacheInv, H!TypeOK
  <2> QED
    BY <1>3, <2>1, <2>2
<1>5. ASSUME UNCHANGED <<list, map, replacing, inserted, duplicated, erased>>
      PROVE  EntriesDiffer' /\ H!ListMatchesMap' /\ H!ReplaceIsDue' /\ H!OversizeIsAnswered'
  BY <1>5, ListKept, SizeKept
<1>6. CASE H!Replace
  BY <1>6, ReplaceKeepsList, ReplaceAnswers
<1>7. ASSUME NEW u \in Users, NEW k \in Keys, H!LocateMiss(u, k)
      PROVE  UNCHANGED <<list, map, replacing, inserted, duplicated, erased>>
  BY <1>7 DEF H!LocateMiss, H!cacheVars
<1>8. ASSUME NEW u \in Users, H!CreateFails(u)
      PROVE  UNCHANGED <<list, map, replacing, inserted, duplicated, erased>>
  BY <1>8 DEF H!CreateFails, H!cacheVars
<1>9. ASSUME NEW u \in Users, NEW k \in Keys, H!InsertGiven(u, k)
      PROVE  EntriesDiffer' /\ H!ListMatchesMap' /\ H!ReplaceIsDue' /\ H!OversizeIsAnswered'
  BY <1>3, <1>9 DEF H!InsertGiven
<1>10. CASE UNCHANGED cacheVars
  BY <1>5, <1>10 DEF cacheVars
<1> QED
  BY <1>1, <1>2, <1>4, <1>5, <1>6, <1>7, <1>8, <1>9, <1>10, CacheStep

\* HashCache: the inductive invariant, for all users, keys and limits.
THEOREM CacheInvariant == Spec => []CacheInv
BY CacheInit, CacheNext, PTL DEF Spec

\* HashCache: the map never holds an iterator of an entry that is gone, and
\* every entry is in the map until a key is inserted that was there, whatever
\* calls of Locate, Insert, Erase and Replace come in between.
THEOREM MapAndListAgree == Spec => []ListMatchesMap
<1>1. CacheInv => ListMatchesMap
  BY DEF CacheInv, ListMatchesMap
<1> QED
  BY <1>1, CacheInvariant, PTL

\* HashCache: a cache a tenth over its limit, whatever that is, has a Replace on
\* its way, unless one met two entries of a key and removed too little; and a
\* Replace whose count wraps needs an Erase between the Insert and itself.
THEOREM OversizeIsCutBack == Spec => []OversizeIsAnswered
<1>1. CacheInv => OversizeIsAnswered
  BY DEF CacheInv, OversizeIsAnswered
<1> QED
  BY <1>1, CacheInvariant, PTL

-----------------------------------------------------------------------------
(* ProxyServer. *)

\* The units that c has read, but for those it has not started to answer.
Answered(c) == IF conn[c] = "read" THEN consumed[c] - bytes[c] ELSE consumed[c]

\* What a read has brought is at the front of buffer_ and comes next.
ReadComesNext(c) ==
  conn[c] = "read" =>
    /\ bytes[c] \in 1 .. consumed[c] /\ bytes[c] <= Len(buffer[c])
    /\ \A i \in 1 .. bytes[c] : buffer[c][i] = Answered(c) + i

\* What has been written is in order, and of earlier reads.
OutIsBehind(c) ==
  \A i \in S!Echoed(c) : /\ out[c][i] <= Answered(c)
                         /\ \A j \in S!Echoed(c) : i < j => out[c][i] < out[c][j]

\* Nothing is missing of it before a write is cut.
OutIsWhole(c) ==
  /\ conn[c] = "writing" => broken[c]
  /\ conn[c] \notin {"writing", "closed"} /\ ~ broken[c] =>
       out[c] = [i \in 1 .. Answered(c) |-> i]

\* What holds of one client of the server.
EchoOk(c) == ReadComesNext(c) /\ (program = "echo" => OutIsBehind(c) /\ OutIsWhole(c))

\* The inductive invariant of ProxyServer.
ProxyInv == S!TypeOK /\ \A c \in Connections : EchoOk(c)

\* What each step of the proxy is.
LEMMA ProxyStep ==
  ASSUME Next
  PROVE  \/ \E c \in Connections :
               \/ S!Connect(c) \/ S!AcceptError(c) \/ S!HandleAccept(c) \/ S!ReadSome(c)
               \/ S!HandleFailed(c) \/ S!HandleQuit(c) \/ S!HandleRead(c)
               \/ S!WriteSome(c) \/ S!HandleWrite(c)
         \/ \E c \in Connections, unit \in S!Units : S!Send(c, unit)
         \/ \E c \in Connections, how \in {"shut", "reset"} : S!Leave(c, how)
         \/ S!StartAccept \/ S!Stop \/ S!Exit
         \/ UNCHANGED proxyVars
<1>1. CASE Cache
  BY <1>1 DEF Cache, Of
<1>2. CASE Runner
  BY <1>2 DEF Runner, Of
<1>3. CASE Ring
  BY <1>3 DEF Ring, Of
<1>4. CASE Fastcgi
  BY <1>4 DEF Fastcgi, Of
<1>5. CASE Pool
  BY <1>5 DEF Pool, Of
<1>6. CASE Proxy
  BY <1>6 DEF Proxy
<1> QED
  BY <1>1, <1>2, <1>3, <1>4, <1>5, <1>6 DEF Next

\* It holds to begin with.
LEMMA ProxyInit == Init => ProxyInv
<1> SUFFICES ASSUME Init PROVE ProxyInv
  OBVIOUS
<1>1. /\ program \in {"echo", "redis"} /\ server = "up" /\ accept = "handled" /\ errors = 0
      /\ conn = [c \in Connections |-> "none"]
      /\ client = [c \in Connections |-> "none"]
      /\ stream = [c \in Connections |-> <<>>] /\ arrived = [c \in Connections |-> 0]
      /\ buffer = [c \in Connections |-> <<>>] /\ bytes = [c \in Connections |-> 0]
      /\ out = [c \in Connections |-> <<>>]
      /\ broken = [c \in Connections |-> FALSE] /\ consumed = [c \in Connections |-> 0]
  BY DEF Init, S!Init
<1>2. S!TypeOK
  <2>1. /\ conn \in [Connections -> S!Places]
        /\ client \in [Connections -> {"none", "open", "shut", "reset"}]
    BY <1>1 DEF S!Places
  <2>2. /\ arrived \in [Connections -> Nat] /\ bytes \in [Connections -> Nat]
        /\ consumed \in [Connections -> Nat]
    BY <1>1
  <2>3. \A T : << >> \in Seq(T)
    OBVIOUS
  <2>4. /\ stream \in [Connections -> Seq(S!Units)] /\ buffer \in [Connections -> Seq(Nat)]
        /\ out \in [Connections -> Seq(Nat)]
    BY <1>1, <2>3
  <2>5. broken \in [Connections -> BOOLEAN]
    BY <1>1
  <2>6. errors \in Nat /\ accept \in {"waiting", "handled"}
        /\ server \in {"up", "stopped", "ended", "died"}
    BY <1>1
  <2> QED
    BY <1>1, <2>1, <2>2, <2>4, <2>5, <2>6 DEF S!TypeOK
<1>3. ASSUME NEW c \in Connections PROVE EchoOk(c)
  <2>1. out[c] = <<>> /\ Answered(c) = 0 /\ conn[c] = "none"
    BY <1>1 DEF Answered
  <2>2. DOMAIN out[c] = {} /\ <<>> = [i \in 1 .. 0 |-> i]
    BY <2>1
  <2>3. S!Echoed(c) = {}
    BY <2>2 DEF S!Echoed
  <2> QED
    BY <2>1, <2>2, <2>3 DEF EchoOk, ReadComesNext, OutIsBehind, OutIsWhole
<1> QED
  BY <1>2, <1>3 DEF ProxyInv

\* A part of the answer to a read: the units that come next, or PONG.
LEMMA AnswerIs ==
  ASSUME S!TypeOK, NEW c \in Connections, conn[c] = "read", ReadComesNext(c),
         NEW m \in 0 .. Len(S!Text(c)), NEW text, text = SubSeq(S!Text(c), 1, m)
  PROVE  /\ text \in Seq(Nat) /\ Len(text) = m /\ Len(S!Text(c)) \in Nat /\ m \in Nat
         /\ program = "echo" => /\ Len(S!Text(c)) = bytes[c]
                                /\ \A i \in 1 .. m : text[i] = Answered(c) + i
<1>1. /\ bytes[c] \in Nat /\ consumed[c] \in Nat /\ buffer[c] \in Seq(Nat)
      /\ program \in {"echo", "redis"}
  BY DEF S!TypeOK
<1>2. /\ bytes[c] \in 1 .. consumed[c] /\ bytes[c] <= Len(buffer[c])
      /\ \A i \in 1 .. bytes[c] : buffer[c][i] = Answered(c) + i
  BY DEF ReadComesNext
<1>3. Len(buffer[c]) \in Nat /\ \A i \in 1 .. Len(buffer[c]) : buffer[c][i] \in Nat
  BY <1>1, LenProperties, ElementOfSeq
<1> DEFINE t == S!Text(c)
<1>4. /\ t \in Seq(Nat)
      /\ program = "echo" => /\ Len(t) = bytes[c]
                             /\ \A i \in 1 .. bytes[c] : t[i] = Answered(c) + i
  <2>1. CASE program = "echo"
    <3> DEFINE n == bytes[c]  b == buffer[c]
    <3>1. t = SubSeq(b, 1, n)
      BY <2>1 DEF S!Text
    <3>2. n \in Nat /\ n >= 1 /\ \A i \in 1 .. n : b[i] \in Nat
      BY <1>1, <1>2, <1>3
    <3>3. /\ SubSeq(b, 1, n) \in Seq(Nat)
          /\ Len(SubSeq(b, 1, n)) = IF 1 <= n THEN n - 1 + 1 ELSE 0
          /\ \A i \in 1 .. n - 1 + 1 : SubSeq(b, 1, n)[i] = b[1 + i - 1]
      <4> HIDE DEF n, b
      <4> QED
        BY <3>2, SubSeqProperties
    <3> HIDE DEF t
    <3>4. Len(t) = n /\ \A i \in 1 .. n : t[i] = b[i]
      <4> HIDE DEF n, b
      <4> QED
        BY <3>1, <3>2, <3>3
    <3> QED
      BY <1>2, <3>1, <3>3, <3>4
  <2>2. CASE program # "echo"
    <3>1. t = << 0 >>
      BY <2>2 DEF S!Text, S!Other
    <3> QED
      BY <2>2, <3>1
  <2> QED
    BY <2>1, <2>2
<1> HIDE DEF t
<1>5. Len(t) \in Nat /\ m \in Nat /\ m <= Len(t) /\ \A i \in 1 .. Len(t) : t[i] \in Nat
  <2>1. Len(t) \in Nat /\ \A i \in 1 .. Len(t) : t[i] \in Nat
    BY <1>4, LenProperties, ElementOfSeq
  <2> QED
    BY <2>1 DEF t
<1>6. /\ SubSeq(t, 1, m) \in Seq(Nat)
      /\ Len(SubSeq(t, 1, m)) = IF 1 <= m THEN m - 1 + 1 ELSE 0
      /\ \A i \in 1 .. m - 1 + 1 : SubSeq(t, 1, m)[i] = t[1 + i - 1]
  <2>1. \A i \in 1 .. m : t[i] \in Nat
    BY <1>5
  <2> QED
    BY <1>5, <2>1, SubSeqProperties
<1>7. text = SubSeq(t, 1, m)
  BY DEF t
<1>8. text \in Seq(Nat) /\ Len(text) = m /\ \A i \in 1 .. m : text[i] = t[i]
  BY <1>5, <1>6, <1>7
<1>9. program = "echo" => \A i \in 1 .. m : text[i] = Answered(c) + i
  BY <1>1, <1>4, <1>5, <1>8
<1> QED
  BY <1>4, <1>5, <1>8, <1>9 DEF t

\* The types: those of a read and of an answer are the sequences they extend.
LEMMA ProxyTypeStep ==
  ASSUME ProxyInv, Next PROVE S!TypeOK'
<1> USE DEF S!Places
<1>1. /\ S!TypeOK
      /\ program \in {"echo", "redis"} /\ server \in {"up", "stopped", "ended", "died"}
      /\ accept \in {"waiting", "handled"} /\ errors \in Nat
      /\ conn \in [Connections -> S!Places]
      /\ client \in [Connections -> {"none", "open", "shut", "reset"}]
      /\ stream \in [Connections -> Seq(S!Units)] /\ arrived \in [Connections -> Nat]
      /\ buffer \in [Connections -> Seq(Nat)] /\ bytes \in [Connections -> Nat]
      /\ out \in [Connections -> Seq(Nat)]
      /\ broken \in [Connections -> BOOLEAN] /\ consumed \in [Connections -> Nat]
  BY DEF ProxyInv, S!TypeOK
<1> USE DEF S!serverVars, S!clientVars, S!readVars, S!writeVars
<1>2. ASSUME NEW c \in Connections, S!Connect(c) \/ S!AcceptError(c) \/ S!HandleAccept(c)
                                    \/ S!HandleWrite(c)
      PROVE  S!TypeOK'
  <2>1. CASE S!Connect(c)
    BY <1>1, <2>1 DEF S!Connect, S!TypeOK
  <2>2. CASE S!AcceptError(c)
    BY <1>1, <2>2 DEF S!AcceptError, S!TypeOK
  <2>3. CASE S!HandleAccept(c)
    BY <1>1, <2>3 DEF S!HandleAccept, S!TypeOK
  <2>4. CASE S!HandleWrite(c)
    BY <1>1, <2>4 DEF S!HandleWrite, S!TypeOK
  <2> QED
    BY <1>2, <2>1, <2>2, <2>3, <2>4
<1>3. ASSUME NEW c \in Connections, NEW unit \in S!Units, S!Send(c, unit) PROVE S!TypeOK'
  <2>1. Append(stream[c], unit) \in Seq(S!Units) /\ arrived[c] + 1 \in Nat
    BY <1>1, AppendProperties
  <2>2. stream' \in [Connections -> Seq(S!Units)] /\ arrived' \in [Connections -> Nat]
    BY <1>1, <1>3, <2>1 DEF S!Send
  <2> QED
    BY <1>1, <1>3, <2>2 DEF S!Send, S!TypeOK
<1>4. ASSUME NEW c \in Connections, NEW how \in {"shut", "reset"}, S!Leave(c, how)
      PROVE  S!TypeOK'
  BY <1>1, <1>4 DEF S!Leave, S!TypeOK
<1>5. CASE S!StartAccept
  BY <1>1, <1>5 DEF S!StartAccept, S!TypeOK
<1>6. CASE S!Stop \/ S!Exit
  BY <1>1, <1>6 DEF S!Stop, S!Exit, S!TypeOK
<1>7. ASSUME NEW c \in Connections, S!HandleFailed(c) \/ S!HandleQuit(c) PROVE S!TypeOK'
  BY <1>1, <1>7 DEF S!HandleFailed, S!HandleQuit, S!Shutdown, S!TypeOK
<1>8. ASSUME NEW c \in Connections, S!ReadSome(c) PROVE S!TypeOK'
  <2>1. CASE arrived[c] > 0
    <3>1. PICK n \in 1 .. arrived[c] :
              /\ conn' = [conn EXCEPT ![c] = "read"]
              /\ bytes' = [bytes EXCEPT ![c] = n]
              /\ buffer' = [buffer EXCEPT ![c] = [i \in 1 .. n |-> consumed[c] + i]
                                                 \o SubSeq(@, n + 1, Len(@))]
              /\ consumed' = [consumed EXCEPT ![c] = @ + n]
              /\ arrived' = [arrived EXCEPT ![c] = @ - n]
      BY <1>8, <2>1 DEF S!ReadSome
    <3>2. n \in Nat /\ arrived[c] - n \in Nat /\ consumed[c] + n \in Nat
      BY <1>1, <2>1
    <3> DEFINE x == [i \in 1 .. n |-> consumed[c] + i]
               y == SubSeq(buffer[c], n + 1, Len(buffer[c]))
    <3>3. x \in Seq(Nat)
      BY <1>1, <3>2
    <3>4. y \in Seq(Nat)
      <4>1. buffer[c] \in Seq(Nat) /\ Len(buffer[c]) \in Nat
            /\ \A i \in 1 .. Len(buffer[c]) : buffer[c][i] \in Nat
        BY <1>1, LenProperties, ElementOfSeq
      <4>2. \A i \in n + 1 .. Len(buffer[c]) : buffer[c][i] \in Nat
        BY <3>2, <4>1
      <4> QED
        BY <3>2, <4>1, <4>2, SubSeqProperties
    <3>5. buffer' = [buffer EXCEPT ![c] = x \o y]
      BY <3>1
    <3> HIDE DEF x, y
    <3>6. x \o y \in Seq(Nat)
      BY <3>3, <3>4, ConcatProperties
    <3>7. buffer' \in [Connections -> Seq(Nat)]
      BY <1>1, <3>5, <3>6
    <3>8. /\ bytes' \in [Connections -> Nat] /\ consumed' \in [Connections -> Nat]
          /\ arrived' \in [Connections -> Nat] /\ conn' \in [Connections -> S!Places]
      BY <1>1, <3>1, <3>2
    <3>9. UNCHANGED <<program, server, accept, errors, client, stream, out, broken>>
      BY <1>8 DEF S!ReadSome
    <3> QED
      BY <1>1, <3>7, <3>8, <3>9 DEF S!TypeOK
  <2>2. CASE ~ (arrived[c] > 0)
    BY <1>1, <1>8, <2>2 DEF S!ReadSome, S!TypeOK
  <2> QED
    BY <2>1, <2>2
<1>9. ASSUME NEW c \in Connections, S!HandleRead(c) PROVE S!TypeOK'
  <2>1. PICK m \in 0 .. Len(S!Text(c)) :
          /\ out' = [out EXCEPT ![c] = @ \o SubSeq(S!Text(c), 1, m)]
          /\ broken' = [broken EXCEPT ![c] = (@ \/ m < Len(S!Text(c)))]
          /\ conn' = [conn EXCEPT ![c] = IF m = 0 /\ client[c] # "reset"
                                           THEN "writing" ELSE "wrote"]
    BY <1>9 DEF S!HandleRead
  <2>2. conn[c] = "read" /\ ReadComesNext(c)
    BY <1>9 DEF S!HandleRead, ProxyInv, EchoOk
  <2> DEFINE text == SubSeq(S!Text(c), 1, m)
  <2>3. text \in Seq(Nat)
    BY <1>1, <2>2, AnswerIs
  <2>4. out' = [out EXCEPT ![c] = @ \o text]
    BY <2>1
  <2> HIDE DEF text
  <2>5. out[c] \o text \in Seq(Nat)
    BY <1>1, <2>3, ConcatProperties
  <2>6. out' \in [Connections -> Seq(Nat)]
    BY <1>1, <2>4, <2>5
  <2>7. broken' \in [Connections -> BOOLEAN] /\ conn' \in [Connections -> S!Places]
    BY <1>1, <2>1
  <2>8. UNCHANGED <<program, server, accept, errors, client, stream, arrived, buffer, bytes,
                    consumed>>
    BY <1>9 DEF S!HandleRead
  <2> QED
    BY <1>1, <2>6, <2>7, <2>8 DEF S!TypeOK
<1>10. ASSUME NEW c \in Connections, S!WriteSome(c) PROVE S!TypeOK'
  <2>1. Append(out[c], S!Other) \in Seq(Nat)
    BY <1>1, AppendProperties DEF S!Other
  <2>2. out' \in [Connections -> Seq(Nat)]
    BY <1>1, <1>10, <2>1 DEF S!WriteSome
  <2> QED
    BY <1>1, <1>10, <2>2 DEF S!WriteSome, S!TypeOK
<1>11. CASE UNCHANGED proxyVars
  BY <1>1, <1>11 DEF proxyVars, S!TypeOK
<1> QED
  BY <1>2, <1>3, <1>4, <1>5, <1>6, <1>7, <1>8, <1>9, <1>10, <1>11, ProxyStep

\* What a step does not touch keeps its order.
LEMMA EchoKept ==
  ASSUME NEW c \in Connections, EchoOk(c),
         program' = program, buffer'[c] = buffer[c], bytes'[c] = bytes[c],
         out'[c] = out[c], broken'[c] = broken[c], consumed'[c] = consumed[c],
         \/ conn'[c] = conn[c]
         \/ conn[c] # "read" /\ conn'[c] \notin {"read", "writing"} /\ conn[c] \notin {"writing", "closed"}
         \/ conn'[c] = "closed" /\ S!TypeOK
  PROVE  EchoOk(c)'
<1>1. S!Echoed(c)' = S!Echoed(c)
  BY DEF S!Echoed
<1>2. CASE conn'[c] = conn[c]
  <2>1. Answered(c)' = Answered(c)
    BY <1>2 DEF Answered
  <2> QED
    BY <1>1, <1>2, <2>1 DEF EchoOk, ReadComesNext, OutIsBehind, OutIsWhole
<1>3. CASE conn[c] # "read" /\ conn'[c] \notin {"read", "writing"} /\ conn[c] \notin {"writing", "closed"}
  <2>1. Answered(c)' = Answered(c)
    BY <1>3 DEF Answered
  <2> QED
    BY <1>1, <1>3, <2>1 DEF EchoOk, ReadComesNext, OutIsBehind, OutIsWhole
<1>4. CASE conn'[c] = "closed" /\ S!TypeOK
  <2>1. Answered(c)' = consumed[c]
    BY <1>4 DEF Answered
  <2>2. consumed[c] \in Nat /\ bytes[c] \in Nat /\ out[c] \in Seq(Nat)
    BY <1>4 DEF S!TypeOK
  <2>3. Answered(c) <= consumed[c] /\ Answered(c) \in Int
    BY <2>2 DEF Answered
  <2>4. \A i \in S!Echoed(c) : out[c][i] \in Nat
    BY <2>2, LenProperties, ElementOfSeq DEF S!Echoed
  <2>5. ASSUME program = "echo" PROVE OutIsBehind(c)'
    <3>1. OutIsBehind(c)
      BY <2>5 DEF EchoOk
    <3> QED
      BY <1>1, <2>1, <2>2, <2>3, <2>4, <3>1 DEF OutIsBehind
  <2> QED
    BY <1>4, <2>5 DEF EchoOk, ReadComesNext, OutIsWhole
<1> QED
  BY <1>2, <1>3, <1>4

\* A read puts the next units at the front of buffer_.
LEMMA ReadEchoes ==
  ASSUME ProxyInv, NEW c \in Connections, S!ReadSome(c) PROVE EchoOk(c)'
<1>1. /\ buffer \in [Connections -> Seq(Nat)] /\ bytes \in [Connections -> Nat]
      /\ consumed \in [Connections -> Nat] /\ arrived \in [Connections -> Nat]
      /\ conn \in [Connections -> S!Places] /\ EchoOk(c)
  BY DEF ProxyInv, S!TypeOK
<1>2. conn[c] = "reading" /\ UNCHANGED <<program, out, broken>>
  BY DEF S!ReadSome, S!serverVars, S!writeVars
<1>3. CASE arrived[c] > 0
  <2>1. PICK n \in 1 .. arrived[c] :
            /\ conn' = [conn EXCEPT ![c] = "read"]
            /\ bytes' = [bytes EXCEPT ![c] = n]
            /\ buffer' = [buffer EXCEPT ![c] = [i \in 1 .. n |-> consumed[c] + i]
                                               \o SubSeq(@, n + 1, Len(@))]
            /\ consumed' = [consumed EXCEPT ![c] = @ + n]
    BY <1>3 DEF S!ReadSome
  <2> DEFINE x == [i \in 1 .. n |-> consumed[c] + i]
             y == SubSeq(buffer[c], n + 1, Len(buffer[c]))
             b == buffer'[c]
  <2>2. n \in Nat /\ n >= 1
    BY <1>1
  <2>3. x \in Seq(Nat) /\ Len(x) = n /\ \A i \in 1 .. n : x[i] = consumed[c] + i
    BY <1>1, <2>2
  <2>4. y \in Seq(Nat)
    <3>1. buffer[c] \in Seq(Nat) /\ Len(buffer[c]) \in Nat
          /\ \A i \in 1 .. Len(buffer[c]) : buffer[c][i] \in Nat
      BY <1>1, LenProperties, ElementOfSeq
    <3>2. \A i \in n + 1 .. Len(buffer[c]) : buffer[c][i] \in Nat
      BY <2>2, <3>1
    <3> QED
      BY <2>2, <3>1, <3>2, SubSeqProperties
  <2>5. b = x \o y
    BY <1>1, <2>1
  <2>6. /\ conn'[c] = "read" /\ bytes'[c] = n /\ consumed'[c] = consumed[c] + n
        /\ out'[c] = out[c] /\ broken'[c] = broken[c]
    BY <1>1, <1>2, <2>1
  <2> HIDE DEF x, y, b
  <2>7. Len(b) = n + Len(y) /\ Len(y) \in Nat
        /\ \A i \in 1 .. n + Len(y) : b[i] = IF i <= n THEN x[i] ELSE y[i - n]
    BY <2>3, <2>4, <2>5, ConcatProperties, LenProperties
  <2>8. n <= Len(b) /\ \A i \in 1 .. n : b[i] = consumed[c] + i
    BY <2>2, <2>3, <2>7
  <2>9. Answered(c) = consumed[c] /\ Answered(c)' = consumed[c]
    <3>1. Answered(c)' = IF conn'[c] = "read" THEN consumed'[c] - bytes'[c] ELSE consumed'[c]
      BY DEF Answered
    <3>2. consumed[c] \in Nat
      BY <1>1
    <3>3. Answered(c)' = consumed[c]
      BY <2>2, <2>6, <3>1, <3>2
    <3> QED
      BY <1>2, <3>3 DEF Answered
  <2>10. ReadComesNext(c)'
    <3>1. n \in 1 .. consumed[c] + n
      BY <1>1, <2>2
    <3> QED
      BY <2>6, <2>8, <2>9, <3>1 DEF ReadComesNext, b
  <2>11. S!Echoed(c)' = S!Echoed(c)
    BY <2>6 DEF S!Echoed
  <2>12. program' = "echo" => OutIsBehind(c)' /\ OutIsWhole(c)'
    BY <1>1, <1>2, <2>6, <2>9, <2>11 DEF EchoOk, OutIsBehind, OutIsWhole
  <2> QED
    BY <2>10, <2>12 DEF EchoOk
<1>4. CASE ~ (arrived[c] > 0)
  <2>1. conn' = [conn EXCEPT ![c] = "failed"] /\ UNCHANGED <<buffer, bytes, consumed>>
    BY <1>4 DEF S!ReadSome, S!readVars
  <2> QED
    BY <1>1, <1>2, <2>1, EchoKept
<1> QED
  BY <1>3, <1>4

\* An answer goes on where the last one ended; one that is not cut short brings
\* out up to what has been read.
LEMMA AnswerEchoes ==
  ASSUME ProxyInv, NEW c \in Connections, S!HandleRead(c) PROVE EchoOk(c)'
<1>1. /\ S!TypeOK /\ buffer \in [Connections -> Seq(Nat)] /\ bytes \in [Connections -> Nat]
      /\ consumed \in [Connections -> Nat] /\ out \in [Connections -> Seq(Nat)]
      /\ conn \in [Connections -> S!Places] /\ broken \in [Connections -> BOOLEAN]
      /\ EchoOk(c)
  BY DEF ProxyInv, S!TypeOK
<1>2. conn[c] = "read" /\ UNCHANGED <<program, buffer, bytes, consumed>>
  BY DEF S!HandleRead, S!serverVars, S!readVars
<1>3. PICK m \in 0 .. Len(S!Text(c)) :
        /\ out' = [out EXCEPT ![c] = @ \o SubSeq(S!Text(c), 1, m)]
        /\ broken' = [broken EXCEPT ![c] = (@ \/ m < Len(S!Text(c)))]
        /\ conn' = [conn EXCEPT ![c] = IF m = 0 /\ client[c] # "reset"
                                         THEN "writing" ELSE "wrote"]
  BY DEF S!HandleRead
<1>4. conn'[c] \in {"writing", "wrote"} /\ (conn'[c] = "writing" => m = 0)
  BY <1>1, <1>3
<1>5. ReadComesNext(c)'
  BY <1>4 DEF ReadComesNext
<1>6. ASSUME program = "echo" PROVE OutIsBehind(c)' /\ OutIsWhole(c)'
  <2> DEFINE text == SubSeq(S!Text(c), 1, m)  o == out[c]  p == out'[c]
             a == consumed[c] - bytes[c]
  <2>1. /\ text \in Seq(Nat) /\ Len(text) = m /\ Len(S!Text(c)) = bytes[c] /\ m \in Nat
        /\ \A i \in 1 .. m : text[i] = Answered(c) + i
    <3>1. conn[c] = "read" /\ ReadComesNext(c)
      BY <1>1, <1>2 DEF EchoOk
    <3>2. text = SubSeq(S!Text(c), 1, m) /\ m \in 0 .. Len(S!Text(c)) /\ S!TypeOK
      BY <1>1, <1>3
    <3> HIDE DEF text, o, p, a
    <3>3. /\ text \in Seq(Nat) /\ Len(text) = m /\ m \in Nat
          /\ program = "echo" => /\ Len(S!Text(c)) = bytes[c]
                                 /\ \A i \in 1 .. m : text[i] = Answered(c) + i
      BY <3>1, <3>2, AnswerIs
    <3> QED
      BY <1>6, <3>3
  <2>2. Answered(c) = a /\ Answered(c)' = consumed[c] /\ S!Other = 0
    BY <1>2, <1>4 DEF Answered, S!Other
  <2>3. consumed[c] \in Nat /\ bytes[c] \in 1 .. consumed[c] /\ m <= bytes[c]
        /\ a \in Nat /\ a + m <= consumed[c] /\ (m = bytes[c] => a + m = consumed[c])
    <3>1. consumed[c] \in Nat /\ bytes[c] \in 1 .. consumed[c] /\ m <= bytes[c]
      BY <1>1, <1>2, <2>1 DEF EchoOk, ReadComesNext
    <3> QED
      BY <2>1, <3>1
  <2>4. o \in Seq(Nat) /\ p = o \o text /\ Len(o) \in Nat /\ DOMAIN o = 1 .. Len(o)
        /\ \A i \in 1 .. Len(o) : o[i] \in Nat
    BY <1>1, <1>3, LenProperties, ElementOfSeq
  <2>5. /\ ~ broken'[c] => ~ broken[c] /\ ~ (m < bytes[c])
        /\ m < bytes[c] => broken'[c]
    <3>1. broken'[c] = (broken[c] \/ m < bytes[c])
      BY <1>1, <1>3, <2>1
    <3> QED
      BY <3>1
  <2>6. /\ \A i \in DOMAIN o : o[i] # 0 => o[i] <= a
        /\ \A i, j \in DOMAIN o : o[i] # 0 /\ o[j] # 0 /\ i < j => o[i] < o[j]
        /\ ~ broken[c] => o = [i \in 1 .. a |-> i]
    BY <1>1, <1>2, <1>6, <2>2 DEF EchoOk, OutIsBehind, OutIsWhole, S!Echoed
  <2>7. \A i \in 1 .. m : text[i] = a + i
    BY <2>1, <2>2
  <2> HIDE DEF text, o, p, a
  <2>8. /\ p \in Seq(Nat) /\ Len(p) = Len(o) + m
        /\ \A i \in 1 .. Len(o) + m : p[i] = IF i <= Len(o) THEN o[i] ELSE text[i - Len(o)]
    BY <2>1, <2>4, ConcatProperties
  <2>9. DOMAIN p = 1 .. Len(o) + m
    BY <2>8, LenProperties
  <2>10. \A i \in 1 .. Len(o) : i \in DOMAIN p /\ i \in DOMAIN o /\ p[i] = o[i]
    BY <2>1, <2>4, <2>8, <2>9
  <2>11. ASSUME NEW i \in DOMAIN p, ~ (i \in 1 .. Len(o))
         PROVE  p[i] = a + (i - Len(o)) /\ i - Len(o) \in 1 .. m /\ i > Len(o)
    <3>1. i - Len(o) \in 1 .. m /\ i > Len(o)
      BY <2>1, <2>4, <2>9, <2>11
    <3>2. p[i] = text[i - Len(o)]
      BY <2>1, <2>4, <2>8, <2>9, <3>1
    <3> QED
      BY <2>7, <3>1, <3>2
  <2>12. ASSUME NEW i \in DOMAIN p, NEW j \in DOMAIN p, p[i] # 0, p[j] # 0
         PROVE  p[i] <= consumed[c] /\ (i < j => p[i] < p[j])
    <3>1. i \in Nat /\ j \in Nat
      BY <2>1, <2>4, <2>9
    <3>6. a \in Nat /\ m \in Nat /\ Len(o) \in Nat /\ consumed[c] \in Nat /\ a + m <= consumed[c]
      BY <2>1, <2>3, <2>4
    <3>2. CASE i \in 1 .. Len(o) /\ j \in 1 .. Len(o)
      <4>1. o[i] <= a /\ (i < j => o[i] < o[j]) /\ o[i] \in Nat
        BY <2>4, <2>6, <2>10, <2>12, <3>2
      <4> QED
        BY <2>1, <2>3, <2>10, <3>2, <4>1
    <3>3. CASE i \in 1 .. Len(o) /\ ~ (j \in 1 .. Len(o))
      <4>1. o[i] <= a /\ o[i] \in Nat /\ p[i] = o[i]
        BY <2>4, <2>6, <2>10, <2>12, <3>3
      <4>2. p[j] = a + (j - Len(o)) /\ j - Len(o) \in 1 .. m
        BY <2>11, <3>3
      <4> QED
        BY <2>1, <2>3, <4>1, <4>2, SMTT(30)
    <3>4. CASE ~ (i \in 1 .. Len(o)) /\ j \in 1 .. Len(o)
      <4>1. p[i] = a + (i - Len(o)) /\ i - Len(o) \in 1 .. m /\ i > Len(o)
        BY <2>11, <3>4
      <4> QED
        BY <3>1, <3>4, <3>6, <4>1
    <3>5. CASE ~ (i \in 1 .. Len(o)) /\ ~ (j \in 1 .. Len(o))
      <4>1. /\ p[i] = a + (i - Len(o)) /\ i - Len(o) \in 1 .. m
            /\ p[j] = a + (j - Len(o)) /\ j - Len(o) \in 1 .. m
        BY <2>11, <3>5
      <4> QED
        BY <3>1, <3>6, <4>1, SMTT(30)
    <3> QED
      BY <3>2, <3>3, <3>4, <3>5
  <2>13. OutIsBehind(c)'
    BY <2>2, <2>12 DEF OutIsBehind, S!Echoed, p
  <2>14. ASSUME ~ broken'[c] PROVE p = [i \in 1 .. consumed[c] |-> i]
    <3>1. ~ broken[c] /\ m = bytes[c]
      BY <2>1, <2>3, <2>5, <2>14
    <3>2. o = [i \in 1 .. a |-> i] /\ a + m = consumed[c]
      BY <2>3, <2>6, <3>1
    <3>3. Len(o) = a
      BY <2>3, <3>2
    <3>4. DOMAIN p = 1 .. consumed[c]
      BY <2>9, <3>2, <3>3
    <3>5. ASSUME NEW i \in 1 .. consumed[c] PROVE p[i] = i
      <4>1. CASE i \in 1 .. Len(o)
        BY <2>10, <3>2, <3>3, <4>1
      <4>2. CASE ~ (i \in 1 .. Len(o))
        <5>1. p[i] = a + (i - Len(o))
          BY <2>11, <3>4, <4>2
        <5> QED
          BY <2>3, <3>3, <5>1
      <4> QED
        BY <4>1, <4>2
    <3>6. p = [i \in DOMAIN p |-> p[i]]
      BY <2>8, LenProperties
    <3> QED
      BY <3>4, <3>5, <3>6
  <2>15. conn'[c] = "writing" => broken'[c]
    BY <1>4, <2>1, <2>3, <2>5
  <2> QED
    BY <2>2, <2>13, <2>14, <2>15 DEF OutIsWhole, p
<1> QED
  BY <1>2, <1>5, <1>6 DEF EchoOk

\* What is written from freed memory is not a unit, and is of a write that was
\* cut.
LEMMA LateWriteEchoes ==
  ASSUME ProxyInv, NEW c \in Connections, S!WriteSome(c) PROVE EchoOk(c)'
<1>1. /\ consumed \in [Connections -> Nat] /\ out \in [Connections -> Seq(Nat)]
      /\ conn \in [Connections -> S!Places] /\ EchoOk(c)
  BY DEF ProxyInv, S!TypeOK
<1>2. conn[c] = "writing" /\ conn'[c] = "wrote"
      /\ UNCHANGED <<program, buffer, bytes, consumed, broken>>
  BY <1>1 DEF S!WriteSome, S!serverVars, S!readVars
<1>3. Answered(c)' = consumed[c] /\ Answered(c) = consumed[c]
  BY <1>2 DEF Answered
<1>4. ReadComesNext(c)'
  BY <1>2 DEF ReadComesNext
<1>5. ASSUME program = "echo" PROVE OutIsBehind(c)' /\ OutIsWhole(c)'
  <2>1. broken'[c] /\ OutIsBehind(c)
    BY <1>1, <1>2, <1>5 DEF EchoOk, OutIsWhole
  <2> DEFINE o == out[c]  p == out'[c]
  <2>2. o \in Seq(Nat) /\ (p = o \/ p = Append(o, 0))
    BY <1>1 DEF S!WriteSome, S!Other
  <2>3. \A i \in DOMAIN o : o[i] # 0 => /\ o[i] <= consumed[c]
                                        /\ \A j \in DOMAIN o : o[j] # 0 /\ i < j => o[i] < o[j]
    BY <1>3, <2>1 DEF OutIsBehind, S!Echoed, S!Other
  <2> HIDE DEF o, p
  <2>4. \A i \in DOMAIN p : p[i] # 0 => i \in DOMAIN o /\ p[i] = o[i]
    <3>1. DOMAIN o = 1 .. Len(o) /\ Len(o) \in Nat
      BY <2>2, LenProperties
    <3>2. CASE p = Append(o, 0)
      <4>1. /\ p \in Seq(Nat) /\ Len(p) = Len(o) + 1 /\ p[Len(o) + 1] = 0
            /\ \A i \in 1 .. Len(o) : p[i] = o[i]
        BY <2>2, <3>2, AppendProperties
      <4>2. DOMAIN p = 1 .. Len(o) + 1
        BY <4>1, LenProperties
      <4> QED
        BY <3>1, <4>1, <4>2
    <3> QED
      BY <2>2, <3>2
  <2>5. \A i \in DOMAIN p : p[i] # 0 => /\ p[i] <= consumed[c]
                                        /\ \A j \in DOMAIN p : p[j] # 0 /\ i < j => p[i] < p[j]
    BY <2>3, <2>4
  <2>6. OutIsBehind(c)'
    BY <1>3, <2>5 DEF OutIsBehind, S!Echoed, S!Other, p
  <2> QED
    BY <1>2, <2>1, <2>6 DEF OutIsWhole
<1> QED
  BY <1>2, <1>4, <1>5 DEF EchoOk

\* The steps of the other parts and the server's own keep it.
LEMMA ProxyNext ==
  ASSUME ProxyInv, [Next]_vars PROVE ProxyInv'
<1> SUFFICES ASSUME NEW d \in Connections, Next PROVE EchoOk(d)'
  <2>1. CASE UNCHANGED vars
    <3>1. UNCHANGED proxyVars
      BY <2>1 DEF vars
    <3>2. S!TypeOK'
      BY <3>1 DEF ProxyInv, S!TypeOK, proxyVars
    <3>3. ASSUME NEW d \in Connections PROVE EchoOk(d)'
      BY <3>1, EchoKept DEF ProxyInv, proxyVars
    <3> QED
      BY <3>2, <3>3 DEF ProxyInv
  <2>2. CASE Next
    BY <2>2, ProxyTypeStep DEF ProxyInv
  <2> QED
    BY <2>1, <2>2
<1> USE DEF S!serverVars, S!clientVars, S!readVars, S!writeVars
<1>1. /\ S!TypeOK /\ EchoOk(d)
      /\ buffer \in [Connections -> Seq(Nat)] /\ bytes \in [Connections -> Nat]
      /\ consumed \in [Connections -> Nat] /\ out \in [Connections -> Seq(Nat)]
      /\ conn \in [Connections -> S!Places] /\ broken \in [Connections -> BOOLEAN]
  BY DEF ProxyInv, S!TypeOK
<1>2. ASSUME UNCHANGED <<program, buffer, bytes, out, broken, consumed>>,
             \/ conn'[d] = conn[d]
             \/ conn[d] \in {"none", "new", "connected", "wrote"} /\ conn'[d] \in {"new", "connected", "reading"}
             \/ conn'[d] = "closed"
      PROVE  EchoOk(d)'
  BY <1>1, <1>2, EchoKept
<1>3. ASSUME NEW c \in Connections, c # d, S!ReadSome(c) \/ S!HandleRead(c) \/ S!WriteSome(c)
      PROVE  EchoOk(d)'
  <2>1. /\ program' = program /\ buffer'[d] = buffer[d] /\ bytes'[d] = bytes[d]
        /\ out'[d] = out[d] /\ broken'[d] = broken[d] /\ consumed'[d] = consumed[d]
        /\ conn'[d] = conn[d]
    <3>1. CASE S!ReadSome(c)
      BY <1>1, <1>3, <3>1 DEF S!ReadSome
    <3>2. CASE S!HandleRead(c)
      BY <1>1, <1>3, <3>2 DEF S!HandleRead
    <3>3. CASE S!WriteSome(c)
      BY <1>1, <1>3, <3>3 DEF S!WriteSome
    <3> QED
      BY <1>3, <3>1, <3>2, <3>3
  <2> QED
    BY <1>1, <2>1, EchoKept
<1>4. ASSUME NEW c \in Connections, S!ReadSome(c) \/ S!HandleRead(c) \/ S!WriteSome(c)
      PROVE  EchoOk(d)'
  BY <1>3, <1>4, ReadEchoes, AnswerEchoes, LateWriteEchoes
<1>5. ASSUME NEW c \in Connections, S!Connect(c) PROVE EchoOk(d)'
  BY <1>1, <1>2, <1>5 DEF S!Connect
<1>6. ASSUME NEW c \in Connections, S!AcceptError(c) PROVE EchoOk(d)'
  BY <1>1, <1>2, <1>6 DEF S!AcceptError
<1>7. ASSUME NEW c \in Connections, S!HandleAccept(c) PROVE EchoOk(d)'
  BY <1>1, <1>2, <1>7 DEF S!HandleAccept
<1>8. ASSUME NEW c \in Connections, S!HandleFailed(c) \/ S!HandleQuit(c) PROVE EchoOk(d)'
  BY <1>1, <1>2, <1>8 DEF S!HandleFailed, S!HandleQuit, S!Shutdown
<1>9. ASSUME NEW c \in Connections, S!HandleWrite(c) PROVE EchoOk(d)'
  BY <1>1, <1>2, <1>9 DEF S!HandleWrite
<1>10. ASSUME NEW c \in Connections, NEW unit \in S!Units, S!Send(c, unit) PROVE EchoOk(d)'
  BY <1>2, <1>10 DEF S!Send
<1>11. ASSUME NEW c \in Connections, NEW how \in {"shut", "reset"}, S!Leave(c, how)
       PROVE  EchoOk(d)'
  BY <1>2, <1>11 DEF S!Leave
<1>12. CASE S!StartAccept
  <2> DEFINE c == CHOOSE c \in S!Unmade : TRUE
  <2>1. c \in Connections /\ conn[c] = "none" /\ conn' = [conn EXCEPT ![c] = "new"]
    BY <1>12 DEF S!StartAccept, S!Unmade
  <2>2. UNCHANGED <<program, buffer, bytes, out, broken, consumed>>
    BY <1>12 DEF S!StartAccept
  <2> HIDE DEF c
  <2> QED
    BY <1>1, <1>2, <2>1, <2>2
<1>13. CASE S!Stop \/ S!Exit
  BY <1>2, <1>13 DEF S!Stop, S!Exit
<1>14. CASE UNCHANGED proxyVars
  BY <1>2, <1>14 DEF proxyVars
<1> QED
  BY <1>4, <1>5, <1>6, <1>7, <1>8, <1>9, <1>10, <1>11, <1>12, <1>13, <1>14, ProxyStep

\* ProxyServer: the inductive invariant, for all connections and streams.
THEOREM ProxyInvariant == Spec => []ProxyInv
BY ProxyInit, ProxyNext, PTL DEF Spec

\* ProxyServer: a client of the echo server gets back its own units in their
\* order and none twice, and all that were read until a write is cut, whatever
\* the other clients do.
THEOREM EchoesInOrder == Spec => []EchoInOrder
<1>1. ProxyInv => EchoInOrder
  <2> SUFFICES ASSUME ProxyInv, NEW c \in Connections, program = "echo"
               PROVE  /\ \A i, j \in S!Echoed(c) : i < j => out[c][i] < out[c][j]
                      /\ ~ broken[c] /\ conn[c] \in {"reading", "wrote", "failed"} =>
                           out[c] = [i \in 1 .. consumed[c] |-> i]
    BY DEF EchoInOrder, S!EchoInOrder
  <2>1. OutIsBehind(c) /\ OutIsWhole(c)
    BY DEF ProxyInv, EchoOk
  <2> QED
    BY <2>1 DEF OutIsBehind, OutIsWhole, Answered
<1> QED
  BY <1>1, ProxyInvariant, PTL

-----------------------------------------------------------------------------
(* ThreadPool. *)

\* The Workers in workers_.
Listed == {workers[i] : i \in 1 .. Len(workers)}

\* They are different and alive, Shrunk is not deleting one of them, and the
\* Workers that are no longer listed are closed.
ListedAreAlive ==
  /\ \A i, j \in 1 .. Len(workers) : i # j => workers[i] # workers[j]
  /\ \A w \in Listed : worker[w] \notin {"none", "deleted"}
  /\ resizer = "deleting" => joining \cap Listed = {}
  /\ \A w \in Workers : worker[w] # "none" => w \in Listed \cup closed

\* What GetIdle found is listed, or Shrunk has erased it since.
Found(p) == target[p] \in Workers /\ target[p] \in Listed \cup pool_erased[p]
TargetIsKnown(p) ==
  /\ poster[p] \in {"post", "notify"} => Found(p)
  /\ poster[p] \in {"scan", "choose"} => target[p] = P!Nobody \/ Found(p)
TargetsAreKnown == \A p \in P!Actors : TargetIsKnown(p)

\* i_ is in the list, or its Worker was closed.
CursorIsKnown == cursor = "end" \/ cursor \in Listed \/ cursor \in closed

\* While a GetIdle goes through the list, with mutex_, there is something in
\* it and Shrunk is not at it.
ScanHasMutex ==
  \A p \in P!Actors : poster[p] = "scan" => workers # <<>> /\ resizer \notin {"shrink", "deleting"}

\* Who is in Post has a message to post.
MessageIsSet ==
  \A p \in P!Actors : poster[p] \notin {"idle", "notify"} => message[p] \in Messages \cup {P!Inner}

\* What the steps of the pool keep as long as the last two hold.
PoolCore ==
  /\ P!TypeOK /\ pool_at >= 1
  /\ ListedAreAlive /\ TargetsAreKnown /\ CursorIsKnown /\ P!StaleOnlyIfErased

\* The inductive invariant of ThreadPool.
PoolInv == PoolCore /\ ScanHasMutex /\ MessageIsSet

\* What the proofs use of a list that is typed.
LEMMA ListedIs ==
  ASSUME workers \in Seq(Workers)
  PROVE  /\ Len(workers) \in Nat /\ DOMAIN workers = 1 .. Len(workers)
         /\ P!ToSet(workers) = Listed /\ Listed \subseteq Workers
         /\ \A i \in 1 .. Len(workers) : workers[i] \in Listed
         /\ workers # <<>> => Len(workers) >= 1
<1>1. Len(workers) \in Nat /\ DOMAIN workers = 1 .. Len(workers)
      /\ \A i \in 1 .. Len(workers) : workers[i] \in Workers
  BY LenProperties, ElementOfSeq
<1>2. workers # <<>> => Len(workers) # 0
  BY EmptySeq
<1> QED
  BY <1>1, <1>2 DEF Listed, P!ToSet

\* What each step of the pool is.
LEMMA PoolStep ==
  ASSUME Next
  PROVE  \/ \E w \in Workers : P!Work(w) \/ P!SpuriousWakeup(w)
         \/ \E p \in Posters, m \in Messages : P!Post(p, m)
         \/ \E p \in P!Actors : P!Posting(p)
         \/ \E r \in Resizes : P!SetSize(r[1], r[2])
         \/ P!Resizing \/ P!Stop
         \/ UNCHANGED poolVars
<1>1. CASE Cache
  BY <1>1 DEF Cache, Of
<1>2. CASE Runner
  BY <1>2 DEF Runner, Of
<1>3. CASE Ring
  BY <1>3 DEF Ring, Of
<1>4. CASE Fastcgi
  BY <1>4 DEF Fastcgi, Of
<1>5. CASE Pool
  BY <1>5 DEF Pool, P!Work, P!Posting, P!Resizing
<1>6. CASE Proxy
  BY <1>6 DEF Proxy, Of
<1> QED
  BY <1>1, <1>2, <1>3, <1>4, <1>5, <1>6 DEF Next

\* There are identities for the Workers of the constructor.
LEMMA FirstWorkers ==
  /\ PoolInitSize \in Nat /\ P!First \in [1 .. PoolInitSize -> Workers]
  /\ \A i, j \in 1 .. PoolInitSize : i # j => P!First[i] # P!First[j]
<1>1. IsFiniteSet(Workers) /\ PoolInitSize \in 0 .. Cardinality(Workers)
  <2>1. P!IsFiniteSet(Workers) /\ PoolInitSize \in 0 .. P!Cardinality(Workers)
    BY PartsAssumption DEF P!PoolAssumption
  <2>2. P!IsFiniteSet(Workers) = IsFiniteSet(Workers)
    BY DEF IsFiniteSet, P!IsFiniteSet
  <2>3. P!Cardinality(Workers) = Cardinality(Workers)
    BY DEF Cardinality, P!Cardinality
  <2> QED
    BY <2>1, <2>2, <2>3
<1>2. Cardinality(Workers) \in Nat /\ ExistsBijection(1 .. Cardinality(Workers), Workers)
  BY <1>1, FS_CardinalityType
<1>3. PICK f \in [1 .. Cardinality(Workers) -> Workers] :
         \A a, b \in 1 .. Cardinality(Workers) : f[a] = f[b] => a = b
  BY <1>2 DEF ExistsBijection, Bijection, Injection, IsInjective
<1> DEFINE g == [i \in 1 .. PoolInitSize |-> f[i]]
<1>4. PoolInitSize \in Nat /\ \A i \in 1 .. PoolInitSize : i \in 1 .. Cardinality(Workers)
  BY <1>1, <1>2
<1>5. g \in [1 .. PoolInitSize -> Workers] /\ \A a, b \in DOMAIN g : g[a] = g[b] => a = b
  BY <1>3, <1>4
<1>6. \E first \in [1 .. PoolInitSize -> Workers] : P!IsInjective(first)
  BY <1>5 DEF P!IsInjective
<1>7. P!First \in [1 .. PoolInitSize -> Workers] /\ P!IsInjective(P!First)
  BY <1>6 DEF P!First
<1> QED
  BY <1>4, <1>7 DEF P!IsInjective

\* The invariant holds to begin with.
LEMMA PoolInit == Init => PoolInv
<1> SUFFICES ASSUME Init PROVE PoolInv
  OBVIOUS
<1> DEFINE n == PoolInitSize  f == P!First
<1>1. /\ workers = f /\ cursor = (IF n = 0 THEN "end" ELSE f[1]) /\ max_size = PoolMaxSize
      /\ worker = [w \in Workers |-> IF w \in P!ToSet(f) THEN "test" ELSE "none"]
      /\ closed = {} /\ queue = [w \in Workers |-> <<>>]
      /\ pool_busy = [w \in Workers |-> 0]
      /\ poster = [p \in P!Actors |-> "idle"] /\ message = [p \in P!Actors |-> P!Nobody]
      /\ target = [p \in P!Actors |-> P!Nobody] /\ posted = {}
      /\ scanned = [p \in P!Actors |-> 0] /\ min_busy = [p \in P!Actors |-> 0]
      /\ resizer = "idle" /\ wanted = 0 /\ limit = 0 /\ pool_at = 1 /\ sets = 0
      /\ joining = {} /\ undefined = "none" /\ pool_erased = [p \in P!Actors |-> {}]
  BY DEF Init, P!Init
<1>2. /\ n \in Nat /\ f \in [1 .. n -> Workers]
      /\ \A i, j \in 1 .. n : i # j => f[i] # f[j]
  BY FirstWorkers
<1> HIDE DEF n, f
<1>3. workers \in Seq(Workers) /\ Len(workers) = n
  BY <1>1, <1>2
<1>4. /\ P!ToSet(workers) = Listed /\ Listed \subseteq Workers
      /\ \A i \in 1 .. n : workers[i] \in Listed
  BY <1>3, ListedIs
<1>5. P!TypeOK
  <2>1. cursor \in Workers \cup {"end"} /\ max_size \in Nat
    <3>1. n # 0 => 1 \in 1 .. n
      BY <1>2
    <3>2. PoolMaxSize \in Nat
      BY PartsAssumption DEF P!PoolAssumption
    <3> QED
      BY <1>1, <1>2, <3>1, <3>2
  <2>2. worker \in [Workers -> {"none", "test", "enter", "waiting", "woken", "running",
                                "ended", "deleted"}]
    BY <1>1
  <2>3. queue \in [Workers -> Seq(Messages \cup {P!Inner})]
    <3>1. << >> \in Seq(Messages \cup {P!Inner})
      OBVIOUS
    <3> QED
      BY <1>1, <3>1
  <2>4. /\ closed \in SUBSET Workers /\ pool_busy \in [Workers -> Nat]
        /\ poster \in [P!Actors -> {"idle", "lock", "scan", "choose", "create", "first",
                                    "post", "notify"}]
        /\ message \in [P!Actors -> Messages \cup {P!Inner, P!Nobody}]
        /\ target \in [P!Actors -> Workers \cup {P!Nobody}]
        /\ scanned \in [P!Actors -> Nat] /\ min_busy \in [P!Actors -> Nat]
        /\ posted \in SUBSET (Messages \cup {P!Inner})
    BY <1>1
  <2>5. /\ resizer \in {"idle", "inflate", "lock", "shrink", "deleting", "limit",
                        "stopping", "stopped", "joining", "joined"}
        /\ wanted \in Int /\ limit \in Nat /\ pool_at \in Nat
        /\ joining \in SUBSET Workers /\ sets \in Nat
        /\ undefined \in {"none", "cursor", "worker", "first"}
        /\ pool_erased \in [P!Actors -> SUBSET Workers]
    BY <1>1
  <2> QED
    BY <1>3, <2>1, <2>2, <2>3, <2>4, <2>5 DEF P!TypeOK
<1>6. ListedAreAlive
  <2>1. P!ToSet(f) = Listed
    BY <1>1, <1>4
  <2>2. \A w \in Listed : worker[w] = "test"
    BY <1>1, <1>4, <2>1
  <2>3. \A w \in Workers : worker[w] # "none" => w \in Listed
    BY <1>1, <2>1
  <2> QED
    BY <1>1, <1>2, <1>3, <2>2, <2>3 DEF ListedAreAlive
<1>7. TargetsAreKnown /\ ScanHasMutex /\ MessageIsSet
  BY <1>1 DEF TargetsAreKnown, TargetIsKnown, ScanHasMutex, MessageIsSet
<1>8. CursorIsKnown
  <2>1. n # 0 => 1 \in 1 .. n
    BY <1>2
  <2> QED
    BY <1>1, <1>4, <2>1 DEF CursorIsKnown
<1>9. P!StaleOnlyIfErased /\ pool_at >= 1
  BY <1>1 DEF P!StaleOnlyIfErased
<1> QED
  BY <1>5, <1>6, <1>7, <1>8, <1>9 DEF PoolInv, PoolCore

\* A step that leaves the list alone, and creates and deletes no Worker of it.
LEMMA WorkersKept ==
  ASSUME ListedAreAlive, CursorIsKnown,
         workers' = workers, closed \subseteq closed',
         cursor' = cursor \/ cursor' = "end" \/ cursor' \in Listed,
         \A w \in Workers : worker'[w] = "none" <=> worker[w] = "none",
         \A w \in Listed : w \in Workers /\ worker'[w] # "deleted",
         resizer' = "deleting" => resizer = "deleting" /\ joining' = joining
  PROVE  Listed' = Listed /\ ListedAreAlive' /\ CursorIsKnown'
<1>1. Listed' = Listed
  BY DEF Listed
<1>2. ListedAreAlive'
  BY <1>1 DEF ListedAreAlive
<1>3. CursorIsKnown'
  BY <1>1 DEF CursorIsKnown
<1> QED
  BY <1>1, <1>2, <1>3

\* A step of one who posts.
LEMMA TargetKept ==
  ASSUME TargetsAreKnown, Listed \subseteq Listed', NEW p \in P!Actors,
         \A q \in P!Actors : q # p => /\ poster'[q] = poster[q] /\ target'[q] = target[q]
                                      /\ pool_erased'[q] = pool_erased[q],
         TargetIsKnown(p)'
  PROVE  TargetsAreKnown'
<1>1. ASSUME NEW q \in P!Actors, q # p PROVE TargetIsKnown(q)'
  BY <1>1 DEF TargetsAreKnown, TargetIsKnown, Found
<1> QED
  BY <1>1 DEF TargetsAreKnown, P!Actors

\* What notify_all does to the threads of the Workers in W.
LEMMA NotifiedIs ==
  ASSUME P!TypeOK, NEW W
  PROVE  /\ P!Notified(W) \in [Workers -> {"none", "test", "enter", "waiting", "woken",
                                           "running", "ended", "deleted"}]
         /\ \A w \in Workers : /\ P!Notified(W)[w] = "none" <=> worker[w] = "none"
                               /\ P!Notified(W)[w] = "deleted" <=> worker[w] = "deleted"
<1>1. worker \in [Workers -> {"none", "test", "enter", "waiting", "woken", "running",
                              "ended", "deleted"}]
  BY DEF P!TypeOK
<1> QED
  BY <1>1 DEF P!Notified

\* The steps of a Worker's thread.
LEMMA WorkerStep ==
  ASSUME PoolInv, NEW w \in Workers, P!Work(w) \/ P!SpuriousWakeup(w)
  PROVE  PoolCore'
<1> USE DEF P!posterVars, P!resizerVars, P!workerVars, P!Defined
<1>0. P!TestQuit(w) \/ P!Enter(w) \/ P!SpuriousWakeup(w) \/ P!Drain(w) \/ P!Relock(w)
  BY DEF P!Work
<1>1. /\ P!TypeOK /\ pool_at >= 1 /\ ListedAreAlive /\ TargetsAreKnown /\ CursorIsKnown
      /\ w \in P!Actors
  BY DEF PoolInv, PoolCore, P!Actors
<1>2. /\ undefined = "none" /\ undefined' = "none" /\ workers' = workers /\ cursor' = cursor
      /\ closed' = closed /\ pool_erased' = pool_erased /\ resizer' = resizer
      /\ joining' = joining /\ pool_at' = pool_at /\ wanted' = wanted /\ sets' = sets
      /\ limit' = limit /\ max_size' = max_size /\ scanned' = scanned
      /\ min_busy' = min_busy /\ target' = target /\ posted' = posted
  BY <1>0 DEF P!TestQuit, P!Enter, P!SpuriousWakeup, P!Drain, P!Relock, P!Pop, P!Finish
<1>3. /\ worker[w] \in {"test", "enter", "waiting", "woken", "running"}
      /\ \E s \in {"test", "enter", "waiting", "woken", "running", "ended"} :
            worker' = [worker EXCEPT ![w] = s]
  BY <1>0 DEF P!TestQuit, P!Enter, P!SpuriousWakeup, P!Drain, P!Relock, P!Pop, P!Finish
<1>4. /\ worker' \in [Workers -> {"none", "test", "enter", "waiting", "woken", "running",
                                  "ended", "deleted"}]
      /\ \A v \in Workers : worker'[v] = "none" <=> worker[v] = "none"
      /\ \A v \in Listed : v \in Workers /\ worker'[v] # "deleted"
  <2>1. /\ worker \in [Workers -> {"none", "test", "enter", "waiting", "woken", "running",
                                   "ended", "deleted"}]
        /\ Listed \subseteq Workers
    BY <1>1, ListedIs DEF P!TypeOK
  <2>2. \A v \in Listed : worker[v] # "deleted"
    BY <1>1 DEF ListedAreAlive
  <2> QED
    BY <1>3, <2>1, <2>2
<1>5. \/ poster' = poster /\ message' = message
      \/ poster' = [poster EXCEPT ![w] = "lock"] /\ message' = [message EXCEPT ![w] = P!Inner]
  BY <1>0 DEF P!TestQuit, P!Enter, P!SpuriousWakeup, P!Drain, P!Relock, P!Pop, P!Finish
<1>6. /\ poster' \in [P!Actors -> {"idle", "lock", "scan", "choose", "create", "first",
                                   "post", "notify"}]
      /\ message' \in [P!Actors -> Messages \cup {P!Inner, P!Nobody}]
      /\ TargetsAreKnown'
  <2>1. /\ poster \in [P!Actors -> {"idle", "lock", "scan", "choose", "create", "first",
                                    "post", "notify"}]
        /\ message \in [P!Actors -> Messages \cup {P!Inner, P!Nobody}]
    BY <1>1 DEF P!TypeOK
  <2>2. Listed' = Listed
    BY <1>2 DEF Listed
  <2>3. CASE poster' = poster /\ message' = message
    BY <1>1, <1>2, <2>1, <2>2, <2>3 DEF TargetsAreKnown, TargetIsKnown, Found, P!Actors
  <2>4. CASE /\ poster' = [poster EXCEPT ![w] = "lock"]
             /\ message' = [message EXCEPT ![w] = P!Inner]
    <3>1. \A q \in P!Actors : poster'[q] = IF q = w THEN "lock" ELSE poster[q]
      BY <2>1, <2>4
    <3>2. TargetIsKnown(w)'
      BY <1>1, <3>1 DEF TargetIsKnown
    <3>3. TargetsAreKnown'
      BY <1>1, <1>2, <2>2, <3>1, <3>2, TargetKept
    <3> QED
      BY <1>1, <2>1, <2>4, <3>3
  <2> QED
    BY <1>5, <2>3, <2>4
<1>7. /\ queue' \in [Workers -> Seq(Messages \cup {P!Inner})]
      /\ pool_busy' \in [Workers -> Nat]
  <2>1. /\ queue \in [Workers -> Seq(Messages \cup {P!Inner})]
        /\ pool_busy \in [Workers -> Nat]
        /\ queue[w] \in Seq(Messages \cup {P!Inner})
    BY <1>1 DEF P!TypeOK
  <2>2. Len(queue[w]) \in Nat
    BY <2>1, LenProperties
  <2>3. queue[w] # <<>> => Tail(queue[w]) \in Seq(Messages \cup {P!Inner})
    BY <2>1, HeadTailProperties
  <2>4. \/ queue' = queue
        \/ queue[w] # <<>> /\ queue' = [queue EXCEPT ![w] = Tail(queue[w])]
    BY <1>0 DEF P!TestQuit, P!Enter, P!SpuriousWakeup, P!Drain, P!Relock, P!Pop, P!Finish
  <2>5. \/ pool_busy' = pool_busy \/ pool_busy' = [pool_busy EXCEPT ![w] = 0]
        \/ pool_busy' = [pool_busy EXCEPT ![w] = Len(queue[w])]
    BY <1>0 DEF P!TestQuit, P!Enter, P!SpuriousWakeup, P!Drain, P!Relock, P!Pop, P!Finish
  <2>6. queue' \in [Workers -> Seq(Messages \cup {P!Inner})]
    BY <2>1, <2>3, <2>4
  <2>7. pool_busy' \in [Workers -> Nat]
    BY <2>1, <2>2, <2>5
  <2> QED
    BY <2>6, <2>7
<1>8. P!TypeOK' /\ pool_at' >= 1
  BY <1>1, <1>2, <1>4, <1>6, <1>7 DEF P!TypeOK, P!Actors
<1>9. ListedAreAlive' /\ CursorIsKnown'
  BY <1>1, <1>2, <1>4, WorkersKept
<1>10. P!StaleOnlyIfErased'
  BY <1>2 DEF P!StaleOnlyIfErased
<1> QED
  BY <1>6, <1>8, <1>9, <1>10 DEF PoolCore

\* The steps of set_size, Stop and Join that leave the list and the Workers alone.
LEMMA ResizerStep ==
  ASSUME PoolInv,
         \/ \E r \in Resizes : P!SetSize(r[1], r[2])
         \/ P!LockShrunk \/ P!UnlockShrunk \/ P!SetMaxSize \/ P!Stop \/ P!Join \/ P!Joined
  PROVE  PoolCore'
<1> USE DEF P!posterVars, P!resizerVars, P!workerVars, P!Defined
<1>1. /\ P!TypeOK /\ pool_at >= 1 /\ ListedAreAlive /\ TargetsAreKnown /\ CursorIsKnown
  BY DEF PoolInv, PoolCore
<1>2. Len(workers) \in Nat /\ P!ToSet(workers) = Listed /\ Listed \subseteq Workers
  BY <1>1, ListedIs DEF P!TypeOK
<1>3. /\ undefined = "none" /\ undefined' = "none" /\ workers' = workers /\ cursor' = cursor
      /\ worker' = worker /\ queue' = queue /\ pool_busy' = pool_busy /\ closed' = closed
      /\ poster' = poster /\ message' = message /\ target' = target /\ posted' = posted
      /\ scanned' = scanned /\ min_busy' = min_busy /\ pool_erased' = pool_erased
  BY DEF P!SetSize, P!LockShrunk, P!UnlockShrunk, P!SetMaxSize, P!Stop, P!Join, P!Joined
<1>4. joining' = joining \/ joining' = Listed
  BY <1>2 DEF P!SetSize, P!LockShrunk, P!UnlockShrunk, P!SetMaxSize, P!Stop, P!Join, P!Joined
<1>5. resizer' \in {"idle", "inflate", "lock", "shrink", "limit", "stopping", "stopped",
                    "joining", "joined"}
  <2>1. ASSUME NEW r \in Resizes, P!SetSize(r[1], r[2])
        PROVE  resizer' \in {"lock", "inflate", "limit"}
    BY <2>1 DEF P!SetSize
  <2>2. ASSUME ~ \E r \in Resizes : P!SetSize(r[1], r[2])
        PROVE  resizer' \in {"shrink", "limit", "idle", "stopping", "joining", "joined"}
    BY <2>2 DEF P!LockShrunk, P!UnlockShrunk, P!SetMaxSize, P!Stop, P!Join, P!Joined
  <2> QED
    BY <2>1, <2>2
<1>6. /\ wanted' \in Int /\ limit' \in Nat /\ max_size' \in Nat /\ sets' \in Nat
      /\ pool_at' \in Nat /\ pool_at' >= 1
  <2>1. /\ wanted \in Int /\ limit \in Nat /\ max_size \in Nat /\ sets \in Nat
        /\ pool_at \in Nat
    BY <1>1 DEF P!TypeOK
  <2>2. ASSUME NEW r \in Resizes, P!SetSize(r[1], r[2])
        PROVE  /\ wanted' \in Int /\ limit' \in Nat /\ sets' = sets + 1
               /\ pool_at' = pool_at /\ max_size' = max_size
    <3>1. r[1] \in Nat /\ r[2] \in Nat
      BY PartsAssumption DEF P!PoolAssumption
    <3>2. (wanted' = r[1] \/ wanted' = r[1] - Len(workers)) /\ limit' = r[2]
      BY <2>2 DEF P!SetSize
    <3> QED
      BY <1>2, <2>2, <3>1, <3>2 DEF P!SetSize
  <2>3. CASE P!LockShrunk
    BY <1>1, <2>1, <2>3 DEF P!LockShrunk
  <2>4. CASE P!Stop
    BY <1>1, <2>1, <2>4 DEF P!Stop
  <2>5. CASE P!UnlockShrunk \/ P!Join \/ P!Joined
    BY <1>1, <2>1, <2>5 DEF P!UnlockShrunk, P!Join, P!Joined
  <2>6. CASE P!SetMaxSize
    BY <1>1, <2>1, <2>6 DEF P!SetMaxSize
  <2> QED
    BY <1>1, <2>1, <2>2, <2>3, <2>4, <2>5, <2>6
<1>7. P!TypeOK' /\ pool_at' >= 1
  BY <1>1, <1>2, <1>3, <1>4, <1>5, <1>6 DEF P!TypeOK
<1>8. \A w \in Listed : w \in Workers /\ worker'[w] # "deleted"
  BY <1>1, <1>2, <1>3 DEF ListedAreAlive
<1>9. Listed' = Listed /\ ListedAreAlive' /\ CursorIsKnown'
  BY <1>1, <1>3, <1>5, <1>8, WorkersKept
<1>10. TargetsAreKnown' /\ P!StaleOnlyIfErased'
  BY <1>1, <1>3, <1>9 DEF TargetsAreKnown, TargetIsKnown, Found, P!StaleOnlyIfErased, P!Actors
<1> QED
  BY <1>7, <1>9, <1>10 DEF PoolCore

\* The steps of Stop through the list.
LEMMA StopStep ==
  ASSUME PoolInv, P!StopNext
  PROVE  PoolCore'
<1> USE DEF P!posterVars, P!resizerVars, P!workerVars, P!Defined
<1>1. /\ P!TypeOK /\ pool_at >= 1 /\ ListedAreAlive /\ TargetsAreKnown /\ CursorIsKnown
  BY DEF PoolInv, PoolCore
<1>2. /\ Len(workers) \in Nat /\ Listed \subseteq Workers
      /\ \A i \in 1 .. Len(workers) : workers[i] \in Workers
  BY <1>1, ListedIs DEF P!TypeOK
<1>3. /\ undefined = "none" /\ undefined' = "none" /\ workers' = workers /\ cursor' = cursor
      /\ queue' = queue /\ pool_busy' = pool_busy
      /\ poster' = poster /\ message' = message /\ target' = target /\ posted' = posted
      /\ scanned' = scanned /\ min_busy' = min_busy /\ pool_erased' = pool_erased
      /\ max_size' = max_size /\ wanted' = wanted /\ limit' = limit /\ joining' = joining
      /\ sets' = sets /\ resizer' \in {"stopping", "stopped"}
  BY DEF P!StopNext
<1>4. /\ closed' \in SUBSET Workers /\ closed \subseteq closed'
      /\ pool_at' \in Nat /\ pool_at' >= 1
      /\ worker' \in [Workers -> {"none", "test", "enter", "waiting", "woken", "running",
                                  "ended", "deleted"}]
      /\ \A w \in Workers : /\ worker'[w] = "none" <=> worker[w] = "none"
                            /\ worker'[w] = "deleted" <=> worker[w] = "deleted"
  <2>1. closed \in SUBSET Workers /\ pool_at \in Nat
        /\ worker \in [Workers -> {"none", "test", "enter", "waiting", "woken", "running",
                                   "ended", "deleted"}]
    BY <1>1 DEF P!TypeOK
  <2>2. CASE pool_at <= Len(workers)
    <3>1. pool_at' = pool_at + 1 /\ P!Close({workers[pool_at]})
      BY <2>2 DEF P!StopNext
    <3>2. closed' = closed \cup {workers[pool_at]} /\ worker' = P!Notified({workers[pool_at]})
      BY <3>1 DEF P!Close
    <3>3. workers[pool_at] \in Workers /\ pool_at' \in Nat /\ pool_at' >= 1
      BY <1>1, <1>2, <2>1, <2>2, <3>1
    <3> QED
      BY <1>1, <2>1, <3>2, <3>3, NotifiedIs
  <2>3. CASE ~ (pool_at <= Len(workers))
    BY <1>1, <2>1, <2>3 DEF P!StopNext
  <2> QED
    BY <2>2, <2>3
<1>5. P!TypeOK' /\ pool_at' >= 1
  BY <1>1, <1>3, <1>4 DEF P!TypeOK
<1>6. \A w \in Listed : w \in Workers /\ worker'[w] # "deleted"
  BY <1>1, <1>2, <1>4 DEF ListedAreAlive
<1>7. Listed' = Listed /\ ListedAreAlive' /\ CursorIsKnown'
  BY <1>1, <1>3, <1>4, <1>6, WorkersKept
<1>8. TargetsAreKnown' /\ P!StaleOnlyIfErased'
  BY <1>1, <1>3, <1>7 DEF TargetsAreKnown, TargetIsKnown, Found, P!StaleOnlyIfErased, P!Actors
<1> QED
  BY <1>5, <1>7, <1>8 DEF PoolCore

\* Delete deletes what is no longer listed.
LEMMA DeleteStep ==
  ASSUME PoolInv, P!Delete
  PROVE  PoolCore'
<1> USE DEF P!posterVars, P!resizerVars, P!workerVars, P!Defined
<1>1. /\ P!TypeOK /\ pool_at >= 1 /\ ListedAreAlive /\ TargetsAreKnown /\ CursorIsKnown
  BY DEF PoolInv, PoolCore
<1>2. Listed \subseteq Workers
  BY <1>1, ListedIs DEF P!TypeOK
<1>3. /\ undefined = "none" /\ undefined' = "none" /\ workers' = workers /\ cursor' = cursor
      /\ closed' = closed /\ pool_busy' = pool_busy
      /\ poster' = poster /\ message' = message /\ target' = target /\ posted' = posted
      /\ scanned' = scanned /\ min_busy' = min_busy
      /\ max_size' = max_size /\ limit' = limit
      /\ pool_erased' = pool_erased /\ pool_at' = pool_at /\ sets' = sets
      /\ resizer = "deleting" /\ joining' = {} /\ wanted' = wanted - 1
      /\ resizer' \in {"limit", "shrink"} /\ \A w \in joining : worker[w] = "ended"
      /\ worker' = [w \in Workers |-> IF w \in joining THEN "deleted" ELSE worker[w]]
      /\ queue' = [w \in Workers |-> IF w \in joining THEN <<>> ELSE queue[w]]
  BY DEF P!Delete
<1>4. P!TypeOK' /\ pool_at' >= 1
  <2>1. worker' \in [Workers -> {"none", "test", "enter", "waiting", "woken", "running",
                                 "ended", "deleted"}]
    BY <1>1, <1>3 DEF P!TypeOK
  <2>2. queue' \in [Workers -> Seq(Messages \cup {P!Inner})]
    <3>1. << >> \in Seq(Messages \cup {P!Inner})
      OBVIOUS
    <3>2. queue \in [Workers -> Seq(Messages \cup {P!Inner})]
      BY <1>1 DEF P!TypeOK
    <3> QED
      BY <1>3, <3>1, <3>2
  <2>3. wanted' \in Int /\ joining' \in SUBSET Workers
    BY <1>1, <1>3 DEF P!TypeOK
  <2> QED
    BY <1>1, <1>3, <2>1, <2>2, <2>3 DEF P!TypeOK
<1>5. \A w \in Workers : worker'[w] = "none" <=> worker[w] = "none"
  BY <1>3
<1>6. \A w \in Listed : w \in Workers /\ worker'[w] # "deleted"
  <2>1. \A w \in Listed : w \notin joining /\ worker[w] # "deleted"
    BY <1>1, <1>3 DEF ListedAreAlive
  <2> QED
    BY <1>2, <1>3, <2>1
<1>7. Listed' = Listed /\ ListedAreAlive' /\ CursorIsKnown'
  BY <1>1, <1>3, <1>5, <1>6, WorkersKept
<1>8. TargetsAreKnown' /\ P!StaleOnlyIfErased'
  BY <1>1, <1>3, <1>7 DEF TargetsAreKnown, TargetIsKnown, Found, P!StaleOnlyIfErased, P!Actors
<1> QED
  BY <1>4, <1>7, <1>8 DEF PoolCore

\* A Worker that is created is alive and last in the list.
LEMMA CreatedIsListed ==
  ASSUME PoolInv, NEW w \in P!Unborn, P!Created(w),
         cursor' = cursor, closed' = closed, resizer' # "deleting"
  PROVE  /\ workers' \in Seq(Workers) /\ workers' # <<>>
         /\ worker' \in [Workers -> {"none", "test", "enter", "waiting", "woken", "running",
                                     "ended", "deleted"}]
         /\ Listed' = Listed \cup {w} /\ ListedAreAlive' /\ CursorIsKnown'
<1>1. /\ P!TypeOK /\ ListedAreAlive /\ CursorIsKnown
      /\ w \in Workers /\ worker[w] = "none"
  BY DEF PoolInv, PoolCore, P!Unborn
<1>2. /\ workers \in Seq(Workers) /\ Len(workers) \in Nat /\ Listed \subseteq Workers
      /\ worker \in [Workers -> {"none", "test", "enter", "waiting", "woken", "running",
                                 "ended", "deleted"}]
  BY <1>1, ListedIs DEF P!TypeOK
<1>3. workers' = Append(workers, w) /\ worker' = [worker EXCEPT ![w] = "test"]
  BY DEF P!Created
<1>4. /\ workers' \in Seq(Workers) /\ workers' # <<>> /\ Len(workers') = Len(workers) + 1
      /\ workers'[Len(workers) + 1] = w
      /\ \A i \in 1 .. Len(workers) : workers'[i] = workers[i]
  BY <1>1, <1>2, <1>3, AppendProperties
<1>5. Listed' = Listed \cup {w}
  <2>1. \A i \in 1 .. Len(workers') : i \in 1 .. Len(workers) \/ i = Len(workers) + 1
    BY <1>2, <1>4
  <2>2. \A i \in 1 .. Len(workers) : i \in 1 .. Len(workers')
    BY <1>2, <1>4
  <2>3. Len(workers) + 1 \in 1 .. Len(workers')
    BY <1>2, <1>4
  <2>4. Listed' \subseteq Listed \cup {w}
    BY <1>4, <2>1 DEF Listed
  <2>5. Listed \subseteq Listed'
    BY <1>4, <2>2 DEF Listed
  <2>6. w \in Listed'
    BY <1>4, <2>3 DEF Listed
  <2> QED
    BY <2>4, <2>5, <2>6
<1>6. ListedAreAlive'
  <2>1. \A i \in 1 .. Len(workers) : workers[i] # w
    BY <1>1 DEF ListedAreAlive, Listed
  <2>2. ASSUME NEW i \in 1 .. Len(workers'), NEW j \in 1 .. Len(workers'), i # j
        PROVE  workers'[i] # workers'[j]
    <3>1. CASE i \in 1 .. Len(workers) /\ j \in 1 .. Len(workers)
      BY <1>1, <1>4, <2>2, <3>1 DEF ListedAreAlive
    <3>2. CASE i \in 1 .. Len(workers) /\ j = Len(workers) + 1
      BY <1>4, <2>1, <3>2
    <3>3. CASE j \in 1 .. Len(workers) /\ i = Len(workers) + 1
      BY <1>4, <2>1, <3>3
    <3> QED
      BY <1>2, <1>4, <2>2, <3>1, <3>2, <3>3
  <2>3. \A v \in Listed' : worker'[v] \notin {"none", "deleted"}
    BY <1>1, <1>2, <1>3, <1>5 DEF ListedAreAlive
  <2>4. \A v \in Workers : worker'[v] # "none" => v \in Listed' \cup closed'
    BY <1>1, <1>2, <1>3, <1>5 DEF ListedAreAlive
  <2> QED
    BY <2>2, <2>3, <2>4 DEF ListedAreAlive
<1>7. CursorIsKnown'
  BY <1>1, <1>5 DEF CursorIsKnown
<1> QED
  BY <1>2, <1>3, <1>4, <1>5, <1>6, <1>7

\* set_size and GetIdle create Workers.
LEMMA CreateStep ==
  ASSUME PoolInv, P!Inflate \/ \E p \in P!Actors : P!Create(p)
  PROVE  PoolCore'
<1> USE DEF P!posterVars, P!resizerVars, P!workerVars, P!Defined, P!MutexFree
<1>1. P!TypeOK /\ pool_at >= 1 /\ TargetsAreKnown
  BY DEF PoolInv, PoolCore
<1>2. CASE P!Inflate
  <2>1. /\ undefined = "none" /\ undefined' = undefined /\ cursor' = cursor
        /\ closed' = closed /\ queue' = queue /\ pool_busy' = pool_busy
        /\ poster' = poster /\ message' = message /\ target' = target /\ posted' = posted
        /\ scanned' = scanned /\ min_busy' = min_busy
        /\ max_size' = max_size /\ limit' = limit
        /\ pool_erased' = pool_erased /\ pool_at' = pool_at /\ joining' = joining
        /\ sets' = sets /\ wanted' = wanted - 1 /\ resizer' \in {"limit", "inflate"}
    BY <1>2 DEF P!Inflate
  <2>2. PICK w \in P!Unborn : P!Created(w)
    BY <1>2 DEF P!Inflate
  <2>3. /\ workers' \in Seq(Workers)
        /\ worker' \in [Workers -> {"none", "test", "enter", "waiting", "woken", "running",
                                    "ended", "deleted"}]
        /\ Listed' = Listed \cup {w} /\ ListedAreAlive' /\ CursorIsKnown'
    BY <2>1, <2>2, CreatedIsListed
  <2>4. P!TypeOK' /\ pool_at' >= 1
    <3>1. wanted' \in Int
      BY <1>1, <2>1 DEF P!TypeOK
    <3> QED
      BY <1>1, <2>1, <2>3, <3>1 DEF P!TypeOK
  <2>5. TargetsAreKnown'
    BY <1>1, <2>1, <2>3 DEF TargetsAreKnown, TargetIsKnown, Found, P!Actors
  <2>6. P!StaleOnlyIfErased'
    BY <2>1 DEF P!StaleOnlyIfErased
  <2> QED
    BY <2>3, <2>4, <2>5, <2>6 DEF PoolCore
<1>3. ASSUME NEW p \in P!Actors, P!Create(p) PROVE PoolCore'
  <2>1. /\ undefined = "none" /\ undefined' = undefined /\ cursor' = cursor
        /\ closed' = closed /\ queue' = queue /\ pool_busy' = pool_busy
        /\ poster' = [poster EXCEPT ![p] = "post"] /\ message' = message /\ posted' = posted
        /\ scanned' = scanned /\ min_busy' = min_busy
        /\ max_size' = max_size /\ limit' = limit
        /\ pool_erased' = pool_erased /\ pool_at' = pool_at /\ joining' = joining
        /\ sets' = sets /\ wanted' = wanted /\ resizer' = resizer
        /\ resizer # "deleting"
    BY <1>3 DEF P!Create
  <2>2. PICK w \in P!Unborn : P!Created(w) /\ target' = [target EXCEPT ![p] = w]
    BY <1>3 DEF P!Create
  <2>3. /\ poster \in [P!Actors -> {"idle", "lock", "scan", "choose", "create", "first",
                                    "post", "notify"}]
        /\ target \in [P!Actors -> Workers \cup {P!Nobody}] /\ w \in Workers
    BY <1>1, <2>2 DEF P!TypeOK, P!Unborn
  <2>4. /\ workers' \in Seq(Workers)
        /\ worker' \in [Workers -> {"none", "test", "enter", "waiting", "woken", "running",
                                    "ended", "deleted"}]
        /\ Listed' = Listed \cup {w} /\ ListedAreAlive' /\ CursorIsKnown'
    <3>1. resizer' # "deleting"
      BY <2>1
    <3> QED
      BY <2>1, <2>2, <3>1, CreatedIsListed
  <2>5. P!TypeOK' /\ pool_at' >= 1
    <3>1. /\ poster' \in [P!Actors -> {"idle", "lock", "scan", "choose", "create", "first",
                                       "post", "notify"}]
          /\ target' \in [P!Actors -> Workers \cup {P!Nobody}]
      BY <2>1, <2>2, <2>3
    <3> QED
      BY <1>1, <2>1, <2>4, <3>1 DEF P!TypeOK, P!Actors
  <2>6. TargetsAreKnown'
    <3>1. TargetIsKnown(p)'
      <4>1. target'[p] = w /\ poster'[p] = "post"
        BY <2>1, <2>2, <2>3
      <4> QED
        BY <2>3, <2>4, <4>1 DEF TargetIsKnown, Found
    <3>2. \A q \in P!Actors : q # p => /\ poster'[q] = poster[q] /\ target'[q] = target[q]
                                       /\ pool_erased'[q] = pool_erased[q]
      BY <2>1, <2>2, <2>3
    <3> QED
      BY <1>1, <2>4, <3>1, <3>2, TargetKept
  <2>7. P!StaleOnlyIfErased'
    BY <2>1 DEF P!StaleOnlyIfErased
  <2> QED
    BY <2>4, <2>5, <2>6, <2>7 DEF PoolCore
<1> QED
  BY <1>2, <1>3

\* Where Choose goes.
LEMMA ChosenIs ==
  ASSUME P!TypeOK, NEW p \in P!Actors, P!Choose(p)
  PROVE  \E s \in {"create", "first", "post"} :
            poster' = [poster EXCEPT ![p] = s] /\ (s = "post" => target[p] # P!Nobody)
<1>1. scanned[p] >= max_size <=> ~ (scanned[p] < max_size)
  BY DEF P!TypeOK
<1>2. CASE scanned[p] < max_size
  BY <1>1, <1>2 DEF P!Choose
<1>3. CASE ~ (scanned[p] < max_size) /\ target[p] # P!Nobody
  BY <1>1, <1>3 DEF P!Choose
<1>4. CASE ~ (scanned[p] < max_size) /\ target[p] = P!Nobody
  BY <1>1, <1>4 DEF P!Choose
<1> QED
  BY <1>2, <1>3, <1>4

\* The steps of Post and GetIdle that touch nothing but what is p's.
LEMMA PosterStep ==
  ASSUME PoolInv, NEW p \in P!Actors,
         \/ p \in Posters /\ \E m \in Messages : P!Post(p, m)
         \/ P!Lock(p) \/ P!Choose(p)
  PROVE  PoolCore'
<1> USE DEF P!posterVars, P!resizerVars, P!workerVars, P!Defined
<1>1. /\ P!TypeOK /\ pool_at >= 1 /\ ListedAreAlive /\ TargetsAreKnown /\ CursorIsKnown
  BY DEF PoolInv, PoolCore
<1>2. Listed \subseteq Workers
  BY <1>1, ListedIs DEF P!TypeOK
<1>3. /\ undefined = "none" /\ undefined' = "none" /\ workers' = workers /\ cursor' = cursor
      /\ worker' = worker /\ queue' = queue /\ pool_busy' = pool_busy /\ closed' = closed
      /\ posted' = posted /\ max_size' = max_size /\ limit' = limit
      /\ pool_erased' = pool_erased /\ resizer' = resizer /\ wanted' = wanted
      /\ pool_at' = pool_at /\ joining' = joining /\ sets' = sets
  BY DEF P!Post, P!Lock, P!Choose
<1>4. /\ poster \in [P!Actors -> {"idle", "lock", "scan", "choose", "create", "first",
                                  "post", "notify"}]
      /\ message \in [P!Actors -> Messages \cup {P!Inner, P!Nobody}]
      /\ target \in [P!Actors -> Workers \cup {P!Nobody}]
      /\ scanned \in [P!Actors -> Nat] /\ min_busy \in [P!Actors -> Nat]
      /\ max_size \in Nat /\ MinBusy \in Nat
  BY <1>1, PartsAssumption DEF P!TypeOK, P!PoolAssumption
<1>5. \/ poster' = [poster EXCEPT ![p] = "lock"] /\ target' = target
      \/ \E s \in {"choose", "scan"} : /\ poster' = [poster EXCEPT ![p] = s]
                                       /\ target' = [target EXCEPT ![p] = P!Nobody]
      \/ poster' = [poster EXCEPT ![p] = "create"] /\ target' = target
      \/ poster' = [poster EXCEPT ![p] = "first"] /\ target' = target
      \/ /\ poster' = [poster EXCEPT ![p] = "post"] /\ target' = target
         /\ poster[p] = "choose" /\ target[p] # P!Nobody
  <2>1. CASE \E m \in Messages : P!Post(p, m)
    BY <2>1 DEF P!Post
  <2>2. CASE P!Lock(p)
    BY <2>2 DEF P!Lock
  <2>3. CASE P!Choose(p)
    <3>1. \E s \in {"create", "first", "post"} :
             poster' = [poster EXCEPT ![p] = s] /\ (s = "post" => target[p] # P!Nobody)
      BY <1>1, <2>3, ChosenIs
    <3> QED
      BY <2>3, <3>1 DEF P!Choose
  <2> QED
    BY <2>1, <2>2, <2>3
<1>6. /\ poster' \in [P!Actors -> {"idle", "lock", "scan", "choose", "create", "first",
                                   "post", "notify"}]
      /\ target' \in [P!Actors -> Workers \cup {P!Nobody}]
      /\ \A q \in P!Actors : q # p => poster'[q] = poster[q] /\ target'[q] = target[q]
  BY <1>4, <1>5
<1>7. /\ message' \in [P!Actors -> Messages \cup {P!Inner, P!Nobody}]
      /\ scanned' \in [P!Actors -> Nat] /\ min_busy' \in [P!Actors -> Nat]
  <2>1. CASE \E m \in Messages : P!Post(p, m)
    BY <1>4, <2>1 DEF P!Post
  <2>2. CASE P!Lock(p)
    BY <1>4, <2>2 DEF P!Lock
  <2>3. CASE P!Choose(p)
    BY <1>4, <2>3 DEF P!Choose
  <2> QED
    BY <2>1, <2>2, <2>3
<1>8. P!TypeOK' /\ pool_at' >= 1
  BY <1>1, <1>3, <1>6, <1>7 DEF P!TypeOK, P!Actors
<1>9. \A w \in Listed : w \in Workers /\ worker'[w] # "deleted"
  BY <1>1, <1>2, <1>3 DEF ListedAreAlive
<1>10. Listed' = Listed /\ ListedAreAlive' /\ CursorIsKnown'
  BY <1>1, <1>3, <1>9, WorkersKept
<1>11. TargetIsKnown(p)'
  <2>1. poster[p] = "choose" => target[p] = P!Nobody \/ Found(p)
    BY <1>1 DEF TargetsAreKnown, TargetIsKnown
  <2> QED
    BY <1>3, <1>4, <1>5, <1>10, <2>1 DEF TargetIsKnown, Found
<1>12. TargetsAreKnown' /\ P!StaleOnlyIfErased'
  <2>1. \A q \in P!Actors : q # p => /\ poster'[q] = poster[q] /\ target'[q] = target[q]
                                     /\ pool_erased'[q] = pool_erased[q]
    BY <1>3, <1>6
  <2> QED
    BY <1>1, <1>3, <1>10, <1>11, <2>1, TargetKept DEF P!StaleOnlyIfErased
<1> QED
  BY <1>8, <1>10, <1>12 DEF PoolCore

\* After a Worker of the list comes one of the list, or the end.
LEMMA AfterIsListed ==
  ASSUME workers \in Seq(Workers), NEW w \in Listed
  PROVE  P!After(w) = "end" \/ P!After(w) \in Listed
<1> DEFINE i == CHOOSE i \in DOMAIN workers : workers[i] = w
<1>1. Len(workers) \in Nat /\ DOMAIN workers = 1 .. Len(workers)
  BY ListedIs
<1>2. \E k \in DOMAIN workers : workers[k] = w
  BY <1>1 DEF Listed
<1>3. i \in 1 .. Len(workers)
  BY <1>1, <1>2
<1>4. P!After(w) = IF i = Len(workers) THEN "end" ELSE workers[i + 1]
  BY DEF P!After
<1>5. \A n \in Nat : \A k \in 1 .. n : k # n => k + 1 \in 1 .. n
  OBVIOUS
<1>6. i # Len(workers) => i + 1 \in 1 .. Len(workers)
  BY <1>1, <1>3, <1>5
<1> HIDE DEF i
<1> QED
  BY <1>4, <1>6 DEF Listed

\* GetIdle takes a Worker of the list, and uses an i_ that is gone only when
\* the Worker it was at has been closed.
LEMMA ScanStep ==
  ASSUME PoolInv, NEW p \in P!Actors, P!Scan(p)
  PROVE  PoolCore'
<1> USE DEF P!posterVars, P!resizerVars, P!workerVars, P!Defined
<1>1. /\ P!TypeOK /\ pool_at >= 1 /\ ListedAreAlive /\ TargetsAreKnown /\ CursorIsKnown
      /\ ScanHasMutex
  BY DEF PoolInv, PoolCore
<1>2. /\ P!ToSet(workers) = Listed /\ Listed \subseteq Workers /\ workers \in Seq(Workers)
      /\ Len(workers) \in Nat
  BY <1>1, ListedIs DEF P!TypeOK
<1>3. /\ undefined = "none" /\ workers' = workers
      /\ worker' = worker /\ queue' = queue /\ pool_busy' = pool_busy /\ closed' = closed
      /\ message' = message /\ posted' = posted /\ max_size' = max_size /\ limit' = limit
      /\ pool_erased' = pool_erased /\ resizer' = resizer /\ wanted' = wanted
      /\ pool_at' = pool_at /\ joining' = joining /\ sets' = sets /\ poster[p] = "scan"
  BY DEF P!Scan
<1>4. /\ poster \in [P!Actors -> {"idle", "lock", "scan", "choose", "create", "first",
                                  "post", "notify"}]
      /\ target \in [P!Actors -> Workers \cup {P!Nobody}]
      /\ scanned \in [P!Actors -> Nat] /\ min_busy \in [P!Actors -> Nat]
      /\ pool_busy \in [Workers -> Nat]
  BY <1>1 DEF P!TypeOK
<1>5. \A w \in Listed : w \in Workers /\ worker'[w] # "deleted"
  BY <1>1, <1>2, <1>3 DEF ListedAreAlive
<1>6. CASE cursor # "end" /\ cursor \notin P!ToSet(workers)
  <2>1. /\ undefined' = "cursor" /\ cursor' = cursor /\ poster' = poster /\ target' = target
        /\ scanned' = scanned /\ min_busy' = min_busy
    BY <1>6 DEF P!Scan
  <2>2. cursor \in closed
    BY <1>1, <1>2, <1>6 DEF CursorIsKnown
  <2>3. Listed' = Listed /\ ListedAreAlive' /\ CursorIsKnown'
    BY <1>1, <1>3, <1>5, <2>1, WorkersKept
  <2>4. TargetsAreKnown'
    BY <1>1, <1>3, <2>1, <2>3 DEF TargetsAreKnown, TargetIsKnown, Found, P!Actors
  <2>5. P!StaleOnlyIfErased'
    BY <1>3, <2>1, <2>2 DEF P!StaleOnlyIfErased
  <2>6. P!TypeOK' /\ pool_at' >= 1
    BY <1>1, <1>3, <2>1 DEF P!TypeOK
  <2> QED
    BY <2>3, <2>4, <2>5, <2>6 DEF PoolCore
<1>7. CASE ~ (cursor # "end" /\ cursor \notin P!ToSet(workers))
  <2> DEFINE w    == IF cursor = "end" THEN workers[1] ELSE cursor
             less == pool_busy[w] = 0 \/ pool_busy[w] < min_busy[p]
  <2>1. /\ undefined' = "none" /\ cursor' = P!After(w)
        /\ scanned' = [scanned EXCEPT ![p] = IF pool_busy[w] = 0 THEN 0 ELSE @ + 1]
        /\ target' = [target EXCEPT ![p] = IF less THEN w ELSE @]
        /\ min_busy' = [min_busy EXCEPT ![p] = IF less THEN pool_busy[w] ELSE @]
        /\ \E s \in {"post", "choose", "scan"} : /\ poster' = [poster EXCEPT ![p] = s]
                                                 /\ s = "post" => less
    <3>1. poster' = [poster EXCEPT ![p] = CASE pool_busy[w] = 0 -> "post"
                                            [] pool_busy[w] # 0 /\ scanned'[p] >= Len(workers) -> "choose"
                                            [] OTHER -> "scan"]
      BY <1>7 DEF P!Scan
    <3>2. \E s \in {"post", "choose", "scan"} : /\ poster' = [poster EXCEPT ![p] = s]
                                                /\ s = "post" => less
      <4>1. CASE pool_busy[w] = 0
        BY <3>1, <4>1
      <4>2. CASE pool_busy[w] # 0 /\ scanned'[p] >= Len(workers)
        BY <3>1, <4>2
      <4>3. CASE pool_busy[w] # 0 /\ ~ (scanned'[p] >= Len(workers))
        BY <3>1, <4>3
      <4> QED
        BY <4>1, <4>2, <4>3
    <3> QED
      BY <1>3, <1>7, <3>2 DEF P!Scan
  <2>2. w \in Listed /\ w \in Workers
    <3>1. 1 \in 1 .. Len(workers)
      <4>1. Len(workers) >= 1
        BY <1>1, <1>2, <1>3, ListedIs DEF ScanHasMutex
      <4> QED
        BY <1>2, <4>1
    <3> QED
      BY <1>2, <1>7, <3>1, ListedIs
  <2>3. cursor' = "end" \/ cursor' \in Listed
    BY <1>2, <2>1, <2>2, AfterIsListed
  <2>4. /\ scanned' \in [P!Actors -> Nat] /\ min_busy' \in [P!Actors -> Nat]
        /\ target' \in [P!Actors -> Workers \cup {P!Nobody}]
        /\ poster' \in [P!Actors -> {"idle", "lock", "scan", "choose", "create", "first",
                                     "post", "notify"}]
    <3>1. pool_busy[w] \in Nat
      BY <1>4, <2>2
    <3> HIDE DEF w
    <3>2. scanned' \in [P!Actors -> Nat]
      BY <1>4, <2>1
    <3>3. min_busy' \in [P!Actors -> Nat]
      BY <1>4, <2>1, <3>1
    <3>4. target' \in [P!Actors -> Workers \cup {P!Nobody}]
      BY <1>4, <2>1, <2>2
    <3>5. poster' \in [P!Actors -> {"idle", "lock", "scan", "choose", "create", "first",
                                    "post", "notify"}]
      BY <1>4, <2>1
    <3> QED
      BY <3>2, <3>3, <3>4, <3>5
  <2>5. P!TypeOK' /\ pool_at' >= 1
    <3>1. cursor' \in Workers \cup {"end"}
      BY <1>2, <2>3
    <3> QED
      BY <1>1, <1>3, <2>1, <2>4, <3>1 DEF P!TypeOK, P!Actors
  <2>6. Listed' = Listed /\ ListedAreAlive' /\ CursorIsKnown'
    BY <1>1, <1>3, <1>5, <2>3, WorkersKept
  <2>7. TargetIsKnown(p)'
    <3>1. target[p] = P!Nobody \/ Found(p)
      BY <1>1, <1>3 DEF TargetsAreKnown, TargetIsKnown
    <3> HIDE DEF w
    <3>2. CASE less
      <4>1. target'[p] = w
        BY <1>4, <2>1, <3>2
      <4> QED
        BY <2>2, <2>6, <4>1 DEF TargetIsKnown, Found
    <3>3. CASE ~ less
      <4>1. target'[p] = target[p] /\ poster'[p] \in {"choose", "scan"}
        BY <1>4, <2>1, <3>3
      <4> QED
        BY <1>3, <2>6, <3>1, <4>1 DEF TargetIsKnown, Found
    <3> QED
      BY <3>2, <3>3
  <2>8. TargetsAreKnown'
    <3>1. \A q \in P!Actors : q # p => /\ poster'[q] = poster[q] /\ target'[q] = target[q]
                                       /\ pool_erased'[q] = pool_erased[q]
      BY <1>3, <1>4, <2>1
    <3> QED
      BY <1>1, <2>6, <2>7, <3>1, TargetKept
  <2>9. P!StaleOnlyIfErased'
    BY <2>1 DEF P!StaleOnlyIfErased
  <2> QED
    BY <2>5, <2>6, <2>8, <2>9 DEF PoolCore
<1> QED
  BY <1>6, <1>7

\* There is no first of the list only when all Workers have been closed.
LEMMA FirstStep ==
  ASSUME PoolInv, NEW p \in P!Actors, P!TakeFirst(p)
  PROVE  PoolCore'
<1> USE DEF P!posterVars, P!resizerVars, P!workerVars, P!Defined
<1>1. /\ P!TypeOK /\ pool_at >= 1 /\ ListedAreAlive /\ TargetsAreKnown /\ CursorIsKnown
  BY DEF PoolInv, PoolCore
<1>2. /\ Listed \subseteq Workers /\ workers \in Seq(Workers) /\ Len(workers) \in Nat
  BY <1>1, ListedIs DEF P!TypeOK
<1>3. /\ undefined = "none" /\ workers' = workers
      /\ worker' = worker /\ queue' = queue /\ pool_busy' = pool_busy /\ closed' = closed
      /\ message' = message /\ posted' = posted /\ max_size' = max_size /\ limit' = limit
      /\ scanned' = scanned /\ min_busy' = min_busy
      /\ pool_erased' = pool_erased /\ resizer' = resizer /\ wanted' = wanted
      /\ pool_at' = pool_at /\ joining' = joining /\ sets' = sets /\ poster[p] = "first"
  BY DEF P!TakeFirst
<1>4. /\ poster \in [P!Actors -> {"idle", "lock", "scan", "choose", "create", "first",
                                  "post", "notify"}]
      /\ target \in [P!Actors -> Workers \cup {P!Nobody}]
  BY <1>1 DEF P!TypeOK
<1>5. \A w \in Listed : w \in Workers /\ worker'[w] # "deleted"
  BY <1>1, <1>2, <1>3 DEF ListedAreAlive
<1>6. CASE workers = <<>>
  <2>1. undefined' = "first" /\ cursor' = cursor /\ poster' = poster /\ target' = target
    BY <1>6 DEF P!TakeFirst
  <2>2. Listed' = Listed /\ ListedAreAlive' /\ CursorIsKnown'
    BY <1>1, <1>3, <1>5, <2>1, WorkersKept
  <2>3. TargetsAreKnown'
    BY <1>1, <1>3, <2>1, <2>2 DEF TargetsAreKnown, TargetIsKnown, Found, P!Actors
  <2>4. P!StaleOnlyIfErased'
    <3>1. Listed = {}
      <4>1. Len(workers) = 0
        BY <1>6
      <4> QED
        BY <4>1 DEF Listed
    <3>2. \A w \in Workers : worker[w] # "none" => w \in closed
      BY <1>1, <3>1 DEF ListedAreAlive
    <3> QED
      BY <1>3, <2>1, <3>2 DEF P!StaleOnlyIfErased
  <2>5. P!TypeOK' /\ pool_at' >= 1
    BY <1>1, <1>3, <2>1 DEF P!TypeOK
  <2> QED
    BY <2>2, <2>3, <2>4, <2>5 DEF PoolCore
<1>7. CASE workers # <<>>
  <2>1. /\ undefined' = "none" /\ cursor' = workers[1]
        /\ target' = [target EXCEPT ![p] = workers[1]]
        /\ poster' = [poster EXCEPT ![p] = "post"]
    BY <1>3, <1>7 DEF P!TakeFirst
  <2>2. workers[1] \in Listed /\ workers[1] \in Workers
    <3>1. Len(workers) >= 1
      BY <1>2, <1>7, ListedIs
    <3> QED
      BY <1>2, <3>1, ListedIs
  <2>3. Listed' = Listed /\ ListedAreAlive' /\ CursorIsKnown'
    BY <1>1, <1>3, <1>5, <2>1, <2>2, WorkersKept
  <2>4. TargetsAreKnown'
    <3>1. target'[p] = workers[1] /\ poster'[p] = "post"
      BY <1>4, <2>1
    <3>2. TargetIsKnown(p)'
      BY <2>2, <2>3, <3>1 DEF TargetIsKnown, Found
    <3>3. \A q \in P!Actors : q # p => /\ poster'[q] = poster[q] /\ target'[q] = target[q]
                                       /\ pool_erased'[q] = pool_erased[q]
      BY <1>3, <1>4, <2>1
    <3> QED
      BY <1>1, <2>3, <3>2, <3>3, TargetKept
  <2>5. P!StaleOnlyIfErased'
    BY <2>1 DEF P!StaleOnlyIfErased
  <2>6. P!TypeOK' /\ pool_at' >= 1
    <3>1. /\ cursor' \in Workers \cup {"end"}
          /\ target' \in [P!Actors -> Workers \cup {P!Nobody}]
          /\ poster' \in [P!Actors -> {"idle", "lock", "scan", "choose", "create", "first",
                                       "post", "notify"}]
      BY <1>4, <2>1, <2>2
    <3> QED
      BY <1>1, <1>3, <2>1, <3>1 DEF P!TypeOK, P!Actors
  <2> QED
    BY <2>3, <2>4, <2>5, <2>6 DEF PoolCore
<1> QED
  BY <1>6, <1>7

\* A Worker that is gone when it is posted to has been erased since GetIdle.
LEMMA PostToStep ==
  ASSUME PoolInv, NEW p \in P!Actors, P!PostTo(p) \/ P!Notify(p)
  PROVE  PoolCore'
<1> USE DEF P!posterVars, P!resizerVars, P!workerVars, P!Defined
<1>1. /\ P!TypeOK /\ pool_at >= 1 /\ ListedAreAlive /\ TargetsAreKnown /\ CursorIsKnown
  BY DEF PoolInv, PoolCore
<1>2. /\ undefined = "none" /\ workers' = workers /\ cursor' = cursor
      /\ closed' = closed /\ pool_busy' = pool_busy /\ max_size' = max_size
      /\ limit' = limit /\ scanned' = scanned /\ min_busy' = min_busy
      /\ pool_at' = pool_at /\ joining' = joining
      /\ sets' = sets /\ wanted' = wanted /\ resizer' = resizer
      /\ poster[p] \in {"post", "notify"}
  BY DEF P!PostTo, P!Notify
<1>3. target[p] \in Workers /\ target[p] \in Listed \cup pool_erased[p]
  BY <1>1, <1>2 DEF TargetsAreKnown, TargetIsKnown, Found
<1>4. Listed \subseteq Workers
  BY <1>1, ListedIs DEF P!TypeOK
<1>5. /\ poster \in [P!Actors -> {"idle", "lock", "scan", "choose", "create", "first",
                                  "post", "notify"}]
      /\ message \in [P!Actors -> Messages \cup {P!Inner, P!Nobody}]
      /\ target \in [P!Actors -> Workers \cup {P!Nobody}]
      /\ queue \in [Workers -> Seq(Messages \cup {P!Inner})]
      /\ posted \in SUBSET (Messages \cup {P!Inner})
      /\ pool_erased \in [P!Actors -> SUBSET Workers]
      /\ worker \in [Workers -> {"none", "test", "enter", "waiting", "woken", "running",
                                 "ended", "deleted"}]
  BY <1>1 DEF P!TypeOK
<1>6. CASE worker[target[p]] = "deleted"
  <2>1. /\ undefined' = "worker" /\ queue' = queue /\ poster' = poster /\ worker' = worker
        /\ message' = message /\ target' = target /\ posted' = posted
        /\ pool_erased' = pool_erased
    BY <1>6 DEF P!PostTo, P!Notify
  <2>2. target[p] \in pool_erased[p]
    BY <1>1, <1>3, <1>6 DEF ListedAreAlive
  <2>3. Listed' = Listed /\ ListedAreAlive' /\ CursorIsKnown'
    <3>1. \A w \in Listed : w \in Workers /\ worker'[w] # "deleted"
      BY <1>1, <1>4, <2>1 DEF ListedAreAlive
    <3> QED
      BY <1>1, <1>2, <2>1, <3>1, WorkersKept
  <2>4. TargetsAreKnown'
    BY <1>1, <1>2, <2>1, <2>3 DEF TargetsAreKnown, TargetIsKnown, Found, P!Actors
  <2>5. P!StaleOnlyIfErased'
    <3>1. poster'[p] \in {"post", "notify"} /\ target'[p] \in pool_erased'[p]
      BY <1>2, <2>1, <2>2
    <3> QED
      BY <2>1, <3>1 DEF P!StaleOnlyIfErased, P!Actors
  <2>6. P!TypeOK' /\ pool_at' >= 1
    BY <1>1, <1>2, <2>1 DEF P!TypeOK
  <2> QED
    BY <2>3, <2>4, <2>5, <2>6 DEF PoolCore
<1>7. CASE worker[target[p]] # "deleted" /\ P!PostTo(p)
  <2>1. /\ undefined' = "none" /\ worker' = worker /\ target' = target
        /\ queue' = [queue EXCEPT ![target[p]] = Append(@, message[p])]
        /\ posted' = posted \cup {message[p]}
        /\ poster' = [poster EXCEPT ![p] = "notify"]
        /\ message' = [message EXCEPT ![p] = P!Nobody]
        /\ pool_erased' = pool_erased /\ poster[p] = "post"
    BY <1>2, <1>7 DEF P!PostTo
  <2>2. Listed' = Listed /\ ListedAreAlive' /\ CursorIsKnown'
    <3>1. \A w \in Listed : w \in Workers /\ worker'[w] # "deleted"
      BY <1>1, <1>4, <2>1 DEF ListedAreAlive
    <3> QED
      BY <1>1, <1>2, <2>1, <3>1, WorkersKept
  <2>3. TargetsAreKnown'
    <3>1. TargetIsKnown(p)'
      BY <1>3, <1>5, <2>1, <2>2 DEF TargetIsKnown, Found
    <3>2. \A q \in P!Actors : q # p => /\ poster'[q] = poster[q] /\ target'[q] = target[q]
                                       /\ pool_erased'[q] = pool_erased[q]
      BY <1>5, <2>1
    <3> QED
      BY <1>1, <2>2, <3>1, <3>2, TargetKept
  <2>4. P!TypeOK' /\ pool_at' >= 1
    <3>1. message[p] \in Messages \cup {P!Inner}
      BY <2>1 DEF PoolInv, MessageIsSet
    <3>2. queue' \in [Workers -> Seq(Messages \cup {P!Inner})]
      <4>1. Append(queue[target[p]], message[p]) \in Seq(Messages \cup {P!Inner})
        BY <1>3, <1>5, <3>1, AppendProperties
      <4> QED
        BY <1>3, <1>5, <2>1, <4>1
    <3>3. /\ posted' \in SUBSET (Messages \cup {P!Inner})
          /\ poster' \in [P!Actors -> {"idle", "lock", "scan", "choose", "create", "first",
                                       "post", "notify"}]
          /\ message' \in [P!Actors -> Messages \cup {P!Inner, P!Nobody}]
      BY <1>5, <2>1, <3>1
    <3> QED
      BY <1>1, <1>2, <2>1, <3>2, <3>3 DEF P!TypeOK, P!Actors
  <2>5. P!StaleOnlyIfErased'
    BY <2>1 DEF P!StaleOnlyIfErased
  <2> QED
    BY <2>2, <2>3, <2>4, <2>5 DEF PoolCore
<1>8. CASE worker[target[p]] # "deleted" /\ P!Notify(p)
  <2>1. /\ undefined' = "none" /\ worker' = P!Notified({target[p]}) /\ queue' = queue
        /\ posted' = posted /\ message' = message
        /\ poster' = [poster EXCEPT ![p] = "idle"]
        /\ target' = [target EXCEPT ![p] = P!Nobody]
        /\ pool_erased' = [pool_erased EXCEPT ![p] = {}]
    BY <1>2, <1>8 DEF P!Notify
  <2>2. /\ worker' \in [Workers -> {"none", "test", "enter", "waiting", "woken",
                                    "running", "ended", "deleted"}]
        /\ \A w \in Workers : /\ worker'[w] = "none" <=> worker[w] = "none"
                              /\ worker'[w] = "deleted" <=> worker[w] = "deleted"
    BY <1>1, <2>1, NotifiedIs
  <2>3. Listed' = Listed /\ ListedAreAlive' /\ CursorIsKnown'
    <3>1. \A w \in Listed : w \in Workers /\ worker'[w] # "deleted"
      BY <1>1, <1>4, <2>2 DEF ListedAreAlive
    <3> QED
      BY <1>1, <1>2, <2>2, <3>1, WorkersKept
  <2>4. TargetsAreKnown'
    <3>1. TargetIsKnown(p)'
      BY <1>5, <2>1 DEF TargetIsKnown
    <3>2. \A q \in P!Actors : q # p => /\ poster'[q] = poster[q] /\ target'[q] = target[q]
                                       /\ pool_erased'[q] = pool_erased[q]
      BY <1>5, <2>1
    <3> QED
      BY <1>1, <2>3, <3>1, <3>2, TargetKept
  <2>5. P!TypeOK' /\ pool_at' >= 1
    <3>1. /\ poster' \in [P!Actors -> {"idle", "lock", "scan", "choose", "create", "first",
                                       "post", "notify"}]
          /\ target' \in [P!Actors -> Workers \cup {P!Nobody}]
          /\ pool_erased' \in [P!Actors -> SUBSET Workers]
      BY <1>5, <2>1
    <3> QED
      BY <1>1, <1>2, <2>1, <2>2, <3>1 DEF P!TypeOK, P!Actors
  <2>6. P!StaleOnlyIfErased'
    BY <2>1 DEF P!StaleOnlyIfErased
  <2> QED
    BY <2>3, <2>4, <2>5, <2>6 DEF PoolCore
<1> QED
  BY <1>6, <1>7, <1>8

\* Shrunk takes a Worker out of the list before it deletes it.
LEMMA ShrunkStep ==
  ASSUME PoolInv, P!Shrunk
  PROVE  PoolCore'
<1> USE DEF P!posterVars, P!resizerVars, P!workerVars, P!Defined
<1>1. /\ P!TypeOK /\ pool_at >= 1 /\ ListedAreAlive /\ TargetsAreKnown /\ CursorIsKnown
  BY DEF PoolInv, PoolCore
<1>2. /\ Len(workers) \in Nat /\ Listed \subseteq Workers /\ workers \in Seq(Workers)
      /\ \A i \in 1 .. Len(workers) : workers[i] \in Listed
  BY <1>1, ListedIs DEF P!TypeOK
<1>3. /\ undefined = "none" /\ undefined' = "none" /\ cursor' = cursor
      /\ queue' = queue /\ pool_busy' = pool_busy /\ max_size' = max_size /\ limit' = limit
      /\ poster' = poster /\ message' = message /\ target' = target /\ posted' = posted
      /\ scanned' = scanned /\ min_busy' = min_busy
      /\ sets' = sets /\ wanted' = wanted /\ resizer = "shrink"
      /\ pool_at <= Len(workers)
  BY DEF P!Shrunk
<1>4. pool_at \in 1 .. Len(workers) /\ pool_at \in Nat
  BY <1>1, <1>2, <1>3 DEF P!TypeOK
<1>5. CASE queue[workers[pool_at]] = <<>>
  <2> DEFINE w == workers[pool_at]  n == Len(workers)
  <2>1. /\ closed' = closed \cup {w} /\ worker' = P!Notified({w}) /\ joining' = {w}
        /\ pool_erased' = [p \in P!Actors |-> IF poster[p] \in {"idle", "lock"} THEN {}
                                              ELSE pool_erased[p] \cup {w}]
        /\ workers' = P!RemoveAt(workers, pool_at)
        /\ resizer' = "deleting" /\ pool_at' = pool_at
    BY <1>5 DEF P!Shrunk, P!Close
  <2>2. /\ workers' \in Seq(Workers) /\ Len(workers') = n - 1
        /\ \A i \in 1 .. n - 1 : workers'[i] = IF i < pool_at THEN workers[i] ELSE workers[i + 1]
    BY <1>2, <1>4, <2>1, RemovedAt
  <2>3. w \in Listed /\ w \in Workers
    BY <1>2, <1>4
  <2> DEFINE from(i) == IF i < pool_at THEN i ELSE i + 1
  <2>4. \A i \in 1 .. n - 1 : /\ from(i) \in 1 .. n /\ from(i) # pool_at
                              /\ workers'[i] = workers[from(i)]
    BY <1>2, <1>4, <2>2
  <2>5. \A i, j \in 1 .. n - 1 : i # j => from(i) # from(j)
    BY <1>2, <1>4
  <2>6. \A k \in 1 .. n : k # pool_at => \E i \in 1 .. n - 1 : from(i) = k
    <3>1. ASSUME NEW k \in 1 .. n, k # pool_at PROVE \E i \in 1 .. n - 1 : from(i) = k
      <4>1. CASE k < pool_at
        <5>1. k \in 1 .. n - 1 /\ from(k) = k
          BY <1>2, <1>4, <4>1
        <5> QED
          BY <5>1
      <4>2. CASE k > pool_at
        <5>1. k - 1 \in 1 .. n - 1 /\ from(k - 1) = k
          BY <1>2, <1>4, <4>2
        <5> QED
          BY <5>1
      <4> QED
        BY <1>4, <3>1, <4>1, <4>2
    <3> QED
      BY <3>1
  <2> HIDE DEF from
  <2>7. \A i, j \in 1 .. n : i # j => workers[i] # workers[j]
    BY <1>1 DEF ListedAreAlive
  <2>8. Listed' = Listed \ {w}
    <3>1. Listed' = {workers'[i] : i \in 1 .. n - 1}
      BY <2>2 DEF Listed
    <3>2. ASSUME NEW i \in 1 .. n - 1 PROVE workers'[i] \in Listed \ {w}
      <4>1. workers[from(i)] \in Listed /\ workers[from(i)] # w
        BY <1>2, <1>4, <2>4, <2>7
      <4> QED
        BY <2>4, <4>1
    <3>3. ASSUME NEW v \in Listed, v # w PROVE v \in Listed'
      <4>1. PICK k \in 1 .. n : v = workers[k]
        BY DEF Listed
      <4>2. PICK i \in 1 .. n - 1 : from(i) = k
        BY <2>6, <3>3, <4>1
      <4>3. workers'[i] = v
        BY <2>4, <4>1, <4>2
      <4> QED
        BY <3>1, <4>2, <4>3
    <3> QED
      BY <3>1, <3>2, <3>3
  <2> HIDE DEF w
  <2>9. /\ worker' \in [Workers -> {"none", "test", "enter", "waiting", "woken", "running",
                                    "ended", "deleted"}]
        /\ \A v \in Workers : /\ worker'[v] = "none" <=> worker[v] = "none"
                              /\ worker'[v] = "deleted" <=> worker[v] = "deleted"
    BY <1>1, <2>1, NotifiedIs
  <2>10. ListedAreAlive'
    <3>1. \A i, j \in 1 .. n - 1 : i # j => workers'[i] # workers'[j]
      BY <2>4, <2>5, <2>7
    <3>2. \A v \in Listed' : worker'[v] \notin {"none", "deleted"}
      BY <1>1, <1>2, <2>8, <2>9 DEF ListedAreAlive
    <3>3. joining' \cap Listed' = {}
      BY <2>1, <2>8
    <3>4. \A v \in Workers : worker'[v] # "none" => v \in Listed' \cup closed'
      BY <1>1, <2>1, <2>8, <2>9 DEF ListedAreAlive
    <3> QED
      BY <2>2, <3>1, <3>2, <3>3, <3>4 DEF ListedAreAlive
  <2>11. TargetsAreKnown'
    <3>1. ASSUME NEW p \in P!Actors PROVE TargetIsKnown(p)'
      <4>1. TargetIsKnown(p)
        BY <1>1 DEF TargetsAreKnown
      <4>2. poster[p] \notin {"idle", "lock"} => pool_erased'[p] = pool_erased[p] \cup {w}
        BY <2>1
      <4> QED
        BY <1>3, <2>8, <4>1, <4>2 DEF TargetIsKnown, Found
    <3> QED
      BY <3>1 DEF TargetsAreKnown, P!Actors
  <2>12. CursorIsKnown'
    BY <1>1, <1>3, <2>1, <2>8 DEF CursorIsKnown
  <2>13. P!StaleOnlyIfErased'
    BY <1>3 DEF P!StaleOnlyIfErased
  <2>14. P!TypeOK'
    <3>1. pool_erased' \in [P!Actors -> SUBSET Workers]
      BY <1>1, <2>1, <2>3 DEF P!TypeOK
    <3>2. closed' \in SUBSET Workers /\ joining' \in SUBSET Workers
      BY <1>1, <2>1, <2>3 DEF P!TypeOK
    <3> QED
      BY <1>1, <1>3, <2>1, <2>2, <2>9, <3>1, <3>2 DEF P!TypeOK, P!Actors
  <2> QED
    BY <1>1, <2>1, <2>10, <2>11, <2>12, <2>13, <2>14 DEF PoolCore
<1>6. CASE queue[workers[pool_at]] # <<>>
  <2>1. /\ pool_at' = pool_at + 1 /\ workers' = workers /\ closed' = closed
        /\ worker' = worker /\ joining' = joining /\ pool_erased' = pool_erased
        /\ resizer' = resizer
    BY <1>6 DEF P!Shrunk
  <2>2. \A v \in Listed : v \in Workers /\ worker'[v] # "deleted"
    BY <1>1, <1>2, <2>1 DEF ListedAreAlive
  <2>3. Listed' = Listed /\ ListedAreAlive' /\ CursorIsKnown'
    BY <1>1, <1>3, <2>1, <2>2, WorkersKept
  <2>4. TargetsAreKnown' /\ P!StaleOnlyIfErased'
    BY <1>1, <1>3, <2>1, <2>3 DEF TargetsAreKnown, TargetIsKnown, Found, P!StaleOnlyIfErased,
       P!Actors
  <2>5. P!TypeOK' /\ pool_at' >= 1
    <3>1. pool_at' \in Nat /\ pool_at' >= 1
      BY <1>4, <2>1
    <3> QED
      BY <1>1, <1>3, <2>1, <3>1 DEF P!TypeOK
  <2> QED
    BY <2>3, <2>4, <2>5 DEF PoolCore
<1> QED
  BY <1>5, <1>6

\* Post and a message that posts set what is posted before they take mutex_.
LEMMA MessageStep ==
  ASSUME PoolInv, Next
  PROVE  MessageIsSet'
<1> USE DEF P!posterVars, P!resizerVars, P!workerVars, P!Actors
<1>1. /\ MessageIsSet
      /\ poster \in [P!Actors -> {"idle", "lock", "scan", "choose", "create", "first",
                                  "post", "notify"}]
      /\ message \in [P!Actors -> Messages \cup {P!Inner, P!Nobody}]
  BY DEF PoolInv, PoolCore, P!TypeOK
<1>2. CASE poster' = poster /\ message' = message
  BY <1>1, <1>2 DEF MessageIsSet
<1>3. ASSUME NEW p \in P!Actors, message' = message, poster[p] \notin {"idle", "notify"},
             \E s \in {"lock", "scan", "choose", "create", "first", "post"} :
                poster' = [poster EXCEPT ![p] = s]
      PROVE  MessageIsSet'
  BY <1>1, <1>3 DEF MessageIsSet
<1>4. ASSUME NEW p \in P!Actors, NEW m \in Messages \cup {P!Inner},
             poster' = [poster EXCEPT ![p] = "lock"], message' = [message EXCEPT ![p] = m]
      PROVE  MessageIsSet'
  BY <1>1, <1>4 DEF MessageIsSet
<1>5. ASSUME NEW p \in P!Actors, NEW s \in {"idle", "notify"},
             poster' = [poster EXCEPT ![p] = s],
             \A q \in P!Actors : q # p => message'[q] = message[q]
      PROVE  MessageIsSet'
  BY <1>1, <1>5 DEF MessageIsSet
<1>6. CASE \E w \in Workers : P!Work(w) \/ P!SpuriousWakeup(w)
  <2>1. PICK w \in Workers : P!Work(w) \/ P!SpuriousWakeup(w)
    BY <1>6
  <2>2. \/ poster' = poster /\ message' = message
        \/ poster' = [poster EXCEPT ![w] = "lock"] /\ message' = [message EXCEPT ![w] = P!Inner]
    BY <2>1 DEF P!Work, P!TestQuit, P!Enter, P!SpuriousWakeup, P!Drain, P!Relock, P!Pop,
                P!Finish
  <2> QED
    BY <1>2, <1>4, <2>2
<1>7. ASSUME NEW p \in Posters, NEW m \in Messages, P!Post(p, m) PROVE MessageIsSet'
  BY <1>4, <1>7 DEF P!Post
<1>8. ASSUME NEW p \in P!Actors, P!Posting(p) PROVE MessageIsSet'
  <2>1. CASE P!Lock(p)
    BY <1>3, <2>1 DEF P!Lock
  <2>2. CASE P!Scan(p)
    BY <1>2, <1>3, <2>2 DEF P!Scan
  <2>3. CASE P!Choose(p)
    <3>1. \E s \in {"create", "first", "post"} : poster' = [poster EXCEPT ![p] = s]
      BY <2>3, ChosenIs DEF PoolInv, PoolCore
    <3> QED
      BY <1>3, <2>3, <3>1 DEF P!Choose
  <2>4. CASE P!Create(p)
    BY <1>3, <2>4 DEF P!Create
  <2>5. CASE P!TakeFirst(p)
    BY <1>2, <1>3, <2>5 DEF P!TakeFirst
  <2>6. CASE P!PostTo(p)
    BY <1>1, <1>2, <1>5, <2>6 DEF P!PostTo
  <2>7. CASE P!Notify(p)
    BY <1>2, <1>5, <2>7 DEF P!Notify
  <2> QED
    BY <1>8, <2>1, <2>2, <2>3, <2>4, <2>5, <2>6, <2>7 DEF P!Posting
<1>9. CASE (\E r \in Resizes : P!SetSize(r[1], r[2])) \/ P!Resizing \/ P!Stop
  BY <1>2, <1>9 DEF P!SetSize, P!Stop, P!Resizing, P!Inflate, P!LockShrunk, P!Shrunk,
     P!Delete, P!UnlockShrunk, P!SetMaxSize, P!StopNext, P!Join, P!Joined
<1>10. CASE UNCHANGED poolVars
  BY <1>2, <1>10 DEF poolVars
<1> QED
  BY <1>6, <1>7, <1>8, <1>9, <1>10, PoolStep

\* GetIdle and Shrunk keep each other out with mutex_, and no one else takes a
\* Worker out of the list.
LEMMA MutexStep ==
  ASSUME PoolInv, Next
  PROVE  ScanHasMutex'
<1> USE DEF P!posterVars, P!resizerVars, P!workerVars, P!Actors
<1>1. /\ ScanHasMutex
      /\ poster \in [P!Actors -> {"idle", "lock", "scan", "choose", "create", "first",
                                  "post", "notify"}]
  BY DEF PoolInv, PoolCore, P!TypeOK
<1>2. ASSUME workers' = workers \/ workers' # <<>>,
             resizer' = resizer \/ resizer' \notin {"shrink", "deleting"},
             \A q \in P!Actors : poster'[q] = "scan" => poster[q] = "scan"
      PROVE  ScanHasMutex'
  BY <1>1, <1>2 DEF ScanHasMutex
<1>3. ASSUME NEW p \in P!Actors,
             \E s \in {"idle", "lock", "choose", "create", "first", "post", "notify"} :
                poster' = [poster EXCEPT ![p] = s]
      PROVE  \A q \in P!Actors : poster'[q] = "scan" => poster[q] = "scan"
  BY <1>1, <1>3
<1>4. CASE \E w \in Workers : P!Work(w) \/ P!SpuriousWakeup(w)
  <2>1. PICK w \in Workers : P!Work(w) \/ P!SpuriousWakeup(w)
    BY <1>4
  <2>2. /\ poster' = poster \/ poster' = [poster EXCEPT ![w] = "lock"]
        /\ workers' = workers /\ resizer' = resizer
    BY <2>1 DEF P!Work, P!TestQuit, P!Enter, P!SpuriousWakeup, P!Drain, P!Relock, P!Pop,
                P!Finish
  <2> QED
    BY <1>2, <1>3, <2>2
<1>5. ASSUME NEW p \in Posters, NEW m \in Messages, P!Post(p, m) PROVE ScanHasMutex'
  <2>1. poster' = [poster EXCEPT ![p] = "lock"] /\ workers' = workers /\ resizer' = resizer
    BY <1>5 DEF P!Post
  <2> QED
    BY <1>2, <1>3, <2>1
<1>6. ASSUME NEW p \in P!Actors, P!Posting(p) PROVE ScanHasMutex'
  <2>1. CASE P!Lock(p)
    <3>1. /\ resizer \notin {"shrink", "deleting"} /\ resizer' = resizer
          /\ workers' = workers
          /\ poster' = [poster EXCEPT ![p] = IF workers = <<>> THEN "choose" ELSE "scan"]
      BY <2>1 DEF P!Lock, P!MutexFree
    <3> QED
      BY <1>1, <3>1 DEF ScanHasMutex
  <2>2. CASE P!Scan(p)
    <3>1. /\ poster[p] = "scan" /\ resizer' = resizer /\ workers' = workers
          /\ poster' = poster \/ \E s \in {"post", "choose", "scan"} :
                                    poster' = [poster EXCEPT ![p] = s]
      BY <2>2 DEF P!Scan
    <3> QED
      BY <1>1, <1>2, <3>1
  <2>3. CASE P!Choose(p)
    <3>1. \E s \in {"create", "first", "post"} : poster' = [poster EXCEPT ![p] = s]
      BY <2>3, ChosenIs DEF PoolInv, PoolCore
    <3> QED
      BY <1>2, <1>3, <2>3, <3>1 DEF P!Choose
  <2>4. CASE P!Create(p)
    <3>1. workers' # <<>>
      <4>1. PICK w \in P!Unborn : workers' = Append(workers, w)
        BY <2>4 DEF P!Create, P!Created
      <4>2. workers \in Seq(Workers) /\ w \in Workers
        BY DEF PoolInv, PoolCore, P!TypeOK, P!Unborn
      <4> QED
        BY <4>1, <4>2, AppendProperties
    <3> QED
      BY <1>2, <1>3, <2>4, <3>1 DEF P!Create
  <2>5. CASE P!TakeFirst(p)
    BY <1>2, <1>3, <2>5 DEF P!TakeFirst
  <2>6. CASE P!PostTo(p)
    BY <1>2, <1>3, <2>6 DEF P!PostTo
  <2>7. CASE P!Notify(p)
    BY <1>2, <1>3, <2>7 DEF P!Notify
  <2> QED
    BY <1>6, <2>1, <2>2, <2>3, <2>4, <2>5, <2>6, <2>7 DEF P!Posting
<1>7. CASE P!Inflate
  <2>1. workers' # <<>>
    <3>1. PICK w \in P!Unborn : workers' = Append(workers, w)
      BY <1>7 DEF P!Inflate, P!Created
    <3>2. workers \in Seq(Workers) /\ w \in Workers
      BY DEF PoolInv, PoolCore, P!TypeOK, P!Unborn
    <3> QED
      BY <3>1, <3>2, AppendProperties
  <2> QED
    BY <1>2, <1>7, <2>1 DEF P!Inflate
<1>8. CASE P!LockShrunk
  BY <1>8 DEF P!LockShrunk, P!MutexFree, ScanHasMutex
<1>9. CASE P!Shrunk \/ P!Delete \/ P!UnlockShrunk
  <2>1. resizer \in {"shrink", "deleting"} /\ poster' = poster
    BY <1>9 DEF P!Shrunk, P!Delete, P!UnlockShrunk
  <2> QED
    BY <1>1, <2>1 DEF ScanHasMutex
<1>10. CASE P!SetMaxSize \/ P!StopNext \/ P!Join \/ P!Joined \/ P!Stop
  BY <1>2, <1>10 DEF P!SetMaxSize, P!StopNext, P!Join, P!Joined, P!Stop
<1>11. CASE \E r \in Resizes : P!SetSize(r[1], r[2])
  BY <1>2, <1>11 DEF P!SetSize
<1>12. CASE UNCHANGED poolVars
  BY <1>2, <1>12 DEF poolVars
<1> QED
  BY <1>4, <1>5, <1>6, <1>7, <1>8, <1>9, <1>10, <1>11, <1>12, PoolStep DEF P!Resizing

\* The steps of the other parts and the pool's own keep the invariant.
LEMMA PoolNext == PoolInv /\ [Next]_vars => PoolInv'
<1> SUFFICES ASSUME PoolInv, [Next]_vars PROVE PoolInv'
  OBVIOUS
<1>1. CASE UNCHANGED poolVars
  <2> USE <1>1 DEF poolVars
  <2>1. P!TypeOK' /\ pool_at' >= 1
    BY DEF PoolInv, PoolCore, P!TypeOK, P!Actors
  <2>2. Listed' = Listed
    BY DEF Listed
  <2>3. ListedAreAlive' /\ CursorIsKnown' /\ P!StaleOnlyIfErased'
    BY <2>2 DEF PoolInv, PoolCore, ListedAreAlive, CursorIsKnown, P!StaleOnlyIfErased,
       P!Actors
  <2>4. TargetsAreKnown'
    BY <2>2 DEF PoolInv, PoolCore, TargetsAreKnown, TargetIsKnown, Found, P!Actors
  <2>5. ScanHasMutex' /\ MessageIsSet'
    BY DEF PoolInv, ScanHasMutex, MessageIsSet, P!Actors
  <2> QED
    BY <2>1, <2>3, <2>4, <2>5 DEF PoolInv, PoolCore
<1>2. CASE Next
  <2>0. MessageIsSet' /\ ScanHasMutex'
    BY <1>2, MessageStep, MutexStep
  <2>1. CASE \E w \in Workers : P!Work(w) \/ P!SpuriousWakeup(w)
    BY <2>0, <2>1, WorkerStep DEF PoolInv
  <2>2. CASE \E p \in Posters, m \in Messages : P!Post(p, m)
    <3>1. PICK p \in Posters, m \in Messages : P!Post(p, m)
      BY <2>2
    <3>2. p \in P!Actors /\ p \in Posters /\ \E n \in Messages : P!Post(p, n)
      BY <3>1 DEF P!Actors
    <3> QED
      BY <2>0, <3>2, PosterStep DEF PoolInv
  <2>3. ASSUME NEW p \in P!Actors, P!Posting(p) PROVE PoolInv'
    <3>1. CASE P!Lock(p) \/ P!Choose(p)
      BY <2>0, <3>1, PosterStep DEF PoolInv
    <3>2. CASE P!Scan(p)
      BY <2>0, <3>2, ScanStep DEF PoolInv
    <3>3. CASE P!Create(p)
      BY <2>0, <3>3, CreateStep DEF PoolInv
    <3>4. CASE P!TakeFirst(p)
      BY <2>0, <3>4, FirstStep DEF PoolInv
    <3>5. CASE P!PostTo(p) \/ P!Notify(p)
      BY <2>0, <3>5, PostToStep DEF PoolInv
    <3> QED
      BY <2>3, <3>1, <3>2, <3>3, <3>4, <3>5 DEF P!Posting
  <2>4. CASE \/ \E r \in Resizes : P!SetSize(r[1], r[2])
             \/ P!LockShrunk \/ P!UnlockShrunk \/ P!SetMaxSize \/ P!Stop \/ P!Join \/ P!Joined
    BY <2>0, <2>4, ResizerStep DEF PoolInv
  <2>5. CASE P!Inflate
    BY <2>0, <2>5, CreateStep DEF PoolInv
  <2>6. CASE P!Shrunk
    BY <2>0, <2>6, ShrunkStep DEF PoolInv
  <2>7. CASE P!Delete
    BY <2>0, <2>7, DeleteStep DEF PoolInv
  <2>8. CASE P!StopNext
    BY <2>0, <2>8, StopStep DEF PoolInv
  <2> QED
    BY <1>1, <1>2, <2>1, <2>2, <2>3, <2>4, <2>5, <2>6, <2>7, <2>8, PoolStep DEF P!Resizing
<1>3. CASE UNCHANGED vars
  BY <1>1, <1>3 DEF vars
<1> QED
  BY <1>2, <1>3

\* ThreadPool: the list holds live Workers, each once, those not in it are
\* closed, and Post's choice is in it unless Shrunk has erased it since.
THEOREM PoolInvariant == Spec => []PoolInv
<1> QED
  BY PoolInit, PoolNext, PTL DEF Spec

\* ThreadPool: whatever the sizes and the order of the calls, a Worker that is
\* used after it is gone was erased by Shrunk between GetIdle and Post, an i_
\* that is gone was left behind by Shrunk, and the first of no Workers is used
\* only when all there were are closed.
THEOREM StaleIsErased == Spec => []StaleOnlyIfErased
<1>1. PoolInv => StaleOnlyIfErased
  BY DEF PoolInv, PoolCore, StaleOnlyIfErased
<1> QED
  BY PoolInvariant, <1>1, PTL

-----------------------------------------------------------------------------
(* FastcgiProcess. *)

\* A thread that has taken a request since the signal is in it, or has left.
TakenOnce ==
  \A t \in Servers : taken[t] = 0 \/ (taken[t] = 1 /\ quit_ /\ place[t] \notin {"none", "accept"})

\* No thread serves before the FrameWork is there.
ServesWithin ==
  phase \in {"forked", "ignoring", "half", "ready"} => \A t \in Servers : place[t] = "none"

\* What ends the process in order is the main thread that has left its loop.
MainIsLeft ==
  /\ framework = "freed" \/ phase \in {"exiting", "exited", "crashed"}
       => place[Main] = "left"
  /\ Main \notin cut

\* The inductive invariant of FastcgiProcess.
ProcessInv == F!TypeOK /\ TakenOnce /\ ServesWithin /\ MainIsLeft

\* The constants are the process's.
LEMMA MainServes == Main \in Servers /\ MaxRequests \in Nat
BY PartsAssumption DEF F!ProcessAssumption

\* What each step of the process is.
LEMMA ProcessStep ==
  ASSUME Next
  PROVE  \/ \E sig \in {"TERM", "INT"} : F!Signal(sig)
         \/ F!InstallSignal \/ F!Serve \/ F!MainReturns \/ F!Exit
         \/ \E t \in Servers : F!Accept(t) \/ F!AcceptFails(t) \/ F!Process(t)
                               \/ F!Test(t) \/ F!Finish(t)
         \/ UNCHANGED processVars
<1>1. CASE Cache
  BY <1>1 DEF Cache, Of
<1>2. CASE Runner
  BY <1>2 DEF Runner, Of
<1>3. CASE Ring
  BY <1>3 DEF Ring, Of
<1>4. CASE Fastcgi
  BY <1>4 DEF Fastcgi
<1>5. CASE Pool
  BY <1>5 DEF Pool, Of
<1>6. CASE Proxy
  BY <1>6 DEF Proxy, Of
<1> QED
  BY <1>1, <1>2, <1>3, <1>4, <1>5, <1>6 DEF Next

\* Each conjunct holds to begin with.
LEMMA ProcessInit == Init => ProcessInv
<1> SUFFICES ASSUME Init PROVE ProcessInv
  OBVIOUS
<1>0. /\ phase = "forked" /\ inherited \in {"default", "master"}
      /\ quit_ = FALSE /\ framework = "none"
      /\ place = [t \in Servers |-> "none"]
      /\ requests = 0 /\ taken = [t \in Servers |-> 0] /\ cut = {}
  BY DEF Init, F!Init
<1>1. F!TypeOK
  BY <1>0 DEF F!TypeOK, F!Phases, F!Places
<1>2. TakenOnce
  BY <1>0 DEF TakenOnce
<1>3. ServesWithin
  BY <1>0 DEF ServesWithin
<1>4. MainIsLeft
  BY <1>0 DEF MainIsLeft
<1> QED
  BY <1>1, <1>2, <1>3, <1>4 DEF ProcessInv

\* The types are kept by each step of a thread, of the process and of a signal.
LEMMA ProcessTypeStep ==
  ASSUME F!TypeOK, Next PROVE F!TypeOK'
<1> USE MainServes DEF F!TypeOK, F!Phases, F!Places, F!InRequest
<1>1. ASSUME NEW sig \in {"TERM", "INT"}, F!Signal(sig) PROVE F!TypeOK'
  BY <1>1 DEF F!Signal
<1>2. CASE F!InstallSignal \/ F!Serve
  BY <1>2 DEF F!InstallSignal, F!Serve
<1>3. CASE F!MainReturns \/ F!Exit
  BY <1>3 DEF F!MainReturns, F!Exit
<1>4. ASSUME NEW t \in Servers, F!Accept(t) PROVE F!TypeOK'
  BY <1>4 DEF F!Accept
<1>5. ASSUME NEW t \in Servers, F!AcceptFails(t) PROVE F!TypeOK'
  BY <1>5 DEF F!AcceptFails
<1>6. ASSUME NEW t \in Servers, F!Process(t) \/ F!Test(t) \/ F!Finish(t) PROVE F!TypeOK'
  BY <1>6 DEF F!Process, F!Test, F!Finish
<1>7. CASE UNCHANGED processVars
  BY <1>7 DEF processVars
<1> QED
  BY <1>1, <1>2, <1>3, <1>4, <1>5, <1>6, <1>7, ProcessStep

\* A thread takes a request only from the accept, where it has taken none
\* since the signal, and Test does not let it go back there.
LEMMA TakenStep ==
  ASSUME ProcessInv, Next PROVE TakenOnce' /\ ServesWithin'
<1> USE MainServes DEF F!Phases, F!Places, F!InRequest, ProcessInv, F!TypeOK, TakenOnce,
                       ServesWithin
<1>1. ASSUME NEW sig \in {"TERM", "INT"}, F!Signal(sig) PROVE TakenOnce' /\ ServesWithin'
  BY <1>1 DEF F!Signal
<1>2. CASE F!InstallSignal \/ F!Serve
  BY <1>2 DEF F!InstallSignal, F!Serve
<1>3. CASE F!MainReturns \/ F!Exit
  BY <1>3 DEF F!MainReturns, F!Exit
<1>4. ASSUME NEW t \in Servers, F!Accept(t) PROVE TakenOnce' /\ ServesWithin'
  BY <1>4 DEF F!Accept, F!Runs
<1>5. ASSUME NEW t \in Servers, F!AcceptFails(t) PROVE TakenOnce' /\ ServesWithin'
  BY <1>5 DEF F!AcceptFails, F!Runs
<1>6. ASSUME NEW t \in Servers, F!Process(t) \/ F!Test(t) \/ F!Finish(t)
      PROVE  TakenOnce' /\ ServesWithin'
  BY <1>6 DEF F!Process, F!Test, F!Finish, F!Runs
<1>7. CASE UNCHANGED processVars
  BY <1>7 DEF processVars
<1> QED
  BY <1>1, <1>2, <1>3, <1>4, <1>5, <1>6, <1>7, ProcessStep

\* The main thread that has left its loop does nothing any more.
LEMMA MainStep ==
  ASSUME ProcessInv, Next PROVE MainIsLeft'
<1> USE MainServes DEF F!Phases, F!Places, F!InRequest, ProcessInv, F!TypeOK, MainIsLeft
<1>1. ASSUME NEW sig \in {"TERM", "INT"}, F!Signal(sig) PROVE MainIsLeft'
  BY <1>1 DEF F!Signal
<1>2. CASE F!InstallSignal \/ F!Serve
  BY <1>2 DEF F!InstallSignal, F!Serve, ServesWithin
<1>3. CASE F!MainReturns \/ F!Exit
  BY <1>3 DEF F!MainReturns, F!Exit
<1>4. ASSUME NEW t \in Servers, F!Accept(t) PROVE MainIsLeft'
  BY <1>4 DEF F!Accept, F!Runs
<1>5. ASSUME NEW t \in Servers, F!AcceptFails(t) PROVE MainIsLeft'
  BY <1>5 DEF F!AcceptFails, F!Runs
<1>6. ASSUME NEW t \in Servers, F!Process(t) \/ F!Test(t) \/ F!Finish(t) PROVE MainIsLeft'
  BY <1>6 DEF F!Process, F!Test, F!Finish, F!Runs
<1>7. CASE UNCHANGED processVars
  BY <1>7 DEF processVars
<1> QED
  BY <1>1, <1>2, <1>3, <1>4, <1>5, <1>6, <1>7, ProcessStep

\* FastcgiProcess: a thread that has taken a request since the signal does not
\* come back for another, and the process ends in order only after its main
\* thread has left its loop.
THEOREM ProcessInvariant == Spec => []ProcessInv
<1>1. ProcessInv /\ UNCHANGED vars => ProcessInv'
  BY DEF ProcessInv, F!TypeOK, TakenOnce, ServesWithin, MainIsLeft, vars, processVars
<1>2. ProcessInv /\ [Next]_vars => ProcessInv'
  BY <1>1, ProcessTypeStep, TakenStep, MainStep DEF ProcessInv
<1> QED
  BY ProcessInit, <1>2, PTL DEF Spec

\* FastcgiProcess: after the signal a thread serves one more request at the
\* most, and the main thread's own request is never cut short, however many
\* threads there are.
THEOREM OneMoreHolds == Spec => []AtMostOneMore
<1>1. ProcessInv => AtMostOneMore
  BY MainServes DEF ProcessInv, F!TypeOK, TakenOnce, MainIsLeft, AtMostOneMore, F!AtMostOneMore
<1> QED
  BY ProcessInvariant, <1>1, PTL

-----------------------------------------------------------------------------
(* AsyncRunner and Continuum: what their own proof modules show of them holds *)
(* of their parts here.                                                       *)

\* AsyncRunner and Continuum with their proofs, on the variables of Parts.
AP == INSTANCE AsyncRunnerProofs
CP == INSTANCE ContinuumProofs

\* The runner of AsyncRunnerProofs has the same states to begin with.
LEMMA RunnerInit == AP!RunnerAssumption /\ (Init => AP!Init)
<1>1. AP!RunnerAssumption
  BY PartsAssumption DEF A!RunnerAssumption, AP!RunnerAssumption, A!IsFiniteSet, AP!IsFiniteSet
<1>2. Init => AP!Init
  BY DEF Init, A!Init, AP!Init
<1> QED
  BY <1>1, <1>2

\* The threads that CreateOne makes are chosen alike.
LEMMA SameCreated ==
  ASSUME NEW n
  PROVE  /\ AP!Free = A!Free /\ AP!Created(n) = A!Created(n)
         /\ AP!CanCreate(n) <=> A!CanCreate(n)
<1>1. \A T : AP!Cardinality(T) = A!Cardinality(T)
  BY DEF AP!Cardinality, A!Cardinality
<1>2. AP!Free = A!Free
  BY DEF AP!Free, A!Free
<1>3. AP!Created(n) = A!Created(n)
  BY <1>1, <1>2 DEF AP!Created, A!Created
<1>4. AP!CanCreate(n) <=> A!CanCreate(n)
  BY <1>1, <1>2 DEF AP!CanCreate, A!CanCreate
<1> QED
  BY <1>2, <1>3, <1>4

\* A step of Parts is a step of the runner, or leaves it alone.
LEMMA RunnerStep == [Next]_vars => [AP!Next]_AP!vars
<1> SUFFICES ASSUME [Next]_vars PROVE AP!Next \/ UNCHANGED AP!vars
  OBVIOUS
<1> USE DEF A!ownerVars, AP!ownerVars, A!checkVars, AP!checkVars, A!groupVars, AP!groupVars,
            A!callVars, AP!callVars
<1>1. CASE UNCHANGED runnerVars
  BY <1>1 DEF runnerVars, AP!vars
<1>2. ASSUME NEW c \in Calls, NEW kind \in A!Kinds, NEW n \in 0 .. MaxRuns, A!Post(c, kind, n)
      PROVE  AP!Next
  <2>1. AP!Post(c, kind, n) /\ kind \in AP!Kinds
    BY <1>2 DEF A!Post, AP!Post, A!Kinds, AP!Kinds
  <2> QED
    BY <2>1 DEF AP!Next
<1>3. ASSUME NEW t \in Threads, A!Enter(t) \/ A!Leave(t) PROVE AP!Next
  <2>1. AP!Enter(t) \/ AP!Leave(t)
    BY <1>3 DEF A!Enter, AP!Enter, A!Leave, AP!Leave, A!Outstanding, AP!Outstanding
  <2> QED
    BY <2>1 DEF AP!Next, AP!Serve
<1>4. ASSUME NEW t \in Threads, A!Take(t) \/ A!Return(t) PROVE AP!Next
  <2>1. \A c, failed : AP!After(c, failed) = A!After(c, failed)
    BY DEF A!After, AP!After
  <2>2. A!Take(t) => AP!Take(t)
    BY DEF A!Take, AP!Take, A!CountsAsBusy, AP!CountsAsBusy
  <2>3. A!Return(t) => AP!Return(t)
    BY <2>1 DEF A!Return, AP!Return, A!CountsAsBusy, AP!CountsAsBusy, A!CountsAsTask,
                AP!CountsAsTask
  <2> QED
    BY <1>4, <2>2, <2>3 DEF AP!Next, AP!Serve
<1>5. ASSUME NEW c \in Calls, A!Expire(c) PROVE AP!Next
  BY <1>5 DEF A!Expire, AP!Expire, AP!Next
<1>6. CASE A!CheckLoop \/ A!CheckBusy \/ A!AddThread
  BY <1>6 DEF A!CheckLoop, AP!CheckLoop, A!CheckBusy, AP!CheckBusy, A!AddThread, AP!AddThread,
              AP!Next, AP!Check
<1>7. CASE A!Resize
  BY <1>7, SameCreated DEF A!Resize, AP!Resize, AP!Next, AP!Check
<1>8. CASE A!Start
  BY <1>8, SameCreated DEF A!Start, AP!Start, AP!Next
<1>9. CASE A!DropWork \/ A!SetStop \/ A!StopService \/ A!JoinAll \/ A!JoinCheck
  BY <1>9 DEF A!DropWork, AP!DropWork, A!SetStop, AP!SetStop, A!StopService, AP!StopService,
              A!JoinAll, AP!JoinAll, A!JoinCheck, AP!JoinCheck, AP!Next, AP!Stop
<1>10. CASE Runner
  BY <1>2, <1>3, <1>4, <1>5, <1>6, <1>7, <1>8, <1>9, <1>10 DEF Runner
<1>11. CASE Cache
  BY <1>1, <1>11 DEF Cache, Of
<1>12. CASE Ring
  BY <1>1, <1>12 DEF Ring, Of
<1>13. CASE Fastcgi
  BY <1>1, <1>13 DEF Fastcgi, Of
<1>14. CASE Pool
  BY <1>1, <1>14 DEF Pool, Of
<1>15. CASE Proxy
  BY <1>1, <1>15 DEF Proxy, Of
<1>16. CASE UNCHANGED vars
  BY <1>1, <1>16 DEF vars
<1> QED
  BY <1>10, <1>11, <1>12, <1>13, <1>14, <1>15, <1>16 DEF Next

\* AsyncRunner: a Stop that has returned leaves one thread at the most, still to
\* be joined, for any number of threads, calls and starts.
THEOREM OffLeavesOne == Spec => []OffLeavesOneThread
<1>1. Spec => AP!Spec
  BY RunnerInit, RunnerStep, PTL DEF Spec, AP!Spec
<1>2. AP!Spec => []AP!OffLeavesOneThread
  BY RunnerInit, AP!StopLeavesOne
<1>3. AP!OffLeavesOneThread => OffLeavesOneThread
  BY DEF OffLeavesOneThread, A!OffLeavesOneThread, AP!OffLeavesOneThread
<1> QED
  BY <1>1, <1>2, <1>3, PTL

\* The ring of ContinuumProofs has the same states to begin with.
LEMMA RingInit == CP!RingAssumption /\ (Init => CP!Init)
<1>1. CP!RingAssumption
  BY PartsAssumption DEF C!RingAssumption, CP!RingAssumption
<1>2. Init => CP!Init
  BY DEF Init, C!Init, CP!Init, C!NoTargets, CP!NoTargets, C!NoCall, CP!NoCall
<1> QED
  BY <1>1, <1>2

\* The points of a target, and the rings that Rebuild may make, are the same.
LEMMA SameRings ==
  /\ \A m, d : CP!Points(m, d) = C!Points(m, d)
  /\ \A m, p : CP!OwnersOf(m, p) = C!OwnersOf(m, p)
  /\ \A m : CP!Rings(m) = C!Rings(m)
<1>1. \A m, d : CP!Points(m, d) = C!Points(m, d)
  BY DEF CP!Points, C!Points
<1>2. \A m, p : CP!OwnersOf(m, p) = C!OwnersOf(m, p)
  BY <1>1 DEF CP!OwnersOf, C!OwnersOf
<1>3. \A m : CP!Overlong(m) = C!Overlong(m)
  BY DEF CP!Overlong, C!Overlong
<1>4. \A m, hash, p : CP!FoundAt(m, hash, p) = C!FoundAt(m, hash, p)
  BY <1>2, <1>3 DEF CP!FoundAt, C!FoundAt
<1>5. \A m, hash : CP!RingsWith(m, hash) = C!RingsWith(m, hash)
  BY <1>4 DEF CP!RingsWith, C!RingsWith
<1>6. \A m : CP!Rings(m) = C!Rings(m)
  BY <1>3, <1>5 DEF CP!Rings, C!Rings
<1> QED
  BY <1>1, <1>2, <1>6

\* A step of Parts is a step of the ring, or leaves it alone.
LEMMA RingStep == [Next]_vars => [CP!Next]_CP!vars
<1> SUFFICES ASSUME [Next]_vars PROVE CP!Next \/ UNCHANGED CP!vars
  OBVIOUS
<1> USE DEF C!history, CP!history, C!callVars, CP!callVars, C!NoTargets, CP!NoTargets,
            C!NoCall, CP!NoCall, C!Ended, CP!Ended
<1>1. CASE UNCHANGED ringVars
  BY <1>1 DEF ringVars, CP!vars
<1>2. ASSUME NEW c \in Clients, NEW o \in C!Ops, C!Call(c, o) PROVE CP!Next
  <2>1. CP!Call(c, o) /\ o \in CP!Ops
    BY <1>2 DEF C!Call, CP!Call, C!Ops, CP!Ops
  <2> QED
    BY <2>1 DEF CP!Next
<1>3. \A B : /\ CP!ClientsAt(B) = C!ClientsAt(B)
  BY DEF CP!ClientsAt, C!ClientsAt
<1>4. /\ CP!ReadersBlocked <=> C!ReadersBlocked
      /\ CP!WritersBlocked <=> C!WritersBlocked
  BY <1>3 DEF CP!ReadersBlocked, C!ReadersBlocked, CP!WritersBlocked, C!WritersBlocked
<1>5. ASSUME NEW c \in Clients, C!ReadSection(c) PROVE CP!ReadSection(c)
  <2>1. \A T : CP!Cardinality(T) = C!Cardinality(T)
    BY DEF CP!Cardinality, C!Cardinality
  <2> QED
    BY <1>4, <1>5, <2>1 DEF C!ReadSection, CP!ReadSection
<1>6. ASSUME NEW c \in Clients, C!Nest(c) \/ C!Unnest(c) \/ C!ReadUnlock(c) \/ C!WriteUnlock(c)
      PROVE  CP!Nest(c) \/ CP!Unnest(c) \/ CP!ReadUnlock(c) \/ CP!WriteUnlock(c)
  BY <1>4, <1>6 DEF C!Nest, CP!Nest, C!Unnest, CP!Unnest, C!ReadUnlock, CP!ReadUnlock,
                    C!WriteUnlock, CP!WriteUnlock
<1>7. ASSUME NEW c \in Clients, C!Wait(c) \/ C!Add(c) \/ C!Remove(c)
      PROVE  CP!Wait(c) \/ CP!Add(c) \/ CP!Remove(c)
  BY <1>4, <1>7 DEF C!Wait, CP!Wait, C!Add, CP!Add, C!Remove, CP!Remove,
                    C!MayWrite, CP!MayWrite, C!WantsToWrite, CP!WantsToWrite
<1>8. ASSUME NEW c \in Clients, C!Swap(c) PROVE CP!Swap(c)
  BY <1>4, <1>8, SameRings DEF C!Swap, CP!Swap, C!Installed, CP!Installed,
                    C!MayWrite, CP!MayWrite, C!WantsToWrite, CP!WantsToWrite
<1>9. CASE Ring
  <2>1. \/ \E c \in Clients, o \in C!Ops : C!Call(c, o)
        \/ \E c \in Clients : \/ C!ReadSection(c) \/ C!Nest(c) \/ C!Unnest(c)
                              \/ C!ReadUnlock(c) \/ C!WriteUnlock(c) \/ C!Wait(c)
                              \/ C!Add(c) \/ C!Remove(c) \/ C!Swap(c)
    BY <1>9 DEF Ring
  <2> QED
    BY <1>2, <1>5, <1>6, <1>7, <1>8, <2>1 DEF CP!Next, CP!Proceed
<1>10. CASE Runner
  BY <1>1, <1>10 DEF Runner, Of
<1>11. CASE Cache
  BY <1>1, <1>11 DEF Cache, Of
<1>12. CASE Fastcgi
  BY <1>1, <1>12 DEF Fastcgi, Of
<1>13. CASE Pool
  BY <1>1, <1>13 DEF Pool, Of
<1>14. CASE Proxy
  BY <1>1, <1>14 DEF Proxy, Of
<1>15. CASE UNCHANGED vars
  BY <1>1, <1>15 DEF vars
<1> QED
  BY <1>9, <1>10, <1>11, <1>12, <1>13, <1>14, <1>15 DEF Next

\* The ring part of a behaviour is one of ContinuumProofs.
LEMMA RingSpec == Spec => CP!Spec
BY RingInit, RingStep, PTL DEF Spec, CP!Spec

\* Continuum: a ring made of older targets takes the place of a newer one only
\* at the end of a Rebuild that another one has overtaken.
THEOREM OnlyOvertakenGoBack == Spec => BackOnlyIfOvertaken
<1>1. CP!Spec => CP!BackOnlyIfOvertaken
  BY RingInit, CP!OnlyOvertakenGoBack
<1>2. CP!BackOnlyIfOvertaken => BackOnlyIfOvertaken
  BY PTL DEF BackOnlyIfOvertaken, C!BackOnlyIfOvertaken, CP!BackOnlyIfOvertaken
<1> QED
  BY <1>1, <1>2, RingSpec

\* Continuum: a hash goes to another target only if that one gains points or the
\* other loses some, equal points apart, for any hash function.
THEOREM HashesStay == Spec => MovesOnlyByCapacity
<1>1. CP!Spec => CP!MovesOnlyByCapacity
  BY RingInit, CP!HashesStay
<1> DEFINE
      Stays == \A h, p, q \in Hashes, d, e \in Targets :
         (/\ C!Finds(ring, h, p) /\ ring[p] = d /\ C!OwnedBy(built, p, d)
          /\ C!Finds(ring', h, q) /\ ring'[q] = e /\ C!OwnedBy(built', q, e)
          /\ d # e)
         => \/ C!Capacity(built', e) > C!Capacity(built, e)
            \/ C!Capacity(built', d) < C!Capacity(built, d)
      StaysThere == \A h, p, q \in Hashes, d, e \in Targets :
         (/\ CP!Finds(ring, h, p) /\ ring[p] = d /\ CP!OwnedBy(built, p, d)
          /\ CP!Finds(ring', h, q) /\ ring'[q] = e /\ CP!OwnedBy(built', q, e)
          /\ d # e)
         => \/ CP!Capacity(built', e) > CP!Capacity(built, e)
            \/ CP!Capacity(built', d) < CP!Capacity(built, d)
<1>2. [ring' # ring => StaysThere]_<<ring, built>> => [ring' # ring => Stays]_<<ring, built>>
  <2>1. \A r, h, p : CP!Finds(r, h, p) <=> C!Finds(r, h, p)
    BY DEF CP!Finds, C!Finds
  <2>2. \A m, p, d : CP!OwnedBy(m, p, d) <=> C!OwnedBy(m, p, d)
    BY SameRings DEF CP!OwnedBy, C!OwnedBy
  <2>3. \A m, d : CP!Capacity(m, d) = C!Capacity(m, d)
    BY DEF CP!Capacity, C!Capacity
  <2> QED
    BY <2>1, <2>2, <2>3
<1>3. CP!MovesOnlyByCapacity => MovesOnlyByCapacity
  BY <1>2, PTL DEF MovesOnlyByCapacity, C!MovesOnlyByCapacity, CP!MovesOnlyByCapacity
<1> QED
  BY <1>1, <1>3, RingSpec
==============================================================================
