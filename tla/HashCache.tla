------------------------------ MODULE HashCache ------------------------------
(***************************************************************************)
(* base::HashCache (src/base3/cache.h): a list of entries, the least       *)
(* recently used first, and a map from keys to their entries.              *)
(*                                                                         *)
(* One action is one critical section of mutex_.  Locate has two, with the *)
(* Creator between them.  Replace runs in the AsyncRunner that Insert has  *)
(* posted it to: it is pending as long as replacing_ is set.  Values are   *)
(* not told apart but by the entry that holds them.                        *)
(***************************************************************************)
EXTENDS Integers, Sequences, FiniteSets, SequencesExt

CONSTANTS Users,      \* the threads that use the cache
          Keys,       \* the keys they ask for
          CacheSize,  \* max_size_
          MaxInserts  \* bound of the model: calls of Insert

\* What is asked of the constants.
CacheAssumption == CacheSize \in Nat /\ MaxInserts \in Nat

VARIABLES
  list,       \* list_: entries, each with its key and its number
  map,        \* map_: the number of the entry of each key, 0 without one
  replacing,  \* replacing_
  creating,   \* creating[u]: the keys u's Locate is creating a value for
  inserted,   \* entries made so far: the number of the last one
  duplicated, \* history: an Insert has found an entry of its key
  erased      \* history: an Erase has removed a key since Replace is pending

cacheVars == <<list, map, replacing>>
vars == <<cacheVars, creating, inserted, duplicated, erased>>

Entries == [key : Keys, id : 1 .. MaxInserts]

Init ==
  /\ list = <<>> /\ map = [k \in Keys |-> 0]
  /\ replacing = FALSE
  /\ creating = [u \in Users |-> {}] /\ inserted = 0
  /\ duplicated = FALSE /\ erased = FALSE

Cached == {k \in Keys : map[k] # 0}
Size == Cardinality(Cached)

\* The bug of a test that does not see what Insert has just inserted.
EbaseedBefore(m) == Size > CacheSize /\ Size - CacheSize > CacheSize \div 10

\* ebaseed: a tenth over the limit.  It is read after Insert has inserted.
Ebaseed(m) ==
  LET size == Cardinality({k \in Keys : m[k] # 0})
  IN  size > CacheSize /\ size - CacheSize > CacheSize \div 10

EntryOf(k) == [key |-> k, id |-> map[k]]

\* Where the iterator that the map holds for k points, and list_.erase of it.
Position(k) == CHOOSE i \in DOMAIN list : list[i] = EntryOf(k)
Without(k) == RemoveAt(list, Position(k))

-----------------------------------------------------------------------------
\* Find, and Locate of a key that is cached: the entry moves to the end.
Touch(k) ==
  /\ k \in Cached
  /\ list' = Append(Without(k), EntryOf(k))
  /\ UNCHANGED <<map, replacing, creating, inserted, duplicated, erased>>

\* Locate of a key that is not: its Creator is called without the lock.
LocateMiss(u, k) ==
  /\ creating[u] = {} /\ k \notin Cached
  /\ creating' = [creating EXCEPT ![u] = {k}]
  /\ UNCHANGED <<cacheVars, inserted, duplicated, erased>>

CreateFails(u) ==
  /\ creating[u] # {}
  /\ creating' = [creating EXCEPT ![u] = {}]
  /\ UNCHANGED <<cacheVars, inserted, duplicated, erased>>

\* Insert, called by u: an entry of the same key stays in the list.
Insert(u, k) ==
  /\ inserted < MaxInserts
  /\ inserted' = inserted + 1
  /\ list' = Append(list, [key |-> k, id |-> inserted'])
  /\ map' = [map EXCEPT ![k] = inserted']
  /\ replacing' = (replacing \/ Ebaseed(map'))
  /\ duplicated' = (duplicated \/ k \in Cached)
  /\ UNCHANGED erased

InsertCreated(u) ==
  /\ creating[u] # {}
  /\ \E k \in creating[u] : Insert(u, k)
  /\ creating' = [creating EXCEPT ![u] = {}]

InsertGiven(u, k) ==
  /\ creating[u] = {}
  /\ Insert(u, k)
  /\ UNCHANGED creating

\* The bug of an Erase that leaves the entry in the list.
EraseMapOnly(k) ==
  /\ k \in Cached
  /\ map' = [map EXCEPT ![k] = 0]
  /\ erased' = (erased \/ replacing)
  /\ UNCHANGED <<list, replacing, creating, inserted, duplicated>>

Erase(k) ==
  /\ k \in Cached
  /\ list' = Without(k)
  /\ map' = [map EXCEPT ![k] = 0]
  /\ erased' = (erased \/ replacing)
  /\ UNCHANGED <<replacing, creating, inserted, duplicated>>

\* How many entries Replace erases.  With fewer keys than the limit the size_t
\* difference wraps; libstdc++'s advance takes it for a negative number and goes
\* back from the first entry, round the circle of the list and its end.
Count == (Size - CacheSize) % (Len(list) + 1)

Replace ==
  /\ replacing
  /\ LET dropped == {list[i].key : i \in 1 .. Count}
     IN  map' = [k \in Keys |-> IF k \in dropped THEN 0 ELSE map[k]]
  /\ list' = SubSeq(list, Count + 1, Len(list))
  /\ replacing' = FALSE /\ erased' = FALSE
  /\ UNCHANGED <<creating, inserted, duplicated>>

Next ==
  \/ \E k \in Keys : Touch(k) \/ Erase(k)
  \/ \E u \in Users, k \in Keys : LocateMiss(u, k) \/ InsertGiven(u, k)
  \/ \E u \in Users : InsertCreated(u) \/ CreateFails(u)
  \/ Replace

Spec == Init /\ [][Next]_vars
-----------------------------------------------------------------------------
TypeOK ==
  /\ list \in Seq(Entries) /\ map \in [Keys -> 0 .. MaxInserts]
  /\ replacing \in BOOLEAN
  /\ creating \in [Users -> SUBSET Keys] /\ inserted \in 0 .. MaxInserts
  /\ duplicated \in BOOLEAN /\ erased \in BOOLEAN

\* The map never holds an iterator of an entry that is gone, and of several
\* entries of a key it holds that of the last; every entry is in the map
\* unless two Locates, or an Insert, have inserted a key that was there.
ListMatchesMap ==
  /\ \A k \in Cached : \E i \in DOMAIN list :
        /\ list[i] = EntryOf(k)
        /\ \A j \in i + 1 .. Len(list) : list[j].key # k
  /\ ~ duplicated => \A i \in DOMAIN list : list[i] = EntryOf(list[i].key)

\* A Replace finds more keys than the limit, unless an Erase has come between
\* the Insert that posted it and the Replace.
ReplaceIsDue == replacing /\ ~ erased => Size > CacheSize

\* A cache a tenth over its limit is being cut back, unless a Replace that
\* met two entries of one key has removed too little; and the wrapped count,
\* that erases entries of a cache below its limit, needs an Erase.
OversizeIsAnswered ==
  /\ Ebaseed(map) => replacing \/ duplicated
  /\ ReplaceIsDue
=============================================================================
