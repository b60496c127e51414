---------------------------- MODULE ContinuumProofs ----------------------------
(***************************************************************************)
(* Proofs about Continuum, for all threads, targets, capacities and hash   *)
(* functions: which rings Rebuild may install over which, and that a hash  *)
(* only moves to a target that gains points or from one that loses some.   *)
(***************************************************************************)
EXTENDS Continuum, TLAPS

\* The part of TypeOK that the other invariants rest on.
Typed ==
  /\ desc_map \in Maps /\ built \in Maps
  /\ op \in [Clients -> Ops \cup {NoCall}] /\ at \in [Clients -> Places]
  /\ snapshot \in [Clients -> Maps]
  /\ version \in Nat /\ builtAt \in Nat
  /\ readAt \in [Clients -> Nat] /\ overtaken \in [Clients -> BOOLEAN]

\* The ring is one that Rebuild may make of the targets it was built from.
RingIsBuilt == ring \in Rings(built)

\* Nobody has read targets that are newer than those of now; a Rebuild that has
\* read targets older than those of the ring has been overtaken.
ReadsInOrder ==
  /\ builtAt <= version /\ \A c \in Clients : readAt[c] <= version
  /\ \A c \in Clients :
       op[c].kind = "rebuild" /\ at[c] \in {"reading", "nested", "sorted", "waiting"}
         => overtaken[c] \/ builtAt <= readAt[c]

\* The inductive invariant.
RingInv == Typed /\ RingIsBuilt /\ ReadsInOrder

-----------------------------------------------------------------------------
(* The invariant. *)

\* No targets are a map of targets.
LEMMA NoTargetsIsMap == NoTargets \in Maps
<1>1. NoTargets \in [{} -> Capacities]
  BY DEF NoTargets
<1> QED
  BY <1>1 DEF Maps

\* The invariant holds to begin with.
LEMMA InitInv ==
  ASSUME RingAssumption PROVE Init => RingInv
<1> SUFFICES ASSUME Init PROVE RingInv
  OBVIOUS
<1>2. Typed
  BY NoTargetsIsMap DEF Init, Typed, Ops, Places
<1>3. RingIsBuilt
  <2> DEFINE hash == [x \in {} |-> 0]
  <2>1. DOMAIN NoTargets = {}
    BY DEF NoTargets
  <2>2. Overlong(NoTargets) = {}
    BY <2>1 DEF Overlong
  <2>3. hash \in [Overlong(NoTargets) -> Hashes]
    BY <2>2
  <2>4. \A p : FoundAt(NoTargets, hash, p) = {}
    BY <2>1, <2>2 DEF FoundAt, OwnersOf
  <2> HIDE DEF hash
  <2>5. ring \in [{} -> Targets]
    BY DEF Init
  <2>6. ring \in RingsWith(NoTargets, hash)
    BY <2>4, <2>5 DEF RingsWith
  <2> QED
    BY <2>3, <2>6 DEF Init, RingIsBuilt, Rings
<1>4. ReadsInOrder
  BY DEF Init, ReadsInOrder
<1> QED
  BY <1>2, <1>3, <1>4 DEF RingInv

\* The targets after an Add or a Remove are targets with their capacities.
LEMMA EditedMaps ==
  ASSUME RingAssumption, Typed, NEW c \in Clients, Add(c) \/ Remove(c)
  PROVE  desc_map' \in Maps
<1>1. PICK D \in SUBSET Targets : desc_map \in [D -> Capacities]
  BY DEF Typed, Maps
<1>2. CASE Add(c)
  <2>1. op[c].desc \in Targets /\ op[c].capacity \in Capacities
    BY <1>2 DEF Add, Typed, Ops, NoCall
  <2>2. desc_map' \in [D \cup {op[c].desc} -> Capacities]
    BY <1>1, <1>2, <2>1 DEF Add
  <2> QED
    BY <2>1, <2>2 DEF Maps
<1>3. CASE Remove(c)
  <2>1. CASE op[c].kind = "clear"
    BY <1>3, <2>1, NoTargetsIsMap DEF Remove
  <2>2. CASE op[c].kind # "clear"
    <3> DEFINE E == D \ {op[c].desc}
    <3>1. desc_map' = [x \in E |-> desc_map[x]]
      BY <1>1, <1>3, <2>2 DEF Remove
    <3>2. desc_map' \in [E -> Capacities] /\ E \in SUBSET Targets
      BY <1>1, <3>1
    <3> QED
      BY <3>2 DEF Maps
  <2> QED
    BY <2>1, <2>2
<1> QED
  BY <1>2, <1>3

\* A section that only reads, or that edits the targets, keeps the ring; Swap
\* installs one that was made of the targets it names.
LEMMA ProceedKeeps ==
  ASSUME RingAssumption, RingInv, NEW c \in Clients, Proceed(c)
  PROVE  RingInv'
<1> USE DEF RingInv, Typed, Places
<1>1. CASE ReadSection(c)
  <2>1. Typed'
    BY <1>1 DEF ReadSection
  <2>2. RingIsBuilt'
    BY <1>1 DEF ReadSection, RingIsBuilt
  <2>3. ReadsInOrder'
    BY <1>1 DEF ReadSection, ReadsInOrder
  <2> QED
    BY <2>1, <2>2, <2>3
<1>2. CASE Nest(c) \/ Unnest(c) \/ ReadUnlock(c) \/ Wait(c) \/ WriteUnlock(c)
  <2>1. Typed'
    BY <1>2 DEF Nest, Unnest, ReadUnlock, Wait, WriteUnlock, Ended, history
  <2>2. RingIsBuilt'
    BY <1>2 DEF Nest, Unnest, ReadUnlock, Wait, WriteUnlock, history, RingIsBuilt
  <2>3. /\ UNCHANGED <<readAt, builtAt, version, overtaken>>
        /\ \A b \in Clients : b # c => at'[b] = at[b] /\ op'[b] = op[b]
        /\ op'[c].kind = "rebuild" /\ at'[c] \in {"reading", "nested", "sorted", "waiting"}
             => op[c].kind = "rebuild" /\ at[c] \in {"reading", "nested", "sorted", "waiting"}
    BY <1>2 DEF Nest, Unnest, ReadUnlock, Wait, WantsToWrite, WriteUnlock, Ended, history
  <2>4. ReadsInOrder'
    BY <2>3 DEF ReadsInOrder
  <2> QED
    BY <2>1, <2>2, <2>4
<1>3. CASE Add(c) \/ Remove(c)
  <2>1. desc_map' \in Maps
    BY <1>3, EditedMaps
  <2>2. Typed'
    BY <1>3, <2>1 DEF Add, Remove
  <2>3. RingIsBuilt'
    BY <1>3 DEF Add, Remove, RingIsBuilt
  <2>4. ReadsInOrder'
    BY <1>3 DEF Add, Remove, ReadsInOrder
  <2> QED
    BY <2>2, <2>3, <2>4
<1>4. CASE Swap(c)
  <2>1. Typed'
    BY <1>4 DEF Swap, Installed
  <2>2. RingIsBuilt'
    BY <1>4 DEF Swap, Installed, RingIsBuilt
  <2>3. ReadsInOrder'
    BY <1>4 DEF Swap, Installed, ReadsInOrder
  <2> QED
    BY <2>1, <2>2, <2>3
<1> QED
  BY <1>1, <1>2, <1>3, <1>4 DEF Proceed

\* Each step keeps the invariant.
LEMMA NextInv ==
  ASSUME RingAssumption PROVE RingInv /\ [Next]_vars => RingInv'
<1> SUFFICES ASSUME RingInv, [Next]_vars PROVE RingInv'
  OBVIOUS
<1>1. ASSUME NEW c \in Clients, NEW o \in Ops, Call(c, o) PROVE RingInv'
  <2> USE DEF RingInv, Typed, Places
  <2>1. Typed'
    BY <1>1 DEF Call, history
  <2>2. RingIsBuilt'
    BY <1>1 DEF Call, history, RingIsBuilt
  <2>3. ReadsInOrder'
    BY <1>1 DEF Call, history, ReadsInOrder
  <2> QED
    BY <2>1, <2>2, <2>3
<1>2. ASSUME NEW c \in Clients, Proceed(c) PROVE RingInv'
  BY <1>2, ProceedKeeps
<1>3. CASE UNCHANGED vars
  BY <1>3 DEF vars, callVars, history, RingInv, Typed, RingIsBuilt, ReadsInOrder
<1> QED
  BY <1>1, <1>2, <1>3 DEF Next

\* The invariant holds whatever the threads do.
THEOREM RingInvariant ==
  ASSUME RingAssumption PROVE Spec => []RingInv
BY InitInv, NextInv, PTL DEF Spec

-----------------------------------------------------------------------------
(* The order of the rings. *)

\* A ring made of older targets takes the place of a newer one only at the end
\* of a Rebuild that another one has overtaken between its two sections.
THEOREM OnlyOvertakenGoBack ==
  ASSUME RingAssumption PROVE Spec => BackOnlyIfOvertaken
<1>1. ASSUME RingInv, [Next]_vars, builtAt' # builtAt
      PROVE  builtAt' < builtAt =>
               \E c \in Clients : at[c] \in {"sorted", "waiting"} /\ at'[c] = "writing"
                                 /\ overtaken[c]
  <2>1. PICK c \in Clients : Swap(c)
    BY <1>1 DEF Next, Call, Proceed, ReadSection, Nest, Unnest, ReadUnlock, Wait,
                WriteUnlock, Ended, Add, Remove, history, vars, callVars
  <2>2. at[c] \in {"sorted", "waiting"} /\ at'[c] = "writing"
    BY <1>1, <2>1 DEF Swap, MayWrite, WantsToWrite, RingInv, Typed
  <2>3. overtaken[c] \/ builtAt <= builtAt'
    BY <1>1, <2>1, <2>2 DEF Swap, Installed, RingInv, ReadsInOrder
  <2> QED
    BY <1>1, <2>1, <2>2, <2>3 DEF RingInv, Typed, Swap, Installed
<1>2. RingInv /\ [Next]_vars =>
        [builtAt' < builtAt =>
           \E c \in Clients : at[c] \in {"sorted", "waiting"} /\ at'[c] = "writing"
                             /\ overtaken[c]]_builtAt
  BY <1>1
<1> QED
  BY <1>2, RingInvariant, PTL DEF Spec, BackOnlyIfOvertaken

-----------------------------------------------------------------------------
(* Where a hash goes. *)

\* lower_bound is decided by any two points that both rings have.
LEMMA SamePoint ==
  ASSUME NEW r, NEW s, NEW h \in Nat, NEW p \in Nat, NEW q \in Nat,
         Finds(r, h, p), Finds(s, h, q), q \in DOMAIN r, p \in DOMAIN s
  PROVE  p = q
<1>1. \/ p >= h /\ (q >= h => p <= q)
      \/ p < h /\ q < h /\ p <= q
  <2>1. CASE p >= h /\ \A x \in DOMAIN r : x >= h => p <= x
    BY <2>1
  <2>2. CASE \A x \in DOMAIN r : x < h /\ p <= x
    <3>1. p \in DOMAIN r
      BY DEF Finds
    <3> QED
      BY <2>2, <3>1
  <2> QED
    BY <2>1, <2>2 DEF Finds
<1>2. \/ q >= h /\ (p >= h => q <= p)
      \/ q < h /\ p < h /\ q <= p
  <2>1. CASE q >= h /\ \A x \in DOMAIN s : x >= h => q <= x
    BY <2>1
  <2>2. CASE \A x \in DOMAIN s : x < h /\ q <= x
    <3>1. q \in DOMAIN s
      BY DEF Finds
    <3> QED
      BY <2>2, <3>1
  <2> QED
    BY <2>1, <2>2 DEF Finds
<1> QED
  BY <1>1, <1>2

\* A capacity is a number.
LEMMA CapacityIsNat ==
  ASSUME RingAssumption, NEW m \in Maps, NEW d PROVE Capacity(m, d) \in Nat
<1>1. PICK D \in SUBSET Targets : m \in [D -> Capacities]
  BY DEF Maps
<1>2. CASE d \in DOMAIN m
  <2>1. m[d] \in Capacities
    BY <1>1, <1>2
  <2> QED
    BY <1>2, <2>1 DEF Capacity, RingAssumption
<1> QED
  BY <1>2 DEF Capacity

\* A target with as many points or more has all the points it had.
LEMMA PointsGrow ==
  ASSUME RingAssumption, NEW m \in Maps, NEW n \in Maps, NEW d \in DOMAIN m,
         NEW p \in Points(m, d), Capacity(n, d) >= Capacity(m, d)
  PROVE  d \in DOMAIN n /\ p \in Points(n, d)
<1>1. PICK k \in 0 .. m[d] - 1 : Fits(d, k) /\ p = PointOf(d, k)
  BY DEF Points
<1>2. m[d] \in Nat
  BY CapacityIsNat DEF Capacity
<1>3. d \in DOMAIN n
  BY <1>1, <1>2 DEF Capacity
<1>4. n[d] \in Nat
  BY <1>3, CapacityIsNat DEF Capacity
<1> QED
  BY <1>1, <1>2, <1>3, <1>4 DEF Capacity, Points

\* A ring has all the points whose name fits.
LEMMA RingHasPoints ==
  ASSUME RingAssumption, NEW m \in Maps, NEW r \in Rings(m), NEW d \in DOMAIN m,
         NEW p \in Points(m, d)
  PROVE  p \in DOMAIN r
<1>1. PICK hash \in [Overlong(m) -> Hashes] : r \in RingsWith(m, hash)
  BY DEF Rings
<1>2. PICK D \in SUBSET Targets : m \in [D -> Capacities]
  BY DEF Maps
<1>3. p \in Hashes
  <2>1. PICK k \in 0 .. m[d] - 1 : Fits(d, k) /\ p = PointOf(d, k)
    BY DEF Points
  <2>2. d \in Targets /\ m[d] \in Capacities /\ m[d] \in Nat
    BY <1>2 DEF RingAssumption
  <2>3. k \in 0 .. m[d]
    BY <2>2
  <2> QED
    BY <2>1, <2>2, <2>3 DEF RingAssumption
<1>4. FoundAt(m, hash, p) # {}
  BY DEF FoundAt, OwnersOf
<1> QED
  BY <1>1, <1>3, <1>4 DEF RingsWith

\* The core of consistent hashing, about any two rings.
LEMMA MovesByCapacity ==
  ASSUME RingAssumption, NEW m \in Maps, NEW n \in Maps,
         NEW r \in Rings(m), NEW s \in Rings(n),
         NEW h \in Hashes, NEW p \in Hashes, NEW q \in Hashes,
         NEW d \in Targets, NEW e \in Targets,
         Finds(r, h, p), OwnedBy(m, p, d), Finds(s, h, q), OwnedBy(n, q, e),
         Capacity(n, e) <= Capacity(m, e), Capacity(n, d) >= Capacity(m, d)
  PROVE  d = e
<1>1. /\ d \in DOMAIN m /\ p \in Points(m, d)
      /\ e \in DOMAIN n /\ q \in Points(n, e)
  BY DEF OwnedBy, OwnersOf
<1>2. d \in DOMAIN n /\ p \in Points(n, d)
  BY <1>1, PointsGrow
<1>3. e \in DOMAIN m /\ q \in Points(m, e)
  <2>1. Capacity(m, e) >= Capacity(n, e)
    <3>1. Capacity(m, e) \in Nat /\ Capacity(n, e) \in Nat
      BY CapacityIsNat
    <3> QED
      BY <3>1
  <2> QED
    BY <1>1, <2>1, PointsGrow
<1>4. q \in DOMAIN r /\ p \in DOMAIN s
  BY <1>2, <1>3, RingHasPoints
<1>5. p = q
  BY <1>4, SamePoint DEF RingAssumption
<1> QED
  BY <1>3, <1>5 DEF OwnedBy, OwnersOf

\* What Locate is for, for any hash function: a hash goes to another target
\* only if that one gains points or the other loses some, equal points apart.
THEOREM HashesStay ==
  ASSUME RingAssumption PROVE Spec => MovesOnlyByCapacity
<1>1. ASSUME RingInv, RingInv',
             NEW h \in Hashes, NEW p \in Hashes, NEW q \in Hashes,
             NEW d \in Targets, NEW e \in Targets,
             Finds(ring, h, p), OwnedBy(built, p, d),
             Finds(ring', h, q), OwnedBy(built', q, e), d # e
      PROVE  \/ Capacity(built', e) > Capacity(built, e)
             \/ Capacity(built', d) < Capacity(built, d)
  <2>1. /\ built \in Maps /\ built' \in Maps
        /\ ring \in Rings(built) /\ ring' \in Rings(built')
    BY <1>1 DEF RingInv, Typed, RingIsBuilt
  <2>2. /\ Capacity(built, d) \in Nat /\ Capacity(built', d) \in Nat
        /\ Capacity(built, e) \in Nat /\ Capacity(built', e) \in Nat
    BY <2>1, CapacityIsNat
  <2> QED
    BY <1>1, <2>1, <2>2, MovesByCapacity
<1>2. RingInv /\ RingInv' => [ring' # ring =>
       \A h, p, q \in Hashes, d, e \in Targets :
         (/\ Finds(ring, h, p) /\ ring[p] = d /\ OwnedBy(built, p, d)
          /\ Finds(ring', h, q) /\ ring'[q] = e /\ OwnedBy(built', q, e)
          /\ d # e)
         => \/ Capacity(built', e) > Capacity(built, e)
            \/ Capacity(built', d) < Capacity(built, d)]_<<ring, built>>
  BY <1>1
<1> QED
  BY <1>2, RingInvariant, PTL DEF MovesOnlyByCapacity
=============================================================================
