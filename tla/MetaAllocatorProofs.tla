------------------------- MODULE MetaAllocatorProofs -------------------------
(***************************************************************************)
(* The safety of the lock files of MetaAllocator for every set of threads  *)
(* and processes and all sizes, and that the bundles implement             *)
(* AppendOnlyStore where the limit of a bundle fits into an int.           *)
(***************************************************************************)
EXTENDS MetaAllocator, TLAPS

Places == {"idle", "stat", "lock", "restat", "unlock", "next", "bump", "reset",
           "rewind", "store", "writing", "written"}

\* The part of TypeOK that the other invariants rest on.
Typed ==
  /\ home \in [Threads -> Processes]
  /\ last_id \in [Processes -> Ids] /\ current_stage \in [Processes -> Nat]
  /\ pc \in [Threads -> Places] /\ id \in [Threads -> Ids]
  /\ request \in [Threads -> Nat] /\ offset \in [Threads -> Int]
  /\ size \in [Ids -> Int]
  /\ pieces \subseteq [bundle : Ids, from : Int, to : Int]

\* Who holds a bundle, and that nobody else changes its size.
Locking == Typed /\ OneHolder /\ OffsetIsEnd

\* Every file has its header, and every piece lies inside its file.
Contents ==
  /\ \A b \in Ids : size[b] = NoFile \/ size[b] >= HeaderSize
  /\ \A x \in pieces : x.to <= size[x.bundle]

\* The offset of a Writer survives the conversion to an int.
InRange ==
  \A t \in Threads :
    pc[t] \in {"store", "writing"}
      => offset[t] \in 1 .. Int32Max

\* A search or a Writer is for at least one block.
Requested == \A t \in Threads : pc[t] # "idle" => request[t] \in Nat \ {0}

-----------------------------------------------------------------------------
\* The lock invariant holds to begin with.
LEMMA InitLocking == Init => Locking
  BY AllocatorAssumption
  DEF Init, Locking, Typed, OneHolder, OffsetIsEnd, Holds, Places, Ids, NoFile

\* A step of a thread that neither takes nor gives up a lock, nor changes a
\* size, leaves the holders as they are.
LEMMA SearchesOn ==
  ASSUME Locking, NEW t \in Threads,
         pc[t] \notin {"restat", "unlock", "store", "writing", "written"},
         Typed',
         \E place \in Places \ {"restat", "unlock", "store", "writing",
                                "written"} : pc' = [pc EXCEPT ![t] = place],
         \A u \in Threads \ {t} : id'[u] = id[u] /\ offset'[u] = offset[u],
         UNCHANGED <<locked, size>>
  PROVE  Locking'
<1>1. OneHolder'
  BY DEF Locking, Typed, OneHolder, Holds
<1>2. OffsetIsEnd'
  BY DEF Locking, Typed, OffsetIsEnd
<1>3. QED
  BY <1>1, <1>2 DEF Locking

-----------------------------------------------------------------------------
\* Each step keeps the types.
LEMMA TypedNext == Typed /\ [Next]_vars => Typed'
<1> SUFFICES ASSUME Typed, [Next]_vars PROVE Typed'
  OBVIOUS
<1> USE AllocatorAssumption DEF Typed, Places
<1>1. ASSUME NEW t \in Threads, NEW n \in RequestSizes, Allocate(t, n)
      PROVE  Typed'
  BY <1>1 DEF Allocate, Goto, processVars, diskVars
<1>2. ASSUME NEW t \in Threads, Stat(t) \/ Lock(t) \/ Unlock(t) \/ Store(t)
      PROVE  Typed'
  BY <1>2 DEF Stat, Lock, Unlock, Store, Goto, processVars, diskVars
<1>3. ASSUME NEW t \in Threads, Restat(t) PROVE Typed'
  BY <1>3 DEF Restat, Take, Goto, processVars
<1>4. ASSUME NEW t \in Threads, NextId(t) PROVE Typed'
  <2>1. id' \in [Threads -> Ids]
    BY <1>4 DEF NextId, Ids
  <2>2. QED
    BY <1>4, <2>1 DEF NextId, Goto, processVars, diskVars
<1>5. ASSUME NEW t \in Threads, Bump(t) \/ Reset(t) PROVE Typed'
  <2>1. current_stage' \in [Processes -> Nat] /\ id' \in [Threads -> Ids]
    <3>1. CASE Bump(t)
      BY <3>1 DEF Bump
    <3>2. CASE Reset(t)
      BY <3>2, 0 \in Ids DEF Reset, Ids
    <3>3. QED
      BY <1>5, <3>1, <3>2
  <2>2. pc' \in [Threads -> Places]
    BY <1>5 DEF Bump, Reset, Goto
  <2>3. QED
    BY <1>5, <2>1, <2>2 DEF Bump, Reset, diskVars
<1>6. ASSUME NEW t \in Threads, Rewind(t) PROVE Typed'
  <2>1. StageSize * current_stage[home[t]] \in Ids
    <3>1. current_stage[home[t]] \in Nat
      OBVIOUS
    <3>2. \A m, n \in Nat : m * n \in Nat
      BY SMT
    <3>3. StageSize * current_stage[home[t]] \in Nat
      BY <3>1, <3>2
    <3>4. QED
      BY <1>6, <3>3 DEF Rewind, Ids
  <2>2. QED
    BY <1>6, <2>1 DEF Rewind, Goto, processVars, diskVars
<1>7. ASSUME NEW t \in Threads, Write(t) PROVE Typed'
  <2>1. IntOffset(t) \in Int
    BY DEF IntOffset, AsInt
  <2>2. QED
    BY <1>7, <2>1 DEF Write, Goto, processVars
<1>8. ASSUME NEW t \in Threads, Return(t) PROVE Typed'
  <2>1. /\ pc' \in [Threads -> Places] /\ id' \in [Threads -> Ids]
        /\ request' \in [Threads -> Nat] /\ offset' \in [Threads -> Int]
    BY <1>8 DEF Return, Leave, Ids
  <2>2. QED
    BY <1>8, <2>1 DEF Return, processVars
<1>9. ASSUME NEW p \in Processes, Crash(p) PROVE Typed'
  <2>1. /\ pc' \in [Threads -> Places] /\ id' \in [Threads -> Ids]
        /\ request' \in [Threads -> Nat] /\ offset' \in [Threads -> Int]
    BY <1>9 DEF Crash, Leave, Ids
  <2>2. /\ last_id' \in [Processes -> Ids]
        /\ current_stage' \in [Processes -> Nat]
    BY <1>9 DEF Crash, Ids
  <2>3. QED
    BY <1>9, <2>1, <2>2 DEF Crash, diskVars
<1>10. CASE UNCHANGED vars
  BY <1>10 DEF vars, processVars, threadVars, diskVars
<1>11. QED
  BY <1>1, <1>2, <1>3, <1>4, <1>5, <1>6, <1>7, <1>8, <1>9, <1>10
  DEF Next, Search

\* The one step that takes a bundle: O_EXCL says that nobody else has it.
LEMMA LockTakes ==
  ASSUME Locking, Typed', NEW t \in Threads, Lock(t)
  PROVE  Locking'
<1>1. OneHolder'
  BY DEF Locking, Typed, OneHolder, Holds, Lock, Goto
<1>2. OffsetIsEnd'
  BY DEF Locking, Typed, OffsetIsEnd, Lock, Goto
<1>3. QED
  BY <1>1, <1>2 DEF Locking

\* A holder changes the size of its own bundle, which no other thread has an
\* offset for.
LEMMA HolderKeeps ==
  ASSUME Locking, Typed', NEW t \in Threads, Restat(t) \/ Store(t) \/ Write(t)
  PROVE  Locking'
<1>1. OneHolder'
  <2>1. /\ Holds(t) /\ id' = id /\ locked' = locked
        /\ \E place \in Places : pc' = [pc EXCEPT ![t] = place]
    BY DEF Restat, Take, Store, Write, Goto, Holds, Places, diskVars
  <2>2. \A u \in Threads : Holds(u)' => Holds(u)
    BY <2>1 DEF Locking, Typed, Holds
  <2>3. QED
    BY <2>1, <2>2 DEF Locking, OneHolder
<1>2. OffsetIsEnd'
  <2>1. ASSUME NEW u \in Threads \ {t}, pc[u] \in {"store", "writing"}
        PROVE  size'[id[u]] = size[id[u]]
    BY <2>1 DEF Locking, Typed, OneHolder, Holds, Restat, Store, Write,
                diskVars
  <2>2. CASE Restat(t)
    BY <2>1, <2>2, AllocatorAssumption
    DEF Locking, Typed, OffsetIsEnd, Restat, Take, Goto, NoFile
  <2>3. CASE Store(t) \/ Write(t)
    BY <2>1, <2>3 DEF Locking, Typed, OffsetIsEnd, Store, Write, Goto, diskVars
  <2>4. QED
    BY <2>2, <2>3
<1>3. QED
  BY <1>1, <1>2 DEF Locking

\* A lock file is removed by the thread that holds it, which lets go of the
\* bundle in the same step.
LEMMA HolderLeaves ==
  ASSUME Locking, Typed', NEW t \in Threads, Unlock(t) \/ Return(t)
  PROVE  Locking'
<1>1. OneHolder'
  <2>1. Holds(t) /\ locked' = locked \ {id[t]}
    BY DEF Unlock, Return, Holds
  <2>2. \A u \in Threads :
          Holds(u)' => u # t /\ Holds(u) /\ id'[u] = id[u]
    BY DEF Locking, Typed, Unlock, Return, Leave, Goto, Holds
  <2>3. QED
    BY <2>1, <2>2 DEF Locking, OneHolder
<1>2. OffsetIsEnd'
  BY DEF Locking, Typed, OffsetIsEnd, Unlock, Return, Leave, Goto
<1>3. QED
  BY <1>1, <1>2 DEF Locking

\* A dead process holds nothing, and the files stay as they are.
LEMMA CrashKeeps ==
  ASSUME Locking, Typed', NEW p \in Processes, Crash(p)
  PROVE  Locking'
<1>1. OneHolder'
  BY DEF Locking, Typed, OneHolder, Holds, Crash, Leave, diskVars
<1>2. OffsetIsEnd'
  BY DEF Locking, Typed, OffsetIsEnd, Crash, Leave, diskVars
<1>3. QED
  BY <1>1, <1>2 DEF Locking

\* Each step keeps the lock invariant.
LEMMA NextLocking == Locking /\ [Next]_vars => Locking'
<1> SUFFICES ASSUME Locking, [Next]_vars PROVE Locking'
  OBVIOUS
<1>1. Typed'
  BY TypedNext DEF Locking
<1>2. ASSUME NEW t \in Threads, NEW n \in RequestSizes, Allocate(t, n)
      PROVE  Locking'
  <2>1. /\ pc[t] = "idle" /\ pc' = [pc EXCEPT ![t] = "stat"]
        /\ UNCHANGED <<locked, size>>
    BY <1>2 DEF Allocate, Goto, diskVars
  <2>2. \A u \in Threads \ {t} : id'[u] = id[u] /\ offset'[u] = offset[u]
    BY <1>2 DEF Allocate, Locking, Typed
  <2>3. QED
    BY <1>1, <2>1, <2>2, SearchesOn DEF Places
<1>3. ASSUME NEW t \in Threads,
             Stat(t) \/ NextId(t) \/ Bump(t) \/ Reset(t) \/ Rewind(t)
      PROVE  Locking'
  <2>1. /\ pc[t] \in {"stat", "next", "bump", "reset", "rewind"}
        /\ \E place \in {"stat", "lock", "next", "bump", "reset", "rewind"} :
             pc' = [pc EXCEPT ![t] = place]
        /\ UNCHANGED <<locked, size>>
    BY <1>3 DEF Stat, NextId, Bump, Reset, Rewind, Goto, diskVars
  <2>2. \A u \in Threads \ {t} : id'[u] = id[u] /\ offset'[u] = offset[u]
    BY <1>3 DEF Stat, NextId, Bump, Reset, Rewind, Locking, Typed
  <2>3. QED
    BY <1>1, <2>1, <2>2, SearchesOn DEF Places
<1>4. CASE UNCHANGED vars
  BY <1>1, <1>4 DEF Locking, OneHolder, OffsetIsEnd, Holds, vars, threadVars,
                    diskVars
<1>5. QED
  BY <1>1, <1>2, <1>3, <1>4, LockTakes, HolderKeeps, HolderLeaves, CrashKeeps
  DEF Next, Search

\* One caller at a time has the lock of the file, whatever is removed meanwhile.
THEOREM LockingHolds == Spec => []Locking
  BY InitLocking, NextLocking, PTL DEF Spec

\* Whatever the interleaving, no bundle is in the hands of two threads, of one
\* process or of two, and every held bundle has its lock file: O_EXCL in
\* FileLock::Lock, with no removal by anybody but the holder.
THEOREM OneHolderHolds == Spec => []OneHolder
  BY LockingHolds, PTL DEF Locking

\* The size that Allocate takes under the lock is the end of the file until
\* the Writer writes.
THEOREM OffsetIsEndHolds == Spec => []OffsetIsEnd
  BY LockingHolds, PTL DEF Locking

-----------------------------------------------------------------------------
(* The bundles. *)

\* All that a step can do to the bundles: a holder without an offset makes a
\* new file, and a Writer writes.
LEMMA FilesGrow ==
  ASSUME Locking, [Next]_vars
  PROVE  \/ UNCHANGED <<size, pieces>>
         \/ \E t \in Threads : Restat(t)
         \/ \E t \in Threads : Write(t)
  BY DEF Next, Search, Allocate, Stat, Lock, Unlock, NextId, Bump, Reset,
         Rewind, Store, Return, Crash, vars, diskVars

\* Each step keeps what is in the file.
LEMMA NextContents ==
  ASSUME Locking, Locking', Contents, [Next]_vars
  PROVE  Contents'
<1> USE AllocatorAssumption
<1>1. CASE UNCHANGED <<size, pieces>>
  BY <1>1 DEF Contents
<1>2. ASSUME NEW t \in Threads, Restat(t) PROVE Contents'
  <2>1. pieces' = pieces
    BY <1>2 DEF Restat
  <2>2. \A b \in Ids :
          size'[b] = size[b] \/ (size[b] = NoFile /\ size'[b] = HeaderSize)
    <3>1. \/ size' = size
          \/ /\ size[id[t]] = NoFile
             /\ size' = [size EXCEPT ![id[t]] = HeaderSize]
      BY <1>2 DEF Restat
    <3>2. id[t] \in Ids /\ size \in [Ids -> Int]
      BY DEF Locking, Typed
    <3>3. QED
      BY <3>1, <3>2
  <2>3. \A x \in pieces : x.to \in Int /\ x.bundle \in Ids
    BY DEF Locking, Typed
  <2>4. QED
    BY <2>1, <2>2, <2>3 DEF Contents, Locking, Typed, NoFile
<1>3. ASSUME NEW t \in Threads, Write(t) PROVE Contents'
  <2>1. CASE UNCHANGED <<size, pieces>>
    BY <2>1 DEF Contents
  <2>2. CASE IntOffset(t) > 0 /\ size[id[t]] # NoFile
    <3> DEFINE end == IntOffset(t) + request[t]
               x == [bundle |-> id[t], from |-> IntOffset(t), to |-> end]
    <3>1. /\ pieces' = pieces \cup {x}
          /\ size' = [size EXCEPT ![id[t]] =
                        IF end > size[id[t]] THEN end ELSE size[id[t]]]
      BY <1>3, <2>2 DEF Write
    <3>2. id[t] \in Ids /\ IntOffset(t) \in Int /\ end \in Int
      BY DEF Locking, Typed, IntOffset, AsInt
    <3>3. \A b \in Ids : size'[b] \in Int /\ size[b] \in Int
                        /\ size'[b] >= size[b]
      BY <3>1, <3>2 DEF Locking, Typed
    <3>4. size'[id[t]] >= end
      BY <3>1, <3>2 DEF Locking, Typed
    <3>5. ASSUME NEW y \in pieces' PROVE y.to <= size'[y.bundle]
      <4>1. CASE y = x
        BY <3>4, <4>1
      <4>2. CASE y \in pieces
        BY <3>3, <4>2 DEF Contents, Locking, Typed
      <4>3. QED
        BY <3>1, <4>1, <4>2
    <3>6. ASSUME NEW b \in Ids
          PROVE  size'[b] = NoFile \/ size'[b] >= HeaderSize
      BY <3>1, <3>3, <2>2 DEF Contents, Locking, Typed
    <3>7. QED
      BY <3>5, <3>6 DEF Contents
  <2>3. QED
    BY <1>3, <2>1, <2>2 DEF Write
<1>4. QED
  BY <1>1, <1>2, <1>3, FilesGrow

\* What an allocation asks for is kept until its Writer is returned.
LEMMA NextRequested ==
  ASSUME Locking, Requested, [Next]_vars
  PROVE  Requested'
<1> USE AllocatorAssumption DEF Locking, Typed, Requested
<1>1. ASSUME NEW t \in Threads, NEW n \in RequestSizes, Allocate(t, n)
      PROVE  Requested'
  BY <1>1 DEF Allocate, Goto
<1>2. ASSUME NEW t \in Threads, Search(t) \/ Write(t) PROVE Requested'
  <2>1. /\ pc[t] # "idle" /\ request' = request
        /\ \A u \in Threads \ {t} : pc'[u] = pc[u]
    BY <1>2 DEF Search, Stat, Lock, Restat, Take, Unlock, NextId, Bump, Reset,
                Rewind, Store, Write, Goto
  <2>2. QED
    BY <2>1
<1>3. ASSUME NEW t \in Threads, Return(t) PROVE Requested'
  BY <1>3 DEF Return, Leave
<1>4. ASSUME NEW p \in Processes, Crash(p) PROVE Requested'
  BY <1>4 DEF Crash, Leave
<1>5. CASE UNCHANGED vars
  BY <1>5 DEF vars, threadVars
<1>6. QED
  BY <1>1, <1>2, <1>3, <1>4, <1>5 DEF Next

\* The limit of a bundle is one that an int can express: no overflow.
LimitFits == kMaxBundleSize \in 0 .. Int32Max + 1

\* The inductive invariant: the lock's, and the bundles, requests and offsets.
Stored == Locking /\ Contents /\ Requested /\ InRange

\* It holds to begin with.
LEMMA InitStored == Init => Stored
<1> SUFFICES ASSUME Init PROVE Stored
  OBVIOUS
<1>1. Locking
  BY InitLocking
<1>2. Contents
  BY AllocatorAssumption DEF Init, Contents, NoFile
<1>3. Requested /\ InRange
  BY DEF Init, Requested, InRange
<1>4. QED
  BY <1>1, <1>2, <1>3 DEF Stored

\* Every offset comes from a size that passed the second comparison, or is the
\* end of the header of a new file.
LEMMA NextInRange ==
  ASSUME LimitFits, Stored, [Next]_vars
  PROVE  InRange'
<1> USE AllocatorAssumption DEF InRange, Stored, Locking, Typed
<1>1. ASSUME NEW t \in Threads, Restat(t) PROVE InRange'
  <2>1. /\ id[t] \in Ids /\ request[t] \in Nat \ {0}
        /\ \A u \in Threads \ {t} : pc'[u] = pc[u] /\ offset'[u] = offset[u]
    BY <1>1 DEF Restat, Take, Goto, Requested
  <2>2. ASSUME NEW n \in Int, n >= 1, Take(t, n)
        PROVE  pc'[t] = "store" => offset'[t] \in 1 .. Int32Max
    BY <2>1, <2>2 DEF Take, Goto, LimitFits
  <2>3. pc'[t] \in {"store", "unlock"}
    BY <1>1 DEF Restat, Take, Goto
  <2>4. pc'[t] = "store" => offset'[t] \in 1 .. Int32Max
    <3>1. CASE offset' = [offset EXCEPT ![t] = HeaderSize]
      BY <3>1
    <3>2. CASE \E left \in 1 .. Int32Max : Take(t, left)
      BY <2>2, <3>2
    <3>3. CASE size[id[t]] # NoFile /\ Take(t, size[id[t]])
      BY <2>1, <2>2, <3>3 DEF Contents
    <3>4. QED
      BY <1>1, <3>1, <3>2, <3>3 DEF Restat
  <2>5. QED
    BY <2>1, <2>3, <2>4
<1>2. ASSUME NEW t \in Threads, Store(t) PROVE InRange'
  BY <1>2 DEF Store, Goto
<1>3. ASSUME NEW t \in Threads, NEW n \in RequestSizes, Allocate(t, n)
      PROVE  InRange'
  BY <1>3 DEF Allocate, Goto
<1>4. ASSUME NEW t \in Threads,
             \/ Stat(t) \/ Lock(t) \/ Unlock(t) \/ NextId(t) \/ Bump(t)
             \/ Reset(t) \/ Rewind(t) \/ Write(t)
      PROVE  InRange'
  <2>1. /\ offset' = offset /\ pc'[t] \notin {"store", "writing"}
        /\ \A u \in Threads \ {t} : pc'[u] = pc[u]
    BY <1>4 DEF Stat, Lock, Unlock, NextId, Bump, Reset, Rewind, Write, Goto
  <2>2. QED
    BY <2>1
<1>5. ASSUME NEW t \in Threads, Return(t) PROVE InRange'
  BY <1>5 DEF Return, Leave
<1>6. ASSUME NEW p \in Processes, Crash(p) PROVE InRange'
  BY <1>6 DEF Crash, Leave
<1>7. CASE UNCHANGED vars
  BY <1>7 DEF vars, threadVars
<1>8. QED
  BY <1>1, <1>2, <1>3, <1>4, <1>5, <1>6, <1>7 DEF Next, Search

\* Each step keeps it.
LEMMA NextStored ==
  ASSUME LimitFits
  PROVE  Stored /\ [Next]_vars => Stored'
  BY NextLocking, NextContents, NextRequested, NextInRange DEF Stored

\* What is stored is in order as long as the limit fits an int.
THEOREM StoredHolds == LimitFits => (Spec => []Stored)
<1> SUFFICES ASSUME LimitFits PROVE Spec => []Stored
  OBVIOUS
<1>1. QED
  BY InitStored, NextStored, PTL DEF Spec

\* Every upload fits into a new bundle, whose size is not compared again.
NewBundleFits == \A n \in RequestSizes : HeaderSize + n <= Int32Max + 1

\* The end of what a Writer is about to write is an offset that an int holds.
EndInRange ==
  \A t \in Threads :
    /\ pc[t] # "idle" => request[t] \in RequestSizes
    /\ pc[t] \in {"store", "writing"} => offset[t] + request[t] <= Int32Max + 1

\* Restat compares the end with the limit, or counts from the header.
LEMMA NextEndInRange ==
  ASSUME LimitFits, NewBundleFits, Stored, EndInRange, [Next]_vars
  PROVE  EndInRange'
<1> USE AllocatorAssumption DEF EndInRange, Stored, Locking, Typed
<1>1. ASSUME NEW t \in Threads, Restat(t) PROVE EndInRange'
  <2>1. /\ id[t] \in Ids /\ request[t] \in RequestSizes /\ request' = request
        /\ pc'[t] \in {"store", "unlock"}
        /\ \A u \in Threads \ {t} : pc'[u] = pc[u] /\ offset'[u] = offset[u]
    BY <1>1 DEF Restat, Take, Goto
  <2>2. ASSUME NEW n \in Int, Take(t, n)
        PROVE  pc'[t] = "store" => offset'[t] + request[t] <= Int32Max + 1
    BY <2>1, <2>2 DEF Take, Goto, LimitFits, Requested
  <2>3. pc'[t] = "store" => offset'[t] + request[t] <= Int32Max + 1
    <3>1. CASE offset' = [offset EXCEPT ![t] = HeaderSize]
      BY <2>1, <3>1 DEF NewBundleFits
    <3>2. CASE \E left \in 1 .. Int32Max : Take(t, left)
      BY <2>2, <3>2
    <3>3. CASE Take(t, size[id[t]])
      BY <2>1, <2>2, <3>3
    <3>4. QED
      BY <1>1, <3>1, <3>2, <3>3 DEF Restat
  <2>4. QED
    BY <2>1, <2>3
<1>2. ASSUME NEW t \in Threads, Store(t) PROVE EndInRange'
  BY <1>2 DEF Store, Goto
<1>3. ASSUME NEW t \in Threads, NEW n \in RequestSizes, Allocate(t, n)
      PROVE  EndInRange'
  BY <1>3 DEF Allocate, Goto
<1>4. ASSUME NEW t \in Threads,
             \/ Stat(t) \/ Lock(t) \/ Unlock(t) \/ NextId(t) \/ Bump(t)
             \/ Reset(t) \/ Rewind(t) \/ Write(t)
      PROVE  EndInRange'
  <2>1. /\ offset' = offset /\ request' = request /\ pc[t] # "idle"
        /\ pc'[t] \notin {"store", "writing"}
        /\ \A u \in Threads \ {t} : pc'[u] = pc[u]
    BY <1>4 DEF Stat, Lock, Unlock, NextId, Bump, Reset, Rewind, Write, Goto
  <2>2. QED
    BY <2>1
<1>5. ASSUME NEW t \in Threads, Return(t) PROVE EndInRange'
  BY <1>5 DEF Return, Leave
<1>6. ASSUME NEW p \in Processes, Crash(p) PROVE EndInRange'
  BY <1>6 DEF Crash, Leave
<1>7. CASE UNCHANGED vars
  BY <1>7 DEF vars, threadVars
<1>8. QED
  BY <1>1, <1>2, <1>3, <1>4, <1>5, <1>6, <1>7 DEF Next, Search

\* Every Writer can be used, its last byte included, where the limit of a
\* bundle has not overflowed and a new bundle has room for any upload.
THEOREM WritersAreUsable ==
  LimitFits /\ NewBundleFits => (Spec => []AllocatedIsWritable)
<1> SUFFICES ASSUME LimitFits, NewBundleFits PROVE Spec => []AllocatedIsWritable
  OBVIOUS
<1>1. Init => EndInRange
  BY DEF Init, EndInRange
<1>2. Stored /\ EndInRange /\ [Next]_vars => EndInRange'
  BY NextEndInRange
<1>3. EndInRange => AllocatedIsWritable
  BY DEF EndInRange, AllocatedIsWritable
<1> QED
  BY InitStored, NextStored, <1>1, <1>2, <1>3, PTL DEF Spec

\* The conversion of the offset to an int changes nothing in this range.
LEMMA OffsetSurvives ==
  ASSUME NEW t \in Threads, offset[t] \in 1 .. Int32Max
  PROVE  IntOffset(t) = offset[t]
<1>1. \A m \in Nat \ {0}, n \in Nat : n < m => n % m = n
  BY SMT
<1>2. offset[t] % (2 * (Int32Max + 1)) = offset[t]
  <2>1. /\ 2 * (Int32Max + 1) \in Nat \ {0} /\ offset[t] \in Nat
        /\ offset[t] < 2 * (Int32Max + 1)
    BY AllocatorAssumption
  <2>2. QED
    BY <1>1, <2>1
<1>3. QED
  BY <1>2, AllocatorAssumption DEF IntOffset, AsInt

\* A Writer appends: its piece is not empty and lies behind all the pieces of
\* its bundle.
LEMMA WriteAppends ==
  ASSUME Stored, [Next]_vars
  PROVE  [Bundles!Next]_pieces
<1> USE AllocatorAssumption
<1>1. ASSUME NEW t \in Threads, Write(t), pieces' # pieces
      PROVE  Bundles!Next
  <2> DEFINE x == [bundle |-> id[t], from |-> IntOffset(t),
                   to |-> IntOffset(t) + request[t]]
  <2>1. /\ pc[t] = "writing" /\ size[id[t]] # NoFile
        /\ pieces' = pieces \cup {x}
    BY <1>1 DEF Write
  <2>2. /\ offset[t] \in 1 .. Int32Max /\ offset[t] = size[id[t]]
        /\ request[t] \in Nat \ {0}
    BY <2>1 DEF Stored, InRange, Requested, Locking, OffsetIsEnd
  <2>3. IntOffset(t) = offset[t]
    BY <2>2, OffsetSurvives
  <2>4. x \in pieces' \ pieces
    BY <1>1, <2>1
  <2>5. x.from < x.to
    BY <2>2, <2>3
  <2>6. \A y \in pieces : Bundles!Behind(x, y)
    BY <2>2, <2>3 DEF Bundles!Behind, Stored, Contents
  <2>7. QED
    BY <2>1, <2>4, <2>5, <2>6 DEF Bundles!Next, Bundles!Append
<1>2. ASSUME NEW t \in Threads, Restat(t) PROVE pieces' = pieces
  BY <1>2 DEF Restat
<1>3. QED
  BY <1>1, <1>2, FilesGrow DEF Stored

\* The bundles implement an append-only store: no piece is ever overwritten,
\* where the limit of a bundle fits into an int.
THEOREM ImplementsAppendOnlyStore == LimitFits => (Spec => StoreSpec)
<1> SUFFICES ASSUME LimitFits PROVE Spec => StoreSpec
  OBVIOUS
<1>1. Init => Bundles!Init
  BY DEF Init, Bundles!Init
<1>2. QED
  BY <1>1, StoredHolds, WriteAppends, PTL
  DEF Spec, StoreSpec, Bundles!Spec
=============================================================================
