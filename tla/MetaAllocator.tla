---------------------------- MODULE MetaAllocator ----------------------------
(***************************************************************************)
(* plate::MetaAllocator (src/plate/metaimpl.cc): threads of several server *)
(* processes append uploads to numbered bundle files on a shared file      *)
(* system.  A lock file per number, made with O_EXCL (src/plate/fslock.h), *)
(* keeps the others off; last_id_ and current_stage_ are shared by the     *)
(* threads of a process only.                                              *)
(*                                                                         *)
(* Sizes are in blocks of 1K, the unit bundles are aligned to; the size of *)
(* a request includes its file header.  One date, hence one file per       *)
(* number.  One action is one system call or one atomic access.            *)
(***************************************************************************)
EXTENDS Integers, FiniteSets

CONSTANTS Threads, Processes,
          StageSize,       \* kStageSize
          MaxStage,        \* kMaxCount / kStageSize
          Int32Max,        \* the largest offset an int can hold
          SizeTMax,        \* the largest value of a size_t
          HeaderSize,      \* kBundleHeaderSize
          RequestSizes,    \* sizes of the uploads
          Full,            \* the bundles that are full to begin with
          MaxId,           \* bound of the model: the largest bundle number
          MaxAllocations,  \* bound of the model: calls of Allocate
          MaxCrashes,      \* bound of the model: processes that die
          MaxFailures      \* bound of the model: calls of CreateBundle that fail

ASSUME AllocatorAssumption ==
  /\ IsFiniteSet(Threads)
  /\ StageSize \in Nat \ {0} /\ MaxStage \in Nat
  /\ Int32Max \in Nat /\ SizeTMax \in Nat /\ Int32Max < SizeTMax
  /\ HeaderSize \in 1 .. Int32Max
  /\ RequestSizes \subseteq 1 .. Int32Max
  /\ Full \subseteq Nat
  /\ MaxId \in Nat /\ MaxAllocations \in Nat /\ MaxCrashes \in Nat
  /\ MaxFailures \in Nat

Ids == 0 .. MaxId
NoFile == -1

VARIABLES
  home,           \* home[t]: the process thread t runs in
  last_id,        \* last_id[p]: last_id_
  current_stage,  \* current_stage[p]: current_stage_
  pc,             \* where each thread is in Allocate, Write and Return
  id, expose,     \* id and expose_count of its Allocate
  request,        \* the size it asked for
  offset,         \* the offset of its Writer
  size,           \* size[b]: the size of bundle file b, or NoFile
  locked,         \* the numbers whose lock file exists
  pieces,         \* history: what was written where
  allocations, crashes, failures  \* what has been spent of the bounds

processVars == <<last_id, current_stage>>
threadVars  == <<pc, id, expose, request, offset>>
diskVars    == <<size, locked, pieces>>
boundVars   == <<allocations, crashes, failures>>
vars == <<home, processVars, threadVars, diskVars, boundVars>>

Init ==
  /\ home \in [Threads -> Processes]
  /\ last_id = [p \in Processes |-> 0]
  /\ current_stage = [p \in Processes |-> 0]
  /\ pc = [t \in Threads |-> "idle"]
  /\ id = [t \in Threads |-> 0] /\ expose = [t \in Threads |-> 0]
  /\ request = [t \in Threads |-> 0] /\ offset = [t \in Threads |-> 0]
  /\ size = [b \in Ids |-> IF b \in Full THEN Int32Max ELSE NoFile]
  /\ locked = {} /\ pieces = {}
  /\ allocations = 0 /\ crashes = 0 /\ failures = 0

-----------------------------------------------------------------------------
(* The arithmetic of the limit. *)

AsInt(v)   == IF v > Int32Max THEN v - 2 * (Int32Max + 1) ELSE v
AsSizeT(v) == v % (SizeTMax + 1)

\* const size_t kMaxBundleSize = 2 * 1024 * 1024 * 1024: a product of ints.
kMaxBundleSize == AsSizeT(AsInt(Int32Max + 1))

HasRoom(b, n) == size[b] + n < kMaxBundleSize

\* The offset WriteImpl gets: a uint32 passed as an int.
IntOffset(t) == AsInt(offset[t] % (2 * (Int32Max + 1)))

CurrentMax(p) == StageSize * (current_stage[p] + 1)

Goto(t, place) == pc' = [pc EXCEPT ![t] = place]

-----------------------------------------------------------------------------
(* Allocate. *)

Allocate(t, n) ==
  /\ pc[t] = "idle" /\ allocations < MaxAllocations
  /\ id' = [id EXCEPT ![t] = last_id[home[t]]]
  /\ expose' = [expose EXCEPT ![t] = 0]
  /\ request' = [request EXCEPT ![t] = n]
  /\ Goto(t, "stat")
  /\ allocations' = allocations + 1
  /\ UNCHANGED <<home, processVars, offset, diskVars, crashes,
                 failures>>

Stat(t) ==
  /\ pc[t] = "stat"
  /\ Goto(t, IF size[id[t]] = NoFile \/ HasRoom(id[t], request[t])
               THEN "lock" ELSE "next")
  /\ UNCHANGED <<home, processVars, id, expose, request, offset, diskVars,
                 boundVars>>

\* The bug of a lock file opened without O_EXCL.
LockShared(t) ==
  /\ pc[t] = "lock"
  /\ locked' = locked \cup {id[t]}
  /\ Goto(t, "restat")
  /\ UNCHANGED <<home, processVars, id, expose, request, offset, size, pieces,
                 boundVars>>

\* FileLock::Lock.
Lock(t) ==
  /\ pc[t] = "lock"
  /\ locked' = locked \cup {id[t]}
  /\ Goto(t, IF id[t] \in locked THEN "next" ELSE "restat")
  /\ UNCHANGED <<home, processVars, id, expose, request, offset, size, pieces,
                 boundVars>>

\* The second comparison with the limit.
Take(t, n) ==
  IF n + request[t] < kMaxBundleSize
    THEN offset' = [offset EXCEPT ![t] = n] /\ Goto(t, "store")
    ELSE Goto(t, "unlock") /\ UNCHANGED offset

\* The bug of a second stat whose size is not compared again.
RestatUnchecked(t) ==
  /\ pc[t] = "restat"
  /\ size' = [size EXCEPT ![id[t]] = IF @ = NoFile THEN HeaderSize ELSE @]
  /\ offset' = [offset EXCEPT ![t] = size'[id[t]]]
  /\ Goto(t, "store")
  /\ UNCHANGED <<home, processVars, id, expose, request, locked, pieces,
                 boundVars>>

\* The second stat, under the lock, and CreateBundle for a new file: the size
\* is used from here on.  When CreateBundle fails, st still holds the size of
\* what was looked at before, and that size is used.
Restat(t) ==
  /\ pc[t] = "restat"
  /\ \/ /\ size[id[t]] = NoFile
        /\ size' = [size EXCEPT ![id[t]] = HeaderSize]
        /\ offset' = [offset EXCEPT ![t] = HeaderSize]
        /\ Goto(t, "store")
        /\ UNCHANGED failures
     \/ /\ size[id[t]] = NoFile /\ failures < MaxFailures
        /\ failures' = failures + 1
        /\ \E left \in 1 .. Int32Max : Take(t, left)
        /\ UNCHANGED size
     \/ /\ size[id[t]] # NoFile
        /\ Take(t, size[id[t]])
        /\ UNCHANGED <<size, failures>>
  /\ UNCHANGED <<home, processVars, id, expose, request, locked, pieces,
                 allocations, crashes>>

Unlock(t) ==
  /\ pc[t] = "unlock"
  /\ locked' = locked \ {id[t]}
  /\ Goto(t, "next")
  /\ UNCHANGED <<home, processVars, id, expose, request, offset, size, pieces,
                 boundVars>>

\* The bug of a search that does not count the bundles it tried.
NextIdUncounted(t) ==
  /\ pc[t] = "next" /\ id[t] < MaxId
  /\ id' = [id EXCEPT ![t] = @ + 1]
  /\ Goto(t, IF id'[t] < CurrentMax(home[t]) THEN "stat" ELSE "rewind")
  /\ UNCHANGED <<home, processVars, expose, request, offset, diskVars,
                 boundVars>>

\* ++ id, and the test against the end of the stage.
NextId(t) ==
  /\ pc[t] = "next" /\ id[t] < MaxId
  /\ id' = [id EXCEPT ![t] = @ + 1]
  /\ expose' = [expose EXCEPT ![t] = IF @ < StageSize THEN @ + 1 ELSE @]
  /\ Goto(t, IF id'[t] < CurrentMax(home[t]) THEN "stat"
             ELSE IF expose'[t] >= StageSize THEN "bump" ELSE "rewind")
  /\ UNCHANGED <<home, processVars, request, offset, diskVars, boundVars>>

\* The whole stage was tried: AtomicCountInc, and the test of what it returns.
Bump(t) ==
  /\ pc[t] = "bump"
  /\ current_stage' = [current_stage EXCEPT ![home[t]] = @ + 1]
  /\ Goto(t, IF current_stage'[home[t]] > MaxStage THEN "reset" ELSE "stat")
  /\ UNCHANGED <<home, last_id, id, expose, request, offset, diskVars,
                 boundVars>>

Reset(t) ==
  /\ pc[t] = "reset"
  /\ current_stage' = [current_stage EXCEPT ![home[t]] = 0]
  /\ id' = [id EXCEPT ![t] = 0]
  /\ Goto(t, "stat")
  /\ UNCHANGED <<home, last_id, expose, request, offset, diskVars, boundVars>>

\* The search began inside the stage: it goes on at its beginning.
Rewind(t) ==
  /\ pc[t] = "rewind"
  /\ StageSize * current_stage[home[t]] <= MaxId
  /\ id' = [id EXCEPT ![t] = StageSize * current_stage[home[t]]]
  /\ Goto(t, "stat")
  /\ UNCHANGED <<home, processVars, expose, request, offset, diskVars,
                 boundVars>>

\* AtomicCountStore of last_id_; Allocate returns the Writer.
Store(t) ==
  /\ pc[t] = "store"
  /\ last_id' = [last_id EXCEPT ![home[t]] = id[t]]
  /\ expose' = [expose EXCEPT ![t] = 0]
  /\ Goto(t, "writing")
  /\ UNCHANGED <<home, current_stage, id, request, offset, diskVars,
                 boundVars>>

-----------------------------------------------------------------------------
(* The Writer. *)

\* Writer::WriteImpl returns 0 without writing if the offset it got is not
\* positive or the file is not there.
Write(t) ==
  /\ pc[t] = "writing"
  /\ IF IntOffset(t) > 0 /\ size[id[t]] # NoFile
       THEN LET end == IntOffset(t) + request[t] IN
            /\ size' = [size EXCEPT ![id[t]] = IF end > @ THEN end ELSE @]
            /\ pieces' = pieces \cup {[bundle |-> id[t],
                                       from |-> IntOffset(t), to |-> end]}
       ELSE UNCHANGED <<size, pieces>>
  /\ Goto(t, "written")
  /\ UNCHANGED <<home, processVars, id, expose, request, offset, locked,
                 boundVars>>

\* The locals of the threads ts and their Writers are gone.
Leave(ts) ==
  /\ pc' = [t \in Threads |-> IF t \in ts THEN "idle" ELSE pc[t]]
  /\ id' = [t \in Threads |-> IF t \in ts THEN 0 ELSE id[t]]
  /\ expose' = [t \in Threads |-> IF t \in ts THEN 0 ELSE expose[t]]
  /\ request' = [t \in Threads |-> IF t \in ts THEN 0 ELSE request[t]]
  /\ offset' = [t \in Threads |-> IF t \in ts THEN 0 ELSE offset[t]]

\* MetaAllocator::Return and ~MetaWriter, with or without a Write.
Return(t) ==
  /\ pc[t] \in {"writing", "written"}
  /\ locked' = locked \ {id[t]}
  /\ Leave({t})
  /\ UNCHANGED <<home, processVars, size, pieces, boundVars>>

-----------------------------------------------------------------------------
\* The bug of a server that clears the lock directory when it starts again.
CrashClearsLocks(p) ==
  /\ crashes < MaxCrashes
  /\ crashes' = crashes + 1
  /\ Leave({t \in Threads : home[t] = p})
  /\ last_id' = [last_id EXCEPT ![p] = 0]
  /\ current_stage' = [current_stage EXCEPT ![p] = 0]
  /\ locked' = {}
  /\ UNCHANGED <<home, size, pieces, allocations, failures>>

\* A process dies and is started again.  Its lock files stay, and nobody
\* removes them: what it was writing in the bundle stays behind its lock.
Crash(p) ==
  /\ crashes < MaxCrashes
  /\ crashes' = crashes + 1
  /\ Leave({t \in Threads : home[t] = p})
  /\ last_id' = [last_id EXCEPT ![p] = 0]
  /\ current_stage' = [current_stage EXCEPT ![p] = 0]
  /\ UNCHANGED <<home, diskVars, allocations, failures>>

Search(t) == \/ Stat(t) \/ Lock(t) \/ Restat(t) \/ Unlock(t) \/ NextId(t)
             \/ Bump(t) \/ Reset(t) \/ Rewind(t) \/ Store(t)

Next ==
  \/ \E t \in Threads : \/ \E n \in RequestSizes : Allocate(t, n)
                        \/ Search(t) \/ Write(t) \/ Return(t)
  \/ \E p \in Processes : Crash(p)

\* A thread that searches is scheduled; nothing obliges it to return a Writer.
Fairness == \A t \in Threads : WF_vars(Search(t))

Spec == Init /\ [][Next]_vars
FairSpec == Spec /\ Fairness

-----------------------------------------------------------------------------
TypeOK ==
  /\ home \in [Threads -> Processes]
  /\ last_id \in [Processes -> Ids]
  /\ current_stage \in [Processes -> 0 .. MaxStage + Cardinality(Threads)]
  /\ pc \in [Threads -> {"idle", "stat", "lock", "restat", "unlock", "next",
                         "bump", "reset", "rewind", "store", "writing",
                         "written"}]
  /\ id \in [Threads -> Ids] /\ expose \in [Threads -> 0 .. StageSize]
  /\ request \in [Threads -> Nat] /\ offset \in [Threads -> Nat]
  /\ size \in [Ids -> Nat \cup {NoFile}]
  /\ locked \in SUBSET Ids
  /\ \A x \in pieces : x.bundle \in Ids /\ x.from \in Nat /\ x.to \in Nat
  /\ allocations \in 0 .. MaxAllocations /\ crashes \in 0 .. MaxCrashes
  /\ failures \in 0 .. MaxFailures

Holds(t) == pc[t] \in {"restat", "unlock", "store", "writing", "written"}

\* A bundle is in the hands of one thread at most, of whatever process, and
\* its lock file exists for as long: also across deaths and restarts.
OneHolder ==
  /\ \A t \in Threads : Holds(t) => id[t] \in locked
  /\ \A t, u \in Threads : Holds(t) /\ Holds(u) /\ t # u => id[t] # id[u]

\* A Writer writes at the end of its bundle: the size it was given under the
\* lock has not changed since, although the first stat was made without it.
OffsetIsEnd ==
  \A t \in Threads :
    pc[t] \in {"store", "writing"} /\ size[id[t]] # NoFile
      => offset[t] = size[id[t]]

\* A Writer can be used: its offset survives the conversion to an int.
AllocatedIsWritable ==
  \A t \in Threads :
    pc[t] = "writing" => offset[t] + request[t] <= Int32Max + 1

\* No piece is ever overwritten: the bundles are append-only.
Bundles == INSTANCE AppendOnlyStore
StoreSpec == Bundles!Spec

Available(b, n) == b \notin locked /\ (size[b] = NoFile \/ HasRoom(b, n))

Searching(t) == pc[t] \notin {"idle", "writing", "written"}

\* Allocate comes to an end if one bundle of the stages stays free for it and
\* it is from some time on the only search of its process.  Two searches can
\* push current_stage past that bundle's stage for each other, for ever.
AllocateEnds ==
  \A t \in Threads, b \in 0 .. StageSize * (MaxStage + 1) - 1 :
    ~ <>[](/\ Searching(t) /\ Available(b, request[t])
           /\ \A u \in Threads \ {t} : home[u] = home[t] => ~ Searching(u))
=============================================================================
