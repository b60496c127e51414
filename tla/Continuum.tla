------------------------------ MODULE Continuum ------------------------------
(***************************************************************************)
(* base::Continuum (src/base3/consistenthash.h): a ring of points that     *)
(* belong to targets, behind a write-preferring lock.                      *)
(*                                                                         *)
(* The lock is used as ReadWriteLock describes it: a reader gets in when   *)
(* nobody writes and no writer waits, a writer when nobody is inside, and  *)
(* a writer that finds somebody inside waits.  The body of a critical      *)
(* section is one step with the acquisition.  Of several equal points      *)
(* lower_bound finds the first, and which that is std::sort leaves open:   *)
(* the ring is a function from points to their first target.               *)
(***************************************************************************)
EXTENDS Naturals, Sequences, FiniteSets

CONSTANTS Clients,        \* the threads that call the Continuum
          Targets,        \* the descriptions that Add may be given
          Fits(_, _),     \* whether the name of a target's k-th point fits buf
          PointOf(_, _),  \* the hash of that name, if it fits
          Hashes,         \* the values of PointOf and of the hashes looked up
          Capacities,     \* the numbers of points that Add may be given
          CallsOf(_),     \* the kinds of calls that each thread makes
          MaxCalls        \* bound of the model: calls in a behaviour

\* What is asked of the constants.
RingAssumption ==
  /\ Hashes \subseteq Nat
  /\ Capacities \subseteq Nat /\ MaxCalls \in Nat
  /\ \A d \in Targets, n \in Capacities :
        \A k \in 0 .. n : Fits(d, k) => PointOf(d, k) \in Hashes

VARIABLES
  desc_map,   \* desc_map_: the capacity of each target added
  ring,       \* points_: the target found at each point
  op,         \* op[c]: the call c has made
  at,         \* at[c]: where c is in it
  snapshot,   \* snapshot[c]: the desc_map that c's Rebuild read
  left,       \* left[c]: calls of size() that c's Dump has still to make
  calls,      \* how many calls have been made
  built,      \* history: the desc_map that ring was built from
  version,    \* history: how often desc_map has been changed
  readAt,     \* history: readAt[c], version when c's Rebuild read desc_map
  builtAt,    \* history: the version that ring was built from
  overtaken   \* history: overtaken[c], a ring was installed since readAt[c]

callVars == <<op, at, snapshot, left, calls>>
history  == <<built, version, readAt, builtAt, overtaken>>
vars == <<callVars, desc_map, ring, history>>

NoTargets == [d \in {} |-> 0]
Maps == UNION {[D -> Capacities] : D \in SUBSET Targets}

Ops == [kind : {"add"}, desc : Targets, capacity : Capacities]
       \cup [kind : {"remove"}, desc : Targets]
       \cup [kind : {"clear", "rebuild", "locate", "dump"}]

\* op[c] when c is in no call.
NoCall == [kind |-> "none"]

\* "begin"    before the first lock of the call
\* "reading"  holds the lock for reading; in Dump, between two calls of size
\* "nested"   in Dump, inside size, which holds the lock for reading again
\* "sorted"   Rebuild without the lock, its new ring complete
\* "waiting"  in WriteLock, counted by write_waiters_
\* "writing"  holds the lock for writing
Places == {"idle", "begin", "reading", "nested", "sorted", "waiting", "writing"}

Init ==
  /\ desc_map = NoTargets /\ ring = <<>>
  /\ op = [c \in Clients |-> NoCall]
  /\ at = [c \in Clients |-> "idle"]
  /\ snapshot = [c \in Clients |-> NoTargets]
  /\ left = [c \in Clients |-> 0]
  /\ calls = 0
  /\ built = NoTargets /\ version = 0 /\ builtAt = 0
  /\ readAt = [c \in Clients |-> 0]
  /\ overtaken = [c \in Clients |-> FALSE]

ClientsAt(P) == {c \in Clients : at[c] \in P}
ReadersBlocked == ClientsAt({"writing", "waiting"}) # {}
WritersBlocked == ClientsAt({"reading", "nested", "writing"}) # {}

-----------------------------------------------------------------------------
(* The ring. *)

\* The bug of points that depend on the capacity of their target.
PointsSpread(m, d) == {PointOf(d, k + m[d]) : k \in {j \in 0 .. m[d] - 1 : Fits(d, j)}}

\* The points of a target: "desc-0" .. "desc-(capacity-1)", hashed, those of
\* them that fit buf.
Points(m, d) == {PointOf(d, k) : k \in {j \in 0 .. m[d] - 1 : Fits(d, j)}}

\* The targets with such a point at p.
OwnersOf(m, p) == {d \in DOMAIN m : p \in Points(m, d)}

\* The points with a name that does not fit.  snprintf returns the length that
\* it has, and what is hashed reaches beyond buf: any hash, a new one each time.
Overlong(m) == UNION {{d} \X {k \in 0 .. m[d] - 1 : ~ Fits(d, k)} : d \in DOMAIN m}

\* The targets with a point at p, whose overlong points are at hash.
FoundAt(m, hash, p) == OwnersOf(m, p) \cup {point[1] : point \in {x \in Overlong(m) : hash[x] = p}}

\* What Rebuild may make of m with those hashes: any order of equal points.
RingsWith(m, hash) ==
  LET all == {p \in Hashes : FoundAt(m, hash, p) # {}}
  IN  {r \in [all -> Targets] : \A p \in all : r[p] \in FoundAt(m, hash, p)}

Rings(m) == UNION {RingsWith(m, hash) : hash \in [Overlong(m) -> Hashes]}

\* Locate's lower_bound: the first point not below the hash, else the first.
Finds(r, h, p) ==
  /\ p \in DOMAIN r
  /\ \/ p >= h /\ \A q \in DOMAIN r : q >= h => p <= q
     \/ \A q \in DOMAIN r : q < h /\ p <= q

-----------------------------------------------------------------------------
(* Calls and the sections that read. *)

\* Dump of an empty ring has no defined result and is not called.
Call(c, o) ==
  /\ at[c] = "idle" /\ calls < MaxCalls
  /\ o.kind \in CallsOf(c)
  /\ o.kind = "dump" => ring # <<>>
  /\ op' = [op EXCEPT ![c] = o]
  /\ at' = [at EXCEPT ![c] = "begin"]
  /\ calls' = calls + 1
  /\ UNCHANGED <<desc_map, ring, snapshot, left, history>>

\* The bug of a Rebuild that goes on from the targets of the one before.
ReadSectionOnce(c) ==
  /\ at[c] = "begin" /\ op[c].kind \in {"locate", "rebuild", "dump"}
  /\ ~ ReadersBlocked
  /\ at' = [at EXCEPT ![c] = "reading"]
  /\ IF op[c].kind = "rebuild"
       THEN /\ snapshot' = [snapshot EXCEPT ![c] = IF @ = NoTargets THEN desc_map ELSE @]
            /\ readAt' = [readAt EXCEPT ![c] = IF snapshot[c] = NoTargets THEN version ELSE @]
            /\ overtaken' = [overtaken EXCEPT ![c] = FALSE]
       ELSE UNCHANGED <<snapshot, readAt, overtaken>>
  /\ left' = [left EXCEPT ![c] = IF op[c].kind = "dump"
                                   THEN Cardinality({ring[p] : p \in DOMAIN ring})
                                   ELSE 0]
  /\ UNCHANGED <<desc_map, ring, op, calls, built, version, builtAt>>

\* Locate and size read only; Rebuild copies the targets; Dump will call
\* size once for each target of the ring.
ReadSection(c) ==
  /\ at[c] = "begin" /\ op[c].kind \in {"locate", "rebuild", "dump"}
  /\ ~ ReadersBlocked
  /\ at' = [at EXCEPT ![c] = "reading"]
  /\ IF op[c].kind = "rebuild"
       THEN /\ snapshot' = [snapshot EXCEPT ![c] = desc_map]
            /\ readAt' = [readAt EXCEPT ![c] = version]
            /\ overtaken' = [overtaken EXCEPT ![c] = FALSE]
       ELSE UNCHANGED <<snapshot, readAt, overtaken>>
  /\ left' = [left EXCEPT ![c] = IF op[c].kind = "dump"
                                   THEN Cardinality({ring[p] : p \in DOMAIN ring})
                                   ELSE 0]
  /\ UNCHANGED <<desc_map, ring, op, calls, built, version, builtAt>>

\* size() inside Dump, which has the lock already.
Nest(c) ==
  /\ at[c] = "reading" /\ left[c] > 0
  /\ ~ ReadersBlocked
  /\ at' = [at EXCEPT ![c] = "nested"]
  /\ UNCHANGED <<desc_map, ring, op, calls, snapshot, left, history>>

Unnest(c) ==
  /\ at[c] = "nested"
  /\ at' = [at EXCEPT ![c] = "reading"]
  /\ left' = [left EXCEPT ![c] = @ - 1]
  /\ UNCHANGED <<desc_map, ring, op, calls, snapshot, history>>

\* c's call has returned.
Ended(c) ==
  /\ at' = [at EXCEPT ![c] = "idle"]
  /\ op' = [op EXCEPT ![c] = NoCall]

\* The bug of a Rebuild that returns with the lock when there is no point.
ReadUnlockIfAny(c) ==
  /\ at[c] = "reading" /\ left[c] = 0
  /\ op[c].kind = "rebuild" => \E d \in DOMAIN snapshot[c] : snapshot[c][d] > 0
  /\ IF op[c].kind = "rebuild" THEN at' = [at EXCEPT ![c] = "sorted"] /\ UNCHANGED op
                               ELSE Ended(c)
  /\ UNCHANGED <<desc_map, ring, calls, snapshot, left, history>>

\* A Rebuild of no points returns false here and keeps the ring.
ReadUnlock(c) ==
  /\ at[c] = "reading" /\ left[c] = 0
  /\ LET some == \E d \in DOMAIN snapshot[c] : snapshot[c][d] > 0
     IN  IF op[c].kind = "rebuild" /\ some
           THEN at' = [at EXCEPT ![c] = "sorted"] /\ UNCHANGED op
           ELSE Ended(c)
  /\ UNCHANGED <<desc_map, ring, calls, snapshot, left, history>>

-----------------------------------------------------------------------------
(* The sections that write. *)

WantsToWrite(c) ==
  \/ at[c] = "begin" /\ op[c].kind \in {"add", "remove", "clear"}
  \/ at[c] = "sorted"

Wait(c) ==
  /\ WantsToWrite(c) /\ WritersBlocked
  /\ at' = [at EXCEPT ![c] = "waiting"]
  /\ UNCHANGED <<desc_map, ring, op, calls, snapshot, left, history>>

MayWrite(c) == (WantsToWrite(c) \/ at[c] = "waiting") /\ ~ WritersBlocked

Add(c) ==
  /\ op[c].kind = "add" /\ MayWrite(c)
  /\ desc_map' = [d \in DOMAIN desc_map \cup {op[c].desc} |->
                    IF d = op[c].desc THEN op[c].capacity ELSE desc_map[d]]
  /\ version' = version + 1
  /\ at' = [at EXCEPT ![c] = "writing"]
  /\ UNCHANGED <<ring, op, calls, snapshot, left, built, readAt, builtAt, overtaken>>

\* Remove and Clear.
Remove(c) ==
  /\ op[c].kind \in {"remove", "clear"} /\ MayWrite(c)
  /\ desc_map' = IF op[c].kind = "clear" THEN NoTargets
                   ELSE [d \in DOMAIN desc_map \ {op[c].desc} |-> desc_map[d]]
  /\ version' = version + 1
  /\ at' = [at EXCEPT ![c] = "writing"]
  /\ UNCHANGED <<ring, op, calls, snapshot, left, built, readAt, builtAt, overtaken>>

\* What the history keeps of a ring that c installs.
Installed(c) ==
  /\ built' = snapshot[c] /\ builtAt' = readAt[c]
  /\ overtaken' = [b \in Clients |-> b # c]
  /\ UNCHANGED <<version, readAt>>

Swap(c) ==
  /\ op[c].kind = "rebuild" /\ MayWrite(c)
  /\ ring' \in Rings(snapshot[c])
  /\ Installed(c)
  /\ at' = [at EXCEPT ![c] = "writing"]
  /\ UNCHANGED <<desc_map, op, calls, snapshot, left>>

WriteUnlock(c) ==
  /\ at[c] = "writing"
  /\ Ended(c)
  /\ UNCHANGED <<desc_map, ring, calls, snapshot, left, history>>

-----------------------------------------------------------------------------
Proceed(c) ==
  \/ ReadSection(c) \/ Nest(c) \/ Unnest(c) \/ ReadUnlock(c)
  \/ Wait(c) \/ Add(c) \/ Remove(c) \/ Swap(c) \/ WriteUnlock(c)

Next == \E c \in Clients : (\E o \in Ops : Call(c, o)) \/ Proceed(c)

\* A thread inside a call is scheduled.
Fairness == \A c \in Clients : WF_vars(Proceed(c))

Spec == Init /\ [][Next]_vars
FairSpec == Spec /\ Fairness
-----------------------------------------------------------------------------
TypeOK ==
  /\ desc_map \in Maps /\ built \in Maps
  /\ ring \in UNION {[P -> Targets] : P \in SUBSET Hashes}
  /\ op \in [Clients -> Ops \cup {NoCall}] /\ at \in [Clients -> Places]
  /\ snapshot \in [Clients -> Maps] /\ left \in [Clients -> Nat]
  /\ calls \in Nat /\ version \in Nat /\ builtAt \in Nat
  /\ readAt \in [Clients -> Nat] /\ overtaken \in [Clients -> BOOLEAN]

Capacity(m, d) == IF d \in DOMAIN m THEN m[d] ELSE 0

\* The one target whose point at p the ring can have.
OwnedBy(m, p, d) == OwnersOf(m, p) = {d}

\* What Locate is for: when the ring is replaced, a hash goes to another
\* target only if that target has gained points or the old one has lost some,
\* whatever happens to the others.  Points that two targets share are left
\* out, which of the two owns such a point may change with every Rebuild, and
\* so are overlong ones, which may be elsewhere after each.
MovesOnlyByCapacity ==
  [][ring' # ring =>
       \A h, p, q \in Hashes, d, e \in Targets :
         (/\ Finds(ring, h, p) /\ ring[p] = d /\ OwnedBy(built, p, d)
          /\ Finds(ring', h, q) /\ ring'[q] = e /\ OwnedBy(built', q, e)
          /\ d # e)
         => \/ Capacity(built', e) > Capacity(built, e)
            \/ Capacity(built', d) < Capacity(built, d)]_<<ring, built>>

\* A ring is replaced by one of older targets only by a Rebuild that another
\* one has overtaken between its two sections.
BackOnlyIfOvertaken ==
  [][builtAt' < builtAt =>
       \E c \in Clients : at[c] \in {"sorted", "waiting"} /\ at'[c] = "writing"
                         /\ overtaken[c]]_builtAt

\* Dump between two calls of size with a writer waiting: neither goes on.
DumpBlocked ==
  /\ \E c \in Clients : at[c] = "reading" /\ left[c] > 0
  /\ ClientsAt({"waiting"}) # {}

\* A call ends, unless a Dump has blocked itself and everybody else: each thread
\* is again and again in no call.
CallsEnd == \A c \in Clients : []<>(at[c] = "idle" \/ DumpBlocked)
=============================================================================
