------------------------- MODULE ReadWriteLockProofs -------------------------
(***************************************************************************)
(* The safety properties of ReadWriteLock for every finite set of threads, *)
(* and that it implements ReadersWriters.                                  *)
(***************************************************************************)
EXTENDS ReadWriteLock, FiniteSetTheorems, TLAPS

Reading        == ThreadsAt({"reading"})
Writing        == ThreadsAt({"writing"})
WaitingToRead  == ThreadsAt({"rsleep", "rawake"})
\* The writers that write_waiters_ counts.
WaitingToWrite == ThreadsAt({"wsleep", "wawake"})

\* The inductive invariant: each conjunct is checked by TLC as well.
IInv == TypeOK /\ CountersMatch /\ Exclusion /\ NoLostWakeup

\* The step the abstract lock takes.
AbstractStep == [Abstract!Next]_(Abstract!vars)

\* How the number of threads in a set changes when one enters or leaves it.
LEMMA Recount ==
  ASSUME NEW A \in SUBSET Threads, NEW t \in Threads
  PROVE  /\ Cardinality(A) \in Nat
         /\ Cardinality(A) = 0 <=> A = {}
         /\ t \notin A => Cardinality(A \cup {t}) = Cardinality(A) + 1
         /\ t \in A => Cardinality(A \ {t}) = Cardinality(A) - 1
<1>1. IsFiniteSet(A)
  BY ThreadsAssumption, FS_Subset
<1>2. QED
  BY <1>1, FS_CardinalityType, FS_EmptySet, FS_AddElement, FS_RemoveElement

\* What the counters say about who holds the lock and who waits.
LEMMA CountersTell ==
  ASSUME IInv
  PROVE  /\ readers = 0 <=> Reading = {}
         /\ writers = 0 <=> Writing = {}
         /\ read_waiters = 0 <=> WaitingToRead = {}
         /\ write_waiters = 0 <=> WaitingToWrite = {}
<1>1. ASSUME NEW A \in SUBSET Threads
      PROVE  Cardinality(A) = 0 <=> A = {}
  BY ThreadsAssumption, FS_Subset, FS_EmptySet
<1>2. /\ Reading \in SUBSET Threads /\ Writing \in SUBSET Threads
      /\ WaitingToRead \in SUBSET Threads /\ WaitingToWrite \in SUBSET Threads
  BY DEF Reading, Writing, WaitingToRead, WaitingToWrite, ThreadsAt
<1>3. QED
  BY <1>1, <1>2
     DEF IInv, CountersMatch, Reading, Writing, WaitingToRead, WaitingToWrite

\* The invariant holds to begin with.
LEMMA InitIInv == Init => IInv
<1> SUFFICES ASSUME Init PROVE IInv
  OBVIOUS
<1>1. TypeOK
  BY DEF Init, TypeOK, Place
<1>2. \A P \in SUBSET (Place \ {"idle"}) : ThreadsAt(P) = {}
  BY DEF Init, ThreadsAt
<1>3. CountersMatch
  BY <1>2, FS_EmptySet DEF Init, CountersMatch, Place
<1>4. Exclusion /\ NoLostWakeup
  BY <1>2 DEF Init, Exclusion, NoLostWakeup, Place
<1>5. QED
  BY <1>1, <1>3, <1>4 DEF IInv

-----------------------------------------------------------------------------
\* A reader that finds the lock blocked goes to sleep, counted.
LEMMA ReadSleeps ==
  ASSUME IInv, NEW t \in Threads, ReadersBlocked,
         \/ /\ at[t] = "idle" /\ read_waiters' = read_waiters + 1
         \/ /\ at[t] = "rawake" /\ read_waiters' = read_waiters,
         at' = [at EXCEPT ![t] = "rsleep"],
         UNCHANGED <<readers, writers, write_waiters>>
  PROVE  IInv' /\ AbstractStep
<1>1. /\ Reading' = Reading /\ Writing' = Writing /\ WaitingToWrite' = WaitingToWrite
      /\ at[t] = "idle" => t \notin WaitingToRead /\ WaitingToRead' = WaitingToRead \cup {t}
      /\ at[t] = "rawake" => WaitingToRead' = WaitingToRead
      /\ WaitingToRead \in SUBSET Threads
  BY DEF IInv, TypeOK, Reading, Writing, WaitingToRead, WaitingToWrite, ThreadsAt
<1>2. TypeOK'
  BY DEF IInv, TypeOK, Place
<1>3. CountersMatch'
  BY <1>1, Recount
     DEF IInv, CountersMatch, Reading, Writing, WaitingToRead, WaitingToWrite
<1>4. Exclusion'
  BY DEF IInv, TypeOK, Exclusion
<1>5. NoLostWakeup'
  <2>1. Writing # {} \/ WaitingToWrite # {}
    BY CountersTell DEF ReadersBlocked
  <2>2. /\ ThreadsAt({"wsleep"})' = ThreadsAt({"wsleep"})
        /\ ThreadsAt({"reading", "writing", "wawake"})'
              = ThreadsAt({"reading", "writing", "wawake"})
        /\ ThreadsAt({"writing", "wsleep", "wawake"})'
              = ThreadsAt({"writing", "wsleep", "wawake"})
    BY DEF IInv, TypeOK, ThreadsAt
  <2>3. ThreadsAt({"writing", "wsleep", "wawake"}) # {}
    BY <2>1 DEF Writing, WaitingToWrite, ThreadsAt
  <2>4. QED
    BY <2>2, <2>3 DEF IInv, NoLostWakeup
<1>6. AbstractStep
  BY <1>1 DEF AbstractStep, Abstract!vars, Reading, Writing
<1>7. QED
  BY <1>2, <1>3, <1>4, <1>5, <1>6 DEF IInv

\* A reader that finds the lock free takes it.
LEMMA ReadTakes ==
  ASSUME IInv, NEW t \in Threads, ~ReadersBlocked,
         \/ /\ at[t] = "idle" /\ read_waiters' = read_waiters
         \/ /\ at[t] = "rawake" /\ read_waiters' = read_waiters - 1,
         readers' = readers + 1,
         at' = [at EXCEPT ![t] = "reading"],
         UNCHANGED <<writers, write_waiters>>
  PROVE  IInv' /\ AbstractStep
<1>1. /\ t \notin Reading /\ Reading' = Reading \cup {t} /\ Writing' = Writing
      /\ WaitingToWrite' = WaitingToWrite
      /\ at[t] = "idle" => WaitingToRead' = WaitingToRead
      /\ at[t] = "rawake" => t \in WaitingToRead /\ WaitingToRead' = WaitingToRead \ {t}
      /\ Reading \in SUBSET Threads /\ WaitingToRead \in SUBSET Threads
  BY DEF IInv, TypeOK, Reading, Writing, WaitingToRead, WaitingToWrite, ThreadsAt
<1>2. Writing = {} /\ WaitingToWrite = {}
  BY CountersTell DEF ReadersBlocked
<1>3. CountersMatch'
  BY <1>1, Recount
     DEF IInv, CountersMatch, Reading, Writing, WaitingToRead, WaitingToWrite
<1>4. TypeOK'
  <2>1. Cardinality(WaitingToRead') \in Nat
    BY <1>1, Recount
  <2>2. QED
    BY <1>3, <2>1 DEF IInv, TypeOK, Place, CountersMatch, WaitingToRead
<1>5. Exclusion'
  BY <1>2 DEF IInv, TypeOK, Exclusion, Writing, ThreadsAt
<1>6. NoLostWakeup'
  <2>1. ThreadsAt({"wsleep"})' = {}
    BY <1>2 DEF IInv, TypeOK, WaitingToWrite, ThreadsAt
  <2>2. ThreadsAt({"writing", "wsleep", "wawake"})
          = ThreadsAt({"writing", "wsleep", "wawake"})'
    BY DEF IInv, TypeOK, ThreadsAt
  <2>3. ThreadsAt({"rsleep"})' \subseteq ThreadsAt({"rsleep"})
    BY DEF IInv, TypeOK, ThreadsAt
  <2>4. QED
    BY <2>1, <2>2, <2>3 DEF IInv, NoLostWakeup
<1>7. Abstract!AcquireRead(t)
  BY <1>1, <1>2 DEF Abstract!AcquireRead, Reading, Writing
<1>8. QED
  BY <1>3, <1>4, <1>5, <1>6, <1>7 DEF IInv, AbstractStep, Abstract!Next

\* A writer that finds the lock held goes to sleep, counted.
LEMMA WriteSleeps ==
  ASSUME IInv, NEW t \in Threads, WritersBlocked,
         \/ /\ at[t] = "idle" /\ write_waiters' = write_waiters + 1
         \/ /\ at[t] = "wawake" /\ write_waiters' = write_waiters,
         at' = [at EXCEPT ![t] = "wsleep"],
         UNCHANGED <<readers, writers, read_waiters>>
  PROVE  IInv' /\ AbstractStep
<1>1. /\ Reading' = Reading /\ Writing' = Writing /\ WaitingToRead' = WaitingToRead
      /\ at[t] = "idle" => t \notin WaitingToWrite /\ WaitingToWrite' = WaitingToWrite \cup {t}
      /\ at[t] = "wawake" => WaitingToWrite' = WaitingToWrite
      /\ WaitingToWrite \in SUBSET Threads
  BY DEF IInv, TypeOK, Reading, Writing, WaitingToRead, WaitingToWrite, ThreadsAt
<1>2. TypeOK'
  BY DEF IInv, TypeOK, Place
<1>3. CountersMatch'
  BY <1>1, Recount
     DEF IInv, CountersMatch, Reading, Writing, WaitingToRead, WaitingToWrite
<1>4. Exclusion'
  BY DEF IInv, TypeOK, Exclusion
<1>5. NoLostWakeup'
  <2>1. Writing # {} \/ Reading # {}
    BY CountersTell DEF WritersBlocked
  <2>2. ThreadsAt({"reading", "writing", "wawake"})' # {}
    BY <2>1, <1>1 DEF Reading, Writing, ThreadsAt
  <2>3. t \in ThreadsAt({"writing", "wsleep", "wawake"})'
    BY DEF IInv, TypeOK, ThreadsAt
  <2>4. QED
    BY <2>2, <2>3 DEF NoLostWakeup
<1>6. AbstractStep
  BY <1>1 DEF AbstractStep, Abstract!vars, Reading, Writing
<1>7. QED
  BY <1>2, <1>3, <1>4, <1>5, <1>6 DEF IInv

\* A writer that finds the lock free takes it.
LEMMA WriteTakes ==
  ASSUME IInv, NEW t \in Threads, ~WritersBlocked,
         \/ /\ at[t] = "idle" /\ write_waiters' = write_waiters
         \/ /\ at[t] = "wawake" /\ write_waiters' = write_waiters - 1,
         writers' = 1,
         at' = [at EXCEPT ![t] = "writing"],
         UNCHANGED <<readers, read_waiters>>
  PROVE  IInv' /\ AbstractStep
<1>1. Writing = {} /\ Reading = {} /\ writers = 0
  BY CountersTell DEF WritersBlocked
<1>2. /\ t \notin Writing /\ Writing' = Writing \cup {t} /\ Reading' = Reading
      /\ WaitingToRead' = WaitingToRead
      /\ at[t] = "idle" => WaitingToWrite' = WaitingToWrite
      /\ at[t] = "wawake" => t \in WaitingToWrite /\ WaitingToWrite' = WaitingToWrite \ {t}
      /\ Writing \in SUBSET Threads /\ WaitingToWrite \in SUBSET Threads
  BY DEF IInv, TypeOK, Reading, Writing, WaitingToRead, WaitingToWrite, ThreadsAt
<1>3. CountersMatch'
  BY <1>1, <1>2, Recount
     DEF IInv, CountersMatch, Reading, Writing, WaitingToRead, WaitingToWrite
<1>4. TypeOK'
  <2>1. Cardinality(WaitingToWrite') \in Nat
    BY <1>2, Recount
  <2>2. QED
    BY <1>3, <2>1 DEF IInv, TypeOK, Place, CountersMatch, WaitingToWrite
<1>5. Exclusion'
  BY <1>1 DEF IInv, TypeOK, Exclusion, Reading, Writing, ThreadsAt
<1>6. NoLostWakeup'
  BY DEF IInv, TypeOK, NoLostWakeup, ThreadsAt
<1>7. Abstract!AcquireWrite(t)
  BY <1>1, <1>2 DEF Abstract!AcquireWrite, Reading, Writing
<1>8. QED
  BY <1>3, <1>4, <1>5, <1>6, <1>7 DEF IInv, AbstractStep, Abstract!Next

-----------------------------------------------------------------------------
\* What notify_one leaves: at most one thread changes place, from asleep to
\* awake, and if a writer slept then a writer is awake.
LEMMA OneWriterNotified ==
  ASSUME TypeOK, NEW t \in Threads, at[t] \in {"reading", "writing"}, NotifyOneWriter(t)
  PROVE  /\ at' \in [Threads -> Place] /\ at'[t] = "idle"
         /\ \A u \in Threads \ {t} :
              at'[u] = at[u] \/ (at[u] = "wsleep" /\ at'[u] = "wawake")
         /\ ThreadsAt({"wsleep"}) # {} => ThreadsAt({"wawake"})' # {}
<1>1. CASE ThreadsAt({"wsleep"}) = {} /\ at' = [at EXCEPT ![t] = "idle"]
  BY <1>1 DEF TypeOK, Place
<1>2. ASSUME NEW w \in ThreadsAt({"wsleep"}),
             at' = [at EXCEPT ![t] = "idle", ![w] = "wawake"]
      PROVE  /\ at' \in [Threads -> Place] /\ at'[t] = "idle" /\ w \in Threads
             /\ \A u \in Threads \ {t} :
                  at'[u] = at[u] \/ (at[u] = "wsleep" /\ at'[u] = "wawake")
             /\ at'[w] = "wawake"
  BY <1>2 DEF TypeOK, Place, ThreadsAt
<1>3. QED
  BY <1>1, <1>2 DEF NotifyOneWriter, ThreadsAt

\* A holder that leaves by notify_one, or by waking nobody when no writer
\* waits, keeps the counters of the waiters right and no writer asleep alone.
LEMMA Leaves ==
  ASSUME TypeOK, CountersMatch, NoLostWakeup, NEW t \in Threads,
         at[t] \in {"reading", "writing"},
         UNCHANGED <<read_waiters, write_waiters>>,
         IF write_waiters # 0 THEN NotifyOneWriter(t) ELSE NotifyNobody(t)
  PROVE  /\ at' \in [Threads -> Place] /\ at'[t] = "idle"
         /\ \A u \in Threads \ {t} :
              at'[u] = at[u] \/ (at[u] = "wsleep" /\ at'[u] = "wawake")
         /\ WaitingToRead' = WaitingToRead /\ WaitingToWrite' = WaitingToWrite
         /\ ThreadsAt({"wsleep"})' # {} => ThreadsAt({"wawake"})' # {}
<1>1. /\ at' \in [Threads -> Place] /\ at'[t] = "idle"
      /\ \A u \in Threads \ {t} :
           at'[u] = at[u] \/ (at[u] = "wsleep" /\ at'[u] = "wawake")
      /\ write_waiters # 0 /\ ThreadsAt({"wsleep"}) # {} => ThreadsAt({"wawake"})' # {}
  <2>1. CASE write_waiters # 0
    BY <2>1, OneWriterNotified
  <2>2. CASE write_waiters = 0
    BY <2>2 DEF NotifyNobody, TypeOK, Place
  <2>3. QED
    BY <2>1, <2>2
<1>2. WaitingToRead' = WaitingToRead /\ WaitingToWrite' = WaitingToWrite
  BY <1>1 DEF TypeOK, WaitingToRead, WaitingToWrite, ThreadsAt
<1>3. ASSUME ThreadsAt({"wsleep"})' # {}
      PROVE  write_waiters # 0 /\ ThreadsAt({"wsleep"}) # {}
  <2>1. ThreadsAt({"wsleep"}) # {}
    BY <1>1, <1>3 DEF TypeOK, ThreadsAt
  <2>2. WaitingToWrite # {} /\ WaitingToWrite \in SUBSET Threads
    BY <2>1 DEF WaitingToWrite, ThreadsAt
  <2>3. Cardinality(WaitingToWrite) # 0
    BY <2>2, Recount
  <2>4. QED
    BY <2>1, <2>3 DEF CountersMatch, WaitingToWrite
<1>4. QED
  BY <1>1, <1>2, <1>3

\* ReadUnlock keeps it.
LEMMA ReadUnlockKeeps ==
  ASSUME IInv, NEW t \in Threads, ReadUnlock(t)
  PROVE  IInv' /\ AbstractStep
<1>1. /\ at[t] = "reading" /\ readers' = readers - 1
      /\ UNCHANGED <<writers, read_waiters, write_waiters>>
      /\ IF write_waiters # 0 THEN NotifyOneWriter(t) ELSE NotifyNobody(t)
  BY DEF ReadUnlock
<1>2. /\ at' \in [Threads -> Place] /\ at'[t] = "idle"
      /\ \A u \in Threads \ {t} :
           at'[u] = at[u] \/ (at[u] = "wsleep" /\ at'[u] = "wawake")
      /\ WaitingToRead' = WaitingToRead /\ WaitingToWrite' = WaitingToWrite
      /\ ThreadsAt({"wsleep"})' # {} => ThreadsAt({"wawake"})' # {}
  BY <1>1, Leaves DEF IInv
<1>3. /\ t \in Reading /\ Reading' = Reading \ {t} /\ Writing' = Writing
      /\ Reading \in SUBSET Threads
  BY <1>1, <1>2 DEF IInv, TypeOK, Reading, Writing, ThreadsAt
<1>4. CountersMatch'
  BY <1>1, <1>2, <1>3, Recount
     DEF IInv, CountersMatch, Reading, Writing, WaitingToRead, WaitingToWrite
<1>5. TypeOK'
  <2>1. Cardinality(Reading') \in Nat
    BY <1>3, Recount
  <2>2. QED
    BY <1>1, <1>2, <1>4, <2>1 DEF IInv, TypeOK, CountersMatch, Reading
<1>6. Exclusion'
  BY <1>2 DEF IInv, TypeOK, Exclusion
<1>7. NoLostWakeup'
  <2>1. ThreadsAt({"writing", "wsleep", "wawake"})
          = ThreadsAt({"writing", "wsleep", "wawake"})'
    BY <1>1, <1>2 DEF ThreadsAt
  <2>2. ThreadsAt({"rsleep"})' = ThreadsAt({"rsleep"})
    BY <1>1, <1>2 DEF ThreadsAt
  <2>3. ThreadsAt({"wawake"})' \subseteq ThreadsAt({"reading", "writing", "wawake"})'
    BY DEF ThreadsAt
  <2>4. QED
    BY <1>2, <2>1, <2>2, <2>3 DEF IInv, NoLostWakeup
<1>8. Abstract!ReleaseRead(t)
  BY <1>3 DEF Abstract!ReleaseRead, Reading, Writing
<1>9. QED
  BY <1>4, <1>5, <1>6, <1>7, <1>8 DEF IInv, AbstractStep, Abstract!Next

\* What notify_all leaves when no writer waits: every reader is awake.
LEMMA AllReadersNotified ==
  ASSUME IInv, NEW t \in Threads, at[t] = "writing", write_waiters = 0,
         UNCHANGED <<read_waiters, write_waiters>>, NotifyAllReaders(t)
  PROVE  /\ at' \in [Threads -> Place] /\ at'[t] = "idle"
         /\ \A u \in Threads \ {t} :
              at'[u] = at[u] \/ (at[u] = "rsleep" /\ at'[u] = "rawake")
         /\ WaitingToRead' = WaitingToRead /\ WaitingToWrite' = WaitingToWrite
         /\ ThreadsAt({"wsleep"})' = {} /\ ThreadsAt({"rsleep"})' = {}
<1>1. /\ at' \in [Threads -> Place] /\ at'[t] = "idle"
      /\ \A u \in Threads \ {t} :
           at'[u] = at[u] \/ (at[u] = "rsleep" /\ at'[u] = "rawake")
      /\ ThreadsAt({"rsleep"})' = {}
  BY DEF NotifyAllReaders, IInv, TypeOK, Place, ThreadsAt
<1>2. WaitingToRead' = WaitingToRead /\ WaitingToWrite' = WaitingToWrite
  BY <1>1 DEF WaitingToRead, WaitingToWrite, ThreadsAt
<1>3. ThreadsAt({"wsleep"})' = {}
  BY <1>2, CountersTell DEF WaitingToWrite, ThreadsAt
<1>4. QED
  BY <1>1, <1>2, <1>3

\* WriteUnlock keeps it.
LEMMA WriteUnlockKeeps ==
  ASSUME IInv, NEW t \in Threads, WriteUnlock(t)
  PROVE  IInv' /\ AbstractStep
<1>1. /\ at[t] = "writing" /\ writers' = 0
      /\ UNCHANGED <<readers, read_waiters, write_waiters>>
  BY DEF WriteUnlock
<1>2. /\ at' \in [Threads -> Place] /\ at'[t] = "idle"
      /\ \A u \in Threads \ {t} : \/ at'[u] = at[u]
                                  \/ at[u] = "wsleep" /\ at'[u] = "wawake"
                                  \/ at[u] = "rsleep" /\ at'[u] = "rawake"
      /\ WaitingToRead' = WaitingToRead /\ WaitingToWrite' = WaitingToWrite
      /\ ThreadsAt({"wsleep"})' # {} => ThreadsAt({"wawake"})' # {}
      /\ ThreadsAt({"rsleep"})' # {} => WaitingToWrite' # {}
  <2>1. CASE write_waiters # 0 \/ read_waiters = 0
    <3>1. /\ at' \in [Threads -> Place] /\ at'[t] = "idle"
          /\ \A u \in Threads \ {t} :
               at'[u] = at[u] \/ (at[u] = "wsleep" /\ at'[u] = "wawake")
          /\ WaitingToRead' = WaitingToRead /\ WaitingToWrite' = WaitingToWrite
          /\ ThreadsAt({"wsleep"})' # {} => ThreadsAt({"wawake"})' # {}
      <4>1. IF write_waiters # 0 THEN NotifyOneWriter(t) ELSE NotifyNobody(t)
        BY <2>1 DEF WriteUnlock
      <4>2. QED
        BY <1>1, <4>1, Leaves DEF IInv
    <3>2. ThreadsAt({"rsleep"})' # {} => WaitingToRead' # {}
      BY DEF WaitingToRead, ThreadsAt
    <3>3. WaitingToRead # {} => WaitingToWrite # {}
      BY <2>1, CountersTell
    <3>4. QED
      BY <3>1, <3>2, <3>3
  <2>2. CASE write_waiters = 0 /\ read_waiters # 0
    BY <1>1, <2>2, AllReadersNotified DEF WriteUnlock
  <2>3. QED
    BY <2>1, <2>2
<1>3. /\ Writing = {t} /\ Writing' = {} /\ Reading' = Reading
  BY <1>1, <1>2 DEF IInv, TypeOK, Exclusion, Reading, Writing, ThreadsAt
<1>4. CountersMatch'
  BY <1>1, <1>2, <1>3, FS_EmptySet
     DEF IInv, CountersMatch, Reading, Writing, WaitingToRead, WaitingToWrite
<1>5. TypeOK'
  BY <1>1, <1>2 DEF IInv, TypeOK
<1>6. Exclusion'
  BY <1>3 DEF Exclusion, Writing, ThreadsAt
<1>7. NoLostWakeup'
  BY <1>2 DEF NoLostWakeup, WaitingToWrite, ThreadsAt
<1>8. Abstract!ReleaseWrite(t)
  BY <1>3 DEF Abstract!ReleaseWrite, Reading, Writing
<1>9. QED
  BY <1>4, <1>5, <1>6, <1>7, <1>8 DEF IInv, AbstractStep, Abstract!Next

\* A thread that wakes without a notification keeps it.
LEMMA SpuriousWakeupKeeps ==
  ASSUME IInv, NEW t \in Threads, SpuriousWakeup(t)
  PROVE  IInv' /\ AbstractStep
<1>1. /\ Reading' = Reading /\ Writing' = Writing
      /\ WaitingToRead' = WaitingToRead /\ WaitingToWrite' = WaitingToWrite
  BY DEF SpuriousWakeup, IInv, TypeOK, Reading, Writing, WaitingToRead, WaitingToWrite,
         ThreadsAt
<1>2. TypeOK' /\ Exclusion'
  BY DEF SpuriousWakeup, counters, IInv, TypeOK, Place, Exclusion
<1>3. CountersMatch'
  BY <1>1 DEF SpuriousWakeup, counters, IInv, CountersMatch, Reading, Writing,
              WaitingToRead, WaitingToWrite
<1>4. NoLostWakeup'
  BY DEF SpuriousWakeup, IInv, TypeOK, NoLostWakeup, ThreadsAt
<1>5. AbstractStep
  BY <1>1 DEF AbstractStep, Abstract!vars, Reading, Writing
<1>6. QED
  BY <1>2, <1>3, <1>4, <1>5 DEF IInv

-----------------------------------------------------------------------------
\* Each step keeps it, and is one of ReadersWriters or none.
LEMMA StepKeeps == IInv /\ [Next]_vars => IInv' /\ AbstractStep
<1> SUFFICES ASSUME IInv, [Next]_vars PROVE IInv' /\ AbstractStep
  OBVIOUS
<1>1. ASSUME NEW t \in Threads, ReadLock(t)
      PROVE  IInv' /\ AbstractStep
  BY <1>1, ReadSleeps, ReadTakes DEF ReadLock
<1>2. ASSUME NEW t \in Threads, ReadRetry(t)
      PROVE  IInv' /\ AbstractStep
  BY <1>2, ReadSleeps, ReadTakes DEF ReadRetry, counters
<1>3. ASSUME NEW t \in Threads, WriteLock(t)
      PROVE  IInv' /\ AbstractStep
  BY <1>3, WriteSleeps, WriteTakes DEF WriteLock
<1>4. ASSUME NEW t \in Threads, WriteRetry(t)
      PROVE  IInv' /\ AbstractStep
  BY <1>4, WriteSleeps, WriteTakes DEF WriteRetry, counters
<1>5. CASE UNCHANGED vars
  BY <1>5 DEF vars, counters, IInv, TypeOK, CountersMatch, Exclusion, NoLostWakeup,
              ThreadsAt, AbstractStep, Abstract!vars
<1>6. QED
  BY <1>1, <1>2, <1>3, <1>4, <1>5, ReadUnlockKeeps, WriteUnlockKeeps, SpuriousWakeupKeeps
     DEF Next, Acquire, Retry, Release

\* The inductive invariant holds for any finite set of threads.
THEOREM LockInvariant == Spec => []IInv
  BY InitIInv, StepKeeps, PTL DEF Spec

\* Whatever the threads do, a writer never shares the lock.
THEOREM WritersExclude == Spec => []Exclusion
<1>1. IInv => Exclusion
  BY DEF IInv
<1>2. QED
  BY <1>1, LockInvariant, PTL

\* The types: no counter goes below zero and a thread is in one place.
THEOREM TypeCorrect == Spec => []TypeOK
<1>1. IInv => TypeOK
  BY DEF IInv
<1> QED
  BY LockInvariant, <1>1, PTL

\* The four counters always describe the threads, so the assertions of
\* WriteLock and WriteUnlock hold and no counter goes below zero.
THEOREM CountersAreRight == Spec => [](TypeOK /\ CountersMatch)
<1>1. IInv => TypeOK /\ CountersMatch
  BY DEF IInv
<1>2. QED
  BY <1>1, LockInvariant, PTL

\* Nobody is left asleep with nobody to wake them: notify_one in ReadUnlock
\* and the choice WriteUnlock makes between writers and readers suffice.
THEOREM WakeupsSuffice == Spec => []NoLostWakeup
<1>1. IInv => NoLostWakeup
  BY DEF IInv
<1>2. QED
  BY <1>1, LockInvariant, PTL

\* No reader is admitted while a writer waits.
THEOREM WritersFirst == Spec => WritePreference
<1>1. IInv /\ [Next]_vars
        => [\A t \in Threads : at[t] # "reading" /\ at'[t] = "reading"
              => ThreadsAt({"wsleep", "wawake"}) = {}]_vars
  <2> SUFFICES ASSUME IInv, Next, NEW t \in Threads, at[t] # "reading", at'[t] = "reading"
               PROVE  WaitingToWrite = {}
    BY DEF WaitingToWrite
  <2>1. PICK u \in Threads : Acquire(u) \/ Retry(u) \/ Release(u) \/ SpuriousWakeup(u)
    BY DEF Next
  <2>2. CASE ReadLock(u) \/ ReadRetry(u)
    BY <2>2, CountersTell DEF ReadLock, ReadRetry, ReadersBlocked, IInv, TypeOK, counters
  <2>3. CASE WriteLock(u) \/ WriteRetry(u) \/ SpuriousWakeup(u)
    BY <2>3 DEF WriteLock, WriteRetry, SpuriousWakeup, IInv, TypeOK
  <2>4. CASE ReadUnlock(u)
    BY <2>4, OneWriterNotified DEF ReadUnlock, NotifyNobody, IInv, TypeOK
  <2>5. CASE WriteUnlock(u)
    BY <2>5, OneWriterNotified
       DEF WriteUnlock, NotifyNobody, NotifyAllReaders, IInv, TypeOK
  <2>6. QED
    BY <2>1, <2>2, <2>3, <2>4, <2>5 DEF Acquire, Retry, Release
<1>2. QED
  BY <1>1, LockInvariant, PTL DEF Spec, WritePreference

\* ReadWriteLock implements the abstract readers-writer lock.
THEOREM ImplementsReadersWriters == Spec => AbstractSpec
<1>1. Init => Abstract!Init
  BY DEF Init, Abstract!Init, ThreadsAt
<1>2. QED
  BY <1>1, StepKeeps, LockInvariant, PTL
     DEF Spec, AbstractSpec, Abstract!Spec, AbstractStep
=============================================================================
