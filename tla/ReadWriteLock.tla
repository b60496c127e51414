---------------------------- MODULE ReadWriteLock ----------------------------
(***************************************************************************)
(* base::ReadWriteLock (src/base3/rwlock.h), a write-preferring lock made  *)
(* of a mutex, two condition variables and four counters.                  *)
(*                                                                         *)
(* One action is one critical section of lock_.  A thread that waits       *)
(* releases lock_ and sleeps; a notified thread is awake but must take     *)
(* lock_ again, and other threads may take it first.                       *)
(***************************************************************************)
EXTENDS Naturals, FiniteSets

CONSTANT Threads  \* the threads that use the lock

ASSUME ThreadsAssumption == IsFiniteSet(Threads)

VARIABLES
  readers,        \* readers_
  writers,        \* writers_
  read_waiters,   \* read_waiters_
  write_waiters,  \* write_waiters_
  at              \* where each thread is

counters == <<readers, writers, read_waiters, write_waiters>>
vars == <<counters, at>>

\* "idle"     holds nothing and is outside the lock
\* "rsleep"   in cond_read_.wait         "wsleep"  in cond_write_.wait
\* "rawake"   notified, without lock_    "wawake"  notified, without lock_
\* "reading"  between ReadLock and ReadUnlock
\* "writing"  between WriteLock and WriteUnlock
Place == {"idle", "rsleep", "rawake", "reading", "wsleep", "wawake", "writing"}

ThreadsAt(P) == {t \in Threads : at[t] \in P}

Init ==
  /\ readers = 0 /\ writers = 0 /\ read_waiters = 0 /\ write_waiters = 0
  /\ at = [t \in Threads |-> "idle"]

\* The test of ReadLock, before and after waiting.
ReadersBlocked == writers # 0 \/ write_waiters # 0

\* The test of WriteLock, before and after waiting.
WritersBlocked == readers # 0 \/ writers # 0

-----------------------------------------------------------------------------
\* The bug of a reader that ignores waiting writers once it is awake.
ReadRetryBarges(t) ==
  /\ at[t] = "rawake"
  /\ \/ /\ writers # 0
        /\ at' = [at EXCEPT ![t] = "rsleep"]
        /\ UNCHANGED counters
     \/ /\ writers = 0
        /\ read_waiters' = read_waiters - 1
        /\ readers' = readers + 1
        /\ at' = [at EXCEPT ![t] = "reading"]
        /\ UNCHANGED <<writers, write_waiters>>

\* ReadLock up to its return or its wait.
ReadLock(t) ==
  /\ at[t] = "idle"
  /\ \/ /\ ReadersBlocked
        /\ read_waiters' = read_waiters + 1
        /\ at' = [at EXCEPT ![t] = "rsleep"]
        /\ UNCHANGED <<readers, writers, write_waiters>>
     \/ /\ ~ReadersBlocked
        /\ readers' = readers + 1
        /\ at' = [at EXCEPT ![t] = "reading"]
        /\ UNCHANGED <<writers, read_waiters, write_waiters>>

\* ReadLock after cond_read_.wait returned: wait again, or take the lock.
ReadRetry(t) ==
  /\ at[t] = "rawake"
  /\ \/ /\ ReadersBlocked
        /\ at' = [at EXCEPT ![t] = "rsleep"]
        /\ UNCHANGED counters
     \/ /\ ~ReadersBlocked
        /\ read_waiters' = read_waiters - 1
        /\ readers' = readers + 1
        /\ at' = [at EXCEPT ![t] = "reading"]
        /\ UNCHANGED <<writers, write_waiters>>

\* WriteLock up to its return or its wait.
WriteLock(t) ==
  /\ at[t] = "idle"
  /\ \/ /\ WritersBlocked
        /\ write_waiters' = write_waiters + 1
        /\ at' = [at EXCEPT ![t] = "wsleep"]
        /\ UNCHANGED <<readers, writers, read_waiters>>
     \/ /\ ~WritersBlocked
        /\ writers' = 1
        /\ at' = [at EXCEPT ![t] = "writing"]
        /\ UNCHANGED <<readers, read_waiters, write_waiters>>

\* The bug of a wait tested by if instead of do ... while.
WriteRetryOnce(t) ==
  /\ at[t] = "wawake"
  /\ write_waiters' = write_waiters - 1
  /\ writers' = 1
  /\ at' = [at EXCEPT ![t] = "writing"]
  /\ UNCHANGED <<readers, read_waiters>>

\* WriteLock after cond_write_.wait returned.
WriteRetry(t) ==
  /\ at[t] = "wawake"
  /\ \/ /\ WritersBlocked
        /\ at' = [at EXCEPT ![t] = "wsleep"]
        /\ UNCHANGED counters
     \/ /\ ~WritersBlocked
        /\ write_waiters' = write_waiters - 1
        /\ writers' = 1
        /\ at' = [at EXCEPT ![t] = "writing"]
        /\ UNCHANGED <<readers, read_waiters>>

-----------------------------------------------------------------------------
\* cond_write_.notify_one after t left: one sleeping writer, if there is one.
NotifyOneWriter(t) ==
  \/ /\ ThreadsAt({"wsleep"}) = {}
     /\ at' = [at EXCEPT ![t] = "idle"]
  \/ \E w \in ThreadsAt({"wsleep"}) :
        at' = [at EXCEPT ![t] = "idle", ![w] = "wawake"]

\* cond_read_.notify_all after t left.
NotifyAllReaders(t) ==
  at' = [u \in Threads |-> IF u = t THEN "idle"
                           ELSE IF at[u] = "rsleep" THEN "rawake" ELSE at[u]]

NotifyNobody(t) == at' = [at EXCEPT ![t] = "idle"]

\* The bug of a ReadUnlock that notifies only while readers remain.
ReadUnlockLastSilent(t) ==
  /\ at[t] = "reading"
  /\ readers' = readers - 1
  /\ IF write_waiters # 0 /\ readers' # 0 THEN NotifyOneWriter(t) ELSE NotifyNobody(t)
  /\ UNCHANGED <<writers, read_waiters, write_waiters>>

ReadUnlock(t) ==
  /\ at[t] = "reading"
  /\ readers' = readers - 1
  /\ IF write_waiters # 0 THEN NotifyOneWriter(t) ELSE NotifyNobody(t)
  /\ UNCHANGED <<writers, read_waiters, write_waiters>>

\* The bug of a WriteUnlock that forgets the readers.
WriteUnlockWritersOnly(t) ==
  /\ at[t] = "writing"
  /\ writers' = 0
  /\ IF write_waiters # 0 THEN NotifyOneWriter(t) ELSE NotifyNobody(t)
  /\ UNCHANGED <<readers, read_waiters, write_waiters>>

\* The bug of a WriteUnlock that prefers the readers.
WriteUnlockReadersFirst(t) ==
  /\ at[t] = "writing"
  /\ writers' = 0
  /\ IF read_waiters # 0 THEN NotifyAllReaders(t)
     ELSE IF write_waiters # 0 THEN NotifyOneWriter(t) ELSE NotifyNobody(t)
  /\ UNCHANGED <<readers, read_waiters, write_waiters>>

WriteUnlock(t) ==
  /\ at[t] = "writing"
  /\ writers' = 0
  /\ IF write_waiters # 0 THEN NotifyOneWriter(t)
     ELSE IF read_waiters # 0 THEN NotifyAllReaders(t) ELSE NotifyNobody(t)
  /\ UNCHANGED <<readers, read_waiters, write_waiters>>

\* A condition variable may wake a waiter that nobody notified.
SpuriousWakeup(t) ==
  /\ \/ at[t] = "rsleep" /\ at' = [at EXCEPT ![t] = "rawake"]
     \/ at[t] = "wsleep" /\ at' = [at EXCEPT ![t] = "wawake"]
  /\ UNCHANGED counters
-----------------------------------------------------------------------------
Acquire(t) == ReadLock(t) \/ WriteLock(t)
Retry(t)   == ReadRetry(t) \/ WriteRetry(t)
Release(t) == ReadUnlock(t) \/ WriteUnlock(t)

Next == \E t \in Threads :
          Acquire(t) \/ Retry(t) \/ Release(t) \/ SpuriousWakeup(t)

\* A holder releases the lock and a notified thread gets lock_ again in the
\* end; no thread has to ask for the lock and no wakeup comes by itself.
Fairness == \A t \in Threads : WF_vars(Release(t)) /\ WF_vars(Retry(t))

Spec == Init /\ [][Next]_vars
FairSpec == Spec /\ Fairness
-----------------------------------------------------------------------------
TypeOK ==
  /\ readers \in Nat /\ writers \in {0, 1}
  /\ read_waiters \in Nat /\ write_waiters \in Nat
  /\ at \in [Threads -> Place]

\* The counters agree with the threads: the holders they count exist and a
\* waiter is counted from its first wait until it holds the lock, across
\* every wakeup and every wait that follows it.  ASSERT of lines 51 and 57.
CountersMatch ==
  /\ readers = Cardinality(ThreadsAt({"reading"}))
  /\ writers = Cardinality(ThreadsAt({"writing"}))
  /\ read_waiters = Cardinality(ThreadsAt({"rsleep", "rawake"}))
  /\ write_waiters = Cardinality(ThreadsAt({"wsleep", "wawake"}))

\* A writer holds the lock alone.
Exclusion ==
  \A t, u \in Threads :
    at[t] = "writing" /\ t # u => at[u] \notin {"reading", "writing"}

\* No lost wakeup.  While a writer sleeps somebody holds the lock, and will
\* notify, or another writer is awake and will; while a reader sleeps a
\* writer holds the lock or waits for it.
NoLostWakeup ==
  /\ ThreadsAt({"wsleep"}) # {}
       => ThreadsAt({"reading", "writing", "wawake"}) # {}
  /\ ThreadsAt({"rsleep"}) # {}
       => ThreadsAt({"writing", "wsleep", "wawake"}) # {}

\* Write preference, as the class comment has it: no reader gets the lock
\* while a writer waits, however long the reader has been waiting itself.
WritePreference ==
  [][\A t \in Threads :
       at[t] # "reading" /\ at'[t] = "reading"
         => ThreadsAt({"wsleep", "wawake"}) = {}]_vars

\* The lock is a readers-writer lock: it implements ReadersWriters.
Abstract == INSTANCE ReadersWriters
              WITH readHolders <- ThreadsAt({"reading"}),
                   writeHolders <- ThreadsAt({"writing"})
AbstractSpec == Abstract!Spec

\* A waiting writer keeps the readers out until some writer has had the lock.
SomeWriterGetsIn ==
  write_waiters # 0 ~> writers # 0

\* Readers are starved by writers only: a reader gets the lock unless writers
\* keep on asking for it.
ReaderGetsIn ==
  \A t \in Threads :
    <>[](ThreadsAt({"writing", "wsleep", "wawake"}) = {})
      => (at[t] \in {"rsleep", "rawake"} ~> at[t] = "reading")
=============================================================================
