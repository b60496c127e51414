----------------------------- MODULE AsyncRunner -----------------------------
(***************************************************************************)
(* base::AsyncRunner with base::Start, base::Stop, the three base::Post    *)
(* and SurePost (src/base3/asyncall.h, asyncall.cc, common.cc): threads    *)
(* inside io_service::run take posted calls, Check adds a thread when they *)
(* are busy, and the owner starts and stops the whole again and again.     *)
(*                                                                         *)
(* The io_service keeps what was posted across stop and reset; its run     *)
(* returns once it is stopped or has nothing outstanding.  A call that is  *)
(* taken is counted busy in the same step, and one that has returned is    *)
(* counted off and posted again in one step: only a log reads in between.  *)
(* A posted function that throws ends the process and is left out;         *)
(* SurePost catches what its function throws.                              *)
(***************************************************************************)
EXTENDS Naturals, Sequences, FiniteSets

CONSTANTS Threads,      \* identities for the threads that are alive
          Calls,        \* the calls that are posted, each once by its caller
          KindsOf(_),   \* the kinds of Post that are tried with a call
          InitSize,     \* thread_size_ of a new AsyncRunner
          MaxSize,      \* max_thread_size_
          MaxRuns,      \* bound of the model: count or retry of one Post
          MaxStarts     \* bound of the model: calls of base::Start

\* What is asked of the constants.
RunnerAssumption ==
  /\ IsFiniteSet(Threads) /\ IsFiniteSet(Calls)
  /\ Calls \cap {"none", "starting", "idle"} = {}
  /\ InitSize \in Nat /\ MaxSize \in Nat /\ MaxRuns \in Nat /\ MaxStarts \in Nat

VARIABLES
  owner,        \* the thread that calls Start and Stop: where it is
  starts,       \* history: calls of Start
  stop,         \* stop_
  work,         \* whether common.cc's work_ holds the io_service
  stopped,      \* the io_service is stopped
  thread_size,  \* thread_size_
  group,        \* the threads of g_ that have not been joined
  group_size,   \* g_.size(): joined threads stay in the group
  thread,       \* thread[t]: "none", "starting", "idle", or the call it runs
  check,        \* where the thread in Check is
  created,      \* the threads CreateOne has made and not added to g_ yet
  busy, task,   \* busy_ and task_
  call,         \* call[c]: its kind, where it is, runs or retries left
  ready         \* the io_service's queue of calls that can run

ownerVars   == <<owner, starts, stop, work>>
checkVars   == <<check, created>>
groupVars   == <<thread_size, group, group_size>>
callVars    == <<busy, task, call, ready>>
vars == <<ownerVars, checkVars, groupVars, callVars, stopped, thread>>

\* "now" Post(f), "count" Post(f, ms, n), "forever" Post(f, ms, 0), "sure"
\* SurePost(f, ms, n).  Post(f, ms) does what Post(f, ms, 1) does.
Kinds == {"now", "count", "forever", "sure"}
Places == {"caller", "timer", "ready", "running", "done"}

Init ==
  /\ owner = "off" /\ starts = 0 /\ stop = FALSE /\ work = FALSE
  /\ stopped = FALSE
  /\ thread_size = InitSize /\ group = {} /\ group_size = 0
  /\ thread = [t \in Threads |-> "none"]
  /\ check = "none" /\ created = {}
  /\ busy = 0 /\ task = 0
  /\ call = [c \in Calls |-> [kind |-> "now", place |-> "caller", left |-> 0,
                              failed |-> FALSE]]
  /\ ready = <<>>

\* A TaskInc comes with Post(f) and SurePost only, a BusyInc with Post(f) only.
CountsAsTask(c) == call[c].kind \in {"now", "sure"}
CountsAsBusy(c) == call[c].kind = "now"

\* io_service::outstanding_work: its work object, timers, calls not finished.
Outstanding ==
  work \/ \E c \in Calls : call[c].place \in {"timer", "ready", "running"}

\* CreateOne n times: identities that no thread has.  They are interchangeable,
\* so one choice stands for all.
Free == {t \in Threads : thread[t] = "none" /\ t \notin group}
CanCreate(n) == \E new \in SUBSET Free : Cardinality(new) = n
Created(n) == CHOOSE new \in SUBSET Free : Cardinality(new) = n

-----------------------------------------------------------------------------
(* The callers, at any time, whether the runner is on or not. *)

Post(c, kind, n) ==
  /\ call[c].place = "caller" /\ kind \in KindsOf(c)
  /\ n > 0 <=> kind \in {"count", "sure"}
  /\ LET place == IF kind = "now" THEN "ready" ELSE "timer"
     IN  call' = [call EXCEPT ![c] = [kind |-> kind, place |-> place,
                                      left |-> n, failed |-> FALSE]]
  /\ ready' = IF kind = "now" THEN Append(ready, c) ELSE ready
  /\ task' = IF kind \in {"now", "sure"} THEN task + 1 ELSE task
  /\ UNCHANGED <<ownerVars, checkVars, groupVars, stopped, thread, busy>>

-----------------------------------------------------------------------------
(* A thread inside io_service::run. *)

\* run returns at once from a stopped service, and stops an idle one.
Enter(t) ==
  /\ thread[t] = "starting"
  /\ LET serves == ~ stopped /\ Outstanding
     IN  /\ thread' = [thread EXCEPT ![t] = IF serves THEN "idle" ELSE "none"]
         /\ stopped' = ~ serves
  /\ UNCHANGED <<ownerVars, checkVars, groupVars, callVars>>

\* run returns because the service was stopped or has run out of work.
Leave(t) ==
  /\ thread[t] = "idle"
  /\ stopped \/ ~ Outstanding
  /\ thread' = [thread EXCEPT ![t] = "none"]
  /\ stopped' = TRUE
  /\ UNCHANGED <<ownerVars, checkVars, groupVars, callVars>>

\* The reactor, run by whichever thread is idle, finds a timer expired.
Expire(c) ==
  /\ call[c].place = "timer"
  /\ ~ stopped /\ \E t \in Threads : thread[t] = "idle"
  /\ call' = [call EXCEPT ![c].place = "ready"]
  /\ ready' = Append(ready, c)
  /\ UNCHANGED <<ownerVars, checkVars, groupVars, stopped, thread, busy, task>>

Take(t) ==
  /\ thread[t] = "idle" /\ ~ stopped /\ ready # <<>>
  /\ LET c == Head(ready)
     IN  /\ thread' = [thread EXCEPT ![t] = c]
         /\ call' = [call EXCEPT ![c].place = "running"]
         /\ busy' = IF CountsAsBusy(c) THEN busy + 1 ELSE busy
  /\ ready' = Tail(ready)
  /\ UNCHANGED <<ownerVars, checkVars, groupVars, stopped, task>>

\* WrappedCountCall posts itself again; WrappedSureCall returns whether it
\* should be, to a WrappedDelayCall that drops the answer.
After(c, failed) ==
  LET left == IF call[c].left > 0 THEN call[c].left - 1 ELSE 0
      again == \/ call[c].kind = "forever"
               \/ call[c].kind = "count" /\ left > 0
  IN  [call[c] EXCEPT !.place = IF again THEN "timer" ELSE "done",
                      !.left = left, !.failed = failed]

Return(t) ==
  /\ thread[t] \in Calls
  /\ LET c == thread[t]
     IN  /\ \E failed \in BOOLEAN : /\ failed => call[c].kind = "sure"
                                    /\ call' = [call EXCEPT ![c] = After(c, failed)]
         /\ busy' = IF CountsAsBusy(c) THEN busy - 1 ELSE busy
         /\ task' = IF CountsAsTask(c) THEN task - 1 ELSE task
  /\ thread' = [thread EXCEPT ![t] = "idle"]
  /\ UNCHANGED <<ownerVars, checkVars, groupVars, stopped, ready>>

-----------------------------------------------------------------------------
(* The thread in Check. *)

\* The condition of while (!stop_).
CheckLoop ==
  /\ check = "loop"
  /\ check' = IF stop THEN "ended" ELSE "asleep"
  /\ UNCHANGED <<ownerVars, groupVars, callVars, created, stopped, thread>>

\* The bug of a Check that adds a thread only when calls wait for one.
CheckOverloaded ==
  /\ check = "asleep"
  /\ check' = IF busy > thread_size /\ thread_size < MaxSize
                THEN "resize" ELSE "loop"
  /\ UNCHANGED <<ownerVars, groupVars, callVars, created, stopped, thread>>

\* The second is over: is there a thread to spare?
CheckBusy ==
  /\ check = "asleep"
  /\ check' = IF busy + 2 > thread_size /\ thread_size < MaxSize
                THEN "resize" ELSE "loop"
  /\ UNCHANGED <<ownerVars, groupVars, callVars, created, stopped, thread>>

\* set_thread_size(thread_size() + 1): nothing if the group, joined threads
\* included, has as many already.
Resize ==
  /\ check = "resize"
  /\ IF thread_size + 1 <= group_size
       THEN check' = "loop" /\ UNCHANGED <<created, thread>>
       ELSE /\ CanCreate(1)
            /\ thread' = [t \in Threads |->
                            IF t \in Created(1) THEN "starting" ELSE thread[t]]
            /\ created' = Created(1)
            /\ check' = "add"
  /\ UNCHANGED <<ownerVars, groupVars, callVars, stopped>>

\* add_thread and the end of set_thread_size; join_all keeps the group locked.
AddThread ==
  /\ check = "add" /\ owner # "joining"
  /\ group' = group \cup created
  /\ group_size' = group_size + 1
  /\ thread_size' = group_size + 1
  /\ created' = {}
  /\ check' = "loop"
  /\ UNCHANGED <<ownerVars, callVars, stopped, thread>>

-----------------------------------------------------------------------------
(* The owner. *)

\* base::Start: work_, reset, thread_size_ threads, the checking thread.
Start ==
  /\ owner = "off" /\ starts < MaxStarts
  /\ work' = TRUE /\ stop' = FALSE /\ stopped' = FALSE
  /\ CanCreate(thread_size)
  /\ thread' = [t \in Threads |->
                  IF t \in Created(thread_size) THEN "starting" ELSE thread[t]]
  /\ group' = group \cup Created(thread_size)
  /\ group_size' = group_size + thread_size
  /\ check' = "loop"
  /\ owner' = "on" /\ starts' = starts + 1
  /\ UNCHANGED <<callVars, thread_size, created>>

\* base::Stop, first statement.
DropWork ==
  /\ owner = "on"
  /\ work' = FALSE
  /\ owner' = "stopping"
  /\ UNCHANGED <<checkVars, groupVars, callVars, starts, stop, stopped, thread>>

SetStop ==
  /\ owner = "stopping" /\ ~ stop
  /\ stop' = TRUE
  /\ UNCHANGED <<checkVars, groupVars, callVars, owner, starts, work, stopped, thread>>

StopService ==
  /\ owner = "stopping" /\ stop
  /\ stopped' = TRUE
  /\ owner' = "joining"
  /\ UNCHANGED <<checkVars, groupVars, callVars, starts, stop, work, thread>>

\* The bug of a Stop that does not wait for the calls that run.
JoinNone ==
  /\ owner = "joining"
  /\ group' = {}
  /\ owner' = "joinCheck"
  /\ UNCHANGED <<checkVars, callVars, thread_size, group_size, starts, stop, work,
                 stopped, thread>>

\* g_.join_all has joined every thread.
JoinAll ==
  /\ owner = "joining"
  /\ \A t \in group : thread[t] = "none"
  /\ group' = {}
  /\ owner' = "joinCheck"
  /\ UNCHANGED <<checkVars, callVars, thread_size, group_size, starts, stop, work,
                 stopped, thread>>

JoinCheck ==
  /\ owner = "joinCheck" /\ check = "ended"
  /\ check' = "none"
  /\ owner' = "off"
  /\ UNCHANGED <<groupVars, callVars, created, starts, stop, work, stopped, thread>>

-----------------------------------------------------------------------------
Serve(t) == Enter(t) \/ Leave(t) \/ Take(t) \/ Return(t)
Check == CheckLoop \/ CheckBusy \/ Resize \/ AddThread
Stop == SetStop \/ StopService \/ JoinAll \/ JoinCheck

Next ==
  \/ \E c \in Calls, kind \in Kinds, n \in 0 .. MaxRuns : Post(c, kind, n)
  \/ \E t \in Threads : Serve(t)
  \/ \E c \in Calls : Expire(c)
  \/ Check
  \/ Start \/ DropWork \/ Stop

\* Threads are scheduled, the functions posted return, timers expire, and a
\* Stop that has begun goes on.  Nobody has to Post, Start or Stop.
Fairness ==
  /\ \A t \in Threads : WF_vars(Serve(t))
  /\ \A c \in Calls : WF_vars(Expire(c))
  /\ WF_vars(Check) /\ WF_vars(Stop)

Spec == Init /\ [][Next]_vars
FairSpec == Spec /\ Fairness
-----------------------------------------------------------------------------
TypeOK ==
  /\ owner \in {"off", "on", "stopping", "joining", "joinCheck"}
  /\ starts \in Nat /\ stop \in BOOLEAN /\ work \in BOOLEAN /\ stopped \in BOOLEAN
  /\ thread_size \in Nat /\ group \in SUBSET Threads /\ group_size \in Nat
  /\ thread \in [Threads -> {"none", "starting", "idle"} \cup Calls]
  /\ check \in {"none", "loop", "asleep", "resize", "add", "ended"}
  /\ created \in SUBSET Threads
  /\ busy \in Nat /\ task \in Nat
  /\ call \in [Calls -> [kind : Kinds, place : Places, left : Nat,
                         failed : BOOLEAN]]
  /\ ready \in Seq(Calls)

\* A Stop that has returned leaves at most one thread, which is still to be
\* joined by the next: the one that Check was adding while Stop joined the
\* others.  It may still run a call that it took before, but takes no other.
OffLeavesOneThread ==
  owner = "off" => /\ \A t \in Threads : thread[t] # "none" => group = {t}
                   /\ starts > 0 => stopped

\* What the counters Check and the performance log read are about: the calls
\* of Post(f) that run, and those of Post(f) and SurePost that are not over.
CountersMatch ==
  /\ busy = Cardinality({c \in Calls : /\ call[c].place = "running"
                                       /\ CountsAsBusy(c)})
  /\ task = Cardinality({c \in Calls : /\ call[c].place \notin {"caller", "done"}
                                       /\ CountsAsTask(c)})

\* A call is in one place: in the queue once if it can run, with one thread
\* if it runs; a repeated call never overlaps with itself.
OnePlace ==
  /\ \A c \in Calls :
       call[c].place = "ready" <=> \E i \in 1 .. Len(ready) : ready[i] = c
  /\ \A i, j \in 1 .. Len(ready) : ready[i] = ready[j] => i = j
  /\ \A c \in Calls : call[c].place = "running" <=> \E t \in Threads : thread[t] = c
  /\ \A t, u \in Threads : thread[t] \in Calls /\ thread[t] = thread[u] => t = u

\* Check adds threads as long as fewer than two are spare, but only until the
\* first Stop: joined threads stay in g_ and set_thread_size counts them.
GrowsWhenBusy ==
  ~ <>[](owner = "on" /\ starts = 1 /\ busy + 2 > thread_size /\ thread_size < MaxSize)

\* What the comment at SurePost promises: a call that failed is over only
\* when its retries are used up.
FailedIsRetried ==
  \A c \in Calls : call[c].place = "done" /\ call[c].failed => call[c].left = 0
=============================================================================
