------------------------------ MODULE ThreadPool ------------------------------
(***************************************************************************)
(* base::ThreadPool (src/base3/threadpool.h, threadpool.cc): a list of     *)
(* Workers, each a MessageQueue with a thread of its own.  Post picks a    *)
(* Worker, or creates one, and posts to it; set_size creates and deletes.  *)
(*                                                                         *)
(* Posters are other threads and the Workers themselves, when a message    *)
(* posts another.  One thread calls set_size, or Stop and then Join.       *)
(* GetIdle reads the Workers one by one with mutex_, Stop closes them one  *)
(* by one without it, and Shrunk joins threads with it.  What is           *)
(* undefined, a use of a deleted Worker, of i_ when its element is erased, *)
(* or of the first of no Workers, ends the behaviour in "undefined".       *)
(***************************************************************************)
EXTENDS Integers, Sequences, FiniteSets, SequencesExt

CONSTANTS Workers,   \* identities for the Workers ever created
          Posters,   \* the other threads that post
          Messages,  \* the messages they post, each once
          Nested,    \* those whose Run posts another message
          InitSize,  \* init_size_
          MaxSize,   \* max_size_ to begin with
          MinBusy,   \* what min_busy_ starts from: 0xffff
          Resizes,   \* the sizes and maximal sizes that set_size is given
          MaxSets    \* bound of the model: calls of set_size and Stop

\* What is asked of the constants.
PoolAssumption ==
  /\ IsFiniteSet(Workers) /\ IsFiniteSet(Posters)
  /\ InitSize \in 0 .. Cardinality(Workers) /\ MaxSize \in Nat /\ MinBusy \in Nat
  /\ Resizes \subseteq Nat \X Nat /\ MaxSets \in Nat

\* The message that the Run of a Nested one posts.
Inner == "inner"

VARIABLES
  workers,   \* workers_
  cursor,    \* i_: a Worker, or "end"
  max_size,  \* max_size_
  worker,    \* worker[w]: where its thread is, "none" before it is created
  closed,    \* the Workers whose quit_ is set
  queue,     \* queue[w]: its messages
  busy,      \* busy[w]: its busy_
  poster,    \* poster[p]: where p is in Post
  message,   \* message[p]: what p posts
  target,    \* target[p]: idle_worker_, then the Worker that GetIdle returned
  scanned,   \* scanned[p]: how many Workers p's GetIdle has read
  min_busy,  \* min_busy[p]: its min_busy_
  resizer,   \* where the thread in set_size, Stop or Join is
  wanted,    \* Shrunk's size, or the Workers that set_size has to create
  limit,     \* the max_size of set_size
  at,        \* Shrunk's or Stop's position in the list
  joining,   \* the Workers that Shrunk or Join has to join
  sets,      \* calls of set_size and Stop
  posted,    \* history: the messages posted to a Worker
  undefined, \* history: "none", or what was used after it was gone
  erased     \* history: erased[p], the Workers that Shrunk has erased since
             \* p's GetIdle took the mutex

workerVars  == <<worker, closed, queue, busy>>
posterVars  == <<poster, message, target, scanned, min_busy, posted>>
resizerVars == <<max_size, resizer, wanted, limit, at, joining, sets>>
vars == <<workers, cursor, workerVars, posterVars, resizerVars, undefined, erased>>

Actors == Posters \cup Workers
Nobody == "nobody"

\* The Workers of the constructor, one choice of identities for all.
First == CHOOSE first \in [1 .. InitSize -> Workers] : IsInjective(first)

Init ==
  /\ workers = First /\ max_size = MaxSize
  /\ cursor = IF InitSize = 0 THEN "end" ELSE First[1]
  /\ worker = [w \in Workers |-> IF w \in ToSet(First) THEN "test" ELSE "none"]
  /\ closed = {} /\ queue = [w \in Workers |-> <<>>]
  /\ busy = [w \in Workers |-> 0]
  /\ poster = [p \in Actors |-> "idle"] /\ message = [p \in Actors |-> Nobody]
  /\ target = [p \in Actors |-> Nobody] /\ posted = {}
  /\ scanned = [p \in Actors |-> 0] /\ min_busy = [p \in Actors |-> 0]
  /\ resizer = "idle" /\ wanted = 0 /\ limit = 0 /\ at = 1 /\ sets = 0
  /\ joining = {}
  /\ undefined = "none" /\ erased = [p \in Actors |-> {}]

Defined == undefined = "none"

\* The bug of a Join that does not copy the list and keeps mutex_ instead.
MutexFreeOfJoin ==
  /\ resizer \notin {"shrink", "deleting", "joining"}
  /\ \A p \in Actors : poster[p] # "scan"

\* mutex_: Shrunk keeps it from its beginning to its end, GetIdle while it
\* goes through the Workers.
MutexFree ==
  /\ resizer \notin {"shrink", "deleting"}
  /\ \A p \in Actors : poster[p] # "scan"

Unborn == {w \in Workers : worker[w] = "none"}

\* Create, whose threads are interchangeable: list and Worker after it.
Created(w) ==
  /\ w = CHOOSE u \in Unborn : TRUE
  /\ worker' = [worker EXCEPT ![w] = "test"]
  /\ workers' = Append(workers, w)

\* notify_all of the Workers in W: those that wait in Process go on.
Notified(W) == [w \in Workers |-> IF w \in W /\ worker[w] = "waiting" THEN "woken" ELSE worker[w]]

-----------------------------------------------------------------------------
(* A Worker's thread: MessageQueue's Process and ProcessAll. *)

TestQuit(w) ==
  /\ Defined /\ worker[w] = "test"
  /\ worker' = [worker EXCEPT ![w] = IF w \in closed THEN "ended" ELSE "enter"]
  /\ UNCHANGED <<workers, cursor, closed, queue, busy, posterVars,
                 resizerVars, undefined, erased>>

\* It waits if there is no message, though Close may have come since TestQuit.
Enter(w) ==
  /\ Defined /\ worker[w] = "enter"
  /\ worker' = [worker EXCEPT ![w] = IF queue[w] = <<>> THEN "waiting" ELSE "woken"]
  /\ UNCHANGED <<workers, cursor, closed, queue, busy, posterVars,
                 resizerVars, undefined, erased>>

\* boost::condition may wake a waiter that nobody notified.
SpuriousWakeup(w) ==
  /\ Defined /\ worker[w] = "waiting"
  /\ worker' = [worker EXCEPT ![w] = "woken"]
  /\ UNCHANGED <<workers, cursor, closed, queue, busy, posterVars,
                 resizerVars, undefined, erased>>

\* One turn of ProcessAll's loop up to its unlock.  A Nested message posts
\* another while it runs.
Pop(w) ==
  /\ queue[w] # <<>>
  /\ worker' = [worker EXCEPT ![w] = "running"]
  /\ queue' = [queue EXCEPT ![w] = Tail(@)]
  /\ IF Head(queue[w]) \in Nested
       THEN /\ poster' = [poster EXCEPT ![w] = "lock"]
            /\ message' = [message EXCEPT ![w] = Inner]
       ELSE UNCHANGED <<poster, message>>
  /\ UNCHANGED <<workers, cursor, closed, target, scanned, min_busy, posted,
                 resizerVars, undefined, erased>>

\* The end of ProcessAll.
Finish(w) ==
  /\ queue[w] = <<>>
  /\ worker' = [worker EXCEPT ![w] = "test"]
  /\ busy' = [busy EXCEPT ![w] = 0]
  /\ UNCHANGED <<workers, cursor, closed, queue, posterVars, resizerVars,
                 undefined, erased>>

Drain(w) ==
  /\ Defined /\ worker[w] = "woken"
  /\ \/ Pop(w) /\ busy' = [busy EXCEPT ![w] = Len(queue[w])]
     \/ Finish(w)

\* The Run of the message has returned.
Relock(w) ==
  /\ Defined /\ worker[w] = "running" /\ poster[w] = "idle"
  /\ \/ Pop(w) /\ UNCHANGED busy
     \/ Finish(w)

-----------------------------------------------------------------------------
(* Post and GetIdle. *)

Post(p, m) ==
  /\ Defined /\ p \in Posters /\ poster[p] = "idle"
  /\ m \notin posted /\ \A q \in Actors : message[q] # m
  /\ poster' = [poster EXCEPT ![p] = "lock"]
  /\ message' = [message EXCEPT ![p] = m]
  /\ UNCHANGED <<workers, cursor, workerVars, target, scanned, min_busy, posted,
                 resizerVars, undefined, erased>>

\* GetIdle takes mutex_, and leaves it at once when there are no Workers.
Lock(p) ==
  /\ Defined /\ poster[p] = "lock" /\ MutexFree
  /\ poster' = [poster EXCEPT ![p] = IF workers = <<>> THEN "choose" ELSE "scan"]
  /\ target' = [target EXCEPT ![p] = Nobody]
  /\ scanned' = [scanned EXCEPT ![p] = 0]
  /\ min_busy' = [min_busy EXCEPT ![p] = MinBusy]
  /\ UNCHANGED <<workers, cursor, workerVars, message, posted, resizerVars, undefined,
                 erased>>

\* i_++ from w.
After(w) == LET i == CHOOSE i \in DOMAIN workers : workers[i] = w
            IN  IF i = Len(workers) THEN "end" ELSE workers[i + 1]

\* One turn of GetIdle's loop: the Worker at i_ is returned if it is not busy,
\* and kept in mind if it is less busy than those before.
Scan(p) ==
  /\ Defined /\ poster[p] = "scan"
  /\ IF cursor # "end" /\ cursor \notin ToSet(workers)
       THEN undefined' = "cursor" /\ UNCHANGED <<cursor, poster, target, scanned, min_busy>>
       ELSE LET w    == IF cursor = "end" THEN workers[1] ELSE cursor
                less == busy[w] = 0 \/ busy[w] < min_busy[p]
            IN  /\ cursor' = After(w)
                /\ scanned' = [scanned EXCEPT ![p] = IF busy[w] = 0 THEN 0 ELSE @ + 1]
                /\ target' = [target EXCEPT ![p] = IF less THEN w ELSE @]
                /\ min_busy' = [min_busy EXCEPT ![p] = IF less THEN busy[w] ELSE @]
                /\ poster' = [poster EXCEPT ![p] = CASE busy[w] = 0 -> "post"
                                                    [] busy[w] # 0 /\ scanned'[p] >= Len(workers) -> "choose"
                                                    [] OTHER -> "scan"]
                /\ UNCHANGED undefined
  /\ UNCHANGED <<workers, workerVars, message, posted, resizerVars, erased>>

\* Without mutex_: a new Worker, or the least busy, or else the first.
Choose(p) ==
  /\ Defined /\ poster[p] = "choose"
  /\ poster' = [poster EXCEPT ![p] = CASE scanned[p] < max_size -> "create"
                                      [] scanned[p] >= max_size /\ target[p] # Nobody -> "post"
                                      [] OTHER -> "first"]
  /\ scanned' = [scanned EXCEPT ![p] = 0] /\ min_busy' = [min_busy EXCEPT ![p] = 0]
  /\ UNCHANGED <<workers, cursor, workerVars, message, target, posted, resizerVars,
                 undefined, erased>>

\* The section of Create.
Create(p) ==
  /\ Defined /\ poster[p] = "create" /\ MutexFree
  /\ \E w \in Unborn :
        /\ Created(w)
        /\ target' = [target EXCEPT ![p] = w]
  /\ poster' = [poster EXCEPT ![p] = "post"]
  /\ UNCHANGED <<cursor, closed, queue, busy, message, scanned, min_busy, posted,
                 resizerVars, undefined, erased>>

\* All were busier than MinBusy: the first of those there are now.
TakeFirst(p) ==
  /\ Defined /\ poster[p] = "first" /\ MutexFree
  /\ IF workers = <<>>
       THEN undefined' = "first" /\ UNCHANGED <<cursor, poster, target>>
       ELSE /\ cursor' = workers[1]
            /\ target' = [target EXCEPT ![p] = workers[1]]
            /\ poster' = [poster EXCEPT ![p] = "post"]
            /\ UNCHANGED undefined
  /\ UNCHANGED <<workers, workerVars, message, scanned, min_busy, posted, resizerVars,
                 erased>>

\* MessageQueue's Post, of a Worker that may have been deleted since: it
\* pushes, and notifies after its unlock.
PostTo(p) ==
  /\ Defined /\ poster[p] = "post"
  /\ IF worker[target[p]] = "deleted"
       THEN undefined' = "worker" /\ UNCHANGED <<queue, posted, poster, message>>
       ELSE /\ queue' = [queue EXCEPT ![target[p]] = Append(@, message[p])]
            /\ posted' = posted \cup {message[p]}
            /\ poster' = [poster EXCEPT ![p] = "notify"]
            /\ message' = [message EXCEPT ![p] = Nobody]
            /\ UNCHANGED undefined
  /\ UNCHANGED <<workers, cursor, worker, closed, busy, target, scanned,
                 min_busy, resizerVars, erased>>

Notify(p) ==
  /\ Defined /\ poster[p] = "notify"
  /\ IF worker[target[p]] = "deleted"
       THEN undefined' = "worker" /\ UNCHANGED <<worker, poster, target, erased>>
       ELSE /\ worker' = Notified({target[p]})
            /\ poster' = [poster EXCEPT ![p] = "idle"]
            /\ target' = [target EXCEPT ![p] = Nobody]
            /\ erased' = [erased EXCEPT ![p] = {}]
            /\ UNCHANGED undefined
  /\ UNCHANGED <<workers, cursor, closed, queue, busy, message, scanned, min_busy,
                 posted, resizerVars>>

-----------------------------------------------------------------------------
(* set_size, Stop and Join. *)

\* The size is read without mutex_; Shrunk gets the size that is wanted and
\* takes it for the number of Workers to delete.
SetSize(size, max) ==
  /\ Defined /\ resizer = "idle" /\ sets < MaxSets
  /\ sets' = sets + 1
  /\ resizer' = CASE Len(workers) > size -> "lock"
                  [] Len(workers) < size -> "inflate"
                  [] OTHER -> "limit"
  /\ wanted' = IF Len(workers) > size THEN size ELSE size - Len(workers)
  /\ limit' = max
  /\ UNCHANGED <<workers, cursor, workerVars, posterVars, max_size, at, joining,
                 undefined, erased>>

Inflate ==
  /\ Defined /\ resizer = "inflate" /\ MutexFree
  /\ \E w \in Unborn : Created(w)
  /\ wanted' = wanted - 1
  /\ resizer' = IF wanted = 1 THEN "limit" ELSE "inflate"
  /\ UNCHANGED <<cursor, closed, queue, busy, posterVars, max_size, limit, at,
                 joining, sets, undefined, erased>>

LockShrunk ==
  /\ Defined /\ resizer = "lock" /\ MutexFree
  /\ resizer' = "shrink" /\ at' = 1
  /\ UNCHANGED <<workers, cursor, workerVars, posterVars, max_size, wanted, limit,
                 joining, sets, undefined, erased>>

\* Close, which sets quit_ and notifies without the mutex of the queue: a
\* thread between TestQuit and Enter sees neither.
Close(W) ==
  /\ closed' = closed \cup W
  /\ worker' = Notified(W)

\* The bug of a Worker that is deleted and stays in the list.
ShrunkKeepsListed ==
  /\ Defined /\ resizer = "shrink" /\ at <= Len(workers)
  /\ IF queue[workers[at]] = <<>>
       THEN /\ Close({workers[at]})
            /\ joining' = {workers[at]}
            /\ resizer' = "deleting"
            /\ UNCHANGED <<workers, erased, at>>
       ELSE /\ at' = at + 1
            /\ UNCHANGED <<workers, closed, worker, joining, erased, resizer>>
  /\ UNCHANGED <<cursor, queue, busy, posterVars, max_size, wanted, limit,
                 sets, undefined>>

\* The next Worker of the list: one whose queue is empty, although it may be
\* running a message, is erased and closed.
Shrunk ==
  /\ Defined /\ resizer = "shrink" /\ at <= Len(workers)
  /\ IF queue[workers[at]] = <<>>
       THEN /\ Close({workers[at]})
            /\ joining' = {workers[at]}
            /\ erased' = [p \in Actors |-> IF poster[p] \in {"idle", "lock"} THEN {}
                                           ELSE erased[p] \cup {workers[at]}]
            /\ workers' = RemoveAt(workers, at)
            /\ resizer' = "deleting"
            /\ UNCHANGED at
       ELSE /\ at' = at + 1
            /\ UNCHANGED <<workers, closed, worker, joining, erased, resizer>>
  /\ UNCHANGED <<cursor, queue, busy, posterVars, max_size, wanted, limit,
                 sets, undefined>>

\* ~Worker has joined its thread: the Worker is gone, and what it was posted
\* meanwhile with it.
Delete ==
  /\ Defined /\ resizer = "deleting"
  /\ \A w \in joining : worker[w] = "ended"
  /\ worker' = [w \in Workers |-> IF w \in joining THEN "deleted" ELSE worker[w]]
  /\ queue' = [w \in Workers |-> IF w \in joining THEN <<>> ELSE queue[w]]
  /\ joining' = {}
  /\ wanted' = wanted - 1
  /\ resizer' = IF wanted = 1 THEN "limit" ELSE "shrink"
  /\ UNCHANGED <<workers, cursor, closed, busy, posterVars, max_size, limit, at,
                 sets, undefined, erased>>

\* The end of the list.
UnlockShrunk ==
  /\ Defined /\ resizer = "shrink" /\ at > Len(workers)
  /\ resizer' = "limit"
  /\ UNCHANGED <<workers, cursor, workerVars, posterVars, max_size, wanted, limit, at,
                 joining, sets, undefined, erased>>

\* The end of set_size: 0 keeps max_size_.
SetMaxSize ==
  /\ Defined /\ resizer = "limit"
  /\ max_size' = IF limit = 0 THEN max_size ELSE limit
  /\ wanted' = 0 /\ limit' = 0 /\ at' = 1 /\ resizer' = "idle"
  /\ UNCHANGED <<workers, cursor, workerVars, posterVars, joining, sets, undefined,
                 erased>>

Stop ==
  /\ Defined /\ resizer = "idle" /\ sets < MaxSets
  /\ sets' = sets + 1
  /\ resizer' = "stopping" /\ at' = 1
  /\ UNCHANGED <<workers, cursor, workerVars, posterVars, max_size, wanted, limit,
                 joining, undefined, erased>>

\* Stop goes through the list without mutex_, and comes to the Workers that
\* are created before it is at the end.
StopNext ==
  /\ Defined /\ resizer = "stopping"
  /\ IF at <= Len(workers)
       THEN Close({workers[at]}) /\ at' = at + 1 /\ UNCHANGED resizer
       ELSE resizer' = "stopped" /\ UNCHANGED <<closed, worker, at>>
  /\ UNCHANGED <<workers, cursor, queue, busy, posterVars, max_size, wanted,
                 limit, joining, sets, undefined, erased>>

\* Join joins those that are in it now.
Join ==
  /\ Defined /\ resizer = "stopped" /\ MutexFree
  /\ joining' = ToSet(workers)
  /\ resizer' = "joining"
  /\ UNCHANGED <<workers, cursor, workerVars, posterVars, max_size, wanted, limit, at,
                 sets, undefined, erased>>

Joined ==
  /\ Defined /\ resizer = "joining"
  /\ \A w \in joining : worker[w] = "ended"
  /\ resizer' = "joined"
  /\ UNCHANGED <<workers, cursor, workerVars, posterVars, max_size, wanted, limit, at,
                 joining, sets, undefined, erased>>

-----------------------------------------------------------------------------
Work(w) == TestQuit(w) \/ Enter(w) \/ Drain(w) \/ Relock(w)
Posting(p) ==
  \/ Lock(p) \/ Scan(p) \/ Choose(p) \/ Create(p) \/ TakeFirst(p)
  \/ PostTo(p) \/ Notify(p)
Resizing ==
  \/ Inflate \/ LockShrunk \/ Shrunk \/ Delete \/ UnlockShrunk \/ SetMaxSize
  \/ StopNext \/ Join \/ Joined

Next ==
  \/ \E w \in Workers : Work(w) \/ SpuriousWakeup(w)
  \/ \E p \in Posters, m \in Messages : Post(p, m)
  \/ \E p \in Actors : Posting(p)
  \/ \E r \in Resizes : SetSize(r[1], r[2])
  \/ Resizing \/ Stop

\* Threads are scheduled and messages return; no wakeup comes by itself.
Fairness ==
  /\ \A w \in Workers : WF_vars(Work(w) \/ Posting(w))
  /\ \A p \in Posters : WF_vars(Posting(p))
  /\ WF_vars(Resizing)

Spec == Init /\ [][Next]_vars
FairSpec == Spec /\ Fairness
-----------------------------------------------------------------------------
TypeOK ==
  /\ workers \in Seq(Workers) /\ cursor \in Workers \cup {"end"} /\ max_size \in Nat
  /\ worker \in [Workers -> {"none", "test", "enter", "waiting", "woken", "running", "ended",
                             "deleted"}]
  /\ closed \in SUBSET Workers
  /\ queue \in [Workers -> Seq(Messages \cup {Inner})]
  /\ busy \in [Workers -> Nat]
  /\ poster \in [Actors -> {"idle", "lock", "scan", "choose", "create", "first", "post",
                            "notify"}]
  /\ message \in [Actors -> Messages \cup {Inner, Nobody}]
  /\ target \in [Actors -> Workers \cup {Nobody}]
  /\ scanned \in [Actors -> Nat] /\ min_busy \in [Actors -> Nat]
  /\ posted \in SUBSET (Messages \cup {Inner})
  /\ resizer \in {"idle", "inflate", "lock", "shrink", "deleting", "limit", "stopping",
                  "stopped", "joining", "joined"}
  /\ wanted \in Int /\ limit \in Nat /\ at \in Nat /\ joining \in SUBSET Workers
  /\ sets \in Nat
  /\ undefined \in {"none", "cursor", "worker", "first"}
  /\ erased \in [Actors -> SUBSET Workers]

\* GetIdle returns Workers that are alive.  What can be gone when it is used is
\* a Worker that Shrunk has erased since, and i_ after any Shrunk; and the
\* list has no first only when every Worker there ever was has been closed.
StaleOnlyIfErased ==
  /\ undefined = "worker" => \E p \in Actors : /\ poster[p] \in {"post", "notify"}
                                              /\ target[p] \in erased[p]
  /\ undefined = "cursor" => cursor \in closed
  /\ undefined = "first" => \A w \in Workers : worker[w] # "none" => w \in closed

\* Shrunk, with mutex_, joins a Worker whose message waits for mutex_.
JoinsItsPoster ==
  \E w \in joining : resizer = "deleting" /\ poster[w] \in {"lock", "create", "first"}

\* Shrunk, with mutex_, joins a Worker that sleeps although it is closed.
MissedClose == \E w \in joining : resizer = "deleting" /\ worker[w] = "waiting"

\* Posting comes to an end, also that of messages, as each is posted once:
\* unless Shrunk has blocked itself, and all that post with it, on a Worker
\* that posts, or on one that has slept through its Close.
PostsEnd ==
  \/ <>[](\A p \in Actors : poster[p] = "idle")
  \/ <>[]JoinsItsPoster \/ <>[]MissedClose
  \/ <>[]~ Defined
=============================================================================
