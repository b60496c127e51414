----------------------------- MODULE MessageQueue -----------------------------
(***************************************************************************)
(* base::MessageQueue (src/base3/messagequeue.h): threads Post messages    *)
(* and Close the queue, one thread is inside Process and runs the messages.*)
(*                                                                         *)
(* One action is one critical section of mutex_, or one step outside it.   *)
(* Close takes no mutex and the notify_all of Post comes after its unlock, *)
(* so both are two steps.  The messages are numbered in the order they are *)
(* pushed; posted and ran are history variables.                           *)
(***************************************************************************)
EXTENDS Naturals, Sequences

CONSTANTS Callers,      \* the threads that call Post and Close
          MaxMessages,  \* bound of the model: messages posted in a behaviour
          MaxBatch      \* bound of the model: messages of one Post(beg, end)

ASSUME BoundsAssumption == MaxMessages \in Nat /\ MaxBatch \in Nat

VARIABLES
  message_queue,  \* the numbers of the messages queued, front first
  queue_size,     \* queue_size_
  busy,           \* busy_, which ThreadPool::GetIdle reads without the mutex
  quit,           \* quit_, written without the mutex
  processed,      \* processed_
  running,        \* the message ProcessAll popped and has not run; 0: none
  process,        \* where the thread inside Process is
  caller,         \* caller[c] = "notify": c still owes its notify_all
  posted,         \* history: how many messages have been pushed
  ran             \* history: the messages run, in order

queueVars  == <<message_queue, queue_size, posted>>
threadVars == <<busy, processed, running, ran>>
vars == <<queueVars, threadVars, quit, process, caller>>

\* "test"     at the condition of while (!quit_)
\* "enter"    before the mutex that guards the emptiness test
\* "waiting"  inside queue_not_empty_.wait
\* "drain"    before ProcessAll, having left the first critical section
\* "running"  in ProcessAll without the mutex: Run, delete, ++ processed_
\* "relock"   in ProcessAll, before the mutex is taken again
\* "returned" Process has returned
ProcessState ==
  {"test", "enter", "waiting", "drain", "running", "relock", "returned"}

Init ==
  /\ message_queue = <<>> /\ queue_size = 0 /\ posted = 0
  /\ busy = 0 /\ quit = FALSE /\ processed = 0 /\ running = 0 /\ ran = <<>>
  /\ process = "test"
  /\ caller = [c \in Callers |-> "idle"]

-----------------------------------------------------------------------------
(* The callers. *)

\* The bug of a batch that is pushed in front of what is queued.
PostInFront(c, k) ==
  /\ caller[c] = "idle" /\ posted + k <= MaxMessages
  /\ message_queue' = [i \in 1 .. k |-> posted + i] \o message_queue
  /\ queue_size' = queue_size + k /\ posted' = posted + k
  /\ caller' = [caller EXCEPT ![c] = "notify"]
  /\ UNCHANGED <<threadVars, quit, process>>

\* The bug of a Post that does not notify.
PostSilently(c, k) ==
  /\ caller[c] = "idle" /\ posted + k <= MaxMessages
  /\ message_queue' = message_queue \o [i \in 1 .. k |-> posted + i]
  /\ queue_size' = queue_size + k /\ posted' = posted + k
  /\ UNCHANGED <<threadVars, quit, process, caller>>

\* Post(m) is k = 1, Post(beg, end) any k, the empty range included.
Post(c, k) ==
  /\ caller[c] = "idle"
  /\ posted + k <= MaxMessages
  /\ message_queue' = message_queue \o [i \in 1 .. k |-> posted + i]
  /\ queue_size' = queue_size + k
  /\ posted' = posted + k
  /\ caller' = [caller EXCEPT ![c] = "notify"]
  /\ UNCHANGED <<threadVars, quit, process>>

\* The first statement of Close, which takes no mutex.
Close(c) ==
  /\ caller[c] = "idle"
  /\ quit' = TRUE
  /\ caller' = [caller EXCEPT ![c] = "notify"]
  /\ UNCHANGED <<queueVars, threadVars, process>>

\* The notify_all that ends Post and Close, outside the mutex.
Notify(c) ==
  /\ caller[c] = "notify"
  /\ caller' = [caller EXCEPT ![c] = "idle"]
  /\ process' = IF process = "waiting" THEN "drain" ELSE process
  /\ UNCHANGED <<queueVars, threadVars, quit>>

-----------------------------------------------------------------------------
(* The thread inside Process. *)

Test ==
  /\ process = "test"
  /\ process' = IF quit THEN "returned" ELSE "enter"
  /\ UNCHANGED <<queueVars, threadVars, quit, caller>>

\* The critical section of Process: wait, or go on to ProcessAll.
Enter ==
  /\ process = "enter"
  /\ process' = IF message_queue = <<>> THEN "waiting" ELSE "drain"
  /\ UNCHANGED <<queueVars, threadVars, quit, caller>>

\* boost::condition may wake a waiter that nobody notified.  A woken thread
\* takes the mutex, releases it and reads nothing in between.
SpuriousWakeup ==
  /\ process = "waiting"
  /\ process' = "drain"
  /\ UNCHANGED <<queueVars, threadVars, quit, caller>>

\* One turn of ProcessAll's loop up to its unlock.
Pop ==
  /\ message_queue # <<>>
  /\ running' = Head(message_queue)
  /\ message_queue' = Tail(message_queue)
  /\ queue_size' = queue_size - 1
  /\ process' = "running"
  /\ UNCHANGED <<posted, processed, ran, quit, caller>>

\* The end of ProcessAll: the loop found the queue empty.
Finish ==
  /\ message_queue = <<>>
  /\ busy' = queue_size
  /\ process' = "test"
  /\ UNCHANGED <<queueVars, processed, running, ran, quit, caller>>

\* ProcessAll from its lock to its first unlock, or to its end.
Drain ==
  /\ process = "drain"
  /\ \/ Pop /\ busy' = queue_size
     \/ Finish

Run ==
  /\ process = "running"
  /\ ran' = Append(ran, running)
  /\ processed' = processed + 1
  /\ running' = 0
  /\ process' = "relock"
  /\ UNCHANGED <<queueVars, busy, quit, caller>>

\* The bug of a thread that waits after each message it runs.
RelockOnce ==
  /\ process = "relock"
  /\ process' = "waiting"
  /\ UNCHANGED <<queueVars, threadVars, quit, caller>>

Relock ==
  /\ process = "relock"
  /\ \/ Pop /\ UNCHANGED busy
     \/ Finish

-----------------------------------------------------------------------------
Processing == Test \/ Enter \/ Drain \/ Run \/ Relock

Next ==
  \/ \E c \in Callers : \/ \E k \in 0 .. MaxBatch : Post(c, k)
                        \/ Close(c)
                        \/ Notify(c)
  \/ Processing
  \/ SpuriousWakeup

\* The scheduler lets the processing thread and a caller that is inside Post
\* or Close go on; nothing obliges a thread to call them, and no wakeup comes
\* by itself.
Fairness == WF_vars(Processing) /\ \A c \in Callers : WF_vars(Notify(c))

Spec == Init /\ [][Next]_vars
FairSpec == Spec /\ Fairness

-----------------------------------------------------------------------------
TypeOK ==
  /\ message_queue \in Seq(Nat)
  /\ queue_size \in Nat /\ busy \in Nat /\ processed \in Nat
  /\ running \in Nat /\ posted \in Nat
  /\ quit \in BOOLEAN
  /\ ran \in Seq(Nat)
  /\ process \in ProcessState
  /\ caller \in [Callers -> {"idle", "notify"}]

\* The three unsynchronised figures a caller can read add up: every message
\* posted is counted by size(), by processed(), or is the one being run.
Accounting ==
  /\ queue_size = Len(message_queue)
  /\ posted = processed + (IF process = "running" THEN 1 ELSE 0) + queue_size

\* The messages run, the one running and those queued are all the messages
\* posted, each once, in the order they were pushed.
InOrder ==
  /\ Len(ran) = processed
  /\ \A i \in 1 .. Len(ran) : ran[i] = i
  /\ process = "running" => running = processed + 1
  /\ \A i \in 1 .. Len(message_queue) :
        message_queue[i] = posted - Len(message_queue) + i

\* No lost wakeup of Post: the thread never sleeps in wait while a message is
\* queued, unless a caller still owes the notify_all that will wake it.
NoLostPost ==
  process = "waiting" /\ message_queue # <<>>
    => \E c \in Callers : caller[c] = "notify"

\* busy(), by which ThreadPool::GetIdle picks a worker, is zero exactly when
\* ProcessAll is not between its first pop and its end.
BusyMeansDraining ==
  busy = 0 <=> process \notin {"running", "relock"}

\* The queue delivers every message once and in order: OrderedDelivery.
Delivery == INSTANCE OrderedDelivery WITH submitted <- posted, delivered <- ran
DeliverySpec == Delivery!Spec

\* Every message posted is run, unless the queue is closed.
PostedIsRun ==
  \A n \in 1 .. MaxMessages : posted >= n ~> (processed >= n \/ quit)

\* Once the queue is closed Process returns, unless Close's flag and its
\* notification both fell between the thread's test of quit_ and its wait.
CloseReturns ==
  quit /\ ~ \/ process = "enter"
            \/ process = "waiting" /\ \A c \in Callers : caller[c] = "idle"
    ~> process = "returned"

\* What WithMessageQueue.Close expects: after Close, joining the thread that
\* is inside Process ends.
CloseThenJoin == quit ~> process = "returned"
=============================================================================
