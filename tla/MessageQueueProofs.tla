-------------------------- MODULE MessageQueueProofs --------------------------
(***************************************************************************)
(* The safety properties of MessageQueue for every set of callers and      *)
(* every bound, and that it implements OrderedDelivery.                    *)
(***************************************************************************)
EXTENDS MessageQueue, TLAPS

\* The inductive invariant: each conjunct is checked by TLC as well.
IInv == TypeOK /\ Accounting /\ InOrder /\ NoLostPost /\ BusyMeansDraining

\* The invariant holds to begin with.
LEMMA InitIInv == Init => IInv
<1> SUFFICES ASSUME Init PROVE IInv
  OBVIOUS
<1>1. TypeOK
  <2>1. message_queue \in Seq(Nat) /\ ran \in Seq(Nat)
    BY DEF Init
  <2>2. caller \in [Callers -> {"idle", "notify"}]
    BY DEF Init
  <2>3. QED
    BY <2>1, <2>2 DEF Init, TypeOK, ProcessState
<1>2. Accounting /\ InOrder
  BY DEF Init, Accounting, InOrder
<1>3. NoLostPost /\ BusyMeansDraining
  BY DEF Init, NoLostPost, BusyMeansDraining
<1>4. QED
  BY <1>1, <1>2, <1>3 DEF IInv

\* A push of k messages keeps the queue a sequence whose numbers end at posted.
LEMMA PushNumbers ==
  ASSUME NEW q \in Seq(Nat), NEW n \in Nat, NEW k \in Nat,
         Len(q) <= n, \A i \in 1 .. Len(q) : q[i] = n - Len(q) + i,
         NEW r, r = q \o [i \in 1 .. k |-> n + i]
  PROVE  /\ r \in Seq(Nat)
         /\ Len(r) = Len(q) + k
         /\ \A i \in 1 .. Len(r) : r[i] = n + k - Len(r) + i
<1> DEFINE s == [i \in 1 .. k |-> n + i]
<1>1. s \in Seq(Nat) /\ Len(s) = k
  BY SMT
<1>2. r \in Seq(Nat) /\ Len(r) = Len(q) + k
  BY <1>1, SMT
<1>3. ASSUME NEW i \in 1 .. Len(r)
      PROVE  r[i] = n + k - Len(r) + i
  <2>1. CASE i <= Len(q)
    BY <1>1, <1>2, <2>1, SMT
  <2>2. CASE i > Len(q)
    <3>1. r[i] = s[i - Len(q)] /\ i - Len(q) \in 1 .. k
      BY <1>1, <1>2, <2>2, SMT
    <3>2. QED
      BY <1>2, <3>1, SMT
  <2>3. QED
    BY <1>2, <2>1, <2>2, SMT
<1>4. QED
  BY <1>2, <1>3

\* Taking the head of such a queue returns the oldest number and leaves such a
\* queue.
LEMMA PopNumbers ==
  ASSUME NEW q \in Seq(Nat), q # <<>>, NEW n \in Nat,
         \A i \in 1 .. Len(q) : q[i] = n - Len(q) + i
  PROVE  /\ Len(q) \in Nat /\ Len(q) >= 1
         /\ Head(q) = n - Len(q) + 1
         /\ Tail(q) \in Seq(Nat)
         /\ Len(Tail(q)) = Len(q) - 1
         /\ \A i \in 1 .. Len(Tail(q)) : Tail(q)[i] = n - Len(Tail(q)) + i
  BY SMT

-----------------------------------------------------------------------------
\* What a pop leaves, for the first pop of ProcessAll and for the later ones.
LEMMA PopKeeps ==
  ASSUME IInv, Pop, process \in {"drain", "relock"}, busy' \in Nat, busy' # 0
  PROVE  IInv'
<1> USE DEF Pop
<1>1. /\ Len(message_queue) \in Nat /\ Len(message_queue) >= 1
      /\ Head(message_queue) = posted - Len(message_queue) + 1
      /\ message_queue' \in Seq(Nat)
      /\ Len(message_queue') = Len(message_queue) - 1
      /\ \A i \in 1 .. Len(message_queue') :
            message_queue'[i] = posted - Len(message_queue') + i
  BY PopNumbers DEF IInv, TypeOK, InOrder
<1>2. Accounting'
  BY <1>1 DEF IInv, TypeOK, Accounting
<1>3. running' = processed + 1
  BY <1>1 DEF IInv, TypeOK, Accounting
<1>4. TypeOK'
  BY <1>1, <1>3 DEF IInv, TypeOK, Accounting, ProcessState
<1>5. InOrder'
  BY <1>1, <1>3 DEF IInv, InOrder
<1>6. NoLostPost' /\ BusyMeansDraining'
  BY DEF NoLostPost, BusyMeansDraining
<1>7. QED
  BY <1>2, <1>4, <1>5, <1>6 DEF IInv

\* The end of ProcessAll keeps it.
LEMMA FinishKeeps ==
  ASSUME IInv, Finish, process \in {"drain", "relock"}
  PROVE  IInv'
<1> USE DEF Finish
<1>1. busy' = 0
  BY DEF IInv, Accounting
<1>2. TypeOK'
  BY <1>1 DEF IInv, TypeOK, ProcessState, queueVars
<1>3. Accounting' /\ InOrder'
  BY DEF IInv, TypeOK, Accounting, InOrder, queueVars
<1>4. NoLostPost' /\ BusyMeansDraining'
  BY <1>1 DEF NoLostPost, BusyMeansDraining
<1>5. QED
  BY <1>2, <1>3, <1>4 DEF IInv

\* A Post keeps it.
LEMMA PostKeeps ==
  ASSUME IInv, NEW c \in Callers, NEW k \in 0 .. MaxBatch, Post(c, k)
  PROVE  IInv'
<1>1. k \in Nat
  BY BoundsAssumption
<1>2. Len(message_queue) \in Nat /\ Len(message_queue) <= posted
  BY DEF IInv, TypeOK, Accounting
<1>3. /\ message_queue' \in Seq(Nat)
      /\ Len(message_queue') = Len(message_queue) + k
      /\ \A i \in 1 .. Len(message_queue') :
            message_queue'[i] = posted + k - Len(message_queue') + i
  BY <1>1, <1>2, PushNumbers DEF IInv, TypeOK, InOrder, Post
<1>4. /\ queue_size' = queue_size + k /\ posted' = posted + k
      /\ UNCHANGED <<busy, processed, running, ran, quit, process>>
  BY DEF Post, threadVars
<1>5. caller' = [caller EXCEPT ![c] = "notify"]
  BY DEF Post
<1>6. TypeOK'
  BY <1>1, <1>3, <1>4, <1>5 DEF IInv, TypeOK
<1>7. Accounting'
  <2>1. queue_size' = Len(message_queue')
    BY <1>3, <1>4 DEF IInv, Accounting
  <2>2. posted' = processed' + (IF process' = "running" THEN 1 ELSE 0) + queue_size'
    <3>1. /\ queue_size \in Nat /\ processed \in Nat
          /\ posted = processed + (IF process = "running" THEN 1 ELSE 0) + queue_size
      BY DEF IInv, TypeOK, Accounting
    <3>2. QED
      BY <1>1, <1>4, <3>1
  <2>3. QED
    BY <2>1, <2>2 DEF Accounting
<1>8. InOrder'
  <2>1. \A i \in 1 .. Len(message_queue') :
           message_queue'[i] = posted' - Len(message_queue') + i
    BY <1>1, <1>3, <1>4 DEF IInv, TypeOK
  <2>2. QED
    BY <1>4, <2>1 DEF IInv, InOrder
<1>9. NoLostPost' /\ BusyMeansDraining'
  BY <1>4, <1>5 DEF IInv, TypeOK, NoLostPost, BusyMeansDraining
<1>10. QED
  BY <1>6, <1>7, <1>8, <1>9 DEF IInv

\* A message that runs keeps it.
LEMMA RunKeeps ==
  ASSUME IInv, Run
  PROVE  IInv'
<1> USE DEF Run, queueVars
<1>1. /\ ran' \in Seq(Nat) /\ Len(ran') = processed + 1
      /\ \A i \in 1 .. Len(ran') : ran'[i] = i
  BY DEF IInv, TypeOK, InOrder
<1>2. TypeOK'
  BY <1>1 DEF IInv, TypeOK, ProcessState
<1>3. Accounting'
  BY DEF IInv, TypeOK, Accounting
<1>4. InOrder'
  BY <1>1 DEF IInv, InOrder
<1>5. NoLostPost' /\ BusyMeansDraining'
  BY DEF IInv, NoLostPost, BusyMeansDraining
<1>6. QED
  BY <1>2, <1>3, <1>4, <1>5 DEF IInv

\* Each step keeps it.
LEMMA NextIInv == IInv /\ [Next]_vars => IInv'
<1> SUFFICES ASSUME IInv, [Next]_vars PROVE IInv'
  OBVIOUS
<1>1. ASSUME NEW c \in Callers, NEW k \in 0 .. MaxBatch, Post(c, k)
      PROVE  IInv'
  BY <1>1, PostKeeps
<1>2. ASSUME NEW c \in Callers, Close(c)
      PROVE  IInv'
  <2>1. TypeOK' /\ NoLostPost'
    BY <1>2 DEF IInv, TypeOK, NoLostPost, Close, queueVars, threadVars
  <2>2. Accounting' /\ InOrder' /\ BusyMeansDraining'
    BY <1>2 DEF IInv, Accounting, InOrder, BusyMeansDraining, Close, queueVars, threadVars
  <2>3. QED
    BY <2>1, <2>2 DEF IInv
<1>3. ASSUME NEW c \in Callers, Notify(c)
      PROVE  IInv'
  <2>1. TypeOK'
    BY <1>3 DEF IInv, TypeOK, Notify, queueVars, threadVars, ProcessState
  <2>2. process' # "waiting" /\ (process' # process => process = "waiting" /\ process' = "drain")
    BY <1>3 DEF Notify
  <2>3. Accounting' /\ InOrder' /\ BusyMeansDraining' /\ NoLostPost'
    BY <1>3, <2>2
       DEF IInv, Accounting, InOrder, BusyMeansDraining, NoLostPost, Notify, queueVars, threadVars
  <2>4. QED
    BY <2>1, <2>3 DEF IInv
<1>4. CASE Test \/ Enter \/ SpuriousWakeup
  <2>1. /\ UNCHANGED <<queueVars, threadVars, quit, caller>>
        /\ process \in {"test", "enter", "waiting"}
        /\ process' \in {"returned", "enter", "waiting", "drain"}
        /\ process' = "waiting" => message_queue = <<>>
    BY <1>4 DEF Test, Enter, SpuriousWakeup
  <2>2. TypeOK'
    BY <2>1 DEF IInv, TypeOK, ProcessState, queueVars, threadVars
  <2>3. Accounting' /\ InOrder' /\ BusyMeansDraining' /\ NoLostPost'
    BY <2>1 DEF IInv, Accounting, InOrder, BusyMeansDraining, NoLostPost, queueVars, threadVars
  <2>4. QED
    BY <2>2, <2>3 DEF IInv
<1>5. CASE Drain
  <2>1. CASE Pop /\ busy' = queue_size
    <3>1. busy' \in Nat /\ busy' # 0
      BY <2>1, PopNumbers DEF IInv, TypeOK, Accounting, InOrder, Pop
    <3>2. QED
      BY <1>5, <2>1, <3>1, PopKeeps DEF Drain
  <2>2. CASE Finish
    BY <1>5, <2>2, FinishKeeps DEF Drain
  <2>3. QED
    BY <1>5, <2>1, <2>2 DEF Drain
<1>6. CASE Relock
  <2>1. CASE Pop /\ UNCHANGED busy
    <3>1. busy' \in Nat /\ busy' # 0
      BY <1>6, <2>1 DEF IInv, TypeOK, BusyMeansDraining, Relock
    <3>2. QED
      BY <1>6, <2>1, <3>1, PopKeeps DEF Relock
  <2>2. CASE Finish
    BY <1>6, <2>2, FinishKeeps DEF Relock
  <2>3. QED
    BY <1>6, <2>1, <2>2 DEF Relock
<1>7. CASE Run
  BY <1>7, RunKeeps
<1>8. CASE UNCHANGED vars
  BY <1>8 DEF IInv, TypeOK, Accounting, InOrder, NoLostPost, BusyMeansDraining,
              vars, queueVars, threadVars
<1>9. QED
  BY <1>1, <1>2, <1>3, <1>4, <1>5, <1>6, <1>7, <1>8 DEF Next, Processing

-----------------------------------------------------------------------------
\* Type correctness and the four safety properties of the queue, for every
\* number of callers and of messages.
THEOREM QueueInvariant == Spec => []IInv
<1>1. QED
  BY InitIInv, NextIInv, PTL DEF Spec

\* Every variable keeps its type: no counter goes below zero.
THEOREM TypeCorrect == Spec => []TypeOK
<1>1. IInv => TypeOK
  BY DEF IInv
<1>2. QED
  BY <1>1, QueueInvariant, PTL

\* However calls, wakeups and the processing thread interleave, the messages
\* that have run are the first ones posted, in order.
THEOREM MessagesRunInOrder == Spec => []InOrder
<1>1. IInv => InOrder
  BY DEF IInv
<1>2. QED
  BY <1>1, QueueInvariant, PTL

\* A Post is never slept through: Post's notify_all, though outside the mutex,
\* cannot be lost, unlike that of Close.
THEOREM PostIsNeverSleptThrough == Spec => []NoLostPost
<1>1. IInv => NoLostPost
  BY DEF IInv
<1>2. QED
  BY <1>1, QueueInvariant, PTL

\* size(), processed() and the message being run account for every post.
THEOREM FiguresAddUp == Spec => []Accounting
<1>1. IInv => Accounting
  BY DEF IInv
<1>2. QED
  BY <1>1, QueueInvariant, PTL

\* busy() is zero exactly outside the loop of ProcessAll.
THEOREM BusyIsHonest == Spec => []BusyMeansDraining
<1>1. IInv => BusyMeansDraining
  BY DEF IInv
<1>2. QED
  BY <1>1, QueueInvariant, PTL

\* Every step of the queue is a submission, a delivery of the next message in
\* order, or invisible: MessageQueue implements OrderedDelivery.
THEOREM ImplementsOrderedDelivery == Spec => DeliverySpec
<1>1. Init => Delivery!Init
  BY DEF Init, Delivery!Init
<1>2. IInv /\ [Next]_vars => [Delivery!Next]_(Delivery!vars)
  <2> SUFFICES ASSUME IInv, [Next]_vars
               PROVE  [Delivery!Next]_(Delivery!vars)
    OBVIOUS
  <2> USE DEF Delivery!vars
  <2>1. ASSUME NEW c \in Callers, NEW k \in 0 .. MaxBatch, Post(c, k)
        PROVE  Delivery!Submit
    BY <2>1, BoundsAssumption DEF Post, threadVars, IInv, TypeOK, Delivery!Submit
  <2>2. CASE Run
    <3>1. Len(ran) < posted /\ running = Len(ran) + 1
      BY <2>2 DEF Run, IInv, TypeOK, Accounting, InOrder
    <3>2. Delivery!Deliver
      BY <2>2, <3>1 DEF Run, queueVars, Delivery!Deliver
    <3>3. QED
      BY <3>2 DEF Delivery!Next
  <2>3. CASE UNCHANGED <<posted, ran>>
    BY <2>3
  <2>4. ASSUME NEW c \in Callers, Close(c) \/ Notify(c)
        PROVE  UNCHANGED <<posted, ran>>
    BY <2>4 DEF Close, Notify, queueVars, threadVars
  <2>5. ASSUME Test \/ Enter \/ SpuriousWakeup \/ UNCHANGED vars
        PROVE  UNCHANGED <<posted, ran>>
    BY <2>5 DEF Test, Enter, SpuriousWakeup, vars, queueVars, threadVars
  <2>6. ASSUME Drain \/ Relock
        PROVE  UNCHANGED <<posted, ran>>
    BY <2>6 DEF Drain, Relock, Pop, Finish, queueVars
  <2>7. QED
    BY <2>1, <2>2, <2>3, <2>4, <2>5, <2>6 DEF Next, Processing, Delivery!Next
<1>3. QED
  BY <1>1, <1>2, QueueInvariant, PTL DEF Spec, DeliverySpec, Delivery!Spec
=============================================================================
