--------------------------- MODULE AsyncRunnerProofs ---------------------------
(***************************************************************************)
(* Proofs about AsyncRunner, for any threads, calls, sizes and numbers of  *)
(* starts: a call is in one place, the counters are exact, and a Stop that *)
(* has returned leaves one thread at the most.                             *)
(***************************************************************************)
EXTENDS AsyncRunner, FiniteSetTheorems, TLAPS

\* Type correctness, but for the counters of calls.
Typed ==
  /\ owner \in {"off", "on", "stopping", "joining", "joinCheck"}
  /\ starts \in Nat /\ stop \in BOOLEAN /\ work \in BOOLEAN /\ stopped \in BOOLEAN
  /\ thread_size \in Nat /\ group \in SUBSET Threads /\ group_size \in Nat
  /\ thread \in [Threads -> {"none", "starting", "idle"} \cup Calls]
  /\ check \in {"none", "loop", "asleep", "resize", "add", "ended"}
  /\ created \in SUBSET Threads
  /\ call \in [Calls -> [kind : Kinds, place : Places, left : Nat, failed : BOOLEAN]]
  /\ ready \in Seq(Calls)

\* Who is alive is in the group or about to be; what a Stop has reached.
Stops ==
  /\ \A t \in Threads : thread[t] # "none" => t \in group \cup created
  /\ IF check = "add" THEN \E x \in Threads : created = {x} ELSE created = {}
  /\ owner = "joining" => stop /\ stopped
  /\ owner = "joinCheck" =>
       /\ stop /\ stopped
       /\ group # {} => check \in {"loop", "ended"} /\ \E x \in Threads : group = {x}
  /\ owner = "off" =>
       /\ check = "none" /\ (starts > 0 => stopped)
       /\ group # {} => \E x \in Threads : group = {x}

\* The calls that the counters count.
BusyCalls == {c \in Calls : call[c].place = "running" /\ CountsAsBusy(c)}
TaskCalls == {c \in Calls : call[c].place \notin {"caller", "done"} /\ CountsAsTask(c)}

\* CountersMatch in terms of these sets.
Counts == busy = Cardinality(BusyCalls) /\ task = Cardinality(TaskCalls)

\* The counters are those of CountersMatch.
LEMMA CountsMatch == CountersMatch <=> Counts
BY DEF CountersMatch, Counts, BusyCalls, TaskCalls

\* The inductive invariant.
RunnerInv == Typed /\ OnePlace /\ Counts /\ Stops

-----------------------------------------------------------------------------
\* The invariant holds to begin with.
LEMMA InitInv == RunnerAssumption /\ Init => RunnerInv
<1> SUFFICES ASSUME RunnerAssumption, Init PROVE RunnerInv
  OBVIOUS
<1> USE DEF Init
<1>1. Typed
  <2>1. /\ call \in [Calls -> [kind : Kinds, place : Places, left : Nat, failed : BOOLEAN]]
        /\ ready \in Seq(Calls)
    BY DEF Kinds, Places
  <2> QED
    BY <2>1 DEF RunnerAssumption, Typed
<1>2. OnePlace
  BY DEF RunnerAssumption, OnePlace
<1>3. BusyCalls = {} /\ TaskCalls = {}
  BY DEF BusyCalls, TaskCalls
<1>4. Counts
  BY <1>3, FS_EmptySet DEF Counts
<1>5. Stops
  BY DEF Stops
<1> QED
  BY <1>1, <1>2, <1>4, <1>5 DEF RunnerInv

\* A created thread is a new one, and so are those of Start.
LEMMA CreatedIsFree ==
  ASSUME NEW n, CanCreate(n) PROVE Created(n) \subseteq Free /\ Cardinality(Created(n)) = n
BY DEF CanCreate, Created

\* CreateOne makes one thread.
LEMMA CreatedIsOne ==
  ASSUME RunnerAssumption, CanCreate(1)
  PROVE  \E x \in Threads : Created(1) = {x} /\ thread[x] = "none" /\ x \notin group
<1>1. Created(1) \subseteq Free /\ Cardinality(Created(1)) = 1
  BY CreatedIsFree
<1>2. IsFiniteSet(Created(1))
  BY <1>1, FS_Subset DEF RunnerAssumption, Free
<1> QED
  BY <1>1, <1>2, FS_Singleton DEF Free

\* Each step keeps the types.
LEMMA TypedNext ==
  ASSUME RunnerAssumption, Typed, [Next]_vars PROVE Typed'
<1> USE DEF Typed, ownerVars, checkVars, groupVars, callVars
<1>1. ASSUME NEW c \in Calls, NEW kind \in Kinds, NEW n \in 0 .. MaxRuns, Post(c, kind, n)
      PROVE  Typed'
  <2>1. n \in Nat
    BY DEF RunnerAssumption
  <2> QED
    BY <1>1, <2>1 DEF Post, Places
<1>2. ASSUME NEW t \in Threads, Enter(t) \/ Leave(t) PROVE Typed'
  BY <1>2 DEF Enter, Leave
<1>3. ASSUME NEW t \in Threads, Take(t) PROVE Typed'
  <2>1. Head(ready) \in Calls /\ Tail(ready) \in Seq(Calls)
    BY <1>3 DEF Take
  <2> QED
    BY <1>3, <2>1 DEF Take, Places
<1>4. ASSUME NEW t \in Threads, Return(t) PROVE Typed'
  <2> DEFINE c == thread[t]
  <2>1. PICK failed \in BOOLEAN : call' = [call EXCEPT ![c] = After(c, failed)]
    BY <1>4 DEF Return
  <2>2. c \in Calls
    BY <1>4 DEF Return
  <2>3. After(c, failed) \in [kind : Kinds, place : Places, left : Nat, failed : BOOLEAN]
    <3>1. call[c].kind \in Kinds /\ call[c] \in [kind : Kinds, place : Places,
                                                left : Nat, failed : BOOLEAN]
      BY <2>2
    <3>2. ASSUME NEW p \in Places, NEW l \in Nat
          PROVE  [call[c] EXCEPT !.place = p, !.left = l, !.failed = failed]
                   \in [kind : Kinds, place : Places, left : Nat, failed : BOOLEAN]
      BY <3>1
    <3>3. (IF call[c].left > 0 THEN call[c].left - 1 ELSE 0) \in Nat
      BY <3>1
    <3>4. "timer" \in Places /\ "done" \in Places
      BY DEF Places
    <3> QED
      BY <3>2, <3>3, <3>4 DEF After
  <2> QED
    BY <1>4, <2>1, <2>2, <2>3 DEF Return
<1>5. ASSUME NEW c \in Calls, Expire(c) PROVE Typed'
  <2>1. call' = [call EXCEPT ![c].place = "ready"] /\ "ready" \in Places
    BY <1>5 DEF Expire, Places
  <2>2. call' \in [Calls -> [kind : Kinds, place : Places, left : Nat, failed : BOOLEAN]]
    BY <2>1
  <2> QED
    BY <1>5, <2>2 DEF Expire
<1>6. CASE CheckLoop \/ CheckBusy
  BY <1>6 DEF CheckLoop, CheckBusy
<1>7. CASE Resize
  BY <1>7, CreatedIsOne DEF Resize
<1>8. CASE AddThread
  BY <1>8 DEF AddThread
<1>9. CASE Start
  <2>1. Created(thread_size) \subseteq Threads
    BY <1>9, CreatedIsFree DEF Start, Free
  <2>2. thread' \in [Threads -> {"none", "starting", "idle"} \cup Calls]
    BY <1>9 DEF Start
  <2>3. group' \in SUBSET Threads /\ group_size' \in Nat
    BY <1>9, <2>1 DEF Start
  <2> QED
    <3>1. /\ owner' = "on" /\ starts' = starts + 1 /\ work' = TRUE /\ stop' = FALSE
          /\ stopped' = FALSE /\ check' = "loop" /\ UNCHANGED <<callVars, thread_size, created>>
      BY <1>9 DEF Start
    <3>2. /\ owner' \in {"off", "on", "stopping", "joining", "joinCheck"} /\ starts' \in Nat
          /\ check' \in {"none", "loop", "asleep", "resize", "add", "ended"}
      BY <3>1
    <3>3. stop' \in BOOLEAN /\ work' \in BOOLEAN /\ stopped' \in BOOLEAN
      BY <3>1
    <3>4. /\ thread_size' \in Nat /\ created' \in SUBSET Threads /\ ready' \in Seq(Calls)
          /\ call' \in [Calls -> [kind : Kinds, place : Places, left : Nat, failed : BOOLEAN]]
      BY <3>1
    <3> QED
      BY <2>2, <2>3, <3>2, <3>3, <3>4
<1>10. CASE DropWork \/ Stop
  BY <1>10 DEF DropWork, Stop, SetStop, StopService, JoinAll, JoinCheck
<1>11. CASE UNCHANGED vars
  BY <1>11 DEF vars
<1> QED
  BY <1>1, <1>2, <1>3, <1>4, <1>5, <1>6, <1>7, <1>8, <1>9, <1>10, <1>11 DEF Next, Serve, Check

-----------------------------------------------------------------------------
(* Threads. *)

\* Each step keeps what Start and Stop rely on.
LEMMA StopsNext ==
  ASSUME RunnerAssumption, Typed, Stops, [Next]_vars PROVE Stops'
<1> USE DEF Typed, Stops, ownerVars, checkVars, groupVars, callVars
<1>1. ASSUME NEW c \in Calls, NEW kind \in Kinds, NEW n \in 0 .. MaxRuns, Post(c, kind, n)
      PROVE  Stops'
  BY <1>1 DEF Post
<1>2. ASSUME NEW t \in Threads, Enter(t) \/ Leave(t) PROVE Stops'
  <2>1. \A u \in Threads : thread'[u] # "none" => thread[u] # "none"
    BY <1>2 DEF Enter, Leave
  <2>2. (stopped => stopped') /\ UNCHANGED <<ownerVars, checkVars, groupVars>>
    BY <1>2 DEF Enter, Leave
  <2> QED
    BY <2>1, <2>2
<1>3. ASSUME NEW t \in Threads, Take(t) \/ Return(t) PROVE Stops'
  <2>1. \A u \in Threads : thread'[u] # "none" => thread[u] # "none"
    BY <1>3 DEF Take, Return, RunnerAssumption
  <2>2. UNCHANGED <<ownerVars, checkVars, groupVars, stopped>>
    BY <1>3 DEF Take, Return
  <2> QED
    BY <2>1, <2>2
<1>4. ASSUME NEW c \in Calls, Expire(c) PROVE Stops'
  BY <1>4 DEF Expire
<1>5. CASE CheckLoop
  BY <1>5 DEF CheckLoop
<1>6. CASE CheckBusy
  BY <1>6 DEF CheckBusy
<1>7. CASE Resize
  BY <1>7, CreatedIsOne DEF Resize
<1>8. CASE AddThread
  BY <1>8 DEF AddThread
<1>9. CASE Start
  BY <1>9, CreatedIsFree DEF Start, Free
<1>10. CASE DropWork \/ SetStop \/ StopService
  BY <1>10 DEF DropWork, SetStop, StopService
<1>11. CASE JoinAll
  BY <1>11 DEF JoinAll
<1>12. CASE JoinCheck
  BY <1>12 DEF JoinCheck
<1>13. CASE UNCHANGED vars
  BY <1>13 DEF vars
<1> QED
  BY <1>1, <1>2, <1>3, <1>4, <1>5, <1>6, <1>7, <1>8, <1>9, <1>10, <1>11, <1>12, <1>13
     DEF Next, Serve, Check, Stop

-----------------------------------------------------------------------------
(* Calls. *)

\* Only Post, Take, Return and Expire move a call, and only Take and Return
\* change which call a thread runs.
LEMMA CallsMove ==
  ASSUME RunnerAssumption, Typed, [Next]_vars
  PROVE  \/ \E c \in Calls, kind \in Kinds, n \in 0 .. MaxRuns : Post(c, kind, n)
         \/ \E t \in Threads : Take(t) \/ Return(t)
         \/ \E c \in Calls : Expire(c)
         \/ /\ UNCHANGED callVars
            /\ \A t \in Threads : \/ thread'[t] = thread[t]
                                  \/ thread'[t] \notin Calls /\ thread[t] \notin Calls
<1> USE DEF Typed, RunnerAssumption, callVars
<1>1. ASSUME NEW t \in Threads, Enter(t) \/ Leave(t)
      PROVE  /\ UNCHANGED callVars
             /\ \A u \in Threads : \/ thread'[u] = thread[u]
                                   \/ thread'[u] \notin Calls /\ thread[u] \notin Calls
  BY <1>1 DEF Enter, Leave
<1>2. CASE UNCHANGED <<callVars, thread>>
  BY <1>2
<1>3. CASE CheckLoop \/ CheckBusy \/ AddThread
  BY <1>2, <1>3 DEF CheckLoop, CheckBusy, AddThread
<1>4. CASE DropWork \/ Stop \/ UNCHANGED vars
  BY <1>2, <1>4 DEF DropWork, Stop, SetStop, StopService, JoinAll, JoinCheck, vars
<1>5. CASE Resize
  <2>1. CASE UNCHANGED thread
    BY <1>2, <1>5, <2>1 DEF Resize
  <2>2. CASE CanCreate(1) /\ thread' = [t \in Threads |->
               IF t \in Created(1) THEN "starting" ELSE thread[t]]
    <3>1. Created(1) \subseteq Free
      BY <2>2, CreatedIsFree
    <3> QED
      BY <1>5, <2>2, <3>1 DEF Resize, Free
  <2> QED
    BY <1>5, <2>1, <2>2 DEF Resize
<1>6. CASE Start
  <2>1. Created(thread_size) \subseteq Free
    BY <1>6, CreatedIsFree DEF Start
  <2> QED
    BY <1>6, <2>1 DEF Start, Free
<1> QED
  BY <1>1, <1>3, <1>4, <1>5, <1>6 DEF Next, Serve, Check

\* Each step leaves a call in one place.
LEMMA OnePlaceNext ==
  ASSUME RunnerAssumption, Typed, OnePlace, [Next]_vars PROVE OnePlace'
<1> USE DEF Typed
<1>1. ASSUME NEW c \in Calls, NEW kind \in Kinds, NEW n \in 0 .. MaxRuns, Post(c, kind, n)
      PROVE  OnePlace'
  <2>1. \A i \in 1 .. Len(ready) : ready[i] # c
    BY <1>1 DEF Post, OnePlace
  <2>2. \A t \in Threads : thread[t] # c
    BY <1>1 DEF Post, OnePlace
  <2>3. /\ thread' = thread /\ call'[c].place = IF kind = "now" THEN "ready" ELSE "timer"
        /\ \A d \in Calls \ {c} : call'[d] = call[d]
        /\ ready' = IF kind = "now" THEN Append(ready, c) ELSE ready
    BY <1>1 DEF Post
  <2>4. /\ \A t \in Threads : thread'[t] # c
        /\ \A d \in Calls : call'[d].place = "running" <=> \E t \in Threads : thread'[t] = d
        /\ \A t, u \in Threads : thread'[t] \in Calls /\ thread'[t] = thread'[u] => t = u
    BY <2>2, <2>3 DEF OnePlace
  <2>5. CASE kind # "now"
    BY <2>1, <2>3, <2>4, <2>5 DEF OnePlace
  <2>6. CASE kind = "now"
    <3>1. /\ ready' = Append(ready, c) /\ Len(ready') = Len(ready) + 1 /\ Len(ready) \in Nat
          /\ ready'[Len(ready) + 1] = c /\ \A i \in 1 .. Len(ready) : ready'[i] = ready[i]
      BY <2>3, <2>6
    <3>2. \A d \in Calls : call'[d].place = "ready" <=> \E i \in 1 .. Len(ready') : ready'[i] = d
      BY <2>1, <2>3, <2>6, <3>1 DEF OnePlace
    <3>3. \A i, j \in 1 .. Len(ready') : ready'[i] = ready'[j] => i = j
      BY <2>1, <3>1 DEF OnePlace
    <3> QED
      BY <2>4, <3>2, <3>3 DEF OnePlace
  <2> QED
    BY <2>5, <2>6
<1>2. ASSUME NEW t \in Threads, Take(t) PROVE OnePlace'
  <2> DEFINE c == ready[1]
  <2>1. /\ ready # <<>> /\ ready' = Tail(ready) /\ c \in Calls /\ thread[t] = "idle"
        /\ thread' = [thread EXCEPT ![t] = c]
        /\ call'[c].place = "running" /\ \A d \in Calls \ {c} : call'[d] = call[d]
    BY <1>2 DEF Take
  <2>2. /\ Len(ready') = Len(ready) - 1 /\ Len(ready) \in Nat \ {0}
        /\ \A i \in 1 .. Len(ready') : ready'[i] = ready[i + 1]
    BY <2>1
  <2>3. call[c].place = "ready" /\ \A u \in Threads : thread[u] # c
    BY <2>1, <2>2 DEF OnePlace
  <2>4. \A i \in 2 .. Len(ready) : ready[i] # c
    BY <2>2 DEF OnePlace
  <2> HIDE DEF c
  <2>5. \A d \in Calls \ {c} : (\E i \in 1 .. Len(ready) : ready[i] = d)
                                  <=> \E i \in 1 .. Len(ready') : ready'[i] = d
    <3>1. \A i \in 1 .. Len(ready) : i = 1 \/ (i - 1 \in 1 .. Len(ready') /\ ready'[i - 1] = ready[i])
      BY <2>2
    <3>2. \A i \in 1 .. Len(ready') : i + 1 \in 1 .. Len(ready)
      BY <2>2
    <3> QED
      BY <2>2, <3>1, <3>2 DEF c
  <2>6. \A d \in Calls : call'[d].place = "ready" <=> \E i \in 1 .. Len(ready') : ready'[i] = d
    <3>1. \A i \in 1 .. Len(ready') : ready'[i] # c
      BY <2>2, <2>4
    <3> QED
      BY <2>1, <2>5, <3>1 DEF OnePlace
  <2>7. \A i, j \in 1 .. Len(ready') : ready'[i] = ready'[j] => i = j
    <3>1. \A i \in 1 .. Len(ready') : i + 1 \in 1 .. Len(ready)
      BY <2>2
    <3>2. \A i, j \in 1 .. Len(ready') : ready[i + 1] = ready[j + 1] => i + 1 = j + 1
      BY <3>1 DEF OnePlace
    <3> SUFFICES ASSUME NEW i \in 1 .. Len(ready'), NEW j \in 1 .. Len(ready'),
                        ready'[i] = ready'[j]
                 PROVE  i = j
      OBVIOUS
    <3>3. ready[i + 1] = ready[j + 1]
      BY <2>2
    <3>4. i + 1 = j + 1
      BY <3>2, <3>3
    <3> QED
      BY <2>2, <3>4
  <2>8. \A d \in Calls : call'[d].place = "running" <=> \E u \in Threads : thread'[u] = d
    BY <2>1, <2>3 DEF OnePlace, RunnerAssumption
  <2>9. \A u, v \in Threads : thread'[u] \in Calls /\ thread'[u] = thread'[v] => u = v
    BY <2>1, <2>3 DEF OnePlace
  <2> QED
    BY <2>6, <2>7, <2>8, <2>9 DEF OnePlace
<1>3. ASSUME NEW t \in Threads, Return(t) PROVE OnePlace'
  <2> DEFINE c == thread[t]
  <2>1. /\ c \in Calls /\ ready' = ready /\ thread' = [thread EXCEPT ![t] = "idle"]
        /\ call'[c].place \in {"timer", "done"} /\ \A d \in Calls \ {c} : call'[d] = call[d]
    BY <1>3 DEF Return, After
  <2>2. call[c].place = "running" /\ \A u \in Threads \ {t} : thread[u] # c
    BY <2>1 DEF OnePlace
  <2> HIDE DEF c
  <2>3. \A d \in Calls : call'[d].place = "running" <=> \E u \in Threads : thread'[u] = d
    <3>1. \A d \in Calls \ {c} : d # "idle" /\ thread[t] # d
      BY DEF c, RunnerAssumption
    <3>2. c # "idle"
      BY <2>1 DEF RunnerAssumption
    <3> QED
      BY <2>1, <2>2, <3>1, <3>2 DEF OnePlace
  <2>4. \A u, v \in Threads : thread'[u] \in Calls /\ thread'[u] = thread'[v] => u = v
    BY <2>1 DEF OnePlace, RunnerAssumption
  <2>5. \A d \in Calls : call'[d].place = "ready" <=> call[d].place = "ready"
    BY <2>1, <2>2
  <2> QED
    BY <2>1, <2>3, <2>4, <2>5 DEF OnePlace
<1>4. ASSUME NEW c \in Calls, Expire(c) PROVE OnePlace'
  <2>1. /\ call[c].place = "timer" /\ call'[c].place = "ready" /\ ready' = Append(ready, c)
        /\ thread' = thread /\ \A d \in Calls \ {c} : call'[d] = call[d]
    BY <1>4 DEF Expire
  <2>2. \A i \in 1 .. Len(ready) : ready[i] # c
    BY <2>1 DEF OnePlace
  <2> QED
    BY <2>1, <2>2, SMTT(30) DEF OnePlace
<1>5. ASSUME UNCHANGED callVars,
             \A t \in Threads : \/ thread'[t] = thread[t]
                                \/ thread'[t] \notin Calls /\ thread[t] \notin Calls
      PROVE  OnePlace'
  BY <1>5 DEF OnePlace, callVars
<1> QED
  BY <1>1, <1>2, <1>3, <1>4, <1>5, CallsMove

\* A counter follows its set when one call enters or leaves it.
LEMMA Recount ==
  ASSUME RunnerAssumption, NEW S \in SUBSET Calls, NEW c \in Calls
  PROVE  /\ Cardinality(S) \in Nat
         /\ c \notin S => Cardinality(S \cup {c}) = Cardinality(S) + 1
         /\ c \in S => Cardinality(S \ {c}) = Cardinality(S) - 1
<1>1. IsFiniteSet(S)
  BY FS_Subset DEF RunnerAssumption
<1> QED
  BY <1>1, FS_CardinalityType, FS_AddElement, FS_RemoveElement

\* Each step keeps the counters exact.
LEMMA CountsNext ==
  ASSUME RunnerAssumption, Typed, OnePlace, Counts, [Next]_vars PROVE Counts'
<1> USE DEF Typed, Counts, BusyCalls, TaskCalls, CountsAsBusy, CountsAsTask
<1>1. ASSUME NEW c \in Calls, NEW kind \in Kinds, NEW n \in 0 .. MaxRuns, Post(c, kind, n)
      PROVE  Counts'
  <2>1. /\ call[c].place = "caller" /\ call'[c].place \in {"ready", "timer"}
        /\ call'[c].kind = kind /\ \A d \in Calls \ {c} : call'[d] = call[d]
        /\ busy' = busy /\ task' = IF kind \in {"now", "sure"} THEN task + 1 ELSE task
    BY <1>1 DEF Post
  <2>2. BusyCalls' = BusyCalls /\ c \notin TaskCalls
    BY <2>1
  <2>3. TaskCalls' = IF kind \in {"now", "sure"} THEN TaskCalls \cup {c} ELSE TaskCalls
    BY <2>1
  <2> HIDE DEF BusyCalls, TaskCalls
  <2>4. TaskCalls \in SUBSET Calls
    BY DEF TaskCalls
  <2> QED
    BY <2>1, <2>2, <2>3, <2>4, Recount
<1>2. ASSUME NEW t \in Threads, Take(t) PROVE Counts'
  <2> DEFINE c == ready[1]
  <2>1. /\ c \in Calls /\ call'[c].place = "running" /\ call'[c].kind = call[c].kind
        /\ \A d \in Calls \ {c} : call'[d] = call[d]
        /\ task' = task /\ busy' = IF call[c].kind = "now" THEN busy + 1 ELSE busy
        /\ ready # <<>>
    BY <1>2 DEF Take
  <2>2. call[c].place = "ready"
    BY <2>1 DEF OnePlace
  <2> HIDE DEF c
  <2>3. TaskCalls' = TaskCalls /\ c \notin BusyCalls
    BY <2>1, <2>2
  <2>4. BusyCalls' = IF call[c].kind = "now" THEN BusyCalls \cup {c} ELSE BusyCalls
    BY <2>1, <2>2
  <2> HIDE DEF BusyCalls, TaskCalls
  <2>5. BusyCalls \in SUBSET Calls
    BY DEF BusyCalls
  <2> QED
    BY <2>1, <2>3, <2>4, <2>5, Recount
<1>3. ASSUME NEW t \in Threads, Return(t) PROVE Counts'
  <2> DEFINE c == thread[t]
  <2>1. PICK failed \in BOOLEAN : call' = [call EXCEPT ![c] = After(c, failed)]
    BY <1>3 DEF Return
  <2>2. /\ c \in Calls
        /\ busy' = IF call[c].kind = "now" THEN busy - 1 ELSE busy
        /\ task' = IF call[c].kind \in {"now", "sure"} THEN task - 1 ELSE task
    BY <1>3 DEF Return
  <2>3. /\ call'[c].kind = call[c].kind /\ call'[c].place \in {"timer", "done"}
        /\ call[c].kind \in {"now", "sure"} => call'[c].place = "done"
        /\ \A d \in Calls \ {c} : call'[d] = call[d]
    BY <2>1, <2>2 DEF After
  <2>4. call[c].place = "running"
    BY <2>2 DEF OnePlace
  <2> HIDE DEF c
  <2>5. /\ BusyCalls' = IF call[c].kind = "now" THEN BusyCalls \ {c} ELSE BusyCalls
        /\ call[c].kind = "now" => c \in BusyCalls
    BY <2>2, <2>3, <2>4
  <2>6. /\ TaskCalls' = IF call[c].kind \in {"now", "sure"} THEN TaskCalls \ {c} ELSE TaskCalls
        /\ call[c].kind \in {"now", "sure"} => c \in TaskCalls
    BY <2>2, <2>3, <2>4
  <2> HIDE DEF BusyCalls, TaskCalls
  <2>7. BusyCalls \in SUBSET Calls /\ TaskCalls \in SUBSET Calls
    BY DEF BusyCalls, TaskCalls
  <2> QED
    BY <2>2, <2>5, <2>6, <2>7, Recount
<1>4. ASSUME NEW c \in Calls, Expire(c) PROVE Counts'
  <2>1. /\ call[c].place = "timer" /\ call'[c].place = "ready" /\ call'[c].kind = call[c].kind
        /\ UNCHANGED <<busy, task>> /\ \A d \in Calls \ {c} : call'[d] = call[d]
    BY <1>4 DEF Expire
  <2>2. BusyCalls' = BusyCalls /\ TaskCalls' = TaskCalls
    BY <2>1
  <2> QED
    BY <2>1, <2>2
<1>5. CASE UNCHANGED callVars
  BY <1>5 DEF callVars
<1> QED
  BY <1>1, <1>2, <1>3, <1>4, <1>5, CallsMove

-----------------------------------------------------------------------------
(* The theorems. *)

\* The inductive invariant holds however often the runner starts and stops.
THEOREM RunnerInvariant == ASSUME RunnerAssumption PROVE Spec => []RunnerInv
<1>1. RunnerInv /\ [Next]_vars => RunnerInv'
  BY TypedNext, StopsNext, OnePlaceNext, CountsNext DEF RunnerInv
<1> QED
  BY <1>1, InitInv, PTL DEF Spec

\* A Stop that has returned leaves one thread at the most: the one that Check
\* was adding to the group meanwhile.
THEOREM StopLeavesOne == ASSUME RunnerAssumption PROVE Spec => []OffLeavesOneThread
<1>1. RunnerInv => OffLeavesOneThread
  BY DEF RunnerInv, Typed, Stops, OffLeavesOneThread
<1> QED
  BY <1>1, RunnerInvariant, PTL

\* busy_ and task_ are exact in every state, across stops, starts and timers:
\* what Check decides by is never off.
THEOREM CountersAreExact == ASSUME RunnerAssumption PROVE Spec => []CountersMatch
<1>1. RunnerInv => CountersMatch
  BY CountsMatch DEF RunnerInv
<1> QED
  BY <1>1, RunnerInvariant, PTL

\* A call is queued once or run by one thread: a repeated call never overlaps
\* with itself, and none is lost or doubled by a stop and a start.
THEOREM CallsAreInOnePlace == ASSUME RunnerAssumption PROVE Spec => []OnePlace
<1>1. RunnerInv => OnePlace
  BY DEF RunnerInv
<1> QED
  BY <1>1, RunnerInvariant, PTL

\* The variables keep their types: no counter falls below zero.
THEOREM TypeCorrect == ASSUME RunnerAssumption PROVE Spec => []TypeOK
<1>1. RunnerAssumption /\ RunnerInv => TypeOK
  <2> SUFFICES ASSUME RunnerAssumption, RunnerInv PROVE TypeOK
    OBVIOUS
  <2>1. BusyCalls \in SUBSET Calls /\ TaskCalls \in SUBSET Calls
    BY DEF BusyCalls, TaskCalls
  <2>2. Cardinality(BusyCalls) \in Nat /\ Cardinality(TaskCalls) \in Nat
    BY <2>1, FS_Subset, FS_CardinalityType DEF RunnerAssumption
  <2> QED
    BY <2>2 DEF RunnerInv, Typed, Counts, TypeOK
<1> QED
  BY <1>1, RunnerInvariant, PTL
=============================================================================
