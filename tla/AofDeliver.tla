------------------------------ MODULE AofDeliver ------------------------------
(***************************************************************************)
(* redis_aof_deliver: the append-only file of a redis server is followed   *)
(* and its commands are sent to backends chosen by consistent hashing.     *)
(*                                                                         *)
(* Threads: the main thread waits for inotify events (ProcessNotify); the  *)
(* track thread reads the file (ProcessTrack); the deliver thread routes   *)
(* (ProcessDeliver); one Worker per backend writes to its socket.          *)
(*                                                                         *)
(* A command is its number in the file.  It is LinesPerCommand reads long, *)
(* so that the file may end in the middle of one.  One action is one       *)
(* critical section, one blocking call, or the step between two of them.   *)
(* The commands are well formed; the calls that read or watch may fail.    *)
(***************************************************************************)
EXTENDS Naturals, Sequences, FiniteSets, SequencesExt

CONSTANTS Keys,         \* the keys of the commands
          Select,       \* stands for the SELECT commands, which are ignored
          Backends,     \* the nicknames in worker_map_ and on the ring
          Route,        \* continuum_.Locate: the ring is built before Start
          MaxCommands,  \* bound of the model: commands written to the file
          SpuriousWakeups  \* whether a wait may end without a notification

ASSUME RouteAssumption == Route \in [Keys -> Backends] /\ Select \notin Keys
ASSUME BoundAssumption == MaxCommands \in Nat
ASSUME WakeupAssumption == SpuriousWakeups \in BOOLEAN

LinesPerCommand == 2

VARIABLES
  aof,       \* the commands the server has begun to write
  written,   \* how many lines of them are in the file
  modified,  \* an IN_MODIFY event is queued in notify_fd_
  watcher,   \* where the main thread is
  pos,       \* track_pos_, in lines, past what a failed read left unread
  cut,       \* <<>>, or the key of the command that a failed read cut short
  track,     \* where the track thread is
  held,      \* the track thread holds track_mutex_: it retries after a wait
  missed,    \* history: why the track thread may sleep, see NotifyTrack
  commands,  \* commands_
  count,     \* Stat's count_
  deliver,   \* where the deliver thread is
  owed,      \* the backend whose worker SendCommand still has to notify
  queue,     \* queue[b]: the worker's task_queue_
  worker,    \* where worker b is
  hand,      \* hand[b]: the command worker b took, or <<>>
  broken,    \* the backends whose connection has failed
  sent,      \* history: sent[b], the commands written to backend b
  dropped,   \* history: dropped[b], those whose write_some threw
  finished,  \* Stat's finished_
  shutdown   \* shutdown_; notify_fd_ is closed with it

fileVars    == <<aof, written>>
watchVars   == <<modified, watcher>>
trackVars   == <<pos, cut, track, held, missed>>
statVars    == <<count, finished>>
deliverVars == <<deliver, owed>>
workerVars  == <<worker, hand, broken, sent, dropped>>
vars == <<fileVars, watchVars, trackVars, statVars, deliverVars, workerVars,
          commands, queue, shutdown>>

Init ==
  /\ aof = <<>> /\ written = 0
  /\ modified = FALSE /\ watcher = "start"
  /\ pos = 0 /\ cut = <<>> /\ track = "test" /\ held = FALSE /\ missed = FALSE
  /\ commands = <<>> /\ count = 0 /\ finished = 0
  /\ deliver = "test" /\ owed = {}
  /\ queue = [b \in Backends |-> <<>>]
  /\ worker = [b \in Backends |-> "ready"]
  /\ hand = [b \in Backends |-> <<>>]
  /\ broken = {}
  /\ sent = [b \in Backends |-> <<>>]
  /\ dropped = [b \in Backends |-> <<>>]
  /\ shutdown = FALSE

-----------------------------------------------------------------------------
(* The redis server.  A write before inotify_add_watch leaves no event: if   *)
(* the track thread has found the end of the file already it stays unaware.  *)

Grow(lines) ==
  /\ written' = written + lines
  /\ modified' = (modified \/ watcher # "start")
  /\ missed' = \/ missed
               \/ watcher = "start" /\ track \in {"short", "waiting"}
  /\ UNCHANGED <<watcher, pos, cut, track, held, statVars, deliverVars,
                 workerVars, commands, queue, shutdown>>

\* A command is written whole, or its first part is.
Begin(k, lines) ==
  /\ written = LinesPerCommand * Len(aof) /\ Len(aof) < MaxCommands
  /\ aof' = Append(aof, k)
  /\ Grow(lines)

Complete ==
  /\ written < LinesPerCommand * Len(aof)
  /\ Grow(LinesPerCommand * Len(aof) - written)
  /\ UNCHANGED aof

-----------------------------------------------------------------------------
(* The main thread: ProcessNotify, and the handler of SIGINT. *)

\* inotify_init and inotify_add_watch, either of which may fail.
AddWatch ==
  /\ watcher = "start"
  /\ watcher' \in {"test", "returned"}
  /\ UNCHANGED <<fileVars, modified, trackVars, statVars, deliverVars,
                 workerVars, commands, queue, shutdown>>

\* The bug of a loop that does not look at shutdown_.
WatchTestIgnoresStop ==
  /\ watcher = "test"
  /\ watcher' = "reading"
  /\ UNCHANGED <<fileVars, modified, trackVars, statVars, deliverVars,
                 workerVars, commands, queue, shutdown>>

WatchTest ==
  /\ watcher = "test"
  /\ watcher' = IF shutdown THEN "returned" ELSE "reading"
  /\ UNCHANGED <<fileVars, modified, trackVars, statVars, deliverVars,
                 workerVars, commands, queue, shutdown>>

\* The bug of a mask that IN_MODIFY does not pass.
ReadEventsMasked ==
  /\ watcher = "reading" /\ modified
  /\ modified' = FALSE
  /\ watcher' = "test"
  /\ UNCHANGED <<fileVars, trackVars, statVars, deliverVars, workerVars,
                 commands, queue, shutdown>>

\* read returns the queued events; equal ones were merged by the kernel.
ReadEvents ==
  /\ watcher = "reading" /\ modified
  /\ modified' = FALSE
  /\ watcher' = "notify"
  /\ UNCHANGED <<fileVars, trackVars, statVars, deliverVars, workerVars,
                 commands, queue, shutdown>>

\* read returns -1 although nobody has stopped the program.
ReadEventsFails ==
  /\ watcher = "reading"
  /\ watcher' = "returned"
  /\ UNCHANGED <<fileVars, modified, trackVars, statVars, deliverVars,
                 workerVars, commands, queue, shutdown>>

\* A track thread that wakes up holds track_mutex_ while it reads again.
WakeTrack ==
  IF track = "waiting"
    THEN track' = "read" /\ held' = TRUE /\ missed' = FALSE
    ELSE /\ missed' = (missed \/ track = "short")
         /\ UNCHANGED <<track, held>>

\* track_cond_.notify_all, which is called without track_mutex_: it is missed
\* by a track thread that read too little and is not yet inside wait.
NotifyTrack ==
  /\ watcher = "notify"
  /\ WakeTrack
  /\ watcher' = "test"
  /\ UNCHANGED <<fileVars, modified, pos, cut, statVars, deliverVars, workerVars,
                 commands, queue, shutdown>>

\* SignalTerminate.  A read that starts on the closed descriptor, or that the
\* signal interrupts, fails; one blocked while another thread runs the
\* handler goes on waiting for the next event.
Stop ==
  /\ shutdown' = TRUE
  /\ \/ watcher = "reading" /\ watcher' = "returned"
     \/ UNCHANGED watcher
  /\ UNCHANGED <<fileVars, modified, trackVars, statVars, deliverVars,
                 workerVars, commands, queue>>

\* Start returns, main returns: the process ends whatever the others do.
Exit ==
  /\ watcher = "returned"
  /\ watcher' = "exited"
  /\ UNCHANGED <<fileVars, modified, trackVars, statVars, deliverVars,
                 workerVars, commands, queue, shutdown>>

-----------------------------------------------------------------------------
(* The track thread. *)

\* Behind a command that was cut short ReadArgc finds no '*', and ends the loop.
TrackTest ==
  /\ track = "test"
  /\ track' = IF shutdown THEN "returned"
              ELSE IF cut # <<>> THEN "failed" ELSE "read"
  /\ UNCHANGED <<fileVars, watchVars, pos, cut, held, missed, statVars,
                 deliverVars, workerVars, commands, queue, shutdown>>

\* The bug of a reader that takes the end of the file for the end of the log.
ReadToTheEnd ==
  /\ track = "read"
  /\ IF pos < written
       THEN /\ pos' = pos + 1 /\ held' = FALSE
            /\ track' = IF pos' % LinesPerCommand = 0 THEN "push" ELSE "read"
       ELSE track' = "returned" /\ UNCHANGED <<pos, held>>
  /\ UNCHANGED <<fileVars, watchVars, cut, missed, statVars, deliverVars,
                 workerVars, commands, queue, shutdown>>

\* pread in ReadUntilNewline and ReadBytes.  The retry is a recursive call
\* made inside the scope of alock: when it comes up short it locks the mutex
\* its own thread holds.
Read ==
  /\ track = "read"
  /\ IF pos < written
       THEN /\ pos' = pos + 1 /\ held' = FALSE
            /\ track' = IF pos' % LinesPerCommand = 0 THEN "push" ELSE "read"
       ELSE /\ track' = IF held THEN "locked" ELSE "short"
            /\ UNCHANGED <<pos, held>>
  /\ UNCHANGED <<fileVars, watchVars, cut, missed, statVars, deliverVars,
                 workerVars, commands, queue, shutdown>>

\* scoped_lock alock(track_mutex_); track_cond_.wait(alock).
TrackWait ==
  /\ track = "short"
  /\ track' = "waiting"
  /\ UNCHANGED <<fileVars, watchVars, pos, cut, held, missed, statVars,
                 deliverVars, workerVars, commands, queue, shutdown>>

\* The number of the command the track thread has read last.
Current == pos \div LinesPerCommand

\* pread returns -1.  At the start of a command that ends the loop.  Within one
\* it ends the command, which goes on with the part and the key that were read:
\* an empty key has a backend as well, and a SELECT whose name was not read is
\* not ignored.
ReadFails ==
  /\ track = "read"
  /\ held' = FALSE
  /\ IF pos % LinesPerCommand = 0
       THEN track' = "failed" /\ UNCHANGED <<pos, cut>>
       ELSE /\ track' = "push"
            /\ pos' = pos + 1
            /\ \E k \in Keys \cup {aof[Current + 1]} : cut' = <<k>>
  /\ UNCHANGED <<fileVars, watchVars, missed, statVars, deliverVars,
                 workerVars, commands, queue, shutdown>>

\* The key under which command n was read; none is read after one cut short.
KeyOf(n) == IF cut # <<>> /\ n = Current THEN cut[1] ELSE aof[n]

\* The bug of counting the commands that are ignored.
PushCountsIgnored ==
  /\ track = "push" /\ deliver # "post"
  /\ commands' = IF KeyOf(Current) = Select THEN commands
                                          ELSE Append(commands, Current)
  /\ count' = count + 1
  /\ track' = "notify"
  /\ UNCHANGED <<fileVars, watchVars, pos, cut, held, missed, finished,
                 deliverVars, workerVars, queue, shutdown>>

\* The bug of a push that is not notified.
PushSilently ==
  /\ track = "push" /\ deliver # "post"
  /\ IF KeyOf(Current) = Select
       THEN UNCHANGED <<commands, count>>
       ELSE commands' = Append(commands, Current) /\ count' = count + 1
  /\ track' = "test"
  /\ UNCHANGED <<fileVars, watchVars, pos, cut, held, missed, finished,
                 deliverVars, workerVars, queue, shutdown>>

\* The end of ProcessTrack's loop, under command_mutex_, which the deliver
\* thread holds while it is inside SendCommand.
Push ==
  /\ track = "push" /\ deliver # "post"
  /\ IF KeyOf(Current) = Select
       THEN UNCHANGED <<commands, count>>
       ELSE commands' = Append(commands, Current) /\ count' = count + 1
  /\ track' = "notify"
  /\ UNCHANGED <<fileVars, watchVars, pos, cut, held, missed, finished,
                 deliverVars, workerVars, queue, shutdown>>

\* command_cond_.notify_all, outside the mutex.
NotifyDeliver ==
  /\ track = "notify"
  /\ track' = "test"
  /\ deliver' = IF deliver = "waiting" THEN "test" ELSE deliver
  /\ UNCHANGED <<fileVars, watchVars, pos, cut, held, missed, statVars, owed,
                 workerVars, commands, queue, shutdown>>

-----------------------------------------------------------------------------
(* The deliver thread. *)

DeliverTest ==
  /\ deliver = "test"
  /\ deliver' = IF shutdown THEN "returned" ELSE "ready"
  /\ UNCHANGED <<fileVars, watchVars, trackVars, statVars, owed, workerVars,
                 commands, queue, shutdown>>

DeliverWait ==
  /\ deliver = "ready" /\ commands = <<>>
  /\ deliver' = "waiting"
  /\ UNCHANGED <<fileVars, watchVars, trackVars, statVars, owed, workerVars,
                 commands, queue, shutdown>>

\* The bug of a Worker::Post that queues at the front.
SendCommandInFront ==
  /\ deliver = "ready" /\ commands # <<>>
  /\ LET b == Route[KeyOf(Head(commands))] IN
       /\ queue' = [queue EXCEPT ![b] = <<Head(commands)>> \o @]
       /\ owed' = {b}
  /\ commands' = Tail(commands)
  /\ deliver' = "post"
  /\ UNCHANGED <<fileVars, watchVars, trackVars, statVars, workerVars,
                 shutdown>>

\* Takes a command and, still holding command_mutex_, does SendCommand up to
\* the push_back of Worker::Post.
SendCommand ==
  /\ deliver = "ready" /\ commands # <<>>
  /\ LET b == Route[KeyOf(Head(commands))] IN
       /\ queue' = [queue EXCEPT ![b] = Append(@, Head(commands))]
       /\ owed' = {b}
  /\ commands' = Tail(commands)
  /\ deliver' = "post"
  /\ UNCHANGED <<fileVars, watchVars, trackVars, statVars, workerVars,
                 shutdown>>

\* The notify_all of Worker::Post, outside task_mutex_.
PostNotify ==
  /\ deliver = "post"
  /\ worker' = [b \in Backends |->
                  IF b \in owed /\ worker[b] = "waiting" THEN "ready"
                                                         ELSE worker[b]]
  /\ owed' = {}
  /\ deliver' = "test"
  /\ UNCHANGED <<fileVars, watchVars, trackVars, statVars, hand, broken, sent,
                 dropped, commands, queue, shutdown>>

-----------------------------------------------------------------------------
(* The worker of backend b: Worker::Handle. *)

Take(b) ==
  /\ worker[b] = "ready"
  /\ IF queue[b] = <<>>
       THEN worker' = [worker EXCEPT ![b] = "waiting"] /\ UNCHANGED <<hand, queue>>
       ELSE /\ worker' = [worker EXCEPT ![b] = "writing"]
            /\ hand' = [hand EXCEPT ![b] = <<Head(queue[b])>>]
            /\ queue' = [queue EXCEPT ![b] = Tail(@)]
  /\ UNCHANGED <<fileVars, watchVars, trackVars, statVars, deliverVars, broken,
                 sent, dropped, commands, shutdown>>

\* The bug of a worker that waits after every command it writes.
WriteThenWait(b) ==
  /\ worker[b] = "writing" /\ b \notin broken
  /\ sent' = [sent EXCEPT ![b] = @ \o hand[b]]
  /\ finished' = finished + 1
  /\ hand' = [hand EXCEPT ![b] = <<>>]
  /\ worker' = [worker EXCEPT ![b] = "waiting"]
  /\ UNCHANGED <<fileVars, watchVars, trackVars, count, deliverVars, broken,
                 dropped, commands, queue, shutdown>>

\* write_some and IncrFinished.
Write(b) ==
  /\ worker[b] = "writing" /\ b \notin broken
  /\ sent' = [sent EXCEPT ![b] = @ \o hand[b]]
  /\ finished' = finished + 1
  /\ hand' = [hand EXCEPT ![b] = <<>>]
  /\ worker' = [worker EXCEPT ![b] = "ready"]
  /\ UNCHANGED <<fileVars, watchVars, trackVars, count, deliverVars, broken,
                 dropped, commands, queue, shutdown>>

\* write_some throws, as it will from then on: the command is deleted unsent.
Fail(b) ==
  /\ worker[b] = "writing"
  /\ broken' = broken \cup {b}
  /\ dropped' = [dropped EXCEPT ![b] = @ \o hand[b]]
  /\ hand' = [hand EXCEPT ![b] = <<>>]
  /\ worker' = [worker EXCEPT ![b] = "ready"]
  /\ UNCHANGED <<fileVars, watchVars, trackVars, statVars, deliverVars, sent,
                 commands, queue, shutdown>>

-----------------------------------------------------------------------------
\* boost::condition_variable_any may wake a waiter that nobody notified.
SpuriousTrack ==
  /\ track = "waiting"
  /\ track' = "read" /\ held' = TRUE /\ missed' = FALSE
  /\ UNCHANGED <<fileVars, watchVars, pos, cut, statVars, deliverVars, workerVars,
                 commands, queue, shutdown>>

SpuriousDeliver ==
  /\ deliver = "waiting"
  /\ deliver' = "test"
  /\ UNCHANGED <<fileVars, watchVars, trackVars, statVars, owed, workerVars,
                 commands, queue, shutdown>>

SpuriousWorker(b) ==
  /\ worker[b] = "waiting"
  /\ worker' = [worker EXCEPT ![b] = "ready"]
  /\ UNCHANGED <<fileVars, watchVars, trackVars, statVars, deliverVars, hand,
                 broken, sent, dropped, commands, queue, shutdown>>

SpuriousWakeup ==
  /\ SpuriousWakeups
  /\ SpuriousTrack \/ SpuriousDeliver \/ \E b \in Backends : SpuriousWorker(b)

Failing == ReadEventsFails \/ ReadFails
Watching == AddWatch \/ WatchTest \/ ReadEvents \/ NotifyTrack \/ Exit
Tracking == TrackTest \/ Read \/ TrackWait \/ Push \/ NotifyDeliver
Delivering == DeliverTest \/ DeliverWait \/ SendCommand \/ PostNotify
Handling(b) == Take(b) \/ Write(b) \/ Fail(b)

Running == watcher # "exited"

Next ==
  /\ Running
  /\ \/ \E k \in Keys \cup {Select}, lines \in 1 .. LinesPerCommand :
          Begin(k, lines)
     \/ Complete
     \/ Watching
     \/ Stop
     \/ Failing
     \/ Tracking
     \/ Delivering
     \/ \E b \in Backends : Handling(b)
     \/ SpuriousWakeup

\* Every thread is scheduled again while it can go on.  The server need not
\* write, the operator need not stop the program, no read need fail, no wakeup
\* comes by itself.
Fairness ==
  /\ WF_vars(Running /\ Watching)
  /\ WF_vars(Running /\ Tracking)
  /\ WF_vars(Running /\ Delivering)
  /\ \A b \in Backends : WF_vars(Running /\ Handling(b))

Spec == Init /\ [][Next]_vars
FairSpec == Spec /\ Fairness

-----------------------------------------------------------------------------
Ids == 1 .. Len(aof)

TypeOK ==
  /\ aof \in Seq(Keys \cup {Select})
  /\ written \in 0 .. LinesPerCommand * Len(aof)
  /\ pos \in 0 .. LinesPerCommand * Len(aof)
  /\ cut \in {<<>>} \cup {<<k>> : k \in Keys \cup {Select}}
  /\ modified \in BOOLEAN /\ held \in BOOLEAN /\ missed \in BOOLEAN
  /\ shutdown \in BOOLEAN
  /\ watcher \in {"start", "test", "reading", "notify", "returned", "exited"}
  /\ track \in {"test", "read", "short", "waiting", "locked", "push", "notify",
                "returned", "failed"}
  /\ deliver \in {"test", "ready", "waiting", "post", "returned"}
  /\ owed \in SUBSET Backends /\ broken \in SUBSET Backends
  /\ worker \in [Backends -> {"ready", "waiting", "writing"}]
  /\ commands \in Seq(Ids)
  /\ count \in Nat /\ finished \in Nat
  /\ \A f \in {queue, hand, sent, dropped} : f \in [Backends -> Seq(Ids)]

\* How many commands of the file the track thread is done with.
Handled == IF track = "push" THEN Current - 1 ELSE Current

IsFor(b, i) == KeyOf(i) # Select /\ Route[KeyOf(i)] = b

\* What was written to a backend, what its worker dropped, holds, has queued.
Line(b) == sent[b] \o dropped[b] \o hand[b] \o queue[b]

\* The line of a backend and what waits in commands_ for it are the backend's
\* share of what was read, and what waits comes after what is in a line, all in
\* file order: nothing is lost on the way, duplicated, misrouted, or overtaken,
\* and after a failed write nothing more is sent.  What follows a command that a
\* failed read cut short is not read, and that one has the key it was read with.
InFileOrder ==
  /\ \A b \in Backends :
       ToSet(Line(b)) \cup {n \in ToSet(commands) : IsFor(b, n)}
         = {n \in 1 .. Handled : IsFor(b, n)}
  /\ \A b \in Backends : \A i, j \in DOMAIN Line(b) : i < j => Line(b)[i] < Line(b)[j]
  /\ \A i, j \in DOMAIN commands : i < j => commands[i] < commands[j]
  /\ \A b \in Backends : \A i \in DOMAIN Line(b), j \in DOMAIN commands :
       Line(b)[i] < commands[j]

\* The places in what was written to the backends, one for each command.
Written == UNION {{b} \X DOMAIN sent[b] : b \in Backends}

\* AOF_CMD_COUNT and DONE_AOF_CMD_COUNT, the figures ProcessStat prints: the
\* commands that were read and not ignored, and those written to a backend.
StatIsExact ==
  /\ count = Cardinality({n \in 1 .. Handled : KeyOf(n) # Select})
  /\ finished = Cardinality(Written)

\* Neither the deliver thread nor a worker sleeps in front of a queued
\* command, except until a notification that another thread still owes.
NoLostHandoff ==
  /\ deliver = "waiting" /\ commands # <<>> => track = "notify"
  /\ \A b \in Backends :
       worker[b] = "waiting" /\ queue[b] # <<>> => b \in owed

\* The track thread sleeps although the file holds more, and no event is on
\* its way to wake it.
Overlooked ==
  track = "waiting" /\ pos < written /\ ~ modified /\ watcher # "notify"

\* That happens only when a notification fell between the short read and the
\* wait, or when the server wrote before the watch was installed.
OverlookedOnlyIfMissed == Overlooked => missed

\* Every command in the file is read, unless the program ends, one of its reads
\* fails, the track thread has overlooked the command, or has locked itself out.
AppendedIsRead ==
  \A n \in 1 .. MaxCommands :
    written >= LinesPerCommand * n
      ~> \/ Handled >= n
         \/ shutdown \/ watcher = "exited"
         \/ Overlooked \/ track \in {"failed", "locked"}

\* Every command read is written to its backend, or dropped there because of
\* a failed write, unless the program ends.
ReadIsSent ==
  \A n \in 1 .. MaxCommands, b \in Backends :
    Handled >= n /\ IsFor(b, n)
      ~> \/ n \in ToSet(sent[b]) \cup ToSet(dropped[b])
         \/ shutdown \/ watcher = "exited"

\* SIGINT ends the program, unless the main thread stays blocked in the read
\* of the descriptor that Stop closed.
StopEnds == shutdown /\ watcher # "reading" ~> watcher = "exited"

\* What the comment "one more try" says of the read after a wait: the track
\* thread does read, it does not lock itself out.
RetryIsMade == track # "locked"
=============================================================================
