--------------------------- MODULE AofDeliverProofs ---------------------------
(***************************************************************************)
(* Proofs about AofDeliver, for any keys, backends, route and length of    *)
(* the file: hand-offs are not lost, data is overlooked only in the named  *)
(* windows, and every backend gets its commands once and in file order.    *)
(***************************************************************************)
EXTENDS AofDeliver, FiniteSetTheorems, SequenceTheorems, TLAPS

\* The part of TypeOK that speaks of the file.
FileTyped ==
  /\ aof \in Seq(Keys \cup {Select})
  /\ written \in 0 .. LinesPerCommand * Len(aof)
  /\ pos \in 0 .. LinesPerCommand * Len(aof)
  /\ cut \in {<<>>} \cup {<<k>> : k \in Keys \cup {Select}}
  /\ track \in {"test", "read", "short", "waiting", "locked", "push", "notify",
                "returned", "failed"}
  /\ track = "push" => pos % LinesPerCommand = 0 /\ pos > 0
  /\ cut # <<>> => track \in {"test", "push", "notify", "returned", "failed"}

\* The flags and the places of the other threads.
PlacesTyped ==
  /\ modified \in BOOLEAN /\ held \in BOOLEAN /\ missed \in BOOLEAN
  /\ shutdown \in BOOLEAN
  /\ watcher \in {"start", "test", "reading", "notify", "returned", "exited"}
  /\ deliver \in {"test", "ready", "waiting", "post", "returned"}
  /\ owed \in SUBSET Backends /\ broken \in SUBSET Backends
  /\ worker \in [Backends -> {"ready", "waiting", "writing"}]
  /\ count \in Nat /\ finished \in Nat

\* What is on its way from the file to the backends.
CommandsTyped ==
  /\ commands \in Seq(Ids)
  /\ queue \in [Backends -> Seq(Ids)] /\ hand \in [Backends -> Seq(Ids)]
  /\ sent \in [Backends -> Seq(Ids)] /\ dropped \in [Backends -> Seq(Ids)]

\* The types, in the parts that are proved one by one.
Typed == FileTyped /\ PlacesTyped /\ CommandsTyped

-----------------------------------------------------------------------------
(* Types. *)

\* The types hold to begin with.
LEMMA InitTyped == Init => Typed
<1> SUFFICES ASSUME Init PROVE Typed
  OBVIOUS
<1>1. FileTyped
  BY DEF Init, FileTyped, LinesPerCommand
<1>2. PlacesTyped
  BY DEF Init, PlacesTyped
<1>3. CommandsTyped
  BY DEF Init, CommandsTyped
<1> QED
  BY <1>1, <1>2, <1>3 DEF Typed

\* The file only grows, and what the track thread has read is in it.
LEMMA FileNext ==
  ASSUME FileTyped, [Next]_vars
  PROVE  /\ FileTyped'
         /\ aof' = aof \/ \E k \in Keys \cup {Select} : aof' = Append(aof, k)
         /\ track # "read" => pos' = pos /\ cut' = cut
         /\ cut' = cut \/ ReadFails
<1> USE DEF FileTyped, LinesPerCommand
<1>1. CASE Running /\ \E k \in Keys \cup {Select}, lines \in 1 .. LinesPerCommand : Begin(k, lines)
  BY <1>1 DEF Begin, Grow
<1>2. CASE Complete
  BY <1>2 DEF Complete, Grow
<1>3. CASE Read
  BY <1>3 DEF Read, fileVars
<1>4. CASE TrackTest \/ TrackWait \/ Push \/ NotifyDeliver
  BY <1>4 DEF TrackTest, TrackWait, Push, NotifyDeliver, fileVars
<1>f. CASE Failing
  <2>1. CASE ReadFails
    <3>1. CASE pos % LinesPerCommand = 0
      BY <2>1, <3>1 DEF ReadFails, fileVars
    <3>2. CASE pos % LinesPerCommand # 0
      <4>1. Current + 1 \in 1 .. Len(aof)
        BY <3>2 DEF Current
      <4>2. PICK k \in Keys \cup {aof[Current + 1]} : cut' = <<k>>
        BY <2>1, <3>2 DEF ReadFails
      <4>3. k \in Keys \cup {Select}
        BY <4>1
      <4>4. pos' = pos + 1 /\ track' = "push" /\ aof' = aof /\ written' = written
        BY <2>1, <3>2 DEF ReadFails, fileVars
      <4>5. pos' \in 0 .. LinesPerCommand * Len(aof) /\ pos' % LinesPerCommand = 0 /\ pos' > 0
        BY <3>2, <4>4
      <4> QED
        BY <2>1, <4>2, <4>3, <4>4, <4>5 DEF ReadFails
    <3> QED
      BY <3>1, <3>2
  <2>2. CASE ReadEventsFails
    BY <2>2 DEF ReadEventsFails, fileVars, trackVars
  <2> QED
    BY <1>f, <2>1, <2>2 DEF Failing
<1>5. CASE Watching \/ Stop
  BY <1>5 DEF Watching, AddWatch, WatchTest, ReadEvents, NotifyTrack, WakeTrack, Exit,
              Stop, fileVars, trackVars
<1>6. CASE Delivering
  BY <1>6 DEF Delivering, DeliverTest, DeliverWait, SendCommand, PostNotify,
              fileVars, trackVars
<1>7. ASSUME NEW b \in Backends, Handling(b) \/ SpuriousWorker(b)
      PROVE  FileTyped' /\ aof' = aof /\ pos' = pos /\ cut' = cut
  BY <1>7 DEF Handling, Take, Write, Fail, SpuriousWorker, fileVars, trackVars
<1>8. CASE SpuriousTrack \/ SpuriousDeliver
  BY <1>8 DEF SpuriousTrack, SpuriousDeliver, fileVars, trackVars
<1>9. CASE UNCHANGED vars
  BY <1>9 DEF vars, fileVars, trackVars
<1> QED
  BY <1>1, <1>2, <1>3, <1>4, <1>f, <1>5, <1>6, <1>7, <1>8, <1>9
     DEF Next, Tracking, SpuriousWakeup

\* What is in commands_ has been read, and is no SELECT: Push keeps those out.
Kept ==
  \A i \in DOMAIN commands : commands[i] \in 1 .. Handled /\ KeyOf(commands[i]) # Select

\* A command is read with a key, or is a SELECT.
LEMMA KeyIsTyped ==
  ASSUME FileTyped, NEW n \in Ids PROVE KeyOf(n) \in Keys \cup {Select}
<1>1. aof[n] \in Keys \cup {Select}
  BY DEF FileTyped, Ids
<1>2. ASSUME cut # <<>> PROVE cut[1] \in Keys \cup {Select}
  BY <1>2 DEF FileTyped
<1> QED
  BY <1>1, <1>2 DEF KeyOf

\* The first command has a key, and the key a backend.
LEMMA Routed ==
  ASSUME Typed, Kept, commands # <<>>
  PROVE  Head(commands) \in Ids /\ Route[KeyOf(Head(commands))] \in Backends
<1>1. Head(commands) \in Ids /\ Head(commands) = commands[1] /\ 1 \in DOMAIN commands
  BY DEF Typed, CommandsTyped
<1>2. KeyOf(Head(commands)) \in Keys
  BY <1>1, KeyIsTyped DEF Typed, Kept
<1> QED
  BY <1>1, <1>2, RouteAssumption DEF RouteAssumption

\* Each step keeps the types of the threads' places.
LEMMA PlacesNext ==
  ASSUME Typed, Kept, [Next]_vars PROVE PlacesTyped'
<1> USE DEF Typed, PlacesTyped
<1>1. CASE Running /\ \E k \in Keys \cup {Select}, lines \in 1 .. LinesPerCommand : Begin(k, lines)
  BY <1>1 DEF Begin, Grow, statVars, deliverVars, workerVars
<1>2. CASE Complete
  BY <1>2 DEF Complete, Grow, statVars, deliverVars, workerVars
<1>3. CASE Tracking
  <2>1. CASE Read \/ TrackTest \/ TrackWait
    BY <2>1, ZenonT(40) DEF Read, TrackTest, TrackWait, watchVars, statVars, deliverVars, workerVars
  <2>2. CASE Push
    BY <2>2 DEF Push, watchVars, deliverVars, workerVars
  <2>3. CASE NotifyDeliver
    BY <2>3 DEF NotifyDeliver, watchVars, statVars, workerVars
  <2> QED
    BY <1>3, <2>1, <2>2, <2>3 DEF Tracking
<1>f. CASE Failing
  <2>1. CASE ReadFails
    BY <2>1 DEF ReadFails, watchVars, statVars, deliverVars, workerVars
  <2>2. CASE ReadEventsFails
    BY <2>2 DEF ReadEventsFails, trackVars, statVars, deliverVars, workerVars
  <2> QED
    BY <1>f, <2>1, <2>2 DEF Failing
<1>4. CASE Watching \/ Stop
  BY <1>4, ZenonT(40) DEF Watching, AddWatch, WatchTest, ReadEvents, NotifyTrack, WakeTrack, Exit,
              Stop, trackVars, statVars, deliverVars, workerVars
<1>5. CASE Delivering
  <2>1. CASE DeliverTest \/ DeliverWait \/ PostNotify
    BY <2>1 DEF DeliverTest, DeliverWait, PostNotify, watchVars, trackVars, statVars,
                workerVars
  <2>2. CASE SendCommand
    <3>1. Route[KeyOf(Head(commands))] \in Backends
      BY <2>2, Routed DEF SendCommand
    <3> QED
      BY <2>2, <3>1 DEF SendCommand, watchVars, trackVars, statVars, workerVars
  <2> QED
    BY <1>5, <2>1, <2>2 DEF Delivering
<1>6. ASSUME NEW b \in Backends, Handling(b) PROVE PlacesTyped'
  <2>1. CASE Take(b)
    BY <2>1 DEF Take, watchVars, trackVars, statVars, deliverVars
  <2>2. CASE Write(b)
    BY <2>2 DEF Write, watchVars, trackVars, deliverVars
  <2>3. CASE Fail(b)
    BY <2>3 DEF Fail, watchVars, trackVars, statVars, deliverVars
  <2> QED
    BY <1>6, <2>1, <2>2, <2>3 DEF Handling
<1>7. CASE SpuriousWakeup
  <2>1. CASE SpuriousTrack
    BY <2>1 DEF SpuriousTrack, watchVars, statVars, deliverVars, workerVars
  <2>2. CASE SpuriousDeliver
    BY <2>2 DEF SpuriousDeliver, watchVars, trackVars, statVars, workerVars
  <2>3. ASSUME NEW b \in Backends, SpuriousWorker(b) PROVE PlacesTyped'
    BY <2>3 DEF SpuriousWorker, watchVars, trackVars, statVars, deliverVars
  <2> QED
    BY <1>7, <2>1, <2>2, <2>3 DEF SpuriousWakeup
<1>8. CASE UNCHANGED vars
  BY <1>8 DEF vars, watchVars, trackVars, statVars, deliverVars, workerVars
<1> QED
  BY <1>1, <1>2, <1>3, <1>f, <1>4, <1>5, <1>6, <1>7, <1>8 DEF Next

\* Commands keep their numbers and their keys when the file grows.
LEMMA IdsGrow ==
  ASSUME FileTyped, [Next]_vars
  PROVE  /\ Ids \subseteq Ids' /\ \A q \in Seq(Ids) : q \in Seq(Ids')
         /\ \A i \in Ids : aof'[i] = aof[i]
<1>1. CASE aof' = aof
  BY <1>1 DEF Ids
<1>2. ASSUME NEW k \in Keys \cup {Select}, aof' = Append(aof, k)
      PROVE  Ids \subseteq Ids' /\ \A i \in Ids : aof'[i] = aof[i]
  BY <1>2 DEF FileTyped, Ids
<1>3. Ids \subseteq Ids' /\ \A i \in Ids : aof'[i] = aof[i]
  BY <1>1, <1>2, FileNext
<1> QED
  BY <1>3

\* The command that the track thread has read is in the file.
LEMMA CurrentIsRead ==
  ASSUME FileTyped, track = "push" PROVE Current \in Ids /\ Handled = Current - 1
BY DEF FileTyped, Current, Ids, Handled, LinesPerCommand

\* What happens to commands_.
LEMMA CommandsMove ==
  ASSUME Typed, [Next]_vars
  PROVE  \/ /\ Push /\ Current \in Ids
            /\ commands' = IF KeyOf(Current) = Select THEN commands
                                                    ELSE Append(commands, Current)
         \/ SendCommand /\ commands # <<>> /\ commands' = Tail(commands)
         \/ ~ Push /\ ~ SendCommand /\ commands' = commands
<1>1. CASE Push
  BY <1>1, CurrentIsRead DEF Push, Typed
<1>2. CASE SendCommand
  BY <1>2 DEF SendCommand
<1>3. ASSUME NEW k, NEW lines, Begin(k, lines) PROVE commands' = commands
  BY <1>3 DEF Begin, Grow
<1>4. ASSUME NEW b, Handling(b) PROVE commands' = commands
  BY <1>4 DEF Handling, Take, Write, Fail
<1>5. ASSUME Complete \/ Watching \/ Stop PROVE commands' = commands
  BY <1>5 DEF Complete, Grow, Watching, AddWatch, WatchTest, ReadEvents, NotifyTrack, Exit, Stop
<1>6. ASSUME TrackTest \/ Read \/ TrackWait \/ NotifyDeliver \/ Failing
      PROVE  commands' = commands
  BY <1>6 DEF TrackTest, Read, TrackWait, NotifyDeliver, Failing, ReadFails, ReadEventsFails
<1>7. ASSUME DeliverTest \/ DeliverWait \/ PostNotify \/ SpuriousWakeup PROVE commands' = commands
  BY <1>7 DEF DeliverTest, DeliverWait, PostNotify, SpuriousWakeup, SpuriousTrack,
              SpuriousDeliver, SpuriousWorker
<1>8. ASSUME UNCHANGED vars PROVE commands' = commands
  BY <1>8 DEF vars
<1> QED
  BY <1>1, <1>2, <1>3, <1>4, <1>5, <1>6, <1>7, <1>8 DEF Next, Tracking, Delivering

\* Each step keeps the types of the commands, wherever they are.
LEMMA CommandsNext ==
  ASSUME Typed, Kept, [Next]_vars PROVE CommandsTyped'
<1> DEFINE Kinds == [Backends -> Seq(Ids)]
           Good == /\ commands' \in Seq(Ids)
                   /\ queue' \in Kinds /\ hand' \in Kinds /\ sent' \in Kinds
                   /\ dropped' \in Kinds
<1> SUFFICES Good
  BY IdsGrow DEF Typed, CommandsTyped
<1>0. /\ commands \in Seq(Ids)
      /\ queue \in Kinds /\ hand \in Kinds /\ sent \in Kinds /\ dropped \in Kinds
  BY DEF Typed, CommandsTyped
<1>1. CASE UNCHANGED <<commands, queue, workerVars>>
  BY <1>0, <1>1 DEF workerVars
<1>2. CASE Push
  <2>1. commands' = commands \/ commands' = Append(commands, Current)
    BY <1>2 DEF Push
  <2>2. Current \in Ids
    BY <1>2, CurrentIsRead DEF Push, Typed
  <2>3. queue' = queue /\ hand' = hand /\ sent' = sent /\ dropped' = dropped
    BY <1>2 DEF Push, workerVars
  <2>4. commands' \in Seq(Ids)
    <3>1. \A e \in Ids : Append(commands, e) \in Seq(Ids)
      BY <1>0
    <3> QED
      BY <1>0, <2>1, <2>2, <3>1
  <2> QED
    BY <1>0, <2>3, <2>4
<1>3. CASE SendCommand
  <2>1. Head(commands) \in Ids /\ Tail(commands) \in Seq(Ids)
    BY <1>0, <1>3 DEF SendCommand
  <2>2. PICK b \in Backends : queue' = [queue EXCEPT ![b] = Append(@, Head(commands))]
    BY <1>3, Routed DEF SendCommand
  <2>3. Append(queue[b], Head(commands)) \in Seq(Ids)
    BY <1>0, <2>1
  <2>4. queue' \in Kinds
    BY <1>0, <2>2, <2>3
  <2>5. commands' \in Seq(Ids)
    BY <1>3, <2>1 DEF SendCommand
  <2>6. hand' \in Kinds /\ sent' \in Kinds /\ dropped' \in Kinds
    BY <1>0, <1>3 DEF SendCommand, workerVars
  <2> QED
    BY <2>4, <2>5, <2>6
<1>4. CASE PostNotify \/ SpuriousWakeup
  BY <1>0, <1>4 DEF PostNotify, SpuriousWakeup, SpuriousTrack, SpuriousDeliver,
                    SpuriousWorker, workerVars
<1>5. ASSUME NEW b \in Backends, Handling(b) PROVE Good
  <2>1. CASE Take(b)
    <3>1. CASE queue[b] = <<>>
      BY <1>0, <2>1, <3>1 DEF Take
    <3>2. CASE queue[b] # <<>>
      <4>1. <<Head(queue[b])>> \in Seq(Ids) /\ Tail(queue[b]) \in Seq(Ids)
        BY <1>0, <3>2
      <4> QED
        BY <1>0, <2>1, <3>2, <4>1 DEF Take
    <3> QED
      BY <3>1, <3>2
  <2>2. CASE Write(b)
    <3>1. sent[b] \o hand[b] \in Seq(Ids)
      BY <1>0
    <3> QED
      BY <1>0, <2>2, <3>1 DEF Write
  <2>3. CASE Fail(b)
    <3>1. dropped[b] \o hand[b] \in Seq(Ids)
      BY <1>0
    <3> QED
      BY <1>0, <2>3, <3>1 DEF Fail
  <2> QED
    BY <1>5, <2>1, <2>2, <2>3 DEF Handling
<1>6. CASE Watching \/ Stop \/ Complete
  BY <1>1, <1>6 DEF Watching, AddWatch, WatchTest, ReadEvents, NotifyTrack, Exit, Stop,
                    Complete, Grow
<1>7. ASSUME NEW k, NEW lines, Begin(k, lines) PROVE Good
  BY <1>1, <1>7 DEF Begin, Grow
<1>8. CASE TrackTest \/ Read \/ TrackWait \/ NotifyDeliver \/ DeliverTest \/ DeliverWait
           \/ Failing
  BY <1>1, <1>8 DEF TrackTest, Read, TrackWait, NotifyDeliver, DeliverTest, DeliverWait,
                    Failing, ReadFails, ReadEventsFails
<1>9. CASE UNCHANGED vars
  BY <1>1, <1>9 DEF vars
<1> QED
  BY <1>2, <1>3, <1>4, <1>5, <1>6, <1>7, <1>8, <1>9 DEF Next, Tracking, Delivering

\* Push alone finishes a command that was read.
LEMMA HandledMoves ==
  ASSUME Typed, [Next]_vars
  PROVE  /\ Handled \in Nat /\ 1 .. Handled \subseteq Ids
         /\ Push => Current = Handled + 1 /\ Handled' = Handled + 1
         /\ ~ Push => Handled' = Handled
<1> USE DEF Typed, FileTyped, Handled, Current, LinesPerCommand
<1>1. Handled \in Nat /\ 1 .. Handled \subseteq Ids
  BY DEF Ids
<1>2. Push => Current = Handled + 1 /\ Handled' = Handled + 1
  BY DEF Push
<1>3. ASSUME ~ Push PROVE Handled' = Handled
  <2>1. CASE pos' = pos /\ (track' = track \/ (track # "push" /\ track' # "push"))
    BY <2>1
  <2>2. CASE Read
    <3>1. CASE pos < written
      BY <2>2, <3>1 DEF Read
    <3>2. CASE ~ (pos < written)
      BY <2>2, <3>2 DEF Read
    <3> QED
      BY <3>1, <3>2
  <2>f. CASE Failing
    BY <2>1, <2>f DEF Failing, ReadFails, ReadEventsFails, trackVars
  <2>3. CASE TrackTest \/ TrackWait \/ NotifyDeliver
    BY <2>1, <2>3 DEF TrackTest, TrackWait, NotifyDeliver
  <2>4. CASE Watching \/ Stop
    BY <2>1, <2>4 DEF Watching, AddWatch, WatchTest, ReadEvents, NotifyTrack, WakeTrack,
                      Exit, Stop, trackVars
  <2>5. CASE Delivering
    BY <2>1, <2>5 DEF Delivering, DeliverTest, DeliverWait, SendCommand, PostNotify, trackVars
  <2>6. ASSUME NEW b, Handling(b) \/ SpuriousWorker(b) PROVE Handled' = Handled
    BY <2>1, <2>6 DEF Handling, Take, Write, Fail, SpuriousWorker, trackVars
  <2>7. CASE SpuriousTrack \/ SpuriousDeliver
    BY <2>1, <2>7 DEF SpuriousTrack, SpuriousDeliver, trackVars
  <2>8. CASE Complete
    BY <2>1, <2>8 DEF Complete, Grow
  <2>9. ASSUME NEW k, NEW lines, Begin(k, lines) PROVE Handled' = Handled
    BY <2>1, <2>9 DEF Begin, Grow
  <2>10. CASE UNCHANGED vars
    BY <2>1, <2>10 DEF vars, trackVars
  <2> QED
    BY <1>3, <2>2, <2>f, <2>3, <2>4, <2>5, <2>6, <2>7, <2>8, <2>9, <2>10
       DEF Next, Tracking, SpuriousWakeup
<1> QED
  BY <1>1, <1>2, <1>3

\* What was read keeps its number and its key.
LEMMA KeysKept ==
  ASSUME Typed, [Next]_vars
  PROVE  /\ \A n \in 1 .. Handled : KeyOf(n)' = KeyOf(n)
         /\ Push => KeyOf(Current)' = KeyOf(Current)
<1>1. /\ Handled \in Nat /\ 1 .. Handled \subseteq Ids /\ Current' \in Nat
      /\ \A n \in Ids : aof'[n] = aof[n]
  BY HandledMoves, IdsGrow, FileNext DEF Typed, FileTyped, Current, LinesPerCommand
<1>2. ASSUME track # "read" PROVE \A n \in Ids : KeyOf(n)' = KeyOf(n)
  BY <1>1, <1>2, FileNext DEF Typed, KeyOf, Current
<1>3. ASSUME track = "read", ~ ReadFails PROVE \A n \in Ids : KeyOf(n)' = KeyOf(n)
  BY <1>1, <1>3, FileNext DEF Typed, FileTyped, KeyOf
<1>4. ASSUME ReadFails PROVE \A n \in 1 .. Handled : KeyOf(n)' = KeyOf(n)
  <2>1. cut = <<>> /\ (cut' = <<>> \/ Current' = Handled + 1)
    <3>1. track = "read" /\ cut = <<>> /\ Handled = Current
      BY <1>4 DEF ReadFails, Typed, FileTyped, Handled
    <3>2. CASE pos % LinesPerCommand = 0
      BY <1>4, <3>1, <3>2 DEF ReadFails
    <3>3. CASE pos % LinesPerCommand # 0
      BY <1>4, <3>1, <3>3 DEF ReadFails, Typed, FileTyped, Current, LinesPerCommand
    <3> QED
      BY <3>1, <3>2, <3>3
  <2> QED
    BY <1>1, <2>1 DEF KeyOf
<1>5. \A n \in 1 .. Handled : KeyOf(n)' = KeyOf(n)
  <2>1. CASE track # "read"
    BY <1>1, <1>2, <2>1
  <2>2. CASE track = "read" /\ ~ ReadFails
    BY <1>1, <1>3, <2>2
  <2>3. CASE ReadFails
    BY <1>4, <2>3
  <2> QED
    BY <2>1, <2>2, <2>3
<1>6. ASSUME Push PROVE KeyOf(Current)' = KeyOf(Current)
  <2>1. aof' = aof /\ pos' = pos /\ cut' = cut
    BY <1>6 DEF Push, fileVars
  <2> QED
    BY <2>1 DEF KeyOf, Current
<1> QED
  BY <1>5, <1>6

\* What waits in commands_ was read, and is kept under its key.
LEMMA KeptNext ==
  ASSUME Typed, Kept, [Next]_vars PROVE Kept'
<1>0. /\ commands \in Seq(Ids) /\ Handled \in Nat
      /\ \A i \in DOMAIN commands :
           commands[i] \in 1 .. Handled /\ KeyOf(commands[i]) # Select
      /\ \A n \in 1 .. Handled : n \in 1 .. Handled' /\ KeyOf(n)' = KeyOf(n)
  BY HandledMoves, KeysKept DEF Typed, CommandsTyped, Kept
<1>1. CASE commands' = commands
  BY <1>0, <1>1 DEF Kept
<1>2. CASE commands # <<>> /\ commands' = Tail(commands)
  BY <1>0, <1>2 DEF Kept
<1>3. CASE Push /\ KeyOf(Current) # Select /\ commands' = Append(commands, Current)
  <2>1. Current \in 1 .. Handled' /\ KeyOf(Current)' # Select /\ Current' = Current
    BY <1>0, <1>3, HandledMoves, KeysKept DEF Push, Current
  <2>2. \A i \in DOMAIN commands' :
          commands'[i] = Current \/ (i \in DOMAIN commands /\ commands'[i] = commands[i])
    BY <1>0, <1>3
  <2> QED
    BY <1>0, <2>1, <2>2 DEF Kept, KeyOf
<1> QED
  BY <1>1, <1>2, <1>3, CommandsMove

-----------------------------------------------------------------------------
(* Hand-offs and sleepers. *)

\* What NoLostHandoff rests on: only the post step owes a notification.
Handoff == NoLostHandoff /\ (deliver # "post" => owed = {})

\* No step loses a handoff.
LEMMA HandoffNext ==
  ASSUME Typed, Kept, Handoff, [Next]_vars PROVE Handoff'
<1> USE DEF Handoff, NoLostHandoff
<1>1. CASE UNCHANGED <<commands, queue, deliver, owed, worker>> /\ track # "notify"
  BY <1>1
<1>2. CASE Push
  BY <1>2 DEF Push, deliverVars, workerVars
<1>3. CASE NotifyDeliver
  BY <1>3 DEF NotifyDeliver, workerVars
<1>4. CASE DeliverTest \/ DeliverWait
  BY <1>4 DEF DeliverTest, DeliverWait, workerVars, trackVars
<1>5. CASE SendCommand
  <2>1. Route[KeyOf(Head(commands))] \in Backends
    BY <1>5, Routed DEF SendCommand
  <2> DEFINE r == Route[KeyOf(Head(commands))]
  <2>2. \A b \in Backends : b # r => queue'[b] = queue[b]
    BY <1>5, <2>1 DEF SendCommand, Typed, CommandsTyped
  <2>3. owed = {} /\ owed' = {r} /\ worker' = worker /\ deliver' = "post"
    BY <1>5 DEF SendCommand, workerVars
  <2> QED
    BY <2>2, <2>3
<1>6. CASE PostNotify
  BY <1>6 DEF PostNotify, trackVars, Typed, PlacesTyped
<1>7. ASSUME NEW b \in Backends, Handling(b) PROVE Handoff'
  <2>1. UNCHANGED <<commands, deliver, owed, track>>
    BY <1>7 DEF Handling, Take, Write, Fail, deliverVars, trackVars
  <2>2. CASE Take(b)
    BY <2>1, <2>2 DEF Take, Typed, PlacesTyped, CommandsTyped
  <2>3. CASE Write(b) \/ Fail(b)
    BY <2>1, <2>3 DEF Write, Fail, Typed, PlacesTyped
  <2> QED
    BY <1>7, <2>2, <2>3 DEF Handling
<1>8. CASE SpuriousWakeup
  <2>1. CASE SpuriousTrack \/ SpuriousDeliver
    BY <2>1 DEF SpuriousTrack, SpuriousDeliver, workerVars, deliverVars, trackVars
  <2>2. ASSUME NEW b \in Backends, SpuriousWorker(b) PROVE Handoff'
    BY <2>2 DEF SpuriousWorker, deliverVars, trackVars, Typed, PlacesTyped
  <2> QED
    BY <1>8, <2>1, <2>2 DEF SpuriousWakeup
<1>9. CASE UNCHANGED <<commands, queue, deliver, owed, worker, track>>
  BY <1>9
<1>10. CASE Watching \/ Stop
  <2>1. UNCHANGED <<commands, queue, deliver, owed, worker>> /\ (track = "notify" => track' = track)
    BY <1>10 DEF Watching, AddWatch, WatchTest, ReadEvents, NotifyTrack, WakeTrack, Exit, Stop,
                 deliverVars, workerVars, trackVars
  <2> QED
    BY <2>1
<1>11. CASE TrackTest \/ Read \/ TrackWait
  BY <1>1, <1>11 DEF TrackTest, Read, TrackWait, deliverVars, workerVars
<1>f. CASE Failing
  BY <1>1, <1>9, <1>f DEF Failing, ReadFails, ReadEventsFails, deliverVars, workerVars, trackVars
<1>12. CASE Complete
  BY <1>9, <1>12 DEF Complete, Grow, deliverVars, workerVars
<1>13. ASSUME NEW k, NEW lines, Begin(k, lines) PROVE Handoff'
  BY <1>9, <1>13 DEF Begin, Grow, deliverVars, workerVars
<1>14. CASE UNCHANGED vars
  BY <1>9, <1>14 DEF vars, deliverVars, workerVars, trackVars
<1> QED
  BY <1>2, <1>3, <1>4, <1>5, <1>6, <1>7, <1>8, <1>10, <1>11, <1>f, <1>12, <1>13,
     <1>14 DEF Next, Tracking, Delivering

\* Also of a track thread that has read too little and is about to sleep.
Noticed ==
  track \in {"short", "waiting"} /\ pos < written /\ ~ modified /\ watcher # "notify"
    => missed

\* The track thread misses a change only in one of its windows.
LEMMA NoticedNext ==
  ASSUME Typed, Noticed, [Next]_vars PROVE Noticed'
<1> USE DEF Noticed, Typed, FileTyped, LinesPerCommand
<1>1. CASE Complete
  BY <1>1 DEF Complete, Grow
<1>2. ASSUME NEW k, NEW lines, Begin(k, lines) PROVE Noticed'
  BY <1>2 DEF Begin, Grow
<1>3. CASE Tracking
  <2>1. CASE Read
    BY <2>1 DEF Read, fileVars, watchVars
  <2>2. CASE TrackTest \/ TrackWait \/ Push \/ NotifyDeliver
    BY <2>2 DEF TrackTest, TrackWait, Push, NotifyDeliver, fileVars, watchVars
  <2> QED
    BY <1>3, <2>1, <2>2 DEF Tracking
<1>4. CASE Watching \/ Stop
  BY <1>4 DEF Watching, AddWatch, WatchTest, ReadEvents, NotifyTrack, WakeTrack, Exit, Stop,
              fileVars, trackVars
<1>f. CASE Failing
  BY <1>f DEF Failing, ReadFails, ReadEventsFails, fileVars, watchVars, trackVars
<1>5. CASE SpuriousTrack
  BY <1>5 DEF SpuriousTrack
<1>6. CASE UNCHANGED <<fileVars, watchVars, trackVars>>
  BY <1>6 DEF fileVars, watchVars, trackVars
<1>7. CASE Delivering
  BY <1>6, <1>7 DEF Delivering, DeliverTest, DeliverWait, SendCommand, PostNotify
<1>8. ASSUME NEW b, Handling(b) \/ SpuriousWorker(b) PROVE Noticed'
  BY <1>6, <1>8 DEF Handling, Take, Write, Fail, SpuriousWorker
<1>9. CASE SpuriousDeliver
  BY <1>6, <1>9 DEF SpuriousDeliver
<1>10. CASE UNCHANGED vars
  BY <1>6, <1>10 DEF vars
<1> QED
  BY <1>1, <1>2, <1>3, <1>4, <1>f, <1>5, <1>7, <1>8, <1>9, <1>10 DEF Next, SpuriousWakeup

-----------------------------------------------------------------------------
(* The order of the commands. *)

\* A worker holds a command only while it writes, and drops none before its
\* connection fails.
HandsEmpty ==
  \A b \in Backends : /\ IF worker[b] = "writing" THEN Len(hand[b]) = 1 ELSE hand[b] = <<>>
                      /\ b \notin broken => dropped[b] = <<>>

\* Each step keeps what the threads have in their hands.
LEMMA HandsNext ==
  ASSUME Typed, HandsEmpty, [Next]_vars PROVE HandsEmpty'
<1> USE DEF HandsEmpty, Typed, PlacesTyped, CommandsTyped
<1>1. CASE UNCHANGED workerVars
  BY <1>1 DEF workerVars
<1>2. ASSUME NEW b \in Backends, Handling(b) PROVE HandsEmpty'
  <2>1. CASE Take(b)
    <3>1. dropped' = dropped /\ broken' = broken
      BY <2>1 DEF Take
    <3>2. CASE queue[b] = <<>>
      <4>1. hand' = hand /\ worker' = [worker EXCEPT ![b] = "waiting"] /\ worker[b] = "ready"
        BY <2>1, <3>2 DEF Take
      <4> QED
        BY <3>1, <4>1
    <3>3. CASE queue[b] # <<>>
      <4>1. /\ hand' = [hand EXCEPT ![b] = <<Head(queue[b])>>]
            /\ worker' = [worker EXCEPT ![b] = "writing"]
        BY <2>1, <3>3 DEF Take
      <4>2. Len(hand'[b]) = 1 /\ worker'[b] = "writing"
        BY <4>1
      <4>3. \A c \in Backends \ {b} : hand'[c] = hand[c] /\ worker'[c] = worker[c]
        BY <4>1
      <4> QED
        BY <3>1, <4>2, <4>3
    <3> QED
      BY <3>2, <3>3
  <2>2. CASE Write(b)
    <3>1. /\ hand' = [hand EXCEPT ![b] = <<>>] /\ worker' = [worker EXCEPT ![b] = "ready"]
          /\ dropped' = dropped /\ broken' = broken
      BY <2>2 DEF Write
    <3>2. \A c \in Backends \ {b} : hand'[c] = hand[c] /\ worker'[c] = worker[c]
      BY <3>1
    <3>3. hand'[b] = <<>> /\ worker'[b] = "ready"
      BY <3>1
    <3> QED
      BY <3>1, <3>2, <3>3
  <2>3. CASE Fail(b)
    BY <2>3 DEF Fail
  <2> QED
    BY <1>2, <2>1, <2>2, <2>3 DEF Handling
<1>3. CASE PostNotify
  BY <1>3 DEF PostNotify
<1>4. ASSUME NEW b \in Backends, SpuriousWorker(b) PROVE HandsEmpty'
  BY <1>4 DEF SpuriousWorker
<1>5. CASE SpuriousTrack \/ SpuriousDeliver
  BY <1>1, <1>5 DEF SpuriousTrack, SpuriousDeliver
<1>6. CASE Tracking
  BY <1>1, <1>6 DEF Tracking, TrackTest, Read, TrackWait, Push, NotifyDeliver
<1>7. CASE DeliverTest \/ DeliverWait \/ SendCommand \/ Failing
  BY <1>1, <1>7 DEF DeliverTest, DeliverWait, SendCommand, Failing, ReadFails, ReadEventsFails
<1>8. CASE Watching \/ Stop \/ Complete
  BY <1>1, <1>8 DEF Watching, AddWatch, WatchTest, ReadEvents, NotifyTrack, Exit, Stop,
                    Complete, Grow
<1>9. ASSUME NEW k, NEW lines, Begin(k, lines) PROVE HandsEmpty'
  BY <1>1, <1>9 DEF Begin, Grow
<1>10. CASE UNCHANGED vars
  BY <1>1, <1>10 DEF vars
<1> QED
  BY <1>2, <1>3, <1>4, <1>5, <1>6, <1>7, <1>8, <1>9, <1>10 DEF Next, Delivering, SpuriousWakeup

\* What a backend was sent, and what is dropped, held and queued for it.
Lines == [b \in Backends |-> sent[b] \o dropped[b] \o hand[b] \o queue[b]]

\* The concatenations that the steps of a worker compare.
LEMMA ConcatWrite ==
  \A s, h, q \in Seq(Nat) : (s \o h) \o <<>> \o <<>> \o q = s \o <<>> \o h \o q
OBVIOUS

\* Taking the head of what is queued changes no order.
LEMMA ConcatTake ==
  \A s, d, q \in Seq(Nat) :
    q # <<>> => s \o d \o <<Head(q)>> \o Tail(q) = s \o d \o <<>> \o q
OBVIOUS

\* The commands are numbers, in the order of the file.
LEMMA IdsAreNat == Ids \subseteq Nat /\ \A q \in Seq(Ids) : q \in Seq(Nat)
<1>1. Ids \subseteq Nat
  BY DEF Ids
<1>2. ASSUME NEW q \in Seq(Ids) PROVE q \in Seq(Nat)
  <2>1. q \in [1 .. Len(q) -> Ids] /\ Len(q) \in Nat
    OBVIOUS
  <2>2. q \in [1 .. Len(q) -> Nat]
    BY <1>1, <2>1
  <2> QED
    BY <2>1, <2>2
<1> QED
  BY <1>1, <1>2

\* A worker moves a command along its line; only SendCommand makes a line longer.
LEMMA LinesMove ==
  ASSUME Typed, Kept, HandsEmpty, [Next]_vars, ~ SendCommand PROVE Lines' = Lines
<1>1. CASE UNCHANGED <<queue, hand, sent, dropped>>
  BY <1>1 DEF Lines
<1>2. ASSUME NEW b \in Backends, Handling(b) PROVE Lines' = Lines
  <2>0. /\ queue[b] \in Seq(Nat) /\ hand[b] \in Seq(Nat) /\ sent[b] \in Seq(Nat)
        /\ dropped[b] \in Seq(Nat)
    BY IdsAreNat DEF Typed, CommandsTyped
  <2>1. /\ \A c \in Backends : c # b =>
             /\ queue'[c] = queue[c] /\ hand'[c] = hand[c]
             /\ sent'[c] = sent[c] /\ dropped'[c] = dropped[c]
    BY <1>2 DEF Handling, Take, Write, Fail, Typed, CommandsTyped
  <2>2. CASE Take(b)
    <3>1. CASE queue[b] = <<>>
      BY <1>1, <2>2, <3>1 DEF Take
    <3>2. CASE queue[b] # <<>>
      <4>1. /\ hand[b] = <<>> /\ hand'[b] = <<Head(queue[b])>>
            /\ queue'[b] = Tail(queue[b])
            /\ sent'[b] = sent[b] /\ dropped'[b] = dropped[b]
        BY <2>2, <3>2 DEF Take, HandsEmpty, Typed, CommandsTyped
      <4>2. sent'[b] \o dropped'[b] \o hand'[b] \o queue'[b]
              = sent[b] \o dropped[b] \o hand[b] \o queue[b]
        <5>1. sent[b] \o dropped[b] \o <<Head(queue[b])>> \o Tail(queue[b])
                = sent[b] \o dropped[b] \o <<>> \o queue[b]
          BY <2>0, <3>2, ConcatTake
        <5> QED
          BY <4>1, <5>1, Zenon
      <4> QED
        BY <2>1, <4>2 DEF Lines
    <3> QED
      BY <3>1, <3>2
  <2>3. CASE Write(b)
    <3>1. /\ dropped[b] = <<>> /\ dropped'[b] = <<>> /\ hand'[b] = <<>>
          /\ sent'[b] = sent[b] \o hand[b] /\ queue'[b] = queue[b]
      BY <2>3 DEF Write, HandsEmpty, Typed, CommandsTyped
    <3>2. sent'[b] \o dropped'[b] \o hand'[b] \o queue'[b]
            = sent[b] \o dropped[b] \o hand[b] \o queue[b]
      BY <2>0, <3>1, ConcatWrite
    <3> QED
      BY <2>1, <3>2 DEF Lines
  <2>4. CASE Fail(b)
    <3>1. /\ sent'[b] = sent[b] /\ dropped'[b] = dropped[b] \o hand[b]
          /\ hand'[b] = <<>> /\ queue'[b] = queue[b]
      BY <2>4 DEF Fail, Typed, CommandsTyped
    <3>2. sent'[b] \o dropped'[b] \o hand'[b] \o queue'[b]
            = sent[b] \o dropped[b] \o hand[b] \o queue[b]
      <4>1. sent[b] \o (dropped[b] \o hand[b]) \o <<>> \o queue[b]
              = sent[b] \o dropped[b] \o hand[b] \o queue[b]
        <5> DEFINE s == sent[b]  d == dropped[b]  h == hand[b]  q == queue[b]
        <5>1. s \in Seq(Nat) /\ d \in Seq(Nat) /\ h \in Seq(Nat) /\ q \in Seq(Nat)
          BY <2>0
        <5> HIDE DEF s, d, h, q
        <5>2. s \o (d \o h) \o <<>> \o q = s \o d \o h \o q
          BY <5>1
        <5> QED
          BY <5>2 DEF s, d, h, q
      <4> QED
        BY <3>1, <4>1, Zenon
    <3> QED
      BY <2>1, <3>2 DEF Lines
  <2> QED
    BY <1>2, <2>2, <2>3, <2>4 DEF Handling
<1>3. CASE Tracking
  BY <1>1, <1>3 DEF Tracking, TrackTest, Read, TrackWait, Push, NotifyDeliver, workerVars
<1>4. CASE DeliverTest \/ DeliverWait \/ PostNotify \/ Failing
  BY <1>1, <1>4 DEF DeliverTest, DeliverWait, PostNotify, Failing, ReadFails, ReadEventsFails,
                    workerVars
<1>5. CASE Watching \/ Stop \/ Complete
  BY <1>1, <1>5 DEF Watching, AddWatch, WatchTest, ReadEvents, NotifyTrack, Exit, Stop,
                    Complete, Grow, workerVars
<1>6. ASSUME NEW k, NEW lines, Begin(k, lines) PROVE Lines' = Lines
  BY <1>1, <1>6 DEF Begin, Grow, workerVars
<1>7. CASE SpuriousWakeup
  BY <1>1, <1>7 DEF SpuriousWakeup, SpuriousTrack, SpuriousDeliver, SpuriousWorker, workerVars
<1>8. CASE UNCHANGED vars
  BY <1>1, <1>8 DEF vars, workerVars
<1> QED
  BY <1>2, <1>3, <1>4, <1>5, <1>6, <1>7, <1>8 DEF Next, Delivering

\* SendCommand moves the first command to the end of its backend's lines.
LEMMA LinesGrow ==
  ASSUME Typed, Kept, SendCommand
  PROVE  /\ commands # <<>> /\ commands' = Tail(commands) /\ Head(commands) \in Ids
         /\ Lines' = [Lines EXCEPT ![Route[KeyOf(Head(commands))]] = Append(@, Head(commands))]
<1> DEFINE n == Head(commands)
           r == Route[KeyOf(n)]
<1>1. commands # <<>> /\ commands' = Tail(commands) /\ n \in Ids /\ r \in Backends
  BY Routed DEF SendCommand
<1>2. /\ queue' = [queue EXCEPT ![r] = Append(@, n)]
      /\ sent' = sent /\ dropped' = dropped /\ hand' = hand
  BY DEF SendCommand, workerVars
<1>3. /\ queue[r] \in Seq(Nat) /\ hand[r] \in Seq(Nat) /\ sent[r] \in Seq(Nat)
      /\ dropped[r] \in Seq(Nat) /\ queue \in [Backends -> Seq(Ids)] /\ n \in Nat
  BY <1>1, IdsAreNat DEF Typed, CommandsTyped
<1> HIDE DEF n, r
<1>4. sent[r] \o dropped[r] \o hand[r] \o Append(queue[r], n)
        = Append(sent[r] \o dropped[r] \o hand[r] \o queue[r], n)
  <2> DEFINE s == sent[r]  d == dropped[r]  h == hand[r]  q == queue[r]
  <2>1. s \in Seq(Nat) /\ d \in Seq(Nat) /\ h \in Seq(Nat) /\ q \in Seq(Nat) /\ n \in Nat
    BY <1>3
  <2> HIDE DEF s, d, h, q
  <2>2. s \o d \o h \o Append(q, n) = Append(s \o d \o h \o q, n)
    BY <2>1, SMTT(30)
  <2> QED
    BY <2>2 DEF s, d, h, q
<1>5. Lines' = [Lines EXCEPT ![r] = Append(@, n)]
  BY <1>1, <1>2, <1>3, <1>4 DEF Lines
<1> QED
  BY <1>1, <1>5 DEF n, r

\* The lines L of the backends and the waiting commands C hold the commands
\* 1 .. H of the file A that are not ignored: each once, with its backend, and
\* in the order of the file.
Ordered(A, L, C, H) ==
  /\ \A b \in Backends : \A i, j \in 1 .. Len(L[b]) : i < j => L[b][i] < L[b][j]
  /\ \A i, j \in 1 .. Len(C) : i < j => C[i] < C[j]
  /\ \A b \in Backends : \A i \in 1 .. Len(L[b]), j \in 1 .. Len(C) : L[b][i] < C[j]
  /\ \A b \in Backends : \A i \in 1 .. Len(L[b]) :
       L[b][i] \in 1 .. H /\ A[L[b][i]] # Select /\ Route[A[L[b][i]]] = b
  /\ \A j \in 1 .. Len(C) : C[j] \in 1 .. H /\ A[C[j]] # Select
  /\ \A n \in 1 .. H : A[n] # Select =>
       \/ \E j \in 1 .. Len(C) : C[j] = n
       \/ \E b \in Backends : \E i \in 1 .. Len(L[b]) : L[b][i] = n

\* The length and the members of a sequence of positions are numbers.
LEMMA SequenceIsTyped ==
  ASSUME NEW s \in Seq(Nat)
  PROVE  Len(s) \in Nat /\ \A i \in 1 .. Len(s) : s[i] \in Nat
OBVIOUS

\* A sequence of positions and one more at its end.
LEMMA Appended ==
  ASSUME NEW s \in Seq(Nat), NEW n \in Nat, NEW t, t = Append(s, n)
  PROVE  /\ \A i \in 1 .. Len(s) : i \in 1 .. Len(t) /\ t[i] = s[i]
         /\ Len(s) + 1 \in 1 .. Len(t) /\ t[Len(s) + 1] = n
         /\ \A i \in 1 .. Len(t) : i \in 1 .. Len(s) \/ i = Len(s) + 1
OBVIOUS

\* A command that goes from commands_ to its backend stays in order.
LEMMA OrderedSend ==
  ASSUME NEW A, NEW L \in [Backends -> Seq(Nat)], NEW C \in Seq(Nat), NEW H \in Nat,
         C # <<>>, Ordered(A, L, C, H), NEW r \in Backends, r = Route[A[Head(C)]],
         NEW M, M = [L EXCEPT ![r] = Append(@, Head(C))]
  PROVE  Ordered(A, M, Tail(C), H)
<1>a. \A b \in Backends : \A i, j \in 1 .. Len(L[b]) : i < j => L[b][i] < L[b][j]
  BY DEF Ordered
<1>b. \A i, j \in 1 .. Len(C) : i < j => C[i] < C[j]
  BY DEF Ordered
<1>c. \A b \in Backends : \A i \in 1 .. Len(L[b]), j \in 1 .. Len(C) : L[b][i] < C[j]
  BY DEF Ordered
<1>d. \A b \in Backends : \A i \in 1 .. Len(L[b]) :
        L[b][i] \in 1 .. H /\ A[L[b][i]] # Select /\ Route[A[L[b][i]]] = b
  BY DEF Ordered
<1>e. \A j \in 1 .. Len(C) : C[j] \in 1 .. H /\ A[C[j]] # Select
  BY DEF Ordered
<1>f. \A k \in 1 .. H : A[k] # Select =>
        \/ \E j \in 1 .. Len(C) : C[j] = k
        \/ \E b \in Backends : \E i \in 1 .. Len(L[b]) : L[b][i] = k
  BY DEF Ordered
<1> DEFINE n == Head(C)
           T == Tail(C)
<1>1. /\ Len(C) \in Nat /\ Len(T) \in Nat /\ 1 \in 1 .. Len(C) /\ n = C[1] /\ n \in Nat
      /\ \A j \in 1 .. Len(C) : C[j] \in Nat
  OBVIOUS
<1>2. \A j \in 1 .. Len(T) : 1 < j + 1 /\ j + 1 \in 1 .. Len(C) /\ T[j] = C[j + 1]
  OBVIOUS
<1>3. \A j \in 1 .. Len(C) : j = 1 \/ (j - 1 \in 1 .. Len(T) /\ T[j - 1] = C[j])
  <2> SUFFICES ASSUME NEW j \in 1 .. Len(C), j # 1
               PROVE  j - 1 \in 1 .. Len(T) /\ T[j - 1] = C[j]
    OBVIOUS
  <2>1. j - 1 \in 1 .. Len(T)
    OBVIOUS
  <2>2. T[j - 1] = C[(j - 1) + 1]
    BY <1>2, <2>1
  <2> QED
    BY <2>1, <2>2, SMTT(30)
<1>4. /\ \A b \in Backends : Len(L[b]) \in Nat
      /\ \A b \in Backends : \A i \in 1 .. Len(L[b]) : L[b][i] \in Nat
  <2> SUFFICES ASSUME NEW b \in Backends
               PROVE  /\ Len(L[b]) \in Nat
                      /\ \A i \in 1 .. Len(L[b]) : L[b][i] \in Nat
    OBVIOUS
  <2>1. L[b] \in Seq(Nat)
    OBVIOUS
  <2> QED
    BY <2>1, SequenceIsTyped
\* Where a member of a line comes from, and where it goes.
<1>5. \A b \in Backends : \A i \in 1 .. Len(M[b]) :
        \/ i \in 1 .. Len(L[b]) /\ M[b][i] = L[b][i]
        \/ b = r /\ i = Len(L[b]) + 1 /\ M[b][i] = n
  <2>1. ASSUME NEW b \in Backends, b # r PROVE M[b] = L[b]
    BY <2>1
  <2>2. M[r] = Append(L[r], n)
    OBVIOUS
  <2>3. \A i \in 1 .. Len(M[r]) : \/ i \in 1 .. Len(L[r]) /\ M[r][i] = L[r][i]
                                  \/ i = Len(L[r]) + 1 /\ M[r][i] = n
    <3>1. L[r] \in Seq(Nat) /\ n \in Nat
      BY <1>1
    <3> HIDE DEF n
    <3> QED
      BY <2>2, <3>1, Appended, SMTT(30)
  <2> QED
    BY <2>1, <2>3, ZenonT(40)
<1>6. /\ \A b \in Backends : \A i \in 1 .. Len(L[b]) : i \in 1 .. Len(M[b]) /\ M[b][i] = L[b][i]
      /\ Len(L[r]) + 1 \in 1 .. Len(M[r]) /\ M[r][Len(L[r]) + 1] = n
  <2>1. ASSUME NEW b \in Backends, b # r PROVE M[b] = L[b]
    BY <2>1
  <2>2. M[r] = Append(L[r], n)
    OBVIOUS
  <2>3. /\ \A i \in 1 .. Len(L[r]) : i \in 1 .. Len(M[r]) /\ M[r][i] = L[r][i]
        /\ Len(L[r]) + 1 \in 1 .. Len(M[r]) /\ M[r][Len(L[r]) + 1] = n
    <3>1. L[r] \in Seq(Nat) /\ n \in Nat
      BY <1>1
    <3> HIDE DEF n
    <3> QED
      BY <2>2, <3>1, Appended, SMTT(30)
  <2> QED
    BY <2>1, <2>3
<1> HIDE DEF n, T
<1>7. \A b \in Backends : \A i, j \in 1 .. Len(M[b]) : i < j => M[b][i] < M[b][j]
  <2> SUFFICES ASSUME NEW b \in Backends, NEW i \in 1 .. Len(M[b]),
                      NEW j \in 1 .. Len(M[b]), i < j
               PROVE  M[b][i] < M[b][j]
    OBVIOUS
  <2>1. i \in 1 .. Len(L[b]) /\ M[b][i] = L[b][i]
    <3>1. j \in 1 .. Len(L[b]) \/ j = Len(L[b]) + 1
      BY <1>5
    <3>2. i # Len(L[b]) + 1
      BY <1>4, <3>1
    <3> QED
      BY <1>5, <3>2
  <2>2. CASE j \in 1 .. Len(L[b]) /\ M[b][j] = L[b][j]
    BY <1>a, <2>1, <2>2
  <2>3. CASE M[b][j] = n
    BY <1>c, <1>1, <2>1, <2>3
  <2> QED
    BY <1>5, <2>2, <2>3
<1>8. \A i, j \in 1 .. Len(T) : i < j => T[i] < T[j]
  <2> SUFFICES ASSUME NEW i \in 1 .. Len(T), NEW j \in 1 .. Len(T), i < j
               PROVE  T[i] < T[j]
    OBVIOUS
  <2>1. C[i + 1] < C[j + 1]
    BY <1>b, <1>2, SMTT(30)
  <2> QED
    BY <1>2, <2>1
<1>9. \A b \in Backends : \A i \in 1 .. Len(M[b]), j \in 1 .. Len(T) : M[b][i] < T[j]
  <2> SUFFICES ASSUME NEW b \in Backends, NEW i \in 1 .. Len(M[b]), NEW j \in 1 .. Len(T)
               PROVE  M[b][i] < T[j]
    OBVIOUS
  <2>1. j + 1 \in 1 .. Len(C) /\ T[j] = C[j + 1]
    BY <1>2
  <2>2. CASE i \in 1 .. Len(L[b]) /\ M[b][i] = L[b][i]
    BY <1>c, <2>1, <2>2
  <2>3. CASE M[b][i] = n
    <3>1. C[1] < C[j + 1]
      BY <1>b, <1>1, <1>2
    <3> QED
      BY <1>1, <2>1, <2>3, <3>1
  <2> QED
    BY <1>5, <2>2, <2>3
<1>10. \A b \in Backends : \A i \in 1 .. Len(M[b]) :
         M[b][i] \in 1 .. H /\ A[M[b][i]] # Select /\ Route[A[M[b][i]]] = b
  <2>1. n \in 1 .. H /\ A[n] # Select /\ Route[A[n]] = r
    BY <1>e, <1>1 DEF n
  <2>2. ASSUME NEW b \in Backends, NEW i \in 1 .. Len(M[b])
        PROVE  M[b][i] \in 1 .. H /\ A[M[b][i]] # Select /\ Route[A[M[b][i]]] = b
    <3>1. CASE i \in 1 .. Len(L[b]) /\ M[b][i] = L[b][i]
      <4>1. L[b][i] \in 1 .. H /\ A[L[b][i]] # Select /\ Route[A[L[b][i]]] = b
        BY <1>d, <3>1
      <4> QED
        BY <3>1, <4>1
    <3>2. CASE b = r /\ M[b][i] = n
      BY <2>1, <3>2
    <3> QED
      BY <1>5, <3>1, <3>2
  <2> QED
    BY <2>2
<1>11. \A j \in 1 .. Len(T) : T[j] \in 1 .. H /\ A[T[j]] # Select
  <2> SUFFICES ASSUME NEW j \in 1 .. Len(T)
               PROVE  T[j] \in 1 .. H /\ A[T[j]] # Select
    OBVIOUS
  <2>1. j + 1 \in 1 .. Len(C) /\ T[j] = C[j + 1]
    BY <1>2
  <2> QED
    BY <1>e, <2>1
<1>12. \A k \in 1 .. H : A[k] # Select =>
         \/ \E j \in 1 .. Len(T) : T[j] = k
         \/ \E b \in Backends : \E i \in 1 .. Len(M[b]) : M[b][i] = k
  <2> SUFFICES ASSUME NEW k \in 1 .. H, A[k] # Select
               PROVE  \/ \E j \in 1 .. Len(T) : T[j] = k
                      \/ \E b \in Backends : \E i \in 1 .. Len(M[b]) : M[b][i] = k
    OBVIOUS
  <2>1. ASSUME NEW j \in 1 .. Len(C), C[j] = k
        PROVE  \/ \E m \in 1 .. Len(T) : T[m] = k
               \/ \E b \in Backends : \E i \in 1 .. Len(M[b]) : M[b][i] = k
    <3>1. CASE j = 1
      <4>1. M[r][Len(L[r]) + 1] = k
        BY <1>1, <1>6, <2>1, <3>1
      <4> QED
        BY <1>6, <4>1
    <3>2. CASE j # 1
      BY <1>3, <2>1, <3>2
    <3> QED
      BY <3>1, <3>2
  <2>2. ASSUME NEW b \in Backends, NEW i \in 1 .. Len(L[b]), L[b][i] = k
        PROVE  \E c \in Backends : \E m \in 1 .. Len(M[c]) : M[c][m] = k
    BY <1>6, <2>2
  <2>3. CASE \E j \in 1 .. Len(C) : C[j] = k
    BY <2>1, <2>3
  <2>4. CASE \E b \in Backends : \E i \in 1 .. Len(L[b]) : L[b][i] = k
    BY <2>2, <2>4
  <2> QED
    BY <1>f, <2>3, <2>4
<1> QED
  BY <1>7, <1>8, <1>9, <1>10, <1>11, <1>12 DEF Ordered, T

\* A command that is read is the last of commands_, or is left out.
LEMMA OrderedPush ==
  ASSUME NEW A, NEW L \in [Backends -> Seq(Nat)], NEW C \in Seq(Nat), NEW H \in Nat,
         Ordered(A, L, C, H),
         NEW D, D = IF A[H + 1] = Select THEN C ELSE Append(C, H + 1)
  PROVE  Ordered(A, L, D, H + 1)
<1>a. \A b \in Backends : \A i, j \in 1 .. Len(L[b]) : i < j => L[b][i] < L[b][j]
  BY DEF Ordered
<1>b. \A i, j \in 1 .. Len(C) : i < j => C[i] < C[j]
  BY DEF Ordered
<1>c. \A b \in Backends : \A i \in 1 .. Len(L[b]), j \in 1 .. Len(C) : L[b][i] < C[j]
  BY DEF Ordered
<1>d. \A b \in Backends : \A i \in 1 .. Len(L[b]) :
        L[b][i] \in 1 .. H /\ A[L[b][i]] # Select /\ Route[A[L[b][i]]] = b
  BY DEF Ordered
<1>e. \A j \in 1 .. Len(C) : C[j] \in 1 .. H /\ A[C[j]] # Select
  BY DEF Ordered
<1>f. \A n \in 1 .. H : A[n] # Select =>
        \/ \E j \in 1 .. Len(C) : C[j] = n
        \/ \E b \in Backends : \E i \in 1 .. Len(L[b]) : L[b][i] = n
  BY DEF Ordered
<1>0. /\ Len(C) \in Nat /\ \A j \in 1 .. Len(C) : C[j] \in Nat
      /\ \A b \in Backends : Len(L[b]) \in Nat /\ \A i \in 1 .. Len(L[b]) : L[b][i] \in Nat
  OBVIOUS
<1>1. CASE A[H + 1] = Select
  <2>1. D = C
    BY <1>1
  <2>2. \A i \in 1 .. H : i \in 1 .. H + 1
    OBVIOUS
  <2>3. \A n \in 1 .. H + 1 : A[n] # Select =>
          \/ \E j \in 1 .. Len(D) : D[j] = n
          \/ \E b \in Backends : \E i \in 1 .. Len(L[b]) : L[b][i] = n
    <3>1. \A n \in 1 .. H + 1 : n \in 1 .. H \/ n = H + 1
      OBVIOUS
    <3> QED
      BY <1>1, <1>f, <2>1, <3>1
  <2> QED
    BY <1>a, <1>b, <1>c, <1>d, <1>e, <2>1, <2>2, <2>3 DEF Ordered
<1>2. CASE A[H + 1] # Select
  <2>1. /\ Len(D) = Len(C) + 1 /\ D[Len(C) + 1] = H + 1
        /\ \A j \in 1 .. Len(C) : D[j] = C[j]
    BY <1>2
  <2>2. \A i, j \in 1 .. Len(D) : i < j => D[i] < D[j]
    <3> SUFFICES ASSUME NEW i \in 1 .. Len(D), NEW j \in 1 .. Len(D), i < j
                 PROVE  D[i] < D[j]
      OBVIOUS
    <3>1. CASE j \in 1 .. Len(C)
      BY <1>b, <1>0, <2>1, <3>1
    <3>2. CASE j = Len(C) + 1
      <4>1. i \in 1 .. Len(C) /\ D[i] = C[i]
        BY <1>0, <2>1, <3>2
      <4>2. C[i] \in 1 .. H
        BY <1>e, <4>1
      <4> QED
        BY <2>1, <3>2, <4>1, <4>2
    <3> QED
      BY <1>0, <2>1, <3>1, <3>2
  <2>3. \A b \in Backends : \A i \in 1 .. Len(L[b]), j \in 1 .. Len(D) : L[b][i] < D[j]
    <3> SUFFICES ASSUME NEW b \in Backends, NEW i \in 1 .. Len(L[b]), NEW j \in 1 .. Len(D)
                 PROVE  L[b][i] < D[j]
      OBVIOUS
    <3>1. CASE j \in 1 .. Len(C)
      BY <1>c, <2>1, <3>1
    <3>2. CASE j = Len(C) + 1
      <4>1. L[b][i] \in 1 .. H
        BY <1>d
      <4> QED
        BY <2>1, <3>2, <4>1
    <3> QED
      BY <1>0, <2>1, <3>1, <3>2
  <2>4. \A j \in 1 .. Len(D) : D[j] \in 1 .. H + 1 /\ A[D[j]] # Select
    BY <1>0, <1>e, <1>2, <2>1
  <2>5. \A n \in 1 .. H + 1 : A[n] # Select =>
          \/ \E j \in 1 .. Len(D) : D[j] = n
          \/ \E b \in Backends : \E i \in 1 .. Len(L[b]) : L[b][i] = n
    <3> SUFFICES ASSUME NEW n \in 1 .. H + 1, A[n] # Select
                 PROVE  \/ \E j \in 1 .. Len(D) : D[j] = n
                        \/ \E b \in Backends : \E i \in 1 .. Len(L[b]) : L[b][i] = n
      OBVIOUS
    <3>1. CASE n = H + 1
      <4>1. Len(C) + 1 \in 1 .. Len(D) /\ D[Len(C) + 1] = n
        BY <1>0, <2>1, <3>1
      <4> QED
        BY <4>1
    <3>2. CASE n \in 1 .. H
      <4>1. CASE \E j \in 1 .. Len(C) : C[j] = n
        <5>1. PICK j \in 1 .. Len(C) : C[j] = n
          BY <4>1
        <5>2. j \in 1 .. Len(D) /\ D[j] = n
          BY <1>0, <2>1, <5>1
        <5> QED
          BY <5>2
      <4> QED
        BY <1>f, <3>2, <4>1
    <3> QED
      BY <3>1, <3>2
  <2>6. /\ \A b \in Backends : \A i, j \in 1 .. Len(L[b]) : i < j => L[b][i] < L[b][j]
        /\ \A b \in Backends : \A i \in 1 .. Len(L[b]) :
             L[b][i] \in 1 .. H + 1 /\ A[L[b][i]] # Select /\ Route[A[L[b][i]]] = b
    BY <1>a, <1>d
  <2> QED
    BY <2>2, <2>3, <2>4, <2>5, <2>6 DEF Ordered
<1> QED
  BY <1>1, <1>2

\* The order is about the lines that are read, whatever the file gains.
LEMMA OrderedGrow ==
  ASSUME NEW A, NEW B, NEW L, NEW C, NEW H \in Nat, Ordered(A, L, C, H),
         \A n \in 1 .. H : B[n] = A[n]
  PROVE  Ordered(B, L, C, H)
<1>1. /\ \A b \in Backends : \A i \in 1 .. Len(L[b]) : L[b][i] \in 1 .. H
      /\ \A j \in 1 .. Len(C) : C[j] \in 1 .. H
  BY DEF Ordered
<1> QED
  BY <1>1 DEF Ordered

\* The keys the commands are read with.
Log == [n \in Ids |-> KeyOf(n)]

\* Everything that was read is in one place, in the order of the file.
OrderInv == Ordered(Log, Lines, commands, Handled)

\* Each step keeps the order.
LEMMA OrderNext ==
  ASSUME Typed, Kept, HandsEmpty, OrderInv, [Next]_vars PROVE OrderInv'
<1>1. Lines \in [Backends -> Seq(Nat)] /\ commands \in Seq(Nat)
  <2>1. /\ commands \in Seq(Nat)
        /\ \A b \in Backends : /\ sent[b] \in Seq(Nat) /\ dropped[b] \in Seq(Nat)
                               /\ hand[b] \in Seq(Nat) /\ queue[b] \in Seq(Nat)
    BY IdsAreNat DEF Typed, CommandsTyped
  <2>2. \A b \in Backends : sent[b] \o dropped[b] \o hand[b] \o queue[b] \in Seq(Nat)
    BY <2>1
  <2> QED
    BY <2>1, <2>2 DEF Lines
<1>2. /\ Handled \in Nat /\ 1 .. Handled \subseteq Ids /\ 1 .. Handled \subseteq Ids'
      /\ \A i \in 1 .. Handled : KeyOf(i)' = KeyOf(i)
  BY HandledMoves, IdsGrow, KeysKept DEF Typed
<1>n. \A i \in 1 .. Handled : Log'[i] = Log[i]
  BY <1>2 DEF Log
<1>3. Ordered(Log, Lines, commands, Handled)
  BY DEF OrderInv
<1>4. CASE Push
  <2>1. /\ Lines' = Lines /\ Current = Handled + 1 /\ Handled' = Handled + 1
        /\ commands' = IF Log[Current] = Select THEN commands ELSE Append(commands, Current)
    <3>1. Current \in Ids /\ ~ SendCommand
      BY <1>4, CurrentIsRead DEF Push, SendCommand, Typed
    <3>2. Log[Current] = KeyOf(Current)
      BY <3>1 DEF Log
    <3> QED
      BY <1>4, <3>1, <3>2, LinesMove, HandledMoves DEF Push
  <2>2. Ordered(Log, Lines', commands', Handled')
    BY <1>1, <1>2, <1>3, <2>1, OrderedPush
  <2>3. Log' = Log
    BY <1>4 DEF Push, fileVars, Log, Ids, KeyOf, Current
  <2> QED
    BY <2>2, <2>3 DEF OrderInv
<1>5. CASE SendCommand
  <2>1. /\ commands # <<>> /\ commands' = Tail(commands) /\ Handled' = Handled
        /\ Route[Log[Head(commands)]] \in Backends
        /\ Lines' = [Lines EXCEPT ![Route[Log[Head(commands)]]] = Append(@, Head(commands))]
    <3>1. Head(commands) \in Ids /\ ~ Push
      BY <1>5, LinesGrow DEF SendCommand, Push
    <3>2. Log[Head(commands)] = KeyOf(Head(commands))
      BY <3>1 DEF Log
    <3> QED
      BY <1>5, <3>1, <3>2, LinesGrow, Routed, HandledMoves
  <2>2. Ordered(Log, Lines', commands', Handled')
    BY <1>1, <1>2, <1>3, <2>1, OrderedSend
  <2>3. Log' = Log
    BY <1>5 DEF SendCommand, fileVars, trackVars, Log, Ids, KeyOf, Current
  <2> QED
    BY <2>2, <2>3 DEF OrderInv
<1>6. CASE ~ Push /\ ~ SendCommand
  <2>1. Lines' = Lines /\ commands' = commands /\ Handled' = Handled
    BY <1>6, LinesMove, HandledMoves, CommandsMove
  <2>2. Ordered(Log', Lines, commands, Handled)
    BY <1>2, <1>n, <1>3, OrderedGrow
  <2> QED
    BY <2>1, <2>2 DEF OrderInv
<1> QED
  BY <1>4, <1>5, <1>6

-----------------------------------------------------------------------------
(* The figures of ProcessStat. *)

\* The commands that count_ has counted, and the two counters in these terms.
Counted == {n \in 1 .. Handled : KeyOf(n) # Select}

\* The figures count what was sent.
StatInv ==
  /\ count = Cardinality(Counted)
  /\ IsFiniteSet(Written) /\ finished = Cardinality(Written)

\* Only Push counts a command as read, only Write sends one.
LEMMA CountMoves ==
  ASSUME [Next]_vars, ~ Push PROVE count' = count
<1> USE DEF statVars
<1>1. CASE Complete \/ Watching \/ Stop \/ SpuriousWakeup \/ UNCHANGED vars
  BY <1>1 DEF Complete, Grow, Watching, AddWatch, WatchTest, ReadEvents, NotifyTrack, Exit,
              Stop, SpuriousWakeup, SpuriousTrack, SpuriousDeliver, SpuriousWorker, vars
<1>2. CASE TrackTest \/ Read \/ TrackWait \/ NotifyDeliver \/ Delivering \/ Failing
  BY <1>2 DEF Failing, ReadFails, ReadEventsFails, TrackTest, Read, TrackWait,
              NotifyDeliver, Delivering, DeliverTest,
              DeliverWait, SendCommand, PostNotify
<1>3. ASSUME NEW b, Handling(b) PROVE count' = count
  BY <1>3 DEF Handling, Take, Write, Fail
<1>4. ASSUME NEW k, NEW lines, Begin(k, lines) PROVE count' = count
  BY <1>4 DEF Begin, Grow
<1> QED
  BY <1>1, <1>2, <1>3, <1>4 DEF Next, Tracking

\* Only Write changes what is sent and what is finished.
LEMMA SentMoves ==
  ASSUME [Next]_vars, \A b \in Backends : ~ Write(b)
  PROVE  sent' = sent /\ finished' = finished
<1> USE DEF statVars, workerVars
<1>1. CASE Complete \/ Watching \/ Stop \/ SpuriousWakeup \/ UNCHANGED vars
  BY <1>1 DEF Complete, Grow, Watching, AddWatch, WatchTest, ReadEvents, NotifyTrack, Exit,
              Stop, SpuriousWakeup, SpuriousTrack, SpuriousDeliver, SpuriousWorker, vars
<1>2. CASE Tracking \/ Delivering \/ Failing
  BY <1>2 DEF Failing, ReadFails, ReadEventsFails, Tracking, TrackTest, Read, TrackWait, Push, NotifyDeliver, Delivering,
              DeliverTest, DeliverWait, SendCommand, PostNotify
<1>3. ASSUME NEW b, Take(b) \/ Fail(b) PROVE sent' = sent /\ finished' = finished
  BY <1>3 DEF Take, Fail
<1>4. ASSUME NEW k, NEW lines, Begin(k, lines) PROVE sent' = sent /\ finished' = finished
  BY <1>4 DEF Begin, Grow
<1> QED
  BY <1>1, <1>2, <1>3, <1>4 DEF Next, Handling

\* Each step keeps the count of what was sent.
LEMMA CountNext ==
  ASSUME Typed, Kept, count = Cardinality(Counted), [Next]_vars
  PROVE  count' = Cardinality(Counted')
<1>1. Handled \in Nat /\ IsFiniteSet(1 .. Handled)
  BY HandledMoves, FS_Interval
<1>2. IsFiniteSet(Counted)
  BY <1>1, FS_Subset DEF Counted
<1>3. \A n \in 1 .. Handled : KeyOf(n)' = KeyOf(n)
  BY KeysKept
<1>4. CASE Push
  <2>1. /\ Current = Handled + 1 /\ Handled' = Handled + 1
        /\ \A n \in 1 .. Current : KeyOf(n)' = KeyOf(n)
        /\ count' = IF KeyOf(Current) = Select THEN count ELSE count + 1
    BY <1>4, HandledMoves DEF Push, fileVars, KeyOf, Current
  <2>2. Counted' = IF KeyOf(Current) = Select THEN Counted ELSE Counted \cup {Current}
    BY <1>1, <2>1 DEF Counted
  <2>3. Current \notin Counted
    BY <1>1, <2>1 DEF Counted
  <2>4. Cardinality(Counted \cup {Current}) = Cardinality(Counted) + 1
    BY <1>2, <2>3, FS_AddElement
  <2> QED
    BY <2>1, <2>2, <2>4
<1>5. CASE ~ Push
  <2>1. Counted' = Counted
    BY <1>3, <1>5, HandledMoves DEF Counted
  <2>2. count' = count
    BY <1>5, CountMoves
  <2> QED
    BY <2>1, <2>2
<1> QED
  BY <1>4, <1>5

\* Writing a sequence of one element behind another adds one place.
LEMMA AppendedOne ==
  ASSUME NEW S, NEW q \in Seq(S), NEW h \in Seq(S), Len(h) = 1
  PROVE  /\ Len(q \o h) = Len(q) + 1 /\ q \o h \in Seq(S)
         /\ Len(q) \in Nat
<1>1. Len(q \o h) = Len(q) + Len(h) /\ q \o h \in Seq(S)
  BY ConcatProperties
<1>2. Len(q) \in Nat
  BY LenProperties
<1> QED
  BY <1>1, <1>2

\* Each step keeps the count of what is finished.
LEMMA FinishedNext ==
  ASSUME Typed, HandsEmpty, IsFiniteSet(Written), finished = Cardinality(Written),
         [Next]_vars
  PROVE  IsFiniteSet(Written') /\ finished' = Cardinality(Written')
<1>1. ASSUME NEW b \in Backends, Write(b)
      PROVE  IsFiniteSet(Written') /\ finished' = Cardinality(Written')
  <2> DEFINE end == Len(sent[b]) + 1
  <2>1. /\ sent' = [sent EXCEPT ![b] = @ \o hand[b]] /\ finished' = finished + 1
        /\ Len(hand[b]) = 1
    BY <1>1 DEF Write, HandsEmpty
  <2>2. /\ sent[b] \in Seq(Ids) /\ hand[b] \in Seq(Ids) /\ sent \in [Backends -> Seq(Ids)]
    BY DEF Typed, CommandsTyped
  <2>3. DOMAIN sent[b] = 1 .. Len(sent[b]) /\ DOMAIN (sent[b] \o hand[b]) = 1 .. end
        /\ Len(sent[b]) \in Nat
    <3> DEFINE q == sent[b]  h == hand[b]
    <3>1. q \in Seq(Ids) /\ h \in Seq(Ids) /\ Len(h) = 1
      BY <2>1, <2>2
    <3> HIDE DEF q, h
    <3>2. Len(q \o h) = Len(q) + 1 /\ q \o h \in Seq(Ids) /\ Len(q) \in Nat
      BY <3>1, AppendedOne
    <3>3. DOMAIN q = 1 .. Len(q)
      BY <3>1
    <3>4. DOMAIN (q \o h) = 1 .. Len(q \o h)
      BY <3>2
    <3> QED
      BY <3>2, <3>3, <3>4 DEF q, h
  <2>4. DOMAIN sent'[b] = DOMAIN sent[b] \cup {end} /\ end \notin DOMAIN sent[b]
    BY <2>1, <2>2, <2>3
  <2>5. \A c \in Backends \ {b} : sent'[c] = sent[c]
    BY <2>1, <2>2
  <2> HIDE DEF end
  <2>6. Written' = Written \cup {<<b, end>>}
    BY <2>4, <2>5 DEF Written
  <2>7. <<b, end>> \notin Written
    BY <2>4 DEF Written
  <2> QED
    BY <2>1, <2>6, <2>7, FS_AddElement
<1>2. CASE \A b \in Backends : ~ Write(b)
  <2>1. sent' = sent /\ finished' = finished
    BY <1>2, SentMoves
  <2> QED
    BY <2>1 DEF Written
<1> QED
  BY <1>1, <1>2

\* Each step keeps the figures exact.
LEMMA StatNext ==
  ASSUME Typed, Kept, HandsEmpty, StatInv, [Next]_vars PROVE StatInv'
BY CountNext, FinishedNext DEF StatInv

-----------------------------------------------------------------------------
(* The theorems. *)

\* The inductive invariant.
AofInv == Typed /\ Kept /\ Handoff /\ Noticed /\ HandsEmpty /\ OrderInv /\ StatInv

\* The order holds to begin with.
LEMMA InitOrder == Init => OrderInv
<1> SUFFICES ASSUME Init PROVE OrderInv
  OBVIOUS
<1>1. /\ commands = <<>> /\ pos = 0 /\ track = "test"
      /\ \A b \in Backends : /\ queue[b] = <<>> /\ hand[b] = <<>>
                             /\ sent[b] = <<>> /\ dropped[b] = <<>>
  BY DEF Init
<1>2. Handled = 0
  BY <1>1 DEF Handled, Current, LinesPerCommand
<1>3. \A b \in Backends : Lines[b] = <<>> \o <<>> \o <<>> \o <<>>
  BY <1>1 DEF Lines
<1>4. <<>> \o <<>> \o <<>> \o <<>> = <<>>
  OBVIOUS
<1>5. \A b \in Backends : Len(Lines[b]) = 0
  BY <1>3, <1>4
<1> QED
  BY <1>1, <1>2, <1>5 DEF OrderInv, Ordered

\* The figures are exact to begin with.
LEMMA InitStat == Init => StatInv
<1> SUFFICES ASSUME Init PROVE StatInv
  OBVIOUS
<1>1. /\ aof = <<>> /\ pos = 0 /\ track = "test" /\ count = 0 /\ finished = 0
      /\ \A b \in Backends : sent[b] = <<>>
  BY DEF Init
<1>2. Handled = 0
  BY <1>1 DEF Handled, Current, LinesPerCommand
<1>3. Counted = {}
  BY <1>2 DEF Counted
<1>4. Written = {}
  BY <1>1 DEF Written
<1> QED
  BY <1>1, <1>3, <1>4, FS_EmptySet DEF StatInv

\* The invariant holds to begin with.
LEMMA InitInv == Init => AofInv
<1>1. Init => Kept /\ Handoff /\ Noticed /\ HandsEmpty
  BY DEF Init, Kept, Handoff, NoLostHandoff, Noticed, HandsEmpty
<1> QED
  BY <1>1, InitTyped, InitOrder, InitStat DEF AofInv

\* Each step keeps the invariant.
LEMMA NextInv == AofInv /\ [Next]_vars => AofInv'
<1> SUFFICES ASSUME AofInv, [Next]_vars PROVE AofInv'
  OBVIOUS
<1>1. Typed'
  BY FileNext, PlacesNext, CommandsNext DEF AofInv, Typed
<1>2. Kept' /\ Handoff' /\ Noticed' /\ HandsEmpty' /\ OrderInv' /\ StatInv'
  BY KeptNext, HandoffNext, NoticedNext, HandsNext, OrderNext, StatNext DEF AofInv
<1> QED
  BY <1>1, <1>2 DEF AofInv

\* The inductive invariant holds in every state of the program.
THEOREM DeliverInvariant == Spec => []AofInv
BY InitInv, NextInv, PTL DEF Spec

\* Neither the deliver thread nor a worker sleeps in front of a queued command
\* that nobody is about to announce, for any number of backends.
THEOREM HandoffsAreNotLost == Spec => []NoLostHandoff
<1>1. AofInv => NoLostHandoff
  BY DEF AofInv, Handoff
<1> QED
  BY <1>1, DeliverInvariant, PTL

\* The track thread sleeps on data that nobody announces only after one of the
\* two windows: between its short read and its wait, or before the watch.
THEOREM OverlookedOnlyInWindows == Spec => []OverlookedOnlyIfMissed
<1>1. AofInv => OverlookedOnlyIfMissed
  BY DEF AofInv, Noticed, OverlookedOnlyIfMissed, Overlooked
<1> QED
  BY <1>1, DeliverInvariant, PTL

\* The share of each backend is complete, its own, and in order.
LEMMA OrderIsFileOrder == AofInv => InFileOrder
<1> SUFFICES ASSUME AofInv PROVE InFileOrder
  OBVIOUS
<1>1. Ordered(Log, Lines, commands, Handled)
  BY DEF AofInv, OrderInv
<1>k. \A n \in 1 .. Handled : Log[n] = KeyOf(n)
  <2>1. AofInv => \A n \in 1 .. Handled : n \in Ids
    BY DEF AofInv, Typed, FileTyped, Handled, Current, Ids, LinesPerCommand
  <2> QED
    BY <2>1 DEF Log
<1>2. \A b \in Backends : Lines[b] = Line(b)
  BY DEF Lines, Line
<1>3. /\ commands \in Seq(Ids)
      /\ \A b \in Backends : /\ sent[b] \in Seq(Ids) /\ dropped[b] \in Seq(Ids)
                             /\ hand[b] \in Seq(Ids) /\ queue[b] \in Seq(Ids)
  BY DEF AofInv, Typed, CommandsTyped
<1>4. \A b \in Backends : Line(b) \in Seq(Ids)
  BY <1>3 DEF Line
<1>5. DOMAIN commands = 1 .. Len(commands)
      /\ \A b \in Backends : DOMAIN Line(b) = 1 .. Len(Line(b))
  BY <1>3, <1>4
<1>6. ASSUME NEW b \in Backends
      PROVE  ToSet(Line(b)) \cup {n \in ToSet(commands) : IsFor(b, n)}
               = {n \in 1 .. Handled : IsFor(b, n)}
  <2>1. ASSUME NEW n \in ToSet(Line(b)) PROVE n \in 1 .. Handled /\ IsFor(b, n)
    BY <1>1, <1>k, <1>2, <1>5, <2>1 DEF ToSet, Ordered, IsFor
  <2>2. ASSUME NEW n \in ToSet(commands) PROVE n \in 1 .. Handled
    BY <1>1, <1>5 DEF ToSet, Ordered
  <2>3. ASSUME NEW n \in 1 .. Handled, IsFor(b, n)
        PROVE  n \in ToSet(Line(b)) \/ n \in ToSet(commands)
    <3>1. CASE \E j \in 1 .. Len(commands) : commands[j] = n
      BY <1>5, <3>1 DEF ToSet
    <3>2. ASSUME NEW c \in Backends, NEW i \in 1 .. Len(Lines[c]), Lines[c][i] = n
          PROVE  n \in ToSet(Line(b))
      <4>1. Route[KeyOf(n)] = c
        BY <1>1, <1>k, <3>2 DEF Ordered
      <4>2. c = b
        BY <2>3, <4>1 DEF IsFor
      <4> QED
        BY <1>2, <1>5, <3>2, <4>2 DEF ToSet
    <3> QED
      BY <1>1, <1>k, <2>3, <3>1, <3>2 DEF Ordered, IsFor
  <2> QED
    BY <2>1, <2>2, <2>3
<1>7. \A b \in Backends : \A i, j \in DOMAIN Line(b) : i < j => Line(b)[i] < Line(b)[j]
  BY <1>1, <1>2, <1>5 DEF Ordered
<1>8. \A i, j \in DOMAIN commands : i < j => commands[i] < commands[j]
  BY <1>1, <1>5 DEF Ordered
<1>9. \A b \in Backends : \A i \in DOMAIN Line(b), j \in DOMAIN commands :
        Line(b)[i] < commands[j]
  BY <1>1, <1>2, <1>5 DEF Ordered
<1> QED
  BY <1>6, <1>7, <1>8, <1>9 DEF InFileOrder

\* The line of each backend, with what waits for it in commands_, is its share
\* of what was read: once each, in file order, whatever fails.
THEOREM DeliveredInOrder == Spec => []InFileOrder
BY OrderIsFileOrder, DeliverInvariant, PTL

\* The figures that ProcessStat prints are those of the log and the sockets.
THEOREM FiguresAreExact == Spec => []StatIsExact
<1>1. AofInv => StatIsExact
  BY DEF AofInv, StatInv, Counted, StatIsExact
<1> QED
  BY <1>1, DeliverInvariant, PTL

\* The variables keep their types.
THEOREM TypeCorrect == Spec => []TypeOK
<1>1. AofInv => TypeOK
  BY DEF AofInv, Typed, FileTyped, PlacesTyped, CommandsTyped, TypeOK
<1> QED
  BY <1>1, DeliverInvariant, PTL
=============================================================================
