-------------------------------- MODULE Parts --------------------------------
(***************************************************************************)
(* Six parts of base3, cwf and proxy that share no state: AsyncRunner,     *)
(* HashCache, Continuum, FastcgiProcess, ThreadPool and ProxyServer.  Init *)
(* chooses the part that a behaviour is about; the others stay in their    *)
(* initial state.  So the states of this module are those of the six, one  *)
(* after another, and what holds of a part in them holds of the part.      *)
(***************************************************************************)
EXTENDS Naturals, Sequences, FiniteSets

\* The constants of the six modules; those of ThreadPool that AsyncRunner has
\* as well are renamed.
CONSTANTS Threads, Calls, KindsOf(_), InitSize, MaxSize, MaxRuns, MaxStarts,
          Users, Keys, CacheSize, MaxInserts,
          Clients, CallsOf(_), Targets, Fits(_, _), PointOf(_, _), Hashes, Capacities, MaxCalls,
          Servers, Main, MaxRequests,
          Workers, Posters, Messages, Nested, PoolInitSize, PoolMaxSize, MinBusy, Resizes,
          MaxSets,
          Connections, Streams(_), BufferSize, MaxErrors

VARIABLES owner, starts, stop, work, stopped, thread_size, group, group_size,
          thread, check, created, busy, task, call, ready
runnerVars == <<owner, starts, stop, work, stopped, thread_size, group, group_size,
                thread, check, created, busy, task, call, ready>>
A == INSTANCE AsyncRunner

VARIABLES list, map, replacing, creating, inserted, duplicated, erased
cacheVars == <<list, map, replacing, creating, inserted, duplicated, erased>>
H == INSTANCE HashCache

VARIABLES desc_map, ring, op, at, snapshot, left, calls, built, version, readAt,
          builtAt, overtaken
ringVars == <<desc_map, ring, op, at, snapshot, left, calls, built, version, readAt,
              builtAt, overtaken>>
C == INSTANCE Continuum

VARIABLES phase, inherited, quit_, framework, place, requests, taken, cut
processVars == <<phase, inherited, quit_, framework, place, requests, taken, cut>>
F == INSTANCE FastcgiProcess

VARIABLES workers, cursor, max_size, worker, closed, queue, pool_busy, poster,
          message, target, scanned, min_busy, resizer, wanted, limit, pool_at, joining,
          sets, posted, undefined, pool_erased
poolVars == <<workers, cursor, max_size, worker, closed, queue, pool_busy, poster,
              message, target, scanned, min_busy, resizer, wanted, limit, pool_at, joining,
              sets, posted, undefined, pool_erased>>
P == INSTANCE ThreadPool WITH InitSize <- PoolInitSize, MaxSize <- PoolMaxSize,
                              busy <- pool_busy, at <- pool_at, erased <- pool_erased

VARIABLES program, server, accept, errors, conn, client, stream, arrived, buffer, bytes,
          out, broken, consumed
proxyVars == <<program, server, accept, errors, conn, client, stream, arrived, buffer,
               bytes, out, broken, consumed>>
S == INSTANCE ProxyServer WITH phase <- server, cut <- broken, taken <- consumed

\* What the six modules ask of their constants.
ASSUME PartsAssumption ==
  /\ A!RunnerAssumption /\ H!CacheAssumption /\ C!RingAssumption
  /\ F!ProcessAssumption /\ P!PoolAssumption /\ S!ProxyAssumption

VARIABLE part
vars == <<part, runnerVars, cacheVars, ringVars, processVars, poolVars, proxyVars>>

\* The steps that are p's, and what they leave alone.
Of(p) ==
  /\ part = p
  /\ UNCHANGED part
  /\ p # "runner"    => UNCHANGED runnerVars
  /\ p # "cache"     => UNCHANGED cacheVars
  /\ p # "continuum" => UNCHANGED ringVars
  /\ p # "fastcgi"   => UNCHANGED processVars
  /\ p # "pool"      => UNCHANGED poolVars
  /\ p # "proxy"     => UNCHANGED proxyVars

Init ==
  /\ part \in {"runner", "cache", "continuum", "fastcgi", "pool", "proxy"}
  /\ A!Init /\ H!Init /\ C!Init /\ P!Init
  /\ F!Init /\ (part # "fastcgi" => inherited = "default")
  /\ S!Init /\ (part # "proxy" => program = "echo")

Runner ==
  \/ \E c \in Calls, kind \in A!Kinds, n \in 0 .. MaxRuns :
        Of("runner") /\ A!Post(c, kind, n)
  \/ \E t \in Threads : Of("runner") /\ A!Enter(t)
  \/ \E t \in Threads : Of("runner") /\ A!Leave(t)
  \/ \E t \in Threads : Of("runner") /\ A!Take(t)
  \/ \E t \in Threads : Of("runner") /\ A!Return(t)
  \/ \E c \in Calls : Of("runner") /\ A!Expire(c)
  \/ Of("runner") /\ A!CheckLoop
  \/ Of("runner") /\ A!CheckBusy
  \/ Of("runner") /\ A!Resize
  \/ Of("runner") /\ A!AddThread
  \/ Of("runner") /\ A!Start
  \/ Of("runner") /\ A!DropWork
  \/ Of("runner") /\ A!SetStop
  \/ Of("runner") /\ A!StopService
  \/ Of("runner") /\ A!JoinAll
  \/ Of("runner") /\ A!JoinCheck

Cache ==
  \/ \E k \in Keys : Of("cache") /\ H!Touch(k)
  \/ \E k \in Keys : Of("cache") /\ H!Erase(k)
  \/ \E u \in Users, k \in Keys : Of("cache") /\ H!LocateMiss(u, k)
  \/ \E u \in Users, k \in Keys : Of("cache") /\ H!InsertGiven(u, k)
  \/ \E u \in Users : Of("cache") /\ H!InsertCreated(u)
  \/ \E u \in Users : Of("cache") /\ H!CreateFails(u)
  \/ Of("cache") /\ H!Replace

Ring ==
  \/ \E c \in Clients, o \in C!Ops : Of("continuum") /\ C!Call(c, o)
  \/ \E c \in Clients : Of("continuum") /\ C!ReadSection(c)
  \/ \E c \in Clients : Of("continuum") /\ C!Nest(c)
  \/ \E c \in Clients : Of("continuum") /\ C!Unnest(c)
  \/ \E c \in Clients : Of("continuum") /\ C!ReadUnlock(c)
  \/ \E c \in Clients : Of("continuum") /\ C!Wait(c)
  \/ \E c \in Clients : Of("continuum") /\ C!Add(c)
  \/ \E c \in Clients : Of("continuum") /\ C!Remove(c)
  \/ \E c \in Clients : Of("continuum") /\ C!Swap(c)
  \/ \E c \in Clients : Of("continuum") /\ C!WriteUnlock(c)

Fastcgi ==
  \/ \E sig \in {"TERM", "INT"} : Of("fastcgi") /\ F!Signal(sig)
  \/ Of("fastcgi") /\ F!InstallSignal
  \/ Of("fastcgi") /\ F!Serve
  \/ Of("fastcgi") /\ F!MainReturns
  \/ Of("fastcgi") /\ F!Exit
  \/ \E t \in Servers : Of("fastcgi") /\ F!Accept(t)
  \/ \E t \in Servers : Of("fastcgi") /\ F!AcceptFails(t)
  \/ \E t \in Servers : Of("fastcgi") /\ F!Process(t)
  \/ \E t \in Servers : Of("fastcgi") /\ F!Test(t)
  \/ \E t \in Servers : Of("fastcgi") /\ F!Finish(t)

Pool ==
  \/ \E w \in Workers : Of("pool") /\ P!TestQuit(w)
  \/ \E w \in Workers : Of("pool") /\ P!Enter(w)
  \/ \E w \in Workers : Of("pool") /\ P!SpuriousWakeup(w)
  \/ \E w \in Workers : Of("pool") /\ P!Drain(w)
  \/ \E w \in Workers : Of("pool") /\ P!Relock(w)
  \/ \E p \in Posters, m \in Messages : Of("pool") /\ P!Post(p, m)
  \/ \E p \in P!Actors : Of("pool") /\ P!Lock(p)
  \/ \E p \in P!Actors : Of("pool") /\ P!Scan(p)
  \/ \E p \in P!Actors : Of("pool") /\ P!Choose(p)
  \/ \E p \in P!Actors : Of("pool") /\ P!Create(p)
  \/ \E p \in P!Actors : Of("pool") /\ P!TakeFirst(p)
  \/ \E p \in P!Actors : Of("pool") /\ P!PostTo(p)
  \/ \E p \in P!Actors : Of("pool") /\ P!Notify(p)
  \/ \E r \in Resizes : Of("pool") /\ P!SetSize(r[1], r[2])
  \/ Of("pool") /\ P!Inflate
  \/ Of("pool") /\ P!LockShrunk
  \/ Of("pool") /\ P!Shrunk
  \/ Of("pool") /\ P!Delete
  \/ Of("pool") /\ P!UnlockShrunk
  \/ Of("pool") /\ P!SetMaxSize
  \/ Of("pool") /\ P!Stop
  \/ Of("pool") /\ P!StopNext
  \/ Of("pool") /\ P!Join
  \/ Of("pool") /\ P!Joined

Proxy ==
  \/ \E c \in Connections : Of("proxy") /\ S!Connect(c)
  \/ \E c \in Connections, unit \in S!Units : Of("proxy") /\ S!Send(c, unit)
  \/ \E c \in Connections, how \in {"shut", "reset"} : Of("proxy") /\ S!Leave(c, how)
  \/ Of("proxy") /\ S!StartAccept
  \/ \E c \in Connections : Of("proxy") /\ S!HandleAccept(c)
  \/ \E c \in Connections : Of("proxy") /\ S!AcceptError(c)
  \/ \E c \in Connections : Of("proxy") /\ S!ReadSome(c)
  \/ \E c \in Connections : Of("proxy") /\ S!HandleFailed(c)
  \/ \E c \in Connections : Of("proxy") /\ S!HandleQuit(c)
  \/ \E c \in Connections : Of("proxy") /\ S!HandleRead(c)
  \/ \E c \in Connections : Of("proxy") /\ S!WriteSome(c)
  \/ \E c \in Connections : Of("proxy") /\ S!HandleWrite(c)
  \/ Of("proxy") /\ S!Stop
  \/ Of("proxy") /\ S!Exit

Next == Runner \/ Cache \/ Ring \/ Fastcgi \/ Pool \/ Proxy

\* The fairness of the modules, each for the behaviours of its part.
Fairness ==
  /\ \A t \in Threads : WF_runnerVars(part = "runner" /\ A!Serve(t))
  /\ \A c \in Calls : WF_runnerVars(part = "runner" /\ A!Expire(c))
  /\ WF_runnerVars(part = "runner" /\ A!Check)
  /\ WF_runnerVars(part = "runner" /\ A!Stop)
  /\ \A c \in Clients : WF_ringVars(part = "continuum" /\ C!Proceed(c))
  /\ WF_processVars(part = "fastcgi" /\ F!Start)
  /\ WF_processVars(part = "fastcgi" /\ F!End)
  /\ \A t \in Servers : WF_processVars(part = "fastcgi" /\ F!Work(t))
  /\ \A w \in Workers : WF_poolVars(part = "pool" /\ (P!Work(w) \/ P!Posting(w)))
  /\ \A p \in Posters : WF_poolVars(part = "pool" /\ P!Posting(p))
  /\ WF_poolVars(part = "pool" /\ P!Resizing)
  /\ \A c \in Connections : WF_proxyVars(part = "proxy" /\ S!Handle(c))
  /\ \A c \in Connections : WF_proxyVars(part = "proxy" /\ S!Complete(c))
  /\ WF_proxyVars(part = "proxy" /\ S!StartAccept)

Spec == Init /\ [][Next]_vars /\ Fairness
-----------------------------------------------------------------------------
(* What the modules state. *)

\* AsyncRunner: a Stop that has returned leaves one thread at the most.
OffLeavesOneThread == A!OffLeavesOneThread

\* AsyncRunner: threads are added while fewer than two are spare.
GrowsWhenBusy == A!GrowsWhenBusy

\* AsyncRunner: a call that failed has no retry left.
FailedIsRetried == A!FailedIsRetried

\* HashCache: the map and the list agree.
ListMatchesMap == H!ListMatchesMap

\* HashCache: a cache over its limit is being cut back.
OversizeIsAnswered == H!OversizeIsAnswered

\* Continuum: a hash moves only to a target that gains, or from one that loses.
MovesOnlyByCapacity == C!MovesOnlyByCapacity

\* Continuum: an older ring is installed only by an overtaken Rebuild.
BackOnlyIfOvertaken == C!BackOnlyIfOvertaken

\* Continuum: a call ends unless a Dump has blocked itself.
CallsEnd == C!CallsEnd

\* FastcgiProcess: one more request per thread after the signal.
AtMostOneMore == F!AtMostOneMore

\* FastcgiProcess: the signal ends the process with the main thread's request.
QuitEnds == F!QuitEnds

\* ThreadPool: what is gone when it is used was erased by Shrunk.
StaleOnlyIfErased == P!StaleOnlyIfErased

\* ThreadPool: a Post ends unless Shrunk has blocked itself on it.
PostsEnd == P!PostsEnd

\* ProxyServer: a client gets its own units back, in order and none twice.
EchoInOrder == S!EchoInOrder

\* ProxyServer: what arrives is read, and the next client is waited for.
ClientsAreServed == []<>(part = "proxy" => S!Served)
=============================================================================
