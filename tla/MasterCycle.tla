----------------------------- MODULE MasterCycle -----------------------------
(***************************************************************************)
(* The pre-fork master of src/cwf/cwfmain.cc (and of redis_proxy_main.cc,  *)
(* its near copy): main forks Workers children, MasterCycle sleeps in      *)
(* pause() and forks again when a child died, and three signal handlers    *)
(* share fork_count_, quit_ and children_ with it.                         *)
(*                                                                         *)
(* A handler runs to its end between two steps of the master, wherever the *)
(* master is: no signal is ever blocked.  A pending signal is one bit.     *)
(* The kernel, the children and the operator are the environment.          *)
(***************************************************************************)
EXTENDS Integers, FiniteSets

CONSTANTS Pids,       \* the process ids the kernel gives out
          Workers,    \* the -F argument: how many children main forks
          MaxDeaths,  \* bound of the model: children that die by themselves
          MaxStops    \* bound of the model: children stopped or continued

ASSUME MasterAssumption ==
  /\ IsFiniteSet(Pids) /\ Pids \subseteq Nat \ {0, 1}
  /\ Workers \in Nat \ {0} /\ MaxDeaths \in Nat /\ MaxStops \in Nat

VARIABLES
  fork_count,  \* fork_count_: a flag, despite its name
  quit,        \* quit_
  children,    \* children_: a list, but only iterated, searched and remove()d
  pc,          \* where the master is
  forked,      \* what Fork is about to return: a pid, -1, or 0 for none
  unborn,      \* initial children main still has to fork
  pending,     \* signals sent to the master and not handled
  os,          \* what the kernel knows of each pid
  deaths, stops  \* what the environment has spent of its bounds

masterVars == <<fork_count, quit, children, pc, forked, unborn>>
worldVars  == <<pending, os, deaths, stops>>
vars == <<masterVars, worldVars>>

Signals == {"CHLD", "TERM", "USR1"}

\* "boot"     main, before a fork          "install"  before the handlers
\* "toPause"  between quit_'s test and pause()
\* "paused"   blocked in pause()           "check"    at if (fork_count_)
\* "spawn"    MasterCycle, before a fork   "settle"   in Fork's 100 ms sleep
\* "push"     before children_.push_back   "clear"    at fork_count_ = 0
\* "quitTest" at if (quit_)
\* "exited"   left through quit_           "killed"   by an unhandled signal
Places == {"boot", "install", "toPause", "paused", "check", "spawn", "settle",
           "push", "clear", "quitTest", "exited", "killed"}

Booting   == unborn > 0 \/ pc = "install"
Running   == pc \notin {"exited", "killed"}
InFork    == pc \in {"settle", "push"}
Alive     == {p \in Pids : os[p] = "child"}
Zombies   == {p \in Pids : os[p] = "zombie"}

Init ==
  /\ fork_count = 0 /\ quit = FALSE /\ children = {}
  /\ pc = "boot" /\ forked = 0 /\ unborn = Workers
  /\ pending = {} /\ deaths = 0 /\ stops = 0
  /\ os = [p \in Pids |-> "free"]

-----------------------------------------------------------------------------
(* The master between two signals. *)

\* fork() in main's loop and in MasterCycle: it may fail.
ForkChild ==
  /\ pc \in {"boot", "spawn"}
  /\ \/ \E p \in Pids : /\ os[p] = "free"
                        /\ os' = [os EXCEPT ![p] = "child"]
                        /\ forked' = p
                        /\ pc' = "settle"
     \/ forked' = -1 /\ pc' = "push" /\ UNCHANGED os
  /\ UNCHANGED <<fork_count, quit, children, unborn, pending, deaths, stops>>

\* The end of Fork's sleep, which any signal cuts short, and its own waitpid:
\* a child that is dead already is reaped here, and its pid returned.
Settle ==
  /\ pc = "settle"
  /\ os' = IF os[forked] = "zombie" THEN [os EXCEPT ![forked] = "free"] ELSE os
  /\ pc' = "push"
  /\ UNCHANGED <<fork_count, quit, children, forked, unborn, pending, deaths, stops>>

\* The bug of a respawned child that is not entered in the list.
PushInitialOnly ==
  /\ pc = "push"
  /\ children' = IF unborn > 0 THEN children \cup {forked} ELSE children
  /\ forked' = 0
  /\ unborn' = IF unborn > 0 THEN unborn - 1 ELSE 0
  /\ pc' = IF unborn = 0 THEN "clear" ELSE IF unborn = 1 THEN "install" ELSE "boot"
  /\ UNCHANGED <<fork_count, quit, worldVars>>

\* push_back of whatever Fork returned, in main's loop or in MasterCycle.
Push ==
  /\ pc = "push"
  /\ children' = children \cup {forked}
  /\ forked' = 0
  /\ unborn' = IF unborn > 0 THEN unborn - 1 ELSE 0
  /\ pc' = IF unborn = 0 THEN "clear" ELSE IF unborn = 1 THEN "install" ELSE "boot"
  /\ UNCHANGED <<fork_count, quit, worldVars>>

\* MasterCycle installs the handlers.  No SIGCHLD is pending: until now its
\* default was to be ignored.
Install ==
  /\ pc = "install"
  /\ pc' = "toPause"
  /\ UNCHANGED <<fork_count, quit, children, forked, unborn, worldVars>>

Pause ==
  /\ pc = "toPause"
  /\ pc' = "paused"
  /\ UNCHANGED <<fork_count, quit, children, forked, unborn, worldVars>>

\* The bug of a flag read once and not cleared until the next death.
CheckIgnoresFlag ==
  /\ pc = "check"
  /\ pc' = "quitTest"
  /\ UNCHANGED <<fork_count, quit, children, forked, unborn, worldVars>>

Check ==
  /\ pc = "check"
  /\ pc' = IF fork_count # 0 THEN "spawn" ELSE "quitTest"
  /\ UNCHANGED <<fork_count, quit, children, forked, unborn, worldVars>>

\* The bug of a flag that is never cleared.
ClearForgotten ==
  /\ pc = "clear"
  /\ pc' = "quitTest"
  /\ UNCHANGED <<fork_count, quit, children, forked, unborn, worldVars>>

\* A SIGCHLD handled since Check is forgotten here.
Clear ==
  /\ pc = "clear"
  /\ fork_count' = 0
  /\ pc' = "quitTest"
  /\ UNCHANGED <<quit, children, forked, unborn, worldVars>>

\* The bug of a termination that is put off while a respawn is due.
QuitTestWhenIdle ==
  /\ pc = "quitTest"
  /\ pc' = IF quit /\ fork_count = 0 THEN "exited" ELSE "toPause"
  /\ UNCHANGED <<fork_count, quit, children, forked, unborn, worldVars>>

QuitTest ==
  /\ pc = "quitTest"
  /\ pc' = IF quit THEN "exited" ELSE "toPause"
  /\ UNCHANGED <<fork_count, quit, children, forked, unborn, worldVars>>

-----------------------------------------------------------------------------
(* The handlers.  pause() returns when one has run. *)

Handling(sig) ==
  /\ sig \in pending /\ Running /\ ~Booting
  /\ pc' = IF pc = "paused" THEN "check" ELSE pc
  /\ UNCHANGED <<forked, unborn, deaths, stops>>

\* The children that KillChildren signals: kill(-1, sig) reaches them all.
Targets == IF -1 \in children THEN Alive ELSE children \cap Alive

\* The bug of one waitpid instead of the loop.
HandleChildOnce ==
  /\ Handling("CHLD")
  /\ fork_count' = IF quit THEN fork_count ELSE 1
  /\ \/ /\ Zombies = {} /\ UNCHANGED <<os, children>>
     \/ \E z \in Zombies : /\ os' = [os EXCEPT ![z] = "free"]
                           /\ children' = children \ {z}
  /\ pending' = pending \ {"CHLD"}
  /\ UNCHANGED quit

\* SignalChildren: waitpid until nothing is left to reap.
HandleChild ==
  /\ Handling("CHLD")
  /\ fork_count' = IF quit THEN fork_count ELSE 1
  /\ os' = [p \in Pids |-> IF p \in Zombies THEN "free" ELSE os[p]]
  /\ children' = children \ Zombies
  /\ pending' = pending \ {"CHLD"}
  /\ UNCHANGED quit

\* The bug of a termination that leaves the children to the signal's default.
HandleTerminateSpares ==
  /\ Handling("TERM")
  /\ quit' = TRUE
  /\ pending' = pending \ {"TERM"}
  /\ UNCHANGED <<fork_count, children, os>>

\* SignalTerminate: kill(pid, SIGKILL) for every element of the list.
HandleTerminate ==
  /\ Handling("TERM")
  /\ quit' = TRUE
  /\ os' = [p \in Pids |-> IF p \in Targets THEN "zombie" ELSE os[p]]
  /\ pending' = (pending \ {"TERM"}) \cup (IF Targets # {} THEN {"CHLD"} ELSE {})
  /\ UNCHANGED <<fork_count, children>>

\* SignalReopen: SIGUSR1 to every element; a child reopens its log.
HandleReopen ==
  /\ Handling("USR1")
  /\ pending' = pending \ {"USR1"}
  /\ UNCHANGED <<fork_count, quit, children, os>>

-----------------------------------------------------------------------------
(* The environment. *)

\* A SIGCHLD counts only once its handler is installed.
Raise(sig) == pending' = IF Running /\ ~Booting THEN pending \cup {sig} ELSE pending

\* A child exits or crashes.  Without a master, init reaps it.
Die(p) ==
  /\ p \in Alive /\ deaths < MaxDeaths
  /\ deaths' = deaths + 1
  /\ os' = [os EXCEPT ![p] = IF Running THEN "zombie" ELSE "free"]
  /\ Raise("CHLD")
  /\ UNCHANGED <<masterVars, stops>>

\* A child is stopped or continued: signal() installs without SA_NOCLDSTOP.
StopOrContinue(p) ==
  /\ p \in Alive /\ stops < MaxStops /\ Running /\ ~Booting
  /\ stops' = stops + 1
  /\ Raise("CHLD")
  /\ UNCHANGED <<masterVars, os, deaths>>

\* An operator sends SIGTERM, SIGINT or SIGUSR1: fatal before MasterCycle.
Operator(sig) ==
  /\ sig \in {"TERM", "USR1"} /\ Running
  /\ IF Booting THEN pc' = "killed" /\ UNCHANGED pending
                ELSE sig \notin pending /\ pending' = pending \cup {sig} /\ UNCHANGED pc
  /\ UNCHANGED <<fork_count, quit, children, forked, unborn, os, deaths, stops>>

-----------------------------------------------------------------------------
Master == \/ ForkChild \/ Settle \/ Push \/ Install \/ Pause
          \/ Check \/ Clear \/ QuitTest

Environment ==
  \/ \E p \in Pids : Die(p) \/ StopOrContinue(p)
  \/ \E sig \in Signals : Operator(sig)

Next == Master \/ HandleChild \/ HandleTerminate \/ HandleReopen \/ Environment

\* The master is scheduled and the kernel delivers a pending signal.
Fairness == /\ WF_vars(Master)
            /\ WF_vars(HandleChild) /\ WF_vars(HandleTerminate) /\ WF_vars(HandleReopen)

Spec == Init /\ [][Next]_vars
FairSpec == Spec /\ Fairness

-----------------------------------------------------------------------------
TypeOK ==
  /\ fork_count \in {0, 1} /\ quit \in BOOLEAN
  /\ children \subseteq Pids \cup {-1}
  /\ pc \in Places
  /\ forked \in Pids \cup {-1, 0}
  /\ unborn \in 0 .. Workers
  /\ pending \subseteq Signals
  /\ os \in [Pids -> {"free", "child", "zombie"}]
  /\ deaths \in 0 .. MaxDeaths /\ stops \in 0 .. MaxStops

\* Nobody gets out of reach: a live child is in children_, where the next
\* SIGTERM finds it, or it is the one Fork has not returned yet.
AliveIsListed ==
  Running => \A p \in Alive : p \in children \/ (InFork /\ forked = p)

\* The flag never makes the master fork more children than died, whatever
\* coalesces or is lost; each stop or continue of a child may add one.
PopulationBound == Cardinality(Alive) <= Workers + stops

\* A termination leaves at most one process behind, the one whose fork it
\* overlapped: SIGTERM in Fork's 100 ms, or a death answered after it.
AtMostOneOrphan == pc = "exited" => Cardinality(Alive) <= 1

\* A child that dies while the handlers are installed is reaped.
ZombiesAreReaped ==
  \A p \in Pids :
    os[p] = "zombie" /\ Running /\ "CHLD" \in pending ~> (os[p] # "zombie" \/ ~Running)

\* A SIGCHLD that finds the master blocked in pause() leads to a fork, as long
\* as no SIGUSR1 wakes the master first.
PausedDeathIsAnswered ==
  pc = "paused" /\ "CHLD" \in pending /\ ~quit /\ []("USR1" \notin pending)
    ~> (pc = "spawn" \/ quit)

\* After SIGTERM the master exits, unless the handler ran between the test of
\* quit_ and pause().
TerminationEnds ==
  quit /\ Running /\ pc \notin {"toPause", "paused"} ~> pc = "exited"

\* The comment on SignalChildren: what is killed is removed from children_.
\* Outside Fork, every pid in the list is a child still to be reaped.
KilledAreRemoved ==
  pc \in {"toPause", "paused", "check", "quitTest"} =>
    \A p \in children \cap Pids : p \in Alive \cup Zombies
=============================================================================
