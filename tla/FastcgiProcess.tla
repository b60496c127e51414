--------------------------- MODULE FastcgiProcess ---------------------------
(***************************************************************************)
(* A child of the pre-fork master: the child branch of Fork in             *)
(* src/cwf/cwfmain.cc, then FastcgiMain and FastcgiProc of                 *)
(* src/cwf/frame.cc.  Its threads take requests from one socket until      *)
(* SignalQuit has set quit_ and they have finished another request.        *)
(*                                                                         *)
(* The main thread is one of those that serve.  When it leaves its loop,   *)
(* FastcgiMain frees the FrameWork and the process exits, whatever the     *)
(* other threads are doing.  Init, Process and the destructors are one     *)
(* step: an exception in Process is caught and the loop goes on.           *)
(***************************************************************************)
EXTENDS Naturals, FiniteSets

CONSTANTS Servers,     \* the threads that run FastcgiProc: thread_count of them
          Main,        \* the one that runs FastcgiMain
          MaxRequests  \* bound of the model: requests that clients make

\* What is asked of the constants.
ProcessAssumption ==
  /\ IsFiniteSet(Servers) /\ Main \in Servers /\ MaxRequests \in Nat

VARIABLES
  phase,      \* what the process is doing
  inherited,  \* what it has inherited for SIGTERM and SIGINT
  quit_,      \* frame.cc's quit_
  framework,  \* fw: "none", "alive" or "freed"
  place,      \* place[t]: where t is in FastcgiProc
  requests,   \* how many requests have been taken
  taken,      \* history: taken[t], requests that t has taken since quit_
  cut         \* history: the threads whose request was not finished

vars == <<phase, inherited, quit_, framework, place, requests, taken, cut>>

\* "forked"    the dispositions are the master's
\* "ignoring"  SIGTERM is ignored; RunStartupList
\* "half"      SIGINT calls SignalQuit, SIGTERM is ignored
\* "ready"     both call SignalQuit
\* "serving"   the threads run
\* "exiting"   FastcgiMain has returned
Phases == {"forked", "ignoring", "half", "ready", "serving", "exiting",
           "exited", "killed", "crashed"}
Ended == {"exited", "killed", "crashed"}

Places == {"none", "accept", "process", "test", "finish", "left"}
InRequest == {"process", "test", "finish"}

Init ==
  /\ phase = "forked" /\ inherited \in {"default", "master"}
  /\ quit_ = FALSE /\ framework = "none"
  /\ place = [t \in Servers |-> "none"]
  /\ requests = 0 /\ taken = [t \in Servers |-> 0] /\ cut = {}

-----------------------------------------------------------------------------
(* Signals. *)

Disposition(sig) ==
  CASE phase = "forked" -> inherited
    [] phase \in {"ignoring", "half"} /\ sig = "TERM" -> "ignore"
    [] phase = "ignoring" /\ sig = "INT" -> inherited
    [] OTHER -> "SignalQuit"

\* The master's SignalTerminate sets the quit_ of cwfmain.cc, not this one.
Signal(sig) ==
  /\ phase \notin Ended
  /\ phase' = IF Disposition(sig) = "default" THEN "killed" ELSE phase
  /\ quit_' = (quit_ \/ Disposition(sig) = "SignalQuit")
  /\ UNCHANGED <<inherited, framework, place, requests, taken, cut>>

-----------------------------------------------------------------------------
(* Fork's child branch and FastcgiMain. *)

\* The SIG_IGN of Fork, then the two InstallSignal of FastcgiMain.
InstallSignal ==
  /\ phase \in {"forked", "ignoring", "half"}
  /\ phase' = CASE phase = "forked"   -> "ignoring"
                [] phase = "ignoring" -> "half"
                [] phase = "half"     -> "ready"
  /\ UNCHANGED <<inherited, quit_, framework, place, requests, taken, cut>>

\* The FrameWork, the other threads, and the main thread's own FastcgiProc.
Serve ==
  /\ phase = "ready"
  /\ phase' = "serving" /\ framework' = "alive"
  /\ place' = [t \in Servers |-> "accept"]
  /\ UNCHANGED <<inherited, quit_, requests, taken, cut>>

\* FastcgiMain returns: the thread_group lets its threads go on, fw is freed.
MainReturns ==
  /\ phase = "serving" /\ place[Main] = "left"
  /\ phase' = "exiting" /\ framework' = "freed"
  /\ UNCHANGED <<inherited, quit_, place, requests, taken, cut>>

Exit ==
  /\ phase = "exiting"
  /\ phase' = "exited"
  /\ cut' = {t \in Servers : place[t] \in InRequest}
  /\ UNCHANGED <<inherited, quit_, framework, place, requests, taken>>

-----------------------------------------------------------------------------
(* FastcgiProc. *)

Runs(t) == phase \in {"serving", "exiting"} /\ place[t] # "none"

Accept(t) ==
  /\ Runs(t) /\ place[t] = "accept" /\ requests < MaxRequests
  /\ requests' = requests + 1
  /\ taken' = IF quit_ THEN [taken EXCEPT ![t] = @ + 1] ELSE taken
  /\ place' = [place EXCEPT ![t] = "process"]
  /\ UNCHANGED <<phase, inherited, quit_, framework, cut>>

\* FCGX_Accept_r fails: the loop is left, with no request to finish.
AcceptFails(t) ==
  /\ Runs(t) /\ place[t] = "accept"
  /\ place' = [place EXCEPT ![t] = "left"]
  /\ UNCHANGED <<phase, inherited, quit_, framework, requests, taken, cut>>

\* Process with a FrameWork that is gone may go well or not.
Process(t) ==
  /\ Runs(t) /\ place[t] = "process"
  /\ \/ place' = [place EXCEPT ![t] = "test"] /\ UNCHANGED <<phase, cut>>
     \/ /\ framework = "freed"
        /\ phase' = "crashed"
        /\ cut' = {s \in Servers : place[s] \in InRequest}
        /\ UNCHANGED place
  /\ UNCHANGED <<inherited, quit_, framework, requests, taken>>

\* The bug of a test of quit_ that only the main thread makes.
TestInMain(t) ==
  /\ Runs(t) /\ place[t] = "test"
  /\ place' = [place EXCEPT ![t] = IF quit_ /\ t = Main THEN "finish" ELSE "accept"]
  /\ UNCHANGED <<phase, inherited, quit_, framework, requests, taken, cut>>

\* The bug of a test of quit_ that the main thread does not make.
TestInOthers(t) ==
  /\ Runs(t) /\ place[t] = "test"
  /\ place' = [place EXCEPT ![t] = IF quit_ /\ t # Main THEN "finish" ELSE "accept"]
  /\ UNCHANGED <<phase, inherited, quit_, framework, requests, taken, cut>>

\* if (quit_) break; otherwise FCGX_Accept_r finishes the request and waits.
Test(t) ==
  /\ Runs(t) /\ place[t] = "test"
  /\ place' = [place EXCEPT ![t] = IF quit_ THEN "finish" ELSE "accept"]
  /\ UNCHANGED <<phase, inherited, quit_, framework, requests, taken, cut>>

Finish(t) ==
  /\ Runs(t) /\ place[t] = "finish"
  /\ place' = [place EXCEPT ![t] = "left"]
  /\ UNCHANGED <<phase, inherited, quit_, framework, requests, taken, cut>>

-----------------------------------------------------------------------------
Work(t) == Process(t) \/ Test(t) \/ Finish(t)
Start == InstallSignal \/ Serve
End == MainReturns \/ Exit

Next ==
  \/ \E sig \in {"TERM", "INT"} : Signal(sig)
  \/ Start \/ End
  \/ \E t \in Servers : Accept(t) \/ AcceptFails(t) \/ Work(t)

\* Threads run and requests end; nobody has to make a request or to signal.
Fairness == WF_vars(Start) /\ WF_vars(End) /\ \A t \in Servers : WF_vars(Work(t))

Spec == Init /\ [][Next]_vars
FairSpec == Spec /\ Fairness
-----------------------------------------------------------------------------
TypeOK ==
  /\ phase \in Phases /\ inherited \in {"default", "master"}
  /\ quit_ \in BOOLEAN /\ framework \in {"none", "alive", "freed"}
  /\ place \in [Servers -> Places]
  /\ requests \in Nat /\ taken \in [Servers -> Nat] /\ cut \in SUBSET Servers

\* After the signal every thread serves one more request at the most, and an
\* ordered end does not cut the main thread's own request short; with one
\* thread no request is.
AtMostOneMore ==
  /\ \A t \in Servers : taken[t] <= 1
  /\ Main \notin cut

\* The signal has come and the main thread is in a request, or has left.
LastRequest == quit_ /\ place[Main] \in InRequest \cup {"left"}

\* Once the main thread has a request the signal ends the process with it, and
\* a signal that comes before the threads run does not keep them from running.
\* While the main thread waits for a request the process goes on.  The first
\* part says that the main thread does not wait for another one, so that the
\* second is LastRequest ~> phase \in Ended.
QuitEnds ==
  /\ [][LastRequest => LastRequest' \/ phase' \in Ended]_<<phase, quit_, place>>
  /\ []<>(LastRequest => phase \in Ended)
  /\ []<>(quit_ => phase \in Ended \/ place[Main] # "none")
=============================================================================
