--------------------------- MODULE MasterCycleProofs ---------------------------
(***************************************************************************)
(* Proofs about MasterCycle, for every set of pids, number of workers and  *)
(* bound of the model: who can be reached by a signal, how many children   *)
(* there can be, and how many a termination leaves.                        *)
(***************************************************************************)
EXTENDS MasterCycle, FiniteSetTheorems, TLAPS

\* Children that main still has to fork.
ToFork == CASE pc = "boot" -> unborn
            [] pc \in {"settle", "push"} /\ unborn > 0 -> unborn - 1
            [] OTHER -> 0

\* A fork that is due in MasterCycle: until it is made the flag stays set,
\* and what the flag says after it will be cleared.
Due == IF pc = "spawn" \/ (fork_count = 1 /\ pc \notin {"settle", "push", "clear"})
         THEN 1 ELSE 0

\* A signal that may still set the flag.
Signalled == IF "CHLD" \in pending /\ Running THEN 1 ELSE 0

\* Where the master is when it boots, and what it has done by then.
BootOrder ==
  /\ pc = "boot" => unborn > 0
  /\ pc \in {"install", "toPause", "paused", "check", "spawn", "clear", "quitTest"}
       => unborn = 0
  /\ Booting /\ Running => fork_count = 0 /\ ~ quit /\ pending = {}
  /\ pc = "settle" => forked \in Pids
  /\ pc = "push" => forked # 0
  /\ pc = "exited" => quit
  /\ quit => unborn = 0 /\ pc # "install"

\* Every child that lives, is to be forked, or may be forked for a signal or
\* the flag, was one of the first or is paid for by a stop or a continue.
Budget == Cardinality(Alive) + ToFork + Due + Signalled <= Workers + stops

\* Once quit_ is set the children are dead, but for one that escaped the
\* handler or is forked because the flag was set before.
OneEscapes == quit => Cardinality(Alive) + Due <= 1

\* The inductive invariant.
MasterInv == TypeOK /\ BootOrder /\ AliveIsListed /\ Budget /\ OneEscapes

-----------------------------------------------------------------------------
(* Numbers of children. *)

\* The living children are counted.
LEMMA AliveIsFinite ==
  IsFiniteSet(Alive) /\ Cardinality(Alive) \in Nat
<1>1. Alive \subseteq Pids
  BY DEF Alive
<1> QED
  BY <1>1, MasterAssumption, FS_Subset, FS_CardinalityType DEF MasterAssumption

\* And so after a step.
LEMMA AliveIsFiniteNext ==
  IsFiniteSet(Alive') /\ Cardinality(Alive') \in Nat
<1>1. Alive' \subseteq Pids
  BY DEF Alive
<1> QED
  BY <1>1, MasterAssumption, FS_Subset, FS_CardinalityType DEF MasterAssumption

\* Fewer children live after a step that only kills.
LEMMA FewerAlive ==
  ASSUME Alive' \subseteq Alive
  PROVE  /\ Cardinality(Alive') <= Cardinality(Alive)
         /\ Alive' # Alive => Cardinality(Alive') + 1 <= Cardinality(Alive)
<1>1. /\ Cardinality(Alive') <= Cardinality(Alive)
      /\ Cardinality(Alive') = Cardinality(Alive) => Alive' = Alive
  BY AliveIsFinite, FS_Subset
<1> QED
  BY <1>1, AliveIsFinite, AliveIsFiniteNext

\* The sizes of the things that Budget adds.
LEMMA PartsAreNat ==
  ASSUME TypeOK PROVE ToFork \in Nat /\ Due \in 0 .. 1 /\ Signalled \in 0 .. 1
<1>1. unborn \in Nat
  BY MasterAssumption DEF MasterAssumption, TypeOK
<1> QED
  BY <1>1 DEF ToFork, Due, Signalled

\* Each count is a number after a step.
LEMMA PartsAreNatNext ==
  ASSUME TypeOK' PROVE ToFork' \in Nat /\ Due' \in 0 .. 1 /\ Signalled' \in 0 .. 1
<1>1. unborn' \in Nat
  BY MasterAssumption DEF MasterAssumption, TypeOK
<1> QED
  BY <1>1 DEF ToFork, Due, Signalled

-----------------------------------------------------------------------------
(* The invariant. *)

\* The invariant holds to begin with.
LEMMA InitInv == Init => MasterInv
<1> SUFFICES ASSUME Init PROVE MasterInv
  OBVIOUS
<1> USE MasterAssumption DEF MasterAssumption
<1>1. TypeOK
  <2>1. os \in [Pids -> {"free", "child", "zombie"}] /\ pc \in Places
    BY DEF Init, Places
  <2>2. unborn \in 0 .. Workers /\ deaths \in 0 .. MaxDeaths /\ stops \in 0 .. MaxStops
    BY DEF Init
  <2> QED
    BY <2>1, <2>2 DEF Init, TypeOK
<1>2. BootOrder
  BY DEF Init, BootOrder
<1>3. Alive = {}
  BY DEF Init, Alive
<1>4. AliveIsListed
  BY <1>3 DEF AliveIsListed
<1>5. Budget /\ OneEscapes
  BY <1>3, FS_EmptySet DEF Init, Budget, OneEscapes, ToFork, Due, Signalled
<1> QED
  BY <1>1, <1>2, <1>4, <1>5 DEF MasterInv

\* Each step keeps the types.
LEMMA TypeNext == TypeOK /\ BootOrder /\ [Next]_vars => TypeOK'
<1> SUFFICES ASSUME TypeOK, BootOrder, [Next]_vars PROVE TypeOK'
  OBVIOUS
<1> USE MasterAssumption DEF MasterAssumption, TypeOK, Places, Signals
<1>1. CASE Master
  <2>1. CASE ForkChild
    BY <2>1 DEF ForkChild
  <2>2. CASE Settle
    BY <2>2 DEF Settle
  <2>3. CASE Push
    <3>1. forked \in Pids \cup {-1}
      BY <2>3 DEF Push, BootOrder
    <3> QED
      BY <2>3, <3>1 DEF Push, worldVars
  <2>4. CASE Install \/ Pause \/ Check \/ Clear \/ QuitTest
    BY <2>4 DEF Install, Pause, Check, Clear, QuitTest, worldVars
  <2> QED
    BY <1>1, <2>1, <2>2, <2>3, <2>4 DEF Master
<1>2. CASE HandleChild
  BY <1>2 DEF HandleChild, Handling
<1>3. CASE HandleTerminate \/ HandleReopen
  BY <1>3 DEF HandleTerminate, HandleReopen, Handling
<1>4. CASE Environment
  <2>1. ASSUME NEW p \in Pids, Die(p) PROVE TypeOK'
    BY <2>1 DEF Die, Raise, Alive, masterVars
  <2>2. ASSUME NEW p \in Pids, StopOrContinue(p) PROVE TypeOK'
    BY <2>2 DEF StopOrContinue, Raise, masterVars
  <2>3. ASSUME NEW sig \in Signals, Operator(sig) PROVE TypeOK'
    BY <2>3 DEF Operator
  <2> QED
    BY <1>4, <2>1, <2>2, <2>3 DEF Environment
<1>5. CASE UNCHANGED vars
  BY <1>5 DEF vars, masterVars, worldVars
<1> QED
  BY <1>1, <1>2, <1>3, <1>4, <1>5 DEF Next

\* Each step keeps the order of the boot.
LEMMA BootNext == TypeOK /\ BootOrder /\ [Next]_vars => BootOrder'
<1> SUFFICES ASSUME TypeOK, BootOrder, [Next]_vars PROVE BootOrder'
  OBVIOUS
<1>0. unborn \in Nat /\ unborn' \in Nat
  BY TypeNext, MasterAssumption DEF MasterAssumption, TypeOK
<1> USE DEF BootOrder, Booting, Running
<1>1. CASE Master
  <2>1. CASE ForkChild
    BY <1>0, <2>1 DEF ForkChild
  <2>2. CASE Settle
    BY <1>0, <2>2, MasterAssumption DEF Settle, MasterAssumption
  <2>3. CASE Push
    BY <1>0, <2>3 DEF Push, worldVars
  <2>4. CASE Install \/ Pause \/ Check \/ Clear \/ QuitTest
    BY <1>0, <2>4 DEF Install, Pause, Check, Clear, QuitTest, worldVars
  <2> QED
    BY <1>1, <2>1, <2>2, <2>3, <2>4 DEF Master
<1>2. CASE HandleChild
  BY <1>0, <1>2 DEF HandleChild, Handling
<1>3. CASE HandleTerminate \/ HandleReopen
  BY <1>0, <1>3 DEF HandleTerminate, HandleReopen, Handling
<1>4. CASE Environment
  <2>1. ASSUME NEW p \in Pids, Die(p) \/ StopOrContinue(p) PROVE BootOrder'
    BY <1>0, <2>1 DEF Die, StopOrContinue, Raise, masterVars
  <2>2. ASSUME NEW sig \in Signals, Operator(sig) PROVE BootOrder'
    BY <1>0, <2>2 DEF Operator
  <2> QED
    BY <1>4, <2>1, <2>2 DEF Environment
<1>5. CASE UNCHANGED vars
  BY <1>5 DEF vars, masterVars, worldVars
<1> QED
  BY <1>1, <1>2, <1>3, <1>4, <1>5 DEF Next

\* Each step keeps the list of the children.
LEMMA ListedNext ==
  TypeOK /\ BootOrder /\ AliveIsListed /\ [Next]_vars => AliveIsListed'
<1> SUFFICES ASSUME TypeOK, BootOrder, AliveIsListed, [Next]_vars PROVE AliveIsListed'
  OBVIOUS
<1> USE DEF AliveIsListed, Alive, InFork, Running, TypeOK, Places
<1>1. CASE Master
  <2>1. CASE ForkChild
    BY <2>1 DEF ForkChild
  <2>2. CASE Settle
    BY <2>2 DEF Settle
  <2>3. CASE Push
    BY <2>3 DEF Push, worldVars
  <2>4. CASE Install \/ Pause \/ Check \/ Clear \/ QuitTest
    BY <2>4 DEF Install, Pause, Check, Clear, QuitTest, worldVars
  <2> QED
    BY <1>1, <2>1, <2>2, <2>3, <2>4 DEF Master
<1>2. CASE HandleChild
  BY <1>2 DEF HandleChild, Handling, Zombies
<1>3. CASE HandleTerminate \/ HandleReopen
  BY <1>3 DEF HandleTerminate, HandleReopen, Handling
<1>4. CASE Environment
  <2>1. ASSUME NEW p \in Pids, Die(p) \/ StopOrContinue(p) PROVE AliveIsListed'
    BY <2>1 DEF Die, StopOrContinue, masterVars
  <2>2. ASSUME NEW sig \in Signals, Operator(sig) PROVE AliveIsListed'
    BY <2>2 DEF Operator
  <2> QED
    BY <1>4, <2>1, <2>2 DEF Environment
<1>5. CASE UNCHANGED vars
  BY <1>5 DEF vars, masterVars, worldVars
<1> QED
  BY <1>1, <1>2, <1>3, <1>4, <1>5 DEF Next

\* The sizes before and after a step, as numbers.
LEMMA Sizes ==
  ASSUME TypeOK, TypeOK'
  PROVE  /\ Cardinality(Alive) \in Nat /\ Cardinality(Alive') \in Nat
         /\ ToFork \in Nat /\ ToFork' \in Nat
         /\ Due \in 0 .. 1 /\ Due' \in 0 .. 1
         /\ Signalled \in 0 .. 1 /\ Signalled' \in 0 .. 1
         /\ stops \in Nat /\ stops' \in Nat /\ Workers \in Nat
BY AliveIsFinite, AliveIsFiniteNext, PartsAreNat, PartsAreNatNext, MasterAssumption
   DEF MasterAssumption, TypeOK

\* The arithmetic of a step: what the living, the planned and the possible
\* children gain or lose together is paid for.
LEMMA Balance ==
  ASSUME NEW c \in Nat, NEW t \in Nat, NEW d \in Nat, NEW s \in Nat,
         NEW c1 \in Nat, NEW t1 \in Nat, NEW d1 \in Nat, NEW s1 \in Nat,
         NEW w \in Nat, NEW n \in Nat, NEW n1 \in Nat,
         c + t + d + s <= w + n,
         c1 + t1 + d1 + s1 + n <= c + t + d + s + n1
  PROVE  c1 + t1 + d1 + s1 <= w + n1
OBVIOUS

\* Each step keeps the budget of forks.
LEMMA BudgetNext ==
  ASSUME MasterInv, TypeOK',
         Cardinality(Alive') + ToFork' + Due' + Signalled' + stops
           <= Cardinality(Alive) + ToFork + Due + Signalled + stops'
  PROVE  Budget'
<1> DEFINE c == Cardinality(Alive)   c1 == Cardinality(Alive')
           t == ToFork               t1 == ToFork'
           d == Due                  d1 == Due'
           s == Signalled            s1 == Signalled'
           n == stops                n1 == stops'
<1>1. /\ c \in Nat /\ c1 \in Nat /\ t \in Nat /\ t1 \in Nat /\ d \in Nat /\ d1 \in Nat
      /\ s \in Nat /\ s1 \in Nat /\ n \in Nat /\ n1 \in Nat /\ Workers \in Nat
  BY Sizes DEF MasterInv
<1>2. c + t + d + s <= Workers + n
  BY DEF MasterInv, Budget
<1>3. c1 + t1 + d1 + s1 + n <= c + t + d + s + n1
  OBVIOUS
<1>4. c1 + t1 + d1 + s1 <= Workers + n1
  <2> HIDE DEF c, c1, t, t1, d, d1, s, s1, n, n1
  <2> QED
    BY <1>1, <1>2, <1>3, Balance
<1> QED
  BY <1>4 DEF Budget

\* A step of the master or of a handler that neither kills nor forks.
LEMMA QuietStep ==
  ASSUME MasterInv, TypeOK', Alive' = Alive, stops' = stops, quit' = quit,
         ToFork' <= ToFork, Due' + Signalled' <= Due + Signalled, quit => Due' <= Due
  PROVE  Budget' /\ OneEscapes'
<1> DEFINE c == Cardinality(Alive)   c1 == Cardinality(Alive')
           t == ToFork               t1 == ToFork'
           d == Due                  d1 == Due'
           s == Signalled            s1 == Signalled'
           n == stops                n1 == stops'
<1>1. /\ c \in Nat /\ c1 \in Nat /\ t \in Nat /\ t1 \in Nat /\ d \in Nat /\ d1 \in Nat
      /\ s \in Nat /\ s1 \in Nat /\ n \in Nat /\ n1 \in Nat
  BY Sizes DEF MasterInv
<1>2. c1 = c /\ n1 = n /\ t1 <= t /\ d1 + s1 <= d + s /\ (quit => d1 <= d)
  OBVIOUS
<1>3. quit => c + d <= 1
  BY DEF MasterInv, OneEscapes
<1>4. c1 + t1 + d1 + s1 + n <= c + t + d + s + n1 /\ (quit => c1 + d1 <= 1)
  <2> HIDE DEF c, c1, t, t1, d, d1, s, s1, n, n1
  <2> QED
    BY <1>1, <1>2, <1>3
<1>5. Budget'
  BY <1>4, BudgetNext
<1>6. OneEscapes'
  BY <1>4 DEF OneEscapes
<1> QED
  BY <1>5, <1>6

\* Each step keeps the count of the children.
LEMMA CountNext ==
  MasterInv /\ [Next]_vars /\ TypeOK' => Budget' /\ OneEscapes'
<1> SUFFICES ASSUME MasterInv, [Next]_vars, TypeOK' PROVE Budget' /\ OneEscapes'
  OBVIOUS
<1>a. /\ unborn \in Nat /\ unborn' \in Nat /\ fork_count \in 0 .. 1 /\ fork_count' \in 0 .. 1
      /\ TypeOK /\ BootOrder
  BY MasterAssumption DEF MasterAssumption, MasterInv, TypeOK
<1> USE DEF ToFork, Due, Signalled, Running
<1>1. CASE Settle \/ Push \/ Install \/ Pause \/ Check \/ Clear \/ QuitTest
  <2>1. Alive' = Alive /\ stops' = stops
    BY <1>1, <1>a DEF Settle, Push, Install, Pause, Check, Clear, QuitTest, worldVars,
                Alive, TypeOK, BootOrder
  <2>2. quit' = quit /\ ToFork' <= ToFork /\ Due' <= Due /\ Signalled' <= Signalled
    <3>1. CASE Settle
      BY <3>1, <1>a DEF Settle
    <3>3. CASE Push /\ unborn = 0
      BY <3>3, <1>a DEF Push, worldVars
    <3>4. CASE Push /\ unborn # 0
      <4>1. fork_count = 0 /\ pending = {} /\ unborn > 0
        BY <3>4, <1>a DEF Push, BootOrder, Booting
      <4> QED
        BY <3>4, <4>1, <1>a DEF Push, worldVars
    <3>2. CASE Install \/ Pause \/ Check \/ Clear \/ QuitTest
      BY <3>2, <1>a DEF Install, Pause, Check, Clear, QuitTest, worldVars, BootOrder
    <3> QED
      BY <1>1, <3>1, <3>2, <3>3, <3>4
  <2> QED
    BY <1>a, <2>1, <2>2, QuietStep, Sizes
<1>2. CASE HandleChild \/ HandleReopen
  <2>1. Alive' = Alive /\ stops' = stops
    BY <1>2, <1>a DEF HandleChild, HandleReopen, Handling, Alive, Zombies, TypeOK
  <2>2. quit' = quit /\ ToFork' <= ToFork /\ (quit => Due' <= Due)
    BY <1>2, <1>a DEF HandleChild, HandleReopen, Handling, Booting, BootOrder, TypeOK
  <2>3. Due' + Signalled' <= Due + Signalled
    <3>1. CASE HandleChild
      <4>1. Signalled = 1 /\ Signalled' = 0
        BY <3>1 DEF HandleChild, Handling
      <4> QED
        BY <4>1, <1>a, Sizes
    <3>2. CASE HandleReopen
      <4>1. Signalled' = Signalled /\ Due' = Due
        BY <3>2, <1>a DEF HandleReopen, Handling
      <4> QED
        BY <4>1, <1>a, Sizes
    <3> QED
      BY <1>2, <3>1, <3>2
  <2> QED
    BY <2>1, <2>2, <2>3, QuietStep
<1>3. CASE UNCHANGED vars
  <2>1. /\ Alive' = Alive /\ stops' = stops /\ quit' = quit
        /\ ToFork' = ToFork /\ Due' = Due /\ Signalled' = Signalled
    BY <1>3 DEF vars, masterVars, worldVars, Alive
  <2> QED
    BY <2>1, <1>a, Sizes, QuietStep
<1>4. CASE ForkChild
  <2>1. CASE forked' = -1 /\ UNCHANGED os /\ pc' = "push"
    <3>1. Alive' = Alive /\ stops' = stops /\ quit' = quit
      BY <1>4, <2>1 DEF ForkChild, Alive
    <3>2. ToFork' <= ToFork /\ Due' <= Due /\ Signalled' = Signalled
      BY <1>4, <2>1, <1>a DEF ForkChild, BootOrder
    <3> QED
      BY <3>1, <3>2, <1>a, Sizes, QuietStep
  <2>2. CASE pc' = "settle"
    <3>1. PICK p \in Pids : os[p] = "free" /\ os' = [os EXCEPT ![p] = "child"]
      BY <1>4, <2>2 DEF ForkChild
    <3>2. Alive' = Alive \cup {p} /\ p \notin Alive
      BY <3>1, <1>a DEF Alive, TypeOK
    <3>3. Cardinality(Alive') = Cardinality(Alive) + 1
      BY <3>2, AliveIsFinite, FS_AddElement
    <3>4. ToFork' + Due' + 1 <= ToFork + Due /\ (quit => Due' = 0 /\ Due = 1)
      BY <1>4, <2>2, <1>a DEF ForkChild, BootOrder, Booting
    <3>5. Signalled' = Signalled /\ stops' = stops /\ quit' = quit
      BY <1>4, <2>2 DEF ForkChild
    <3>6. Budget'
      BY <3>3, <3>4, <3>5, <1>a, Sizes, BudgetNext
    <3>7. OneEscapes'
      BY <3>3, <3>4, <3>5, <1>a, Sizes DEF MasterInv, OneEscapes
    <3> QED
      BY <3>6, <3>7
  <2> QED
    BY <1>4, <2>1, <2>2 DEF ForkChild
<1>5. CASE HandleTerminate
  <2>1. Alive' = Alive \ Targets /\ Targets \subseteq Alive
    BY <1>5, <1>a DEF HandleTerminate, Alive, Targets, TypeOK
  <2>2. ToFork' = ToFork /\ Due' = Due /\ stops' = stops
    BY <1>5, <1>a DEF HandleTerminate, Handling, Booting, BootOrder
  <2>3. Cardinality(Alive') + Signalled' <= Cardinality(Alive) + Signalled
    <3>1. CASE Targets = {}
      <4>1. Signalled' = Signalled /\ Alive' = Alive
        BY <1>5, <2>1, <3>1 DEF HandleTerminate, Handling
      <4> QED
        BY <4>1, <1>a, Sizes
    <3>2. CASE Targets # {}
      BY <2>1, <3>2, <1>a, FewerAlive, Sizes
    <3> QED
      BY <3>1, <3>2
  <2>4. Budget'
    BY <2>2, <2>3, <1>a, Sizes, BudgetNext
  <2>5. Cardinality(Alive') + Due' <= 1
    <3>1. Alive' \subseteq IF InFork THEN {forked} ELSE {}
      BY <1>5, <2>1 DEF HandleTerminate, Handling, Targets, MasterInv, AliveIsListed, Alive
    <3>2. CASE InFork
      <4>1. Due' = 0
        BY <1>5, <3>2, <2>2 DEF InFork
      <4>2. Cardinality(Alive') <= 1
        <5>1. Alive' \subseteq {forked}
          BY <3>1, <3>2
        <5>2. IsFiniteSet({forked}) /\ Cardinality({forked}) = 1
          BY FS_Singleton
        <5> QED
          BY <5>1, <5>2, FS_Subset
      <4> QED
        BY <4>1, <4>2, <1>a, Sizes
    <3>3. CASE ~ InFork
      <4>1. Cardinality(Alive') = 0
        BY <3>1, <3>3, FS_EmptySet
      <4> QED
        BY <4>1, <1>a, Sizes
    <3> QED
      BY <3>2, <3>3
  <2> QED
    BY <2>4, <2>5 DEF OneEscapes
<1>6. ASSUME NEW p \in Pids, Die(p) PROVE Budget' /\ OneEscapes'
  <2>1. Alive' = Alive \ {p} /\ p \in Alive
    BY <1>6, <1>a DEF Die, Alive, TypeOK
  <2>2. /\ ToFork' = ToFork /\ Due' = Due /\ stops' = stops /\ quit' = quit
        /\ Signalled' <= Signalled + 1
    BY <1>6 DEF Die, Raise, masterVars
  <2>3. Cardinality(Alive') + 1 <= Cardinality(Alive)
    BY <2>1, FewerAlive
  <2>4. Budget'
    BY <2>2, <2>3, <1>a, Sizes, BudgetNext
  <2>5. OneEscapes'
    BY <2>2, <2>3, <1>a, Sizes DEF MasterInv, OneEscapes
  <2> QED
    BY <2>4, <2>5
<1>7. ASSUME NEW p \in Pids, StopOrContinue(p) PROVE Budget' /\ OneEscapes'
  <2>1. /\ Alive' = Alive /\ ToFork' = ToFork /\ Due' = Due /\ quit' = quit
        /\ stops' = stops + 1 /\ Signalled' <= Signalled + 1
    BY <1>7 DEF StopOrContinue, Raise, masterVars, Alive
  <2>2. Budget'
    BY <2>1, <1>a, Sizes, BudgetNext
  <2>3. OneEscapes'
    BY <2>1, <1>a, Sizes DEF MasterInv, OneEscapes
  <2> QED
    BY <2>2, <2>3
<1>8. ASSUME NEW sig \in Signals, Operator(sig) PROVE Budget' /\ OneEscapes'
  <2>1. Alive' = Alive /\ stops' = stops /\ quit' = quit
    BY <1>8 DEF Operator, Alive
  <2>2. ToFork' <= ToFork /\ Due' <= Due /\ Signalled' <= Signalled
    BY <1>8, <1>a DEF Operator, Booting, BootOrder
  <2> QED
    BY <2>1, <2>2, <1>a, Sizes, QuietStep
<1> QED
  BY <1>1, <1>2, <1>3, <1>4, <1>5, <1>6, <1>7, <1>8 DEF Next, Master, Environment

-----------------------------------------------------------------------------
(* The theorems. *)

\* Each step keeps the invariant.
LEMMA NextInv == MasterInv /\ [Next]_vars => MasterInv'
BY TypeNext, BootNext, ListedNext, CountNext DEF MasterInv

\* The inductive invariant of the master and its children.
THEOREM MasterInvariant == Spec => []MasterInv
BY InitInv, NextInv, PTL DEF Spec

\* Every variable of the master and of its world keeps its type.
THEOREM TypeCorrect == Spec => []TypeOK
<1>1. MasterInv => TypeOK
  BY DEF MasterInv
<1> QED
  BY <1>1, MasterInvariant, PTL

\* A signal that reaches the master reaches every child but the one that Fork
\* has not returned, however forks, deaths and handlers interleave.
THEOREM ChildrenAreListed == Spec => []AliveIsListed
<1>1. MasterInv => AliveIsListed
  BY DEF MasterInv
<1> QED
  BY <1>1, MasterInvariant, PTL

\* However many signals coalesce or are lost, the flag fork_count_ does not
\* make the master fork more children than -F asks for, but for one for each
\* stop or continue of a child.
THEOREM PopulationIsBounded == Spec => []PopulationBound
<1>1. MasterInv => PopulationBound
  <2> SUFFICES ASSUME MasterInv PROVE PopulationBound
    OBVIOUS
  <2>1. TypeOK /\ Cardinality(Alive) + ToFork + Due + Signalled <= Workers + stops
    BY DEF MasterInv, Budget
  <2>2. stops \in Nat /\ Workers \in Nat
    BY <2>1, MasterAssumption DEF MasterAssumption, TypeOK
  <2> QED
    BY <2>1, <2>2, AliveIsFinite, PartsAreNat DEF PopulationBound
<1> QED
  BY <1>1, MasterInvariant, PTL

\* A termination leaves at most one child running, for any number of them.
THEOREM OneOrphanAtMost == Spec => []AtMostOneOrphan
<1>1. MasterInv => AtMostOneOrphan
  <2> SUFFICES ASSUME MasterInv, pc = "exited" PROVE Cardinality(Alive) <= 1
    BY DEF AtMostOneOrphan
  <2>1. Cardinality(Alive) + Due <= 1 /\ TypeOK
    BY DEF MasterInv, BootOrder, OneEscapes
  <2> QED
    BY <2>1, AliveIsFinite, PartsAreNat
<1> QED
  BY <1>1, MasterInvariant, PTL
=============================================================================
