------------------------- MODULE ProcessMonitorProofs -------------------------
(***************************************************************************)
(* For any number of commands and pids: while pids are not reused at once, *)
(* Run tracks exactly one process per command it has not given up, and     *)
(* returns only when it has given up all of them; pids reused or not, it   *)
(* gives up exactly those whose exits were too many in some window.        *)
(***************************************************************************)
EXTENDS ProcessMonitor, TLAPS, FiniteSetTheorems, WellFoundedInduction

\* The types that the argument needs.
MapTypes ==
    /\ launched \subseteq Commands
    /\ children \in [Pids -> Commands \cup {None}]
    /\ runs \in [Pids -> Commands \cup {Helper, None}]
    /\ pc = "handle" => reaped \in Pids

\* At any moment, and not only while Run waits: one tracked process per command
\* that is supervised, none for a command given up or not launched yet.
OneEach ==
    \A c \in Commands :
        IF c \in launched \ gaveUp THEN \E p \in Pids : Tracked(c) = {p} ELSE Tracked(c) = {}

\* A tracked pid runs its command, but for the one that was just reaped.
TracksItsOwn ==
    \A p \in Pids :
        /\ children[p] # None
        /\ ~(pc \in {"handle", "failed"} /\ p = reaped)
        => runs[p] = children[p]

\* Nothing is launched at the start, or given up before it is launched.
GivenUpLaunched ==
    /\ pc = "start" => launched = {}
    /\ gaveUp \subseteq launched

IInv == MapTypes /\ OneEach /\ TracksItsOwn /\ GivenUpLaunched

LEMMA InitIInv == Init => IInv
  BY MonitorAssumption
     DEF Init, IInv, MapTypes, OneEach, TracksItsOwn, GivenUpLaunched, Tracked

\* A process added for a command that had none, under a pid that was not tracked.
LEMMA Added ==
  ASSUME children \in [Pids -> Commands \cup {None}],
         NEW c \in Commands, NEW p \in Pids, children[p] = None,
         Tracked(c) = {}, children' = [children EXCEPT ![p] = c]
  PROVE  /\ Tracked(c)' = {p}
         /\ \A d \in Commands : d # c => Tracked(d)' = Tracked(d)
  BY MonitorAssumption DEF Tracked

\* The reaped process of a command erased, and perhaps replaced by another.
LEMMA Erased ==
  ASSUME children \in [Pids -> Commands \cup {None}],
         NEW c \in Commands, reaped \in Pids, Tracked(c) = {reaped},
         children' = [children EXCEPT ![reaped] = None]
  PROVE  /\ Tracked(c)' = {}
         /\ \A d \in Commands : d # c => Tracked(d)' = Tracked(d)
  BY MonitorAssumption DEF Tracked

LEMMA Replaced ==
  ASSUME children \in [Pids -> Commands \cup {None}],
         NEW c \in Commands, NEW p \in Pids, reaped \in Pids, p # reaped,
         children[p] = None, Tracked(c) = {reaped}, children' = Replace(p, c)
  PROVE  /\ Tracked(c)' = {p}
         /\ \A d \in Commands : d # c => Tracked(d)' = Tracked(d)
         /\ children' \in [Pids -> Commands \cup {None}]
         /\ \A q \in Pids : q \notin {p, reaped} => children'[q] = children[q]
         /\ children'[p] = c
         /\ children'[reaped] = None
  BY MonitorAssumption DEF Tracked, Replace

\* Who the reaped child was launched for has no other process.
LEMMA ReapedIsTheOne ==
  ASSUME IInv, reaped \in Pids, NEW c \in Commands, children[reaped] = c
  PROVE  Tracked(c) = {reaped} /\ c \in launched \ gaveUp
  BY DEF IInv, OneEach, Tracked

LEMMA LaunchKeeps ==
  ASSUME IInv, NEW c \in Commands, NEW p \in Pids, Launch(c, p)
  PROVE  IInv'
  <1>1. /\ runs[p] = None
        /\ runs' = [runs EXCEPT ![p] = c]
        /\ children' = [children EXCEPT ![p] = c]
        /\ launched' = launched \cup {c}
        /\ UNCHANGED <<reaped, gaveUp>>
        /\ pc \in {"start", "launch"}
        /\ pc' \in {"await", "wait", "launch"}
    BY DEF Launch, LaunchProcess, Free
  <1>2. c \notin launched
    BY DEF Launch, IInv, GivenUpLaunched
  <1>3. c \notin gaveUp /\ Tracked(c) = {}
    BY <1>2 DEF IInv, OneEach, GivenUpLaunched
  <1>4. children[p] = None
    BY <1>1, MonitorAssumption DEF IInv, TracksItsOwn, MapTypes
  <1>5. /\ Tracked(c)' = {p}
        /\ \A d \in Commands : d # c => Tracked(d)' = Tracked(d)
    BY <1>1, <1>3, <1>4, Added DEF IInv, MapTypes
  <1>6. MapTypes'
    BY <1>1 DEF IInv, MapTypes
  <1>7. OneEach'
    BY <1>1, <1>3, <1>5 DEF IInv, OneEach
  <1>8. TracksItsOwn'
    BY <1>1, <1>4 DEF IInv, MapTypes, TracksItsOwn
  <1>9. GivenUpLaunched'
    BY <1>1 DEF IInv, GivenUpLaunched
  <1> QED
    BY <1>6, <1>7, <1>8, <1>9 DEF IInv

LEMMA ReapKeeps ==
  ASSUME IInv, NEW p \in Pids, Reap(p)
  PROVE  IInv'
  <1>1. /\ pc = "wait" /\ pc' = "handle"
        /\ runs' = [runs EXCEPT ![p] = None]
        /\ reaped' = p
        /\ UNCHANGED <<launched, children, gaveUp>>
    BY DEF Reap
  <1>2. OneEach'
    BY <1>1 DEF IInv, OneEach, Tracked
  <1>3. MapTypes' /\ TracksItsOwn' /\ GivenUpLaunched'
    BY <1>1 DEF IInv, MapTypes, TracksItsOwn, GivenUpLaunched
  <1> QED
    BY <1>2, <1>3 DEF IInv

LEMMA GiveUpKeeps ==
  ASSUME IInv, NEW c \in Commands, GiveUp(c)
  PROVE  IInv'
  <1>1. /\ pc = "handle" /\ pc' = "wait"
        /\ children[reaped] = c
        /\ reaped \in Pids
        /\ children' = [children EXCEPT ![reaped] = None]
        /\ gaveUp' = gaveUp \cup {c}
        /\ UNCHANGED <<launched, runs>>
    BY DEF GiveUp, IInv, MapTypes
  <1>2. Tracked(c) = {reaped} /\ c \in launched \ gaveUp
    BY <1>1, ReapedIsTheOne
  <1>3. /\ Tracked(c)' = {}
        /\ \A d \in Commands : d # c => Tracked(d)' = Tracked(d)
    BY <1>1, <1>2, Erased DEF IInv, MapTypes
  <1>4. OneEach'
    BY <1>1, <1>3 DEF IInv, OneEach
  <1>5. MapTypes' /\ TracksItsOwn' /\ GivenUpLaunched'
    BY <1>1, <1>2 DEF IInv, MapTypes, TracksItsOwn, GivenUpLaunched
  <1> QED
    BY <1>4, <1>5 DEF IInv

LEMMA RelaunchKeeps ==
  ASSUME "reuse" \notin Mishaps, IInv, NEW c \in Commands, NEW p \in Pids, Relaunch(c, p)
  PROVE  IInv'
  <1>1. /\ pc = "handle" /\ pc' = "wait"
        /\ children[reaped] = c
        /\ reaped \in Pids
        /\ p # reaped
        /\ runs[p] = None
        /\ runs' = [runs EXCEPT ![p] = c]
        /\ children' = Replace(p, c)
        /\ UNCHANGED <<launched, gaveUp>>
    BY DEF Relaunch, LaunchProcess, Free, IInv, MapTypes
  <1>2. Tracked(c) = {reaped} /\ c \in launched \ gaveUp
    BY <1>1, ReapedIsTheOne
  <1>3. children[p] = None
    BY <1>1, MonitorAssumption DEF IInv, TracksItsOwn, MapTypes
  <1>4. /\ Tracked(c)' = {p}
        /\ \A d \in Commands : d # c => Tracked(d)' = Tracked(d)
        /\ children' \in [Pids -> Commands \cup {None}]
        /\ \A q \in Pids : q \notin {p, reaped} => children'[q] = children[q]
        /\ children'[p] = c
        /\ children'[reaped] = None
    BY <1>1, <1>2, <1>3, Replaced DEF IInv, MapTypes
  <1>5. OneEach'
    BY <1>1, <1>2, <1>4 DEF IInv, OneEach
  <1>6. MapTypes' /\ GivenUpLaunched'
    BY <1>1, <1>4 DEF IInv, MapTypes, GivenUpLaunched
  <1>7. TracksItsOwn'
    BY <1>1, <1>4 DEF IInv, MapTypes, TracksItsOwn
  <1> QED
    BY <1>5, <1>6, <1>7 DEF IInv

\* The helper takes and frees pids that are not tracked, or the reaped one.
LEMMA HelperKeeps ==
  ASSUME IInv, NEW p \in Pids, HelperStarts(p) \/ HelperReaped(p)
  PROVE  IInv'
  <1>1. /\ runs[p] \in {Helper, None}
        /\ runs' \in {[runs EXCEPT ![p] = Helper], [runs EXCEPT ![p] = None]}
        /\ UNCHANGED <<pc, launched, children, reaped, gaveUp>>
    BY DEF HelperStarts, HelperReaped, Free
  <1>2. children[p] # None => pc \in {"handle", "failed"} /\ p = reaped
    BY <1>1, MonitorAssumption DEF IInv, MapTypes, TracksItsOwn
  <1>3. OneEach' /\ GivenUpLaunched'
    BY <1>1 DEF IInv, OneEach, Tracked, GivenUpLaunched
  <1>4. MapTypes' /\ TracksItsOwn'
    BY <1>1, <1>2 DEF IInv, MapTypes, TracksItsOwn
  <1> QED
    BY <1>3, <1>4 DEF IInv

\* Steps that move no pid and launch, give up and track nothing.
LEMMA OtherStepsKeep ==
  ASSUME IInv, UNCHANGED <<launched, runs, children, gaveUp>>,
         \/ UNCHANGED <<pc, reaped>>
         \/ pc = "handle" /\ pc' = "wait" /\ children[reaped] = None
         \/ pc' \in {"ended", "launch", "wait"} /\ pc \in {"await", "wait"} /\ UNCHANGED reaped
         \/ pc' = "failed" /\ pc \in {"start", "launch", "handle"} /\ UNCHANGED reaped
  PROVE  IInv'
  <1>1. OneEach'
    BY DEF IInv, OneEach, Tracked
  <1>2. MapTypes' /\ GivenUpLaunched'
    BY DEF IInv, MapTypes, GivenUpLaunched
  <1>3. TracksItsOwn'
    BY DEF IInv, TracksItsOwn
  <1> QED
    BY <1>1, <1>2, <1>3 DEF IInv

LEMMA StepIInv ==
  ASSUME "reuse" \notin Mishaps, IInv, [Next]_vars
  PROVE  IInv'
  <1>1. ASSUME NEW c \in Commands, NEW p \in Pids, Launch(c, p) PROVE IInv'
    BY <1>1, LaunchKeeps
  <1>2. ASSUME NEW p \in Pids, Reap(p) PROVE IInv'
    BY <1>2, ReapKeeps
  <1>3. ASSUME NEW c \in Commands, GiveUp(c) PROVE IInv'
    BY <1>3, GiveUpKeeps
  <1>4. ASSUME NEW c \in Commands, NEW p \in Pids, Relaunch(c, p) PROVE IInv'
    BY <1>4, RelaunchKeeps
  <1>5. ASSUME NEW p \in Pids, HelperStarts(p) \/ HelperReaped(p) PROVE IInv'
    BY <1>5, HelperKeeps
  <1>6. CASE Accept \/ NoChild
    BY <1>6, OtherStepsKeep DEF Accept, NoChild
  <1>7. CASE Untracked
    BY <1>7, OtherStepsKeep DEF Untracked
  <1>8. CASE ForkFails
    BY <1>8, OtherStepsKeep DEF ForkFails
  <1>9. ASSUME NEW p \in Pids, Notify(p) \/ Exit(p) PROVE IInv'
    BY <1>9, OtherStepsKeep DEF Notify, Exit
  <1>10. CASE Tick \/ UNCHANGED vars
    BY <1>10, OtherStepsKeep DEF Tick, vars
  <1> QED
    BY <1>1, <1>2, <1>3, <1>4, <1>5, <1>6, <1>7, <1>8, <1>9, <1>10
       DEF Next, Starting, Handling

\* While pids are not reused at once, Run tracks exactly one process of every
\* command it has not given up, and that process runs the command.
THEOREM OneProcessPerCommand ==
  ASSUME "reuse" \notin Mishaps
  PROVE  Spec => []Supervised
  <1>1. IInv => Supervised
    BY DEF IInv, MapTypes, OneEach, TracksItsOwn, GivenUpLaunched, Supervised
  <1>2. IInv /\ [Next]_vars => IInv'
    BY StepIInv
  <1> QED
    BY <1>1, <1>2, InitIInv, PTL DEF Spec
-----------------------------------------------------------------------------
(* How Run ends *)

\* Run waits for children only when main has launched them all.
LaunchedFirst ==
    /\ launched \subseteq Commands
    /\ pc \in {"wait", "handle", "ended"} => launched = Commands

EndInv == IInv /\ LaunchedFirst /\ EndsForAReason

LEMMA LaunchedFirstStep ==
  ASSUME LaunchedFirst, [Next]_vars
  PROVE  LaunchedFirst'
  <1> USE DEF LaunchedFirst
  <1>1. ASSUME NEW c \in Commands, NEW p \in Pids, Launch(c, p) PROVE LaunchedFirst'
    BY <1>1 DEF Launch
  <1>2. CASE Accept \/ ForkFails \/ NoChild \/ Untracked \/ Tick \/ UNCHANGED vars
    BY <1>2 DEF Accept, ForkFails, NoChild, Untracked, Tick, vars
  <1>3. ASSUME NEW c \in Commands, NEW p \in Pids, Relaunch(c, p)
        PROVE  LaunchedFirst'
    BY <1>3 DEF Relaunch
  <1>4. ASSUME NEW c \in Commands, GiveUp(c) PROVE LaunchedFirst'
    BY <1>4 DEF GiveUp
  <1>5. ASSUME NEW p \in Pids,
               Reap(p) \/ Notify(p) \/ Exit(p) \/ HelperStarts(p) \/ HelperReaped(p)
        PROVE  LaunchedFirst'
    BY <1>5 DEF Reap, Notify, Exit, HelperStarts, HelperReaped
  <1> QED
    BY <1>1, <1>2, <1>3, <1>4, <1>5 DEF Next, Starting, Handling

\* waitpid finds no child: a command that is not given up has one.
LEMMA NoChildMeansAllGivenUp ==
  ASSUME IInv, LaunchedFirst, NoChild
  PROVE  gaveUp = Commands
  <1>1. pc = "wait" /\ launched = Commands /\ gaveUp \subseteq Commands
    BY DEF NoChild, LaunchedFirst, IInv, GivenUpLaunched
  <1>2. ASSUME NEW c \in Commands, c \notin gaveUp PROVE FALSE
    <2>1. PICK p \in Pids : Tracked(c) = {p}
      BY <1>1, <1>2 DEF IInv, OneEach
    <2>2. children[p] = c /\ c # None
      BY <2>1, MonitorAssumption DEF Tracked
    <2>3. runs[p] = c
      BY <1>1, <2>2 DEF IInv, TracksItsOwn
    <2>4. runs[p] = None
      BY DEF NoChild, Free
    <2> QED
      BY <2>2, <2>3, <2>4
  <1> QED
    BY <1>1, <1>2

LEMMA EndsStep ==
  ASSUME IInv, LaunchedFirst, EndsForAReason, [Next]_vars
  PROVE  EndsForAReason'
  <1>1. CASE NoChild
    BY <1>1, NoChildMeansAllGivenUp DEF NoChild, EndsForAReason
  <1>2. CASE UNCHANGED <<pc, gaveUp>>
    BY <1>2 DEF EndsForAReason
  <1>3. CASE pc' # "ended"
    BY <1>3 DEF EndsForAReason
  <1>4. ASSUME NEW c \in Commands, NEW p \in Pids, Launch(c, p) \/ Relaunch(c, p)
        PROVE  pc' # "ended"
    BY <1>4 DEF Launch, Relaunch
  <1>5. ASSUME NEW c \in Commands, GiveUp(c) PROVE pc' # "ended"
    BY <1>5 DEF GiveUp
  <1>6. ASSUME NEW p \in Pids, Reap(p) PROVE pc' # "ended"
    BY <1>6 DEF Reap
  <1>7. CASE Accept \/ ForkFails \/ Untracked
    BY <1>3, <1>7 DEF Accept, ForkFails, Untracked
  <1>8. ASSUME NEW p \in Pids, Notify(p) \/ Exit(p) \/ HelperStarts(p) \/ HelperReaped(p)
        PROVE  UNCHANGED <<pc, gaveUp>>
    BY <1>8 DEF Notify, Exit, HelperStarts, HelperReaped
  <1>9. CASE Tick \/ UNCHANGED vars
    BY <1>2, <1>9 DEF Tick, vars
  <1> QED
    BY <1>1, <1>2, <1>3, <1>4, <1>5, <1>6, <1>7, <1>8, <1>9 DEF Next, Starting, Handling

\* While pids are not reused at once, Run returns only when every command has been
\* given up: no helper that comes and goes, and no order in which children die
\* and are reaped, ends it early (ProcessMonitor.cpp:95).  A fork that fails while
\* Run relaunches makes it return, too (lines 24 and 136); that end is "failed",
\* not "ended", and is not spoken of here.
THEOREM EndsOnlyWhenAllGivenUp ==
  ASSUME "reuse" \notin Mishaps
  PROVE  Spec => []EndsForAReason
  <1>1. Init => EndInv
    BY InitIInv DEF Init, EndInv, LaunchedFirst, EndsForAReason
  <1>2. EndInv /\ [Next]_vars => EndInv'
    BY StepIInv, LaunchedFirstStep, EndsStep DEF EndInv
  <1>3. EndInv => EndsForAReason
    BY DEF EndInv
  <1> QED
    BY <1>1, <1>2, <1>3, PTL DEF Spec
-----------------------------------------------------------------------------
(* What Run remembers of the exits *)

\* Every set of numbers has a least one; what is shown by induction is shown of
\* the least number for which it would fail.
LEMMA Least ==
  ASSUME NEW T \in SUBSET Nat, T # {}
  PROVE  \E m \in T : \A n \in T : m <= n
  <1> DEFINE R == OpToRel(<, Nat)
  <1>1. IsWellFoundedOn(R, Nat)
    BY NatLessThanWellFounded
  <1>2. \A x, y \in Nat : <<x, y>> \in R <=> x < y
    BY DEF OpToRel
  <1> HIDE DEF R
  <1>3. PICK m \in T : \A n \in T : ~(<<n, m>> \in R)
    BY <1>1, WFMin
  <1>4. m \in Nat /\ \A n \in T : n \in Nat /\ ~(n < m)
    BY <1>2, <1>3
  <1> QED
    BY <1>4

\* f[i] is what remove_if leaves of the first i times.
Left(times, t, g, i) == IF times[i] + Window >= t THEN Append(g, times[i]) ELSE g
Keeps(f, times, t, n) ==
    f = [i \in 0 .. n |-> IF i = 0 THEN <<>> ELSE Left(times, t, f[i - 1], i)]

LEMMA KeptExists ==
  ASSUME NEW times, NEW t, NEW n \in Nat
  PROVE  \E f : Keeps(f, times, t, n)
  <1> DEFINE T == {i \in Nat : \A f : ~Keeps(f, times, t, i)}
  <1> SUFFICES ASSUME T # {} PROVE FALSE
    OBVIOUS
  <1>1. PICK m \in T : \A i \in T : m <= i
    <2> HIDE DEF T
    <2>1. T \in SUBSET Nat
      BY DEF T
    <2> QED
      BY <2>1, Least
  <1>2. m # 0
    <2> DEFINE z == [i \in 0 .. 0 |-> <<>>]
    <2>1. Keeps(z, times, t, 0)
      BY DEF Keeps
    <2> QED
      BY <1>1, <2>1
  <1>3. m - 1 \in Nat /\ m - 1 \notin T
    BY <1>1, <1>2
  <1>4. PICK g : Keeps(g, times, t, m - 1)
    BY <1>3
  <1> DEFINE h == [i \in 0 .. m |-> IF i < m THEN g[i] ELSE Left(times, t, g[m - 1], m)]
  <1>5. /\ g[0] = <<>>
        /\ \A i \in 1 .. m - 1 : g[i] = Left(times, t, g[i - 1], i)
    BY <1>3, <1>4 DEF Keeps
  <1>6. ASSUME NEW i \in 0 .. m
        PROVE  h[i] = IF i = 0 THEN <<>> ELSE Left(times, t, h[i - 1], i)
    <2>1. CASE i = 0
      BY <1>2, <1>5, <2>1
    <2>2. CASE i \in 1 .. m - 1
      <3>1. i - 1 \in 0 .. m /\ i - 1 < m /\ i < m /\ i # 0
        BY <2>2
      <3>2. h[i] = g[i] /\ h[i - 1] = g[i - 1]
        BY <3>1
      <3> QED
        BY <1>5, <2>2, <3>1, <3>2
    <2>3. CASE i = m
      <3>1. m - 1 \in 0 .. m /\ m - 1 < m /\ ~(m < m)
        BY <1>3
      <3>2. h[m] = Left(times, t, g[m - 1], m) /\ h[m - 1] = g[m - 1]
        BY <3>1
      <3> QED
        BY <1>2, <2>3, <3>2
    <2> QED
      BY <1>3, <2>1, <2>2, <2>3
  <1>7. Keeps(h, times, t, m)
    <2> DEFINE u == [i \in 0 .. m |-> IF i = 0 THEN <<>> ELSE Left(times, t, h[i - 1], i)]
    <2>1. \A i \in 0 .. m : u[i] = h[i]
      BY <1>6
    <2>2. u = h
      BY <2>1
    <2> QED
      BY <2>2 DEF Keeps
  <1> QED
    BY <1>1, <1>7

LEMMA RecentKeeps ==
  ASSUME NEW times \in Seq(Nat), NEW t
  PROVE  \E f : /\ Keeps(f, times, t, Len(times))
                /\ Recent(times, t) = Append(f[Len(times)], t)
  <1> DEFINE f == CHOOSE kept : Keeps(kept, times, t, Len(times))
  <1>1. Keeps(f, times, t, Len(times))
    BY KeptExists
  <1>2. Recent(times, t) = Append(f[Len(times)], t)
    BY DEF Recent, Keeps, Left
  <1> QED
    BY <1>1, <1>2

Ordered(times) ==
    \A i, j \in 1 .. Len(times) : i <= j => times[i] <= times[j]

\* The first m times are too old at time t, the others are not.
CutAt(times, t, m) ==
    /\ m \in 0 .. Len(times)
    /\ \A i \in 1 .. m : times[i] + Window < t
    /\ \A i \in m + 1 .. Len(times) : times[i] + Window >= t

LEMMA CutExists ==
  ASSUME NEW times \in Seq(Nat), Ordered(times), NEW t \in Nat
  PROVE  \E m \in 0 .. Len(times) : CutAt(times, t, m)
  <1> DEFINE n == Len(times)
             T == {i \in 0 .. n : \A j \in i + 1 .. n : times[j] + Window >= t}
  <1>1. n \in Nat /\ Window \in Nat /\ \A i \in 1 .. n : times[i] \in Nat
    BY MonitorAssumption
  <1>2. n \in T /\ T \in SUBSET Nat
    BY <1>1
  <1>3. PICK m \in T : \A i \in T : m <= i
    <2> HIDE DEF T
    <2> QED
      BY <1>2, Least
  <1>4. ASSUME NEW i \in 1 .. m PROVE times[i] + Window < t
    <2>1. m \in 1 .. n /\ m - 1 \in 0 .. n /\ m - 1 \notin T
      <3>1. m \in 0 .. n
        BY <1>3
      <3> HIDE DEF T
      <3>2. m - 1 \in T => m <= m - 1
        BY <1>3
      <3> QED
        BY <1>1, <3>1, <3>2
    <2>2. PICK j \in m .. n : ~(times[j] + Window >= t)
      BY <2>1
    <2>3. j = m
      BY <1>3, <2>1, <2>2
    <2>4. times[i] <= times[m] /\ times[i] \in Nat /\ times[m] \in Nat
      BY <1>1, <2>1 DEF Ordered
    <2> QED
      BY <1>1, <2>2, <2>3, <2>4
  <1> QED
    BY <1>3, <1>4 DEF CutAt

LEMMA AppendIs ==
  ASSUME NEW s \in Seq(Nat), NEW e \in Nat
  PROVE  /\ Append(s, e) \in Seq(Nat) /\ Len(Append(s, e)) = Len(s) + 1 /\ Len(s) \in Nat
         /\ Append(s, e)[Len(s) + 1] = e
         /\ \A j \in 1 .. Len(s) : Append(s, e)[j] = s[j]
  OBVIOUS

\* Of times that only grow, those that go come first.
LEMMA KeptIsTheRest ==
  ASSUME NEW times \in Seq(Nat), NEW t \in Nat, NEW m, CutAt(times, t, m),
         NEW f, Keeps(f, times, t, Len(times))
  PROVE  LET g == f[Len(times)]
         IN  /\ g \in Seq(Nat) /\ Len(g) = Len(times) - m
             /\ \A j \in 1 .. Len(g) : g[j] = times[m + j]
  <1> DEFINE n == Len(times)
             P(i) == /\ f[i] \in Seq(Nat)
                     /\ Len(f[i]) = IF i <= m THEN 0 ELSE i - m
                     /\ \A j \in 1 .. Len(f[i]) : f[i][j] = times[m + j]
             T == {i \in 0 .. n : ~P(i)}
  <1>1. n \in Nat /\ m \in 0 .. n /\ Window \in Nat /\ \A i \in 1 .. n : times[i] \in Nat
    BY MonitorAssumption DEF CutAt
  <1>2. /\ f[0] = <<>>
        /\ \A i \in 1 .. n : f[i] = Left(times, t, f[i - 1], i)
    <2>1. \A i \in 0 .. n : f[i] = IF i = 0 THEN <<>> ELSE Left(times, t, f[i - 1], i)
      BY DEF Keeps
    <2> HIDE DEF n
    <2> QED
      BY <1>1, <2>1
  <1>3. T = {}
    <2> SUFFICES ASSUME T # {} PROVE FALSE
      OBVIOUS
    <2>1. PICK i \in T : \A k \in T : i <= k
      <3>1. T \in SUBSET Nat
        BY <1>1
      <3> HIDE DEF T
      <3> QED
        BY <3>1, Least
    <2>2. i # 0
      <3>1. P(0)
        BY <1>1, <1>2
      <3> HIDE DEF P
      <3> QED
        BY <2>1, <3>1
    <2>3. i \in 1 .. n /\ i - 1 \in 0 .. n /\ ~P(i)
      BY <1>1, <2>1, <2>2
    <2>4. P(i - 1)
      <3> HIDE DEF P
      <3>1. i - 1 \notin T
        BY <2>1, <2>3
      <3> QED
        BY <2>3, <3>1
    <2>5. CASE i <= m
      <3>1. i \in 1 .. m
        BY <1>1, <2>3, <2>5
      <3>6. times[i] + Window < t
        BY <3>1 DEF CutAt
      <3>7. ~(times[i] + Window >= t)
        BY <1>1, <2>3, <3>6
      <3>2. f[i] = f[i - 1]
        BY <1>2, <2>3, <3>7 DEF Left
      <3>3. i - 1 <= m
        BY <1>1, <2>3, <2>5
      <3>4. Len(f[i]) = 0 /\ f[i] \in Seq(Nat)
        BY <2>4, <3>2, <3>3
      <3>5. P(i)
        BY <2>5, <3>4
      <3> QED
        BY <2>3, <3>5
    <2>6. CASE i > m
      <3>1. i \in m + 1 .. n
        BY <1>1, <2>3, <2>6
      <3>2. f[i] = Append(f[i - 1], times[i])
        BY <1>2, <2>3, <3>1 DEF Left, CutAt
      <3> DEFINE g == f[i - 1]
      <3>3. /\ g \in Seq(Nat) /\ Len(g) = i - 1 - m
            /\ \A j \in 1 .. Len(g) : g[j] = times[m + j]
        BY <1>1, <2>3, <2>4, <3>1
      <3> HIDE DEF g
      <3>4. times[i] \in Nat
        BY <1>1, <2>3
      <3>5. /\ Append(g, times[i]) \in Seq(Nat)
            /\ Len(Append(g, times[i])) = i - m
            /\ \A j \in 1 .. i - 1 - m : Append(g, times[i])[j] = g[j]
            /\ Append(g, times[i])[i - m] = times[i]
        <4>1. Len(g) + 1 = i - m /\ Len(g) = i - 1 - m
          BY <1>1, <2>3, <3>1, <3>3
        <4>2. /\ Append(g, times[i]) \in Seq(Nat) /\ Len(Append(g, times[i])) = Len(g) + 1
              /\ Append(g, times[i])[Len(g) + 1] = times[i]
              /\ \A j \in 1 .. Len(g) : Append(g, times[i])[j] = g[j]
          BY <3>3, <3>4, AppendIs
        <4> QED
          BY <4>1, <4>2
      <3>6. ASSUME NEW j \in 1 .. i - m PROVE Append(g, times[i])[j] = times[m + j]
        <4>1. CASE j = i - m
          BY <1>1, <2>3, <3>5, <4>1
        <4>2. CASE j # i - m
          <5>1. j \in 1 .. i - 1 - m
            BY <1>1, <2>3, <4>2
          <5> QED
            BY <3>3, <3>5, <5>1
        <4> QED
          BY <4>1, <4>2
      <3>7. f[i] = Append(g, times[i])
        BY <3>2 DEF g
      <3>8. P(i)
        <4>1. Len(f[i]) = i - m /\ f[i] \in Seq(Nat) /\ ~(i <= m)
          BY <1>1, <2>3, <2>6, <3>5, <3>7
        <4>2. \A j \in 1 .. Len(f[i]) : f[i][j] = times[m + j]
          BY <3>6, <3>7, <4>1
        <4> QED
          BY <4>1, <4>2
      <3> QED
        BY <2>3, <3>8
    <2>7. i <= m \/ i > m
      BY <1>1, <2>3
    <2> QED
      BY <2>5, <2>6, <2>7
  <1>4. P(n)
    <2> HIDE DEF P
    <2> QED
      BY <1>1, <1>3
  <1>5. (IF n <= m THEN 0 ELSE n - m) = n - m
    BY <1>1
  <1> QED
    BY <1>4, <1>5

\* Of times that only grow, remove_if takes the first m away and leaves the rest.
LEMMA RecentIsTheRest ==
  ASSUME NEW times \in Seq(Nat), Ordered(times), NEW t \in Nat
  PROVE  \E m \in 0 .. Len(times) :
            /\ CutAt(times, t, m)
            /\ Recent(times, t) \in Seq(Nat)
            /\ Len(Recent(times, t)) = Len(times) - m + 1
            /\ \A j \in 1 .. Len(times) - m : Recent(times, t)[j] = times[m + j]
            /\ Recent(times, t)[Len(times) - m + 1] = t
  <1>1. PICK m \in 0 .. Len(times) : CutAt(times, t, m)
    BY CutExists
  <1>2. PICK f : Keeps(f, times, t, Len(times)) /\ Recent(times, t) = Append(f[Len(times)], t)
    BY RecentKeeps
  <1> DEFINE g == f[Len(times)]
  <1>0. Keeps(f, times, t, Len(times)) /\ CutAt(times, t, m)
    BY <1>1, <1>2
  <1>3. /\ g \in Seq(Nat) /\ Len(g) = Len(times) - m
        /\ \A j \in 1 .. Len(g) : g[j] = times[m + j]
    BY <1>0, KeptIsTheRest
  <1> HIDE DEF g
  <1>4. /\ Append(g, t) \in Seq(Nat) /\ Len(Append(g, t)) = Len(g) + 1
        /\ Append(g, t)[Len(g) + 1] = t
        /\ \A j \in 1 .. Len(g) : Append(g, t)[j] = g[j]
    BY <1>3, AppendIs
  <1>5. Recent(times, t) = Append(g, t)
    BY <1>2 DEF g
  <1> QED
    BY <1>1, <1>3, <1>4, <1>5
-----------------------------------------------------------------------------
(* An exit, and what has been remembered before it *)

\* The kept times are the last of all the exits, and those that are recent at
\* the last exit.
Suffix(all, kept) ==
    /\ Len(kept) <= Len(all)
    /\ \A i \in 1 .. Len(kept) : kept[i] = all[Len(all) - Len(kept) + i]
    /\ Len(all) > 0 => CutAt(all, all[Len(all)], Len(all) - Len(kept))

\* The exits that the i-th ends a stretch of Window seconds with.
Together(all, i) == {j \in 1 .. i : all[j] + Window >= all[i]}

LEMMA AppendOrdered ==
  ASSUME NEW all \in Seq(Nat), Ordered(all), NEW t \in Nat,
         \A i \in 1 .. Len(all) : all[i] <= t
  PROVE  Ordered(Append(all, t)) /\ \A i \in 1 .. Len(Append(all, t)) : Append(all, t)[i] <= t
  <1> DEFINE u == Append(all, t)
  <1>1. /\ Len(u) = Len(all) + 1 /\ Len(all) \in Nat /\ u[Len(all) + 1] = t
        /\ \A j \in 1 .. Len(all) : u[j] = all[j]
    BY AppendIs
  <1> HIDE DEF u
  <1>2. ASSUME NEW i \in 1 .. Len(u) PROVE u[i] <= t
    <2>1. CASE i = Len(all) + 1
      BY <1>1, <2>1
    <2>2. CASE i \in 1 .. Len(all)
      BY <1>1, <2>2
    <2> QED
      BY <1>1, <2>1, <2>2
  <1>3. ASSUME NEW i \in 1 .. Len(u), NEW j \in 1 .. Len(u), i <= j PROVE u[i] <= u[j]
    <2>1. CASE j = Len(all) + 1
      BY <1>1, <1>2, <2>1
    <2>2. CASE j \in 1 .. Len(all)
      <3>1. i \in 1 .. Len(all)
        BY <1>1, <1>3, <2>2
      <3>2. u[i] = all[i] /\ u[j] = all[j] /\ all[i] <= all[j]
        BY <1>1, <1>3, <2>2, <3>1 DEF Ordered
      <3> QED
        BY <3>2
    <2> QED
      BY <1>1, <2>1, <2>2
  <1>4. Ordered(u)
    BY <1>3 DEF Ordered
  <1> QED
    BY <1>2, <1>4 DEF u

LEMMA KeptOrdered ==
  ASSUME NEW all \in Seq(Nat), NEW kept \in Seq(Nat), Ordered(all), Suffix(all, kept)
  PROVE  Ordered(kept)
  <1> DEFINE d == Len(all) - Len(kept)
  <1>1. d \in Nat /\ Len(all) \in Nat /\ Len(kept) \in Nat /\ d + Len(kept) = Len(all)
    BY DEF Suffix
  <1>2. \A i \in 1 .. Len(kept) : kept[i] = all[d + i]
    BY DEF Suffix
  <1> HIDE DEF d
  <1>3. ASSUME NEW i \in 1 .. Len(kept), NEW j \in 1 .. Len(kept), i <= j PROVE kept[i] <= kept[j]
    <2>1. d + i \in 1 .. Len(all) /\ d + j \in 1 .. Len(all) /\ d + i <= d + j
      BY <1>1, <1>3
    <2> QED
      BY <1>2, <2>1 DEF Ordered
  <1> QED
    BY <1>3 DEF Ordered

\* After an exit the kept times are again the last of the exits, and as many as
\* there were in the stretch that this exit ends.
LEMMA ExitRemembered ==
  ASSUME NEW all \in Seq(Nat), NEW kept \in Seq(Nat), NEW t \in Nat,
         Ordered(all), Suffix(all, kept), \A i \in 1 .. Len(all) : all[i] <= t
  PROVE  /\ Recent(kept, t) \in Seq(Nat)
         /\ Suffix(Append(all, t), Recent(kept, t))
         /\ Len(Recent(kept, t)) <= Len(kept) + 1
         /\ Cardinality(Together(Append(all, t), Len(all) + 1)) = Len(Recent(kept, t))
  <1> DEFINE n == Len(all)
             k == Len(kept)
             u == Append(all, t)
             r == Recent(kept, t)
  <1>1. PICK m \in 0 .. k :
            /\ CutAt(kept, t, m)
            /\ r \in Seq(Nat) /\ Len(r) = k - m + 1
            /\ \A j \in 1 .. k - m : r[j] = kept[m + j]
            /\ r[k - m + 1] = t
    BY KeptOrdered, RecentIsTheRest
  <1>2. /\ u \in Seq(Nat) /\ Len(u) = n + 1 /\ n \in Nat /\ u[n + 1] = t
        /\ \A j \in 1 .. n : u[j] = all[j]
    BY AppendIs
  <1>3. n \in Nat /\ k \in Nat /\ k <= n /\ m \in Nat /\ m <= k /\ Window \in Nat
    BY <1>1, MonitorAssumption DEF Suffix
  <1>4. /\ \A i \in 1 .. k : kept[i] = all[n - k + i]
        /\ n > 0 => CutAt(all, all[n], n - k)
    BY DEF Suffix
  <1>5. \A i \in 1 .. n : all[i] \in Nat /\ all[i] <= t
    OBVIOUS
  <1>6. /\ \A i \in 1 .. m : kept[i] + Window < t
        /\ \A i \in m + 1 .. k : kept[i] + Window >= t
    BY <1>1 DEF CutAt
  <1>7. n > 0 => \A i \in 1 .. n - k : all[i] + Window < all[n]
    BY <1>4 DEF CutAt
  <1> DEFINE cut == n - k + m
  <1> HIDE DEF n, k, u, r
  <1>8. cut \in 0 .. n /\ Len(u) - Len(r) = cut /\ Len(r) \in Nat /\ Len(r) <= Len(u)
    BY <1>1, <1>2, <1>3
  <1>9. ASSUME NEW i \in 1 .. cut PROVE u[i] + Window < t
    <2>1. i \in 1 .. n /\ n > 0 /\ n \in 1 .. n
      BY <1>3, <1>8
    <2>2. CASE i \in 1 .. n - k
      <3>1. all[i] + Window < all[n]
        BY <1>7, <2>1, <2>2
      <3>2. all[n] <= t /\ all[n] \in Nat /\ all[i] \in Nat /\ u[i] = all[i]
        BY <1>2, <1>5, <2>1
      <3> QED
        BY <1>3, <3>1, <3>2
    <2>3. CASE i \in n - k + 1 .. cut
      <3>1. i - (n - k) \in 1 .. m /\ i - (n - k) \in 1 .. k /\ n - k + (i - (n - k)) = i
        BY <1>3, <2>3
      <3>2. kept[i - (n - k)] = all[i] /\ kept[i - (n - k)] + Window < t
        BY <1>4, <1>6, <3>1
      <3> QED
        BY <1>2, <2>1, <3>2
    <2> QED
      BY <1>3, <2>2, <2>3
  <1>10. ASSUME NEW i \in cut + 1 .. n + 1 PROVE u[i] + Window >= t
    <2>1. CASE i = n + 1
      BY <1>2, <1>3, <2>1
    <2>2. CASE i \in cut + 1 .. n
      <3>1. /\ i - (n - k) \in m + 1 .. k /\ i - (n - k) \in 1 .. k
            /\ n - k + (i - (n - k)) = i /\ i \in 1 .. n
        BY <1>3, <2>2
      <3>2. kept[i - (n - k)] = all[i] /\ kept[i - (n - k)] + Window >= t
        BY <1>4, <1>6, <3>1
      <3> QED
        BY <1>2, <3>1, <3>2
    <2> QED
      BY <1>3, <1>8, <2>1, <2>2
  <1>11. CutAt(u, u[Len(u)], Len(u) - Len(r))
    <2>1. Len(u) = n + 1 /\ u[Len(u)] = t /\ cut \in 0 .. Len(u)
      BY <1>2, <1>3, <1>8
    <2> HIDE DEF cut
    <2> QED
      BY <1>8, <1>9, <1>10, <2>1 DEF CutAt
  <1>12. ASSUME NEW i \in 1 .. Len(r) PROVE r[i] = u[Len(u) - Len(r) + i]
    <2>1. Len(u) - Len(r) + i = cut + i
      BY <1>8
    <2>2. CASE i = k - m + 1
      <3>1. cut + i = n + 1
        BY <1>3, <2>2
      <3> QED
        BY <1>1, <1>2, <2>1, <2>2, <3>1
    <2>3. CASE i \in 1 .. k - m
      <3>1. m + i \in 1 .. k /\ n - k + (m + i) = cut + i /\ cut + i \in 1 .. n
        BY <1>3, <2>3
      <3>2. r[i] = kept[m + i] /\ kept[m + i] = all[n - k + (m + i)]
        BY <1>1, <1>4, <2>3, <3>1
      <3> QED
        BY <1>2, <2>1, <3>1, <3>2
    <2> QED
      BY <1>1, <1>3, <2>2, <2>3
  <1>13. Suffix(u, r)
    BY <1>8, <1>11, <1>12 DEF Suffix
  <1>14. Together(u, n + 1) = cut + 1 .. n + 1
    <2>1. ASSUME NEW j \in 1 .. n + 1 PROVE u[j] + Window >= u[n + 1] <=> j \in cut + 1 .. n + 1
      <3>1. u[n + 1] = t /\ u[j] \in Nat
        BY <1>2
      <3>2. CASE j \in 1 .. cut
        <4>1. u[j] + Window < t
          BY <1>9, <3>2
        <4>2. j \notin cut + 1 .. n + 1
          BY <1>8, <3>2
        <4> QED
          BY <1>3, <3>1, <4>1, <4>2
      <3>3. CASE j \in cut + 1 .. n + 1
        BY <1>10, <3>1, <3>3
      <3> QED
        BY <1>8, <3>2, <3>3
    <2>2. cut + 1 .. n + 1 \subseteq 1 .. n + 1
      BY <1>8
    <2> HIDE DEF cut
    <2> QED
      BY <2>1, <2>2 DEF Together
  <1>15. Cardinality(cut + 1 .. n + 1) = Len(r)
    <2>1. cut + 1 \in Int /\ n + 1 \in Int /\ ~(cut + 1 > n + 1)
      BY <1>3, <1>8
    <2>2. Cardinality(cut + 1 .. n + 1) = (n + 1) - (cut + 1) + 1
      BY <2>1, FS_Interval
    <2> QED
      BY <1>1, <1>3, <2>2
  <1> QED
    BY <1>1, <1>3, <1>13, <1>14, <1>15 DEF n, k, u, r
-----------------------------------------------------------------------------
(* What Run remembers and whom it gives up, pids reused or not *)

\* With pids that are reused a command may have lost its process, but never has
\* two; what is tracked is launched and not given up.
Sparse ==
    /\ \A p, q \in Pids : children[p] = children[q] /\ children[p] # None => p = q
    /\ \A p \in Pids : children[p] # None => children[p] \in launched \ gaveUp

Types ==
    /\ pc \in {"start", "await", "launch", "wait", "handle", "ended", "failed"}
    /\ notified \in BOOLEAN
    /\ dead \subseteq Pids
    /\ reaped \in Pids \cup {None}
    /\ now \in Times

Remembered ==
    /\ crashes \in [Commands -> Seq(Nat)] /\ exits \in [Commands -> Seq(Nat)]
    /\ \A c \in Commands :
        /\ Ordered(exits[c]) /\ Suffix(exits[c], crashes[c])
        /\ \A i \in 1 .. Len(exits[c]) : exits[c][i] <= now

Judged ==
    \A c \in Commands :
        /\ c \in gaveUp <=> \E i \in 1 .. Len(exits[c]) : Cardinality(Together(exits[c], i)) > MaxCrashes
        /\ c \notin gaveUp => Len(crashes[c]) <= MaxCrashes
        /\ Len(crashes[c]) <= MaxCrashes + 1

ExitInv == Types /\ MapTypes /\ GivenUpLaunched /\ Sparse /\ Remembered /\ Judged

\* Nothing exits, and the clock may go on.
LEMMA NoExit ==
  ASSUME Remembered, Judged, UNCHANGED <<crashes, exits, gaveUp>>,
         now \in Nat, now' \in Nat, now <= now'
  PROVE  Remembered' /\ Judged'
  <1>1. Judged'
    BY DEF Judged
  <1>2. ASSUME NEW c \in Commands, NEW i \in 1 .. Len(exits[c]) PROVE exits[c][i] <= now'
    <2>1. exits[c][i] \in Nat /\ exits[c][i] <= now
      BY DEF Remembered
    <2> QED
      BY <2>1
  <1>3. Remembered'
    BY <1>2 DEF Remembered
  <1> QED
    BY <1>1, <1>3

\* Command c exits, and is given up if its exits are too many.
LEMMA OneExit ==
  ASSUME Types, Remembered, Judged, NEW c \in Commands, c \notin gaveUp, Exited(c),
         now' = now, gaveUp' = IF TooOften(crashes'[c]) THEN gaveUp \cup {c} ELSE gaveUp
  PROVE  Remembered' /\ Judged'
  <1> DEFINE all == exits[c]
             kept == crashes[c]
             u == Append(all, now)
             r == Recent(kept, now)
             n == Len(all)
  <1>1. /\ all \in Seq(Nat) /\ kept \in Seq(Nat) /\ Ordered(all) /\ Suffix(all, kept)
        /\ \A i \in 1 .. n : all[i] <= now
        /\ crashes \in [Commands -> Seq(Nat)] /\ exits \in [Commands -> Seq(Nat)]
    BY DEF Remembered
  <1>2. now \in Nat /\ MaxCrashes \in Nat
    BY MonitorAssumption DEF Types, Times
  <1>3. crashes' = [crashes EXCEPT ![c] = r] /\ exits' = [exits EXCEPT ![c] = u]
    BY DEF Exited
  <1>4. /\ c \in gaveUp <=> \E i \in 1 .. n : Cardinality(Together(all, i)) > MaxCrashes
        /\ Len(kept) <= MaxCrashes
    BY DEF Judged
  <1> HIDE DEF all, kept
  <1>5. Ordered(u) /\ \A i \in 1 .. Len(u) : u[i] <= now
    BY <1>1, <1>2, AppendOrdered
  <1>6. /\ r \in Seq(Nat) /\ Suffix(u, r) /\ Len(r) <= Len(kept) + 1
        /\ Cardinality(Together(u, n + 1)) = Len(r)
    BY <1>1, <1>2, ExitRemembered
  <1>7. /\ u \in Seq(Nat) /\ Len(u) = n + 1 /\ n \in Nat
        /\ \A j \in 1 .. n : u[j] = all[j]
    BY <1>1, <1>2, AppendIs
  <1>8. ASSUME NEW i \in 1 .. n PROVE Together(u, i) = Together(all, i)
    <2>1. \A j \in 1 .. i : u[j] = all[j] /\ u[i] = all[i]
      BY <1>7
    <2> HIDE DEF u
    <2> QED
      BY <2>1 DEF Together
  <1> HIDE DEF u, r, n
  <1>9. /\ crashes'[c] = r /\ exits'[c] = u
        /\ \A d \in Commands : d # c => crashes'[d] = crashes[d] /\ exits'[d] = exits[d]
        /\ crashes' \in [Commands -> Seq(Nat)] /\ exits' \in [Commands -> Seq(Nat)]
    BY <1>1, <1>3, <1>6, <1>7
  <1>10. ASSUME NEW d \in Commands
         PROVE  /\ Ordered(exits'[d]) /\ Suffix(exits'[d], crashes'[d])
                /\ \A i \in 1 .. Len(exits'[d]) : exits'[d][i] <= now
    <2>1. CASE d = c
      BY <1>5, <1>6, <1>9, <2>1
    <2>2. CASE d # c
      BY <1>9, <2>2 DEF Remembered
    <2> QED
      BY <2>1, <2>2
  <1>11. Remembered'
    BY <1>9, <1>10 DEF Remembered
  <1>12. \A i \in 1 .. n : ~(Cardinality(Together(u, i)) > MaxCrashes)
    BY <1>4, <1>8
  <1>13. c \in gaveUp' <=> Len(r) > MaxCrashes
    BY <1>9 DEF TooOften
  <1>14. c \in gaveUp' <=> \E i \in 1 .. n + 1 : Cardinality(Together(u, i)) > MaxCrashes
    BY <1>6, <1>7, <1>12, <1>13
  <1>15. ASSUME NEW d \in Commands
         PROVE  /\ d \in gaveUp' <=> \E i \in 1 .. Len(exits'[d]) :
                                        Cardinality(Together(exits'[d], i)) > MaxCrashes
                /\ d \notin gaveUp' => Len(crashes'[d]) <= MaxCrashes
                /\ Len(crashes'[d]) <= MaxCrashes + 1
    <2>1. CASE d = c
      <3>1. Len(r) \in Nat /\ Len(kept) \in Nat
        BY <1>1, <1>6
      <3> QED
        BY <1>2, <1>4, <1>6, <1>7, <1>9, <1>13, <1>14, <2>1, <3>1
    <2>2. CASE d # c
      <3>1. d \in gaveUp' <=> d \in gaveUp
        BY <2>2
      <3> QED
        BY <1>9, <2>2, <3>1 DEF Judged
    <2> QED
      BY <2>1, <2>2
  <1>16. Judged'
    BY <1>15 DEF Judged
  <1> QED
    BY <1>11, <1>16

LEMMA InitExitInv == Init => ExitInv
  <1> SUFFICES ASSUME Init PROVE ExitInv
    OBVIOUS
  <1>0. 0 \in Times
    BY MonitorAssumption DEF Times
  <1>1. Types /\ MapTypes /\ GivenUpLaunched /\ Sparse
    <2>1. Types
      BY <1>0 DEF Init, Types
    <2>2. MapTypes /\ GivenUpLaunched /\ Sparse
      BY DEF Init, MapTypes, GivenUpLaunched, Sparse
    <2> QED
      BY <2>1, <2>2
  <1>2. \A c \in Commands : crashes[c] = <<>> /\ exits[c] = <<>>
    BY DEF Init
  <1>3. Remembered
    <2>1. crashes \in [Commands -> Seq(Nat)] /\ exits \in [Commands -> Seq(Nat)]
      BY DEF Init
    <2>2. Ordered(<<>>) /\ Suffix(<<>>, <<>>)
      BY DEF Ordered, Suffix
    <2> QED
      BY <1>2, <2>1, <2>2 DEF Remembered
  <1>4. Judged
    <2>1. gaveUp = {} /\ MaxCrashes \in Nat
      BY MonitorAssumption DEF Init
    <2> QED
      BY <1>2, <2>1 DEF Judged
  <1> QED
    BY <1>1, <1>3, <1>4 DEF ExitInv

LEMMA ExitStep ==
  ASSUME ExitInv, [Next]_vars
  PROVE  ExitInv'
  <1> USE DEF ExitInv
  <1>1. now \in Nat /\ MaxTime \in Nat /\ Times = 0 .. MaxTime /\ None \notin Commands
    BY MonitorAssumption DEF Types, Times
  <1>2. ASSUME UNCHANGED <<crashes, exits, gaveUp, now>> PROVE Remembered' /\ Judged'
    BY <1>1, <1>2, NoExit
  <1>3. ASSUME NEW c \in Commands, NEW p \in Pids, Launch(c, p) PROVE ExitInv'
    <2>1. /\ runs' = [runs EXCEPT ![p] = c] /\ children' = [children EXCEPT ![p] = c]
          /\ launched' = launched \cup {c} /\ c \notin launched
          /\ pc' \in {"await", "wait", "launch"}
          /\ UNCHANGED <<notified, dead, reaped, crashes, now, gaveUp, exits>>
      BY <1>3 DEF Launch, LaunchProcess, GivenUpLaunched
    <2>2. Types' /\ MapTypes' /\ GivenUpLaunched'
      BY <2>1 DEF Types, MapTypes, GivenUpLaunched
    <2>3. /\ children'[p] = c /\ c # None
          /\ \A q \in Pids : /\ q # p => children'[q] = children[q]
                             /\ children[q] # c
      BY <1>1, <2>1 DEF MapTypes, Sparse
    <2>4. Sparse'
      BY <2>1, <2>3 DEF Sparse, GivenUpLaunched
    <2> QED
      BY <1>2, <2>1, <2>2, <2>4
  <1>4. ASSUME NEW c \in Commands, GiveUp(c) PROVE ExitInv'
    <2>1. /\ pc = "handle" /\ pc' = "wait" /\ reaped \in Pids /\ children[reaped] = c
          /\ Exited(c) /\ TooOften(crashes'[c]) /\ gaveUp' = gaveUp \cup {c}
          /\ children' = [children EXCEPT ![reaped] = None] /\ reaped' = None
          /\ UNCHANGED <<launched, notified, runs, dead, now>>
      BY <1>4 DEF GiveUp, MapTypes
    <2>2. c \in launched \ gaveUp
      BY <1>1, <2>1 DEF Sparse
    <2>3. Remembered' /\ Judged'
      BY <2>1, <2>2, OneExit
    <2>4. Types' /\ MapTypes' /\ GivenUpLaunched'
      BY <2>1, <2>2 DEF Types, MapTypes, GivenUpLaunched
    <2>5. \A q \in Pids : children'[q] = IF q = reaped THEN None ELSE children[q]
      BY <2>1 DEF MapTypes
    <2>6. Sparse'
      BY <2>1, <2>5 DEF Sparse
    <2> QED
      BY <2>3, <2>4, <2>6
  <1>5. ASSUME NEW c \in Commands, NEW p \in Pids, Relaunch(c, p) PROVE ExitInv'
    <2>1. /\ pc = "handle" /\ pc' = "wait" /\ reaped \in Pids /\ children[reaped] = c
          /\ Exited(c) /\ ~TooOften(crashes'[c])
          /\ runs' = [runs EXCEPT ![p] = c]
          /\ children' = Replace(p, c) /\ reaped' = None
          /\ UNCHANGED <<launched, notified, dead, now, gaveUp>>
      BY <1>5 DEF Relaunch, LaunchProcess, MapTypes
    <2>2. c \in launched \ gaveUp
      BY <1>1, <2>1 DEF Sparse
    <2>3. Remembered' /\ Judged'
      BY <2>1, <2>2, OneExit
    <2>4. /\ children' \in [Pids -> Commands \cup {None}]
          /\ \A q \in Pids : children'[q] = IF q = reaped THEN None
                                            ELSE IF q = p THEN c ELSE children[q]
      BY <2>1 DEF MapTypes, Replace
    <2>5. Types' /\ MapTypes' /\ GivenUpLaunched'
      BY <2>1, <2>4 DEF Types, MapTypes, GivenUpLaunched
    <2>6. Sparse'
      BY <2>1, <2>2, <2>4 DEF Sparse
    <2> QED
      BY <2>3, <2>5, <2>6
  <1>6. ASSUME UNCHANGED <<launched, children, crashes, exits, gaveUp, now>>,
               Types', MapTypes', pc' # "start" \/ pc = "start"
        PROVE  ExitInv'
    BY <1>2, <1>6 DEF GivenUpLaunched, Sparse
  <1>7. ASSUME NEW p \in Pids, Reap(p) PROVE ExitInv'
    <2>1. Types' /\ MapTypes'
      BY <1>7 DEF Reap, Types, MapTypes
    <2> QED
      BY <1>6, <1>7, <2>1 DEF Reap
  <1>8. ASSUME NEW p \in Pids, Notify(p) \/ Exit(p) \/ HelperStarts(p) \/ HelperReaped(p)
        PROVE  ExitInv'
    <2>1. Types' /\ MapTypes'
      BY <1>8 DEF Notify, Exit, HelperStarts, HelperReaped, Types, MapTypes
    <2> QED
      BY <1>6, <1>8, <2>1 DEF Notify, Exit, HelperStarts, HelperReaped
  <1>9. CASE Accept \/ ForkFails \/ NoChild \/ Untracked
    <2>1. Types' /\ MapTypes'
      BY <1>9 DEF Accept, ForkFails, NoChild, Untracked, Types, MapTypes
    <2> QED
      BY <1>6, <1>9, <2>1 DEF Accept, ForkFails, NoChild, Untracked
  <1>10. CASE Tick
    <2>1. /\ now' = now + 1 /\ now' \in Times
          /\ UNCHANGED <<pc, launched, notified, runs, dead, children, reaped, crashes, gaveUp, exits>>
      BY <1>1, <1>10 DEF Tick, Types
    <2>2. Remembered' /\ Judged'
      BY <1>1, <2>1, NoExit
    <2> QED
      BY <2>1, <2>2 DEF Types, MapTypes, GivenUpLaunched, Sparse
  <1>11. CASE UNCHANGED vars
    <2>1. Types' /\ MapTypes'
      BY <1>11 DEF vars, Types, MapTypes
    <2> QED
      BY <1>6, <1>11, <2>1 DEF vars
  <1> QED
    BY <1>3, <1>4, <1>5, <1>7, <1>8, <1>9, <1>10, <1>11 DEF Next, Starting, Handling

LEMMA ExitInvariance == Spec => []ExitInv
  BY InitExitInv, ExitStep, PTL DEF Spec

\* Every variable keeps its type, whatever fails and also when pids are reused:
\* Run remembers at most one exit more than it tolerates, all of them past.
THEOREM MonitorTypes == Spec => []TypeOK
  <1>1. ASSUME ExitInv PROVE TypeOK
    <2>1. ASSUME NEW c \in Commands, NEW i \in DOMAIN crashes[c] PROVE crashes[c][i] \in Times
      <3> DEFINE all == exits[c]
                 kept == crashes[c]
      <3>1. /\ kept \in Seq(Nat) /\ all \in Seq(Nat) /\ Suffix(all, kept)
            /\ \A j \in 1 .. Len(all) : all[j] <= now
            /\ i \in DOMAIN kept
        BY <1>1 DEF ExitInv, Remembered
      <3> HIDE DEF all, kept
      <3>2. i \in 1 .. Len(kept) /\ Len(kept) \in Nat /\ Len(all) \in Nat /\ Len(kept) <= Len(all)
        BY <3>1 DEF Suffix
      <3>3. Len(all) - Len(kept) + i \in 1 .. Len(all)
        BY <3>2
      <3>7. kept[i] = all[Len(all) - Len(kept) + i]
        BY <3>1, <3>2 DEF Suffix
      <3>4. kept[i] \in Nat /\ kept[i] <= now
        BY <3>1, <3>3, <3>7
      <3>5. now \in 0 .. MaxTime /\ MaxTime \in Nat
        BY <1>1, MonitorAssumption DEF ExitInv, Types, Times
      <3>6. kept[i] \in Times
        BY <3>4, <3>5 DEF Times
      <3> QED
        BY <3>6 DEF kept
    <2>2. \A c \in Commands : Len(crashes[c]) <= MaxCrashes + 1
      BY <1>1 DEF ExitInv, Judged
    <2>3. DOMAIN crashes = Commands
      BY <1>1 DEF ExitInv, Remembered
    <2> QED
      BY <1>1, <2>1, <2>2, <2>3 DEF ExitInv, Types, MapTypes, GivenUpLaunched, TypeOK
  <1> QED
    BY <1>1, ExitInvariance, PTL

\* However many commands there are, whatever the limits and in whatever order
\* they exit: one is given up exactly when some stretch of Window seconds has
\* seen too many of its exits, although Run forgets those that are too old
\* (ProcessMonitor.cpp:117), and also when pids are reused.
THEOREM GivenUpExactly == Spec => []GiveUpIsExact
  <1>1. ASSUME ExitInv PROVE GiveUpIsExact
    <2>1. ASSUME NEW c \in Commands PROVE DOMAIN exits[c] = 1 .. Len(exits[c])
      BY <1>1 DEF ExitInv, Remembered
    <2> QED
      BY <1>1, <2>1 DEF ExitInv, Judged, Together, GiveUpIsExact
  <1> QED
    BY <1>1, ExitInvariance, PTL
=============================================================================
