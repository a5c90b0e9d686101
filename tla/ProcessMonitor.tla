---------------------------- MODULE ProcessMonitor ----------------------------
(***************************************************************************)
(* WSLGd keeps the processes of the graphics stack alive                   *)
(* (WSLGd/ProcessMonitor.cpp): main launches the compositor, waits until   *)
(* it says it is ready, launches the rest and then reaps and relaunches    *)
(* children for ever, a command that exits too often excepted.  A pid      *)
(* stays taken by a dead process until it is reaped, and may be given to   *)
(* another process as soon as it is.  A command stands for argv, its       *)
(* capabilities and environment, and for the string that crashes counts by.*)
(***************************************************************************)
EXTENDS Naturals, Sequences, FiniteSets

CONSTANTS
    Commands,    \* what main launches
    Compositor,  \* the one it launches first and waits for
    Pids,        \* process ids in the group of WSLGd
    Helper,      \* a child that nobody tracks
    None,
    MaxCrashes,  \* 10 in the code
    Window,      \* 60 seconds in the code
    MaxTime,     \* bound: the clock stops here
    Mishaps      \* what may happen around WSLGd, see MishapKinds

\* early: the compositor dies before it is ready; fork: fork fails; helper: the
\* font monitor's child is in the group for a moment (FontMonitor.cpp:53-60);
\* reuse: the kernel's next free pid may be the one that was reaped last.
MishapKinds == {"early", "fork", "helper", "reuse"}

ASSUME MonitorAssumption ==
    /\ Compositor \in Commands
    /\ Helper \notin Commands
    /\ None \notin Commands \cup Pids \cup {Helper}
    /\ {MaxCrashes, Window, MaxTime} \subseteq Nat
    /\ Mishaps \subseteq MishapKinds

\* Pids do not run out: each command, one helper and the pid reaped last.
ASSUME EnoughPids ==
    /\ IsFiniteSet(Pids)
    /\ Cardinality(Pids) >= Cardinality(Commands) + 2

VARIABLES
    pc,        \* where main and Run are
    launched,  \* the commands main has launched
    notified,  \* the compositor has connected to the notify socket
    runs,      \* what each pid runs, also when it has died
    dead,      \* pids that have died and are not reaped
    children,  \* m_children: the command each tracked pid was launched for
    reaped,    \* the pid that waitpid returned, while Run handles it
    crashes,   \* the times that Run remembers of each command
    now,       \* time(nullptr)
    gaveUp,    \* commands that are not started again
    exits      \* history: when Run saw each command exit

vars == <<pc, launched, notified, runs, dead, children, reaped, crashes, now, gaveUp, exits>>

Times == 0 .. MaxTime

TypeOK ==
    /\ pc \in {"start", "await", "launch", "wait", "handle", "ended", "failed"}
    /\ launched \subseteq Commands
    /\ notified \in BOOLEAN
    /\ runs \in [Pids -> Commands \cup {Helper, None}]
    /\ dead \subseteq Pids
    /\ children \in [Pids -> Commands \cup {None}]
    /\ reaped \in Pids \cup {None}
    /\ DOMAIN crashes = Commands
    /\ \A c \in Commands :
        /\ Len(crashes[c]) <= MaxCrashes + 1
        /\ \A i \in DOMAIN crashes[c] : crashes[c][i] \in Times
    /\ now \in Times
    /\ gaveUp \subseteq launched

Init ==
    /\ pc = "start"
    /\ launched = {}
    /\ notified = FALSE
    /\ runs = [p \in Pids |-> None]
    /\ dead = {}
    /\ children = [p \in Pids |-> None]
    /\ reaped = None
    /\ crashes = [c \in Commands |-> <<>>]
    /\ now = 0
    /\ gaveUp = {}
    /\ exits = [c \in Commands |-> <<>>]

Free == {p \in Pids : runs[p] = None}
-----------------------------------------------------------------------------
(* main launches the commands, in an order that does not matter here. *)

\* LaunchProcess: fork and remember the child.  A child that cannot become the
\* command exits (_exit(1)), like any other exit.
LaunchProcess(c, p) ==
    /\ p \in Free
    /\ runs' = [runs EXCEPT ![p] = c]

Launch(c, p) ==
    /\ \/ pc = "start" /\ c = Compositor
       \/ pc = "launch" /\ c \notin launched
    /\ LaunchProcess(c, p)
    /\ children' = [children EXCEPT ![p] = c]
    /\ launched' = launched \cup {c}
    /\ pc' = IF pc = "start" THEN "await"
             ELSE IF launched' = Commands THEN "wait" ELSE "launch"
    /\ UNCHANGED <<notified, dead, reaped, crashes, now, gaveUp, exits>>

\* WaitForReadyNotify: accept returns when the compositor has connected.
Accept ==
    /\ pc = "await"
    /\ notified
    /\ pc' = IF launched = Commands THEN "wait" ELSE "launch"
    /\ UNCHANGED <<launched, notified, runs, dead, children, reaped, crashes, now, gaveUp, exits>>

\* A launch whose fork fails, from main or from Run, ends WSLGd.
ForkFails ==
    /\ "fork" \in Mishaps
    /\ \/ pc \in {"start", "launch"}
       \/ pc = "handle" /\ children[reaped] # None
    /\ pc' = "failed"
    /\ UNCHANGED <<launched, notified, runs, dead, children, reaped, crashes, now, gaveUp, exits>>
-----------------------------------------------------------------------------
(* Run *)

\* Mutated form: waits for the child that was launched first.
ReapCompositor(p) ==
    /\ pc = "wait"
    /\ p \in dead
    /\ runs[p] = Compositor
    /\ dead' = dead \ {p}
    /\ runs' = [runs EXCEPT ![p] = None]
    /\ reaped' = p
    /\ pc' = "handle"
    /\ UNCHANGED <<launched, notified, children, crashes, now, gaveUp, exits>>

\* waitpid(0, ...) returns a dead child of the group, and its pid is free.
Reap(p) ==
    /\ pc = "wait"
    /\ p \in dead
    /\ dead' = dead \ {p}
    /\ runs' = [runs EXCEPT ![p] = None]
    /\ reaped' = p
    /\ pc' = "handle"
    /\ UNCHANGED <<launched, notified, children, crashes, now, gaveUp, exits>>

\* waitpid fails when there is no child, and Run returns.
NoChild ==
    /\ pc = "wait"
    /\ Free = Pids
    /\ pc' = "ended"
    /\ UNCHANGED <<launched, notified, runs, dead, children, reaped, crashes, now, gaveUp, exits>>

\* Mutated forms: an exit on the edge of the window is forgotten; the count of
\* exits is never looked at.
RecentShort(times, t) == Append(SelectSeq(times, LAMBDA ts : ts + Window > t), t)
NeverTooOften(times)  == FALSE

\* remove_if, erase and emplace_back: the times kept of a command that exits at
\* time t; kept[n] are those of the first n.
Recent(times, t) ==
    LET kept[n \in 0 .. Len(times)] ==
            IF n = 0 THEN <<>>
            ELSE IF times[n] + Window >= t THEN Append(kept[n - 1], times[n])
            ELSE kept[n - 1]
    IN  Append(kept[Len(times)], t)
TooOften(times)  == Len(times) > MaxCrashes

Exited(c) ==
    /\ crashes' = [crashes EXCEPT ![c] = Recent(@, now)]
    /\ exits' = [exits EXCEPT ![c] = Append(@, now)]

\* Mutated forms: the old child is not erased; the new one is not added.
ReplaceKeepsOld(p, c) == [children EXCEPT ![p] = c]
ReplaceForgets(p, c)  == [children EXCEPT ![reaped] = None]

\* m_children after the new child is added, the old one, found before, is erased.
Replace(p, c) == [[children EXCEPT ![p] = c] EXCEPT ![reaped] = None]

Untracked ==
    /\ pc = "handle"
    /\ children[reaped] = None
    /\ reaped' = None
    /\ pc' = "wait"
    /\ UNCHANGED <<launched, notified, runs, dead, children, crashes, now, gaveUp, exits>>

GiveUp(c) ==
    /\ pc = "handle"
    /\ children[reaped] = c
    /\ Exited(c)
    /\ TooOften(crashes'[c])
    /\ gaveUp' = gaveUp \cup {c}
    /\ children' = [children EXCEPT ![reaped] = None]
    /\ reaped' = None
    /\ pc' = "wait"
    /\ UNCHANGED <<launched, notified, runs, dead, now>>

Relaunch(c, p) ==
    /\ pc = "handle"
    /\ children[reaped] = c
    /\ Exited(c)
    /\ ~TooOften(crashes'[c])
    /\ p = reaped => "reuse" \in Mishaps
    /\ LaunchProcess(c, p)
    /\ children' = Replace(p, c)
    /\ reaped' = None
    /\ pc' = "wait"
    /\ UNCHANGED <<launched, notified, dead, now, gaveUp>>
-----------------------------------------------------------------------------
(* The processes and the clock, as long as WSLGd is there to see *)

Alive == pc \notin {"ended", "failed"}
Lives(p) == runs[p] # None /\ p \notin dead

Notify(p) ==
    /\ Lives(p) /\ runs[p] = Compositor
    /\ ~notified
    /\ notified' = TRUE
    /\ UNCHANGED <<pc, launched, runs, dead, children, reaped, crashes, now, gaveUp, exits>>

Exit(p) ==
    /\ Alive
    /\ Lives(p)
    /\ runs[p] = Compositor /\ ~notified => "early" \in Mishaps
    /\ dead' = dead \cup {p}
    /\ UNCHANGED <<pc, launched, notified, runs, children, reaped, crashes, now, gaveUp, exits>>

\* The font monitor, started when the compositor is ready, runs one helper at a
\* time and reaps it; one that leaves the group in time is not seen here.
HelperStarts(p) ==
    /\ pc \in {"launch", "wait", "handle"}
    /\ "helper" \in Mishaps
    /\ \A q \in Pids : runs[q] # Helper
    /\ p \in Free
    /\ runs' = [runs EXCEPT ![p] = Helper]
    /\ UNCHANGED <<pc, launched, notified, dead, children, reaped, crashes, now, gaveUp, exits>>

HelperReaped(p) ==
    /\ Alive
    /\ runs[p] = Helper
    /\ p \in dead
    /\ runs' = [runs EXCEPT ![p] = None]
    /\ dead' = dead \ {p}
    /\ UNCHANGED <<pc, launched, notified, children, reaped, crashes, now, gaveUp, exits>>

Tick ==
    /\ Alive
    /\ now < MaxTime
    /\ now' = now + 1
    /\ UNCHANGED <<pc, launched, notified, runs, dead, children, reaped, crashes, gaveUp, exits>>
-----------------------------------------------------------------------------
Starting == Accept \/ \E c \in Commands, p \in Pids : Launch(c, p)
Handling == Untracked \/ \E c \in Commands : GiveUp(c) \/ \E p \in Pids : Relaunch(c, p)

Next ==
    \/ Starting
    \/ ForkFails
    \/ NoChild
    \/ Handling
    \/ \E p \in Pids : Reap(p) \/ Notify(p) \/ Exit(p) \/ HelperStarts(p) \/ HelperReaped(p)
    \/ Tick

\* WSLGd's only thread goes on when it can; waitpid looks at the oldest children
\* first, so that one that stays dead is returned; a compositor that lives says
\* that it is ready in the end.  Nobody has to exit.
Fairness ==
    /\ WF_vars(Starting)
    /\ WF_vars(Handling)
    /\ WF_vars(NoChild)
    /\ \A p \in Pids : SF_vars(Reap(p)) /\ WF_vars(Notify(p))

Spec     == Init /\ [][Next]_vars
FairSpec == Spec /\ Fairness
-----------------------------------------------------------------------------
(* Properties *)

\* A command is given up when, and only when, some stretch of Window seconds saw
\* more than MaxCrashes exits of it, whatever Run has forgotten since (the log
\* of ProcessMonitor.cpp:121).
GiveUpIsExact ==
    \A c \in Commands :
        c \in gaveUp <=>
            \E i \in DOMAIN exits[c] :
                Cardinality({j \in 1 .. i : exits[c][j] + Window >= exits[c][i]}) > MaxCrashes

Tracked(c) == {p \in Pids : children[p] = c}

\* While Run waits it tracks exactly one process for every command it has not
\* given up, none for the others, and the process it tracks runs that command:
\* the exit of anything else can restart nothing.
Supervised ==
    pc = "wait" =>
        /\ \A c \in launched :
            IF c \in gaveUp THEN Tracked(c) = {} ELSE \E p \in Pids : Tracked(c) = {p}
        /\ \A p \in Pids : children[p] # None => runs[p] = children[p]

\* waitpid finds no child, so that Run returns, only when Run has given everything
\* up ("monitors these processes and if they exit by error [...] restarts them",
\* README.md:146).  Excepted is a fork that fails while Run relaunches
\* (ProcessMonitor.cpp:24, caught at :136), which also makes Run return: pc is
\* "failed" then, and some commands are not given up.
EndsForAReason == pc = "ended" => gaveUp = Commands

\* A tracked process that has died is followed by a live one, unless its command
\* is given up or WSLGd fails to fork.
Relaunched ==
    \A c \in Commands :
        (\E p \in dead : children[p] = c) ~>
            \/ c \in gaveUp
            \/ pc = "failed"
            \/ \E p \in Pids : children[p] = c /\ Lives(p)
=============================================================================
