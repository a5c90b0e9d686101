--------------------------- MODULE ChannelCallback ---------------------------
(***************************************************************************)
(* The threads of WSLDVCCallback.cpp: OnDataReceived on the receivers of   *)
(* the remote desktop client and OnClose on another thread of it.  Both    *)
(* take m_crit; m_bChannelClosed is a plain bool that OnClose writes       *)
(* before it takes the lock and that OnDataReceived also reads without it. *)
(* What a handler does to the disk and the databases is AppListClient.     *)
(***************************************************************************)
EXTENDS Naturals

CONSTANTS
    Receivers,  \* threads that call OnDataReceived
    Closer,     \* the thread that calls OnClose
    NoOne,      \* holder of m_crit when it is free
    MaxPdus     \* messages in one buffer

ASSUME ThreadAssumption ==
    /\ Closer \notin Receivers
    /\ NoOne \notin Receivers \cup {Closer}
    /\ MaxPdus \in Nat

VARIABLES
    pc,         \* where each receiver is in OnDataReceived
    left,       \* messages each receiver has still to read from its buffer
    kind,       \* the command of the message each receiver has read last
    closerPc,   \* where the closer is in OnClose
    lock,       \* holder of m_crit
    closed,     \* m_bChannelClosed, as the closer has written it
    visible,    \* that write is visible to every thread
    db,         \* m_spFileDB is not null
    handshake   \* m_handShakeComplated

vars == <<pc, left, kind, closerPc, lock, closed, visible, db, handshake>>

Kinds == {"caps", "message", "ignored", "bad"}

TypeOK ==
    /\ pc \in [Receivers -> {"idle", "check", "enter", "loop", "handle", "leave"}]
    /\ left \in [Receivers -> 0 .. MaxPdus]
    /\ kind \in [Receivers -> Kinds]
    /\ closerPc \in {"idle", "waiting", "inside", "cleared", "done"}
    /\ lock \in Receivers \cup {Closer, NoOne}
    /\ closed \in BOOLEAN
    /\ visible \in BOOLEAN
    /\ db \in BOOLEAN
    /\ handshake \in BOOLEAN

\* RuntimeClassInitialize has made the lock and the database.
Init ==
    /\ pc = [r \in Receivers |-> "idle"]
    /\ left = [r \in Receivers |-> 0]
    /\ kind = [r \in Receivers |-> "bad"]
    /\ closerPc = "idle"
    /\ lock = NoOne
    /\ closed = FALSE
    /\ visible = FALSE
    /\ db = TRUE
    /\ handshake = FALSE

\* What a receiver may read from m_bChannelClosed: a write that races with the
\* read may or may not be seen; m_crit makes it seen after OnClose has left.
SeesClosed == closed
SeesOpen   == ~visible
-----------------------------------------------------------------------------
(* OnDataReceived *)

Goto(r, label) == pc' = [pc EXCEPT ![r] = label]

Call(r) ==
    /\ pc[r] = "idle"
    /\ \E n \in 0 .. MaxPdus : left' = [left EXCEPT ![r] = n]
    /\ Goto(r, "check")
    /\ UNCHANGED <<kind, closerPc, lock, closed, visible, db, handshake>>

\* The first test of the flag, without the lock.
Check(r) ==
    /\ pc[r] = "check"
    /\ \/ SeesClosed /\ Goto(r, "idle")
       \/ SeesOpen /\ Goto(r, "enter")
    /\ UNCHANGED <<left, kind, closerPc, lock, closed, visible, db, handshake>>

Enter(r) ==
    /\ pc[r] = "enter"
    /\ lock = NoOne
    /\ lock' = r
    /\ Goto(r, "loop")
    /\ UNCHANGED <<left, kind, closerPc, closed, visible, db, handshake>>

\* The while loop ends: the buffer is used up or the channel is closed.
EndLoop(r) ==
    /\ pc[r] = "loop"
    /\ left[r] = 0 \/ SeesClosed
    /\ Goto(r, "leave")
    /\ UNCHANGED <<left, kind, closerPc, lock, closed, visible, db, handshake>>

\* Mutated form: any command that is known is handled.
DispatchAnything(command) ==
    IF command = "bad" THEN "leave" ELSE IF command = "ignored" THEN "loop" ELSE "handle"

\* Where the header of a message leads: to a handler, to the next message (the
\* command that removes a provider does nothing), or out of the loop.
Dispatch(command) ==
    IF command = "caps" THEN "handle"
    ELSE IF ~handshake \/ command = "bad" THEN "leave"
    ELSE IF command = "ignored" THEN "loop"
    ELSE "handle"

\* Mutated form: the loop tests only the length of the buffer.
ReadRegardless(r) ==
    /\ pc[r] = "loop"
    /\ left[r] > 0
    /\ left' = [left EXCEPT ![r] = @ - 1]
    /\ \E command \in Kinds :
        /\ kind' = [kind EXCEPT ![r] = command]
        /\ Goto(r, Dispatch(command))
    /\ UNCHANGED <<closerPc, lock, closed, visible, db, handshake>>

\* Mutated form: the loop tests only the flag.
ReadPastTheEnd(r) ==
    /\ pc[r] = "loop"
    /\ SeesOpen
    /\ left' = [left EXCEPT ![r] = @ - 1]
    /\ \E command \in Kinds :
        /\ kind' = [kind EXCEPT ![r] = command]
        /\ Goto(r, Dispatch(command))
    /\ UNCHANGED <<closerPc, lock, closed, visible, db, handshake>>

Read(r) ==
    /\ pc[r] = "loop"
    /\ left[r] > 0
    /\ SeesOpen
    /\ left' = [left EXCEPT ![r] = @ - 1]
    /\ \E command \in Kinds :
        /\ kind' = [kind EXCEPT ![r] = command]
        /\ Goto(r, Dispatch(command))
    /\ UNCHANGED <<closerPc, lock, closed, visible, db, handshake>>

\* The handler returns: a failure ends the loop, and capabilities that fail
\* before the last line of OnCaps leave the flag as it was.
Handle(r) ==
    /\ pc[r] = "handle"
    /\ \/ /\ Goto(r, "loop")
          /\ handshake' = (handshake \/ kind[r] = "caps")
       \/ /\ Goto(r, "leave")
          /\ handshake' \in IF kind[r] = "caps" THEN {handshake, FALSE} ELSE {handshake}
    /\ UNCHANGED <<left, kind, closerPc, lock, closed, visible, db>>

\* Mutated form: OnDataReceived returns with the lock held.
LeaveLocked(r) ==
    /\ pc[r] = "leave"
    /\ Goto(r, "idle")
    /\ UNCHANGED <<left, kind, closerPc, lock, closed, visible, db, handshake>>

Leave(r) ==
    /\ pc[r] = "leave"
    /\ lock' = NoOne
    /\ Goto(r, "idle")
    /\ UNCHANGED <<left, kind, closerPc, closed, visible, db, handshake>>
-----------------------------------------------------------------------------
(* OnClose *)

\* Mutated form: the flag is not set before the lock is taken.
CloseCallSilent ==
    /\ closerPc = "idle"
    /\ closerPc' = "waiting"
    /\ UNCHANGED <<pc, left, kind, lock, closed, visible, db, handshake>>

CloseCall ==
    /\ closerPc = "idle"
    /\ closerPc' = "waiting"
    /\ closed' = TRUE
    /\ UNCHANGED <<pc, left, kind, lock, visible, db, handshake>>

\* The hardware shows the write to the other threads in its own time.
Publish ==
    /\ closed
    /\ ~visible
    /\ visible' = TRUE
    /\ UNCHANGED <<pc, left, kind, closerPc, lock, closed, db, handshake>>

CloseEnter ==
    /\ closerPc = "waiting"
    /\ lock = NoOne
    /\ lock' = Closer
    /\ closerPc' = "inside"
    /\ UNCHANGED <<pc, left, kind, closed, visible, db, handshake>>

CloseBody ==
    /\ closerPc = "inside"
    /\ db' = FALSE
    /\ closerPc' = "cleared"
    /\ UNCHANGED <<pc, left, kind, lock, closed, visible, handshake>>

CloseLeave ==
    /\ closerPc = "cleared"
    /\ lock' = NoOne
    /\ visible' = TRUE
    /\ closerPc' = "done"
    /\ UNCHANGED <<pc, left, kind, closed, db, handshake>>
-----------------------------------------------------------------------------
Inside(r) == Check(r) \/ Enter(r) \/ EndLoop(r) \/ Read(r) \/ Handle(r) \/ Leave(r)
Closing   == CloseEnter \/ CloseBody \/ CloseLeave

Next ==
    \/ \E r \in Receivers : Call(r) \/ Inside(r)
    \/ CloseCall
    \/ Closing
    \/ Publish

\* A thread that can go on goes on, and a write gets out in the end.  m_crit is
\* not a fair lock, and nothing makes the client call again or close.
Fairness ==
    /\ \A r \in Receivers : WF_vars(Inside(r))
    /\ WF_vars(Closing)
    /\ WF_vars(Publish)

Spec     == Init /\ [][Next]_vars
FairSpec == Spec /\ Fairness
-----------------------------------------------------------------------------
(* Properties *)

\* A handler uses m_spFileDB without a test: OnClose must not have cleared it
\* (WSLDVCCallback.cpp:1093), also when the handler's thread tested the flag
\* before the channel was closed and got the lock after.
NoNullDatabase == \A r \in Receivers : pc[r] = "handle" => db

\* The threads keep to the serial channel that AppListClient models.
Serial == INSTANCE SerialChannel WITH
    open  <- db,
    doing <- [r \in Receivers |-> IF pc[r] = "handle" THEN kind[r] ELSE "nothing"]
SerialSpec == Serial!Spec

\* OnClose gets the lock although receivers may be called again and again: it
\* sets the flag before it waits (WSLDVCCallback.cpp:1085).
CloseReturns == closerPc = "waiting" ~> closerPc = "done"

\* Once the channel is being closed every call of OnDataReceived returns,
\* whatever is left in its buffer.
CallsReturn == \A r \in Receivers : closed /\ pc[r] # "idle" ~> pc[r] = "idle"
=============================================================================
