------------------------ MODULE ChannelCallbackProofs ------------------------
(***************************************************************************)
(* For any number of receivers and any length of buffer: no handler meets  *)
(* a null database, and the threads implement the serial channel.          *)
(***************************************************************************)
EXTENDS ChannelCallback, TLAPS

\* m_crit is held exactly where the code is between its Enter and its Leave.
LockDiscipline ==
    /\ \A r \in Receivers : pc[r] \in {"loop", "handle", "leave"} <=> lock = r
    /\ closerPc \in {"inside", "cleared"} <=> lock = Closer

\* How far OnClose is decides about the database, and a closer that has left the
\* lock has shown its flag to everyone.
CloseProgress ==
    /\ db <=> closerPc \notin {"cleared", "done"}
    /\ closerPc = "done" => visible

IInv == TypeOK /\ LockDiscipline /\ CloseProgress /\ NoNullDatabase

doing == [r \in Receivers |-> IF pc[r] = "handle" THEN kind[r] ELSE "nothing"]

LEMMA InitIInv == Init => IInv
  <1> SUFFICES ASSUME Init PROVE IInv
    OBVIOUS
  <1>1. TypeOK
    <2>1. 0 \in 0 .. MaxPdus
      BY ThreadAssumption
    <2>2. /\ pc \in [Receivers -> {"idle", "check", "enter", "loop", "handle", "leave"}]
          /\ kind \in [Receivers -> Kinds]
      BY DEF Init, Kinds
    <2>3. left \in [Receivers -> 0 .. MaxPdus]
      BY <2>1 DEF Init
    <2> QED
      BY <2>2, <2>3 DEF Init, TypeOK
  <1>2. LockDiscipline
    BY ThreadAssumption DEF Init, LockDiscipline
  <1>3. CloseProgress /\ NoNullDatabase
    BY DEF Init, CloseProgress, NoNullDatabase
  <1> QED
    BY <1>1, <1>2, <1>3 DEF IInv

\* Reading a message, the longest of the steps.
LEMMA ReadTypes ==
  ASSUME TypeOK, NEW r \in Receivers, Read(r)
  PROVE  /\ left' \in [Receivers -> 0 .. MaxPdus]
         /\ kind' \in [Receivers -> Kinds]
         /\ pc' = [pc EXCEPT ![r] = Dispatch(kind'[r])]
         /\ Dispatch(kind'[r]) \in {"loop", "handle", "leave"}
  <1>1. PICK command \in Kinds : /\ kind' = [kind EXCEPT ![r] = command]
                                 /\ Goto(r, Dispatch(command))
    BY DEF Read
  <1>2. /\ kind' \in [Receivers -> Kinds]
        /\ kind'[r] = command
    BY <1>1 DEF TypeOK
  <1>3. /\ left[r] \in 0 .. MaxPdus
        /\ left[r] > 0
        /\ left' = [left EXCEPT ![r] = left[r] - 1]
    BY DEF Read, TypeOK
  <1>4. left[r] - 1 \in 0 .. MaxPdus
    BY <1>3, ThreadAssumption
  <1>5. left' \in [Receivers -> 0 .. MaxPdus]
    BY <1>3, <1>4 DEF TypeOK
  <1> QED
    BY <1>1, <1>2, <1>5 DEF Goto, Dispatch

LEMMA StepIInv == IInv /\ [Next]_vars => IInv'
  <1> SUFFICES ASSUME IInv, [Next]_vars PROVE IInv'
    OBVIOUS
  <1> USE DEF IInv, TypeOK, LockDiscipline, CloseProgress, NoNullDatabase, Goto
  <1>1. ASSUME NEW r \in Receivers, Call(r) PROVE IInv'
    BY <1>1 DEF Call
  <1>2. ASSUME NEW r \in Receivers, Check(r) PROVE IInv'
    BY <1>2 DEF Check
  <1>3. ASSUME NEW r \in Receivers, Enter(r) PROVE IInv'
    BY <1>3, ThreadAssumption DEF Enter
  <1>4. ASSUME NEW r \in Receivers, EndLoop(r) PROVE IInv'
    BY <1>4 DEF EndLoop
  <1>5. ASSUME NEW r \in Receivers, Read(r) PROVE IInv'
    <2>1. /\ left' \in [Receivers -> 0 .. MaxPdus]
          /\ kind' \in [Receivers -> Kinds]
          /\ pc' = [pc EXCEPT ![r] = Dispatch(kind'[r])]
          /\ Dispatch(kind'[r]) \in {"loop", "handle", "leave"}
      BY <1>5, ReadTypes
    <2>2. /\ pc[r] = "loop"
          /\ ~visible
          /\ UNCHANGED <<closerPc, lock, closed, visible, db, handshake>>
      BY <1>5 DEF Read, SeesOpen
    <2>3. db
      BY <2>2, ThreadAssumption
    <2>4. TypeOK'
      BY <2>1, <2>2
    <2>5. LockDiscipline' /\ CloseProgress' /\ NoNullDatabase'
      BY <2>1, <2>2, <2>3
    <2> QED
      BY <2>4, <2>5
  <1>6. ASSUME NEW r \in Receivers, Handle(r) PROVE IInv'
    BY <1>6 DEF Handle
  <1>7. ASSUME NEW r \in Receivers, Leave(r) PROVE IInv'
    BY <1>7, ThreadAssumption DEF Leave
  <1>8. CASE CloseCall
    BY <1>8 DEF CloseCall
  <1>9. CASE CloseEnter
    BY <1>9, ThreadAssumption DEF CloseEnter
  <1>10. CASE CloseBody
    BY <1>10, ThreadAssumption DEF CloseBody
  <1>11. CASE CloseLeave
    BY <1>11, ThreadAssumption DEF CloseLeave
  <1>12. CASE Publish
    BY <1>12 DEF Publish
  <1>13. CASE UNCHANGED vars
    BY <1>13 DEF vars
  <1> QED
    BY <1>1, <1>2, <1>3, <1>4, <1>5, <1>6, <1>7, <1>8, <1>9, <1>10, <1>11, <1>12, <1>13
       DEF Next, Inside, Closing

\* The type invariant holds for any number of threads.
THEOREM ChannelTypes == Spec => []TypeOK
  <1>1. IInv => TypeOK
    BY DEF IInv
  <1> QED
    BY <1>1, InitIInv, StepIInv, PTL DEF Spec

\* No handler runs on a database that OnClose has cleared: who is in a handler
\* holds m_crit and has read the flag under it.
THEOREM HandlersHaveDatabase == Spec => []NoNullDatabase
  <1>1. IInv => NoNullDatabase
    BY DEF IInv
  <1> QED
    BY <1>1, InitIInv, StepIInv, PTL DEF Spec

-----------------------------------------------------------------------------
(* The refinement *)


LEMMA InitSerial == Init => Serial!Init
  BY DEF Init, Serial!Init

\* A step that leaves the handlers, the database and the handshake alone.
LEMMA QuietStep ==
  ASSUME UNCHANGED <<kind, db, handshake>>,
         \A s \in Receivers : pc'[s] = "handle" <=> pc[s] = "handle"
  PROVE  UNCHANGED Serial!vars
  BY DEF Serial!vars

LEMMA StepSerial == IInv /\ [Next]_vars => [Serial!Next]_(Serial!vars)
  <1> SUFFICES ASSUME IInv, [Next]_vars PROVE Serial!Next \/ UNCHANGED Serial!vars
    OBVIOUS
  <1>t. TypeOK
    BY DEF IInv
  <1>1. ASSUME NEW r \in Receivers, Call(r) \/ Check(r) \/ Enter(r) \/ EndLoop(r) \/ Leave(r)
        PROVE  UNCHANGED Serial!vars
    <2>1. UNCHANGED <<kind, db, handshake>>
      BY <1>1 DEF Call, Check, Enter, EndLoop, Leave
    <2>2. \A s \in Receivers : pc'[s] = "handle" <=> pc[s] = "handle"
      BY <1>1, <1>t DEF Call, Check, Enter, EndLoop, Leave, Goto, TypeOK
    <2> QED
      BY <2>1, <2>2, QuietStep
  <1>2. ASSUME NEW r \in Receivers, Read(r)
        PROVE  Serial!Next \/ UNCHANGED Serial!vars
    <2>1. /\ kind' \in [Receivers -> Kinds]
          /\ pc' = [pc EXCEPT ![r] = Dispatch(kind'[r])]
          /\ Dispatch(kind'[r]) \in {"loop", "handle", "leave"}
      BY <1>2, <1>t, ReadTypes
    <2>2. /\ pc[r] = "loop"
          /\ ~visible
          /\ UNCHANGED <<db, handshake>>
          /\ \A s \in Receivers : s # r => kind'[s] = kind[s]
      BY <1>2, <1>t DEF Read, SeesOpen, TypeOK
    <2>3. db /\ lock = r
      BY <2>2, ThreadAssumption DEF IInv, LockDiscipline, CloseProgress, TypeOK
    <2>4. \A s \in Receivers : pc[s] # "handle"
      BY <2>2, <2>3 DEF IInv, LockDiscipline
    <2>5. \A s \in Receivers : s # r => pc'[s] # "handle"
      BY <2>1, <2>4, <1>t DEF TypeOK
    <2>6. pc'[r] = Dispatch(kind'[r])
      BY <2>1, <1>t DEF TypeOK
    <2>7. CASE Dispatch(kind'[r]) = "handle"
      <3>1. PICK command \in {"caps", "message"} :
                kind'[r] = command /\ (command = "message" => handshake)
        BY <2>7, <2>1 DEF Dispatch, Kinds
      <3>2. doing' = [doing EXCEPT ![r] = command]
        BY <2>4, <2>5, <2>6, <2>7, <3>1 DEF doing
      <3>3. Serial!Begin(r, command)
        BY <2>2, <2>3, <2>4, <3>1, <3>2 DEF Serial!Begin, Serial!Quiet, doing
      <3> QED
        BY <3>3 DEF Serial!Next
    <2>8. CASE Dispatch(kind'[r]) # "handle"
      BY <2>2, <2>4, <2>5, <2>6, <2>8 DEF Serial!vars
    <2> QED
      BY <2>7, <2>8
  <1>3. ASSUME NEW r \in Receivers, Handle(r)
        PROVE  Serial!Next
    <2>1. /\ pc[r] = "handle"
          /\ pc' \in {[pc EXCEPT ![r] = "loop"], [pc EXCEPT ![r] = "leave"]}
          /\ UNCHANGED <<kind, db>>
          /\ IF kind[r] = "caps" THEN handshake' \in BOOLEAN ELSE UNCHANGED handshake
      BY <1>3, <1>t DEF Handle, Goto, TypeOK
    <2>2. db
      BY <2>1 DEF IInv, NoNullDatabase
    <2>3. doing' = [doing EXCEPT ![r] = "nothing"]
      BY <2>1, <1>t DEF doing, TypeOK
    <2>4. doing[r] = kind[r] /\ kind[r] # "nothing"
      BY <2>1, <1>t DEF doing, TypeOK, Kinds
    <2>5. Serial!End(r)
      BY <2>1, <2>2, <2>3, <2>4 DEF Serial!End, doing
    <2> QED
      BY <2>5 DEF Serial!Next
  <1>4. CASE CloseBody
    <2>1. /\ closerPc = "inside"
          /\ db' = FALSE
          /\ UNCHANGED <<pc, kind, handshake>>
      BY <1>4 DEF CloseBody
    <2>2. db /\ \A s \in Receivers : pc[s] # "handle"
      BY <2>1, ThreadAssumption DEF IInv, LockDiscipline, CloseProgress
    <2>3. Serial!Close
      BY <2>1, <2>2 DEF Serial!Close, Serial!Quiet
    <2> QED
      BY <2>3 DEF Serial!Next
  <1>5. CASE CloseCall \/ CloseEnter \/ CloseLeave \/ Publish \/ UNCHANGED vars
    BY <1>5 DEF CloseCall, CloseEnter, CloseLeave, Publish, vars, Serial!vars
  <1> QED
    BY <1>1, <1>2, <1>3, <1>4, <1>5 DEF Next, Inside, Closing

\* The threads of the plugin keep to the serial channel: one handler at a time,
\* none before the handshake but that of capabilities, none after the channel is
\* closed.  This is why AppListClient may take a message as one step.
THEOREM ThreadsAreSerial == Spec => SerialSpec
  <1> QED
    BY InitIInv, StepIInv, InitSerial, StepSerial, PTL DEF Spec, SerialSpec, Serial!Spec
=============================================================================
