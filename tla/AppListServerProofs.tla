------------------------- MODULE AppListServerProofs -------------------------
(***************************************************************************)
(* For any number of messages and any failing calls: the channel thread    *)
(* never meets a closed channel.                                           *)
(***************************************************************************)
EXTENDS AppListServer, TLAPS

\* A thread, ended or not, that nobody has joined keeps the channel open, and
\* Close waits only for a thread.
ThreadKeepsChannel ==
    /\ thread # "none" => channel
    /\ caller = "closing" => thread # "none"

IInv == TypeOK /\ ThreadKeepsChannel

LEMMA InitIInv == Init => IInv
<1>1. 0 \in 0 .. MaxMessages /\ 0 \in 0 .. 0
  BY ServerAssumption
<1> QED
  BY <1>1 DEF Init, IInv, TypeOK, ThreadKeepsChannel

\* The calls of the compositor's thread.
LEMMA CallerKeeps ==
    ASSUME IInv, OpenFails \/ Open \/ Close \/ CloseFails \/ CloseChannel
    PROVE  IInv'
<1>1. CASE OpenFails
  BY <1>1 DEF OpenFails, IInv, TypeOK, ThreadKeepsChannel
<1>2. CASE Open
  <2>1. thread = "none"
    BY <1>2 DEF Open, IInv, ThreadKeepsChannel
  <2>2. thread' \in {"none", "wait"} /\ stop' \in {"none", "clear"}
    BY <1>2, <2>1 DEF Open, StartThread
  <2>3. arrived' \in 0 .. MaxMessages /\ taken' \in 0 .. arrived'
    BY <1>2, ServerAssumption DEF Open
  <2>4. channel' = TRUE /\ ready' = FALSE /\ result' = "ok" /\ caller' = "idle" /\ isReady' = isReady
    BY <1>2 DEF Open
  <2> QED
    BY <2>2, <2>3, <2>4 DEF IInv, TypeOK, ThreadKeepsChannel
<1>3. CASE Close
  BY <1>3 DEF Close, IInv, TypeOK, ThreadKeepsChannel
<1>4. CASE CloseChannel
  BY <1>4 DEF CloseChannel, IInv, TypeOK, ThreadKeepsChannel
<1>5. CASE CloseFails
  BY <1>5 DEF CloseFails, IInv, TypeOK, ThreadKeepsChannel
<1> QED
  BY <1>1, <1>2, <1>3, <1>4, <1>5

\* The steps of the channel's thread and of the client.
LEMMA OthersKeep ==
    ASSUME IInv, Thread \/ WakeForNothing \/ Accept \/ Arrive
    PROVE  IInv'
<1>1. CASE Stopped
  BY <1>1 DEF Stopped, IInv, TypeOK, ThreadKeepsChannel
<1>2. CASE Wake
  BY <1>2 DEF Wake, IInv, TypeOK, ThreadKeepsChannel
<1>3. CASE HandleMessages
  <2>1. thread = "handle" /\ thread' \in {"wait", "ended"} /\ isReady' \in BOOLEAN
    BY <1>3 DEF HandleMessages, IInv, TypeOK
  <2>2. taken' \in 0 .. arrived
    BY <1>3, ServerAssumption DEF HandleMessages, IInv, TypeOK
  <2> QED
    BY <1>3, <2>1, <2>2 DEF HandleMessages, IInv, TypeOK, ThreadKeepsChannel
<1>4. CASE Accept
  BY <1>4 DEF Accept, IInv, TypeOK, ThreadKeepsChannel
<1>5. CASE Arrive
  BY <1>5, ServerAssumption DEF Arrive, IInv, TypeOK, ThreadKeepsChannel
<1>6. CASE WakeForNothing
  BY <1>6 DEF WakeForNothing, IInv, TypeOK, ThreadKeepsChannel
<1> QED
  BY <1>1, <1>2, <1>3, <1>4, <1>5, <1>6 DEF Thread

LEMMA StepIInv == IInv /\ [Next]_vars => IInv'
<1>1. CASE UNCHANGED vars
  BY <1>1 DEF vars, IInv, TypeOK, ThreadKeepsChannel
<1> QED
  BY <1>1, CallerKeeps, OthersKeep DEF Next

\* The state of the server context keeps its types: the thread never reads more
\* messages than have arrived (rdpapplist_main.c:149).
THEOREM ServerTypes == Spec => []TypeOK
<1>1. IInv => TypeOK
  BY DEF IInv
<1> QED
  BY <1>1, InitIInv, StepIInv, PTL DEF Spec

\* Whenever the thread handles a message the channel is open, because Close
\* joins the thread first (rdpapplist_main.c:707), whichever calls have failed.
THEOREM ThreadNeverOrphaned == Spec => []ThreadHasChannel
<1>1. IInv => ThreadHasChannel
  BY DEF IInv, ThreadKeepsChannel, ThreadHasChannel
<1> QED
  BY <1>1, InitIInv, StepIInv, PTL DEF Spec
=============================================================================
