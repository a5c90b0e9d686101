---------------------------- MODULE AppListServer ----------------------------
(***************************************************************************)
(* The distribution's end of the application list channel                  *)
(* (rdpapplist/server/rdpapplist_main.c): the compositor's thread opens    *)
(* and closes the channel, a thread of its own waits for what the client   *)
(* sends back.  Sending uses the channel handle and changes no state.      *)
(***************************************************************************)
EXTENDS Naturals

CONSTANTS
    MaxMessages,  \* bound: what the client sends on one channel
    Mishaps       \* calls that may fail, see MishapKinds

\* query, channel, handle, event, create: the call of rdpapplist_server_open
\* that fails, in its order; wait: Close cannot wait for the thread; read: the
\* thread cannot read, or has nothing to read; bad: the client sends something
\* else than its capabilities.
MishapKinds == {"query", "channel", "handle", "event", "create", "wait", "read", "bad"}

ASSUME ServerAssumption ==
    /\ MaxMessages \in Nat
    /\ Mishaps \subseteq MishapKinds

VARIABLES
    caller,   \* the compositor's thread: in no call, or waiting in Close
    result,   \* what the last call has returned: none while it is under way
    channel,  \* rdpapplist_channel is open
    thread,   \* priv->thread
    stop,     \* priv->stopEvent
    isReady,  \* priv->isReady
    ready,    \* the client has accepted the channel
    arrived,  \* messages that the client has sent on it
    taken     \* messages that the thread has read from it

vars == <<caller, result, channel, thread, stop, isReady, ready, arrived, taken>>

TypeOK ==
    /\ caller \in {"idle", "closing"}
    /\ result \in {"none", "ok", "error", "unjoined"}
    /\ channel \in BOOLEAN
    /\ thread \in {"none", "wait", "handle", "ended"}
    /\ stop \in {"none", "clear", "set"}
    /\ isReady \in BOOLEAN
    /\ ready \in BOOLEAN
    /\ arrived \in 0 .. MaxMessages
    /\ taken \in 0 .. arrived

\* rdpapplist_server_context_new
Init ==
    /\ caller = "idle"
    /\ result = "none"
    /\ channel = FALSE
    /\ thread = "none"
    /\ stop = "none"
    /\ isReady = FALSE
    /\ ready = FALSE
    /\ arrived = 0
    /\ taken = 0
-----------------------------------------------------------------------------
(* The compositor's thread *)

\* The caller opens a channel only when none is open, here and in Open: the code
\* does not ask, and would lose the handle of the one that is.
\* out_close: no channel, and the error of the call that failed.
OpenFails ==
    /\ caller = "idle" /\ ~channel
    /\ Mishaps \cap {"query", "channel", "handle"} # {}
    /\ result' = "error"
    /\ UNCHANGED <<caller, channel, thread, stop, isReady, ready, arrived, taken>>

\* The event and the thread are made when there is no thread yet; neither
\* failure stops the call or is returned.
StartThread ==
    \E event \in {"clear", "none"}, created \in BOOLEAN :
        /\ event = "none" => "event" \in Mishaps
        /\ ~created => "create" \in Mishaps
        /\ thread' = IF created THEN "wait" ELSE "none"
        /\ stop' = IF created THEN event ELSE "none"

\* Mutated form: the messages of the last channel stay counted.
OpenKeepsCount ==
    /\ caller = "idle" /\ ~channel
    /\ channel' = TRUE
    /\ ready' = FALSE
    /\ arrived' = 0
    /\ IF thread = "none" THEN StartThread ELSE UNCHANGED <<thread, stop>>
    /\ result' = "ok"
    /\ UNCHANGED <<caller, isReady, taken>>

Open ==
    /\ caller = "idle" /\ ~channel
    /\ channel' = TRUE
    /\ ready' = FALSE
    /\ arrived' = 0
    /\ taken' = 0
    /\ IF thread = "none" THEN StartThread ELSE UNCHANGED <<thread, stop>>
    /\ result' = "ok"
    /\ UNCHANGED <<caller, isReady>>

\* Mutated form: Close closes the channel before it waits for the thread.
CloseTooSoon ==
    /\ caller = "idle"
    /\ thread # "none"
    /\ stop' = IF stop = "none" THEN "none" ELSE "set"
    /\ caller' = "closing"
    /\ result' = "none"
    /\ channel' = FALSE
    /\ UNCHANGED <<thread, isReady, ready, arrived, taken>>

\* Mutated form: Close waits without telling the thread.
CloseSilent ==
    /\ caller = "idle"
    /\ thread # "none"
    /\ caller' = "closing"
    /\ result' = "none"
    /\ UNCHANGED <<channel, thread, stop, isReady, ready, arrived, taken>>

\* rdpapplist_server_close: SetEvent, and the wait for the thread if there is one.
\* Left out: rdpapplist_server_context_free, which frees the context whatever it
\* returns.
Close ==
    /\ caller = "idle"
    /\ thread # "none"
    /\ stop' = IF stop = "none" THEN "none" ELSE "set"
    /\ caller' = "closing"
    /\ result' = "none"
    /\ UNCHANGED <<channel, thread, isReady, ready, arrived, taken>>

\* WAIT_FAILED: Close returns with the thread and the channel as they are, and may
\* be called again; the thread has been told to stop.
CloseFails ==
    /\ "wait" \in Mishaps
    /\ caller = "closing"
    /\ caller' = "idle"
    /\ result' = "unjoined"
    /\ UNCHANGED <<channel, thread, stop, isReady, ready, arrived, taken>>

CloseChannel ==
    /\ \/ caller = "closing" /\ thread = "ended"
       \/ caller = "idle" /\ thread = "none" /\ channel
    /\ caller' = "idle"
    /\ thread' = "none"
    /\ stop' = "none"
    /\ channel' = FALSE
    /\ result' = "ok"
    /\ UNCHANGED <<isReady, ready, arrived, taken>>
-----------------------------------------------------------------------------
(* rdpapplist_server_thread_func *)

\* WaitForMultipleObjects: the stop event comes first; a null handle fails.
Stopped ==
    /\ thread = "wait"
    /\ stop # "clear"
    /\ thread' = "ended"
    /\ UNCHANGED <<caller, result, channel, stop, isReady, ready, arrived, taken>>

Wake ==
    /\ thread = "wait"
    /\ stop = "clear"
    /\ arrived > taken
    /\ thread' = "handle"
    /\ UNCHANGED <<caller, result, channel, stop, isReady, ready, arrived, taken>>

\* The channel's event is set and there is nothing to read.
WakeForNothing ==
    /\ "read" \in Mishaps
    /\ thread = "wait"
    /\ stop = "clear"
    /\ thread' = "handle"
    /\ UNCHANGED <<caller, result, channel, stop, isReady, ready, arrived, taken>>

\* Mutated form: a message is left in the channel.
HandleMessagesPeek ==
    /\ thread = "handle"
    /\ isReady' = (isReady \/ ready)
    /\ thread' = "wait"
    /\ UNCHANGED <<caller, result, channel, stop, ready, arrived, taken>>

\* rdpapplist_server_handle_messages: asks whether the channel is ready, reads
\* when it is.  Whatever fails, a read without data too, ends the thread.
HandleMessages ==
    /\ thread = "handle"
    /\ isReady' = (isReady \/ ready)
    /\ \/ /\ isReady' /\ arrived > taken
          /\ taken' = taken + 1
          /\ thread' \in {"wait"} \cup (IF "bad" \in Mishaps THEN {"ended"} ELSE {})
       \/ /\ "read" \in Mishaps
          /\ thread' = "ended"
          /\ UNCHANGED taken
       \/ /\ ~isReady'
          /\ thread' = "wait"
          /\ UNCHANGED taken
    /\ UNCHANGED <<caller, result, channel, stop, ready, arrived>>
-----------------------------------------------------------------------------
(* The client, which sends only on a channel it has accepted *)

Accept ==
    /\ channel
    /\ ~ready
    /\ ready' = TRUE
    /\ UNCHANGED <<caller, result, channel, thread, stop, isReady, arrived, taken>>

Arrive ==
    /\ channel
    /\ ready
    /\ arrived < MaxMessages
    /\ arrived' = arrived + 1
    /\ UNCHANGED <<caller, result, channel, thread, stop, isReady, ready, taken>>
-----------------------------------------------------------------------------
Thread == Stopped \/ Wake \/ HandleMessages

Next ==
    \/ OpenFails \/ Open
    \/ Close \/ CloseFails \/ CloseChannel
    \/ Thread \/ WakeForNothing
    \/ Accept \/ Arrive

Spec == Init /\ [][Next]_vars

\* The thread runs, and so does the compositor's once it is in Close.
FairSpec ==
    /\ Spec
    /\ WF_vars(Thread)
    /\ WF_vars(caller = "closing" /\ CloseChannel)
-----------------------------------------------------------------------------
(* Properties *)

\* The thread never uses a channel that Close has closed: Close waits for the
\* thread first (rdpapplist_main.c:707).
ThreadHasChannel == thread = "handle" => channel

\* Close comes back, whatever the thread was doing, also when it has ended by
\* itself or never got its event, and then no thread and no channel is left,
\* unless it reports that the wait failed (rdpapplist_main.c:707); then it may be
\* called again, and the same holds of that call.
CloseReturns ==
    caller = "closing" ~>
        caller = "idle" /\ (result = "unjoined" \/ (thread = "none" /\ ~channel))

\* What the client sends is read, unless the thread has given up or was told to
\* stop: no message is left in the channel with the thread asleep.
MessagesTaken == arrived > taken ~> arrived = taken \/ thread \in {"none", "ended"}

\* An Open that succeeds leaves a thread that serves the channel ("@return 0 on
\* success, otherwise a Win32 error code", rdpapplist_main.c:615).
OpenIsServed == channel /\ result = "ok" => thread # "none"
=============================================================================
