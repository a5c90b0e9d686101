---------------------------- MODULE SerialChannel ----------------------------
(***************************************************************************)
(* What the message handlers of the application list channel may rely on:  *)
(* one message at a time, none but capabilities before the handshake and   *)
(* none once the channel is closed.  The channel is closed between two     *)
(* messages.  AppListClient is written at this grain; ChannelCallback      *)
(* shows that the threads of the plugin keep to it.                        *)
(***************************************************************************)

CONSTANT Receivers

VARIABLES
    open,       \* the channel's database is there
    handshake,  \* capabilities have been exchanged
    doing       \* the message that each receiver is handling

vars == <<open, handshake, doing>>

Quiet == \A r \in Receivers : doing[r] = "nothing"

Init ==
    /\ open = TRUE
    /\ handshake = FALSE
    /\ doing = [r \in Receivers |-> "nothing"]

Begin(r, kind) ==
    /\ open
    /\ Quiet
    /\ kind = "message" => handshake
    /\ doing' = [doing EXCEPT ![r] = kind]
    /\ UNCHANGED <<open, handshake>>

End(r) ==
    /\ open
    /\ doing[r] # "nothing"
    /\ doing' = [doing EXCEPT ![r] = "nothing"]
    /\ IF doing[r] = "caps" THEN handshake' \in BOOLEAN ELSE UNCHANGED handshake
    /\ UNCHANGED open

Close ==
    /\ open
    /\ Quiet
    /\ open' = FALSE
    /\ UNCHANGED <<handshake, doing>>

Next ==
    \/ \E r \in Receivers : End(r) \/ \E kind \in {"caps", "message"} : Begin(r, kind)
    \/ Close

Spec == Init /\ [][Next]_vars
=============================================================================
