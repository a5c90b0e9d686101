--------------------------- MODULE AppListSession ---------------------------
(***************************************************************************)
(* The two ends of the application list channel and what is between them:  *)
(* the server of AppListServer, whose compositor sends the messages of     *)
(* AppListWire, and the plugin, which opens a callback for each channel,   *)
(* answers the capabilities and hands messages to its handlers.  Packets   *)
(* of either direction stay in order; a channel that was closed and opened *)
(* again is another one, and what is under way for the first is dropped at *)
(* the server and still delivered at the plugin.                           *)
(*                                                                         *)
(* The plugin's threads are those of SerialChannel, one call at a time;    *)
(* what its handlers do to the menu is AppListClient's.                    *)
(***************************************************************************)
EXTENDS AppListServer, AppListWire

CONSTANTS
    Messages,      \* what the compositor may send
    None,          \* no message
    MaxOpens,      \* bound: channels that are opened
    ClientMishaps  \* steps of OnCaps that may fail: "paths", "write"

ASSUME SessionAssumption ==
    /\ Messages \subseteq PDUs
    /\ None \notin PDUs
    /\ MaxOpens \in Nat
    /\ ClientMishaps \subseteq {"paths", "write"}

VARIABLES
    opens,   \* the number of the last channel
    sends,   \* messages that the compositor has tried to send
    wire,    \* from the server to the plugin
    back,    \* from the plugin to the server
    inbox,   \* what the server's channel holds
    client,  \* the plugin's callback: its channel, m_handShakeComplated, the
             \* rest of the data that OnDataReceived works on, and its message
    last     \* history: what became of the message that was looked at last

clientVars == <<client, last>>
serverVars == vars
linkVars   == <<opens, wire, back, inbox, sends>>
allVars    == <<vars, linkVars, clientVars>>

Outcomes == {"none", "taken", "unreadable", "early", "failed", "ignored"}

\* Also: what has arrived and was not taken is what the channel holds.
LinkTypeOK ==
    /\ opens \in 0 .. MaxOpens
    /\ sends \in 0 .. MaxMessages
    /\ \A i \in DOMAIN wire :
        /\ wire[i].what \in {"create", "data", "close"}
        /\ wire[i].n \in 1 .. opens
        /\ wire[i].pdu \in Messages \cup {None}
    /\ \A i \in DOMAIN back : back[i].what \in {"created", "data"} /\ back[i].n \in 1 .. opens
    /\ Len(inbox) = arrived - taken
    /\ client.n \in 0 .. opens
    /\ client.open \in BOOLEAN
    /\ client.handshake \in BOOLEAN
    /\ client.pdu \in Messages \cup {None}
    /\ last.outcome \in Outcomes
    /\ last.pdu \in Messages \cup {None}

SessionInit ==
    /\ Init
    /\ opens = 0
    /\ sends = 0
    /\ wire = <<>>
    /\ back = <<>>
    /\ inbox = <<>>
    /\ client = [n |-> 0, open |-> FALSE, handshake |-> FALSE, buf |-> <<>>, pdu |-> None]
    /\ last = [pdu |-> None, outcome |-> "none", got |-> <<>>]
-----------------------------------------------------------------------------
(* The compositor and the server *)

Event(what, n)      == [what |-> what, n |-> n, pdu |-> None, words |-> <<>>]
Data(n, pdu, words) == [what |-> "data", n |-> n, pdu |-> pdu, words |-> words]

\* Mutated: a new channel starts with what the last one held.
SessionOpenStale ==
    /\ opens < MaxOpens
    /\ opens' = opens + 1
    /\ Open
    /\ wire' = Append(wire, Event("create", opens'))
    /\ UNCHANGED <<back, inbox, sends, clientVars>>

\* WTSVirtualChannelOpenEx; an open that fails later closes the channel again.
SessionOpen ==
    /\ opens < MaxOpens
    /\ opens' = opens + 1
    /\ \/ Open /\ wire' = Append(wire, Event("create", opens')) /\ inbox' = <<>>
       \/ /\ OpenFails
          /\ wire' = wire \o <<Event("create", opens'), Event("close", opens')>>
          /\ UNCHANGED inbox
    /\ UNCHANGED <<back, sends, clientVars>>

SessionOpenFails ==
    /\ OpenFails
    /\ UNCHANGED <<linkVars, clientVars>>

SessionClose ==
    /\ Close
    /\ UNCHANGED <<linkVars, clientVars>>

SessionCloseFails ==
    /\ CloseFails
    /\ UNCHANGED <<linkVars, clientVars>>

SessionCloseChannel ==
    /\ CloseChannel
    /\ wire' = IF channel THEN Append(wire, Event("close", opens)) ELSE wire
    /\ UNCHANGED <<opens, back, inbox, sends, clientVars>>

\* The context's functions; one that refuses the message writes nothing.
Send(p) ==
    /\ caller = "idle" /\ channel
    /\ sends < MaxMessages
    /\ sends' = sends + 1
    /\ wire' = IF Packet(p) = Refused THEN wire ELSE Append(wire, Data(opens, p, Packet(p)))
    /\ UNCHANGED <<serverVars, opens, back, inbox, clientVars>>

\* The channel's thread; a message that it cannot read ends it.
SessionThread ==
    /\ \/ (Stopped \/ Wake) /\ UNCHANGED inbox
       \/ /\ HandleMessages
          /\ IF taken' = taken THEN UNCHANGED inbox
             ELSE /\ inbox' = Tail(inbox)
                  /\ ~ReceivePdu(Head(inbox)).ok => thread' = "ended"
    /\ UNCHANGED <<opens, wire, back, sends, clientVars>>

SessionWakeForNothing ==
    /\ WakeForNothing
    /\ UNCHANGED <<linkVars, clientVars>>

\* Mutated: what comes in counts for the channel that there is.
ReceiveAny ==
    /\ back # <<>>
    /\ back' = Tail(back)
    /\ LET e == Head(back)
       IN  /\ ready' = (ready \/ (channel /\ e.what = "created"))
           /\ arrived' = IF channel /\ e.what = "data" THEN arrived + 1 ELSE arrived
           /\ inbox' = IF channel /\ e.what = "data" THEN Append(inbox, e.words) ELSE inbox
    /\ UNCHANGED <<caller, result, channel, thread, stop, isReady, taken>>
    /\ UNCHANGED <<opens, wire, sends, clientVars>>

\* What comes in for a channel that is no more is dropped.
Receive ==
    /\ back # <<>>
    /\ back' = Tail(back)
    /\ LET e == Head(back)
           mine == channel /\ e.n = opens
       IN  /\ mine /\ e.what = "data" => arrived < MaxMessages   \* bound, see Send
           /\ ready' = (ready \/ (mine /\ e.what = "created"))
           /\ arrived' = IF mine /\ e.what = "data" THEN arrived + 1 ELSE arrived
           /\ inbox' = IF mine /\ e.what = "data" THEN Append(inbox, e.words) ELSE inbox
    /\ UNCHANGED <<caller, result, channel, thread, stop, isReady, taken>>
    /\ UNCHANGED <<opens, wire, sends, clientVars>>
-----------------------------------------------------------------------------
(* The plugin *)

\* OnNewChannelConnection, OnDataReceived and OnClose
Deliver ==
    /\ wire # <<>>
    /\ client.buf = <<>>
    /\ wire' = Tail(wire)
    /\ LET e == Head(wire) IN
        /\ client' = CASE e.what = "create" -> [n |-> e.n, open |-> TRUE, handshake |-> FALSE,
                                                buf |-> <<>>, pdu |-> None]
                       [] e.what = "close"  -> [client EXCEPT !.open = FALSE, !.pdu = None]
                       [] OTHER             -> [client EXCEPT !.buf = e.words, !.pdu = e.pdu]
        /\ back' = IF e.what = "create" THEN Append(back, Event("created", e.n)) ELSE back
    /\ UNCHANGED <<serverVars, opens, inbox, sends, last>>

\* One round of OnDataReceived's loop: what is left, and what became of it.
Leaves(rest, outcome, got) ==
    /\ client' = [client EXCEPT !.buf = rest]
    /\ last' = [pdu |-> client.pdu, outcome |-> outcome, got |-> got]

Breaks(outcome) == Leaves(<<>>, outcome, <<>>)

\* What the readers make of all that may come in, as a table.
Bodies  == {SubSeq(Packet(p), 5, Len(Packet(p))) : p \in {p \in Messages : Packet(p) # Refused}}
Reading == [cmd \in {"caps", "update", "delete", "associate"} |-> [body \in Bodies |->
    CASE cmd = "caps"   -> ReadServerCaps(body)
      [] cmd = "update" -> ReadUpdate(body)
      [] cmd = "delete" -> ReadDelete(body)
      [] OTHER          -> ReadAssociate(body)]]

\* Mutated: nothing is written before the handshake counts as completed.
OnCapsSilent(body) ==
    LET r == Reading["caps"][body]
    IN  \/ ~r.ok /\ Breaks("unreadable") /\ UNCHANGED back
        \/ r.ok /\ "paths" \in ClientMishaps /\ Breaks("failed") /\ UNCHANGED back
        \/ /\ r.ok
           /\ client' = [client EXCEPT !.buf = r.rest, !.handshake = TRUE]
           /\ last' = [pdu |-> client.pdu, outcome |-> "taken", got |-> r.got]
           /\ UNCHANGED back

OnCaps(body) ==
    LET r == Reading["caps"][body]
    IN  \/ ~r.ok /\ Breaks("unreadable") /\ UNCHANGED back
        \/ r.ok /\ "paths" \in ClientMishaps /\ Breaks("failed") /\ UNCHANGED back
        \/ /\ r.ok
           /\ r.got[1][2] < ChannelVersion \/ "write" \in ClientMishaps
           /\ client' = [client EXCEPT !.buf = <<>>, !.handshake = FALSE]
           /\ last' = [pdu |-> client.pdu, outcome |-> "failed", got |-> <<>>]
           /\ UNCHANGED back
        \/ /\ r.ok
           /\ r.got[1][2] >= ChannelVersion
           /\ client' = [client EXCEPT !.buf = r.rest, !.handshake = TRUE]
           /\ last' = [pdu |-> client.pdu, outcome |-> "taken", got |-> r.got]
           /\ back' = Append(back, Data(client.n, None, CapsReply))

\* The handlers; one that has read its message may still fail.
Handler(r) ==
    IF r.ok THEN \E ok \in BOOLEAN : Leaves(IF ok THEN r.rest ELSE <<>>, "taken", r.got)
            ELSE Breaks("unreadable")

Dispatch ==
    /\ client.buf # <<>>
    /\ LET header == ReadAppListHeader(client.buf)
           body   == header.rest
           cmd    == header.got[1][2]
       IN  IF ~header.ok THEN Breaks("unreadable") /\ UNCHANGED back
           ELSE IF cmd = Cmd.caps THEN OnCaps(body)
           ELSE /\ UNCHANGED back
                /\ IF ~client.handshake THEN Breaks("early")
                   ELSE CASE cmd = Cmd.update         -> Handler(Reading["update"][body])
                          [] cmd = Cmd.delete         -> Handler(Reading["delete"][body])
                          [] cmd = Cmd.associate      -> Handler(Reading["associate"][body])
                          [] cmd = Cmd.deleteProvider -> Leaves(body, "ignored", <<>>)
                          [] OTHER                    -> Breaks("unreadable")
    /\ UNCHANGED <<serverVars, opens, wire, inbox, sends>>
-----------------------------------------------------------------------------
SessionNext ==
    \/ SessionOpen \/ SessionOpenFails
    \/ SessionClose \/ SessionCloseFails \/ SessionCloseChannel
    \/ \E p \in Messages : Send(p)
    \/ SessionThread \/ SessionWakeForNothing
    \/ Receive
    \/ Deliver \/ Dispatch

SessionSpec == SessionInit /\ [][SessionNext]_allVars

\* Both ends run, and what is sent comes in.
SessionFairSpec ==
    /\ SessionSpec
    /\ WF_allVars(SessionThread)
    /\ WF_allVars(caller = "closing" /\ SessionCloseChannel)
    /\ WF_allVars(Receive)
    /\ WF_allVars(Deliver \/ Dispatch)
-----------------------------------------------------------------------------
(* Properties *)

\* Whatever a handler is given is what the compositor has sent, field by field:
\* the two ends agree on order, widths and flags, and what is left of a message
\* that was not used up is never taken for another (WSLDVCCallback.cpp:1054).
TakenAsSent == last.outcome = "taken" => last.got = Said(last.pdu)

\* The length in a header is the length of its packet, so that every field that
\* is written was counted (rdpapplist_main.c:253).
PacketsAreFramed ==
    \A i \in DOMAIN wire : wire[i].what = "data" =>
        wire[i].words[3] + 65536 * wire[i].words[4] = 2 * Len(wire[i].words)

\* A message that the server has let through is refused by the plugin only for
\* what it says: a flag or a text is missing, a text leaves no room for its
\* zero; or it is the removal of a provider, whose payload nobody reads.
RefusedForAReason == last.outcome = "unreadable" => ~Readable(last.pdu)

\* The server is one of AppListServer: the plugin sends on a channel that it has
\* accepted, and nothing meant for an earlier channel counts for the next.
ServerSpec == Spec

\* Capabilities that the plugin can read are answered and the answer is read,
\* unless the channel is closed, its thread has ended or OnCaps fails.
Asked ==
    \E i \in DOMAIN wire : /\ wire[i].what = "data" /\ wire[i].n = opens /\ channel
                           /\ wire[i].pdu.cmd = "caps" /\ wire[i].pdu.version >= ChannelVersion
                           /\ Readable(wire[i].pdu)
CapsAnswered ==
    Asked ~> taken > 0 \/ ~channel \/ thread \in {"none", "ended"} \/ last.outcome = "failed"
=============================================================================
