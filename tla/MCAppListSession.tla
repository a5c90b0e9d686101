-------------------------- MODULE MCAppListSession --------------------------
(* Small instances of AppListSession for TLC. *)
EXTENDS AppListSession

\* Texts are limited to six bytes, three letters: four can be read.
MCText(f) == CASE f = "provider" -> 2 [] f = "uniqueId" -> 4 [] OTHER -> 2
MCPDU(cmd, flags) ==
    [cmd |-> cmd, version |-> 4, flags |-> flags, text |-> [f \in Texts |-> MCText(f)],
     window |-> 70000, icon |-> 4]

MCCaps   == MCPDU("caps", 0)
MCUpdate == MCPDU("update", 1 + 2 + 4 + 8 + 16 + 64 + 65536)

MCMessages ==
    {MCCaps, [MCCaps EXCEPT !.version = 3], [MCCaps EXCEPT !.text["uniqueId"] = 8],
     MCUpdate, [MCUpdate EXCEPT !.flags = 1 + 4], [MCUpdate EXCEPT !.icon = NoIcon],
     [MCUpdate EXCEPT !.text["group"] = 0, !.text["desc"] = 4],
     [MCUpdate EXCEPT !.text["exec"] = 6], [MCUpdate EXCEPT !.text["desc"] = 8],
     MCPDU("delete", 1), [MCPDU("delete", 1 + 2) EXCEPT !.text["id"] = 0],
     MCPDU("deleteProvider", 32), MCPDU("deleteProvider", 0),
     MCPDU("associate", 1 + 2 + 4 + 8 + 128)}

MCOutside       == {"query", "channel", "handle", "wait", "event", "create", "read", "bad"}
MCClientMishaps == {"paths", "write"}
=============================================================================
