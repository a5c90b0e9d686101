--------------------------- MODULE MCAppListClient ---------------------------
(* Small instances of AppListClient for TLC. *)
EXTENDS AppListClient

CONSTANTS p1, p2, k1, k2, n1, n2, x, y

App(key, name, args, icon, legal) ==
    [key |-> key, name |-> name, args |-> args, icon |-> icon, legal |-> legal]

\* An app, the same app after it was renamed, another app with the first one's
\* description, and one whose name the plugin refuses.
MCApps == {App(k1, n1, x, TRUE, TRUE), App(k1, n2, y, TRUE, TRUE),
           App(k2, n1, y, FALSE, TRUE), App(k2, n2, x, FALSE, FALSE)}

\* Two apps with one description.
MCNamesakes == {App(k1, n1, x, TRUE, TRUE), App(k2, n1, y, FALSE, TRUE)}

\* An app, the same app with another command, and another app.
MCUpdated == {App(k1, n1, x, TRUE, TRUE), App(k1, n1, y, TRUE, TRUE),
              App(k2, n2, x, FALSE, TRUE)}

\* File names that differ, and file names that differ only in their case.
MCDistinct == [n \in Names |-> n]
MCCaseOnly == [n \in Names |-> n1]

\* Copying a name over the other leaves nothing of the old one.
MCOverlay == [names \in Providers \X Providers |-> names[2]]

MCNoMishaps  == {}
MCSyncFaults == {"mkdir", "icon", "link", "delete"}
MCOutside    == {"caps", "mkdir", "icon", "load", "taskbar", "crash", "uninstall"}
MCRecaps     == {"caps", "recaps"}
=============================================================================
