---------------------------- MODULE MCFontMonitor ----------------------------
(* Small instances of FontMonitor for TLC. *)
EXTENDS FontMonitor

CONSTANTS fonts, x11, other, alt, misc

\* The mount folder with its X11 and another subfolder, and the alternative font
\* path with a subfolder.
MCFolders == {fonts, x11, other, alt, misc}
MCParent  == [f \in MCFolders |-> IF f \in {alt, misc} THEN alt ELSE fonts]
MCName    == [f \in MCFolders |-> f]
MCMishaps == {"xset", "restart", "move", "limit", "thread", "stop"}
=============================================================================
