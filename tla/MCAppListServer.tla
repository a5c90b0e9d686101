--------------------------- MODULE MCAppListServer ---------------------------
(* Small instances of AppListServer for TLC. *)
EXTENDS AppListServer

MCCreate == {"create"}
=============================================================================
