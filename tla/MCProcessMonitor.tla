--------------------------- MODULE MCProcessMonitor ---------------------------
(* Small instances of ProcessMonitor for TLC. *)
EXTENDS ProcessMonitor

MCAround == {"fork", "helper"}
MCReuse  == {"reuse"}
MCEarly  == {"early"}
=============================================================================
