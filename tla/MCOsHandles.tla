---------------------------- MODULE MCOsHandles ----------------------------
(* OsHandles, and with it SizedQuery, for TLC: entries that come and go. *)
EXTENDS OsHandles

CONSTANTS e1, e2, e3, e4

============================================================================
