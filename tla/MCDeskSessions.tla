--------------------------- MODULE MCDeskSessions ---------------------------
(***************************************************************************)
(* Small instances of DeskSessions for TLC.                                *)
(***************************************************************************)
EXTENDS DeskSessions, TLC

Symmetric == Permutations(Requests) \cup Permutations(Desks)
=============================================================================
