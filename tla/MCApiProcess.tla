--------------------------- MODULE MCApiProcess ----------------------------
(* Two requests and two pollers at one loaded task, with up to two faults. *)
EXTENDS ApiProcess
=============================================================================
