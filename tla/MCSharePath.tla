---------------------------- MODULE MCSharePath ----------------------------
(***************************************************************************)
(* An instance of SharePath. A group may have two threads: a launch of one *)
(* full group, and one of four groups of one thread, whose kernel was      *)
(* built while a launch had five threads.                                  *)
(***************************************************************************)
EXTENDS SharePath

MCOccupancies == {[blocks |-> 2, threads |-> 1, built |-> 2],
                  [blocks |-> 1, threads |-> 4, built |-> 5]}
=============================================================================
