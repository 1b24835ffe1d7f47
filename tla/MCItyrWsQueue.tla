---------------------------- MODULE MCItyrWsQueue ----------------------------
(* Small instances of ItyrWsQueue for TLC. *)
EXTENDS ItyrWsQueue

CONSTANTS r1, r2

MCThief == {r1, r2}
============================================================================
