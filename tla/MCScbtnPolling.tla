--------------------------- MODULE MCScbtnPolling ---------------------------
(***************************************************************************)
(* The pollers of two scanners, each with a backend of its own, and two    *)
(* events from outside, in a build with udev and in one without.           *)
(***************************************************************************)
EXTENDS ScbtnPolling

\* A backend of its own for each: one that has looked when the other looks.
MCDriver == [s \in 1..2 |-> s]
=============================================================================
