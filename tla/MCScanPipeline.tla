--------------------------- MODULE MCScanPipeline ---------------------------
(***************************************************************************)
(* A small instance: one scan started by the button, in a directory of its *)
(* own, and one directory handed to scan.rb on the command line.           *)
(***************************************************************************)
EXTENDS ScanPipeline

CONSTANTS button, byHand
=============================================================================
