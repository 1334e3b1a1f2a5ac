------------------------------ MODULE MCDaemon ------------------------------
(***************************************************************************)
(* Small instances of Daemon: sessions of scanbm over D-Bus and by signal. *)
(***************************************************************************)
EXTENDS Daemon

CONSTANTS client, local

\* The state after an undisturbed start-up with the scanner plugged in.
InitUp ==
  /\ todo = [t \in Thread |-> <<>>]
  /\ alive = {"dbus", "udev"}
  /\ owner = None /\ depth = 0
  /\ polling = TRUE /\ action = FALSE
  /\ known = TRUE /\ present = TRUE
  /\ pidfile = "written" /\ exited = FALSE
  /\ pending = {} /\ events = 0 /\ calls = <<>>
  /\ mpc = [m \in Manager |-> "idle"]
  /\ pid = {} /\ undisturbed = {} /\ missed = FALSE
  /\ used = 0

UpSpec == InitUp /\ [][Next]_vars /\ Fairness
=============================================================================
