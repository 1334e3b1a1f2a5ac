--------------------------- MODULE MCSanePolling ---------------------------
(***************************************************************************)
(* Small instances of SanePolling for TLC: which thread calls what.        *)
(***************************************************************************)
EXTENDS SanePolling, TLC

CONSTANTS main, other

\* SIGUSR1 and SIGUSR2 in main; a thread of the D-Bus side triggers actions
\* and obeys acquire.
OpsSteady == (main :> {"stop", "start"}) @@ (other :> {"trigger", "stop"})

\* SIGUSR2 and SIGHUP in main against hotplug events, while actions are
\* triggered and sessions begin.
OpsHostile == (main :> {"start", "hup"}) @@ (other :> {"trigger", "stop", "refresh"})

\* SIGHUP and SIGUSR1 in main, while actions are triggered.
OpsReload == (main :> {"hup", "stop"}) @@ (other :> {"trigger"})

=============================================================================
