----------------------------- MODULE MCLauncher -----------------------------
(* One signal of each kind and two kinds of platform for Launcher. *)
EXTENDS Launcher

MCSignals == {"SIGTERM", "SIGHUP", "SIGUSR1", "SIGUSR2", "SIGXFSZ", "SIGPIPE", "SIGRTMIN"}
MCForwarded == {"SIGTERM", "SIGHUP", "SIGUSR1"}

\* A runtime whose table lacks a signal that Node ignores.
MCNumber ==
  [s \in MCSignals \ {"SIGPIPE", "SIGRTMIN"} |->
     CASE s = "SIGTERM" -> 15 [] s = "SIGHUP" -> 1 [] s = "SIGUSR1" -> 10
       [] s = "SIGUSR2" -> 12 [] s = "SIGXFSZ" -> 25]

\* POSIX, and Windows, where SIGHUP can be listened for and not delivered.
MCPlatforms ==
  {[listenable |-> MCSignals, deliverable |-> MCSignals, refuses |-> r] : r \in BOOLEAN}
  \cup {[listenable |-> {"SIGTERM", "SIGHUP"}, deliverable |-> {"SIGTERM"}, refuses |-> FALSE]}
=============================================================================
