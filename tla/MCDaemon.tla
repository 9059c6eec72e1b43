------------------------------ MODULE MCDaemon ------------------------------
(***************************************************************************)
(* Daemon for TLC: daemons and users are interchangeable.  Of the PIDs the *)
(* third is what the first leaves of the second when both are written.     *)
(***************************************************************************)
EXTENDS Daemon, TLC

MCPids == {<<1>>, <<2, 3>>, <<1, 3>>}

DaemonSymmetry == Permutations(Daemons) \cup Permutations(Users)

=============================================================================
