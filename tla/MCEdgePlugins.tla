---------------------------- MODULE MCEdgePlugins ----------------------------
(* Small instances of EdgePlugins for TLC. *)
EXTENDS EdgePlugins

\* The edge's environment enables no plugin.
MCEnvSnapshots == {[p \in Plugins |-> Off]}
=============================================================================
