----------------------------- MODULE MCSatellite -----------------------------
(* Small instances of Satellite for TLC.                                     *)
EXTENDS Satellite

\* Behaviours in which the accesses to fds happen one at a time, as if the map
\* were synchronised: what goes wrong in them is not a data race.
SynchronisedMap ==
  \A t, u \in Threads :
    pc[t] \in {"storing", "deleting"} /\ pc[u] \in {"storing", "deleting"} => t = u
===============================================================================
