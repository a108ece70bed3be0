----------------------------- MODULE MCStartup -----------------------------
(* Startup for TLC's liveness check: nobody touches the devices meanwhile. *)
EXTENDS Startup

QuietInit == Init /\ wemo = [u \in Udns |-> FALSE]

QuietNext == Start \/ ApplicationInit \/ Stop

QuietFairSpec == QuietInit /\ [][QuietNext]_vars /\ WF_vars(ApplicationInit)
=============================================================================
