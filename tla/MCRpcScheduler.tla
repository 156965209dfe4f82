--------------------------- MODULE MCRpcScheduler ---------------------------
(* The scheduler on small instances: two processes, alike, for Scheduler_*.   *)
EXTENDS RpcScheduler, TLC

AnyProcess == Permutations(Procs)
NoDelay == {0}
SomeDelay == {0, 3}
=============================================================================
