----------------------------- MODULE MCIndexer -----------------------------
(* The indexer on a small instance: constants for Indexer_faults.cfg.        *)
EXTENDS Indexer

Few == [k \in Kinds |-> CASE k = "incident" -> 3
                          [] k \in {"provider", "service"} -> 1
                          [] OTHER -> 0]
Changes == [k \in Kinds |-> IF k = "incident" THEN 1 ELSE 0]
============================================================================
