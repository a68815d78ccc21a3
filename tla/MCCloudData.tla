------------------------------ MODULE MCCloudData ------------------------------
(* What the sidecar keeps of, and writes to, the cloud's data: ProjectCache and *)
(* Kanban on small instances.  The two share nothing; a behaviour is one of the *)
(* caches, of the requests that move a card, or of those that assign, archive   *)
(* and edit it.                                                                 *)
EXTENDS ProjectCache, Kanban, TLC

VARIABLE part

vars == <<cacheVars, kanbanVars, part>>

CachePart ==
    /\ part = "caches"
    /\ CacheNext
    /\ UNCHANGED <<kanbanVars, part>>

KanbanPart(p, ops) ==
    /\ part = p
    /\ KanbanNextOf(ops)
    /\ UNCHANGED <<cacheVars, part>>

Init ==
    /\ part \in {"caches", "moves", "rest"}
    /\ CacheInit /\ KanbanInit
    /\ part # "caches" => kinds = {}

Next ==
    \/ CachePart
    \/ KanbanPart("moves", StatusOps \cup {"note"})
    \/ KanbanPart("rest", OwnerOps \cup ArchiveOps \cup {"edit"})

Spec == Init /\ [][Next]_vars

Symmetric == Permutations(Requests)

CloudDataTypeOK == CacheTypeOK /\ KanbanTypeOK
==============================================================================
