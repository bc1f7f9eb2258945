----------------------------- MODULE MCPipeline -----------------------------
(***************************************************************************)
(* Of a valid and an invalid event a behaviour stores at most MaxStored:   *)
(* with one, each is followed in two copies through two consumers.         *)
(***************************************************************************)
EXTENDS Pipeline, FiniteSets

CONSTANTS m1, m2, k1, k2, MaxStored
MCMessages  == {m1, m2}
MCInvalid   == {m2}
MCConsumers == {k1, k2}

Stored == {m \in Messages : stage[m] # "absent"}

MCNext == PipelineNext /\ Cardinality(Stored') <= MaxStored
MCSpec == PipelineInit /\ [][MCNext]_allVars /\ PipelineFairness
=============================================================================
