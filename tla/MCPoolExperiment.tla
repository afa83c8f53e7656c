-------------------------- MODULE MCPoolExperiment --------------------------
EXTENDS PoolExperiment

MCPoolSizes == ExperimentSizes
MCPoolOf == [n \in {size + HeaderSize : size \in ObjectSizes} |-> PoolFor(n)]
=============================================================================
