----------------------------- MODULE MCPipeline ------------------------------
(* The pipeline on small instances; the .cfg files give the constants. *)
EXTENDS Pipeline, TLC

\* The packs of one pool are interchangeable.
PoolSymmetry == {f \in Permutations(Packs) : \A p \in InjectPacks : f[p] \in InjectPacks}
==============================================================================
