--------------------------- MODULE MCRegistryPush ----------------------------
(* The requests of a run are model values of its cfg.  The blob puts are alike; *)
(* the contents are not, since clients name only some of them.                 *)
EXTENDS RegistryPush, TLC

MCPutSymmetry == Permutations(BlobPuts)
==============================================================================
