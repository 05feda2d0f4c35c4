--------------------------- MODULE MCVectorIndex ---------------------------
(* Two clients of the embeddings route, one document per batch.            *)
EXTENDS VectorIndex

CONSTANTS i1, i2, d1, d2
=============================================================================
