------------------------- MODULE MCClusterPipeline -------------------------
(* Model-checking instance of ClusterPipeline: two workers, queues of     *)
(* small capacity (set in each cfg: 1 or 2) so that both the producer and *)
(* the writer block, a chunk                                               *)
(* limit of 2 with blob sizes 0..2 so that a cluster closes on exactly    *)
(* reaching the limit, on a single oversized blob and on an empty blob.   *)
EXTENDS ClusterPipeline

CONSTANTS w1, w2

MCWorkers == {w1, w2}
====
