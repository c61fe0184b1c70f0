----------------------------- MODULE ClusterSink -----------------------------
(***************************************************************************)
(* What the cluster pipeline of the Creator promises (spec.md 4.F, 5):    *)
(* clusters are handed over in the order they are closed, and the file   *)
(* receives them in exactly that order, each once, however the parallel  *)
(* compression interleaves.  The cluster pointer table relies on it.     *)
(***************************************************************************)
EXTENDS Naturals, Sequences

CONSTANT Clusters   \* identities of clusters

VARIABLES
  closed,  \* clusters handed over, in closing order
  file     \* clusters appended to the archive, in file order

Init == closed = <<>> /\ file = <<>>

(* One call of the producer closes one cluster, or two at finish (the    *)
(* compressed and the uncompressed one).                                 *)
Close ==
  \E n \in 1 .. 2 : \E s \in [1 .. n -> Clusters] :
    /\ closed' = closed \o s
    /\ UNCHANGED file

(* The next closed cluster not yet in the file is appended to it.        *)
Write ==
  /\ Len(file) < Len(closed)
  /\ file' = Append(file, closed[Len(file) + 1])
  /\ UNCHANGED closed

Next == Close \/ Write

Spec == Init /\ [][Next]_<<closed, file>>
====
