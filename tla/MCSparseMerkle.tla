--------------------------- MODULE MCSparseMerkle ---------------------------
(* A tree of depth two: two keys have the first leaf's path, one has the   *)
(* path of the leaf beside it, one a path on the other side.               *)
EXTENDS SparseMerkle

CONSTANTS k1, k2, k3, k4

MCPath == (k1 :> <<FALSE, FALSE>>) @@ (k2 :> <<FALSE, FALSE>>)
          @@ (k3 :> <<FALSE, TRUE>>) @@ (k4 :> <<TRUE, TRUE>>)
=============================================================================
