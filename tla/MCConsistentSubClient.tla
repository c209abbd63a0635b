------------------------ MODULE MCConsistentSubClient ------------------------
(* Model-checking instance of ConsistentSubClient: three server values,    *)
(* two replicas each and four probe keys.  The hash table gives v1 and v2  *)
(* one common slot (a collision the inner hash resolves), puts slots next  *)
(* to each other and sends one probe past the last slot (the wrap-around). *)
(* Registry keys are interchangeable; values and probes are not, since     *)
(* the hash tells them apart.                                              *)
EXTENDS ConsistentSubClient

CONSTANTS v1, v2, v3, p1, p2, p3, p4

MCValues == {v1, v2, v3}
MCProbes == {p1, p2, p3, p4}

MCReplicaHash ==
    [x \in MCValues \X {0, 1} |->
        CASE x = <<v1, 0>> -> 2 [] x = <<v1, 1>> -> 6
          [] x = <<v2, 0>> -> 4 [] x = <<v2, 1>> -> 6
          [] x = <<v3, 0>> -> 1 [] x = <<v3, 1>> -> 8]

MCProbeHash == (p1 :> 3) @@ (p2 :> 6) @@ (p3 :> 9) @@ (p4 :> 5)

MCInnerHash == (p1 :> 0) @@ (p2 :> 1) @@ (p3 :> 0) @@ (p4 :> 0)

KeySymmetry == Permutations(Keys)
=============================================================================
