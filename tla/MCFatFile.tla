------------------------------ MODULE MCFatFile -----------------------------
(***************************************************************************)
(* FatFile on small volumes: every chain of up to three of four clusters,  *)
(* forwards, backwards and scattered over two sectors of the FAT, ended by *)
(* the mark the code knows or by another one of the format's.              *)
(***************************************************************************)
EXTENDS FatFile

CONSTANTS Clusters, MaxChain, Marks

MCChains ==
    {c \in UNION {[1 .. n -> Clusters] : n \in 1 .. MaxChain} :
        \A i, j \in DOMAIN c : c[i] = c[j] => i = j}

MCVolumes ==
    {[chain |-> c, size |-> n, mark |-> m] :
        <<c, n, m>> \in
            {<<d, k, e>> \in MCChains \X (1 .. MaxChain * ClusterSize) \X Marks :
                /\ (Len(d) - 1) * ClusterSize < k
                /\ k <= Len(d) * ClusterSize}}
=============================================================================
