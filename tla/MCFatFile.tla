----------------------------- MODULE MCFatFile ------------------------------
(***************************************************************************)
(* Sectors of two bytes, two to a cluster.  Besides an empty file and one  *)
(* whose clusters lie out of order, three that a damaged volume has: one   *)
(* with a circular chain, one whose chain ends too early, and one that     *)
(* starts at no cluster at all.                                            *)
(***************************************************************************)
EXTENDS FatFile, TLC

EndOfChain == 15

MCFat == 2 :> 5 @@ 3 :> 2 @@ 4 :> 6 @@ 5 :> EndOfChain @@ 6 :> 4 @@ 7 :> 0

MCFile(clst, size) == [org_clust |-> clst, fsize |-> size]

MCFiles == {MCFile(0, 0), MCFile(3, 11), MCFile(4, 12), MCFile(2, 9), MCFile(0, 3)}

MCChain ==
    [f \in Files |->
        LET clust[k \in 0 .. MaxChain] == IF k = 0 THEN f.org_clust ELSE get_fat(clust[k - 1])
        IN  clust]
=============================================================================
