----------------------------- MODULE MCFatVolume -----------------------------
(***************************************************************************)
(* Disks with a volume in sector 0 or in a partition, of sizes around the  *)
(* borders of the three types; and damaged ones: clusters of no sectors,   *)
(* areas larger than the volume, a boot record without a partition, and a  *)
(* partition that holds no volume.                                         *)
(***************************************************************************)
EXTENDS FatVolume, TLC

MCParams(csize, rootents, total, sz) ==
    [csize |-> csize, rsvd |-> 1, fats |-> 2, rootents |-> rootents,
     tot16 |-> IF total < 65536 THEN total ELSE 0, tot32 |-> total,
     sz16 |-> IF rootents = 0 THEN 0 ELSE sz, sz32 |-> sz, rootclus |-> 2]

MCBlank ==
    [aa55 |-> FALSE, fat |-> FALSE, fat32 |-> FALSE, part |-> 0, start |-> 0,
     bpb |-> MCParams(0, 0, 0, 0)]

MCVolume(b) == [MCBlank EXCEPT !.aa55 = TRUE, !.fat = b.rootents # 0, !.fat32 = b.rootents = 0, !.bpb = b]
MCTable(part, start) == [MCBlank EXCEPT !.aa55 = TRUE, !.part = part, !.start = start]

(* Volumes with n clusters, and with less than a cluster left over. *)
MCSized(csize, rootents, sz, n) ==
    {MCParams(csize, rootents, 1 + 2 * sz + rootents \div 16 + csize * n + left, sz) :
        left \in {0, csize - 1}}

MCSound ==
    UNION {MCSized(4, 32, 12, n) : n \in {1, 4084, 4085, 4086}}
    \cup UNION {MCSized(2, 512, 256, n) : n \in {4085, 4086, 65524, 65525}}
    \cup UNION {MCSized(8, 0, 550, n) : n \in {65524, 65525, 70000}}

MCDamaged == {MCParams(0, 32, 500, 12), MCParams(4, 32, 10, 12)}

MCDisks ==
    {0 :> MCVolume(b) : b \in MCSound \cup MCDamaged}
    \cup {0 :> MCTable(6, 63) @@ 63 :> MCVolume(b) : b \in MCSound \cup MCDamaged}
    \cup {0 :> MCTable(0, 63), 0 :> MCTable(6, 63), 0 :> MCTable(6, 63) @@ 63 :> MCTable(0, 0),
          0 :> MCTable(6, 0), 0 :> MCBlank}
=============================================================================
