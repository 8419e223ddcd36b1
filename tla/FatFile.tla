------------------------------ MODULE FatFile -------------------------------
(***************************************************************************)
(* Reading and seeking in the open file of a mounted FAT volume: pf_open,  *)
(* pf_read and pf_lseek of pff.c.                                          *)
(*                                                                         *)
(* The volume keeps three things about its file that must agree: fptr, the *)
(* position; curr_clust, the cluster the last byte passed lies in; dsect,  *)
(* the sector of the next byte.  They agree only in part: on a sector      *)
(* boundary dsect is stale, on a cluster boundary curr_clust is the        *)
(* cluster before, and at position 0 both are left from earlier.           *)
(*                                                                         *)
(* A byte of the disk is named by its sector and its offset, so a read     *)
(* from a wrong place shows.  Any access to the disk may fail.  One        *)
(* iteration of a loop is one step.                                        *)
(***************************************************************************)
EXTENDS Integers, Sequences

CONSTANTS
    SectorSize,     \* 512
    csize,          \* sectors in a cluster, a power of two
    n_fatent,       \* entries of the file allocation table
    database,       \* first sector of the data area
    Fat,            \* the table: from clusters 2 .. n_fatent - 1 to their links
    Files,          \* the files of the volume: [org_clust, fsize]
    MaxChain,       \* bound: the longest file has this many clusters
    Chain,          \* from files to their clusters, numbered from 0
    ReadSizes,      \* the sizes reads ask for
    SeekOffsets,    \* the offsets seeks ask for
    Buffers,        \* the addresses of the callers' buffers
    None            \* stands for no open file

bcs == csize * SectorSize

(* get_fat when the disk answers.  FatVolume models the table's encoding. *)
get_fat(clst) == IF clst \in 2 .. n_fatent - 1 THEN Fat[clst] ELSE 1

(* ... and with the disk failing: 1 reports the error. *)
get_fatResults(clst) == {get_fat(clst), 1}

(* clst - 2 wraps for clusters 0 and 1, and is then out of range too. *)
clust2sect(clst) ==
    IF clst - 2 \in 0 .. n_fatent - 3 THEN (clst - 2) * csize + database ELSE 0

(* fptr / 512 & (csize - 1): the sector of a position inside its cluster. *)
SectorOffset(p) == (p \div SectorSize) % csize

(* The byte of a file at a position: what the volume's layout says. *)
Byte(f, p) ==
    <<clust2sect(Chain[f][p \div bcs]) + SectorOffset(p), p % SectorSize>>

Size(f) == f.fsize

ASSUME GeometryAssumption ==
    /\ SectorSize \in Nat \ {0}
    /\ csize \in Nat \ {0}
    /\ n_fatent \in Nat \ {0, 1}
    /\ database \in Nat \ {0}
    /\ Fat \in [2 .. n_fatent - 1 -> Nat]

ASSUME FilesAssumption ==
    /\ MaxChain \in Nat
    /\ Files \subseteq [org_clust : Nat, fsize : 0 .. MaxChain * bcs]
    /\ None \notin Files
    /\ Chain \in [Files -> [0 .. MaxChain -> Nat]]
    /\ \A f \in Files :
           /\ Chain[f][0] = f.org_clust
           /\ \A k \in 0 .. MaxChain - 1 : Chain[f][k + 1] = get_fat(Chain[f][k])

ASSUME RequestsAssumption ==
    ReadSizes \subseteq Nat /\ SeekOffsets \subseteq Nat /\ Buffers \subseteq Nat

VARIABLES
    file,           \* the open file, None when the flag FA_OPENED is clear
    fptr,
    curr_clust,
    dsect,
    pc,             \* "idle", or the call in progress: "read", "lseek"
    call,           \* the last call of either: its argument, and fptr then
    buff,           \* the last read's buffer
    left,           \* btr, or what pf_lseek still has to advance
    br,             \* the bytes read
    buf,            \* what was written to memory, from addresses to bytes
    res             \* the result of the last call

vars == <<file, fptr, curr_clust, dsect, pc, call, left, buff, br, buf, res>>

Smaller(a, b) == IF a <= b THEN a ELSE b

Init ==
    /\ file = None
    /\ fptr = 0
    /\ curr_clust = 0
    /\ dsect = 0
    /\ pc = "idle"
    /\ call = [arg |-> 0, ifptr |-> 0]
    /\ buff = 0
    /\ left = 0
    /\ br = 0
    /\ buf = << >>
    /\ res = "OK"

(* ABORT(FR_DISK_ERR): the file is closed. *)
Abort ==
    /\ file' = None
    /\ pc' = "idle"
    /\ left' = 0
    /\ res' = "DISK_ERR"

Return ==
    /\ pc' = "idle"
    /\ left' = 0
    /\ res' = "OK"

-----------------------------------------------------------------------------

(* pf_open clears the flag first.  What follow_path finds is the subject of *)
(* FatDir; here it is one of the files, or nothing. *)
pf_open ==
    /\ pc = "idle"
    /\ \/ \E f \in Files : file' = f /\ fptr' = 0 /\ res' = "OK"
       \/ file' = None /\ res' \in {"NO_FILE", "DISK_ERR"} /\ UNCHANGED fptr
    /\ UNCHANGED <<curr_clust, dsect, pc, call, left, buff, br, buf>>

(* pf_read up to its loop. *)
ReadCall(n, b) ==
    /\ pc = "idle"
    /\ file # None
    /\ pc' = "read"
    /\ left' = Smaller(n, file.fsize - fptr)
    /\ br' = 0
    /\ buf' = << >>
    /\ call' = [arg |-> n, ifptr |-> fptr]
    /\ buff' = b
    /\ UNCHANGED <<file, fptr, curr_clust, dsect, res>>

(* Either call without an open file; pf_read still zeroes the count. *)
CallNotOpened ==
    /\ pc = "idle"
    /\ file = None
    /\ res' = "NOT_OPENED"
    /\ (br' = 0 /\ buf' = << >>) \/ UNCHANGED <<br, buf>>
    /\ UNCHANGED <<file, fptr, curr_clust, dsect, pc, call, left, buff>>

(* The cluster a read continues in, when it is on a sector boundary: a new  *)
(* one on a cluster boundary, the current one elsewhere. *)
ReadClusters ==
    IF SectorOffset(fptr) # 0 THEN {curr_clust}
    ELSE IF fptr = 0 THEN {file.org_clust}
    ELSE get_fatResults(curr_clust)

(* Faulty variant: the copy starts with the first byte of the sector. *)
disk_readpFromStart(at, sector, offset, count) ==
    [a \in (DOMAIN buf) \cup (at .. at + count - 1) |->
        IF a \in at .. at + count - 1 THEN <<sector, a - at>> ELSE buf[a]]

(* disk_readp's copy of count bytes to address at; pf_read passes a null    *)
(* address on as it is, and then does not advance it. *)
disk_readp(at, sector, offset, count) ==
    [a \in (DOMAIN buf) \cup (at .. at + count - 1) |->
        IF a \in at .. at + count - 1 THEN <<sector, offset + a - at>> ELSE buf[a]]

rbuff == IF buff = 0 THEN 0 ELSE buff + br

(* The rest of an iteration: read what the sector has, or as much as is asked. *)
Transfer(sector) ==
    LET rcnt == Smaller(SectorSize - (fptr % SectorSize), left)
    IN  /\ dsect' = sector
        /\ \/ /\ buf' = disk_readp(rbuff, sector, fptr % SectorSize, rcnt)
              /\ fptr' = fptr + rcnt
              /\ left' = left - rcnt
              /\ br' = br + rcnt
              /\ UNCHANGED <<file, pc, res>>
           \/ Abort /\ UNCHANGED <<fptr, br, buf>>

(* One iteration of pf_read's loop.  A link to cluster 0 or 1, a failed     *)
(* lookup among them, ends the read before curr_clust is changed; a link    *)
(* out of range is stored, and then refused by clust2sect. *)
ReadIteration ==
    /\ pc = "read"
    /\ left > 0
    /\ IF fptr % SectorSize = 0
       THEN \E clst \in ReadClusters :
                IF clst <= 1 THEN Abort /\ UNCHANGED <<fptr, curr_clust, dsect, br, buf>>
                ELSE /\ curr_clust' = clst
                     /\ IF clust2sect(clst) = 0
                        THEN Abort /\ UNCHANGED <<fptr, dsect, br, buf>>
                        ELSE Transfer(clust2sect(clst) + SectorOffset(fptr))
       ELSE Transfer(dsect) /\ UNCHANGED curr_clust
    /\ UNCHANGED <<call, buff>>

ReadReturn ==
    /\ pc = "read"
    /\ left = 0
    /\ Return
    /\ UNCHANGED <<file, fptr, curr_clust, dsect, call, buff, br, buf>>

-----------------------------------------------------------------------------

(* Faulty variant: a position on a boundary belongs to the cluster after. *)
FromCurrentRoundsUp(ofs) == fptr > 0 /\ ofs \div bcs >= fptr \div bcs

(* A seek can go on from the current cluster when it ends in that cluster   *)
(* or a later one; a position on a boundary belongs to the cluster before. *)
FromCurrent(ofs) == fptr > 0 /\ (ofs - 1) \div bcs >= (fptr - 1) \div bcs

(* pf_lseek up to its loop, when it does not end at the top of the file. *)
LseekCall(n) ==
    LET ofs == Smaller(n, file.fsize)
        base == ((fptr - 1) \div bcs) * bcs
    IN  /\ pc = "idle"
        /\ file # None
        /\ ofs > 0
        /\ pc' = "lseek"
        /\ IF FromCurrent(ofs)
           THEN fptr' = base /\ left' = ofs - base /\ UNCHANGED curr_clust
           ELSE fptr' = 0 /\ left' = ofs /\ curr_clust' = file.org_clust
        /\ call' = [arg |-> n, ifptr |-> fptr]
        /\ UNCHANGED <<file, dsect, buff, br, buf, res>>

(* pf_lseek to the top of the file: neither cluster nor sector is touched. *)
LseekTop(n) ==
    /\ pc = "idle"
    /\ file # None
    /\ Smaller(n, file.fsize) = 0
    /\ fptr' = 0
    /\ res' = "OK"
    /\ call' = [arg |-> n, ifptr |-> fptr]
    /\ UNCHANGED <<file, curr_clust, dsect, pc, left, buff, br, buf>>

(* Faulty variant: following the chain does not count the clusters passed. *)
LseekFollowForever ==
    /\ pc = "lseek"
    /\ left > bcs
    /\ \E clst \in get_fatResults(curr_clust) :
           IF clst <= 1 \/ clst >= n_fatent THEN Abort /\ UNCHANGED <<fptr, curr_clust>>
           ELSE curr_clust' = clst /\ UNCHANGED <<file, fptr, left, pc, res>>
    /\ UNCHANGED <<dsect, call, buff, br, buf>>

(* One iteration of pf_lseek's loop. *)
LseekFollow ==
    /\ pc = "lseek"
    /\ left > bcs
    /\ \E clst \in get_fatResults(curr_clust) :
           IF clst <= 1 \/ clst >= n_fatent THEN Abort /\ UNCHANGED <<fptr, curr_clust>>
           ELSE /\ curr_clust' = clst
                /\ fptr' = fptr + bcs
                /\ left' = left - bcs
                /\ UNCHANGED <<file, pc, res>>
    /\ UNCHANGED <<dsect, call, buff, br, buf>>

(* The end of pf_lseek. *)
LseekEnd ==
    /\ pc = "lseek"
    /\ left <= bcs
    /\ fptr' = fptr + left
    /\ IF clust2sect(curr_clust) = 0
       THEN Abort /\ UNCHANGED dsect
       ELSE /\ dsect' = clust2sect(curr_clust) + SectorOffset(fptr')
            /\ Return
            /\ UNCHANGED file
    /\ UNCHANGED <<curr_clust, call, buff, br, buf>>

Next ==
    \/ pf_open
    \/ \E n \in ReadSizes, b \in Buffers : ReadCall(n, b)
    \/ CallNotOpened
    \/ ReadIteration
    \/ ReadReturn
    \/ \E n \in SeekOffsets : LseekCall(n) \/ LseekTop(n)
    \/ LseekFollow
    \/ LseekEnd

(* Only the loops are fair: nobody has to call, but a call runs on. *)
Spec == Init /\ [][Next]_vars
             /\ WF_vars(ReadIteration) /\ WF_vars(ReadReturn)
             /\ WF_vars(LseekFollow) /\ WF_vars(LseekEnd)

-----------------------------------------------------------------------------

TypeOK ==
    /\ file \in Files \cup {None}
    /\ fptr \in 0 .. MaxChain * bcs
    /\ curr_clust \in Nat
    /\ dsect \in Nat
    /\ pc \in {"idle", "read", "lseek"}
    /\ call \in [arg : Nat, ifptr : 0 .. MaxChain * bcs]
    /\ buff \in Nat
    /\ left \in Nat
    /\ br \in Nat
    /\ res \in {"OK", "NO_FILE", "DISK_ERR", "NOT_OPENED"}

(* Position, cluster and sector agree as far as the next read or seek       *)
(* relies on them, after any mixture of reads, seeks and errors: the        *)
(* cluster is the one of the byte before fptr, and inside a sector dsect    *)
(* is the sector of fptr. *)
PositionsAgree ==
    file # None =>
        /\ fptr <= file.fsize
        /\ pc # "lseek" /\ fptr > 0 =>
               /\ curr_clust = Chain[file][(fptr - 1) \div bcs]
               /\ clust2sect(curr_clust) # 0
        /\ pc # "lseek" /\ fptr % SectorSize # 0 => dsect = Byte(file, fptr)[1]

(* Inside pf_lseek: the chain has been followed as far as fptr says, and    *)
(* what is left leads to the offset asked for, clipped to the file. *)
SeekOnItsWay ==
    pc = "lseek" =>
        /\ fptr % bcs = 0
        /\ curr_clust = Chain[file][fptr \div bcs]
        /\ left > 0
        /\ fptr + left = Smaller(call.arg, file.fsize)

(* A read writes the caller's buffer and no other memory: the bytes it      *)
(* counts, from the start of the buffer, and no more than it was asked. *)
WritesOnlyBuffer ==
    /\ DOMAIN buf = buff .. buff + br - 1
    /\ pc = "read" => br + left <= call.arg

(* A call that returns FR_OK did all it was asked, or reached the end of    *)
(* the file: a read counts the bytes it advanced by, a seek arrives. *)
CallsComplete ==
    [][ /\ ReadReturn => /\ br = Smaller(call.arg, file.fsize - call.ifptr)
                         /\ fptr = call.ifptr + br
        /\ LseekEnd /\ res' = "OK" /\ file' # None => fptr' = Smaller(call.arg, file.fsize)
      ]_vars

(* No call loops forever, whatever the chain: a chain may be circular. *)
CallsReturn == pc # "idle" ~> pc = "idle"

(* The open file is a sequence of bytes with a position: pf_read delivers   *)
(* the file's bytes in order, wherever its clusters lie and however the     *)
(* position was reached.  A seek moves the position when it returns. *)
got == [i \in 1 .. br |-> buf[buff + i - 1]]

AbstractFile == INSTANCE FileSpec WITH
    pos <- IF file = None THEN 0 ELSE IF pc = "lseek" THEN call.ifptr ELSE fptr,
    want <- IF pc = "read" THEN left ELSE 0

ImplementsFile == AbstractFile!Spec
=============================================================================
