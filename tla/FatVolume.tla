------------------------------ MODULE FatVolume ------------------------------
(***************************************************************************)
(* Mounting a FAT volume and following its table (pff.c): pf_mount and     *)
(* check_fs find the volume, in sector 0 or in the first partition,        *)
(* compute where its areas lie and choose its type; get_fat then reads     *)
(* links of the table with what they computed.  One access to the disk is  *)
(* one step, and any of them may fail.                                     *)
(*                                                                         *)
(* The table on disk is given by its links and packed the way the format   *)
(* has it: FAT12 has two entries in three bytes, so that one may lie       *)
(* across two sectors; FAT16 uses two bytes, FAT32 four, of which the four *)
(* high bits are not part of the link.  Which of the three a volume is     *)
(* made as follows from its number of clusters.                            *)
(***************************************************************************)
EXTENDS Integers, Sequences

CONSTANTS
    DwordMod,       \* 2^32
    Disks,          \* the disks to consider: from sectors to boot records
    Blank,          \* the boot record of any other sector
    Clusters,       \* clusters get_fat is asked for, next to the first and last ones
    Seeds,          \* numbers from which the contents of tables are made
    Null            \* no volume is mounted

(* A boot record is [aa55, fat, fat32, part, start, bpb]: whether it has    *)
(* the signature and either file system mark, the first partition's type    *)
(* and start, and the parameters [csize, rsvd, fats, rootents, tot16,       *)
(* tot32, sz16, sz32, rootclus].                                            *)

VARIABLES
    disk, seed,
    FatFs,          \* the mounted volume, or Null
    pc,             \* "idle", "fault", or the access to make next
    bsect,          \* the sector examined
    table,          \* whether the partition table has been consulted
    res,            \* the result of the last mount
    clst,           \* the argument of get_fat
    todo,           \* the disk accesses it has still to make
    buf,            \* the bytes it has read
    ret             \* what it returned last

mountVars == <<FatFs, bsect, table, res>>
tableVars == <<clst, todo, buf, ret>>
vars == <<disk, seed, pc, mountVars, tableVars>>

Record(sect) == IF sect \in DOMAIN disk THEN disk[sect] ELSE Blank

Init ==
    /\ disk \in Disks
    /\ seed \in Seeds
    /\ FatFs = Null
    /\ pc = "idle"
    /\ bsect = 0
    /\ table = FALSE
    /\ res = "NOT_ENABLED"
    /\ clst = 0
    /\ todo = << >>
    /\ buf = << >>
    /\ ret = 1

(* pf_mount up to the first access.  disk_initialize always succeeds. *)
MountCall ==
    /\ pc = "idle"
    /\ FatFs' = Null
    /\ pc' = "signature"
    /\ bsect' = 0
    /\ table' = FALSE
    /\ UNCHANGED <<disk, seed, res, tableVars>>

Return(r) == pc' = "idle" /\ res' = r

(* check_fs returns fmt for bsect.  A boot record that is not FAT's leads  *)
(* to the partition table, the first time. *)
Checked(fmt) ==
    CASE fmt = 0 -> pc' = "parameters" /\ UNCHANGED res
      [] fmt = 1 /\ ~table -> pc' = "partition" /\ UNCHANGED res
      [] fmt = 3 -> Return("DISK_ERR")
      [] OTHER -> Return("NO_FILESYSTEM")

ReadSignature ==
    /\ pc = "signature"
    /\ \/ Checked(3)
       \/ IF Record(bsect).aa55 THEN pc' = "mark" /\ UNCHANGED res ELSE Checked(2)
    /\ UNCHANGED <<disk, seed, FatFs, bsect, table, tableVars>>

(* A failure to read either mark counts as not having it. *)
ReadMark ==
    /\ pc = "mark"
    /\ \/ pc' = "mark32" /\ UNCHANGED res
       \/ Record(bsect).fat /\ Checked(0)
    /\ UNCHANGED <<disk, seed, FatFs, bsect, table, tableVars>>

ReadMark32 ==
    /\ pc = "mark32"
    /\ Checked(1) \/ (Record(bsect).fat32 /\ Checked(0))
    /\ UNCHANGED <<disk, seed, FatFs, bsect, table, tableVars>>

ReadPartition ==
    /\ pc = "partition"
    /\ table' = TRUE
    /\ \/ Return("DISK_ERR") /\ UNCHANGED bsect
       \/ IF Record(0).part # 0
          THEN bsect' = Record(0).start /\ pc' = "signature" /\ UNCHANGED res
          ELSE Return("NO_FILESYSTEM") /\ UNCHANGED bsect
    /\ UNCHANGED <<disk, seed, FatFs, tableVars>>

-----------------------------------------------------------------------------

Either(word, dword) == IF word # 0 THEN word ELSE dword

FatArea(b) == (Either(b.sz16, b.sz32) * b.fats) % DwordMod

(* Faulty variant: the root directory is not taken off the data area. *)
MaxClusterNoRoot(b) ==
    ((Either(b.tot16, b.tot32) - b.rsvd - FatArea(b)) % DwordMod) \div b.csize + 2

(* mclst, last cluster number + 1. *)
MaxCluster(b) ==
    LET sectors == (Either(b.tot16, b.tot32) - b.rsvd - FatArea(b) - b.rootents \div 16) % DwordMod
    IN  (sectors \div b.csize + 2) % DwordMod

(* 0xFF7, 0xFF8 and 0xFFF7: a count of 0xFF7 itself has no type. *)
SubType(mclst) ==
    CASE mclst < 4087 -> "FAT12"
      [] mclst >= 4088 /\ mclst < 65527 -> "FAT16"
      [] mclst >= 65527 -> "FAT32"
      [] OTHER -> Null

Geometry(sect, b) ==
    LET fatbase == (sect + b.rsvd) % DwordMod
        type == SubType(MaxCluster(b))
    IN  [fs_type |-> type,
         csize |-> b.csize,
         n_rootdir |-> b.rootents,
         n_fatent |-> MaxCluster(b),
         fatbase |-> fatbase,
         dirbase |-> IF type = "FAT32" THEN b.rootclus ELSE (fatbase + FatArea(b)) % DwordMod,
         database |-> (fatbase + FatArea(b) + b.rootents \div 16) % DwordMod]

(* The rest of pf_mount.  A cluster size of 0 is divided by. *)
ReadParameters ==
    LET b == Record(bsect).bpb
    IN  /\ pc = "parameters"
        /\ \/ Return("DISK_ERR") /\ UNCHANGED FatFs
           \/ IF b.csize = 0 THEN pc' = "fault" /\ UNCHANGED <<FatFs, res>>
              ELSE IF SubType(MaxCluster(b)) = Null
              THEN Return("NO_FILESYSTEM") /\ UNCHANGED FatFs
              ELSE FatFs' = Geometry(bsect, b) /\ Return("OK")
        /\ UNCHANGED <<disk, seed, bsect, table, tableVars>>

-----------------------------------------------------------------------------

(* What the volume's table holds, by the format. *)

Width(type) == CASE type = "FAT12" -> 12 [] type = "FAT16" -> 16 [] type = "FAT32" -> 28

(* The links of a table, one different from the next. *)
Link(type, c) == (seed * (c + 1)) % (2 ^ Width(type))

(* The bits above the link in a FAT32 entry. *)
Reserved(c) == c % 8

Nibble(j) == (Link("FAT12", j \div 3) \div (16 ^ (j % 3))) % 16

TableByte(type, b) ==
    CASE type = "FAT12" -> Nibble(2 * b) + 16 * Nibble(2 * b + 1)
      [] type = "FAT16" -> (Link(type, b \div 2) \div (256 ^ (b % 2))) % 256
      [] type = "FAT32" ->
            ((Reserved(b \div 4) * 2 ^ 28 + Link(type, b \div 4)) \div (256 ^ (b % 4))) % 256

(* The type a volume of so many clusters is made as. *)
MadeAs(clusters) ==
    IF clusters < 4085 THEN "FAT12" ELSE IF clusters < 65525 THEN "FAT16" ELSE "FAT32"

(* Byte number ofs of a sector of the disk, in the buffer of disk_readp:    *)
(* zero past the sector's end, and outside of the table. *)
DiskByte(sector, ofs) ==
    LET b == Record(bsect).bpb
        first == bsect + b.rsvd
        clusters == (Either(b.tot16, b.tot32) - b.rsvd - Either(b.sz16, b.sz32) * b.fats
                       - b.rootents \div 16) \div b.csize
    IN  IF ofs < 512 /\ sector \in first .. first + Either(b.sz16, b.sz32) - 1
        THEN TableByte(MadeAs(clusters), (sector - first) * 512 + ofs)
        ELSE 0

-----------------------------------------------------------------------------

(* get_fat. *)

Access(sector, ofs, count) == [sector |-> sector, ofs |-> ofs, count |-> count]

(* Faulty variant: two bytes are read at once wherever they start. *)
AccessesWhole(c) ==
    LET base == FatFs.fatbase
        bc == c + c \div 2
    IN  CASE FatFs.fs_type = "FAT12" -> <<Access(base + bc \div 512, bc % 512, 2)>>
          [] FatFs.fs_type = "FAT16" -> <<Access(base + c \div 256, (c % 256) * 2, 2)>>
          [] FatFs.fs_type = "FAT32" -> <<Access(base + c \div 128, (c % 128) * 4, 4)>>

(* The calls of disk_readp. *)
Accesses(c) ==
    LET base == FatFs.fatbase
        bc == c + c \div 2
    IN  CASE FatFs.fs_type = "FAT12" ->
                IF bc % 512 # 511 THEN <<Access(base + bc \div 512, bc % 512, 2)>>
                ELSE <<Access(base + bc \div 512, 511, 1), Access(base + bc \div 512 + 1, 0, 1)>>
          [] FatFs.fs_type = "FAT16" -> <<Access(base + c \div 256, (c % 256) * 2, 2)>>
          [] FatFs.fs_type = "FAT32" -> <<Access(base + c \div 128, (c % 128) * 4, 4)>>

(* The call, up to the first access: the range check.  Callers have looked  *)
(* whether a volume is mounted. *)
GetFatCall(c) ==
    /\ pc = "idle"
    /\ FatFs # Null
    /\ clst' = c
    /\ buf' = << >>
    /\ ret' = 1
    /\ IF c < 2 \/ c >= FatFs.n_fatent
       THEN UNCHANGED <<pc, todo>>
       ELSE pc' = "entry" /\ todo' = Accesses(c)
    /\ UNCHANGED <<disk, seed, mountVars>>

disk_readp(a) == [k \in 1 .. a.count |-> DiskByte(a.sector, a.ofs + k - 1)]

ReadEntry ==
    /\ pc = "entry"
    /\ todo # << >>
    /\ \/ buf' = buf \o disk_readp(Head(todo)) /\ todo' = Tail(todo) /\ UNCHANGED pc
       \/ pc' = "idle" /\ buf' = << >> /\ todo' = << >>
    /\ UNCHANGED <<disk, seed, mountVars, clst, ret>>

ld_word(p) == p[2] * 256 + p[1]

(* ld_dword(p) & 0x0FFFFFFF *)
ld_dword28(p) == (((p[4] % 16) * 256 + p[3]) * 256 + p[2]) * 256 + p[1]

Decode(c, p) ==
    CASE FatFs.fs_type = "FAT12" -> IF c % 2 = 1 THEN ld_word(p) \div 16 ELSE ld_word(p) % 4096
      [] FatFs.fs_type = "FAT16" -> ld_word(p)
      [] FatFs.fs_type = "FAT32" -> ld_dword28(p)

GetFatReturns ==
    /\ pc = "entry"
    /\ todo = << >>
    /\ pc' = "idle"
    /\ ret' = Decode(clst, buf)
    /\ buf' = << >>
    /\ UNCHANGED <<disk, seed, mountVars, clst, todo>>

-----------------------------------------------------------------------------

Ends(fs) == IF fs = Null THEN {} ELSE {fs.n_fatent - 1, fs.n_fatent, fs.n_fatent + 1}

Next ==
    \/ MountCall
    \/ ReadSignature
    \/ ReadMark
    \/ ReadMark32
    \/ ReadPartition
    \/ ReadParameters
    \/ \E c \in Clusters \cup Ends(FatFs) : GetFatCall(c)
    \/ ReadEntry
    \/ GetFatReturns

Spec == Init /\ [][Next]_vars

-----------------------------------------------------------------------------

(* The parameters of a volume are sound when its areas fit into it. *)
Sound(b) ==
    /\ b.csize # 0
    /\ b.rootents % 16 = 0
    /\ b.rsvd + Either(b.sz16, b.sz32) * b.fats + b.rootents \div 16 <= Either(b.tot16, b.tot32)

(* The areas of a mounted volume follow each other, in the order reserved   *)
(* sectors, tables, root directory, data, and its last cluster ends inside  *)
(* the volume, with less than a cluster unused behind it; and there is a    *)
(* volume exactly if the last pf_mount that ended found one, whatever was   *)
(* mounted before and wherever a read failed (pf_mount). *)
MountedAsMade ==
    LET b == Record(bsect).bpb
        dirs == bsect + b.rsvd + Either(b.sz16, b.sz32) * b.fats
        end == FatFs.database + (FatFs.n_fatent - 2) * FatFs.csize
    IN  /\ pc = "idle" => (FatFs # Null <=> res = "OK")
        /\ FatFs # Null /\ Sound(b) =>
              /\ FatFs.fatbase = bsect + b.rsvd
              /\ FatFs.fs_type # "FAT32" => FatFs.dirbase = dirs
              /\ FatFs.database = dirs + b.rootents \div 16
              /\ bsect + Either(b.tot16, b.tot32) - end \in 0 .. b.csize - 1

(* The table has room for an entry of every cluster. *)
Roomy(b, fs) ==
    8 * 512 * Either(b.sz16, b.sz32) >=
        fs.n_fatent * (CASE fs.fs_type = "FAT12" -> 12 [] fs.fs_type = "FAT16" -> 16 [] OTHER -> 32)

(* get_fat returns the link the table on disk has for the cluster: pf_mount *)
(* found the table and its type, every access stays in its sector, also     *)
(* where an entry of FAT12 lies across two, and the bytes are put together  *)
(* as the format has it.  It speaks of volumes whose areas fit and whose    *)
(* table has room for their clusters, up to the last one. *)
LinksAsStored ==
    [][ LET b == Record(bsect).bpb
        IN  GetFatReturns /\ Sound(b) /\ Roomy(b, FatFs)
                => ret' = Link(MadeAs(FatFs.n_fatent - 2), clst) ]_vars
=============================================================================
