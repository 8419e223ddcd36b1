------------------------------- MODULE FatDir -------------------------------
(***************************************************************************)
(* Directories of a mounted FAT volume: dir_rewind, dir_next, dir_find,    *)
(* dir_read, follow_path, pf_opendir, pf_readdir and the lookup of pf_open *)
(* (pff.c).                                                                *)
(*                                                                         *)
(* A directory is a table of entries, either the fixed root table of a     *)
(* FAT12 or FAT16 volume or a chain of clusters.  A DIR object walks it    *)
(* with two positions, the index of an entry and the sector it is in,      *)
(* which the code advances separately.  Names are values, and a path       *)
(* is a sequence of them.  An iteration of dir_find or dir_read is one     *)
(* step, with all that follows it up to the next; any access to the disk   *)
(* may fail.                                                               *)
(***************************************************************************)
EXTENDS Integers, Sequences, SequencesExt

CONSTANTS
    PerSector,      \* entries in a sector: 16
    IndexMod,       \* 2^16: the index is a WORD
    HighWord,       \* 2^16: what the high word of a cluster number counts
    Volumes,        \* the volumes to consider
    Paths,          \* the paths callers ask for, as sequences of names
    MaxListed       \* bound: a caller lists this many entries before it rewinds

(* A volume is [fat32, csize, n_rootdir, n_fatent, dirbase, database, fat,  *)
(* sectors], where fat has the links and sectors the entries of the sectors *)
(* that belong to directories.  An entry is [name, attr, hi, lo]; the names *)
(* End (first byte 0), Deleted (0xE5) and Dot ('.') are told apart. *)

VARIABLES
    vol,            \* the mounted volume
    dj,             \* the DIR objects: "opendir" is the caller's, "open" is pf_open's own
    pc,             \* "idle", or the loop that runs: "find", "read"
    op,             \* who runs dir_find: "open" or "opendir"
    path,           \* the segments of the path still to find
    res,            \* the result of the last call
    dir,            \* the entry found, or listed, by the last call
    asked,          \* history: the last path looked up, by caller
    listed,         \* history: the entries listed since the directory was rewound
    reported        \* history: what the listing reported so far: "none" before there
                    \* is one, "more", "end", or "error" once a call failed

vars == <<vol, dj, pc, op, path, res, dir, asked, listed, reported>>

Entry(name, attr, hi, lo) == [name |-> name, attr |-> attr, hi |-> hi, lo |-> lo]

EndMark == Entry("End", "file", 0, 0)

(* What the bytes of any other sector look like when read as an entry. *)
Foreign == Entry("Foreign", "file", 0, 0)

EntryAt(v, sect, index) ==
    IF sect \in DOMAIN v.sectors THEN v.sectors[sect][index % PerSector] ELSE Foreign

get_fat(v, clst) == IF clst \in 2 .. v.n_fatent - 1 THEN v.fat[clst] ELSE 1

clust2sect(v, clst) ==
    IF clst - 2 \in 0 .. v.n_fatent - 3 THEN (clst - 2) * v.csize + v.database ELSE 0

(* Only FAT32 entries have a high word. *)
get_clust(e) == (IF vol.fat32 THEN e.hi * HighWord ELSE 0) + e.lo

-----------------------------------------------------------------------------

(* The two moves of a DIR object, as its value after and the result. *)

RootOr(v, clst) == IF clst = 0 /\ v.fat32 THEN v.dirbase ELSE clst

dir_rewind(d) ==
    IF d.sclust = 1 \/ d.sclust >= vol.n_fatent
    THEN [res |-> "DISK_ERR", dj |-> [d EXCEPT !.index = 0]]
    ELSE LET clst == RootOr(vol, d.sclust)
         IN  [res |-> "OK",
              dj |-> [d EXCEPT !.index = 0, !.clust = clst,
                               !.sect = IF clst # 0 THEN clust2sect(vol, clst) ELSE vol.dirbase]]

NextIndex(d) == (d.index + 1) % IndexMod

(* Faulty variant: the index is not checked for having wrapped. *)
NoNextEver(d, i) == d.sect = 0

NoNext(d, i) == i = 0 \/ d.sect = 0

ClusterChanged(i) == (i \div PerSector) % vol.csize = 0

(* The sector moves on before it is known whether the table does; link is  *)
(* what get_fat(d.clust) returns if it is called. *)
dir_next(d, link) ==
    LET i == NextIndex(d)
        nextSector == [d EXCEPT !.sect = @ + 1]
        Is(r, e) == [res |-> r, dj |-> e]
    IN  IF NoNext(d, i) THEN Is("NO_FILE", d)
        ELSE IF i % PerSector # 0 THEN Is("OK", [d EXCEPT !.index = i])
        ELSE IF d.clust = 0 /\ i >= vol.n_rootdir THEN Is("NO_FILE", nextSector)
        ELSE IF d.clust = 0 \/ ~ClusterChanged(i) THEN Is("OK", [nextSector EXCEPT !.index = i])
        ELSE IF link <= 1 THEN Is("DISK_ERR", nextSector)
        ELSE IF link >= vol.n_fatent THEN Is("NO_FILE", nextSector)
        ELSE Is("OK", [d EXCEPT !.index = i, !.clust = link, !.sect = clust2sect(vol, link)])

Links(d) == {get_fat(vol, d.clust), 1}

-----------------------------------------------------------------------------

NoDir == [sclust |-> 0, clust |-> 0, sect |-> 0, index |-> 0]

Init ==
    /\ vol \in Volumes
    /\ dj = [w \in {"open", "opendir"} |-> NoDir]
    /\ pc = "idle"
    /\ op = "open"
    /\ path = << >>
    /\ res = "OK"
    /\ dir = EndMark
    /\ asked = << >>
    /\ listed = << >>
    /\ reported = "none"

(* The end of pf_open: a file must have been found.  Its DIR is discarded. *)
OpenReturns(d, r, e) ==
    /\ res' = IF r = "OK" /\ (e.name = "End" \/ e.attr = "dir") THEN "NO_FILE" ELSE r
    /\ dir' = e
    /\ dj' = [dj EXCEPT !.open = NoDir]
    /\ UNCHANGED <<listed, reported>>

(* The end of pf_opendir: the root or a directory found is rewound. *)
OpendirReturns(d, r, e) ==
    LET target == IF e.name = "End" THEN d ELSE [d EXCEPT !.sclust = get_clust(e)]
        rewound == dir_rewind(target)
    IN  /\ IF r = "OK" /\ (e.name = "End" \/ e.attr = "dir")
           THEN dj' = [dj EXCEPT !.opendir = rewound.dj] /\ res' = rewound.res
           ELSE /\ dj' = [dj EXCEPT !.opendir = d]
                /\ res' = IF r = "OK" THEN "NO_FILE" ELSE r
        /\ dir' = e
        /\ listed' = << >>
        /\ reported' = IF res' = "OK" THEN "more" ELSE "none"

(* follow_path returns to its caller, with the entry found. *)
LookupReturns(w, d, r, e) ==
    /\ pc' = "idle"
    /\ path' = << >>
    /\ IF w = "open" THEN OpenReturns(d, r, e) ELSE OpendirReturns(d, r, e)

(* dir_find begins on the segment at the head of segs. *)
BeginFind(w, d, segs) ==
    LET rewound == dir_rewind(d)
    IN  IF rewound.res # "OK" THEN LookupReturns(w, rewound.dj, rewound.res, EndMark)
        ELSE /\ pc' = "find"
             /\ path' = segs
             /\ dj' = [dj EXCEPT ![w] = rewound.dj]
             /\ IF w = "opendir" THEN listed' = << >> /\ reported' = "none"
                ELSE UNCHANGED <<listed, reported>>
             /\ UNCHANGED <<res, dir>>

(* pf_open and pf_opendir up to dir_find's loop.  The search starts at the  *)
(* root; without a segment it is the root itself. *)
Lookup(w, p) ==
    LET d == [dj[w] EXCEPT !.sclust = 0]
    IN  /\ pc = "idle"
        /\ op' = w
        /\ asked' = p
        /\ IF p = << >>
           THEN LET rewound == dir_rewind(d)
                IN  LookupReturns(w, rewound.dj, rewound.res, EndMark)
           ELSE BeginFind(w, d, p)
        /\ UNCHANGED vol

(* Faulty variant: a volume label is taken for a file. *)
MatchesLabel(e) == e.name = Head(path)

Matches(e) == e.attr # "vol" /\ e.name = Head(path)

(* One iteration of dir_find, and of follow_path when the segment matched. *)
FindStep ==
    LET d == dj[op]
        e == EntryAt(vol, d.sect, d.index)
    IN  /\ pc = "find"
        /\ \/ LookupReturns(op, d, "DISK_ERR", EndMark)
           \/ e.name = "End" /\ LookupReturns(op, d, "NO_FILE", EndMark)
           \/ /\ e.name # "End" /\ Matches(e)
              /\ CASE Len(path) = 1 -> LookupReturns(op, d, "OK", e)
                   [] Len(path) > 1 /\ e.attr # "dir" -> LookupReturns(op, d, "NO_FILE", EndMark)
                   [] OTHER -> BeginFind(op, [d EXCEPT !.sclust = get_clust(e)], Tail(path))
           \/ /\ e.name # "End" /\ ~Matches(e)
              /\ \E link \in Links(d) :
                     LET moved == dir_next(d, link)
                     IN  IF moved.res = "OK"
                         THEN /\ dj' = [dj EXCEPT ![op] = moved.dj]
                              /\ UNCHANGED <<pc, path, res, dir, listed, reported>>
                         ELSE LookupReturns(op, moved.dj, moved.res, EndMark)
        /\ UNCHANGED <<vol, op, asked>>

-----------------------------------------------------------------------------

ReaddirCall ==
    /\ pc = "idle"
    /\ reported # "none"
    /\ Len(listed) < MaxListed
    /\ pc' = "read"
    /\ UNCHANGED <<vol, dj, op, path, res, dir, asked, listed, reported>>

(* pf_readdir with no FILINFO. *)
ReaddirRewind ==
    LET rewound == dir_rewind(dj["opendir"])
    IN  /\ pc = "idle"
        /\ reported # "none"
        /\ dj' = [dj EXCEPT !.opendir = rewound.dj]
        /\ res' = rewound.res
        /\ listed' = << >>
        /\ reported' = IF rewound.res = "OK" THEN "more" ELSE "none"
        /\ UNCHANGED <<vol, pc, op, path, dir, asked>>

Report(r) == IF reported = "error" THEN "error" ELSE r

(* dir_read finds nothing: the sector is cleared, the name returned is     *)
(* empty, and the move that follows does nothing. *)
ReadNothing(d, r) ==
    /\ pc' = "idle"
    /\ dj' = [dj EXCEPT !.opendir = [d EXCEPT !.sect = 0]]
    /\ res' = IF r = "NO_FILE" THEN "OK" ELSE r
    /\ reported' = Report(IF r = "NO_FILE" THEN "end" ELSE "error")
    /\ UNCHANGED <<dir, listed>>

(* Faulty variant: deleted entries are listed. *)
ListableDeleted(e) == e.name # "Dot" /\ e.attr # "vol"

Listable(e) == e.name \notin {"Deleted", "Dot"} /\ e.attr # "vol"

(* One iteration of dir_read, and the rest of pf_readdir when it found an  *)
(* entry: the move to the next one, whose end of table is not reported. *)
ReadStep ==
    LET d == dj["opendir"]
        e == EntryAt(vol, d.sect, d.index)
    IN  /\ pc = "read"
        /\ \/ d.sect = 0 /\ ReadNothing(d, "NO_FILE")
           \/ d.sect # 0 /\ ReadNothing(d, "DISK_ERR")
           \/ d.sect # 0 /\ e.name = "End" /\ ReadNothing(d, "NO_FILE")
           \/ /\ d.sect # 0 /\ e.name # "End"
              /\ \E link \in Links(d) :
                     LET moved == dir_next(d, link)
                     IN  CASE Listable(e) ->
                                /\ pc' = "idle"
                                /\ dj' = [dj EXCEPT !.opendir = moved.dj]
                                /\ res' = IF moved.res = "DISK_ERR" THEN "DISK_ERR" ELSE "OK"
                                /\ dir' = e
                                /\ listed' = Append(listed, e)
                                /\ reported' = Report(IF res' = "OK" THEN "more" ELSE "error")
                           [] ~Listable(e) /\ moved.res = "OK" ->
                                /\ dj' = [dj EXCEPT !.opendir = moved.dj]
                                /\ UNCHANGED <<pc, res, dir, listed, reported>>
                           [] OTHER -> ReadNothing(moved.dj, moved.res)
        /\ UNCHANGED <<vol, op, path, asked>>

Next ==
    \/ \E w \in {"open", "opendir"}, p \in Paths : Lookup(w, p)
    \/ FindStep
    \/ ReaddirCall
    \/ ReaddirRewind
    \/ ReadStep

(* A call in progress runs on; nobody has to call. *)
Spec == Init /\ [][Next]_vars /\ WF_vars(FindStep) /\ WF_vars(ReadStep)

-----------------------------------------------------------------------------

(* What the volume holds, read from its layout: the sector of entry i of    *)
(* the directory that starts at cluster c (0: the root), 0 past its table. *)
SectorAt(v, c, i) ==
    LET first == RootOr(v, c)
        clust[k \in 0 .. IndexMod] == IF k = 0 THEN first ELSE get_fat(v, clust[k - 1])
        sect == clust2sect(v, clust[i \div (PerSector * v.csize)])
    IN  CASE first = 0 -> IF i < v.n_rootdir THEN v.dirbase + (i \div PerSector) ELSE 0
          [] first # 0 /\ sect = 0 -> 0
          [] OTHER -> sect + ((i \div PerSector) % v.csize)

(* The entries of a directory, up to its end. *)
Contents(v, c) ==
    LET ends == {i \in 0 .. IndexMod - 1 :
                    SectorAt(v, c, i) = 0 \/ EntryAt(v, SectorAt(v, c, i), i).name = "End"}
        length == CHOOSE n \in ends \cup {IndexMod} : \A i \in ends : n <= i
    IN  [i \in 1 .. length |-> EntryAt(v, SectorAt(v, c, i - 1), i - 1)]

(* Those a listing shows. *)
Shown(e) == e.name \notin {"Deleted", "Dot"} /\ e.attr # "vol"

Listing(v, c) == SelectSeq(Contents(v, c), Shown)

(* The entry a path leads to, the root for the empty one, or EndMark. *)
Resolve(p) ==
    LET Named(c, n) == SelectSeq(Contents(vol, c), LAMBDA e : e.name = n /\ e.attr # "vol")
        step[k \in 0 .. Len(p)] ==
            IF k = 0 THEN Entry("Root", "dir", 0, 0)
            ELSE LET up == step[k - 1]
                     named == Named(get_clust(up), p[k])
                 IN  IF up.attr = "dir" /\ named # << >> THEN Head(named) ELSE EndMark
    IN  step[Len(p)]

(* pf_open and pf_opendir find exactly what the path leads to: an entry is  *)
(* found only if the path leads to it and it is of the right kind, and      *)
(* FR_NO_FILE is returned only if there is none. *)
LookupsResolve ==
    [][ pc = "find" /\ pc' = "idle" =>
            LET e == Resolve(asked)
                wanted == e.name # "End" /\ e.attr = IF op = "open" THEN "file" ELSE "dir"
            IN  /\ res' = "NO_FILE" => ~wanted
                /\ res' = "OK" => wanted /\ dir' = e
                /\ res' = "OK" /\ op = "opendir" => dj'["opendir"].sclust = get_clust(e)
      ]_vars

(* A directory has an end that dir_read meets, an end mark or a last entry  *)
(* that is passed over; without one its last entry is listed, and it is     *)
(* pf_readdir's own dir_next that meets the end of the table. *)
HasEnd(v, c) ==
    LET contents == Contents(v, c)
        n == Len(contents)
        full == n = IndexMod \/ SectorAt(v, c, n) = 0
    IN  full => n = 0 \/ ~Shown(contents[n])

(* As long as no call has failed, pf_readdir lists the entries of the       *)
(* directory in their order, none skipped, and reports the end only after   *)
(* the last.  In a directory that has an end it lists nothing else.  In one *)
(* full to its last entry it does not stop: dir_next has moved the sector   *)
(* on when it reports the end of the table (pff.c:556), pf_readdir drops    *)
(* the report (pff.c:1166), and the next call reads an entry of the sector  *)
(* that follows. *)
ListsInOrder ==
    LET wanted == Listing(vol, dj["opendir"].sclust)
    IN  reported \in {"more", "end"} =>
            /\ HasEnd(vol, dj["opendir"].sclust) => IsPrefix(listed, wanted)
            /\ \A k \in DOMAIN listed \cap DOMAIN wanted : listed[k] = wanted[k]
            /\ reported = "end" => Len(listed) >= Len(wanted)

(* No call loops forever, also in a directory whose chain is circular. *)
CallsReturn == pc # "idle" ~> pc = "idle"

=============================================================================
