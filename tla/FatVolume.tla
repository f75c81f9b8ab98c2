---------------------------- MODULE FatVolume ----------------------------
(***************************************************************************)
(* A FAT16 image as simple-fs sees it after fat_init: the first FAT, the   *)
(* root directory and the data area, together with the pure helpers of     *)
(* fat.c and fat.h.  Everything is measured in slots of 32 bytes, the size *)
(* of a dir_t, so a cluster holds ClusterSize directory entries and a file *)
(* is a sequence of slots.                                                 *)
(***************************************************************************)
EXTENDS Integers, Sequences

CONSTANTS
  ClusterSize,   \* (sec_per_clus * bytes_per_sec) / sizeof(dir_t)
  Bases, Exts,   \* the 8-character and 3-character parts of DIR_Name
  NoExt,         \* the extension that is blank
  HeapValues,    \* what a 16-bit load past the end of ff->fat_dir may return
  Volumes        \* the images a run mounts

BadClus == 65527   \* 0xFFF7
EndClus == 65535   \* 0xFFFF, what get_next_cluster returns when it gives up
U16 == 0 .. 65535

\* A dir_t.  "end" and "deleted" are DIR_Name[0] = 0x00 and 0xE5; the other
\* kinds are attribute bytes: "dir" is 0x10, "marked" a directory with further
\* bits set, "label" a volume label or a piece of a long name, "file" the rest.
\* full marks a name that uses all 8 + 3 characters.
Entry == [kind : {"end", "deleted", "dir", "marked", "label", "file"},
          base : Bases, ext : Exts, full : BOOLEAN, clus : U16, size : Nat]

\* The fields of fat_fuse that the handlers read: fat_dir (its indices),
\* root_dir and the data area behind fp, slot 0 being the first of cluster 2.
IsVolume(v) ==
  /\ DOMAIN v.fat \subseteq Nat /\ v.fat \in [DOMAIN v.fat -> U16]
  /\ v.root \in Seq(Entry)
  /\ v.disk \in Seq(Entry)

ASSUME VolumeAssumption ==
  /\ ClusterSize \in Nat \ {0}
  /\ NoExt \in Exts
  /\ HeapValues \subseteq U16 /\ HeapValues # {}
  /\ \A v \in Volumes : IsVolume(v)

(***************************************************************************)
(* fat.h and fat.c                                                         *)
(***************************************************************************)
SlotFrom(cluster, first) == (cluster - first) * ClusterSize

\* Mutant: the data area starts with cluster 1.
SlotOfOffByOne(cluster) == SlotFrom(cluster, 1)

\* GET_SECTOR_OFFSET, less the constant first_data_sec.
SlotOf(cluster) == SlotFrom(cluster, 2)

ValidCluster(x) == x > 1 /\ x < BadClus

\* fat_dir[c]: one value inside the table, any heap value past its end.
FatDir(v, c) == IF c \in DOMAIN v.fat THEN {v.fat[c]} ELSE HeapValues

\* get_next_cluster on the table value x of a cluster.
NextOf(x) == IF x \in {BadClus, 0, 1} THEN EndClus ELSE x

\* The name search_dirs and fill_directories format from an entry: the base
\* alone if DIR_Attr is 0x10; base, dot and extension, blank or not, otherwise.
NameOf(e) == IF e.kind = "dir" THEN <<e.base>> ELSE <<e.base, e.ext>>

Component == {<<b>> : b \in Bases} \union {<<b, x>> : b \in Bases, x \in Exts}

\* The text of a path component whose string has been freed: unknown.
Freed == <<>>

\* Both loops stop at the first 0x00 entry and skip the 0xE5 ones.
Listed(dir) ==
  {i \in 1 .. Len(dir) : /\ dir[i].kind \notin {"end", "deleted"}
                         /\ \A j \in 1 .. i - 1 : dir[j].kind # "end"}

\* The indices search_dirs may return for dname, 0 for a miss.  A full 8.3
\* name fills name[12] with no terminator left, so whether strcmp calls it
\* equal depends on the byte that follows the array; freed text may compare
\* equal to anything.
SearchDirs(dir, dname) ==
  LET may  == {i \in Listed(dir) : dname \in {Freed, NameOf(dir[i])}}
      must == {i \in may : dname # Freed
                             /\ ~ (dir[i].kind # "dir" /\ dir[i].full)}
  IN  {i \in may : \A j \in must : i <= j}
        \union (IF must = {} THEN {0} ELSE {})

\* A read of n slots at position p that does not run past the image.
Inside(v, p, n) == p >= 0 /\ p + n <= Len(v.disk)

(***************************************************************************)
(* The interface to the kernel: one FUSE request, one answer.              *)
(***************************************************************************)
Ops == {"getattr", "readdir", "open", "read"}
Request == [op : Ops, path : Seq(Component), size : Nat, off : Nat, fh : U16]
NoRequest == [op |-> "getattr", path |-> <<>>, size |-> 0, off |-> 0, fh |-> 0]

\* err is what the handler returns ("one" is fat_readdir's return 1), the
\* other fields what it fills in.
Answer == [err : {"none", "ok", "ENOENT", "EPERM", "errno", "one"},
           kind : {"none", "dir", "file"}, size : Nat,
           names : SUBSET Component, fh : U16, data : Seq(Int)]
NoAnswer == [err |-> "none", kind |-> "none", size |-> 0, names |-> {},
             fh |-> 0, data |-> <<>>]
Error(e) == [NoAnswer EXCEPT !.err = e]
==========================================================================
