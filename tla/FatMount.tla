----------------------------- MODULE FatMount -----------------------------
(***************************************************************************)
(* simple-fs from main to its exit (main.c): the options, fat_init, which  *)
(* computes the geometry of the image from its boot sector, the session,   *)
(* and fat_destroy.  FatFuse begins where fat_init has succeeded.          *)
(***************************************************************************)
EXTENDS Integers

CONSTANTS
  U8, U16, U32, U64,          \* 2^8, 2^16, 2^32, 2^64
  DirBytes, RefBytes,         \* sizeof(dir_t), sizeof(uint16_t)
  BootBytes,                  \* sizeof(BPB)
  MinClusters, MaxClusters,   \* 4085 and 65525
  Images                      \* the device files a run may be given

Uint8 == 0 .. U8 - 1
Uint16 == 0 .. U16 - 1
Uint32 == 0 .. U32 - 1

\* The fields of the BPB that fat_init reads, without their prefix.
BPB == [BytsPerSec : Uint16, SecPerClus : Uint8, RsvdSecCnt : Uint16,
        NumFATs : Uint8, RootEntCnt : Uint16, TotSec16 : Uint16,
        TotSec32 : Uint32, FATSz16 : Uint16]

\* A device file: its boot sector and its length in bytes.
Image == [boot : BPB, len : Nat]

\* The sectors before the data area never exceed this.
MostUsed == U16 + U8 * U16 + (U16 * DirBytes + U16)

\* size_t is so wide that a difference below zero is no valid cluster count,
\* and no sum or product of the fields but the two in InitBoot leaves its type.
ASSUME MountAssumption ==
  /\ U8 \in Nat \ {0} /\ U16 \in Nat \ {0} /\ U32 \in Nat \ {0} /\ U64 \in Nat
  /\ DirBytes \in Nat \ {0} /\ RefBytes \in Nat \ {0} /\ BootBytes \in Nat
  /\ MinClusters \in Nat \ {0} /\ MaxClusters \in Nat
  /\ U16 * U16 <= U32 /\ MostUsed <= U32 /\ U32 <= U64
  /\ MostUsed + (MaxClusters + 1) * U8 <= U64
  /\ Images \subseteq Image

VARIABLES
  image,    \* the file behind --name, or Gone
  pc,       \* "main", "init", "boot", "root", "fat", "loop", "leaving",
            \* "exit", or "crashed"
  session,  \* fuse's loop: FALSE once fuse_exit was called
  bpb,      \* fat_init's local copy of the boot sector
  ff,       \* the fat_fuse it fills in
  live      \* what the process has acquired and not released

vars == <<image, pc, session, bpb, ff, live>>

Gone == [boot |-> [BytsPerSec |-> 0, SecPerClus |-> 0, RsvdSecCnt |-> 0,
                   NumFATs |-> 0, RootEntCnt |-> 0, TotSec16 |-> 0,
                   TotSec32 |-> 0, FATSz16 |-> 0], len |-> -1]

\* A pointer holds NULL, a block of its own, or whatever malloc left there.
Junk == {"null", "wild"}
Pointers == Junk \union {"block"}

Unset == [fp |-> "null", root_dir |-> "null", fat_dir |-> "null",
          root_dir_ent |-> 0, first_data_sec |-> 0, sec_per_clus |-> 0,
          bytes_per_sec |-> 0, fat_ent |-> 0, root_off |-> 0, fat_off |-> 0]

Init ==
  /\ image \in Images \union {Gone}
  /\ pc = "main"
  /\ session = TRUE
  /\ bpb = Gone.boot
  /\ ff = Unset
  /\ live = {}

(***************************************************************************)
(* The geometry.                                                           *)
(***************************************************************************)
RootDirSectors(b) == (b.RootEntCnt * DirBytes + (b.BytsPerSec - 1)) \div b.BytsPerSec
TotSec(b) == IF b.TotSec16 # 0 THEN b.TotSec16 ELSE b.TotSec32
UsedSec(b) == b.RsvdSecCnt + b.NumFATs * b.FATSz16 + RootDirSectors(b)
DataSec(b) == (TotSec(b) - UsedSec(b)) % U64
ClusterCount(b) == DataSec(b) \div b.SecPerClus
FATBytes(b) == b.FATSz16 * b.BytsPerSec

\* Mutants: only too small a volume is refused; the smallest is refused.
ValidCountUnbounded(b) == ClusterCount(b) >= MinClusters
ValidCountStrict(b) == ClusterCount(b) \in MinClusters + 1 .. MaxClusters
ValidCount(b) == ClusterCount(b) \in MinClusters .. MaxClusters

\* The fields of fat_fuse and their types; root_off and fat_off are the offsets
\* fat_init seeks to and does not keep.
\* Mutant: the product is taken in more than 32 bits.
GeometryWide(f, b) ==
  [f EXCEPT !.root_dir_ent = b.RootEntCnt, !.first_data_sec = UsedSec(b) % U32,
            !.sec_per_clus = b.SecPerClus, !.bytes_per_sec = b.BytsPerSec,
            !.fat_off = (b.RsvdSecCnt * b.BytsPerSec) % U32,
            !.root_off = (b.RsvdSecCnt + b.NumFATs * b.FATSz16) * b.BytsPerSec]
Geometry(f, b) ==
  [f EXCEPT !.root_dir_ent = b.RootEntCnt, !.first_data_sec = UsedSec(b) % U32,
            !.sec_per_clus = b.SecPerClus, !.bytes_per_sec = b.BytsPerSec,
            !.fat_off = (b.RsvdSecCnt * b.BytsPerSec) % U32,
            !.root_off =
              ((b.RsvdSecCnt + b.NumFATs * b.FATSz16) * b.BytsPerSec) % U32]

(***************************************************************************)
(* main up to fuse_main.  Options that do not parse end the program at     *)
(* once, a name that is missing or does not resolve by way of exit, and    *)
(* --help or a mount that fuse refuses before fat_init.                    *)
(***************************************************************************)
Main ==
  /\ pc = "main"
  /\ \/ pc' \in {"exit", "leaving"} /\ live' \in SUBSET {"filename"}
     \/ image # Gone /\ pc' = "init" /\ live' = {"filename"}
  /\ UNCHANGED <<image, session, bpb, ff>>

\* External: the file is removed between realpath and fopen.
Removed ==
  /\ pc = "init" /\ image # Gone
  /\ image' = Gone
  /\ UNCHANGED <<pc, session, bpb, ff, live>>

(***************************************************************************)
(* fat_init.                                                               *)
(***************************************************************************)
\* set_err: the session is told to end, and ff is returned as it is.
\* Mutant: the session goes on.
Set_errServing == pc' = "loop" /\ UNCHANGED session
Set_err == pc' = "loop" /\ session' = FALSE

Crash ==
  /\ pc' = "crashed"
  /\ UNCHANGED <<image, session, bpb, ff, live>>

InitOpen ==
  /\ pc = "init"
  /\ \E r \in Junk, f \in Junk :
       ff' = [Unset EXCEPT !.root_dir = r, !.fat_dir = f,
                           !.fp = IF image = Gone THEN "null" ELSE "block"]
  /\ live' = live \union (IF image = Gone THEN {"ff"} ELSE {"ff", "fp"})
  /\ IF image = Gone THEN Set_err ELSE pc' = "boot" /\ UNCHANGED session
  /\ UNCHANGED <<image, bpb>>

\* A sector size or a cluster size of 0 is divided by.
InitBoot ==
  LET b == image.boot
      readable == image.len >= BootBytes /\ b.FATSz16 # 0 IN
  /\ pc = "boot"
  /\ \/ /\ ~ readable
        /\ Set_err
        /\ UNCHANGED <<image, bpb, ff, live>>
     \/ /\ readable /\ (b.BytsPerSec = 0 \/ b.SecPerClus = 0)
        /\ Crash
     \/ /\ readable /\ b.BytsPerSec # 0 /\ b.SecPerClus # 0 /\ ~ ValidCount(b)
        /\ bpb' = b
        /\ Set_err
        /\ UNCHANGED <<image, ff, live>>
     \/ /\ readable /\ b.BytsPerSec # 0 /\ b.SecPerClus # 0 /\ ValidCount(b)
        /\ bpb' = b
        /\ ff' = [Geometry(ff, b) EXCEPT !.root_dir = "block"]
        /\ live' = live \union {"root_dir"}
        /\ pc' = "root"
        /\ UNCHANGED <<image, session>>

\* read_dir of the root directory.
InitRoot ==
  /\ pc = "root"
  /\ IF ff.root_dir_ent = 0 \/ ff.root_off + ff.root_dir_ent * DirBytes <= image.len
     THEN pc' = "fat" /\ UNCHANGED session
     ELSE Set_err
  /\ UNCHANGED <<image, bpb, ff, live>>

\* The size of the FAT is an int: where it overflows, malloc is asked for
\* nearly all of size_t and gives NULL, which fread is told to fill.
InitFat ==
  LET bytes == FATBytes(bpb)
      n == bytes \div RefBytes IN
  /\ pc = "fat"
  /\ \/ /\ 2 * bytes < U32
        /\ ff' = [ff EXCEPT !.fat_dir = "block", !.fat_ent = n]
        /\ live' = live \union {"fat_dir"}
        /\ IF n = 0 \/ ff.fat_off + n * RefBytes <= image.len
           THEN pc' = "loop" /\ UNCHANGED session ELSE Set_err
        /\ UNCHANGED <<image, bpb>>
     \/ /\ 2 * bytes >= U32
        /\ ff' = [ff EXCEPT !.fat_dir = "null",
                            !.fat_ent = (U64 - U32 + bytes) \div RefBytes]
        /\ Set_err
        /\ UNCHANGED <<image, bpb, live>>
     \/ 2 * bytes >= U32 /\ Crash

(***************************************************************************)
(* The end of the session, by set_err or by an unmount, and main's exit.   *)
(***************************************************************************)
Unmount ==
  /\ pc = "loop" /\ session
  /\ session' = FALSE
  /\ UNCHANGED <<image, pc, bpb, ff, live>>

Owned == {p \in {"fp", "root_dir", "fat_dir"} : ff[p] = "block"}
Wild == \E p \in {"root_dir", "fat_dir"} : ff[p] = "wild"

\* free of a pointer nobody set may be noticed, or not.
\* Mutant: the device file stays open.
FatDestroyOpen ==
  /\ pc = "loop" /\ ~ session
  /\ pc' = "leaving"
  /\ live' = live \ ((Owned \ {"fp"}) \union {"ff"})
  /\ UNCHANGED <<image, session, bpb, ff>>
FatDestroy ==
  /\ pc = "loop" /\ ~ session
  /\ \/ /\ pc' = "leaving"
        /\ live' = live \ (Owned \union {"ff"})
        /\ UNCHANGED <<image, session, bpb, ff>>
     \/ Wild /\ Crash

Exit ==
  /\ pc = "leaving"
  /\ pc' = "exit"
  /\ live' = live \ {"filename"}
  /\ UNCHANGED <<image, session, bpb, ff>>

Next ==
  \/ Main \/ Removed \/ InitOpen \/ InitBoot \/ InitRoot \/ InitFat
  \/ Unmount \/ FatDestroy \/ Exit

Spec == Init /\ [][Next]_vars

(***************************************************************************)
(* Properties                                                              *)
(***************************************************************************)
Fat_fuse ==
  [fp : Pointers, root_dir : Pointers, fat_dir : Pointers, root_dir_ent : Uint16,
   first_data_sec : Uint32, sec_per_clus : Uint8, bytes_per_sec : Uint16,
   fat_ent : 0 .. U64 - 1, root_off : Uint32, fat_off : Uint32]

\* Every field has the type fat.h and main.c declare it with.
TypeOK ==
  /\ image \in Images \union {Gone}
  /\ pc \in {"main", "init", "boot", "root", "fat", "loop", "leaving", "exit",
             "crashed"}
  /\ session \in BOOLEAN
  /\ bpb \in BPB
  /\ ff \in Fat_fuse
  /\ live \subseteq {"filename", "ff", "fp", "root_dir", "fat_dir"}

\* While the session answers requests, the fat_fuse it hands to the handlers
\* is whole: no step of fat_init failed, and nothing was freed.
Serving == pc = "loop" /\ session
ServesIntact ==
  Serving => /\ ff.fp = "block" /\ ff.root_dir = "block" /\ ff.fat_dir = "block"
             /\ live = {"filename", "ff", "fp", "root_dir", "fat_dir"}

\* However far fat_init came, fat_destroy releases what it acquired.
Released == pc \in {"leaving", "exit"} => live \subseteq {"filename"}

\* The check of the cluster count also catches a DataSec that wrapped below
\* zero, so that in a mounted image of at most 4 GiB the first FAT, the root
\* directory and the clusters follow one another, and end inside the volume.
AreasOrdered ==
  Serving /\ bpb.NumFATs >= 1 /\ TotSec(bpb) * bpb.BytsPerSec <= U32 =>
    /\ ff.fat_off + ff.fat_ent * RefBytes <= ff.root_off
    /\ ff.root_off + ff.root_dir_ent * DirBytes
         <= ff.first_data_sec * ff.bytes_per_sec
    /\ ff.first_data_sec + ClusterCount(bpb) * ff.sec_per_clus <= TotSec(bpb)

\* A well-formed FAT16 image below 2 GiB, all of it in the file.
Sound(i) ==
  LET b == i.boot IN
  /\ b.BytsPerSec # 0 /\ b.SecPerClus # 0 /\ b.NumFATs # 0 /\ b.FATSz16 # 0
  /\ TotSec(b) >= UsedSec(b)
  /\ (TotSec(b) - UsedSec(b)) \div b.SecPerClus \in MinClusters .. MaxClusters
  /\ 2 * TotSec(b) * b.BytsPerSec < U32
  /\ TotSec(b) * b.BytsPerSec <= i.len /\ BootBytes <= i.len

\* Each image that is sound when it is opened is mounted: no check, wrap or
\* overflow on the way turns it down, and the program does not crash.
SoundIsMounted ==
  [][pc # pc' /\ pc' \in {"loop", "crashed"} /\ Sound(image)
       => pc' = "loop" /\ session']_vars
===========================================================================
