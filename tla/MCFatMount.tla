---------------------------- MODULE MCFatMount ----------------------------
(***************************************************************************)
(* FatMount with narrow integers, so that every product and every wrap of  *)
(* the geometry is within reach of small boot sectors.                     *)
(***************************************************************************)
EXTENDS FatMount

\* Boot sectors around the limits: sector and cluster sizes of 0, no FAT, one
\* and too many, volumes shorter than their own tables, sizes from either
\* field, tables whose bytes overflow an int, offsets that wrap.
MCBoots ==
  [BytsPerSec : {0, 1, 4, 8, 15}, SecPerClus : {0, 1, 3}, RsvdSecCnt : {0, 1, 15},
   NumFATs : {0, 1, 2, 3}, RootEntCnt : {0, 2, 5}, TotSec16 : {0, 9, 15},
   TotSec32 : {0, 20, 31, 70}, FATSz16 : {0, 1, 2, 15}]

\* Files without a boot sector, cut in a table, and long enough.
MCImages == [boot : MCBoots, len : {0, 16, 60, 600}]
===========================================================================
