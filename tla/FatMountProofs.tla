-------------------------- MODULE FatMountProofs --------------------------
(***************************************************************************)
(* Proofs about FatMount for every image and every width of its integers.  *)
(***************************************************************************)
EXTENDS FatMount, TLAPS

(***************************************************************************)
(* Arithmetic.                                                             *)
(***************************************************************************)
\* Products are monotonic.
LEMMA Product ==
  ASSUME NEW a \in Nat, NEW b \in Nat, NEW c \in Nat, a <= b
  PROVE  a * c <= b * c /\ a * c \in Nat /\ b * c \in Nat
  OBVIOUS

LEMMA ProductLess ==
  ASSUME NEW a \in Nat, NEW b \in Nat, NEW c \in Nat \ {0}, a < b
  PROVE  a * c < b * c
  OBVIOUS

\* A quotient times its divisor.
LEMMA Divided ==
  ASSUME NEW n \in Nat, NEW d \in Nat \ {0}
  PROVE  /\ n \div d \in Nat /\ (n \div d) * d <= n /\ n < (n \div d) * d + d
         /\ n \div d <= n
<1> DEFINE q == n \div d
<1>1. q \in Int /\ d * q <= n /\ n < d * q + d
  OBVIOUS
<1> HIDE DEF q
<1>2. q >= 0
  BY <1>1
<1>3. d * q = q * d /\ q <= q * d
  BY <1>1, <1>2
<1> QED
  BY <1>1, <1>2, <1>3 DEF q

\* A remainder is in range, and is the number itself if that is in range.
LEMMA Remainder ==
  ASSUME NEW n \in Int, NEW m \in Nat \ {0}
  PROVE  /\ n % m \in 0 .. m - 1
         /\ n \in 0 .. m - 1 => n % m = n
         /\ -m <= n /\ n < 0 => n % m = n + m
  OBVIOUS

LEMMA Widths ==
  /\ U8 \in Nat \ {0} /\ U16 \in Nat \ {0} /\ U32 \in Nat \ {0} /\ U64 \in Nat \ {0}
  /\ U16 <= U32 /\ U8 * U16 \in Nat /\ U16 * DirBytes \in Nat
<1>1. U16 * U16 <= U32 /\ U16 \in Nat \ {0}
  BY MountAssumption
<1>2. U16 <= U16 * U16
  BY <1>1
<1> QED
  BY <1>1, <1>2, MountAssumption

(***************************************************************************)
(* The boot sector.                                                        *)
(***************************************************************************)
LEMMA Fields ==
  ASSUME NEW b \in BPB
  PROVE  /\ b.BytsPerSec \in Nat /\ b.BytsPerSec < U16
         /\ b.SecPerClus \in Nat /\ b.SecPerClus < U8
         /\ b.RsvdSecCnt \in Nat /\ b.RsvdSecCnt < U16
         /\ b.NumFATs \in Nat /\ b.NumFATs < U8
         /\ b.RootEntCnt \in Nat /\ b.RootEntCnt < U16
         /\ b.FATSz16 \in Nat /\ b.FATSz16 < U16
         /\ TotSec(b) \in Nat /\ TotSec(b) < U32
  BY Widths DEF BPB, Uint8, Uint16, Uint32, TotSec

\* The root directory's sectors hold its entries.
LEMMA RootSectors ==
  ASSUME NEW b \in BPB, b.BytsPerSec # 0
  PROVE  /\ RootDirSectors(b) \in Nat
         /\ RootDirSectors(b) <= U16 * DirBytes + U16
         /\ b.RootEntCnt * DirBytes \in Nat
         /\ b.RootEntCnt * DirBytes <= RootDirSectors(b) * b.BytsPerSec
<1> DEFINE e == b.RootEntCnt * DirBytes
           d == b.BytsPerSec
           n == e + (d - 1)
           r == n \div d
<1>1. d \in Nat \ {0} /\ d < U16 /\ DirBytes \in Nat /\ U16 \in Nat
  BY Fields, Widths, MountAssumption
<1>2. e \in Nat /\ e <= U16 * DirBytes
  BY <1>1, Fields, Product
<1>3. r = RootDirSectors(b)
  BY DEF RootDirSectors
<1> HIDE DEF e, d
<1>4. n \in Nat
  BY <1>1, <1>2
<1> HIDE DEF n
<1>5. r \in Nat /\ n < r * d + d /\ r <= n
  BY <1>1, <1>4, Divided
<1> HIDE DEF r
<1>6. U16 * DirBytes \in Nat /\ r * d \in Nat
  BY <1>1, <1>5
<1>7. r <= U16 * DirBytes + U16 /\ e <= r * d
  BY <1>1, <1>2, <1>4, <1>5, <1>6 DEF n
<1> QED
  BY <1>2, <1>3, <1>5, <1>7 DEF e, d

LEMMA Used ==
  ASSUME NEW b \in BPB, b.BytsPerSec # 0
  PROVE  /\ UsedSec(b) \in Nat /\ UsedSec(b) <= MostUsed
         /\ b.NumFATs * b.FATSz16 \in Nat
<1> DEFINE t == b.NumFATs * b.FATSz16
<1>1. t \in Nat /\ t <= U8 * U16
  <2>1. b.NumFATs * b.FATSz16 <= U8 * b.FATSz16 /\ t \in Nat
    BY Fields, Widths, Product
  <2>2. b.FATSz16 * U8 <= U16 * U8
    BY Fields, Widths, Product
  <2>3. U8 * b.FATSz16 = b.FATSz16 * U8 /\ U8 * U16 = U16 * U8
    BY Fields, Widths
  <2>4. b.FATSz16 * U8 \in Nat /\ U16 * U8 \in Nat
    BY Fields, Widths
  <2> HIDE DEF t
  <2> QED
    BY <2>1, <2>2, <2>3, <2>4, Widths DEF t
<1>2. UsedSec(b) = b.RsvdSecCnt + t + RootDirSectors(b)
  BY DEF UsedSec
<1> HIDE DEF t
<1>3. UsedSec(b) \in Nat /\ UsedSec(b) <= MostUsed
  BY <1>1, <1>2, RootSectors, Fields, Widths DEF MostUsed
<1> QED
  BY <1>1, <1>3 DEF t

\* The lower and the upper bound of the cluster count leave only volumes that
\* hold their own tables: a DataSec that wrapped is far too large.
LEMMA NoWrap ==
  ASSUME NEW b \in BPB, b.BytsPerSec # 0, b.SecPerClus # 0, ValidCount(b)
  PROVE  /\ UsedSec(b) < TotSec(b) /\ ClusterCount(b) \in Nat
         /\ UsedSec(b) + ClusterCount(b) * b.SecPerClus <= TotSec(b)
<1> DEFINE u == UsedSec(b)
           T == TotSec(b)
           s == b.SecPerClus
           D == DataSec(b)
           c == ClusterCount(b)
<1>1. /\ u \in Nat /\ u <= MostUsed /\ T \in Nat /\ T < U32
      /\ s \in Nat \ {0} /\ s < U8
  BY Used, Fields
<1>2. D = (T - u) % U64 /\ c = D \div s
  BY DEF DataSec, ClusterCount
<1>3. c \in MinClusters .. MaxClusters
  BY DEF ValidCount
<1>4. /\ MinClusters \in Nat \ {0} /\ MaxClusters \in Nat /\ U32 <= U64 /\ MostUsed <= U32
      /\ MostUsed + (MaxClusters + 1) * U8 <= U64
  BY MountAssumption
<1>5. MostUsed \in Nat /\ U8 \in Nat /\ U64 \in Nat \ {0} /\ U32 \in Nat
  BY Widths DEF MostUsed
<1> HIDE DEF u, T, s, D, c
<1>6. D \in Nat
  BY <1>1, <1>2, <1>5, Remainder
<1>7. c \in Nat /\ c * s <= D /\ D < c * s + s
  BY <1>1, <1>2, <1>6, Divided
<1>8. T >= u
  <2>1. SUFFICES ASSUME T < u PROVE FALSE
    BY <1>1
  <2>2. -U64 <= T - u /\ T - u < 0 /\ T - u \in Int
    BY <1>1, <1>4, <1>5, <2>1
  <2>3. D = T - u + U64
    BY <1>2, <1>5, <2>2, Remainder
  <2>4. (MaxClusters + 1) * U8 <= D
    <3>1. (MaxClusters + 1) * U8 \in Nat
      BY <1>4, <1>5
    <3> QED
      BY <1>1, <1>4, <1>5, <2>3, <3>1
  <2>5. c + 1 <= MaxClusters + 1
    BY <1>3, <1>4
  <2>6. (c + 1) * s <= (MaxClusters + 1) * s
    BY <1>1, <1>4, <1>7, <2>5, Product
  <2>7. s * (MaxClusters + 1) <= U8 * (MaxClusters + 1)
    BY <1>1, <1>4, <1>5, Product
  <2>8. (c + 1) * s = c * s + s /\ c * s \in Nat
    BY <1>1, <1>7
  <2>9. /\ s * (MaxClusters + 1) = (MaxClusters + 1) * s
        /\ U8 * (MaxClusters + 1) = (MaxClusters + 1) * U8
        /\ (MaxClusters + 1) * s \in Nat /\ (MaxClusters + 1) * U8 \in Nat
    BY <1>1, <1>4, <1>5
  <2> DEFINE x == (c + 1) * s
             y == (MaxClusters + 1) * s
             z == (MaxClusters + 1) * U8
  <2>10. x \in Nat /\ y \in Nat /\ z \in Nat /\ D < x
    BY <1>1, <1>7, <2>8, <2>9
  <2>11. x <= y /\ y <= z /\ z <= D
    BY <2>4, <2>6, <2>7, <2>9
  <2> HIDE DEF x, y, z
  <2> QED
    BY <1>6, <2>10, <2>11
<1>9. D = T - u
  <2> DEFINE n == T - u
  <2>1. n \in 0 .. U64 - 1
    BY <1>1, <1>4, <1>5, <1>8
  <2>2. D = n % U64
    BY <1>2
  <2> HIDE DEF n
  <2>3. n % U64 = n
    BY <1>5, <2>1
  <2> QED BY <2>2, <2>3 DEF n
<1>10. c * s \in Nat /\ c * s >= s
  BY <1>1, <1>3, <1>4, <1>7
<1>11. u < T /\ u + c * s <= T
  <2> DEFINE x == c * s
  <2>1. x \in Nat /\ x >= s /\ x <= D
    BY <1>7, <1>10
  <2> HIDE DEF x
  <2>2. u < T /\ u + x <= T
    BY <1>1, <1>9, <2>1
  <2> QED BY <2>2 DEF x
<1> QED
  BY <1>7, <1>11 DEF u, T, s, c

(***************************************************************************)
(* The inductive invariant: what each stage of fat_init has set, and what  *)
(* it holds.                                                               *)
(***************************************************************************)
\* The geometry in ff is that of the boot sector, which passed the checks.
Checked ==
  /\ bpb.BytsPerSec # 0 /\ bpb.SecPerClus # 0 /\ ValidCount(bpb)
  /\ ff.root_dir_ent = bpb.RootEntCnt /\ ff.first_data_sec = UsedSec(bpb) % U32
  /\ ff.sec_per_clus = bpb.SecPerClus /\ ff.bytes_per_sec = bpb.BytsPerSec
  /\ ff.fat_off = (bpb.RsvdSecCnt * bpb.BytsPerSec) % U32
  /\ ff.root_off =
       ((bpb.RsvdSecCnt + bpb.NumFATs * bpb.FATSz16) * bpb.BytsPerSec) % U32

IInv ==
  /\ TypeOK
  /\ pc = "init" => live = {"filename"}
  /\ pc = "boot" => /\ live = {"filename", "ff", "fp"} /\ ff.fp = "block"
                    /\ ff.root_dir # "block" /\ ff.fat_dir # "block"
  /\ pc \in {"root", "fat"} =>
       /\ live = {"filename", "ff", "fp", "root_dir"}
       /\ ff.fp = "block" /\ ff.root_dir = "block" /\ ff.fat_dir # "block"
       /\ Checked
  /\ pc = "loop" => live = {"filename", "ff"} \union Owned
  /\ pc = "loop" /\ session =>
       /\ Owned = {"fp", "root_dir", "fat_dir"}
       /\ Checked /\ ff.fat_ent = FATBytes(bpb) \div RefBytes
  /\ pc \in {"leaving", "exit"} => live \subseteq {"filename"}

\* The invariant gives the three properties of a served mount.
LEMMA Implied == IInv => TypeOK /\ ServesIntact /\ Released /\ AreasOrdered
<1> SUFFICES ASSUME IInv PROVE TypeOK /\ ServesIntact /\ Released /\ AreasOrdered
  OBVIOUS
<1>1. TypeOK /\ ServesIntact /\ Released
  BY DEF IInv, ServesIntact, Released, Serving, Owned
<1>2. AreasOrdered
  <2> DEFINE b == bpb
             B == b.BytsPerSec
             T == TotSec(b)
             u == UsedSec(b)
             t == b.NumFATs * b.FATSz16
             s == b.RsvdSecCnt
             r == RootDirSectors(b)
             F == b.FATSz16
  <2> SUFFICES ASSUME Serving, b.NumFATs >= 1, T * B <= U32
               PROVE  /\ ff.fat_off + ff.fat_ent * RefBytes <= ff.root_off
                      /\ ff.root_off + ff.root_dir_ent * DirBytes
                           <= ff.first_data_sec * ff.bytes_per_sec
                      /\ ff.first_data_sec + ClusterCount(b) * ff.sec_per_clus <= T
    BY DEF AreasOrdered
  <2>1. b \in BPB /\ Checked /\ ff.fat_ent = FATBytes(b) \div RefBytes
    BY DEF IInv, TypeOK, Serving
  <2>2. /\ B \in Nat \ {0} /\ s \in Nat /\ T \in Nat /\ T < U32 /\ F \in Nat
        /\ b.NumFATs \in Nat
    BY <2>1, Fields DEF Checked
  <2>3. /\ u < T /\ ClusterCount(b) \in Nat /\ u \in Nat /\ t \in Nat
        /\ u + ClusterCount(b) * b.SecPerClus <= T
    BY <2>1, NoWrap, Used DEF Checked
  <2>4. u = s + t + r /\ r \in Nat /\ b.RootEntCnt * DirBytes <= r * B
    BY <2>1, RootSectors DEF UsedSec, Checked
  <2>5. F <= t
    BY <2>2
  <2>6. U32 \in Nat \ {0} /\ RefBytes \in Nat \ {0}
    BY MountAssumption
  <2>7. FATBytes(b) = F * B
    BY DEF FATBytes
  <2>8. ff.first_data_sec = u
    <3> HIDE DEF u, T
    <3>1. u \in 0 .. U32 - 1
      BY <2>2, <2>3, <2>6
    <3>2. u % U32 = u
      BY <2>6, <3>1
    <3> QED BY <2>1, <3>2 DEF Checked, u
  <2> HIDE DEF B, T, u, t, s, r, F
  <2>9. (s + t) * B < U32 /\ s * B <= (s + t) * B /\ (s + t) * B \in Nat /\ s * B \in Nat
    <3>1. s + t < T /\ s <= s + t
      BY <2>2, <2>3, <2>4
    <3>2. (s + t) * B < T * B
      BY <2>2, <2>3, <3>1, ProductLess
    <3>3. (s + t) * B \in Nat /\ T * B \in Nat /\ s * B \in Nat /\ s * B <= (s + t) * B
      BY <2>2, <2>3, <3>1, Product
    <3> QED
      BY <2>6, <3>2, <3>3
  <2>10. ff.root_off = (s + t) * B /\ ff.fat_off = s * B
    <3>1. ff.root_off = ((s + t) * B) % U32 /\ ff.fat_off = (s * B) % U32
      BY <2>1 DEF Checked, s, t, B
    <3> DEFINE x == (s + t) * B
               y == s * B
    <3>2. x \in 0 .. U32 - 1 /\ y \in 0 .. U32 - 1
      <4>1. x \in Nat /\ y \in Nat /\ x < U32 /\ y <= x
        BY <2>9
      <4> HIDE DEF x, y
      <4> QED BY <2>6, <4>1
    <3> HIDE DEF x, y
    <3>3. x % U32 = x /\ y % U32 = y
      BY <2>6, <3>2
    <3> QED
      BY <3>1, <3>3 DEF x, y
  <2>11. ff.fat_ent * RefBytes <= F * B /\ ff.fat_ent * RefBytes \in Nat /\ F * B \in Nat
    <3> DEFINE n == F * B
    <3>1. n \in Nat /\ ff.fat_ent = n \div RefBytes
      BY <2>1, <2>2, <2>7
    <3> HIDE DEF n
    <3>2. (n \div RefBytes) * RefBytes <= n /\ n \div RefBytes \in Nat
      BY <2>6, <3>1, Divided
    <3> QED
      BY <2>6, <3>1, <3>2 DEF n
  <2>12. ff.fat_off + ff.fat_ent * RefBytes <= ff.root_off
    <3>1. F * B <= t * B /\ t * B \in Nat
      BY <2>2, <2>3, <2>5, Product
    <3>2. (s + t) * B = s * B + t * B
      BY <2>2, <2>3
    <3> QED
      BY <2>9, <2>10, <2>11, <3>1, <3>2
  <2>13. ff.root_off + ff.root_dir_ent * DirBytes <= ff.first_data_sec * ff.bytes_per_sec
    <3>1. u * B = (s + t) * B + r * B /\ r * B \in Nat
      BY <2>2, <2>3, <2>4
    <3>2. ff.root_dir_ent * DirBytes = b.RootEntCnt * DirBytes /\ ff.bytes_per_sec = B
          /\ b.RootEntCnt * DirBytes \in Nat
      BY <2>1, RootSectors DEF Checked, B
    <3>3. ff.root_dir_ent * DirBytes <= r * B
      BY <2>4, <3>2
    <3> QED
      BY <2>8, <2>9, <2>10, <3>1, <3>2, <3>3
  <2> QED
    BY <2>1, <2>3, <2>8, <2>12, <2>13 DEF Checked, u, T
<1> QED
  BY <1>1, <1>2

LEMMA GoneTyped == Gone.boot \in BPB /\ Gone.len = -1
  BY Widths DEF Gone, BPB, Uint8, Uint16, Uint32

LEMMA UnsetTyped == Unset \in Fat_fuse
<1>1. 0 \in Uint8 /\ 0 \in Uint16 /\ 0 \in Uint32 /\ 0 \in 0 .. U64 - 1
  BY Widths DEF Uint8, Uint16, Uint32
<1>2. "null" \in Pointers
  BY DEF Pointers, Junk
<1> QED
  BY <1>1, <1>2 DEF Unset, Fat_fuse

\* fat_init's geometry fits the fields it is assigned to.
LEMMA GeometryTyped ==
  ASSUME NEW f \in Fat_fuse, NEW b \in BPB, b.BytsPerSec # 0
  PROVE  /\ Geometry(f, b) \in Fat_fuse
         /\ Geometry(f, b).fp = f.fp /\ Geometry(f, b).fat_dir = f.fat_dir
         /\ Geometry(f, b).root_dir_ent = b.RootEntCnt
         /\ Geometry(f, b).first_data_sec = UsedSec(b) % U32
         /\ Geometry(f, b).sec_per_clus = b.SecPerClus
         /\ Geometry(f, b).bytes_per_sec = b.BytsPerSec
         /\ Geometry(f, b).fat_off = (b.RsvdSecCnt * b.BytsPerSec) % U32
         /\ Geometry(f, b).root_off =
              ((b.RsvdSecCnt + b.NumFATs * b.FATSz16) * b.BytsPerSec) % U32
<1> DEFINE u == UsedSec(b) % U32
           x == (b.RsvdSecCnt * b.BytsPerSec) % U32
           y == ((b.RsvdSecCnt + b.NumFATs * b.FATSz16) * b.BytsPerSec) % U32
           g == Geometry(f, b)
<1>1. \A n \in Nat : n % U32 \in Uint32
  BY Widths, Remainder DEF Uint32
<1>2. /\ UsedSec(b) \in Nat /\ b.RsvdSecCnt * b.BytsPerSec \in Nat
      /\ (b.RsvdSecCnt + b.NumFATs * b.FATSz16) * b.BytsPerSec \in Nat
  BY Used, Fields
<1>3. u \in Uint32 /\ x \in Uint32 /\ y \in Uint32
  BY <1>1, <1>2
<1>4. b.RootEntCnt \in Uint16 /\ b.SecPerClus \in Uint8 /\ b.BytsPerSec \in Uint16
  BY DEF BPB
<1>5. g = [f EXCEPT !.root_dir_ent = b.RootEntCnt, !.first_data_sec = u,
                    !.sec_per_clus = b.SecPerClus, !.bytes_per_sec = b.BytsPerSec,
                    !.fat_off = x, !.root_off = y]
  BY DEF Geometry
<1> HIDE DEF u, x, y, g
<1>6. /\ g \in Fat_fuse /\ g.fp = f.fp /\ g.fat_dir = f.fat_dir
      /\ g.root_dir_ent = b.RootEntCnt /\ g.first_data_sec = u
      /\ g.sec_per_clus = b.SecPerClus /\ g.bytes_per_sec = b.BytsPerSec
      /\ g.fat_off = x /\ g.root_off = y
  BY <1>3, <1>4, <1>5 DEF Fat_fuse
<1> QED
  BY <1>6 DEF u, x, y, g

(***************************************************************************)
(* The steps.                                                              *)
(***************************************************************************)
LEMMA InitGood == Init => IInv
  BY GoneTyped, UnsetTyped DEF Init, IInv, TypeOK

LEMMA OpenGood == ASSUME IInv, InitOpen PROVE IInv'
<1>1. PICK r \in Junk, f \in Junk :
        ff' = [Unset EXCEPT !.root_dir = r, !.fat_dir = f,
                            !.fp = IF image = Gone THEN "null" ELSE "block"]
  BY DEF InitOpen
<1>2. /\ ff' \in Fat_fuse /\ ff'.root_dir = r /\ ff'.fat_dir = f
      /\ ff'.fp = IF image = Gone THEN "null" ELSE "block"
  BY <1>1, UnsetTyped DEF Fat_fuse, Pointers, Junk
<1>3. r # "block" /\ f # "block"
  BY DEF Junk
<1>4. CASE image = Gone
  <2>1. /\ pc' = "loop" /\ session' = FALSE /\ live' = live \union {"ff"}
        /\ UNCHANGED <<image, bpb>>
    BY <1>4 DEF InitOpen, Set_err
  <2>2. Owned' = {}
    BY <1>2, <1>3, <1>4 DEF Owned
  <2> QED
    BY <1>2, <2>1, <2>2 DEF IInv, TypeOK, InitOpen
<1>5. CASE image # Gone
  <2>1. /\ pc' = "boot" /\ session' = session /\ live' = live \union {"ff", "fp"}
        /\ UNCHANGED <<image, bpb>>
    BY <1>5 DEF InitOpen
  <2> QED
    BY <1>2, <1>3, <1>5, <2>1 DEF IInv, TypeOK, InitOpen
<1> QED
  BY <1>4, <1>5

LEMMA CrashGood == ASSUME IInv, Crash PROVE IInv'
  BY DEF IInv, TypeOK, Crash

LEMMA BootGood == ASSUME IInv, InitBoot PROVE IInv'
<1> DEFINE b == image.boot
<1>0. b \in BPB
  BY GoneTyped, MountAssumption DEF IInv, TypeOK, Image
<1>1. /\ pc = "boot" /\ live = {"filename", "ff", "fp"} /\ ff.fp = "block"
      /\ ff.root_dir # "block" /\ ff.fat_dir # "block" /\ ff \in Fat_fuse
  BY DEF IInv, InitBoot, TypeOK
<1>2. Owned = {"fp"}
  BY <1>1 DEF Owned
<1>3. CASE Set_err /\ UNCHANGED <<image, ff, live>> /\ bpb' \in {bpb, b}
  <2>1. Owned' = {"fp"}
    BY <1>2, <1>3 DEF Owned
  <2>2. bpb' \in BPB
    BY <1>0, <1>3 DEF IInv, TypeOK
  <2> QED
    BY <1>1, <1>3, <2>1, <2>2 DEF Set_err, IInv, TypeOK
<1>4. CASE Crash
  BY <1>4, CrashGood
<1>5. CASE /\ b.BytsPerSec # 0 /\ b.SecPerClus # 0 /\ ValidCount(b)
           /\ bpb' = b /\ ff' = [Geometry(ff, b) EXCEPT !.root_dir = "block"]
           /\ live' = live \union {"root_dir"} /\ pc' = "root"
           /\ UNCHANGED <<image, session>>
  <2> DEFINE g == Geometry(ff, b)
  <2>1. /\ g \in Fat_fuse /\ g.fp = "block" /\ g.fat_dir # "block"
        /\ g.root_dir_ent = b.RootEntCnt /\ g.first_data_sec = UsedSec(b) % U32
        /\ g.sec_per_clus = b.SecPerClus /\ g.bytes_per_sec = b.BytsPerSec
        /\ g.fat_off = (b.RsvdSecCnt * b.BytsPerSec) % U32
        /\ g.root_off = ((b.RsvdSecCnt + b.NumFATs * b.FATSz16) * b.BytsPerSec) % U32
    BY <1>0, <1>1, <1>5, GeometryTyped
  <2>2. ff' = [g EXCEPT !.root_dir = "block"]
    BY <1>5
  <2> HIDE DEF g
  <2>3. /\ ff' \in Fat_fuse /\ ff'.fp = "block" /\ ff'.root_dir = "block"
        /\ ff'.fat_dir = g.fat_dir /\ ff'.root_dir_ent = g.root_dir_ent
        /\ ff'.first_data_sec = g.first_data_sec /\ ff'.sec_per_clus = g.sec_per_clus
        /\ ff'.bytes_per_sec = g.bytes_per_sec /\ ff'.fat_off = g.fat_off
        /\ ff'.root_off = g.root_off
    BY <2>1, <2>2 DEF Fat_fuse, Pointers
  <2>4. Checked'
    <3>1. ValidCount(bpb)'
      BY <1>5 DEF ValidCount, ClusterCount, DataSec, TotSec, UsedSec, RootDirSectors
    <3>2. bpb' = b
      BY <1>5
    <3>3. UsedSec(bpb)' = UsedSec(b)
      BY <3>2 DEF UsedSec, RootDirSectors
    <3> HIDE DEF b
    <3> QED
      BY <1>5, <2>1, <2>3, <3>1, <3>2, <3>3 DEF Checked
  <2> QED
    BY <1>0, <1>1, <1>5, <2>1, <2>3, <2>4 DEF IInv, TypeOK
<1> QED
  BY <1>3, <1>4, <1>5 DEF InitBoot

LEMMA RootGood == ASSUME IInv, InitRoot PROVE IInv'
<1>1. /\ pc = "root" /\ live = {"filename", "ff", "fp", "root_dir"}
      /\ ff.fp = "block" /\ ff.root_dir = "block" /\ ff.fat_dir # "block" /\ Checked
      /\ UNCHANGED <<image, bpb, ff, live>>
  BY DEF IInv, InitRoot
<1>2. Checked'
  BY <1>1 DEF Checked, ValidCount, ClusterCount, DataSec, TotSec, UsedSec, RootDirSectors
<1>3. Owned' = {"fp", "root_dir"}
  BY <1>1 DEF Owned
<1>4. CASE pc' = "fat" /\ UNCHANGED session
  BY <1>1, <1>2, <1>4 DEF IInv, TypeOK
<1>5. CASE Set_err
  BY <1>1, <1>3, <1>5 DEF IInv, TypeOK, Set_err
<1> QED
  BY <1>4, <1>5 DEF InitRoot

\* The number of table entries fits size_t, even where the int overflows.
LEMMA Entries ==
  ASSUME NEW b \in BPB
  PROVE  /\ FATBytes(b) \div RefBytes \in 0 .. U64 - 1
         /\ (U64 - U32 + FATBytes(b)) \div RefBytes \in 0 .. U64 - 1
<1> DEFINE n == FATBytes(b)
           m == U64 - U32 + n
<1>1. n \in Nat /\ n < U32
  <2>1. b.FATSz16 * b.BytsPerSec <= U16 * b.BytsPerSec /\ n \in Nat
    BY Fields, Widths, Product DEF FATBytes
  <2>2. b.BytsPerSec * U16 < U16 * U16
    BY Fields, Widths, ProductLess
  <2>3. /\ b.BytsPerSec * U16 = U16 * b.BytsPerSec /\ U16 * b.BytsPerSec \in Nat
        /\ U16 * U16 \in Nat
    BY Fields, Widths
  <2>4. n <= U16 * b.BytsPerSec
    BY <2>1 DEF FATBytes
  <2> HIDE DEF n
  <2> QED
    BY <2>1, <2>2, <2>3, <2>4, Widths, MountAssumption
<1> HIDE DEF n
<1>2. U32 <= U64 /\ U32 \in Nat /\ U64 \in Nat /\ RefBytes \in Nat \ {0}
  BY MountAssumption, Widths
<1>3. m \in Nat /\ m < U64 /\ n < U64
  BY <1>1, <1>2
<1> HIDE DEF m
<1>4. n \div RefBytes \in 0 .. U64 - 1 /\ m \div RefBytes \in 0 .. U64 - 1
  BY <1>1, <1>2, <1>3, Divided
<1> QED
  BY <1>4 DEF n, m

LEMMA FatGood == ASSUME IInv, InitFat PROVE IInv'
<1> DEFINE bytes == FATBytes(bpb)
           n == bytes \div RefBytes
           w == (U64 - U32 + bytes) \div RefBytes
<1>1. /\ pc = "fat" /\ live = {"filename", "ff", "fp", "root_dir"}
      /\ ff.fp = "block" /\ ff.root_dir = "block" /\ Checked /\ ff \in Fat_fuse
      /\ bpb \in BPB
  BY DEF IInv, InitFat, TypeOK
<1>2. n \in 0 .. U64 - 1 /\ w \in 0 .. U64 - 1
  BY <1>1, Entries
<1>3. ASSUME NEW p \in Pointers, NEW e \in 0 .. U64 - 1,
             ff' = [ff EXCEPT !.fat_dir = p, !.fat_ent = e], UNCHANGED bpb
      PROVE  /\ ff' \in Fat_fuse /\ ff'.fat_dir = p /\ ff'.fat_ent = e
             /\ ff'.fp = "block" /\ ff'.root_dir = "block" /\ Checked'
  <2>1. /\ ff' \in Fat_fuse /\ ff'.fat_dir = p /\ ff'.fat_ent = e
        /\ ff'.fp = ff.fp /\ ff'.root_dir = ff.root_dir
        /\ ff'.root_dir_ent = ff.root_dir_ent /\ ff'.first_data_sec = ff.first_data_sec
        /\ ff'.sec_per_clus = ff.sec_per_clus /\ ff'.bytes_per_sec = ff.bytes_per_sec
        /\ ff'.fat_off = ff.fat_off /\ ff'.root_off = ff.root_off
    BY <1>1, <1>3 DEF Fat_fuse
  <2> QED
    BY <1>1, <1>3, <2>1
    DEF Checked, ValidCount, ClusterCount, DataSec, TotSec, UsedSec, RootDirSectors
<1>4. CASE /\ ff' = [ff EXCEPT !.fat_dir = "block", !.fat_ent = n]
           /\ live' = live \union {"fat_dir"} /\ UNCHANGED <<image, bpb>>
           /\ (pc' = "loop" /\ UNCHANGED session) \/ Set_err
  <2>1. "block" \in Pointers
    BY DEF Pointers
  <2>2. /\ ff' \in Fat_fuse /\ ff'.fat_dir = "block" /\ ff'.fat_ent = n
        /\ ff'.fp = "block" /\ ff'.root_dir = "block" /\ Checked'
    BY <1>2, <1>3, <1>4, <2>1
  <2>3. Owned' = {"fp", "root_dir", "fat_dir"} /\ (FATBytes(bpb) \div RefBytes)' = n
    BY <1>4, <2>2 DEF Owned, FATBytes
  <2>4. pc' = "loop" /\ session' \in BOOLEAN
    BY <1>4 DEF Set_err, IInv, TypeOK
  <2> QED
    BY <1>1, <1>4, <2>2, <2>3, <2>4 DEF IInv, TypeOK
<1>5. CASE /\ ff' = [ff EXCEPT !.fat_dir = "null", !.fat_ent = w]
           /\ Set_err /\ UNCHANGED <<image, bpb, live>>
  <2>1. "null" \in Pointers
    BY DEF Pointers, Junk
  <2>2. /\ ff' \in Fat_fuse /\ ff'.fat_dir = "null" /\ ff'.fat_ent = w
        /\ ff'.fp = "block" /\ ff'.root_dir = "block"
    BY <1>2, <1>3, <1>5, <2>1
  <2>3. Owned' = {"fp", "root_dir"}
    BY <2>2 DEF Owned
  <2> QED
    BY <1>1, <1>5, <2>2, <2>3 DEF IInv, TypeOK, Set_err
<1>6. CASE Crash
  BY <1>6, CrashGood
<1> QED
  BY <1>4, <1>5, <1>6 DEF InitFat

LEMMA NextGood == IInv /\ [Next]_vars => IInv'
<1> SUFFICES ASSUME IInv, [Next]_vars PROVE IInv'
  OBVIOUS
<1> USE DEF IInv, TypeOK
<1>1. CASE Main
  BY <1>1 DEF Main
<1>2. CASE Removed
  BY <1>2 DEF Removed
<1>3. CASE Unmount
  <2>1. Owned' = Owned
    BY <1>3 DEF Unmount, Owned
  <2> QED
    BY <1>3, <2>1 DEF Unmount
<1>4. CASE FatDestroy
  <2>1. CASE pc' = "leaving" /\ live' = live \ (Owned \union {"ff"})
                /\ UNCHANGED <<image, session, bpb, ff>>
    BY <1>4, <2>1 DEF FatDestroy
  <2>2. CASE Crash
    BY <2>2, CrashGood
  <2> QED
    BY <1>4, <2>1, <2>2 DEF FatDestroy
<1>5. CASE Exit
  BY <1>5 DEF Exit
<1>6. CASE UNCHANGED vars
  <2>1. Owned' = Owned /\ (Checked <=> Checked') /\ FATBytes(bpb)' = FATBytes(bpb)
    BY <1>6 DEF vars, Owned, Checked, ValidCount, ClusterCount, DataSec, TotSec, UsedSec,
                RootDirSectors, FATBytes
  <2> QED
    BY <1>6, <2>1 DEF vars
<1> QED
  BY <1>1, <1>2, <1>3, <1>4, <1>5, <1>6, OpenGood, BootGood, RootGood, FatGood DEF Next

(***************************************************************************)
(* The theorems.                                                           *)
(***************************************************************************)
LEMMA Inductive == Spec => []IInv
  BY InitGood, NextGood, PTL DEF Spec

\* fat_init assigns each field a value of its type, for every boot sector.
THEOREM MountTypes == Spec => []TypeOK
  BY Inductive, Implied, PTL

\* The handlers of FatFuse only ever see a fat_fuse that fat_init completed.
THEOREM MountIsIntact == Spec => []ServesIntact
  BY Inductive, Implied, PTL

\* fat_destroy releases what fat_init acquired, wherever it stopped.
THEOREM MountIsReleased == Spec => []Released
  BY Inductive, Implied, PTL

\* For every boot sector and every width of the integers, the areas of a mounted
\* image are in order and inside the volume: the check of the cluster count is
\* enough against the unsigned subtraction and the 32-bit products.
THEOREM MountIsOrdered == Spec => []AreasOrdered
  BY Inductive, Implied, PTL
(***************************************************************************)
(* A sound image passes every check, and no sum or product wraps on it.    *)
(***************************************************************************)
LEMMA SoundCount ==
  ASSUME NEW i \in Image, Sound(i)
  PROVE  ValidCount(i.boot)
<1> DEFINE b == i.boot
           n == TotSec(b) - UsedSec(b)
<1>1. b \in BPB /\ b.BytsPerSec # 0
  BY DEF Image, Sound
<1>2. UsedSec(b) \in Nat /\ TotSec(b) \in Nat /\ TotSec(b) < U32
  BY <1>1, Used, Fields
<1>3. TotSec(b) >= UsedSec(b) /\ n \div b.SecPerClus \in MinClusters .. MaxClusters
  BY DEF Sound
<1>4. U32 <= U64 /\ U64 \in Nat \ {0} /\ U32 \in Nat
  BY Widths, MountAssumption
<1>5. n \in 0 .. U64 - 1
  BY <1>2, <1>3, <1>4
<1>6. DataSec(b) = n % U64
  BY DEF DataSec
<1> HIDE DEF n
<1>7. DataSec(b) = n
  <2>1. n % U64 = n
    BY <1>4, <1>5
  <2> QED
    BY <1>6, <2>1
<1> QED
  BY <1>3, <1>7 DEF ValidCount, ClusterCount

LEMMA SoundGeometry ==
  ASSUME NEW i \in Image, Sound(i),
         NEW B, B = i.boot.BytsPerSec, NEW s, s = i.boot.RsvdSecCnt,
         NEW t, t = i.boot.NumFATs * i.boot.FATSz16
  PROVE  /\ (s + t) * B \in Nat /\ ((s + t) * B) % U32 = (s + t) * B
         /\ s * B \in Nat /\ (s * B) % U32 = s * B
         /\ (s + t) * B + i.boot.RootEntCnt * DirBytes <= i.len
         /\ s * B + FATBytes(i.boot) <= i.len
         /\ FATBytes(i.boot) \in Nat /\ 2 * FATBytes(i.boot) < U32
         /\ i.len \in Nat /\ i.boot.RootEntCnt * DirBytes \in Nat
<1> DEFINE b == i.boot
           T == TotSec(b)
           r == RootDirSectors(b)
           F == b.FATSz16
           e == b.RootEntCnt * DirBytes
           len == i.len
<1>1. b \in BPB /\ len \in Nat /\ B # 0 /\ b.NumFATs # 0
  BY DEF Image, Sound
<1>2. /\ B \in Nat \ {0} /\ s \in Nat /\ T \in Nat /\ F \in Nat /\ b.NumFATs \in Nat \ {0}
  BY <1>1, Fields
<1>3. r \in Nat /\ e \in Nat /\ e <= r * B
  BY <1>1, RootSectors
<1>4. t \in Nat /\ F <= t
  BY <1>2
<1>5. s + t + r <= T
  <2>1. UsedSec(b) = s + t + r
    BY DEF UsedSec
  <2> QED
    BY <2>1, <1>2, <1>3, <1>4 DEF Sound
<1>6. 2 * T * B < U32 /\ T * B <= len
  BY DEF Sound
<1>7. FATBytes(b) = F * B
  BY DEF FATBytes
<1>8. U32 \in Nat \ {0}
  BY Widths
<1> HIDE DEF T, r, F, e, len
<1>9. /\ (s + t + r) * B <= T * B /\ T * B \in Nat
      /\ (s + t + r) * B = (s + t) * B + r * B
      /\ (s + t) * B = s * B + t * B
      /\ s * B \in Nat /\ t * B \in Nat /\ r * B \in Nat /\ F * B \in Nat
      /\ F * B <= t * B
  <2>1. F * B <= t * B /\ T * B \in Nat
    BY <1>2, <1>4, Product
  <2> DEFINE u == s + t + r
  <2>4. u \in Nat /\ u <= T
    BY <1>2, <1>3, <1>4, <1>5
  <2>5. u * B <= T * B
    <3> HIDE DEF u
    <3> QED BY <1>2, <2>4, Product
  <2>2. (s + t + r) * B = (s + t) * B + r * B /\ (s + t) * B = s * B + t * B
    BY <1>2, <1>3, <1>4
  <2>3. s * B \in Nat /\ t * B \in Nat /\ r * B \in Nat /\ F * B \in Nat
    BY <1>2, <1>3, <1>4
  <2> QED
    BY <2>1, <2>2, <2>3, <2>5
<1>10. 2 * (T * B) < U32
  BY <1>2, <1>6
<1> DEFINE x == (s + t) * B
           y == s * B
           z == T * B
           f == F * B
           g == r * B
           h == t * B
<1>11. /\ x + g <= z /\ x = y + h /\ f <= h /\ e <= g /\ z <= len /\ 2 * z < U32
       /\ y \in Nat /\ g \in Nat /\ h \in Nat /\ f \in Nat /\ z \in Nat /\ x \in Nat
  BY <1>3, <1>6, <1>9, <1>10
<1> HIDE DEF x, y, z, f, g, h
<1>12. /\ x \in 0 .. U32 - 1 /\ y \in 0 .. U32 - 1
       /\ x + e <= len /\ y + f <= len /\ 2 * f < U32
  BY <1>1, <1>3, <1>8, <1>11
<1>13. x % U32 = x /\ y % U32 = y
  BY <1>8, <1>12, Remainder
<1> QED
  BY <1>1, <1>3, <1>7, <1>11, <1>12, <1>13 DEF x, y, f, len, e

\* On a sound image fat_init works on its own boot sector and completes.
SInv ==
  Sound(image) =>
    /\ pc \in {"root", "fat"} => bpb = image.boot
    /\ pc = "loop" => ~ Wild

SoundStep ==
  pc # pc' /\ pc' \in {"loop", "crashed"} /\ Sound(image) => pc' = "loop" /\ session'

LEMMA SoundIsThere ==
  ASSUME IInv, Sound(image)
  PROVE  image \in Image
BY MountAssumption DEF IInv, TypeOK, Sound, Gone

\* The session has not been ended before fat_init ends.
SessionOn == pc \in {"main", "init", "boot", "root", "fat"} => session

LEMMA SoundNext ==
  ASSUME IInv, SInv, SessionOn, [Next]_vars
  PROVE  SInv' /\ SessionOn' /\ SoundStep
<1> DEFINE b == image.boot
<1>1. CASE UNCHANGED vars
  BY <1>1 DEF vars, SInv, SessionOn, SoundStep, Sound, TotSec, UsedSec, RootDirSectors, Wild
<1>2. CASE Main \/ Exit
  BY <1>2 DEF Main, Exit, SInv, SessionOn, SoundStep
<1>3. CASE Removed
  BY <1>3 DEF Removed, SInv, SessionOn, SoundStep
<1>4. CASE InitOpen
  <2>1. CASE image = Gone
    <3>1. ~ Sound(Gone)
      BY DEF Sound, Gone
    <3> QED
      BY <2>1, <3>1, <1>4 DEF InitOpen, Set_err, SInv, SessionOn, SoundStep
  <2>2. CASE image # Gone
    BY <2>2, <1>4 DEF InitOpen, SInv, SessionOn, SoundStep
  <2> QED
    BY <2>1, <2>2
<1>5. CASE InitBoot
  <2>1. image' = image /\ pc = "boot" /\ SessionOn'
    BY <1>5 DEF InitBoot, Set_err, Crash, SessionOn
  <2>2. CASE ~ Sound(image)
    BY <2>1, <2>2 DEF SInv, SoundStep
  <2>3. CASE Sound(image)
    <3>1. image \in Image /\ ValidCount(b)
      BY <2>3, SoundIsThere, SoundCount
    <3>2. /\ image.len >= BootBytes /\ b.FATSz16 # 0
          /\ b.BytsPerSec # 0 /\ b.SecPerClus # 0
      BY <2>3, <3>1, MountAssumption DEF Sound, Image
    <3>3. bpb' = b /\ pc' = "root"
      BY <1>5, <3>1, <3>2 DEF InitBoot
    <3> QED
      BY <2>1, <3>3 DEF SInv, SoundStep
  <2> QED
    BY <2>1, <2>2, <2>3
<1>6. CASE InitRoot
  <2>1. image' = image /\ bpb' = bpb /\ pc = "root" /\ Checked
    BY <1>6 DEF InitRoot, IInv
  <2>2. SessionOn'
    BY <1>6 DEF InitRoot, Set_err, SessionOn
  <2>3. CASE ~ Sound(image)
    BY <2>1, <2>2, <2>3 DEF SInv, SoundStep
  <2>4. CASE Sound(image)
    <3>1. bpb = b /\ image \in Image
      BY <2>1, <2>4, SoundIsThere DEF SInv
    <3>2. /\ ff.root_dir_ent = b.RootEntCnt
          /\ ff.root_off =
               ((b.RsvdSecCnt + b.NumFATs * b.FATSz16) * b.BytsPerSec) % U32
      BY <2>1, <3>1 DEF Checked
    <3>3. ff.root_off + ff.root_dir_ent * DirBytes <= image.len
      BY <2>4, <3>1, <3>2, SoundGeometry
    <3>4. pc' = "fat"
      BY <1>6, <3>3 DEF InitRoot
    <3> QED
      BY <2>1, <2>2, <3>1, <3>4 DEF SInv, SoundStep
  <2> QED
    BY <2>2, <2>3, <2>4
<1>7. CASE InitFat
  <2>1. image' = image /\ pc = "fat" /\ Checked /\ bpb \in BPB /\ ff \in Fat_fuse
        /\ ff.root_dir = "block" /\ session
    BY <1>7 DEF InitFat, IInv, TypeOK, Crash, SessionOn
  <2>2. SessionOn'
    BY <1>7 DEF InitFat, Set_err, Crash, SessionOn
  <2>3. CASE ~ Sound(image)
    BY <2>1, <2>2, <2>3 DEF SInv, SoundStep
  <2>4. CASE Sound(image)
    <3> DEFINE bytes == FATBytes(b)
               n == bytes \div RefBytes
    <3>1. bpb = b /\ image \in Image
      BY <2>1, <2>4, SoundIsThere DEF SInv
    <3>2. /\ b.RsvdSecCnt * b.BytsPerSec \in Nat
          /\ (b.RsvdSecCnt * b.BytsPerSec) % U32 = b.RsvdSecCnt * b.BytsPerSec
          /\ b.RsvdSecCnt * b.BytsPerSec + bytes <= image.len
          /\ bytes \in Nat /\ 2 * bytes < U32 /\ image.len \in Nat
      BY <2>4, <3>1, SoundGeometry
    <3>3. ff.fat_off = b.RsvdSecCnt * b.BytsPerSec
      BY <2>1, <3>1, <3>2 DEF Checked
    <3>4. RefBytes \in Nat \ {0}
      BY MountAssumption
    <3> HIDE DEF bytes
    <3>5. n * RefBytes <= bytes /\ n \in Nat
      BY <3>2, <3>4, Divided
    <3>6. n * RefBytes \in Nat
      BY <3>4, <3>5
    <3>7. ff.fat_off + n * RefBytes <= image.len
      BY <3>2, <3>3, <3>5, <3>6
    <3>8. FATBytes(bpb) = bytes /\ ~ (2 * bytes >= U32)
      BY <3>1, <3>2, Widths DEF bytes
    <3>9. /\ ff' = [ff EXCEPT !.fat_dir = "block", !.fat_ent = n]
          /\ pc' = "loop" /\ session' = session
      BY <1>7, <3>7, <3>8 DEF InitFat
    <3>10. ff'.root_dir = "block" /\ ff'.fat_dir = "block"
      BY <2>1, <3>9 DEF Fat_fuse
    <3> QED
      BY <2>1, <2>2, <3>9, <3>10 DEF SInv, SoundStep, Wild
  <2> QED
    BY <2>2, <2>3, <2>4
<1>8. CASE Unmount
  BY <1>8 DEF Unmount, SInv, SessionOn, SoundStep, Wild, Sound, TotSec, UsedSec, RootDirSectors
<1>9. CASE FatDestroy
  BY <1>9 DEF FatDestroy, Crash, SInv, SessionOn, SoundStep
<1> QED
  BY <1>1, <1>2, <1>3, <1>4, <1>5, <1>6, <1>7, <1>8, <1>9 DEF Next

\* No image that is sound is turned down, for any boot sector and every width of
\* the integers: each check passes, nothing wraps on the way, and fat_destroy has
\* no pointer left that malloc chose.
THEOREM SoundImagesMount == Spec => SoundIsMounted
<1>1. Init => SInv /\ SessionOn
  BY DEF Init, SInv, SessionOn
<1>2. IInv /\ SInv /\ SessionOn /\ [Next]_vars => SInv' /\ SessionOn' /\ SoundStep
  BY SoundNext
<1>3. SInv /\ SessionOn /\ SoundStep => [SoundStep]_vars
  OBVIOUS
<1> QED
  BY <1>1, <1>2, Inductive, PTL DEF Spec, SoundIsMounted, SoundStep
===========================================================================
