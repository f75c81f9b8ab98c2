---------------------------- MODULE MCFatFuse ----------------------------
(***************************************************************************)
(* Small images for TLC: four slots per cluster, clusters 2 .. 7.          *)
(***************************************************************************)
EXTENDS FatFuse, TLC
LOCAL INSTANCE SequencesExt

MCBases == {"A", "S", "D", "Z", ".", ".."}
MCExts == {"", "T"}

E(k, b, x, c, s) == [kind |-> k, base |-> b, ext |-> x, full |-> FALSE,
                     clus |-> c, size |-> s]
Free == E("end", "A", "", 0, 0)
Dead == E("deleted", "A", "T", 3, 9)
File(b, x, c, s) == E("file", b, x, c, s)
Sub(b, c) == E("dir", b, "", c, 0)
Text == E("file", "Z", "T", 7, 1)   \* file data, should it be taken for a dir_t
Data == <<Text, Text, Text, Text>>
Dir(own, up, x, y) == <<Sub(".", own), Sub("..", up), x, y>>

\* A table of eight entries: f2 .. f7 for the clusters of the data area.
Table(f2, f3, f4, f5, f6, f7) ==
  0 :> 65528 @@ 1 :> 65535 @@ 2 :> f2 @@ 3 :> f3 @@ 4 :> f4 @@ 5 :> f5
    @@ 6 :> f6 @@ 7 :> f7
Image(fat, root, clusters) ==
  [fat |-> fat, root |-> root, disk |-> FlattenSeq(clusters)]

\* /A.T on clusters 2 -> 3, /S on 4, /S/D on 5, /S/D/A.T on 6.
Nested ==
  Image(Table(3, 65535, 65528, 65535, 65535, 0),
        <<File("A", "T", 2, 7), Dead, Sub("S", 4)>>,
        <<Data, Data, Dir(4, 0, Sub("D", 5), Free),
          Dir(5, 4, File("A", "T", 6, 1), Free), Data, Data>>)

\* /Z.T on 5 -> 2 -> 7, /D on 4, full; /D/A.T is empty, /D/S on 6 holds a
\* deleted A.T before Z.T.
Scattered ==
  Image(Table(7, 0, 65535, 2, 65529, 65535),
        <<Sub("D", 4), File("Z", "T", 5, 12)>>,
        <<Data, Data, Dir(4, 0, File("A", "T", 0, 0), Sub("S", 6)),
          Data, Dir(6, 4, Dead, File("Z", "T", 3, 1)), Data>>)

SoundVolumes == {Nested, Scattered}
SerialPaths == {<<>>, <<<<"A", "T">>>>, <<<<"S">>>>, <<<<"Z", "T">>>>, <<<<"D">>>>,
                <<<<"S">>, <<"D">>>>, <<<<"S">>, <<"Z", "T">>>>,
                <<<<"S">>, <<"D">>, <<"A", "T">>>>,
                <<<<"D">>, <<"A", "T">>>>, <<<<"D">>, <<"S">>>>,
                <<<<"D">>, <<"S">>, <<"A", "T">>>>,
                <<<<"D">>, <<"S">>, <<"Z", "T">>>>}
Junk == {Free, File("Z", "T", 3, 1)}

\* /S on 4 -> 5: a directory of two clusters, its names split between them.
TwoClusters ==
  Image(Table(3, 65535, 5, 65535, 65535, 0),
        <<Sub("S", 4)>>,
        <<Data, Data, Dir(4, 0, Dead, File("A", "T", 2, 1)),
          <<Sub("D", 6), File("Z", "T", 3, 1), Free, Free>>,
          Dir(6, 4, Free, Free), Data>>)

\* One file whose name fills all eleven characters of DIR_Name.
LongName ==
  Image(Table(65535, 0, 65535, 0, 0, 0),
        <<[File("A", "T", 2, 1) EXCEPT !.full = TRUE], Sub("S", 4), Free>>,
        <<Data, Data, Dir(4, 0, File("Z", "T", 2, 1), Free)>>)

\* Two files and a directory for handlers that overlap.
Shared ==
  Image(Table(3, 65535, 5, 65535, 65535, 0),
        <<File("A", "T", 2, 8), Sub("S", 4), File("Z", "T", 6, 1)>>,
        <<Data, Data, Dir(4, 0, Dead, File("A", "T", 2, 1)),
          <<Sub("D", 7), Free, Free, Free>>, Data, Dir(7, 4, Free, Free)>>)
SharedVolumes == {Shared}
\* A file in the root, and one of its name in a directory on two clusters: with
\* the tokens of two paths in one list, either may be found for the other.
Pair ==
  Image(2 :> 3 @@ 3 :> 65535, <<Sub("S", 2), File("A", "T", 0, 0)>>,
        <<Dir(2, 0, Dead, File("A", "T", 0, 0)),
          <<File("Z", "T", 0, 0), Free, Free, Free>>>>)
PairVolumes == {Pair}
PairPaths == {<<<<"S">>>>, <<<<"A", "T">>>>}
ClearMemory == {Free}
TwoFiles == {<<>>, <<<<"A", "T">>>>, <<<<"Z", "T">>>>}

\* Corrupt images, and the three intact ones that the handlers do not serve rightly,
\* TwoClusters, LongName and Odd.  Cycles: A.T on 2 -> 3 -> 2, S on 4 -> 5 -> 4.
Cycles ==
  Image(Table(3, 2, 5, 4, 65535, 0),
        <<File("A", "T", 2, 9), Sub("S", 4), Sub("D", 6)>>,
        <<Data, Data, Dir(4, 0, Dead, Free), Data,
          Dir(6, 0, Dead, Free), Data>>)
\* Chains that run into a free, a bad and the reserved cluster 1.
BadEnds ==
  Image(Table(0, 65527, 0, 65527, 1, 1),
        <<File("A", "T", 2, 9), Sub("S", 4), Sub("D", 5), Sub("Z", 6)>>,
        <<Data, Data, Dir(4, 0, Dead, Free), Dir(5, 0, Dead, Free),
          Dir(6, 0, Dead, Free), Data>>)
\* A directory on cluster 0, a file past the table, a directory past the disk.
OffTheEnd ==
  Image(Table(9, 65535, 65535, 65535, 65535, 65535),
        <<Sub("S", 0), File("A", "T", 2, 9), Sub("D", 7)>>,
        <<Data, Data, Data>>)
\* Names and attributes that simple-fs takes otherwise than the format: a volume
\* label, a directory marked hidden, a directory with an extension, a file
\* without one.
Odd ==
  Image(Table(65535, 0, 65535, 65535, 65535, 0),
        <<E("label", "Z", "T", 0, 0), E("marked", "S", "", 4, 0),
          E("dir", "D", "T", 5, 0), File("A", "", 2, 1)>>,
        <<Data, Data, Dir(4, 0, Dead, Free), Dir(5, 0, File("A", "T", 6, 2), Free),
          Data, Data>>)
CorruptVolumes == {Cycles, BadEnds, OffTheEnd, TwoClusters, LongName, Odd}
CorruptPaths == {<<>>, <<<<"A", "T">>>>, <<<<"S">>>>, <<<<"D">>>>, <<<<"Z">>>>,
                 <<<<"A", "">>>>, <<<<"S", "">>>>, <<<<"S", "">>, <<"A", "T">>>>,
                 <<<<"S">>, <<"A", "T">>>>, <<<<"D">>, <<"A", "T">>>>,
                 <<<<"Z">>, <<"A", "T">>>>}

\* The conditions under which the handlers are proved to serve an image rightly.
ASSUME ImagesAreSound == \A v \in SoundVolumes : Sound(v, SerialPaths)
==========================================================================
