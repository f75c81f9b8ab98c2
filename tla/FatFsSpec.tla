---------------------------- MODULE FatFsSpec ----------------------------
(***************************************************************************)
(* What a read-only FAT16 file system promises its clients: each request   *)
(* gets, in one step, the answer the on-disk format determines.  The       *)
(* definitions below read the image by the rules of the format, whole      *)
(* chains and whole directories; they share nothing with the loops of      *)
(* fat.c that FatFuse models, nor with its treatment of names, attributes, *)
(* sizes and offsets.                                                      *)
(***************************************************************************)
EXTENDS FatVolume

CONSTANT Workers
VARIABLES vol, pend, busy, ans

vars == <<vol, pend, busy, ans>>

\* The clusters of the file or directory that starts at c, in order.
DataCluster(v, c) == c \in DOMAIN v.fat /\ c >= 2
Chain(v, c) ==
  LET walk[k \in Nat] ==
        IF k = 0 THEN IF DataCluster(v, c) THEN <<c>> ELSE <<>>
        ELSE LET s == walk[k - 1] IN
             IF s # <<>> /\ DataCluster(v, v.fat[s[Len(s)]])
             THEN Append(s, v.fat[s[Len(s)]]) ELSE s
  IN  walk[Len(v.disk)]

\* The slots of that chain, by number, and the directory they hold.
Slots(v, c) ==
  LET ch == Chain(v, c) IN
  [k \in 1 .. Len(ch) * ClusterSize |->
     (ch[((k - 1) \div ClusterSize) + 1] - 2) * ClusterSize
       + ((k - 1) % ClusterSize)]
Directory(v, c) ==
  LET s == Slots(v, c) IN [k \in 1 .. Len(s) |-> v.disk[s[k] + 1]]

\* The directory attribute makes a directory, whatever other bits say; a dot
\* comes before an extension that is not blank, in any name.
IsDirectory(e) == e.kind \in {"dir", "marked"}
ShownName(e) == IF e.ext = NoExt THEN <<e.base>> ELSE <<e.base, e.ext>>

\* The files and directories a directory holds: entries before the first free
\* one that are not a label nor a piece of a long name.
Members(d) ==
  {d[i] : i \in {j \in 1 .. Len(d) :
                   /\ IsDirectory(d[j]) \/ d[j].kind = "file"
                   /\ ~ \E k \in 1 .. j : d[k].kind = "end"}}

\* What a path names: a set with the one entry, or the empty set.  The root
\* is named by <<>> and has no entry of its own.
Root == [kind |-> "dir", base |-> "", ext |-> NoExt, full |-> FALSE,
         clus |-> 0, size |-> 0]
Entries(v, e) == IF e = Root THEN v.root ELSE Directory(v, e.clus)
Contents(v, e) == Members(Entries(v, e))
Resolve(v, p) ==
  LET at[k \in Nat] ==
        IF k = 0 THEN {Root}
        ELSE {e \in UNION {Contents(v, d) : d \in {x \in at[k - 1] : IsDirectory(x)}} :
                ShownName(e) = p[k]}
  IN  at[Len(p)]

Shorter(a, b) == IF a < b THEN a ELSE b

\* The answer to request r on image v, when its path names e.  A read gives
\* the slots asked for that lie within the file's size.
PromiseOn(v, r, e) ==
  CASE r.op = "getattr" ->
         IF IsDirectory(e) THEN [NoAnswer EXCEPT !.err = "ok", !.kind = "dir"]
         ELSE [NoAnswer EXCEPT !.err = "ok", !.kind = "file", !.size = e.size]
    [] r.op = "readdir" -> [NoAnswer EXCEPT !.err = "ok",
                              !.names = {ShownName(x) : x \in Contents(v, e)}]
    [] r.op = "open" -> [NoAnswer EXCEPT !.err = "ok", !.fh = e.clus]
    [] r.op = "read" -> [NoAnswer EXCEPT !.err = "ok", !.data =
         SubSeq(Slots(v, e.clus), r.off + 1, Shorter(r.off + r.size, e.size))]
Promise(v, r) ==
  IF Resolve(v, r.path) = {} THEN {Error("ENOENT")}
  ELSE {PromiseOn(v, r, e) : e \in Resolve(v, r.path)}

Init ==
  /\ vol \in Volumes
  /\ pend = [w \in Workers |-> NoRequest]
  /\ busy = {}
  /\ ans = [w \in Workers |-> NoAnswer]

Ask(w) ==
  /\ w \notin busy
  /\ busy' = busy \union {w}
  /\ pend'[w] \in Request
  /\ pend' = [pend EXCEPT ![w] = pend'[w]]
  /\ ans' = [ans EXCEPT ![w] = NoAnswer]
  /\ UNCHANGED vol

Reply(w) ==
  /\ w \in busy
  /\ busy' = busy \ {w}
  /\ pend' = [pend EXCEPT ![w] = NoRequest]
  /\ \E a \in Promise(vol, pend[w]) : ans' = [ans EXCEPT ![w] = a]
  /\ UNCHANGED vol

Next == \E w \in Workers : Ask(w) \/ Reply(w)

Spec == Init /\ [][Next]_vars
==========================================================================
