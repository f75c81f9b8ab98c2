----------------------------- MODULE FatFuse -----------------------------
(***************************************************************************)
(* The FUSE handlers of simple-fs (main.c, fat.c) run by a set of worker   *)
(* threads on one mounted image.  A step of a worker is what its handler   *)
(* does up to and including the next access to state the workers share:    *)
(* the static pointer inside strtok, the file position of ff->fp, and the  *)
(* fate of the process.  With one worker this is fuse_main -s (run.sh);    *)
(* with more it is fuse_main's default, the threaded loop.                 *)
(***************************************************************************)
EXTENDS FatVolume

CONSTANTS
  Workers,       \* the threads of the FUSE loop
  Paths,         \* the paths the kernel may name
  Sizes,         \* the read sizes it may ask for, in slots
  Offsets,       \* the offsets it may read from, in slots
  Leftovers,     \* dir_t values that malloc'ed memory may already hold
  MaxCount,      \* bound on n_clusters, beyond any acyclic chain
  MaxTokens      \* bound on plist, longer than any path: only workers that
                 \* feed strtok each other's strings can reach it

ASSUME RequestAssumption ==
  /\ Workers # {}
  /\ Paths \subseteq Seq(Component)
  /\ Sizes \subseteq Nat /\ Offsets \subseteq Nat
  /\ Leftovers \subseteq Entry /\ Leftovers # {}
  /\ MaxCount \in Nat \ {0}
  /\ MaxTokens \in Nat /\ \A p \in Paths : Len(p) < MaxTokens

VARIABLES
  vol,      \* the mounted image (private_data), never written
  proc,     \* "up", or "aborted": assert, invalid free, use after free
  fpos,     \* the position of ff->fp, in slots of the data area
  strtokp,  \* strtok's static pointer: whose path, and an index into it
  dcache,   \* the kernel's inodes: the kind and size it was told of a path
  handles,  \* the kernel's open files: [path, fh]
  th        \* the local state of each worker

vars == <<vol, proc, fpos, strtokp, dcache, handles, th>>

Pcs == {"idle", "tok0", "tok", "dispatch", "search", "found", "count0",
        "count", "seek", "fread", "loaded", "rd0", "rdseek", "rdread"}

NoEntry == [kind |-> "end", base |-> CHOOSE b \in Bases : TRUE,
            ext |-> CHOOSE x \in Exts : TRUE, full |-> FALSE,
            clus |-> 0, size |-> 0]

\* The locals of a handler; held counts the directory buffers it has
\* malloc'ed and not freed, those it leaks once it is idle again.
Fresh(r) ==
  [pc |-> "idle", req |-> r, plist |-> <<>>, idx |-> 1, dir |-> <<>>,
   rval |-> NoEntry, clus |-> 0, n |-> 0, i |-> 0, held |-> 0,
   got |-> <<>>, ans |-> NoAnswer]

Init ==
  /\ vol \in Volumes
  /\ proc = "up"
  /\ fpos = 0
  /\ strtokp = [own |-> CHOOSE w \in Workers : TRUE, path |-> <<>>, at |-> 1,
                live |-> FALSE]
  /\ dcache = {[path |-> <<>>, kind |-> "dir", size |-> 0]}
  /\ handles = {}
  /\ th = [w \in Workers |-> Fresh(NoRequest)]

(***************************************************************************)
(* What the kernel sends: a lookup below a known directory, readdir on a   *)
(* directory, open on a file, read on an open file.                        *)
(***************************************************************************)
Parent(p) == SubSeq(p, 1, Len(p) - 1)
Knows(p, kind) == \E d \in dcache : d.path = p /\ d.kind = kind

KernelAsks(r) ==
  \/ /\ r.op = "getattr" /\ r.path \in Paths
     /\ r.path # <<>> => Knows(Parent(r.path), "dir")
     /\ r.size = 0 /\ r.off = 0 /\ r.fh = 0
  \/ /\ r.op = "readdir" /\ Knows(r.path, "dir")
     /\ r.size = 0 /\ r.off = 0 /\ r.fh = 0
  \/ /\ r.op = "open" /\ Knows(r.path, "file")
     /\ r.size = 0 /\ r.off = 0 /\ r.fh = 0
  \/ /\ r.op = "read" /\ [path |-> r.path, fh |-> r.fh] \in handles
     /\ r.size \in Sizes /\ r.off \in Offsets

Inputs == [op : Ops, path : Paths, size : Sizes \union {0},
           off : Offsets \union {0}, fh : {h.fh : h \in handles} \union {0}]

Submit(w) ==
  /\ proc = "up"
  /\ th[w].pc = "idle"
  /\ \E r \in Inputs :
       /\ KernelAsks(r)
       /\ th' = [th EXCEPT ![w] =
            [Fresh(r) EXCEPT !.pc = IF r.op = "read" THEN "rd0" ELSE "tok0"]]
  /\ UNCHANGED <<vol, proc, fpos, strtokp, dcache, handles>>

\* The handler returns a, having freed so many more of its buffers.
Returned(t, a, freed) ==
  [Fresh(t.req) EXCEPT !.ans = a, !.held = t.held - freed]

\* The tokens that u has in the string w frees lose their text.
Lose(plist, u, w) ==
  [k \in DOMAIN plist |-> IF plist[k].own = w THEN [name |-> Freed, own |-> u]
                                              ELSE plist[k]]

\* The exit of a handler that has called parse_path frees fpath, the string
\* strtok may still point into; the kernel learns from the answer.
Finish(w, a, freed) ==
  /\ th' = [u \in Workers |->
       IF u = w THEN Returned(th[w], a, freed)
                ELSE [th[u] EXCEPT !.plist = Lose(@, u, w)]]
  /\ strtokp' = IF strtokp.own = w
                THEN [own |-> w, path |-> <<>>, at |-> 1, live |-> FALSE]
                ELSE strtokp
  /\ dcache' = IF a.kind = "none" THEN dcache
               ELSE {d \in dcache : d.path # th[w].req.path} \union
                      {[path |-> th[w].req.path, kind |-> a.kind, size |-> a.size]}
  /\ handles' = IF th[w].req.op = "open" /\ a.err = "ok"
                THEN handles \union {[path |-> th[w].req.path, fh |-> a.fh]}
                ELSE handles

Abort ==
  /\ proc' = "aborted"
  /\ UNCHANGED <<vol, fpos, strtokp, dcache, handles, th>>

(***************************************************************************)
(* parse_path: strtok(path, "/"), then strtok(NULL, "/") until it is NULL. *)
(***************************************************************************)
Token(w, s) == [name |-> s, own |-> w]

StrtokFirst(w) ==
  LET p == th[w].req.path IN
  /\ proc = "up"
  /\ th[w].pc = "tok0"
  /\ strtokp' = [own |-> w, path |-> p, at |-> IF p = <<>> THEN 1 ELSE 2,
                 live |-> TRUE]
  /\ IF p = <<>>
     THEN th' = [th EXCEPT ![w].pc = "dispatch"]
     ELSE th' = [th EXCEPT ![w].pc = "tok", ![w].plist = <<Token(w, p[1])>>]
  /\ UNCHANGED <<vol, proc, fpos, dcache, handles>>

\* strtok(NULL) goes on in whichever string the static pointer is in, which
\* need not be this worker's.
StrtokNext(w) ==
  LET more == strtokp.at <= Len(strtokp.path) IN
  /\ proc = "up"
  /\ th[w].pc = "tok"
  /\ strtokp.live
  /\ more => Len(th[w].plist) < MaxTokens
  /\ strtokp' = IF more THEN [strtokp EXCEPT !.at = @ + 1] ELSE strtokp
  /\ th' = IF more THEN [th EXCEPT ![w].plist =
                     Append(@, Token(strtokp.own, strtokp.path[strtokp.at]))]
                   ELSE [th EXCEPT ![w].pc = "dispatch"]
  /\ UNCHANGED <<vol, proc, fpos, dcache, handles>>

\* The string has been freed: strtok reads, and writes, freed memory.  It may
\* find no token there, or one, or spoil the heap.
StrtokStale(w) ==
  /\ proc = "up"
  /\ th[w].pc = "tok"
  /\ ~ strtokp.live
  /\ \/ Abort
     \/ /\ \E more \in {<<>>, <<Token(w, Freed)>>} :
             th' = [th EXCEPT ![w].pc = "dispatch", ![w].plist = @ \o more]
        /\ UNCHANGED <<vol, proc, fpos, strtokp, dcache, handles>>

(***************************************************************************)
(* The handlers after parse_path: "/" is answered at once, any other path  *)
(* goes to get_dir with the root directory.                                *)
(***************************************************************************)
Names(dir) == {NameOf(dir[i]) : i \in Listed(dir)}

DispatchRoot(w) ==
  /\ proc = "up"
  /\ th[w].pc = "dispatch"
  /\ th[w].plist = <<>>
  /\ Finish(w, CASE th[w].req.op = "getattr" ->
                      [NoAnswer EXCEPT !.err = "ok", !.kind = "dir"]
                 [] th[w].req.op = "readdir" ->
                      [NoAnswer EXCEPT !.err = "ok", !.names = Names(vol.root)]
                 [] OTHER -> Error("ENOENT"), 0)
  /\ UNCHANGED <<vol, proc, fpos>>

DispatchDir(w) ==
  /\ proc = "up"
  /\ th[w].pc = "dispatch"
  /\ th[w].plist # <<>>
  /\ th' = [th EXCEPT ![w].pc = "search", ![w].idx = 1, ![w].dir = vol.root]
  /\ UNCHANGED <<vol, proc, fpos, strtokp, dcache, handles>>

(***************************************************************************)
(* get_dir: search the current directory, free it unless it is the root,   *)
(* and read the next one if the path goes on.                              *)
(***************************************************************************)
SearchMiss(w) ==
  /\ proc = "up"
  /\ th[w].pc = "search"
  /\ 0 \in SearchDirs(th[w].dir, th[w].plist[th[w].idx].name)
  /\ Finish(w, Error("ENOENT"), 0)
  /\ UNCHANGED <<vol, proc, fpos>>

SearchHit(w) ==
  LET t == th[w] IN
  /\ proc = "up"
  /\ t.pc = "search"
  /\ \E hit \in SearchDirs(t.dir, t.plist[t.idx].name) \ {0} :
       th' = [th EXCEPT
         ![w].rval = t.dir[hit],
         ![w].held = IF t.idx > 1 THEN @ - 1 ELSE @,
         ![w].dir = <<>>,
         ![w].pc = IF t.idx = Len(t.plist) THEN "found" ELSE "count0"]
  /\ UNCHANGED <<vol, proc, fpos, strtokp, dcache, handles>>

\* Back in the handler with the entry get_dir found.
FoundAnswer(w) ==
  LET e == th[w].rval IN
  /\ proc = "up"
  /\ th[w].pc = "found"
  /\ th[w].req.op # "readdir"
  /\ Finish(w, IF th[w].req.op = "open"
               THEN [NoAnswer EXCEPT !.err = "ok", !.fh = e.clus]
               ELSE IF e.kind = "dir"
               THEN [NoAnswer EXCEPT !.err = "ok", !.kind = "dir"]
               ELSE [NoAnswer EXCEPT !.err = "ok", !.kind = "file",
                                     !.size = e.size], 0)
  /\ UNCHANGED <<vol, proc, fpos>>

FoundDir(w) ==
  /\ proc = "up"
  /\ th[w].pc = "found"
  /\ th[w].req.op = "readdir"
  /\ th' = [th EXCEPT ![w].pc = "count0"]
  /\ UNCHANGED <<vol, proc, fpos, strtokp, dcache, handles>>

(***************************************************************************)
(* read_dir_entries: get_num_clusters walks the chain to its end, then one *)
(* read_dir (fseek, fread) per cluster fills the buffer.                   *)
(***************************************************************************)
\* Mutant: one cluster too many is counted.
CountStartAtTwo(w) ==
  /\ proc = "up"
  /\ th[w].pc = "count0"
  /\ IF th[w].rval.clus > 1
     THEN /\ th' = [th EXCEPT ![w].pc = "count", ![w].n = 2,
                              ![w].clus = th[w].rval.clus]
          /\ UNCHANGED <<vol, proc, fpos, strtokp, dcache, handles>>
     ELSE Abort

CountStart(w) ==
  /\ proc = "up"
  /\ th[w].pc = "count0"
  /\ IF th[w].rval.clus > 1
     THEN /\ th' = [th EXCEPT ![w].pc = "count", ![w].n = 1,
                              ![w].clus = th[w].rval.clus]
          /\ UNCHANGED <<vol, proc, fpos, strtokp, dcache, handles>>
     ELSE Abort

\* Mutant: cur is not advanced.
CountNextStuck(w) ==
  /\ proc = "up"
  /\ th[w].pc = "count"
  /\ \E x \in FatDir(vol, th[w].clus) : x < BadClus /\ x # 0
  /\ th' = [th EXCEPT ![w].n = IF @ < MaxCount THEN @ + 1 ELSE @]
  /\ UNCHANGED <<vol, proc, fpos, strtokp, dcache, handles>>

CountNext(w) ==
  LET t == th[w] IN
  /\ proc = "up"
  /\ t.pc = "count"
  /\ \E x \in FatDir(vol, t.clus) :
       /\ x < BadClus /\ x # 0
       /\ th' = [th EXCEPT ![w].clus = x,
                           ![w].n = IF @ < MaxCount THEN @ + 1 ELSE @]
  /\ UNCHANGED <<vol, proc, fpos, strtokp, dcache, handles>>

\* A chain that ends in a free or a bad cluster: read_dir_entries returns 1,
\* which get_dir turns into ENOENT ...
CountBadLookup(w) ==
  LET t == th[w] IN
  /\ proc = "up"
  /\ t.pc = "count"
  /\ \E x \in FatDir(vol, t.clus) : x \in {BadClus, 0}
  /\ t.idx < Len(t.plist)
  /\ Finish(w, Error("ENOENT"), 0)
  /\ UNCHANGED <<vol, proc, fpos>>

\* ... and fat_readdir returns as it is, leaving fpath and plist allocated.
CountBadList(w) ==
  LET t == th[w] IN
  /\ proc = "up"
  /\ t.pc = "count"
  /\ \E x \in FatDir(vol, t.clus) : x \in {BadClus, 0}
  /\ t.idx = Len(t.plist)
  /\ th' = [th EXCEPT ![w] = Returned(t, Error("one"), 0)]
  /\ UNCHANGED <<vol, proc, fpos, strtokp, dcache, handles>>

\* The end of the chain: malloc the buffer, whose slots keep what they held.
CountEnd(w) ==
  LET t == th[w] IN
  /\ proc = "up"
  /\ t.pc = "count"
  /\ \E x \in FatDir(vol, t.clus) : x > BadClus
  /\ \E junk \in Leftovers :
       th' = [th EXCEPT
         ![w].pc = "seek", ![w].held = @ + 1, ![w].i = 0,
         ![w].clus = t.rval.clus,
         ![w].dir = [k \in 1 .. t.n * ClusterSize |-> junk]]
  /\ UNCHANGED <<vol, proc, fpos, strtokp, dcache, handles>>

Seek(w) ==
  /\ proc = "up"
  /\ th[w].pc = "seek"
  /\ fpos' = SlotOf(th[w].clus)
  /\ th' = [th EXCEPT ![w].pc = "fread"]
  /\ UNCHANGED <<vol, proc, strtokp, dcache, handles>>

\* Mutant: every cluster is read one place too far.
ReadTargetOneAfter(t) == (t.i + 1) * ClusterSize

\* *dirs + i: cluster i is read to the dir_t at index i of the buffer.
ReadTarget(t) == t.i

Fread(w) ==
  LET t == th[w] IN
  /\ proc = "up"
  /\ t.pc = "fread"
  /\ Inside(vol, fpos, ClusterSize)
  /\ fpos' = fpos + ClusterSize
  /\ \E x \in FatDir(vol, t.clus) :
       th' = [th EXCEPT
         ![w].dir = [k \in DOMAIN t.dir |->
            IF k - ReadTarget(t) \in 1 .. ClusterSize
            THEN vol.disk[fpos + k - ReadTarget(t)] ELSE t.dir[k]],
         ![w].clus = NextOf(x),
         ![w].i = t.i + 1,
         ![w].pc = IF t.i + 1 = t.n THEN "loaded" ELSE "seek"]
  /\ UNCHANGED <<vol, proc, strtokp, dcache, handles>>

\* fread stops at the end of the image.
ToTheEnd == fpos' = IF fpos < Len(vol.disk) THEN Len(vol.disk) ELSE fpos

\* A short fread: free(dirs) frees the address of the caller's variable, which
\* is undefined.  The allocator may abort ...
FreadShort(w) ==
  /\ proc = "up"
  /\ th[w].pc = "fread"
  /\ ~ Inside(vol, fpos, ClusterSize)
  /\ Abort

\* ... or go on, the buffer lost: read_dir_entries returns 1, to get_dir ...
FreadShortLookup(w) ==
  /\ proc = "up"
  /\ th[w].pc = "fread"
  /\ ~ Inside(vol, fpos, ClusterSize)
  /\ th[w].idx < Len(th[w].plist)
  /\ ToTheEnd
  /\ Finish(w, Error("ENOENT"), 0)
  /\ UNCHANGED <<vol, proc>>

\* ... or to fat_readdir.
FreadShortList(w) ==
  /\ proc = "up"
  /\ th[w].pc = "fread"
  /\ ~ Inside(vol, fpos, ClusterSize)
  /\ th[w].idx = Len(th[w].plist)
  /\ ToTheEnd
  /\ th' = [th EXCEPT ![w] = Returned(th[w], Error("one"), 0)]
  /\ UNCHANGED <<vol, proc, strtokp, dcache, handles>>

\* get_dir recurses with the next component ...
LoadedSearch(w) ==
  LET t == th[w] IN
  /\ proc = "up"
  /\ t.pc = "loaded"
  /\ t.idx < Len(t.plist)
  /\ th' = [th EXCEPT ![w].pc = "search", ![w].idx = @ + 1]
  /\ UNCHANGED <<vol, proc, fpos, strtokp, dcache, handles>>

\* Mutant: dirs is not freed.
LoadedListLeaking(w) ==
  /\ proc = "up"
  /\ th[w].pc = "loaded"
  /\ th[w].idx = Len(th[w].plist)
  /\ Finish(w, [NoAnswer EXCEPT !.err = "ok", !.names = Names(th[w].dir)], 0)
  /\ UNCHANGED <<vol, proc, fpos>>

\* ... or fat_readdir fills the answer and frees the buffer.
LoadedList(w) ==
  LET t == th[w] IN
  /\ proc = "up"
  /\ t.pc = "loaded"
  /\ t.idx = Len(t.plist)
  /\ Finish(w, [NoAnswer EXCEPT !.err = "ok", !.names = Names(t.dir)], 1)
  /\ UNCHANGED <<vol, proc, fpos>>

(***************************************************************************)
(* fat_read: fseek and fread cluster by cluster while bytes remain.        *)
(***************************************************************************)
ReadStart(w) ==
  LET t == th[w] IN
  /\ proc = "up"
  /\ t.pc = "rd0"
  /\ th' = IF t.req.off # 0
           THEN [th EXCEPT ![w] = Returned(t, Error("EPERM"), 0)]
           ELSE [th EXCEPT ![w].pc = "rdseek", ![w].clus = t.req.fh]
  /\ UNCHANGED <<vol, proc, fpos, strtokp, dcache, handles>>

Remaining(t) == t.req.size - Len(t.got)
Chunk(t) == IF ClusterSize < Remaining(t) THEN ClusterSize ELSE Remaining(t)
MoreToRead(t) == Remaining(t) > 0 /\ ValidCluster(t.clus)

ReadSeek(w) ==
  /\ proc = "up"
  /\ th[w].pc = "rdseek"
  /\ MoreToRead(th[w])
  /\ fpos' = SlotOf(th[w].clus)
  /\ th' = [th EXCEPT ![w].pc = "rdread"]
  /\ UNCHANGED <<vol, proc, strtokp, dcache, handles>>

\* Mutant: one fseek for the whole read.
ReadFreadOnly(w) ==
  LET t == th[w] IN
  /\ proc = "up"
  /\ t.pc = "rdread"
  /\ Inside(vol, fpos, Chunk(t))
  /\ fpos' = fpos + Chunk(t)
  /\ \E x \in FatDir(vol, t.clus) :
       th' = [th EXCEPT
         ![w].got = @ \o [k \in 1 .. Chunk(t) |-> fpos + k - 1],
         ![w].clus = NextOf(x),
         ![w].pc = IF Remaining(t) > ClusterSize /\ ValidCluster(NextOf(x))
                   THEN "rdread" ELSE "rdseek"]
  /\ UNCHANGED <<vol, proc, strtokp, dcache, handles>>

ReadFread(w) ==
  LET t == th[w] IN
  /\ proc = "up"
  /\ t.pc = "rdread"
  /\ Inside(vol, fpos, Chunk(t))
  /\ fpos' = fpos + Chunk(t)
  /\ \E x \in FatDir(vol, t.clus) :
       th' = [th EXCEPT
         ![w].got = @ \o [k \in 1 .. Chunk(t) |-> fpos + k - 1],
         ![w].clus = NextOf(x),
         ![w].pc = "rdseek"]
  /\ UNCHANGED <<vol, proc, strtokp, dcache, handles>>

\* return -errno, but fread sets no errno at the end of a file: the value is
\* that of an earlier call, 0 (an empty read) if there was none.
ReadShort(w) ==
  /\ proc = "up"
  /\ th[w].pc = "rdread"
  /\ ~ Inside(vol, fpos, Chunk(th[w]))
  /\ ToTheEnd
  /\ \E a \in {Error("errno"), Error("ok")} :
       th' = [th EXCEPT ![w] = Returned(th[w], a, 0)]
  /\ UNCHANGED <<vol, proc, strtokp, dcache, handles>>

ReadDone(w) ==
  LET t == th[w] IN
  /\ proc = "up"
  /\ t.pc = "rdseek"
  /\ ~ MoreToRead(t)
  /\ th' = [th EXCEPT ![w] =
       Returned(t, [NoAnswer EXCEPT !.err = "ok", !.data = t.got], 0)]
  /\ UNCHANGED <<vol, proc, fpos, strtokp, dcache, handles>>

(***************************************************************************)
(* A worker's handler, the whole system, and its fairness: a thread that   *)
(* can run is scheduled; the kernel need not send anything.                *)
(***************************************************************************)
Handle(w) ==
  \/ StrtokFirst(w) \/ StrtokNext(w) \/ StrtokStale(w)
  \/ DispatchRoot(w) \/ DispatchDir(w)
  \/ SearchMiss(w) \/ SearchHit(w) \/ FoundAnswer(w) \/ FoundDir(w)
  \/ CountStart(w) \/ CountNext(w) \/ CountEnd(w)
  \/ CountBadLookup(w) \/ CountBadList(w)
  \/ Seek(w) \/ Fread(w)
  \/ FreadShort(w) \/ FreadShortLookup(w) \/ FreadShortList(w)
  \/ LoadedSearch(w) \/ LoadedList(w)
  \/ ReadStart(w) \/ ReadSeek(w) \/ ReadFread(w) \/ ReadShort(w) \/ ReadDone(w)

Next == \E w \in Workers : Submit(w) \/ Handle(w)

Spec == Init /\ [][Next]_vars
FairSpec == Spec /\ \A w \in Workers : WF_vars(Handle(w))

(***************************************************************************)
(* Properties                                                              *)
(***************************************************************************)
Tokens == [name : Component \union {Freed}, own : Workers]
Local == [pc : Pcs, req : Request, plist : Seq(Tokens), idx : Nat \ {0},
          dir : Seq(Entry), rval : Entry, clus : U16, n : Nat, i : Nat,
          held : Nat, got : Seq(Int), ans : Answer]

\* Every variable has its type: fat.h's structures and main.c's locals.
TypeOK ==
  /\ vol \in Volumes
  /\ proc \in {"up", "aborted"}
  /\ fpos \in Int
  /\ strtokp \in [own : Workers, path : Seq(Component), at : Nat \ {0},
                  live : BOOLEAN]
  /\ dcache \subseteq [path : Seq(Component), kind : {"dir", "file"}, size : Nat]
  /\ handles \subseteq [path : Seq(Component), fh : U16]
  /\ th \in [Workers -> Local]

\* get_dir's ownership rule: a handler holds one malloc'ed directory while it
\* fills, searches or lists it and none otherwise; a request loses at most
\* one, by missing a name below the root or by a short read of a directory, and
\* frees none twice.
BufferOwnership ==
  \A w \in Workers :
    LET t == th[w] IN
    t.held \in CASE t.pc \in {"seek", "fread", "loaded"} -> {1}
                 [] t.pc = "search" -> IF t.idx > 1 THEN {1} ELSE {0}
                 [] t.pc = "idle" /\ t.ans.err \in {"ENOENT", "one"} -> {0, 1}
                 [] OTHER -> {0}

\* What a client sees of an answer: the kernel keeps no byte of a read past the
\* size that getattr gave it for the file (external).
Cut(s, n) == SubSeq(s, 1, IF n < Len(s) THEN n ELSE Len(s))
KnownSize(p) == (CHOOSE d \in dcache : d.path = p).size
Seen(w) == IF th[w].req.op = "read"
           THEN [th[w].ans EXCEPT !.data = Cut(@, KnownSize(th[w].req.path))]
           ELSE th[w].ans

\* The abstract file system this implements: see FatFsSpec.
Fs == INSTANCE FatFsSpec WITH
        pend <- [w \in Workers |-> IF th[w].pc = "idle" THEN NoRequest
                                   ELSE th[w].req],
        busy <- {w \in Workers : th[w].pc # "idle"},
        ans  <- [w \in Workers |-> Seen(w)]

\* A chain that fat_read can follow: inside the table and the image, up to a
\* value that is no cluster; one that get_num_clusters can count ends in a mark.
LastValue(v, c) == LET ch == Fs!Chain(v, c) IN v.fat[ch[Len(ch)]]
Readable(v, c) ==
  LET ch == Fs!Chain(v, c) IN
  /\ ch # <<>> /\ ~ ValidCluster(LastValue(v, c))
  /\ \A k \in DOMAIN ch : ch[k] < BadClus /\ (ch[k] - 1) * ClusterSize <= Len(v.disk)
Countable(v, c) ==
  /\ Readable(v, c) /\ LastValue(v, c) > BadClus
  /\ Len(Fs!Chain(v, c)) <= MaxCount

\* A directory whose entries simple-fs takes for what they are and tells apart
\* by their names.
Plain(e) == \/ e.kind = "file" /\ e.ext # NoExt /\ ~ e.full
            \/ e.kind = "dir" /\ e.ext = NoExt
PlainDirectory(dir) ==
  /\ \A i \in Listed(dir) : Plain(dir[i])
  /\ \A i, j \in Listed(dir) : NameOf(dir[i]) = NameOf(dir[j]) => i = j

\* What the paths name is laid out as simple-fs can serve it: files on chains it
\* can follow, as long as their size says, and directories below the root on
\* one cluster.
SoundEntry(v, e) ==
  IF e.kind = "dir"
  THEN /\ PlainDirectory(Fs!Entries(v, e))
       /\ e # Fs!Root => Countable(v, e.clus) /\ Len(Fs!Chain(v, e.clus)) = 1
  ELSE /\ e.clus = 0 \/ Readable(v, e.clus)
       /\ e.size \in 0 .. Len(Fs!Slots(v, e.clus))
Sound(v, paths) ==
  \A p \in paths : \A k \in 0 .. Len(p) :
    \A e \in Fs!Resolve(v, SubSeq(p, 1, k)) : SoundEntry(v, e)

\* Every answer, as the client sees it, is the one the on-disk format determines
\* for the request: getattr, readdir, open and a read from the start of a file,
\* whatever chain of lookups, cluster walks and partial reads the handlers take
\* to get there.
ImplementsFs == Fs!Spec

\* A client that reads a file gets the file's own bytes, in the order of its
\* chain, as many as it asked for or the file has.
ReadsRight ==
  \A w \in Workers :
    (th[w].pc = "idle" /\ th[w].ans.err # "none" /\ th[w].req.op = "read")
      => Seen(w) \in Fs!Promise(vol, th[w].req)

\* read_dir_entries never reads past the buffer it sized with
\* get_num_clusters, whatever the two walks of the chain find.
BufferBounds ==
  \A w \in Workers : th[w].pc = "fread" =>
    \A k \in 1 .. ClusterSize : ReadTarget(th[w]) + k \in DOMAIN th[w].dir

\* On any image, the two walks of a directory's chain, counting it and then
\* reading it, take the same clusters if the chain ends in a mark.  (They part
\* on a table value of 1, which ends the second walk and not the first.)
ChainAgreement ==
  \A w \in Workers :
    th[w].pc \in {"seek", "fread"} /\ Countable(vol, th[w].rval.clus) =>
      LET ch == Fs!Chain(vol, th[w].rval.clus) IN
      th[w].n = Len(ch) /\ th[w].clus = ch[th[w].i + 1]

\* A directory whose chain is whole does not take the mount down: with one
\* worker, the process aborts only in get_num_clusters or read_dir_entries of
\* an entry whose chain is empty, broken or leaves the image.
AbortsOnBroken ==
  proc = "aborted" => \E w \in Workers : ~ Countable(vol, th[w].rval.clus)

\* The clusters a chain from c can visit, past the end of the table too.
Linked(v, c) ==
  LET reach[k \in Nat] ==
        IF k = 0 THEN {c}
        ELSE LET r == reach[k - 1] IN
             r \union {x \in UNION {FatDir(v, y) : y \in r} : ValidCluster(x)}
  IN  reach[Len(v.disk)]

\* On any image, however corrupt, fat_read returns bytes only of clusters
\* that the table links from the open file's first cluster.
ReadsLinked ==
  \A w \in Workers : th[w].req.op = "read" =>
    \A k \in 1 .. Len(th[w].got) :
      \E c \in Linked(vol, th[w].req.fh) :
        th[w].got[k] - SlotOf(c) \in 0 .. ClusterSize - 1

\* On any image and with any number of workers, a handler answers, or takes
\* the process down, or counts for ever a directory chain that is a cycle, or
\* keeps splitting the paths of others, having got more tokens from strtok than
\* any path has.
OnCycle(v, c) == \E x \in FatDir(v, c) : c \in Linked(v, x)
Fed(t) == t.pc = "tok" /\ Len(t.plist) = MaxTokens
AnsweredUnlessCyclic ==
  \A w \in Workers :
    th[w].pc # "idle" ~> \/ th[w].pc = "idle" \/ proc # "up"
                         \/ th[w].pc = "count" /\ OnCycle(vol, th[w].clus)
                         \/ Fed(th[w])
==========================================================================
