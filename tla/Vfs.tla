--------------------------------- MODULE Vfs -------------------------------
(***************************************************************************)
(* The virtual file system over tmpfs: entries linked to their parents,    *)
(* the nodes that stand for them, path resolution and the calls on paths.  *)
(*                                                                         *)
(* A call of the C code is an operator from the state s of the file system *)
(* to the state it leaves, its answer in s.ret; callers chain them.  A use *)
(* of freed memory has no defined outcome: it sets s.fault, and a call     *)
(* that faults is not followed any further.                                *)
(*                                                                         *)
(*   s.ent    tmpfs_entry_t objects, by address                            *)
(*   s.node   vfs_node_t objects: address -> _private (an entry's address) *)
(*   s.root   kvfs_root_mount_dir                                          *)
(*   s.cwd    kvfs_cwd                                                     *)
(*   s.fds    the descriptor tables of the processes (Files.tla)           *)
(*   s.sh     the shell's command in progress (Files.tla)                  *)
(*   s.lost   data blocks whose last pointer is gone                       *)
(*   s.heap   blocks the heap can hold                                     *)
(***************************************************************************)
EXTENDS Integers, SequencesExt

CONSTANTS
    KVFS_MAX_PATH_PARTS,
    Procs,           \* processes with a descriptor table
    KFD_MAX_COUNT

NULL == 0
OK == 1
KFD_ERROR == -1

\* What follows a call goes on from the state the call left.
Then(a, Rest(_)) == Rest(a)

\* The function f with the value v at x, be x new to it or not.
Put(f, x, v) == [y \in DOMAIN f \cup {x} |-> IF y = x THEN v ELSE f[y]]

Fail(s) == [s EXCEPT !.ret = NULL]
Ok(s) == [s EXCEPT !.ret = OK]
Fault(s) == [s EXCEPT !.fault = TRUE, !.ret = NULL]

----------------------------------------------------------------------------
(* Memory.  Every object lives in a block of its own (Heap.tla).           *)

Descs(s) == {d \in Procs \X (0 .. KFD_MAX_COUNT - 1) : s.fds[d[1]][d[2]].node # NULL}
DescNodes(s) == {s.fds[d[1]][d[2]].node : d \in Descs(s)}
SetDesc(s, p, f, d) == [s EXCEPT !.fds = [s.fds EXCEPT ![p] = [s.fds[p] EXCEPT ![f] = d]]]
Data(s, buf) == {e \in DOMAIN s.ent : s.ent[e].buf = buf}

\* kmalloc has a block to give.
HasRoom(s) ==
    Cardinality(DOMAIN s.ent) + Cardinality(DOMAIN s.node) + Cardinality(Descs(s))
      + Cardinality(Data(s, "held")) + s.lost + (IF s.sh.cmd \in {"ls", "read"} THEN 1 ELSE 0) < s.heap

\* An address no pointer still names.
Fresh(named) == Min(1 .. (Cardinality(named) + 1) \ named)
NewNode(s) == Fresh(DOMAIN s.node \cup DescNodes(s) \cup {s.cwd})
NewEntry(s) == Fresh(DOMAIN s.ent \cup {s.node[n] : n \in DOMAIN s.node})

\* The node, or the entry behind it, has been freed.
Dead(s, n) == n \notin DOMAIN s.node \/ s.node[n] \notin DOMAIN s.ent
Entry(s, n) == s.ent[s.node[n]]

----------------------------------------------------------------------------
(* Permissions                                                             *)

Cred == [uid |-> 0, gid |-> 0]

Class(digit) == {r \in {<<"read", 4>>, <<"write", 2>>, <<"exec", 1>>} :
                   (digit \div r[2]) % 2 = 1}

\* kvfs_stat_can_read, kvfs_stat_can_write, kvfs_stat_can_exec: entries belong
\* to 0:0, a mode is its three octal digits.
May(right, e, cred) ==
    LET in(i) == \E r \in Class(e.mode[i]) : r[1] = right
    IN  cred.uid = 0 \/ (e.uid = cred.uid /\ in(1)) \/ (e.gid = cred.gid /\ in(2)) \/ in(3)

----------------------------------------------------------------------------
(* tmpfs                                                                   *)

\* With the fields ktmpfs_create_entry sets; times are left out.
KvfsStatCreate(kind, name, parent, mode) ==
    [kind |-> kind, name |-> name, parent |-> parent, kids |-> {},
     nlink |-> IF kind = "dir" THEN 2 ELSE 1, size |-> 0, cap |-> 0, buf |-> "none",
     mode |-> mode, uid |-> 0, gid |-> 0]

KvfsStatIncNlink(st) == [st EXCEPT !.nlink = st.nlink + 1]
KvfsStatDecNlink(st) == [st EXCEPT !.nlink = IF st.nlink > 0 THEN st.nlink - 1 ELSE st.nlink]
KvfsStatUpdateSize(st, size) == [st EXCEPT !.size = size]

KtmpfsCreateVfsNode(s, e) ==
    IF e = NULL \/ ~HasRoom(s)
      THEN Fail(s)
      ELSE [s EXCEPT !.node = Put(s.node, NewNode(s), e), !.ret = NewNode(s)]

\* The order of the list is left out: no two entries in it have one name.
Child(s, e, name) ==
    LET hits == {k \in s.ent[e].kids : s.ent[k].name = name}
    IN  IF hits = {} THEN NULL ELSE Min(hits)

KtmpfsLookup(s, n, name) ==
    LET e == s.node[n]
    IN  IF s.ent[e].kind # "dir" THEN Fail(s) ELSE KtmpfsCreateVfsNode(s,
          CASE name = "."  -> e
            [] name = ".." -> IF s.ent[e].parent = NULL THEN e ELSE s.ent[e].parent
            [] OTHER       -> Child(s, e, name))

KtmpfsCreateEntry(s, p, name, kind, mode) ==
    IF s.ent[p].kind # "dir" \/ ~HasRoom(s)
      THEN Fail(s)
      ELSE LET e == NewEntry(s)
               up == [s.ent[p] EXCEPT !.kids = s.ent[p].kids \cup {e}]
           IN  [s EXCEPT !.ent = Put(Put(s.ent, p, up), e, KvfsStatCreate(kind, name, p, mode)),
                         !.ret = e]

\* ktmpfs_create and ktmpfs_mkdir: the new entry counts as a link of its parent.
KtmpfsCreate(s, n, name, kind, mode) ==
    Then(KtmpfsCreateEntry(s, s.node[n], name, kind, mode), LAMBDA a :
        IF a.ret = NULL THEN a
        ELSE [a EXCEPT !.ent = Put(a.ent, s.node[n], KvfsStatIncNlink(a.ent[s.node[n]]))])

KtmpfsMkdir(s, n, name, mode) == KtmpfsCreate(s, n, name, "dir", mode)

\* The entry is unlinked and freed; nothing frees its data.
KtmpfsRemoveFromParentLl(s, p, e) ==
    LET up == KvfsStatDecNlink([s.ent[p] EXCEPT !.kids = s.ent[p].kids \ {e}])
    IN  Ok([s EXCEPT !.ent = Restrict(Put(s.ent, p, up), DOMAIN s.ent \ {e}),
                     !.lost = IF s.ent[e].buf = "held" THEN s.lost + 1 ELSE s.lost])

KtmpfsUnlink(s, n) ==
    IF Entry(s, n).parent = NULL
      THEN Fail(s) ELSE KtmpfsRemoveFromParentLl(s, Entry(s, n).parent, s.node[n])

\* Mutant: a directory is removed with what is in it.
KtmpfsRmdirFull(s, n) ==
    IF Entry(s, n).parent = NULL
      THEN Fail(s) ELSE KtmpfsRemoveFromParentLl(s, Entry(s, n).parent, s.node[n])

KtmpfsRmdir(s, n) ==
    IF Entry(s, n).parent = NULL \/ Entry(s, n).kids # {}
      THEN Fail(s) ELSE KtmpfsRemoveFromParentLl(s, Entry(s, n).parent, s.node[n])

\* The devices move all the bytes they are asked for.
KfsKeyboardRead(s, len) == [s EXCEPT !.ret = len]
KfsVgaWrite(s, len) == [s EXCEPT !.ret = len]

\* The answer is the number of bytes read.
KtmpfsRead(s, n, off, len) ==
    LET e == Entry(s, n)
        count == Min({len, e.size - off})
    IN  CASE e.kind = "chr" -> KfsKeyboardRead(s, len)
          [] e.kind = "dir" -> Fail(s)
          [] e.kind = "reg" /\ off > e.size -> Fail(s)
          [] OTHER -> IF count > 0 /\ e.buf = "freed" THEN Fault(s) ELSE [s EXCEPT !.ret = count]

\* Mutant: the capacity of a file is never recorded.
KtmpfsGrowUnrecorded(s, e, size) ==
    LET old == s.ent[e]
        new == IF HasRoom(s) THEN [old EXCEPT !.buf = "held"]
               ELSE [old EXCEPT !.buf = IF old.buf = "held" THEN "freed" ELSE old.buf]
    IN  [s EXCEPT !.ent = Put(s.ent, e, new), !.ret = IF HasRoom(s) THEN OK ELSE NULL]

\* krealloc: a new block, then the old one is freed; without a new block the
\* old one is freed all the same and the entry keeps its address.
KtmpfsGrow(s, e, size) ==
    LET old == s.ent[e]
        new == IF HasRoom(s) THEN [old EXCEPT !.cap = size, !.buf = "held"]
               ELSE [old EXCEPT !.buf = IF old.buf = "held" THEN "freed" ELSE old.buf]
    IN  [s EXCEPT !.ent = Put(s.ent, e, new), !.ret = IF HasRoom(s) THEN OK ELSE NULL]

\* Mutant: the file ends where the write does.
KtmpfsWriteTruncating(s, n, off, len) ==
    LET e == s.node[n]
    IN  Then(IF off + len > s.ent[e].cap THEN KtmpfsGrow(s, e, off + len) ELSE Ok(s), LAMBDA a :
          IF a.ret = NULL THEN a
          ELSE [a EXCEPT !.ent = Put(a.ent, e, KvfsStatUpdateSize(a.ent[e], off + len)), !.ret = len])

KtmpfsWrite(s, n, off, len) ==
    LET e == s.node[n]
    IN  CASE s.ent[e].kind = "chr"  -> KfsVgaWrite(s, len)
          [] s.ent[e].kind = "dir"  -> Fail(s)
          [] s.ent[e].kind = "reg" /\ s.ent[e].buf = "freed" -> Fault(s)
          [] OTHER ->
               Then(IF off + len > s.ent[e].cap THEN KtmpfsGrow(s, e, off + len) ELSE Ok(s), LAMBDA a :
                 IF a.ret = NULL THEN a
                 ELSE [a EXCEPT !.ent = Put(a.ent, e, KvfsStatUpdateSize(a.ent[e], Max({a.ent[e].size, off + len}))),
                                !.ret = len])

\* There is an entry at the position of the descriptor.
KtmpfsReaddir(s, p, f) ==
    LET d == s.fds[p][f]
    IN  [SetDesc(s, p, f, [d EXCEPT !.off = d.off + 1]) EXCEPT
           !.ret = IF d.off < Cardinality(Entry(s, d.node).kids) THEN OK ELSE NULL]

KtmpfsStat(s, n) == IF Dead(s, n) THEN Fault(s) ELSE Ok(s)

\* create_root_entry and ktmpfs_mount.
KtmpfsMount(s, loc) ==
    LET e == NewEntry(s)
    IN  IF ~HasRoom(s) THEN Fail(s)
        ELSE Then([s EXCEPT !.ent = Put(s.ent, e, KvfsStatCreate("dir", loc, NULL, <<7, 5, 5>>))], LAMBDA a :
               IF ~HasRoom(a) THEN Fail(s) ELSE KtmpfsCreateVfsNode(a, e))

----------------------------------------------------------------------------
(* Nodes                                                                   *)

\* A node is made with one reference and never gets another.
KvfsClose(s, n) ==
    IF n \in {NULL, s.root} THEN s
    ELSE IF n \notin DOMAIN s.node THEN Fault(s)
    ELSE [s EXCEPT !.node = Restrict(s.node, DOMAIN s.node \ {n})]

\* op on the entry behind n, with the guards every kvfs_ call on a node begins
\* with: a node, its stat, the right asked for.
Guarded(s, n, right, then) ==
    IF n = NULL \/ s.fault THEN Fail(s)
    ELSE IF Dead(s, n) THEN Fault(s)
    ELSE IF ~May(right, Entry(s, n), Cred) THEN Fail(s) ELSE then

KvfsLookup(s, n, name) == Guarded(s, n, "exec", KtmpfsLookup(s, n, name))
KvfsCreate(s, n, name, mode) == Guarded(s, n, "write", KtmpfsCreate(s, n, name, "reg", mode))
KvfsMkdir(s, n, name, mode) ==
    Guarded(s, n, "write", Guarded(s, n, "exec", KtmpfsMkdir(s, n, name, mode)))
KvfsRead(s, n, off, len) == Guarded(s, n, "read", KtmpfsRead(s, n, off, len))
KvfsWrite(s, n, off, len) == Guarded(s, n, "write", KtmpfsWrite(s, n, off, len))
KvfsReaddir(s, p, f) ==
    LET n == s.fds[p][f].node
    IN  Guarded(s, n, "read",
          IF Entry(s, n).kind # "dir" THEN Fail(s) ELSE KtmpfsReaddir(s, p, f))

\* The answer of the stat calls stands for the fields they copy out.
KvfsStatFromNode(s, n) == IF n = NULL \/ s.fault THEN Fail(s) ELSE KtmpfsStat(s, n)

KvfsMount(s, loc) ==
    Then(KtmpfsMount(s, loc), LAMBDA a : [a EXCEPT !.root = a.ret])

----------------------------------------------------------------------------
(* Paths.  A path is absolute or not and has components; the components    *)
(* past the size of the table are dropped.                                 *)

KvfsSplitPath(path) ==
    LET all == (IF path.abs THEN <<"/">> ELSE <<>>) \o path.parts
    IN  SubSeq(all, 1, Min({Len(all), KVFS_MAX_PATH_PARTS}))

\* Look a name up below the last one's node; every node but the first is closed
\* again.
Below(a, start, name) ==
    Then(KvfsLookup(a, a.ret, name), LAMBDA b :
      IF a.ret \in {NULL, start} THEN b ELSE KvfsClose(b, a.ret))

\* The states of the loop over the names, from the one before it.
Descend(s, start, names) ==
    LET after[i \in 0 .. Len(names)] ==
          IF i = 0 THEN [s EXCEPT !.ret = start] ELSE Below(after[i - 1], start, names[i])
    IN  after[Len(names)]

Start(s, start, path) == IF path.abs \/ start = NULL THEN s.root ELSE start
Names(path) == IF path.abs THEN Tail(KvfsSplitPath(path)) ELSE KvfsSplitPath(path)

KvfsResolveFrom(s, start, path) ==
    IF KvfsSplitPath(path) = <<>>
      THEN Fail(s) ELSE Descend(s, Start(s, start, path), Names(path))

\* The last component is not looked up; of "/" alone that is "/" itself.
KvfsResolveParentFrom(s, start, path) ==
    IF KvfsSplitPath(path) = <<>> THEN Fail(s)
    ELSE Descend(s, Start(s, start, path), IF Names(path) = <<>> THEN <<>> ELSE Front(Names(path)))

LastName(path) == Last(KvfsSplitPath(path))

KvfsLookupOpen(s, path) == KvfsResolveFrom(s, s.cwd, path)

----------------------------------------------------------------------------
(* Calls on paths                                                          *)

MakeMissing(s, parent, path, fl, mode) ==
    Then(IF fl.dir THEN KvfsMkdir(s, parent, LastName(path), mode)
                   ELSE KvfsCreate(s, parent, LastName(path), mode), LAMBDA b :
      IF b.ret = NULL THEN Fail(KvfsClose(b, parent)) ELSE b)

\* O_CREAT: the missing file or directory is made.
CreateMissing(s, parent, path, fl, mode) ==
    Then(KvfsLookup(s, parent, LastName(path)), LAMBDA a :
      IF a.ret = NULL THEN MakeMissing(a, parent, path, fl, mode)
      ELSE IF fl.excl THEN Fail(KvfsClose(KvfsClose(a, a.ret), parent))
                      ELSE Ok(KvfsClose(a, a.ret)))

Wanted == [r |-> {"read"}, w |-> {"write"}, rw |-> {"read", "write"}]

OpenFound(s, parent, path, fl) ==
    Then(KvfsLookup(s, parent, LastName(path)), LAMBDA a :
      IF a.ret = NULL THEN Fail(KvfsClose(a, parent))
      ELSE IF \E r \in Wanted[fl.acc] : ~May(r, Entry(a, a.ret), Cred)
        THEN Fail(KvfsClose(KvfsClose(a, a.ret), parent))
      ELSE IF parent # a.cwd THEN KvfsClose(a, parent) ELSE a)

\* The parent is found; what goes wrong from here on closes it, be it the working
\* directory.
OpenBelow(a, path, fl, mode) ==
    IF a.ret = NULL THEN Fail(a)
    ELSE IF Dead(a, a.ret) THEN Fault(a)
    ELSE Then(IF fl.creat THEN CreateMissing(a, a.ret, path, fl, mode) ELSE a, LAMBDA b :
           IF b.ret = NULL THEN b ELSE OpenFound(b, a.ret, path, fl))

\* The node at the end of the path.
KvfsOpen(s, path, fl, mode) ==
    OpenBelow(KvfsResolveParentFrom(s, s.cwd, path), path, fl, mode)

ChdirTo(a) ==
    IF a.ret = NULL THEN a
    ELSE IF Entry(a, a.ret).kind # "dir" THEN Fail(KvfsClose(a, a.ret))
    ELSE Ok([KvfsClose(a, a.cwd) EXCEPT !.cwd = a.ret])

KvfsChdir(s, path) == ChdirTo(KvfsLookupOpen(s, path))

\* Mutant: the node is closed by the removal and again at the end.
KvfsUnlinkTwice(s, path) ==
    Then(KvfsLookupOpen(s, path), LAMBDA a :
      IF a.ret = NULL THEN a ELSE Ok(KvfsClose(KvfsClose(a, a.ret), a.ret)))

\* A refused removal does not close the node that was looked up.
RemoveFound(a, kind) ==
    IF a.ret = NULL THEN a
    ELSE IF ~May("write", Entry(a, a.ret), Cred) THEN Fail(KvfsClose(a, a.ret))
    ELSE IF Entry(a, a.ret).kind # kind THEN Fail(a)
    ELSE Then(IF kind = "dir" THEN KtmpfsRmdir(a, a.ret) ELSE KtmpfsUnlink(a, a.ret), LAMBDA b :
           IF b.ret = NULL THEN b ELSE Ok(KvfsClose(b, a.ret)))

RemoveNode(s, path, kind) == RemoveFound(KvfsLookupOpen(s, path), kind)

KvfsUnlink(s, path) == RemoveNode(s, path, "reg")
KvfsRmdir(s, path) == RemoveNode(s, path, "dir")
=============================================================================
