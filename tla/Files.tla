-------------------------------- MODULE Files ------------------------------
(***************************************************************************)
(* What runs on the virtual file system: its start-up with the initrd and  *)
(* the devices, the descriptor tables, the system calls of a user process  *)
(* and the file commands of the shell.                                     *)
(*                                                                         *)
(* A system call runs with interrupts off, so it is one step.  The shell   *)
(* runs with interrupts on: a command is one step per call of kfd_ or      *)
(* kvfs_ it makes (the loop of pwd is one), and system calls may come      *)
(* between them and within them.  A call they come into ends as if they    *)
(* had come before it, or goes on with what it had read before them; the   *)
(* latter is followed to the end of that call.                             *)
(***************************************************************************)
EXTENDS Vfs

CONSTANTS
    Images,          \* initrd images: entries and length in HEADERs and bytes
    HEADER,          \* sizeof(initrd_entry_t)
    HeapSizes,       \* blocks the heap may have to give
    Paths,           \* paths callers use
    MaxSize,         \* bound: no file grows past it
    MaxCalls,        \* bound: calls that change something
    MaxWithin        \* bound: of these, the last that may come within another

\* A path is absolute or not and a sequence of names.
IsPath(p) == p.abs \in BOOLEAN /\ p.parts \in Seq(Range(p.parts))

\* What mkinitrd puts behind the last entry.
EndMarker == [path |-> [abs |-> FALSE, parts |-> <<>>], type |-> 0, size |-> 0]

ASSUME FilesAssumption ==
    /\ KVFS_MAX_PATH_PARTS \in Nat \ {0} /\ KFD_MAX_COUNT \in Nat \ {0}
    /\ {"shell", "user"} = Procs
    /\ HEADER \in Nat \ {0} /\ MaxSize \in Nat /\ MaxCalls \in Nat /\ MaxWithin \in Nat
    /\ \A h \in HeapSizes : h \in Nat
    /\ \A p \in Paths : IsPath(p)
    /\ \A i \in Images :
         /\ i.len \in Nat /\ i.entries # <<>> /\ Last(i.entries) = EndMarker
         /\ i.entries \in Seq(Range(i.entries))
         /\ \A e \in Range(i.entries) : IsPath(e.path) /\ e.size \in 0 .. MaxSize

\* No image has a component "dev", and a path has room for "/dev/stdin": what the
\* repository packs, and its limit of 16.
NoDevInImages ==
    /\ KVFS_MAX_PATH_PARTS >= 3
    /\ \A i \in Images : \A e \in Range(i.entries) : "dev" \notin Range(e.path.parts)

VARIABLES
    fs,              \* the state of the file system (Vfs.tla)
    boot,            \* where kfs_init is: image, entry, cursor; and who runs
    calls,           \* calls so far that changed something
    seen,            \* fs before the system calls within the shell's call
    astray           \* a call went on with what it had read before them

cvars == <<fs, boot, calls>>
fvars == <<fs, boot, calls, seen, astray>>

Fds == 0 .. (KFD_MAX_COUNT - 1)
NoDesc == [node |-> NULL, off |-> 0, acc |-> "r"]
NoFds == [p \in Procs |-> [f \in Fds |-> NoDesc]]
Prompt == [cmd |-> "prompt", fd |-> KFD_ERROR, len |-> 0]
Opening == [cmd |-> "ls", fd |-> KFD_ERROR, len |-> 0]

FilesInit ==
    /\ \E h \in HeapSizes :
         fs = [ent |-> <<>>, node |-> <<>>, root |-> NULL, cwd |-> NULL,
               fds |-> NoFds, sh |-> Prompt,
               lost |-> 0, heap |-> h, ret |-> NULL, fault |-> FALSE]
    /\ \E i \in Images : boot = [pc |-> "mount", image |-> i, i |-> 1, cursor |-> 0]
    /\ calls = 0 /\ seen = {} /\ astray = FALSE

Kept(s) == {s.root, s.cwd} \cup DescNodes(s)

\* A call ends: its answer is forgotten, a node nothing points at is lost, and
\* after a fault nothing but the tree is followed.
Leaves(s) ==
    LET leaked == DOMAIN s.node \ Kept(s)
    IN  fs' = IF s.fault
                THEN [fs EXCEPT !.fault = TRUE, !.node = <<>>, !.root = NULL, !.cwd = NULL,
                                !.fds = NoFds, !.sh = Prompt]
              ELSE [s EXCEPT !.ret = NULL, !.lost = s.lost + Cardinality(leaked),
                             !.node = Restrict(s.node, DOMAIN s.node \ leaked)]

----------------------------------------------------------------------------
(* Descriptors                                                             *)

KfdGet(s, p, f) == IF f \in Fds THEN s.fds[p][f] ELSE NoDesc

\* Mutant: the scan for a free descriptor goes one too far.
KfdCreateForProcessPast(s, p, n, acc) ==
    LET free == {f \in Fds : s.fds[p][f] = NoDesc} \cup {KFD_MAX_COUNT}
    IN  [s EXCEPT !.fds[p] = Put(@, Min(free), [node |-> n, off |-> 0, acc |-> acc]), !.ret = Min(free)]

\* The node of a descriptor that is not made is not closed.
KfdCreateForProcess(s, p, n, acc) ==
    LET free == {f \in Fds : s.fds[p][f] = NoDesc}
    IN  IF n = NULL \/ free = {} \/ ~HasRoom(s) THEN [s EXCEPT !.ret = KFD_ERROR]
        ELSE [SetDesc(s, p, Min(free), [node |-> n, off |-> 0, acc |-> acc]) EXCEPT !.ret = Min(free)]

KfdOpenForProcess(s, p, path, fl, mode) ==
    Then(KvfsOpen(s, path, fl, mode), LAMBDA a :
      IF a.ret = NULL THEN [a EXCEPT !.ret = KFD_ERROR]
      ELSE KfdCreateForProcess(a, p, a.ret, fl.acc))

\* Mutant: the node stays open.
KfdCloseForProcessKeeps(s, p, f) ==
    IF KfdGet(s, p, f) = NoDesc THEN Fail(s) ELSE Ok(SetDesc(s, p, f, NoDesc))

KfdCloseForProcess(s, p, f) ==
    IF KfdGet(s, p, f) = NoDesc THEN Fail(s)
    ELSE Then(KvfsClose(s, s.fds[p][f].node), LAMBDA a :
           IF a.fault THEN a ELSE Ok(SetDesc(a, p, f, NoDesc)))

KfdCheckAccess(s, p, f, right) == right \in Wanted[KfdGet(s, p, f).acc]

KfdStat(s, p, f) == KvfsStatFromNode(s, KfdGet(s, p, f).node)

\* The position moves by what was transferred.
Moved(s, p, f) ==
    LET d == s.fds[p][f]
    IN  IF s.fault THEN s ELSE SetDesc(s, p, f, [d EXCEPT !.off = d.off + s.ret])

KfdRead(s, p, f, len) ==
    LET d == KfdGet(s, p, f)
    IN  IF d.node = NULL \/ len = 0 \/ ~KfdCheckAccess(s, p, f, "read") THEN Fail(s)
        ELSE Moved(KvfsRead(s, d.node, d.off, len), p, f)

KfdWrite(s, p, f, len) ==
    LET d == KfdGet(s, p, f)
    IN  IF d.node = NULL \/ len = 0 \/ ~KfdCheckAccess(s, p, f, "write") THEN Fail(s)
        ELSE Moved(KvfsWrite(s, d.node, d.off, len), p, f)

KfdReaddir(s, p, f) ==
    IF KfdGet(s, p, f).node = NULL \/ ~KfdCheckAccess(s, p, f, "read")
      THEN Fail(s) ELSE KvfsReaddir(s, p, f)

----------------------------------------------------------------------------
(* Start-up: kfs_init, whose answer kmain does not look at                 *)

At(pc) == boot.pc = pc /\ ~fs.fault
Goes(pc) == boot' = [boot EXCEPT !.pc = pc] /\ UNCHANGED calls

\* kinitrd_is_size_valid, then the mount of the root, where the shell starts.
KfsMountRoot ==
    /\ At("mount")
    /\ Then(KvfsMount(fs, "/"), LAMBDA s :
         IF boot.image.len < HEADER \/ s.ret = NULL
           THEN Goes("ready") /\ UNCHANGED fs
           ELSE Goes("unpack") /\ Leaves([s EXCEPT !.cwd = s.root]))

\* Look the name up; if it is missing make it and look again.
LookupOrMake(s, parent, name, Make(_)) ==
    Then(KvfsLookup(s, parent, name), LAMBDA a :
      IF a.ret # NULL THEN a
      ELSE Then(Make(a), LAMBDA b : IF b.ret = NULL THEN b ELSE KvfsLookup(b, parent, name)))

KinitrdGetOrCreateDirectory(s, parent, name) ==
    LookupOrMake(s, parent, name, LAMBDA a : KvfsMkdir(a, parent, name, <<7, 5, 5>>))
KinitrdOpenOrCreateFile(s, parent, name) ==
    LookupOrMake(s, parent, name, LAMBDA a : KvfsCreate(a, parent, name, <<6, 4, 4>>))

CloseUnlessRoot(s, n) == IF n = s.root THEN s ELSE KvfsClose(s, n)

KinitrdSplitEntryPath(path) == IF path.abs THEN KvfsSplitPath(path) ELSE <<>>

\* kinitrd_get_first_part_index: the leading "/" is skipped.
KinitrdComponents(parts) == IF parts # <<>> /\ Head(parts) = "/" THEN Tail(parts) ELSE parts

\* The next component below the last one's node, which is closed.
Ensured(a, name) ==
    IF a.ret = NULL THEN a
    ELSE Then(KinitrdGetOrCreateDirectory(a, a.ret, name), LAMBDA b : CloseUnlessRoot(b, a.ret))

KinitrdEnsureDirectory(s, parts) ==
    LET names == KinitrdComponents(parts)
        after[i \in 0 .. Len(names)] ==
          IF i = 0 THEN [s EXCEPT !.ret = s.root] ELSE Ensured(after[i - 1], names[i])
    IN  after[Len(names)]

KinitrdUnpackDirectory(s, e) ==
    LET parts == KinitrdSplitEntryPath(e.path)
    IN  IF parts = <<>> THEN Fail(s)
        ELSE Then(KinitrdEnsureDirectory(s, parts), LAMBDA a :
               IF a.ret = NULL THEN a ELSE Ok(CloseUnlessRoot(a, a.ret)))

KinitrdResolveFileParent(s, path) ==
    LET parts == KinitrdSplitEntryPath(path)
    IN  IF Len(parts) < 2 THEN Fail(s) ELSE KinitrdEnsureDirectory(s, Front(parts))

KinitrdWriteFileData(s, n, size) == IF size = 0 THEN Ok(s) ELSE KvfsWrite(s, n, 0, size)

KinitrdUnpackFile(s, e) ==
    Then(KinitrdResolveFileParent(s, e.path), LAMBDA a :
      IF a.ret = NULL THEN a
      ELSE Then(KinitrdOpenOrCreateFile(a, a.ret, LastName(e.path)), LAMBDA b :
             IF b.ret = NULL THEN CloseUnlessRoot(b, a.ret)
             ELSE Then(KinitrdWriteFileData(b, b.ret, e.size), LAMBDA c :
                    CloseUnlessRoot(KvfsClose(c, b.ret), a.ret))))

\* mkinitrd writes 1 for a directory and 0 for a file.
KinitrdGetEntryMode(e) == IF e.type = 1 THEN "dir" ELSE "reg"

KinitrdUnpackEntry(s, e) ==
    IF KinitrdGetEntryMode(e) = "dir" THEN KinitrdUnpackDirectory(s, e) ELSE KinitrdUnpackFile(s, e)

KinitrdHasRemainingData(cursor, size) == boot.image.len - cursor >= size

\* One turn of kinitrd_unpack's loop.
KinitrdUnpack ==
    /\ At("unpack")
    /\ LET e == boot.image.entries[boot.i]
           at == boot.cursor + HEADER
       IN  IF boot.image.len - boot.cursor < HEADER THEN Goes("ready") /\ UNCHANGED fs
           ELSE IF e = EndMarker THEN Goes("dev") /\ UNCHANGED fs
           ELSE IF ~KinitrdHasRemainingData(at, e.size) THEN Goes("ready") /\ UNCHANGED fs
           ELSE Then(KinitrdUnpackEntry(fs, e), LAMBDA s :
                  /\ Leaves(s) /\ UNCHANGED calls
                  /\ boot' = IF s.ret = NULL THEN [boot EXCEPT !.pc = "ready"]
                             ELSE [boot EXCEPT !.i = @ + 1, !.cursor = at + e.size])

CreateDevice(s, dev_node, name) ==
    IF s.ret = NULL THEN s ELSE KtmpfsCreate(s, dev_node, name, "chr", <<6, 6, 6>>)

\* A device is looked up to be given its driver.
SetupDevice(s, dev_node, name) ==
    IF s.ret = NULL THEN s
    ELSE Then(KtmpfsLookup(s, dev_node, name), LAMBDA a : KvfsClose(a, a.ret))

KfsSetupDevices(s, n) == SetupDevice(SetupDevice(SetupDevice(s, n, "stdout"), n, "stderr"), n, "stdin")

KfsCreateDevices(s, n) ==
    KfsSetupDevices(CreateDevice(CreateDevice(CreateDevice(s, n, "stdout"), n, "stderr"), n, "stdin"), n)

\* The tree of /dev is mounted, but nothing in the root leads to it, and nothing
\* keeps dev_node.
KfsMountDev ==
    /\ At("dev") /\ Goes("ready")
    /\ Leaves(Then(KtmpfsMount(fs, "/dev"), LAMBDA a :
                IF a.ret = NULL THEN a ELSE KfsCreateDevices(a, a.ret)))

Std(name) == [abs |-> TRUE, parts |-> <<"dev", name>>]
Flags(acc, creat, excl, dir) == [acc |-> acc, creat |-> creat, excl |-> excl, dir |-> dir]

\* A stream must get the number it is known by; the first that does not is the
\* last.
AttachStream(s, p, name, acc, fd) ==
    IF s.ret = KFD_ERROR THEN s
    ELSE Then(KfdOpenForProcess(s, p, Std(name), Flags(acc, FALSE, FALSE, FALSE), <<0, 0, 0>>), LAMBDA a :
           IF a.ret # fd THEN [a EXCEPT !.ret = KFD_ERROR] ELSE a)

KprocessAttachStdStreams(s, p) ==
    AttachStream(AttachStream(AttachStream(s, p, "stdin", "r", 0), p, "stdout", "w", 1), p, "stderr", "w", 2)

\* kprocess_shell_init and a user process: their streams are opened.
KprocessCreate(p, from, to) ==
    /\ At(from) /\ Goes(to)
    /\ Leaves(KprocessAttachStdStreams(fs, p))

----------------------------------------------------------------------------
(* System calls                                                            *)

Call(s) ==
    /\ At("both") /\ calls < MaxCalls
    /\ UNCHANGED boot /\ Leaves(s) /\ calls' = IF fs' = fs THEN calls ELSE calls + 1

\* "..", "." and "/" themselves.
Refused(path) == path \in {[abs |-> FALSE, parts |-> <<"..">>], [abs |-> FALSE, parts |-> <<".">>],
                           [abs |-> TRUE, parts |-> <<>>]}

\* How the callers open, by what for.
Openings ==
    [read  |-> [fl |-> Flags("r", FALSE, FALSE, FALSE), mode |-> <<0, 0, 0>>],
     touch |-> [fl |-> Flags("r", TRUE, FALSE, FALSE), mode |-> <<6, 4, 4>>],
     write |-> [fl |-> Flags("rw", TRUE, FALSE, FALSE), mode |-> <<6, 4, 4>>],
     mkdir |-> [fl |-> Flags("r", TRUE, TRUE, TRUE), mode |-> <<6, 6, 6>>],
     ls    |-> [fl |-> Flags("r", FALSE, FALSE, TRUE), mode |-> <<0, 0, 0>>]]
OpenAs(s, p, path, o) == KfdOpenForProcess(s, p, path, Openings[o].fl, Openings[o].mode)

KmkdirOpen(s, p, path) ==
    IF Refused(path) THEN [s EXCEPT !.ret = KFD_ERROR] ELSE OpenAs(s, p, path, "mkdir")

SysOpen(path, o) == Call(OpenAs(fs, "user", path, o))
SysClose(f) == Call(KfdCloseForProcess(fs, "user", f))
SysChdir(path) == Call(KvfsChdir(fs, path))
SysUnlink(path) == Call(KvfsUnlink(fs, path))
SysFstat(f) == Call(KfdStat(fs, "user", f))
SysRead(f, len) == Call(KfdRead(fs, "user", f, len))
SysWrite(f, len) == KfdGet(fs, "user", f).off + len <= MaxSize /\ Call(KfdWrite(fs, "user", f, len))

SysMkdir(path) ==
    Call(Then(KmkdirOpen(fs, "user", path), LAMBDA a :
           IF a.ret = KFD_ERROR THEN a ELSE KfdCloseForProcess(a, "user", a.ret)))

Krmdir(s, path) == IF Refused(path) THEN Fail(s) ELSE KvfsRmdir(s, path)
SysRmdir(path) == Call(Krmdir(fs, path))

\* The descriptor is left open.
Kstat(s, p, path) ==
    Then(OpenAs(s, p, path, "read"), LAMBDA a :
      IF a.ret = KFD_ERROR THEN a ELSE KfdStat(a, p, a.ret))
SysStat(path) == Call(Kstat(fs, "user", path))

----------------------------------------------------------------------------
(* Shell commands                                                          *)

Command(s) == fs.sh.cmd = "prompt" /\ Call(s)
ShellStep(cmd, s) ==
    /\ At("both") /\ fs.sh.cmd = cmd /\ UNCHANGED <<boot, calls>> /\ Leaves(s)

\* The command holds the descriptor it was given, if it was.
Holding(s, cmd) == IF s.ret = KFD_ERROR THEN s ELSE [s EXCEPT !.sh = [cmd |-> cmd, fd |-> s.ret, len |-> 0]]
Back(s) == IF s.fault THEN s ELSE [s EXCEPT !.sh = Prompt]
Closing(s) == Back(KfdCloseForProcess(s, "shell", s.sh.fd))

KshellCat(path) == Command(Holding(OpenAs(fs, "shell", path, "read"), "cat"))

CatSize(s) == Entry(s, s.fds["shell"][s.sh.fd].node).size

\* Mutant: an empty file is left open.
CatStatForgets ==
    ShellStep("cat", Then(KfdStat(fs, "shell", fs.sh.fd), LAMBDA a :
      IF a.ret = NULL THEN Closing(a)
      ELSE IF CatSize(fs) = 0 \/ ~HasRoom(fs) THEN Back(a)
      ELSE [a EXCEPT !.sh = [cmd |-> "read", fd |-> fs.sh.fd, len |-> CatSize(fs)]]))

CatStat ==
    ShellStep("cat", Then(KfdStat(fs, "shell", fs.sh.fd), LAMBDA a :
      IF a.ret = NULL \/ CatSize(fs) = 0 \/ ~HasRoom(fs) THEN Closing(a)
      ELSE [a EXCEPT !.sh = [cmd |-> "read", fd |-> fs.sh.fd, len |-> CatSize(fs)]]))

CatRead ==
    ShellStep("read", Then(KfdRead(fs, "shell", fs.sh.fd, fs.sh.len), LAMBDA a :
      IF a.fault THEN a ELSE Closing(a)))

KshellTouch(path) == Command(Holding(OpenAs(fs, "shell", path, "touch"), "touch"))
TouchClose == ShellStep("touch", Closing(fs))

KshellMkdir(path) == Command(Holding(KmkdirOpen(fs, "shell", path), "mkdir"))
KmkdirClose == ShellStep("mkdir", Closing(fs))

KshellCd(path) == Command(KvfsChdir(fs, path))
KshellUnlink(path) == Command(KvfsUnlink(fs, path))
KshellRmdir(path) == Command(Krmdir(fs, path))

\* kshell_pwd looks ".." up until it stays where it is, two nodes at a time; all
\* are closed.
KshellPwd ==
    Command(IF fs.cwd # NULL /\ Dead(fs, fs.cwd) THEN Fault(fs) ELSE fs)

\* What kmalloc gives for the directory is not looked at.
KfdOpendir(s, path) ==
    IF ~HasRoom(s) THEN Fault(s)
    ELSE Then(OpenAs([s EXCEPT !.sh = Opening], "shell", path, "ls"), LAMBDA a :
           IF a.ret = KFD_ERROR THEN Back(a) ELSE Holding(a, "ls"))

KfdClosedir(s) == Closing(s)

KshellLs(path) == Command(KfdOpendir(fs, path))

LsNext ==
    ShellStep("ls", Then(KfdReaddir(fs, "shell", fs.sh.fd), LAMBDA a :
      IF a.ret = OK \/ a.fault THEN a ELSE KfdClosedir(a)))

----------------------------------------------------------------------------
(* A call of the shell that system calls came into                         *)

\* The node that a held when the system calls came: its block is its own still,
\* but for the working directory's, which a chdir or a failed open has closed.
Regained(a) ==
    IF a.ret \in {fs.root, a.cwd} THEN [fs EXCEPT !.ret = a.ret]
    ELSE [fs EXCEPT !.node = Put(fs.node, NewNode(fs), a.node[a.ret]), !.ret = NewNode(fs)]

\* Its use, if the entry it stands for has been freed, is a fault.
Used(r, then) == IF Dead(r, r.ret) THEN Fault(r) ELSE then

Overtaken(s) ==
    /\ At("both") /\ UNCHANGED <<boot, calls>> /\ Leaves(s) /\ seen' = {fs} /\ astray' = TRUE

\* What the lookup in s answers at the prompt, if it answers.
Held(a) == fs.sh.cmd = "prompt" /\ ~a.fault /\ a.ret # NULL

\* ktmpfs_create_entry links the new entry to the list as it was in s: what was
\* made in that directory since is in no list.
Unlisted(s, b, dir) ==
    IF b.ret = NULL \/ dir \notin DOMAIN s.ent \cap DOMAIN fs.ent THEN b
    ELSE [b EXCEPT !.ent[dir].kids = @ \ (fs.ent[dir].kids \ s.ent[dir].kids)]

\* kvfs_open, after it resolved the parent; with O_CREAT also after it found the
\* name missing, which it then makes without another look, or between the two
\* stores by which it does.
OpenOvertaken(path, o) ==
    \E s \in seen : \E a \in {KvfsResolveParentFrom(s, s.cwd, path)} :
        LET fl == Openings[o].fl
            mode == Openings[o].mode
            Made(r) == Used(r, MakeMissing(r, r.ret, path, fl, mode))
            Opened(r, b) == IF b.ret = NULL THEN b ELSE OpenFound(b, r.ret, path, fl)
        IN  /\ Held(a) /\ (o = "mkdir" => ~Refused(path))
            /\ \/ Overtaken(OpenBelow(Regained(a), path, fl, mode))
               \/ /\ fl.creat /\ ~Dead(a, a.ret) /\ KvfsLookup(a, a.ret, LastName(path)).ret = NULL
                  /\ \E b \in {Made(Regained(a)), Unlisted(s, Made(Regained(a)), a.node[a.ret])} :
                       Overtaken(Opened(Regained(a), b))

\* kvfs_unlink, kvfs_rmdir and kvfs_chdir, after they found the node.
RemoveOvertaken(path, kind) ==
    \E s \in seen : \E a \in {KvfsLookupOpen(s, path)} :
        /\ Held(a) /\ (kind = "dir" => ~Refused(path))
        /\ Overtaken(Used(Regained(a), RemoveFound(Regained(a), kind)))
ChdirOvertaken(path) ==
    \E s \in seen : \E a \in {KvfsLookupOpen(s, path)} :
        Held(a) /\ Overtaken(Used(Regained(a), ChdirTo(Regained(a))))

\* Whatever began at kvfs_cwd: its node, or its entry, has been freed since.  Of
\* the directories the loop of pwd goes up to, none can be removed before that
\* entry; so the loop is one step.
CwdOvertaken ==
    \E s \in seen : /\ fs.sh.cmd = "prompt" /\ s.cwd # NULL /\ ~Dead(s, s.cwd)
                    /\ s.cwd \notin DOMAIN fs.node \/ s.node[s.cwd] \notin DOMAIN fs.ent
                    /\ Overtaken(Fault(fs))

\* kmemcpy of ktmpfs_read: a write moved the block it copies from.
CopyOvertaken ==
    \E s \in seen : LET d == s.fds["shell"][fs.sh.fd]
                        e == s.node[d.node]
                    IN  /\ fs.sh.cmd = "read" /\ ~Dead(s, d.node) /\ e \in DOMAIN fs.ent
                        /\ s.ent[e].buf = "held" /\ d.off < s.ent[e].size
                        /\ fs.ent[e].cap # s.ent[e].cap \/ fs.ent[e].buf = "freed"
                        /\ Overtaken(Fault(fs))

\* The walk of ktmpfs_readdir: an entry it stood on was freed.
ReaddirOvertaken ==
    \E s \in seen : LET n == s.fds["shell"][fs.sh.fd].node
                    IN  /\ fs.sh.cmd = "ls" /\ ~Dead(s, n)
                        /\ ~(Entry(s, n).kids \cup {s.node[n]} \subseteq DOMAIN fs.ent)
                        /\ Overtaken(Fault(fs))

ShellOvertaken ==
    \/ \E path \in Paths : \/ \E o \in DOMAIN Openings \ {"write"} : OpenOvertaken(path, o)
                           \/ \E kind \in {"dir", "reg"} : RemoveOvertaken(path, kind)
                           \/ ChdirOvertaken(path)
    \/ CwdOvertaken \/ CopyOvertaken \/ ReaddirOvertaken

----------------------------------------------------------------------------
\* After a fault, or at the bound.
Undefined == (fs.fault \/ calls = MaxCalls) /\ UNCHANGED cvars

----------------------------------------------------------------------------
Boot == KfsMountRoot \/ KinitrdUnpack \/ KfsMountDev
        \/ KprocessCreate("shell", "ready", "shell") \/ KprocessCreate("user", "shell", "both")

User == \/ \E path \in Paths : \/ \E o \in {"read", "write"} : SysOpen(path, o)
                               \/ SysChdir(path) \/ SysUnlink(path) \/ SysMkdir(path)
                               \/ SysRmdir(path) \/ SysStat(path)
        \/ \E f \in -1 .. KFD_MAX_COUNT : \/ SysClose(f) \/ SysFstat(f)
                                          \/ \E len \in 0 .. 1 : SysRead(f, len) \/ SysWrite(f, len)

Commands == \/ \E path \in Paths : \/ KshellCat(path) \/ KshellTouch(path) \/ KshellMkdir(path)
                                   \/ KshellCd(path) \/ KshellUnlink(path) \/ KshellRmdir(path)
                                   \/ KshellLs(path)
            \/ KshellPwd

Continue == CatStat \/ CatRead \/ TouchClose \/ KmkdirClose \/ LsNext

CallNext == Boot \/ User \/ Commands \/ Continue \/ Undefined

\* A system call comes within a call of the shell, which will go on with what it
\* had read before; if not, the system call is one between calls.  The bound does
\* not apply to the copy of cat.
Within ==
    /\ seen = {} /\ (calls < MaxWithin \/ fs.sh.cmd = "read")
    /\ fs' # fs /\ seen' = {fs}

FilesNext ==
    \/ /\ ~astray /\ UNCHANGED astray
       /\ \/ (Boot \/ Undefined) /\ UNCHANGED seen
          \/ User /\ (Within \/ UNCHANGED seen)
          \/ (Commands \/ Continue) /\ seen = {} /\ UNCHANGED seen
    \/ ~astray /\ ShellOvertaken
    \/ astray /\ UNCHANGED fvars

FilesSpec == FilesInit /\ [][FilesNext]_fvars

----------------------------------------------------------------------------
(* What is checked.  Nothing is claimed once a call of the shell has gone  *)
(* astray: a directory may then have a name twice, and freed memory is     *)
(* used though nothing that is named was freed.                            *)

\* Types; between calls no answer is pending.
FilesTypeOK ==
    /\ fs.fault \in BOOLEAN /\ fs.lost \in Nat /\ fs.heap \in HeapSizes /\ fs.ret = NULL
    /\ \A e \in DOMAIN fs.ent :
         /\ fs.ent[e].kind \in {"dir", "reg", "chr"} /\ fs.ent[e].buf \in {"none", "held", "freed"}
         /\ fs.ent[e].nlink \in Nat /\ fs.ent[e].size \in 0 .. MaxSize
    /\ fs.fds \in [Procs -> [Fds -> [node : Nat, off : Nat, acc : DOMAIN Wanted]]]
    /\ fs.sh.cmd \in {"prompt", "cat", "read", "touch", "mkdir", "ls"} /\ fs.sh.fd \in Fds \cup {KFD_ERROR}
    /\ boot.pc \in {"mount", "unpack", "dev", "ready", "shell", "both"}

Dirs == {e \in DOMAIN fs.ent : fs.ent[e].kind = "dir"}

\* Two entries of a directory have different names: what kvfs_open makes, it had
\* looked for.
NoNameTwice == \A d \in Dirs : IsInjective([e \in fs.ent[d].kids |-> fs.ent[e].name])

\* Whatever is made, removed and refused, the entries are a forest: every entry
\* but the two roots is once in the list of a live directory, two entries of a
\* directory have different names, and nlink counts them.  Of the pointers to
\* nodes the kernel keeps only kvfs_cwd can dangle: the node of a descriptor is
\* never freed by another call.  So it is until a call goes astray.
TreeSound == astray \/
    /\ NoNameTwice
    /\ \A e \in DOMAIN fs.ent :
         LET up == fs.ent[e].parent
         IN  up # NULL => up \in Dirs /\ e \in fs.ent[up].kids
    /\ \A d \in Dirs :
         /\ \A e \in fs.ent[d].kids : fs.ent[e].parent = d
         /\ fs.ent[d].nlink = 2 + Cardinality(fs.ent[d].kids)
    /\ DescNodes(fs) \cup ({fs.root} \ {NULL}) \subseteq DOMAIN fs.node

\* A read or write position is never past the end of its file, nor the end past
\* the block of its data, so ktmpfs_read, run as a whole, copies written bytes
\* only; nor does the unpacker's cursor pass the end of the image, an unsigned
\* difference.  So it is until a call goes astray.
PositionsInFile == astray \/
    /\ \A d \in Descs(fs) :
         LET desc == fs.fds[d[1]][d[2]]
             e == Entry(fs, desc.node)
         IN  ~Dead(fs, desc.node) /\ e.kind = "reg" => desc.off <= e.size /\ e.size <= e.cap
    /\ boot.cursor <= boot.image.len

\* The shell gives every descriptor back: at the prompt its table is empty,
\* however its commands ended (but for streams found where /dev should be) that
\* did not go astray.
ShellTableClean ==
    ~astray /\ fs.sh.cmd = "prompt" => \A f \in Fds : fs.fds["shell"][f] = NoDesc

\* A removal of path is refused, after a node was made for what it names.
RefusedAt(path) ==
    /\ KvfsLookupOpen(fs, path).ret \notin {NULL, fs.root}
    /\ KvfsRmdir(fs, path).ret = NULL \/ KvfsUnlink(fs, path).ret = NULL

\* The path is opened for p to the end, and then no descriptor can be made, for
\* want of a number or of memory: there is a new node, and no other trace but
\* what O_CREAT made.
OpensInVain(s, p, path, o) ==
    LET a == KvfsOpen(s, path, Openings[o].fl, Openings[o].mode)
    IN  /\ a.ret # NULL
        /\ (\A f \in Fds : s.fds[p][f] # NoDesc) \/ ~HasRoom(a)
        /\ fs'.ent = a.ent /\ fs'.fds = fs.fds /\ fs'.sh = fs.sh
        /\ DOMAIN fs'.node = DOMAIN a.node \ {a.ret}

\* Memory is lost for good in four cases only, one block at a time: the data of
\* a removed file; the node of a removal that is refused, and nothing else
\* changes then; the node of an open for which no descriptor can be made, be it
\* for kfd_opendir, which has a block for the time; and kfs_init's own dev_node.
LeaksKnown ==
    [][\/ astray' \/ fs'.lost = fs.lost
       \/ /\ fs'.lost = fs.lost + 1
          /\ \/ Data(fs, "held") \ DOMAIN fs'.ent # {}
             \/ fs' = [fs EXCEPT !.lost = fs.lost + 1] /\ \E path \in Paths : RefusedAt(path)
             \/ boot.pc = "dev"
             \/ \E path \in Paths : \/ \E p \in Procs, o \in DOMAIN Openings : OpensInVain(fs, p, path, o)
                                    \/ OpensInVain([fs EXCEPT !.sh = Opening], "shell", path, "ls")]_fvars

\* Until a call goes astray, freed memory is used only through the working
\* directory after a failed call closed it, through a node whose entry was
\* removed, through data whose block a failed write gave up, or through
\* kfd_opendir's unchecked pointer; and the call that closes the working directory
\* under the shell's feet did fail: no descriptor was made of what it opened.
FaultExplained ==
    [][/\ fs'.fault /\ ~fs.fault /\ ~astray' =>
            \/ \E n \in DescNodes(fs) \cup ({fs.cwd} \ {NULL}) : Dead(fs, n)
            \/ Data(fs, "freed") # {}
            \/ ~HasRoom(fs)
       /\ fs.cwd \in DOMAIN fs.node /\ fs'.cwd = fs.cwd /\ ~fs'.fault /\ fs.cwd \notin DOMAIN fs'.node
            => astray' \/ (fs'.fds = fs.fds /\ fs'.sh = fs.sh)]_fvars

\* The last state before a call went astray.
Sound == IF astray THEN CHOOSE s \in seen : TRUE ELSE fs

\* The path of an entry: the names from its root.
PathOf(ent) ==
    LET up[e \in DOMAIN ent] ==
          IF ent[e].parent = NULL THEN <<ent[e].name>> ELSE Append(up[ent[e].parent], ent[e].name)
    IN  up

T == INSTANCE FileTree WITH
         tree <- LET ent == Sound.ent
                     path == PathOf(ent)
                 IN  {[path |-> path[e], kind |-> ent[e].kind, size |-> ent[e].size] : e \in DOMAIN ent}

\* The linked entries implement a tree of paths that calls extend by one leaf,
\* cut by one leaf, or give a longer file, until a call goes astray.
ImplementsTree == T!Spec
=============================================================================
