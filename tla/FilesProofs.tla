----------------------------- MODULE FilesProofs ----------------------------
(***************************************************************************)
(* Proofs about Files, for every number of paths, descriptors, calls and   *)
(* blocks of the heap: what is known of a state of the file system (Good), *)
(* what each call keeps of it, the invariant and the theorems.             *)
(***************************************************************************)
EXTENDS Files, TLAPS, WellFoundedInduction, FiniteSetTheorems

\* A state of the file system is a record of these ten fields, an entry one of
\* these.
IsFs(s) ==
    s = [ent |-> s.ent, node |-> s.node, root |-> s.root, cwd |-> s.cwd,
         fds |-> s.fds, sh |-> s.sh, lost |-> s.lost, heap |-> s.heap, ret |-> s.ret,
         fault |-> s.fault]
IsEntry(x) ==
    x = [kind |-> x.kind, name |-> x.name, parent |-> x.parent, kids |-> x.kids,
         nlink |-> x.nlink, size |-> x.size, cap |-> x.cap, buf |-> x.buf, mode |-> x.mode,
         uid |-> x.uid, gid |-> x.gid]
IsFun(f) == f = [x \in DOMAIN f |-> f[x]]

\* Addresses of objects: f is a table of them.
IsTable(f) == IsFun(f) /\ IsFiniteSet(DOMAIN f) /\ DOMAIN f \subseteq Nat \ {NULL}

\* One entry: only directories have others below them, and count them.
EntryOK(x) ==
    /\ IsEntry(x)
    /\ x.kind \in {"dir", "reg", "chr"} /\ x.buf \in {"none", "held", "freed"}
    /\ x.parent \in Nat /\ x.nlink \in Nat /\ x.size \in 0 .. MaxSize /\ x.cap \in Nat
    /\ IsFiniteSet(x.kids)
    /\ x.kind = "reg" => x.size <= x.cap
    /\ IF x.kind = "dir" THEN x.nlink = 2 + Cardinality(x.kids) ELSE x.kids = {}

\* The links between entries.
LinkedUp(E) ==
    \A e \in DOMAIN E : E[e].parent # NULL =>
        /\ E[e].parent \in DOMAIN E /\ E[E[e].parent].kind = "dir"
        /\ e \in E[E[e].parent].kids
LinkedDown(E) == \A d \in DOMAIN E : \A k \in E[d].kids : k \in DOMAIN E /\ E[k].parent = d
NamesApart(E) == \A d \in DOMAIN E : \A j, k \in E[d].kids : E[j].name = E[k].name => j = k

Forest(E) ==
    /\ IsTable(E) /\ \A e \in DOMAIN E : EntryOK(E[e])
    /\ LinkedUp(E) /\ LinkedDown(E) /\ NamesApart(E)

\* The pointers the kernel keeps, and the types of the rest.
Desc == [node : Nat, off : Nat, acc : {"r", "w", "rw"}]
NodeAt(s, p, f) == s.fds[p][f].node

Typed(s) ==
    /\ IsFs(s) /\ IsTable(s.node) /\ \A n \in DOMAIN s.node : s.node[n] \in Nat
    /\ s.root \in Nat /\ s.cwd \in Nat
    /\ s.fds \in [Procs -> [Fds -> Desc]]
    /\ s.fault \in BOOLEAN /\ s.lost \in Nat /\ s.heap \in HeapSizes

\* Each descriptor has a node that no other pointer names; the root is there and
\* its entry is the top of a tree.  The working directory may be gone.
Handles(s) ==
    /\ \A p \in Procs, f \in Fds :
         IF NodeAt(s, p, f) = NULL THEN s.fds[p][f] = NoDesc
         ELSE NodeAt(s, p, f) \in DOMAIN s.node \ {s.root, s.cwd}
    /\ \A p, q \in Procs, f, g \in Fds :
         NodeAt(s, p, f) = NodeAt(s, q, g) /\ NodeAt(s, p, f) # NULL => p = q /\ f = g
    /\ s.root # NULL => /\ s.root \in DOMAIN s.node /\ s.node[s.root] \in DOMAIN s.ent
                        /\ s.ent[s.node[s.root]].parent = NULL

\* No descriptor stands behind the end of its file.
Positions(s) ==
    \A p \in Procs, f \in Fds :
        NodeAt(s, p, f) # NULL /\ ~Dead(s, NodeAt(s, p, f)) /\ Entry(s, NodeAt(s, p, f)).kind = "reg"
          => s.fds[p][f].off <= Entry(s, NodeAt(s, p, f)).size

Good(s) == Typed(s) /\ Forest(s.ent) /\ Handles(s) /\ Positions(s)

\* A command of the shell holds one open descriptor.
ShellOK(s) ==
    /\ s.sh = [cmd |-> s.sh.cmd, fd |-> s.sh.fd, len |-> s.sh.len]
    /\ s.sh.cmd \in {"prompt", "cat", "read", "touch", "mkdir", "ls"} /\ s.sh.len \in Nat
    /\ IF s.sh.cmd = "prompt" THEN s.sh = Prompt
       ELSE s.sh.fd \in Fds /\ NodeAt(s, "shell", s.sh.fd) # NULL

----------------------------------------------------------------------------
(* Tables and addresses                                                    *)

\* The minimum of a nonempty set of naturals is its least element.
LEMMA LeastIn ==
    ASSUME NEW S, S \subseteq Nat, S # {}
    PROVE  Min(S) \in S /\ \A y \in S : Min(S) =< y
<1>1. PICK x \in S : \A y \in S : ~(<<y, x>> \in OpToRel(<, Nat))
  BY WFMin, NatLessThanWellFounded
<1>2. ASSUME NEW y \in S PROVE x =< y
  <2>1. ~(y < x)
    BY <1>1 DEF OpToRel
  <2> QED BY <2>1
<1>3. \E z \in S : \A y \in S : z =< y
  BY <1>2
<1> QED BY <1>3 DEF Min

\* The smaller and the larger of two numbers.
LEMMA MinOfTwo ==
    ASSUME NEW a \in Int, NEW b \in Int
    PROVE  Min({a, b}) = IF a <= b THEN a ELSE b
<1>1. \E z \in {a, b} : \A y \in {a, b} : z =< y
  OBVIOUS
<1>2. Min({a, b}) \in {a, b} /\ \A y \in {a, b} : Min({a, b}) =< y
  BY <1>1 DEF Min
<1> QED BY <1>2

LEMMA MaxOfTwo ==
    ASSUME NEW a \in Int, NEW b \in Int
    PROVE  Max({a, b}) = IF a >= b THEN a ELSE b
<1>1. \E z \in {a, b} : \A y \in {a, b} : z >= y
  OBVIOUS
<1>2. Max({a, b}) \in {a, b} /\ \A y \in {a, b} : Max({a, b}) >= y
  BY <1>1 DEF Max
<1> QED BY <1>2

\* A fresh address is none of the named ones.
LEMMA FreshIs ==
    ASSUME NEW S, S \subseteq Nat, IsFiniteSet(S)
    PROVE  Fresh(S) \in Nat \ {NULL} /\ Fresh(S) \notin S
<1> DEFINE U == 1 .. (Cardinality(S) + 1)
<1>1. Cardinality(S) \in Nat
  BY FS_CardinalityType
<1>2. IsFiniteSet(U) /\ Cardinality(U) = Cardinality(S) + 1
  BY <1>1, FS_Interval
<1>3. ~(U \subseteq S)
  <2>1. SUFFICES ASSUME U \subseteq S PROVE FALSE
    OBVIOUS
  <2>2. Cardinality(U) <= Cardinality(S)
    BY <2>1, FS_Subset
  <2> QED BY <1>1, <1>2, <2>2
<1>4. U \ S \subseteq Nat /\ U \ S # {}
  BY <1>1, <1>3
<1> HIDE DEF U
<1>5. Min(U \ S) \in U \ S
  BY <1>4, LeastIn
<1>6. Min(U \ S) \in 1 .. (Cardinality(S) + 1) /\ Min(U \ S) \notin S
  BY <1>5 DEF U
<1>7. Fresh(S) = Min(U \ S)
  BY DEF Fresh, U
<1> QED BY <1>1, <1>6, <1>7 DEF NULL

\* What Put and Restrict make of a table.
LEMMA PutTable ==
    ASSUME NEW f, IsTable(f), NEW x \in Nat \ {NULL}, NEW v, NEW g, g = Put(f, x, v)
    PROVE  IsTable(g)
<1>1. IsFiniteSet(DOMAIN f \cup {x})
  BY FS_AddElement DEF IsTable
<1>2. IsFun(g) /\ DOMAIN g = DOMAIN f \cup {x}
  BY DEF Put, IsFun
<1> QED BY <1>1, <1>2 DEF IsTable

LEMMA RestrictTable ==
    ASSUME NEW f, IsTable(f), NEW S, NEW g, g = Restrict(f, DOMAIN f \ S)
    PROVE  IsTable(g)
<1>1. IsFiniteSet(DOMAIN f \ S)
  BY FS_Difference DEF IsTable
<1>2. IsFun(g) /\ DOMAIN g = DOMAIN f \ S
  BY DEF Restrict, IsFun
<1> QED BY <1>1, <1>2 DEF IsTable

\* Two tables with the same entries are one.
LEMMA SameTable ==
    ASSUME NEW f, NEW g, IsFun(f), IsFun(g), DOMAIN f = DOMAIN g, \A x \in DOMAIN f : f[x] = g[x]
    PROVE  f = g
  BY DEF IsFun

\* A node that is put and taken out again leaves no trace.
LEMMA PutAndBack ==
    ASSUME NEW f, IsFun(f), NEW x, x \notin DOMAIN f, NEW v, NEW g, g = Put(f, x, v)
    PROVE  Restrict(g, DOMAIN g \ {x}) = f
<1>1. DOMAIN g = DOMAIN f \cup {x} /\ \A y \in DOMAIN f : g[y] = f[y]
  BY DEF Put
<1>2. PICK h : h = Restrict(g, DOMAIN g \ {x})
  OBVIOUS
<1>3. IsFun(h) /\ DOMAIN h = DOMAIN f /\ \A y \in DOMAIN f : h[y] = f[y]
  BY <1>1, <1>2 DEF Restrict, IsFun
<1> QED BY <1>2, <1>3, SameTable

\* Of two nodes put the first is taken out.
LEMMA PutTwoTakeFirst ==
    ASSUME NEW f, IsFun(f), NEW x, NEW v, NEW y, NEW w, x # y, x \notin DOMAIN f,
           NEW g, g = Put(Put(f, x, v), y, w)
    PROVE  Restrict(g, DOMAIN g \ {x}) = Put(f, y, w)
<1>1. DOMAIN g = DOMAIN f \cup {x, y} /\ g[y] = w
      /\ \A z \in DOMAIN f \ {y} : g[z] = f[z]
  BY DEF Put
<1>2. PICK h : h = Restrict(g, DOMAIN g \ {x})
  OBVIOUS
<1>3. IsFun(h) /\ DOMAIN h = DOMAIN f \cup {y} /\ h[y] = w /\ \A z \in DOMAIN f \ {y} : h[z] = f[z]
  BY <1>1, <1>2 DEF Restrict, IsFun
<1>4. PICK k : k = Put(f, y, w)
  OBVIOUS
<1>5. IsFun(k) /\ DOMAIN k = DOMAIN f \cup {y} /\ k[y] = w /\ \A z \in DOMAIN f \ {y} : k[z] = f[z]
  BY <1>4 DEF Put, IsFun
<1>6. h = k
  BY <1>3, <1>5, SameTable
<1> QED BY <1>2, <1>4, <1>6

\* The kernel runs as 0:0, which may do everything.
LEMMA MayAll == \A right, x : May(right, x, Cred)
  BY DEF May, Cred

----------------------------------------------------------------------------
(* Nodes: looking up, closing                                              *)

\* Addresses for a new node: nothing names them.
New(s) == Nat \ (DOMAIN s.node \cup {NULL, s.cwd})

\* r is s but for its entries, its nodes, its answer and its fault.
Rest(s, r) ==
    /\ IsFs(r) /\ r.root = s.root /\ r.cwd = s.cwd /\ r.fds = s.fds
    /\ r.sh = s.sh /\ r.lost = s.lost /\ r.heap = s.heap

\* r is s with a node for the entry e, the answer.
NodeFor(s, r, e) == r.ret \in New(s) /\ r.node = Put(s.node, r.ret, e)

\* A lookup answers nothing or a new node of a live entry.
Found(s, r) ==
    /\ Rest(s, r) /\ r.ent = s.ent /\ r.fault \in BOOLEAN /\ (s.fault \/ r.fault => r.ret = NULL)
    /\ s.fault => r.fault
    /\ \/ r.ret = NULL /\ r.node = s.node
       \/ \E e \in DOMAIN s.ent : NodeFor(s, r, e)

\* The parts of Good.
LEMMA GoodParts ==
    ASSUME NEW s, Good(s)
    PROVE  /\ IsFs(s) /\ IsTable(s.node) /\ IsTable(s.ent) /\ s.fault \in BOOLEAN
           /\ IsFun(s.node) /\ DOMAIN s.node \subseteq Nat \ {NULL}
           /\ IsFun(s.ent) /\ DOMAIN s.ent \subseteq Nat \ {NULL}
           /\ \A n \in DOMAIN s.node : s.node[n] \in Nat
           /\ s.root \in Nat /\ s.cwd \in Nat
           /\ \A e \in DOMAIN s.ent : EntryOK(s.ent[e])
           /\ LinkedUp(s.ent) /\ LinkedDown(s.ent) /\ NamesApart(s.ent)
  BY DEF Good, Typed, Forest, IsTable

\* Descriptors have live nodes.
LEMMA DescNodesThere ==
    ASSUME NEW s, Good(s)
    PROVE  DescNodes(s) \subseteq DOMAIN s.node
  BY DEF Good, Handles, DescNodes, Descs, NodeAt, Fds

LEMMA NewNodeIs ==
    ASSUME NEW s, Good(s)
    PROVE  NewNode(s) \in New(s)
<1> DEFINE S == DOMAIN s.node \cup DescNodes(s) \cup {s.cwd}
<1>1. S = DOMAIN s.node \cup {s.cwd}
  BY DescNodesThere
<1>2. IsFiniteSet(DOMAIN s.node) /\ DOMAIN s.node \subseteq Nat /\ s.cwd \in Nat
  BY GoodParts DEF IsTable
<1>3. IsFiniteSet(S) /\ S \subseteq Nat
  BY <1>1, <1>2, FS_AddElement
<1>4. Fresh(S) \in Nat \ {NULL} /\ Fresh(S) \notin S
  <2> HIDE DEF S
  <2> QED BY <1>3, FreshIs
<1> QED BY <1>1, <1>4 DEF NewNode, New

LEMMA NewEntryIs ==
    ASSUME NEW s, Good(s)
    PROVE  /\ NewEntry(s) \in Nat \ {NULL} /\ NewEntry(s) \notin DOMAIN s.ent
           /\ \A n \in DOMAIN s.node : s.node[n] # NewEntry(s)
<1> DEFINE I == {s.node[n] : n \in DOMAIN s.node}
           S == DOMAIN s.ent \cup I
<1>1. IsFiniteSet(DOMAIN s.node) /\ IsFiniteSet(DOMAIN s.ent)
      /\ DOMAIN s.ent \subseteq Nat /\ I \subseteq Nat
  BY GoodParts DEF IsTable
<1>2. IsFiniteSet(I)
  <2>1. PICK f : f = s.node
    OBVIOUS
  <2>2. f \in [DOMAIN f -> I] /\ \A y \in I : \E x \in DOMAIN f : f[x] = y
    BY <2>1, GoodParts DEF IsFun
  <2>3. f \in Surjection(DOMAIN f, I)
    BY <2>2 DEF Surjection
  <2> HIDE DEF I
  <2> QED BY <1>1, <2>1, <2>3, FS_Surjection
<1>3. IsFiniteSet(S) /\ S \subseteq Nat
  <2> HIDE DEF I
  <2> QED BY <1>1, <1>2, FS_Union
<1>4. Fresh(S) \in Nat \ {NULL} /\ Fresh(S) \notin S
  <2> HIDE DEF S
  <2> QED BY <1>3, FreshIs
<1>5. NewEntry(s) = Fresh(S)
  BY DEF NewEntry
<1> QED BY <1>4, <1>5

\* ktmpfs_create_vfs_node for a live entry, or for none.
LEMMA CreateNodeIs ==
    ASSUME NEW s, Good(s), ~s.fault, NEW e, e = NULL \/ e \in DOMAIN s.ent,
           NEW r, r = KtmpfsCreateVfsNode(s, e)
    PROVE  /\ Found(s, r) /\ r.fault = s.fault
           /\ r.ret = NULL => e = NULL \/ ~HasRoom(s)
           /\ r.ret # NULL => NodeFor(s, r, e)
<1>1. IsFs(s) /\ s.fault = FALSE
  BY GoodParts
<1>2. NewNode(s) \in New(s) /\ NULL \notin New(s)
  BY NewNodeIs DEF New
<1>3. CASE e = NULL \/ ~HasRoom(s)
  <2>1. r = Fail(s)
    BY <1>3 DEF KtmpfsCreateVfsNode
  <2>2. Rest(s, r) /\ r.ent = s.ent /\ r.fault = s.fault /\ r.ret = NULL /\ r.node = s.node
    BY <1>1, <2>1 DEF Fail, IsFs, Rest
  <2> QED BY <1>1, <1>3, <2>2 DEF Found
<1>4. CASE ~(e = NULL \/ ~HasRoom(s))
  <2>1. r = [s EXCEPT !.node = Put(s.node, NewNode(s), e), !.ret = NewNode(s)]
    BY <1>4 DEF KtmpfsCreateVfsNode
  <2>2. Rest(s, r) /\ r.ent = s.ent /\ r.fault = s.fault /\ r.ret = NewNode(s)
        /\ r.node = Put(s.node, NewNode(s), e)
    BY <1>1, <2>1 DEF IsFs, Rest
  <2>3. NodeFor(s, r, e) /\ r.ret # NULL
    BY <1>2, <2>2 DEF NodeFor
  <2> QED BY <1>1, <1>4, <2>2, <2>3 DEF Found
<1> QED BY <1>3, <1>4

\* The child of a name, if there is one.
LEMMA ChildIs ==
    ASSUME NEW s, Good(s), NEW e \in DOMAIN s.ent, NEW name, NEW c, c = Child(s, e, name)
    PROVE  /\ c = NULL => \A k \in s.ent[e].kids : s.ent[k].name # name
           /\ c # NULL => c \in s.ent[e].kids /\ s.ent[c].name = name /\ c \in DOMAIN s.ent
<1> DEFINE hits == {k \in s.ent[e].kids : s.ent[k].name = name}
<1>1. \A k \in s.ent[e].kids : k \in DOMAIN s.ent /\ k \in Nat \ {NULL}
  BY GoodParts DEF LinkedDown
<1>2. hits \subseteq Nat \ {NULL}
  BY <1>1
<1>3. c = IF hits = {} THEN NULL ELSE Min(hits)
  BY DEF Child
<1>4. CASE hits = {}
  BY <1>3, <1>4
<1>5. CASE hits # {}
  <2>1. Min(hits) \in hits
    <3> HIDE DEF hits
    <3> QED BY <1>2, <1>5, LeastIn
  <2> QED BY <1>1, <1>2, <1>3, <1>5, <2>1
<1> QED BY <1>4, <1>5

\* ktmpfs_lookup below a live node.
LEMMA TmpfsLookupIs ==
    ASSUME NEW s, Good(s), ~s.fault, NEW n \in DOMAIN s.node, s.node[n] \in DOMAIN s.ent,
           NEW name, NEW r, r = KtmpfsLookup(s, n, name)
    PROVE  /\ Found(s, r) /\ r.fault = s.fault
           /\ r.ret = NULL => \/ s.ent[s.node[n]].kind # "dir" \/ ~HasRoom(s)
                              \/ \A k \in s.ent[s.node[n]].kids : s.ent[k].name # name
           /\ r.ret # NULL /\ name \notin {".", ".."} =>
                 \E k \in s.ent[s.node[n]].kids : s.ent[k].name = name
<1>1. IsFs(s) /\ s.fault = FALSE
  BY GoodParts
<1>2. PICK e : e = s.node[n]
  OBVIOUS
<1>3. e \in DOMAIN s.ent /\ e # NULL
  BY <1>2, GoodParts
<1>4. CASE s.ent[e].kind # "dir"
  <2>1. r = Fail(s)
    BY <1>2, <1>4 DEF KtmpfsLookup
  <2>2. Rest(s, r) /\ r.ent = s.ent /\ r.fault = s.fault /\ r.ret = NULL /\ r.node = s.node
    BY <1>1, <2>1 DEF Fail, IsFs, Rest
  <2> QED BY <1>1, <1>2, <1>4, <2>2 DEF Found
<1>5. CASE s.ent[e].kind = "dir"
  <2>1. PICK c : c = CASE name = "."  -> e
                       [] name = ".." -> IF s.ent[e].parent = NULL THEN e ELSE s.ent[e].parent
                       [] OTHER       -> Child(s, e, name)
    OBVIOUS
  <2>2. r = KtmpfsCreateVfsNode(s, c)
    BY <1>2, <1>5, <2>1 DEF KtmpfsLookup
  <2>3. /\ c = NULL => \A k \in s.ent[e].kids : s.ent[k].name # name
        /\ c = NULL \/ c \in DOMAIN s.ent
        /\ c # NULL /\ name \notin {".", ".."} => \E k \in s.ent[e].kids : s.ent[k].name = name
    <3>1. s.ent[e].parent # NULL => s.ent[e].parent \in DOMAIN s.ent
      BY <1>3, GoodParts DEF LinkedUp
    <3>2. PICK h : h = Child(s, e, name)
      OBVIOUS
    <3>3. /\ h = NULL => \A k \in s.ent[e].kids : s.ent[k].name # name
          /\ h # NULL => h \in s.ent[e].kids /\ s.ent[h].name = name /\ h \in DOMAIN s.ent
      BY ONLY Good(s), <1>3, <3>2, ChildIs
    <3>4. CASE name = "."
      BY <1>3, <2>1, <3>4
    <3>5. CASE name = ".."
      BY <1>3, <2>1, <3>1, <3>5
    <3>6. CASE name \notin {".", ".."}
      <4>1. c = h
        BY <2>1, <3>2, <3>6
      <4> QED BY <3>3, <3>6, <4>1
    <3> QED BY <3>4, <3>5, <3>6
  <2>4. /\ Found(s, r) /\ r.fault = s.fault
        /\ r.ret = NULL => c = NULL \/ ~HasRoom(s)
        /\ r.ret # NULL => NodeFor(s, r, c)
    BY <2>2, <2>3, CreateNodeIs
  <2>5. r.ret # NULL => c # NULL
    BY <2>2, <1>1 DEF KtmpfsCreateVfsNode, Fail, IsFs
  <2> QED BY <1>2, <2>3, <2>4, <2>5
<1> QED BY <1>4, <1>5

\* kvfs_lookup below any node.
LEMMA LookupIs ==
    ASSUME NEW s, Good(s), NEW n, NEW name, NEW r, r = KvfsLookup(s, n, name)
    PROVE  /\ Found(s, r)
           /\ r.fault /\ ~s.fault => n # NULL /\ Dead(s, n)
           /\ r.ret # NULL => n # NULL /\ ~Dead(s, n)
           /\ r.ret = NULL /\ ~r.fault /\ n # NULL =>
                /\ ~Dead(s, n)
                /\ \/ Entry(s, n).kind # "dir" \/ ~HasRoom(s)
                   \/ \A k \in Entry(s, n).kids : s.ent[k].name # name
           /\ r.ret # NULL /\ name \notin {".", ".."} =>
                 \E k \in Entry(s, n).kids : s.ent[k].name = name
<1>1. IsFs(s) /\ s.fault \in BOOLEAN
  BY GoodParts
<1>2. CASE n = NULL \/ s.fault
  <2>1. r = Fail(s)
    BY <1>2 DEF KvfsLookup, Guarded
  <2>2. Rest(s, r) /\ r.ent = s.ent /\ r.fault = s.fault /\ r.ret = NULL /\ r.node = s.node
    BY <1>1, <2>1 DEF Fail, IsFs, Rest
  <2> QED BY <1>1, <1>2, <2>2 DEF Found
<1>3. CASE ~(n = NULL \/ s.fault) /\ Dead(s, n)
  <2>1. r = Fault(s)
    BY <1>3 DEF KvfsLookup, Guarded
  <2>2. Rest(s, r) /\ r.ent = s.ent /\ r.fault = TRUE /\ r.ret = NULL /\ r.node = s.node
    BY <1>1, <2>1 DEF Fault, IsFs, Rest
  <2> QED BY <1>1, <1>3, <2>2 DEF Found
<1>4. CASE ~(n = NULL \/ s.fault) /\ ~Dead(s, n)
  <2>1. r = KtmpfsLookup(s, n, name)
    BY <1>4, MayAll DEF KvfsLookup, Guarded
  <2>2. n \in DOMAIN s.node /\ s.node[n] \in DOMAIN s.ent /\ ~s.fault
    BY <1>4 DEF Dead
  <2>3. /\ Found(s, r) /\ r.fault = s.fault
        /\ r.ret = NULL => \/ s.ent[s.node[n]].kind # "dir" \/ ~HasRoom(s)
                           \/ \A k \in s.ent[s.node[n]].kids : s.ent[k].name # name
        /\ r.ret # NULL /\ name \notin {".", ".."} =>
                 \E k \in s.ent[s.node[n]].kids : s.ent[k].name = name
    BY <2>1, <2>2, TmpfsLookupIs
  <2> QED BY <1>4, <2>2, <2>3 DEF Entry
<1> QED BY <1>2, <1>3, <1>4

\* A new node disturbs nothing.
LEMMA FoundGood ==
    ASSUME NEW s, Good(s), NEW r, Found(s, r)
    PROVE  Good(r)
<1>1. CASE r.ret = NULL /\ r.node = s.node
  <2>1. Typed(r)
    BY <1>1 DEF Good, Typed, Found, Rest
  <2>2. Forest(r.ent)
    BY DEF Good, Found
  <2>3. Handles(r)
    BY <1>1 DEF Good, Handles, Found, Rest, NodeAt
  <2>4. Positions(r)
    BY <1>1 DEF Good, Positions, Found, Rest, NodeAt, Dead, Entry
  <2> QED BY <2>1, <2>2, <2>3, <2>4 DEF Good
<1>2. ASSUME NEW e \in DOMAIN s.ent, NodeFor(s, r, e)
      PROVE  Good(r)
  <2>1. /\ r.ret \in Nat \ {NULL} /\ r.ret \notin DOMAIN s.node /\ r.ret # s.cwd
        /\ IsFun(r.node) /\ DOMAIN r.node = DOMAIN s.node \cup {r.ret}
        /\ \A n \in DOMAIN s.node : r.node[n] = s.node[n]
    BY <1>2 DEF NodeFor, New, Put, IsFun
  <2>2. r.node[r.ret] = e
    BY <1>2 DEF NodeFor, Put
  <2>3. e \in Nat
    BY <1>2, GoodParts
  <2>4. IsTable(r.node)
    <3>1. IsTable(s.node)
      BY GoodParts
    <3> QED BY <1>2, <2>1, <3>1, PutTable DEF NodeFor
  <2>5. Typed(r)
    <3>1. \A n \in DOMAIN r.node : r.node[n] \in Nat
      BY <2>1, <2>2, <2>3 DEF Good, Typed
    <3> QED BY <2>4, <3>1 DEF Good, Typed, Found, Rest
  <2>6. Forest(r.ent)
    BY DEF Good, Found
  <2>7. Handles(r)
    BY <2>1 DEF Good, Handles, Found, Rest, NodeAt
  <2>8. Positions(r)
    <3>1. \A p \in Procs, f \in Fds : NodeAt(s, p, f) # NULL => NodeAt(s, p, f) \in DOMAIN s.node
      BY DEF Good, Handles
    <3> SUFFICES ASSUME NEW p \in Procs, NEW f \in Fds, NodeAt(r, p, f) # NULL,
                        ~Dead(r, NodeAt(r, p, f)), Entry(r, NodeAt(r, p, f)).kind = "reg"
                 PROVE  r.fds[p][f].off <= Entry(r, NodeAt(r, p, f)).size
      BY DEF Positions
    <3>2. r.ent = s.ent /\ r.fds = s.fds /\ NodeAt(r, p, f) = NodeAt(s, p, f)
      BY DEF Found, Rest, NodeAt
    <3>3. NodeAt(s, p, f) \in DOMAIN s.node /\ r.node[NodeAt(s, p, f)] = s.node[NodeAt(s, p, f)]
      BY <2>1, <3>1, <3>2
    <3>4. ~Dead(s, NodeAt(s, p, f)) /\ Entry(r, NodeAt(r, p, f)) = Entry(s, NodeAt(s, p, f))
      BY <3>2, <3>3 DEF Dead, Entry
    <3> QED BY <3>2, <3>4 DEF Good, Positions
  <2> QED BY <2>5, <2>6, <2>7, <2>8 DEF Good
<1> QED BY <1>1, <1>2 DEF Found

\* kvfs_close of a node other than the root.
LEMMA CloseIs ==
    ASSUME NEW s, IsFs(s), NEW n \in DOMAIN s.node, n \notin {NULL, s.root},
           NEW r, r = KvfsClose(s, n)
    PROVE  /\ Rest(s, r) /\ r.ent = s.ent /\ r.fault = s.fault /\ r.ret = s.ret
           /\ r.node = Restrict(s.node, DOMAIN s.node \ {n})
<1>1. r = [s EXCEPT !.node = Restrict(s.node, DOMAIN s.node \ {n})]
  BY DEF KvfsClose
<1> QED BY <1>1 DEF IsFs, Rest

\* r is s without the node n.
Without(s, r, n) ==
    /\ IsFs(r) /\ r.ent = s.ent /\ r.root = s.root /\ r.fds = s.fds
    /\ r.lost = s.lost /\ r.heap = s.heap /\ r.fault = s.fault
    /\ r.cwd = s.cwd /\ r.node = Restrict(s.node, DOMAIN s.node \ {n})

\* A node goes that no descriptor has, nor the root.
LEMMA WithoutGood ==
    ASSUME NEW s, Good(s), NEW n, n # s.root, n \notin DescNodes(s),
           NEW r, Without(s, r, n)
    PROVE  Good(r)
<1>1. IsFun(r.node) /\ DOMAIN r.node = DOMAIN s.node \ {n}
      /\ \A m \in DOMAIN s.node \ {n} : r.node[m] = s.node[m]
  BY DEF Without, Restrict, IsFun
<1>2. IsTable(r.node)
  BY GoodParts, RestrictTable DEF Without
<1>3. \A p \in Procs, f \in Fds : NodeAt(s, p, f) # NULL =>
         NodeAt(s, p, f) \in DOMAIN s.node \ {n}
  <2> SUFFICES ASSUME NEW p \in Procs, NEW f \in Fds, NodeAt(s, p, f) # NULL
               PROVE  NodeAt(s, p, f) \in DOMAIN s.node \ {n}
    OBVIOUS
  <2>1. NodeAt(s, p, f) \in DOMAIN s.node
    BY DEF Good, Handles
  <2>2. <<p, f>> \in Descs(s)
    BY DEF Descs, NodeAt, Fds
  <2>3. NodeAt(s, p, f) \in DescNodes(s)
    BY <2>2 DEF DescNodes, NodeAt
  <2> QED BY <2>1, <2>3
<1>4. Typed(r)
  BY <1>1, <1>2 DEF Good, Typed, Without
<1>5. Forest(r.ent)
  BY DEF Good, Without
<1>6. Handles(r)
  <2>1. \A p \in Procs, f \in Fds :
         IF NodeAt(r, p, f) = NULL THEN r.fds[p][f] = NoDesc
         ELSE NodeAt(r, p, f) \in DOMAIN r.node \ {r.root, r.cwd}
    BY <1>1, <1>3 DEF Good, Handles, Without, NodeAt
  <2>2. \A p, q \in Procs, f, g \in Fds :
         NodeAt(r, p, f) = NodeAt(r, q, g) /\ NodeAt(r, p, f) # NULL => p = q /\ f = g
    BY DEF Good, Handles, Without, NodeAt
  <2>3. r.root # NULL => /\ r.root \in DOMAIN r.node /\ r.node[r.root] \in DOMAIN r.ent
                         /\ r.ent[r.node[r.root]].parent = NULL
    BY <1>1 DEF Good, Handles, Without
  <2> QED BY <2>1, <2>2, <2>3 DEF Handles
<1>7. Positions(r)
  BY <1>1, <1>3 DEF Good, Positions, Without, NodeAt, Dead, Entry
<1> QED BY <1>4, <1>5, <1>6, <1>7 DEF Good

----------------------------------------------------------------------------
(* Paths                                                                   *)

\* A node found and closed again, or with another found below it.
LEMMA FoundClosed ==
    ASSUME NEW s, Good(s), NEW a, Found(s, a), a.ret # NULL, NEW b, Found(a, b),
           NEW r, r = KvfsClose(b, a.ret)
    PROVE  Found(s, r) /\ r.ret = b.ret /\ r.fault = b.fault
<1>1. PICK e \in DOMAIN s.ent : NodeFor(s, a, e)
  BY DEF Found
<1>2. a.ret \in Nat \ {NULL} /\ a.ret \notin DOMAIN s.node /\ a.ret # s.cwd
      /\ a.node = Put(s.node, a.ret, e)
      /\ DOMAIN a.node = DOMAIN s.node \cup {a.ret}
  BY <1>1 DEF NodeFor, New, Put
<1>3. DOMAIN a.node \subseteq DOMAIN b.node
  <2>1. b.node = a.node \/ \E x : b.node = Put(a.node, b.ret, x)
    BY DEF Found, NodeFor
  <2> QED BY <2>1 DEF Put
<1>4. a.ret \in DOMAIN b.node
  BY <1>2, <1>3
<1>5. s.root # NULL => s.root \in DOMAIN s.node
  BY DEF Good, Handles
<1>6. a.ret \notin {NULL, b.root}
  BY <1>2, <1>5 DEF Found, Rest
<1>7. /\ Rest(b, r) /\ r.ent = b.ent /\ r.fault = b.fault /\ r.ret = b.ret
      /\ r.node = Restrict(b.node, DOMAIN b.node \ {a.ret})
  <2>1. IsFs(b)
    BY DEF Found, Rest
  <2> QED BY <1>4, <1>6, <2>1, CloseIs
<1>8. Rest(s, r) /\ r.ent = s.ent
  BY <1>7 DEF Found, Rest
<1>9. IsFun(s.node)
  BY GoodParts
<1>10. CASE b.ret = NULL /\ b.node = a.node
  <2>1. r.node = s.node
    BY <1>2, <1>7, <1>9, <1>10, PutAndBack
  <2> QED BY <1>7, <1>8, <1>10, <2>1 DEF Found
<1>11. ASSUME NEW x \in DOMAIN a.ent, NodeFor(a, b, x)
       PROVE  Found(s, r)
  <2>1. b.ret \in New(s) /\ b.ret # a.ret /\ b.node = Put(a.node, b.ret, x)
    BY <1>2, <1>11 DEF NodeFor, New, Found, Rest
  <2>2. b.node = Put(Put(s.node, a.ret, e), b.ret, x)
    BY <1>2, <2>1
  <2>3. r.node = Put(s.node, b.ret, x)
    BY <1>2, <1>7, <1>9, <2>1, <2>2, PutTwoTakeFirst
  <2>4. NodeFor(s, r, x) /\ x \in DOMAIN s.ent
    BY <1>7, <1>11, <2>1, <2>3 DEF NodeFor, Found
  <2>5. s.fault \/ r.fault => r.ret = NULL
    BY <1>7 DEF Found
  <2>6. r.fault \in BOOLEAN /\ (s.fault => r.fault)
    BY <1>7 DEF Found
  <2> QED BY <1>8, <2>4, <2>5, <2>6 DEF Found
<1> QED BY <1>7, <1>10, <1>11 DEF Found

\* What a lookup finds is alive, also for the next one.
LEMMA FoundAlive ==
    ASSUME NEW s, Good(s), NEW a, Found(s, a), a.ret # NULL
    PROVE  ~Dead(a, a.ret)
<1>1. PICK e \in DOMAIN s.ent : NodeFor(s, a, e)
  BY DEF Found
<1>2. a.ret \in DOMAIN a.node /\ a.node[a.ret] = e
  BY <1>1 DEF NodeFor, Put
<1> QED BY <1>1, <1>2 DEF Dead, Found

\* The states of Descend's loop: the function it is defined by is there.
AfterFn(s, start, names, n, g) ==
    g = [i \in 0 .. n |-> IF i = 0 THEN [s EXCEPT !.ret = start] ELSE Below(g[i - 1], start, names[i])]

LEMMA AfterThere ==
    ASSUME NEW s, NEW start, NEW names
    PROVE  \A n \in Nat : \E g : AfterFn(s, start, names, n, g)
<1> DEFINE Bad == {n \in Nat : ~ \E g : AfterFn(s, start, names, n, g)}
<1>1. SUFFICES ASSUME Bad # {} PROVE FALSE
  OBVIOUS
<1>2. PICK n \in Bad : \A m \in Bad : n <= m
  <2>1. Bad \subseteq Nat
    OBVIOUS
  <2> HIDE DEF Bad
  <2> QED BY <1>1, <2>1, LeastIn
<1>3. n \in Nat /\ ~ \E g : AfterFn(s, start, names, n, g)
  BY <1>2
<1>4. CASE n = 0
  <2>1. PICK g : g = [i \in 0 .. 0 |-> [s EXCEPT !.ret = start]]
    OBVIOUS
  <2>2. AfterFn(s, start, names, 0, g)
    BY <2>1 DEF AfterFn
  <2> QED BY <1>3, <1>4, <2>2
<1>5. CASE n # 0
  <2>1. n - 1 \in Nat /\ n - 1 \notin Bad
    BY <1>2, <1>3, <1>5
  <2>2. PICK g : AfterFn(s, start, names, n - 1, g)
    BY <2>1
  <2>3. PICK h : h = [i \in 0 .. n |-> IF i = n THEN Below(g[n - 1], start, names[n]) ELSE g[i]]
    OBVIOUS
  <2>4. ASSUME NEW i \in 0 .. n
        PROVE  h[i] = IF i = 0 THEN [s EXCEPT !.ret = start] ELSE Below(h[i - 1], start, names[i])
    <3>1. \A j \in 0 .. n - 1 : g[j] = IF j = 0 THEN [s EXCEPT !.ret = start]
                                       ELSE Below(g[j - 1], start, names[j])
      BY <2>2 DEF AfterFn
    <3>2. CASE i = n
      <4>1. h[i] = Below(g[i - 1], start, names[i]) /\ h[i - 1] = g[i - 1]
        BY <1>3, <1>5, <2>3, <3>2
      <4> QED BY <1>5, <3>2, <4>1
    <3>3. CASE i # n
      <4>1. h[i] = g[i] /\ i \in 0 .. n - 1 /\ (i # 0 => h[i - 1] = g[i - 1])
        BY <1>3, <2>3, <3>3
      <4> QED BY <3>1, <4>1
    <3> QED BY <3>2, <3>3
  <2>5. AfterFn(s, start, names, n, h)
    BY <2>3, <2>4 DEF AfterFn
  <2> QED BY <1>3, <2>5
<1> QED BY <1>4, <1>5

\* The states a run of Descend's loop goes through.
Descent(s, start, names, g) ==
    /\ g[0] = [s EXCEPT !.ret = start]
    /\ \A i \in 1 .. Len(names) : g[i] = Below(g[i - 1], start, names[i])
    /\ Descend(s, start, names) = g[Len(names)]

LEMMA DescendRuns ==
    ASSUME NEW s, NEW start, NEW names, Len(names) \in Nat
    PROVE  \E g : Descent(s, start, names, g)
<1>1. \E g : AfterFn(s, start, names, Len(names), g)
  BY AfterThere
<1>2. PICK g : g = CHOOSE h : AfterFn(s, start, names, Len(names), h)
  OBVIOUS
<1>3. AfterFn(s, start, names, Len(names), g)
  BY <1>1, <1>2
<1>4. Descend(s, start, names) = g[Len(names)]
  BY <1>2 DEF Descend, AfterFn
<1>5. \A i \in 0 .. Len(names) :
        g[i] = IF i = 0 THEN [s EXCEPT !.ret = start] ELSE Below(g[i - 1], start, names[i])
  BY <1>3 DEF AfterFn
<1>6. g[0] = [s EXCEPT !.ret = start]
  BY <1>5
<1>7. \A i \in 1 .. Len(names) : g[i] = Below(g[i - 1], start, names[i])
  BY <1>5
<1>8. Descent(s, start, names, g)
  BY <1>4, <1>6, <1>7 DEF Descent
<1> QED BY <1>8

\* Same but for the answer and the shell's command.
Same(s, r) ==
    /\ IsFs(r) /\ r.ent = s.ent /\ r.node = s.node /\ r.root = s.root /\ r.cwd = s.cwd
    /\ r.fds = s.fds /\ r.lost = s.lost /\ r.heap = s.heap
    /\ r.fault = s.fault

LEMMA SameGood ==
    ASSUME NEW s, Good(s), NEW r, Same(s, r)
    PROVE  Good(r)
<1>1. Typed(r)
  BY DEF Good, Typed, Same
<1>2. Forest(r.ent)
  BY DEF Good, Same
<1>3. Handles(r)
  BY DEF Good, Handles, Same, NodeAt
<1>4. Positions(r)
  BY DEF Good, Positions, Same, NodeAt, Dead, Entry
<1> QED BY <1>1, <1>2, <1>3, <1>4 DEF Good

\* One turn of the loop, from a node found, from the start or from nothing.
LEMMA BelowIs ==
    ASSUME NEW s, Good(s), NEW start, start \in {s.root, s.cwd, NULL},
           NEW a, NEW name, NEW r, r = Below(a, start, name),
           \/ a = [s EXCEPT !.ret = start]
           \/ Found(s, a) /\ (a.fault /\ ~s.fault => start # NULL /\ Dead(s, start))
    PROVE  Found(s, r) /\ (r.fault /\ ~s.fault => start # NULL /\ Dead(s, start))
<1>1. PICK b : b = KvfsLookup(a, a.ret, name)
  OBVIOUS
<1>2. r = IF a.ret \in {NULL, start} THEN b ELSE KvfsClose(b, a.ret)
  BY <1>1 DEF Below, Then
<1>3. CASE a = [s EXCEPT !.ret = start]
  <2>1. IsFs(s)
    BY GoodParts
  <2>2. Same(s, a) /\ a.sh = s.sh /\ a.ret = start
    BY <1>3, <2>1 DEF IsFs, Same
  <2>3. Good(a)
    BY <2>2, SameGood
  <2>4. Found(a, b) /\ (b.fault /\ ~a.fault => a.ret # NULL /\ Dead(a, a.ret))
    BY <1>1, <2>3, LookupIs
  <2>5. Found(s, b)
    BY <2>2, <2>4 DEF Same, Found, Rest, NodeFor, New
  <2>6. r = b
    BY <1>2, <2>2
  <2> QED BY <2>2, <2>4, <2>5, <2>6 DEF Dead, Same
<1>4. CASE Found(s, a) /\ (a.fault /\ ~s.fault => start # NULL /\ Dead(s, start))
  <2>1. Good(a)
    BY <1>4, FoundGood
  <2>2. Found(a, b) /\ (b.fault /\ ~a.fault => a.ret # NULL /\ Dead(a, a.ret))
    BY <1>1, <2>1, LookupIs
  <2>3. b.fault /\ ~s.fault => start # NULL /\ Dead(s, start)
    BY <1>4, <2>2, FoundAlive
  <2>4. CASE a.ret = NULL
    <3>1. a.node = s.node
      <4>1. NULL \notin New(s)
        BY DEF New
      <4> QED BY <1>4, <2>4, <4>1 DEF Found, NodeFor
    <3>2. b.ret = NULL /\ b.node = a.node
      <4>1. ~(b.ret # NULL)
        BY <1>1, <2>1, <2>4, LookupIs
      <4>2. NULL \notin New(a)
        BY DEF New
      <4> QED BY <2>2, <4>1, <4>2 DEF Found, NodeFor
    <3>3. Found(s, b)
      BY <1>4, <2>2, <3>1, <3>2 DEF Found, Rest
    <3> QED BY <1>2, <2>3, <2>4, <3>3
  <2>5. CASE a.ret # NULL
    <3>1. a.ret # start
      <4>1. a.ret \notin DOMAIN s.node /\ a.ret # s.cwd
        BY <1>4, <2>5 DEF Found, NodeFor, New
      <4>2. s.root = NULL \/ s.root \in DOMAIN s.node
        BY DEF Good, Handles
      <4> QED BY <2>5, <4>1, <4>2
    <3>2. r = KvfsClose(b, a.ret)
      BY <1>2, <2>5, <3>1
    <3>3. Found(s, r) /\ r.fault = b.fault
      BY <1>4, <2>2, <2>5, <3>2, FoundClosed
    <3> QED BY <2>3, <3>3
  <2> QED BY <2>4, <2>5
<1> QED BY <1>3, <1>4

\* The walk down a path of one name or more.
LEMMA DescendIs ==
    ASSUME NEW s, Good(s), NEW start, start \in {s.root, s.cwd, NULL},
           NEW names, Len(names) \in Nat \ {0}, NEW r, r = Descend(s, start, names)
    PROVE  Found(s, r) /\ (r.fault /\ ~s.fault => start # NULL /\ Dead(s, start))
<1>0. PICK g : Descent(s, start, names, g)
  <2>1. Len(names) \in Nat
    OBVIOUS
  <2> QED BY ONLY <2>1, DescendRuns
<1>1. /\ g[0] = [s EXCEPT !.ret = start]
      /\ \A i \in 1 .. Len(names) : g[i] = Below(g[i - 1], start, names[i])
      /\ Descend(s, start, names) = g[Len(names)]
  BY <1>0 DEF Descent
<1> DEFINE OK1(a) == Found(s, a) /\ (a.fault /\ ~s.fault => start # NULL /\ Dead(s, start))
           Bad == {i \in 1 .. Len(names) : ~OK1(g[i])}
<1>2. SUFFICES ASSUME Bad # {} PROVE FALSE
  <2>1. Len(names) \in 1 .. Len(names)
    OBVIOUS
  <2> QED BY <1>1, <1>2, <2>1
<1>3. PICK n \in Bad : \A m \in Bad : n <= m
  <2>1. Bad \subseteq Nat
    OBVIOUS
  <2> HIDE DEF Bad
  <2> QED BY <1>2, <2>1, LeastIn
<1>4. n \in 1 .. Len(names) /\ ~OK1(g[n]) /\ g[n] = Below(g[n - 1], start, names[n])
  BY <1>1, <1>3
<1>5. g[n - 1] = [s EXCEPT !.ret = start] \/ OK1(g[n - 1])
  <2>1. CASE n = 1
    BY <1>1, <2>1
  <2>2. CASE n # 1
    <3>1. n - 1 \in 1 .. Len(names) /\ ~(n <= n - 1)
      BY <1>4, <2>2
    <3>2. n - 1 \notin Bad
      BY <1>3, <3>1
    <3> QED BY <3>1, <3>2
  <2> QED BY <2>1, <2>2
<1>6. PICK a, b, x : a = g[n - 1] /\ b = g[n] /\ x = names[n]
  OBVIOUS
<1>7. /\ b = Below(a, start, x)
      /\ \/ a = [s EXCEPT !.ret = start]
         \/ Found(s, a) /\ (a.fault /\ ~s.fault => start # NULL /\ Dead(s, start))
  BY <1>4, <1>5, <1>6
<1>8. OK1(b)
  BY ONLY Good(s), start \in {s.root, s.cwd, NULL}, <1>7, BelowIs
<1> QED BY <1>4, <1>6, <1>8

\* The walk down no path ends where it starts.
LEMMA DescendNowhere ==
    ASSUME NEW s, NEW start, NEW names, Len(names) \in Nat, Len(names) = 0,
           NEW r, r = Descend(s, start, names)
    PROVE  r = [s EXCEPT !.ret = start]
<1>0. PICK g : Descent(s, start, names, g)
  BY ONLY Len(names) \in Nat, DescendRuns
<1>1. /\ g[0] = [s EXCEPT !.ret = start]
      /\ \A i \in 1 .. Len(names) : g[i] = Below(g[i - 1], start, names[i])
      /\ Descend(s, start, names) = g[Len(names)]
  BY <1>0 DEF Descent
<1> QED BY <1>1

\* The names in a path.
Parts(path) == Range(path.parts) \cup {"/"}

LEMMA SplitIs ==
    ASSUME NEW path, IsPath(path)
    PROVE  /\ KvfsSplitPath(path) \in Seq(Parts(path))
           /\ path.abs => KvfsSplitPath(path) # <<>>
<1> DEFINE all == (IF path.abs THEN <<"/">> ELSE <<>>) \o path.parts
<1>1. all \in Seq(Parts(path)) /\ Len(all) \in Nat /\ (path.abs => Len(all) >= 1)
  <2>1. PICK x, P : x = "/" /\ P = Parts(path)
    OBVIOUS
  <2>2. path.parts \in Seq(P) /\ path.abs \in BOOLEAN /\ x \in P
    BY <2>1 DEF IsPath, Parts
  <2>3. CASE path.abs
    <3>1. all = <<x>> \o path.parts
      BY <2>1, <2>3
    <3>2. <<x>> \in Seq(P) /\ Len(<<x>>) = 1
      BY <2>2
    <3> HIDE DEF all
    <3> QED BY <2>1, <2>2, <3>1, <3>2
  <2>4. CASE ~path.abs
    <3>1. all = <<>> \o path.parts
      BY <2>4
    <3>2. <<>> \in Seq(P) /\ Len(<<>>) = 0
      OBVIOUS
    <3> HIDE DEF all
    <3> QED BY <2>1, <2>2, <2>4, <3>1, <3>2
  <2> QED BY <2>3, <2>4
<1>2. KVFS_MAX_PATH_PARTS \in Nat /\ KVFS_MAX_PATH_PARTS >= 1
  BY FilesAssumption
<1>3. PICK m : m = Min({Len(all), KVFS_MAX_PATH_PARTS})
  OBVIOUS
<1>4. m \in 0 .. Len(all) /\ (path.abs => m >= 1)
  <2> HIDE DEF all
  <2>1. m = IF Len(all) <= KVFS_MAX_PATH_PARTS THEN Len(all) ELSE KVFS_MAX_PATH_PARTS
    BY <1>1, <1>2, <1>3, MinOfTwo
  <2> QED BY <1>1, <1>2, <2>1
<1>5. KvfsSplitPath(path) = SubSeq(all, 1, m)
  BY <1>3 DEF KvfsSplitPath
<1> HIDE DEF all
<1>6. SubSeq(all, 1, m) \in Seq(Parts(path)) /\ Len(SubSeq(all, 1, m)) = m
  BY <1>1, <1>4
<1> QED BY <1>4, <1>5, <1>6

LEMMA NamesAre ==
    ASSUME NEW path, IsPath(path), KvfsSplitPath(path) # <<>>
    PROVE  /\ Len(Names(path)) \in Nat
           /\ ~path.abs => Len(Names(path)) # 0
           /\ Names(path) # <<>> => Len(Front(Names(path))) \in Nat /\ Len(Names(path)) # 0
<1>1. PICK q, P : q = KvfsSplitPath(path) /\ P = Parts(path)
  OBVIOUS
<1>2. q \in Seq(P) /\ Len(q) >= 1 /\ q # <<>>
  BY <1>1, SplitIs
<1>3. Tail(q) \in Seq(P)
  BY <1>2
<1>4. Names(path) = IF path.abs THEN Tail(q) ELSE q
  BY <1>1 DEF Names
<1>5. Names(path) \in Seq(P) /\ Len(Names(path)) \in Nat
  BY <1>2, <1>3, <1>4
<1>6. Names(path) # <<>> => Len(Front(Names(path))) \in Nat /\ Len(Names(path)) # 0
  BY <1>5 DEF Front
<1> QED BY <1>2, <1>4, <1>5, <1>6

\* Where a path starts.
LEMMA StartIs ==
    ASSUME NEW s, NEW path
    PROVE  /\ Start(s, s.cwd, path) \in {s.root, s.cwd}
           /\ path.abs => Start(s, s.cwd, path) = s.root
           /\ Start(s, s.cwd, path) = s.cwd => s.cwd = s.root \/ s.cwd # NULL
  BY DEF Start

\* The root does not die.
LEMMA RootAlive ==
    ASSUME NEW s, Good(s), s.root # NULL
    PROVE  s.root \in DOMAIN s.node /\ ~Dead(s, s.root)
  BY DEF Good, Handles, Dead

\* A path leads to the root itself, to nothing or to a new node; only the
\* working directory may be dead on the way.
LEMMA LookupOpenIs ==
    ASSUME NEW s, Good(s), NEW path, IsPath(path), NEW r, r = KvfsLookupOpen(s, path)
    PROVE  /\ Found(s, r) \/ r = [s EXCEPT !.ret = s.root]
           /\ r.fault /\ ~s.fault => s.cwd # NULL /\ Dead(s, s.cwd)
<1>1. IsFs(s)
  BY GoodParts
<1>2. CASE KvfsSplitPath(path) = <<>>
  <2>1. r = Fail(s)
    BY <1>2 DEF KvfsLookupOpen, KvfsResolveFrom
  <2>2. Rest(s, r) /\ r.ent = s.ent /\ r.fault = s.fault /\ r.ret = NULL /\ r.node = s.node
    BY <1>1, <2>1 DEF Fail, IsFs, Rest
  <2> QED BY <2>2, GoodParts DEF Found
<1>3. CASE KvfsSplitPath(path) # <<>>
  <2>1. PICK start, names : start = Start(s, s.cwd, path) /\ names = Names(path)
    OBVIOUS
  <2>2. r = Descend(s, start, names)
    BY <1>3, <2>1 DEF KvfsLookupOpen, KvfsResolveFrom
  <2>3. start \in {s.root, s.cwd}
    BY <2>1, StartIs
  <2>4. Len(names) \in Nat
    BY <1>3, <2>1, NamesAre
  <2>5. start # NULL /\ Dead(s, start) => s.cwd # NULL /\ Dead(s, s.cwd)
    BY <2>3, RootAlive
  <2>6. CASE Len(names) # 0
    <3>1. Found(s, r) /\ (r.fault /\ ~s.fault => start # NULL /\ Dead(s, start))
      BY <2>2, <2>3, <2>4, <2>6, DescendIs
    <3> QED BY <2>5, <3>1
  <2>7. CASE Len(names) = 0
    <3>1. r = [s EXCEPT !.ret = start]
      BY ONLY <2>2, <2>4, <2>7, DescendNowhere
    <3>2. start = s.root
      BY <1>3, <2>1, <2>7, NamesAre, StartIs DEF IsPath
    <3> QED BY <1>1, <3>1, <3>2 DEF IsFs
  <2> QED BY <2>6, <2>7
<1> QED BY <1>2, <1>3

\* The parent of a path: the start, nothing or a new node.
LEMMA ResolveParentIs ==
    ASSUME NEW s, Good(s), NEW path, IsPath(path), NEW r,
           r = KvfsResolveParentFrom(s, s.cwd, path)
    PROVE  /\ Found(s, r) \/ \E start \in {s.root, s.cwd} : r = [s EXCEPT !.ret = start]
           /\ r.fault /\ ~s.fault => s.cwd # NULL /\ Dead(s, s.cwd)
           /\ path.abs /\ r = [s EXCEPT !.ret = s.cwd] => Found(s, r) \/ s.cwd = s.root
<1>1. IsFs(s)
  BY GoodParts
<1>2. CASE KvfsSplitPath(path) = <<>>
  <2>1. r = Fail(s)
    BY <1>2 DEF KvfsResolveParentFrom
  <2>2. Rest(s, r) /\ r.ent = s.ent /\ r.fault = s.fault /\ r.ret = NULL /\ r.node = s.node
    BY <1>1, <2>1 DEF Fail, IsFs, Rest
  <2>3. Found(s, r)
    BY <2>2, GoodParts DEF Found
  <2> QED BY <2>2, <2>3
<1>3. CASE KvfsSplitPath(path) # <<>>
  <2>1. PICK start, names : /\ start = Start(s, s.cwd, path)
                            /\ names = IF Names(path) = <<>> THEN <<>> ELSE Front(Names(path))
    OBVIOUS
  <2>2. r = Descend(s, start, names)
    BY <1>3, <2>1 DEF KvfsResolveParentFrom
  <2>3. start \in {s.root, s.cwd} /\ (path.abs => start = s.root)
    BY <2>1, StartIs
  <2>4. Len(names) \in Nat
    <3>1. CASE Names(path) = <<>>
      BY <2>1, <3>1
    <3>2. CASE Names(path) # <<>>
      BY <1>3, <2>1, <3>2, NamesAre
    <3> QED BY <3>1, <3>2
  <2>5. start # NULL /\ Dead(s, start) => s.cwd # NULL /\ Dead(s, s.cwd)
    BY <2>3, RootAlive
  <2>6. CASE Len(names) # 0
    <3>1. Found(s, r) /\ (r.fault /\ ~s.fault => start # NULL /\ Dead(s, start))
      BY <2>2, <2>3, <2>4, <2>6, DescendIs
    <3> QED BY <2>5, <3>1
  <2>7. CASE Len(names) = 0
    <3>1. r = [s EXCEPT !.ret = start]
      BY ONLY <2>2, <2>4, <2>7, DescendNowhere
    <3>2. r.fault = s.fault /\ r.ret = start
      BY <1>1, <3>1 DEF IsFs
    <3>3. path.abs /\ r = [s EXCEPT !.ret = s.cwd] => s.cwd = s.root
      <4>1. [s EXCEPT !.ret = s.cwd].ret = s.cwd
        BY <1>1 DEF IsFs
      <4> QED BY <2>3, <3>2, <4>1
    <3> QED BY <2>3, <3>1, <3>2, <3>3
  <2> QED BY <2>6, <2>7
<1> QED BY <1>2, <1>3

----------------------------------------------------------------------------
(* Making entries                                                          *)

\* The entries F are E with the new entry x of that name below p.
Grown(E, F, p, x, name) ==
    /\ p \in DOMAIN E /\ E[p].kind = "dir" /\ x \in Nat \ {NULL} /\ x \notin DOMAIN E
    /\ IsFun(F) /\ DOMAIN F = DOMAIN E \cup {x}
    /\ \A e \in DOMAIN E : e # p => F[e] = E[e]
    /\ IsEntry(F[p]) /\ F[p].kids = E[p].kids \cup {x} /\ F[p].nlink = E[p].nlink + 1
    /\ F[p].kind = E[p].kind /\ F[p].name = E[p].name /\ F[p].parent = E[p].parent
    /\ F[p].size = E[p].size /\ F[p].cap = E[p].cap /\ F[p].buf = E[p].buf
    /\ IsEntry(F[x]) /\ F[x].kind \in {"dir", "reg", "chr"} /\ F[x].name = name
    /\ F[x].parent = p /\ F[x].kids = {} /\ F[x].nlink = (IF F[x].kind = "dir" THEN 2 ELSE 1)
    /\ F[x].size = 0 /\ F[x].cap = 0 /\ F[x].buf = "none"

\* The name is new below p.
NameFree(E, p, name) == \A k \in E[p].kids : E[k].name # name

LEMMA GrownForest ==
    ASSUME NEW E, Forest(E), NEW F, NEW p, NEW x, NEW name, Grown(E, F, p, x, name),
           NameFree(E, p, name)
    PROVE  Forest(F)
<1>1. /\ IsTable(E) /\ (\A e \in DOMAIN E : EntryOK(E[e]))
      /\ LinkedUp(E) /\ LinkedDown(E) /\ NamesApart(E)
  BY DEF Forest
<1>2. /\ p \in DOMAIN E /\ E[p].kind = "dir" /\ x \in Nat \ {NULL} /\ x \notin DOMAIN E
      /\ IsFun(F) /\ DOMAIN F = DOMAIN E \cup {x} /\ x # p
      /\ \A e \in DOMAIN E : e # p => F[e] = E[e]
  BY DEF Grown
<1>3. IsTable(F)
  <2>1. IsFiniteSet(DOMAIN E \cup {x})
    BY <1>1, FS_AddElement DEF IsTable
  <2> QED BY <1>1, <1>2, <2>1 DEF IsTable
<1>4. p \in Nat \ {NULL}
  BY <1>1, <1>2 DEF IsTable
<1>5. x \notin E[p].kids
  BY <1>1, <1>2 DEF LinkedDown
<1>6. EntryOK(F[p])
  <2>1. EntryOK(E[p])
    BY <1>1, <1>2
  <2>2. IsFiniteSet(E[p].kids) /\ E[p].nlink = 2 + Cardinality(E[p].kids)
    BY <1>2, <2>1 DEF EntryOK
  <2>3. IsFiniteSet(E[p].kids \cup {x}) /\ Cardinality(E[p].kids \cup {x}) = Cardinality(E[p].kids) + 1
    BY <1>5, <2>2, FS_AddElement
  <2>4. Cardinality(E[p].kids) \in Nat
    BY <2>2, FS_CardinalityType
  <2>5. F[p].nlink = 2 + Cardinality(F[p].kids) /\ F[p].nlink \in Nat /\ IsFiniteSet(F[p].kids)
    BY <2>2, <2>3, <2>4 DEF Grown
  <2> QED BY <1>2, <2>1, <2>5 DEF EntryOK, Grown
<1>7. EntryOK(F[x])
  <2>1. IsFiniteSet({}) /\ Cardinality({}) = 0
    BY FS_EmptySet
  <2>2. 0 \in 0 .. MaxSize
    BY FilesAssumption
  <2> QED BY <1>4, <2>1, <2>2 DEF EntryOK, Grown
<1>8. \A e \in DOMAIN F : EntryOK(F[e])
  BY <1>1, <1>2, <1>6, <1>7
<1>9. LinkedUp(F)
  <2> SUFFICES ASSUME NEW e \in DOMAIN F, F[e].parent # NULL
               PROVE  /\ F[e].parent \in DOMAIN F /\ F[F[e].parent].kind = "dir"
                      /\ e \in F[F[e].parent].kids
    BY DEF LinkedUp
  <2>1. CASE e = x
    BY <1>2, <2>1 DEF Grown
  <2>2. CASE e # x
    <3>1. e \in DOMAIN E /\ F[e].parent = E[e].parent
      BY <1>2, <2>2 DEF Grown
    <3>2. PICK u : u = E[e].parent
      OBVIOUS
    <3>3. u \in DOMAIN E /\ E[u].kind = "dir" /\ e \in E[u].kids
      BY <1>1, <3>1, <3>2 DEF LinkedUp
    <3>4. F[u].kind = "dir" /\ e \in F[u].kids /\ u \in DOMAIN F
      BY <1>2, <3>3 DEF Grown
    <3> QED BY <3>1, <3>2, <3>4
  <2> QED BY <2>1, <2>2
<1>10. LinkedDown(F)
  <2> SUFFICES ASSUME NEW d \in DOMAIN F, NEW k \in F[d].kids
               PROVE  k \in DOMAIN F /\ F[k].parent = d
    BY DEF LinkedDown
  <2>1. CASE d = x
    BY <2>1 DEF Grown
  <2>2. CASE d = p /\ k = x
    BY <1>2, <2>2 DEF Grown
  <2>3. CASE d # x /\ ~(d = p /\ k = x)
    <3>1. d \in DOMAIN E /\ k \in E[d].kids
      BY <1>2, <2>3 DEF Grown
    <3>2. k \in DOMAIN E /\ E[k].parent = d
      BY <1>1, <3>1 DEF LinkedDown
    <3> QED BY <1>2, <3>2 DEF Grown
  <2> QED BY <2>1, <2>2, <2>3
<1>11. NamesApart(F)
  <2> SUFFICES ASSUME NEW d \in DOMAIN F, NEW j \in F[d].kids, NEW k \in F[d].kids,
                      F[j].name = F[k].name
               PROVE  j = k
    BY DEF NamesApart
  <2>1. \A e \in DOMAIN E : F[e].name = E[e].name
    BY <1>2 DEF Grown
  <2>2. d # x
    BY DEF Grown
  <2>3. d \in DOMAIN E /\ \A i \in E[d].kids : i \in DOMAIN E
    BY <1>1, <1>2, <2>2 DEF LinkedDown
  <2>4. CASE j \in E[d].kids /\ k \in E[d].kids
    BY <1>1, <2>1, <2>3, <2>4 DEF NamesApart
  <2>5. CASE ~(j \in E[d].kids /\ k \in E[d].kids)
    <3>1. d = p /\ F[d].kids = E[p].kids \cup {x}
      BY <1>2, <2>3, <2>5 DEF Grown
    <3>2. \A i \in E[p].kids : F[i].name # name
      BY <2>1, <2>3, <3>1 DEF NameFree
    <3>3. F[x].name = name
      BY DEF Grown
    <3> QED BY <2>5, <3>1, <3>2, <3>3
  <2> QED BY <2>4, <2>5
<1> QED BY <1>3, <1>8, <1>9, <1>10, <1>11 DEF Forest

\* r is s with the new entry x below p, which no node stood for.
Added(s, r, p, x, name) ==
    /\ Rest(s, r) /\ r.node = s.node /\ r.fault = s.fault
    /\ Grown(s.ent, r.ent, p, x, name) /\ \A n \in DOMAIN s.node : s.node[n] # x

LEMMA AddedGood ==
    ASSUME NEW s, Good(s), NEW r, NEW p, NEW x, NEW name, Added(s, r, p, x, name),
           NameFree(s.ent, p, name)
    PROVE  Good(r)
<1>1. Forest(r.ent)
  <2>1. Forest(s.ent) /\ Grown(s.ent, r.ent, p, x, name)
    BY DEF Good, Added
  <2> QED BY <2>1, GrownForest
<1>2. Typed(r)
  BY DEF Good, Typed, Added, Rest
<1>3. \A e \in DOMAIN s.ent : /\ e \in DOMAIN r.ent /\ r.ent[e].parent = s.ent[e].parent
                              /\ r.ent[e].kind = s.ent[e].kind /\ r.ent[e].size = s.ent[e].size
  BY DEF Added, Grown
<1>4. Handles(r)
  <2>1. r.root # NULL => /\ r.root \in DOMAIN r.node /\ r.node[r.root] \in DOMAIN r.ent
                         /\ r.ent[r.node[r.root]].parent = NULL
    BY <1>3 DEF Good, Handles, Added, Rest
  <2> QED BY <2>1 DEF Good, Handles, Added, Rest, NodeAt
<1>5. Positions(r)
  <2> SUFFICES ASSUME NEW q \in Procs, NEW f \in Fds, NodeAt(r, q, f) # NULL,
                      ~Dead(r, NodeAt(r, q, f)), Entry(r, NodeAt(r, q, f)).kind = "reg"
               PROVE  r.fds[q][f].off <= Entry(r, NodeAt(r, q, f)).size
    BY DEF Positions
  <2>1. r.fds = s.fds /\ NodeAt(r, q, f) = NodeAt(s, q, f) /\ r.node = s.node
    BY DEF Added, Rest, NodeAt
  <2>2. PICK n : n = NodeAt(s, q, f)
    OBVIOUS
  <2>3. n \in DOMAIN s.node /\ s.node[n] \in DOMAIN r.ent
    BY <2>1, <2>2 DEF Dead
  <2>4. s.node[n] \in DOMAIN s.ent
    BY <2>3 DEF Added, Grown
  <2>5. ~Dead(s, n) /\ Entry(s, n).kind = "reg" /\ Entry(r, n).size = Entry(s, n).size
    BY <1>3, <2>1, <2>2, <2>3, <2>4 DEF Dead, Entry
  <2> QED BY <2>1, <2>2, <2>5 DEF Good, Positions
<1> QED BY <1>1, <1>2, <1>4, <1>5 DEF Good

\* An entry may have been made: what kvfs_create and kvfs_mkdir leave.
Made(s, r) ==
    /\ Rest(s, r) /\ r.node = s.node /\ r.fault = s.fault
    /\ \/ r.ent = s.ent
       \/ \E p, x, name : /\ Grown(s.ent, r.ent, p, x, name) /\ NameFree(s.ent, p, name)
                          /\ \A n \in DOMAIN s.node : s.node[n] # x

LEMMA MadeGood ==
    ASSUME NEW s, Good(s), NEW r, Made(s, r)
    PROVE  Good(r) /\ \A n : ~Dead(s, n) => ~Dead(r, n)
<1>1. CASE r.ent = s.ent
  <2>1. Same(s, r)
    BY <1>1 DEF Made, Rest, Same
  <2> QED BY <2>1, SameGood DEF Same, Dead
<1>2. ASSUME NEW p, NEW x, NEW name, Grown(s.ent, r.ent, p, x, name), NameFree(s.ent, p, name),
             \A n \in DOMAIN s.node : s.node[n] # x
      PROVE  Good(r) /\ \A n : ~Dead(s, n) => ~Dead(r, n)
  <2>1. Added(s, r, p, x, name)
    BY <1>2 DEF Added, Made
  <2>2. Good(r)
    BY ONLY Good(s), <1>2, <2>1, AddedGood
  <2> QED BY <1>2, <2>2 DEF Made, Grown, Dead
<1> QED BY <1>1, <1>2 DEF Made

LEMMA SameRoom ==
    ASSUME NEW s, NEW r, Same(s, r), r.sh = s.sh
    PROVE  HasRoom(r) <=> HasRoom(s)
<1>1. Descs(r) = Descs(s) /\ Data(r, "held") = Data(s, "held")
  BY DEF Same, Descs, Data
<1> QED BY <1>1 DEF HasRoom, Same

\* ktmpfs_create: nothing, or one entry more.
LEMMA CreateIs ==
    ASSUME NEW s, Good(s), NEW n \in DOMAIN s.node, s.node[n] \in DOMAIN s.ent, NEW name,
           NEW kind \in {"dir", "reg", "chr"}, NEW mode,
           NEW r, r = KtmpfsCreate(s, n, name, kind, mode)
    PROVE  /\ r.ret = NULL => Same(s, r) /\ r.sh = s.sh
           /\ r.ret # NULL => /\ s.ent[s.node[n]].kind = "dir" /\ HasRoom(s)
                              /\ \E x : Added(s, r, s.node[n], x, name)
<1>1. IsFs(s)
  BY GoodParts
<1>2. PICK p : p = s.node[n]
  OBVIOUS
<1>3. PICK a : a = KtmpfsCreateEntry(s, p, name, kind, mode)
  OBVIOUS
<1>4. r = IF a.ret = NULL THEN a ELSE [a EXCEPT !.ent = Put(a.ent, p, KvfsStatIncNlink(a.ent[p]))]
  BY <1>2, <1>3 DEF KtmpfsCreate, Then
<1>5. CASE s.ent[p].kind # "dir" \/ ~HasRoom(s)
  <2>1. a = Fail(s)
    BY <1>3, <1>5 DEF KtmpfsCreateEntry
  <2>2. Same(s, a) /\ a.ret = NULL /\ a.sh = s.sh
    BY <1>1, <2>1 DEF Fail, Same, IsFs
  <2> QED BY <1>4, <2>2
<1>6. CASE ~(s.ent[p].kind # "dir" \/ ~HasRoom(s))
  <2>1. PICK x : x = NewEntry(s)
    OBVIOUS
  <2>2. PICK up : up = [s.ent[p] EXCEPT !.kids = s.ent[p].kids \cup {x}]
    OBVIOUS
  <2>3. PICK st : st = KvfsStatCreate(kind, name, p, mode)
    OBVIOUS
  <2>4. PICK F : F = Put(Put(s.ent, p, up), x, st)
    OBVIOUS
  <2>5. a = [s EXCEPT !.ent = F, !.ret = x]
    BY <1>3, <1>6, <2>1, <2>2, <2>3, <2>4 DEF KtmpfsCreateEntry
  <2>6. /\ x \in Nat \ {NULL} /\ x \notin DOMAIN s.ent
        /\ \A m \in DOMAIN s.node : s.node[m] # x
    BY <2>1, NewEntryIs
  <2>7. a.ret = x /\ a.ent = F /\ IsFs(a)
    BY <1>1, <2>5 DEF IsFs
  <2>8. PICK G : G = Put(F, p, KvfsStatIncNlink(F[p]))
    OBVIOUS
  <2>9. r = [a EXCEPT !.ent = G]
    BY <1>4, <2>6, <2>7, <2>8
  <2>10. r = [s EXCEPT !.ent = G, !.ret = x]
    BY <2>5, <2>9
  <2>11. Rest(s, r) /\ r.node = s.node /\ r.fault = s.fault /\ r.ent = G /\ r.ret = x
    BY <1>1, <2>10 DEF IsFs, Rest
  <2>12. p \in DOMAIN s.ent /\ p # x
    BY <1>2, <2>6
  <2>13. F[p] = up /\ F[x] = st /\ DOMAIN F = DOMAIN s.ent \cup {x}
         /\ \A e \in DOMAIN s.ent : e # p => F[e] = s.ent[e]
    BY <2>4, <2>6, <2>12 DEF Put
  <2>14. PICK inc : inc = KvfsStatIncNlink(up)
    OBVIOUS
  <2>15. /\ IsFun(G) /\ DOMAIN G = DOMAIN s.ent \cup {x} /\ G[p] = inc /\ G[x] = st
         /\ \A e \in DOMAIN s.ent : e # p => G[e] = s.ent[e]
    BY <2>6, <2>8, <2>12, <2>13, <2>14 DEF Put, IsFun
  <2>16. IsEntry(s.ent[p])
    BY <2>12, GoodParts DEF EntryOK
  <2>17. /\ IsEntry(inc) /\ inc.kids = s.ent[p].kids \cup {x} /\ inc.nlink = s.ent[p].nlink + 1
         /\ inc.kind = s.ent[p].kind /\ inc.name = s.ent[p].name /\ inc.parent = s.ent[p].parent
         /\ inc.size = s.ent[p].size /\ inc.cap = s.ent[p].cap /\ inc.buf = s.ent[p].buf
    BY <2>2, <2>14, <2>16 DEF KvfsStatIncNlink, IsEntry
  <2>18. /\ IsEntry(st) /\ st.kind = kind /\ st.name = name /\ st.parent = p /\ st.kids = {}
         /\ st.nlink = (IF kind = "dir" THEN 2 ELSE 1) /\ st.size = 0 /\ st.cap = 0 /\ st.buf = "none"
    BY <2>3 DEF KvfsStatCreate, IsEntry
  <2>19. Grown(s.ent, G, p, x, name)
    BY <1>6, <2>6, <2>12, <2>15, <2>17, <2>18 DEF Grown
  <2>20. Added(s, r, p, x, name)
    BY <2>6, <2>11, <2>19 DEF Added
  <2> QED BY <1>2, <1>6, <2>6, <2>11, <2>20
<1> QED BY <1>5, <1>6

\* An operation behind the guards of kvfs_, on a live node.
LEMMA GuardPasses ==
    ASSUME NEW s, ~s.fault, NEW n, n # NULL, ~Dead(s, n), NEW right, NEW op
    PROVE  Guarded(s, n, right, op) = op
  BY MayAll DEF Guarded

\* kvfs_create and kvfs_mkdir of a name that a lookup did not find.
LEMMA MakeIs ==
    ASSUME NEW s, Good(s), ~s.fault, NEW n, n # NULL, ~Dead(s, n), NEW name, NEW mode, NEW r,
           \/ r = KvfsMkdir(s, n, name, mode) \/ r = KvfsCreate(s, n, name, mode),
           Entry(s, n).kind # "dir" \/ ~HasRoom(s) \/ NameFree(s.ent, s.node[n], name)
    PROVE  Made(s, r)
<1>1. n \in DOMAIN s.node /\ s.node[n] \in DOMAIN s.ent
  BY DEF Dead
<1>2. \E kind \in {"dir", "reg", "chr"} : r = KtmpfsCreate(s, n, name, kind, mode)
  <2>1. PICK k : k = KtmpfsCreate(s, n, name, "dir", mode)
    OBVIOUS
  <2>2. PICK l : l = KtmpfsCreate(s, n, name, "reg", mode)
    OBVIOUS
  <2>3. Guarded(s, n, "exec", k) = k /\ Guarded(s, n, "write", k) = k /\ Guarded(s, n, "write", l) = l
    BY GuardPasses
  <2> QED BY <2>1, <2>2, <2>3 DEF KvfsMkdir, KtmpfsMkdir, KvfsCreate
<1>3. PICK kind \in {"dir", "reg", "chr"} : r = KtmpfsCreate(s, n, name, kind, mode)
  BY <1>2
<1>4. /\ r.ret = NULL => Same(s, r) /\ r.sh = s.sh
      /\ r.ret # NULL => /\ s.ent[s.node[n]].kind = "dir" /\ HasRoom(s)
                         /\ \E x : Added(s, r, s.node[n], x, name)
  BY ONLY Good(s), <1>1, <1>3, CreateIs
<1>5. CASE r.ret = NULL
  BY <1>4, <1>5 DEF Same, Made, Rest
<1>6. CASE r.ret # NULL
  <2>1. NameFree(s.ent, s.node[n], name)
    BY <1>4, <1>6 DEF Entry
  <2>2. PICK x : Added(s, r, s.node[n], x, name)
    BY <1>4, <1>6
  <2> QED BY <2>1, <2>2 DEF Added, Made
<1> QED BY <1>5, <1>6

----------------------------------------------------------------------------
(* kvfs_open                                                               *)

\* A node found and closed again.
LEMMA FoundBack ==
    ASSUME NEW s, Good(s), NEW a, Found(s, a), a.ret # NULL, NEW r, r = KvfsClose(a, a.ret)
    PROVE  Same(s, r) /\ r.sh = s.sh /\ r.ret = a.ret
<1>1. PICK e \in DOMAIN s.ent : NodeFor(s, a, e)
  BY DEF Found
<1>2. a.ret \in Nat \ {NULL} /\ a.ret \notin DOMAIN s.node /\ a.node = Put(s.node, a.ret, e)
      /\ a.ret \in DOMAIN a.node
  BY <1>1 DEF NodeFor, New, Put
<1>3. a.ret \notin {NULL, a.root}
  BY <1>2 DEF Found, Rest, Good, Handles
<1>4. IsFs(a) /\ a.fault = s.fault
  BY GoodParts DEF Found, Rest
<1>5. /\ Rest(a, r) /\ r.ent = a.ent /\ r.fault = a.fault /\ r.ret = a.ret
      /\ r.node = Restrict(a.node, DOMAIN a.node \ {a.ret})
  BY <1>2, <1>3, <1>4, CloseIs
<1>6. r.node = s.node
  BY <1>2, <1>5, GoodParts, PutAndBack
<1> QED BY <1>4, <1>5, <1>6 DEF Found, Rest, Same

\* A lookup that finds nothing leaves no trace.
LEMMA FoundNothing ==
    ASSUME NEW s, Good(s), NEW a, Found(s, a), a.ret = NULL
    PROVE  Same(s, [a EXCEPT !.fault = s.fault]) /\ a.sh = s.sh /\ (~a.fault => Same(s, a) /\ Made(s, a))
<1>1. a.node = s.node
  BY DEF Found, NodeFor, New
<1>2. PICK b : b = [a EXCEPT !.fault = s.fault]
  OBVIOUS
<1>3. Same(s, b)
  BY <1>1, <1>2 DEF Found, Rest, Same, IsFs
<1> QED BY <1>1, <1>2, <1>3, GoodParts DEF Found, Rest, Same, Made

LEMMA SameMade ==
    ASSUME NEW s, NEW r, Same(s, r), r.sh = s.sh
    PROVE  Made(s, r)
  BY DEF Same, Made, Rest

LEMMA MadeSame ==
    ASSUME NEW s, NEW a, Same(s, a), a.sh = s.sh, NEW r, Made(a, r)
    PROVE  Made(s, r)
<1>1. Rest(s, r) /\ r.node = s.node /\ r.fault = s.fault /\ a.ent = s.ent /\ a.node = s.node
  BY DEF Same, Made, Rest
<1> QED BY <1>1 DEF Made

\* A call that fails closes the parent it was given.
ClosedParent(a, r, parent) == \E m : Made(a, m) /\ r = Fail(KvfsClose(m, parent))

LEMMA CreateMissingIs ==
    ASSUME NEW a, Good(a), ~a.fault, NEW parent, parent # NULL, ~Dead(a, parent),
           NEW path, NEW fl, NEW mode, NEW r, r = CreateMissing(a, parent, path, fl, mode)
    PROVE  ClosedParent(a, r, parent) \/ (Made(a, r) /\ r.ret # NULL)
<1>1. PICK name : name = LastName(path)
  OBVIOUS
<1>2. PICK l : l = KvfsLookup(a, parent, name)
  OBVIOUS
<1>3. r = IF l.ret # NULL
            THEN IF fl.excl THEN Fail(KvfsClose(KvfsClose(l, l.ret), parent))
                            ELSE Ok(KvfsClose(l, l.ret))
            ELSE Then(IF fl.dir THEN KvfsMkdir(l, parent, name, mode)
                                ELSE KvfsCreate(l, parent, name, mode), LAMBDA b :
                   IF b.ret = NULL THEN Fail(KvfsClose(b, parent)) ELSE b)
  BY <1>1, <1>2 DEF CreateMissing, MakeMissing, Then
<1>4. /\ Found(a, l)
      /\ l.fault /\ ~a.fault => parent # NULL /\ Dead(a, parent)
      /\ l.ret = NULL /\ ~l.fault /\ parent # NULL =>
           /\ ~Dead(a, parent)
           /\ \/ Entry(a, parent).kind # "dir" \/ ~HasRoom(a)
              \/ \A k \in Entry(a, parent).kids : a.ent[k].name # name
  BY ONLY Good(a), <1>2, LookupIs
<1>5. ~l.fault
  BY <1>4
<1>6. CASE l.ret # NULL
  <2>1. PICK m : m = KvfsClose(l, l.ret)
    OBVIOUS
  <2>2. Same(a, m) /\ m.sh = a.sh
    BY <1>4, <1>6, <2>1, FoundBack
  <2>3. CASE fl.excl
    <3>1. r = Fail(KvfsClose(m, parent))
      BY <1>3, <1>6, <2>1, <2>3
    <3> QED BY <2>2, <3>1, SameMade DEF ClosedParent
  <2>4. CASE ~fl.excl
    <3>1. r = Ok(m)
      BY <1>3, <1>6, <2>1, <2>4
    <3>2. Same(a, r) /\ r.sh = a.sh /\ r.ret # NULL
      BY <2>2, <3>1 DEF Ok, Same, IsFs, OK, NULL
    <3> QED BY <3>2, SameMade
  <2> QED BY <2>3, <2>4
<1>7. CASE l.ret = NULL
  <2>1. Same(a, l) /\ l.sh = a.sh
    BY <1>4, <1>5, <1>7, FoundNothing
  <2>2. Good(l) /\ ~l.fault /\ ~Dead(l, parent)
    BY <1>5, <2>1, SameGood DEF Same, Dead
  <2>3. PICK b : b = IF fl.dir THEN KvfsMkdir(l, parent, name, mode)
                     ELSE KvfsCreate(l, parent, name, mode)
    OBVIOUS
  <2>4. r = IF b.ret = NULL THEN Fail(KvfsClose(b, parent)) ELSE b
    BY <1>3, <1>7, <2>3 DEF Then
  <2>5. Entry(l, parent).kind # "dir" \/ ~HasRoom(l) \/ NameFree(l.ent, l.node[parent], name)
    <3>1. HasRoom(l) <=> HasRoom(a)
      BY <2>1, SameRoom
    <3> QED BY <1>4, <1>5, <1>7, <2>1, <3>1 DEF Same, Entry, NameFree
  <2>6. b = KvfsMkdir(l, parent, name, mode) \/ b = KvfsCreate(l, parent, name, mode)
    BY <2>3
  <2>7. Made(l, b)
    BY ONLY <2>2, <2>5, <2>6, parent # NULL, MakeIs
  <2>8. Made(a, b)
    BY <2>1, <2>7, MadeSame
  <2> QED BY <2>4, <2>8 DEF ClosedParent
<1> QED BY <1>6, <1>7

\* The node is found, and the parent closed unless it is the working directory.
FoundParent(b, r, parent) ==
    \E l : Found(b, l) /\ l.ret # NULL /\ r = IF parent # l.cwd THEN KvfsClose(l, parent) ELSE l

LEMMA OpenFoundIs ==
    ASSUME NEW b, Good(b), ~b.fault, NEW parent, parent # NULL, ~Dead(b, parent),
           NEW path, NEW fl, NEW r, r = OpenFound(b, parent, path, fl)
    PROVE  \/ \E m : Same(b, m) /\ m.sh = b.sh /\ r = Fail(KvfsClose(m, parent))
           \/ FoundParent(b, r, parent)
<1>1. PICK l : l = KvfsLookup(b, parent, LastName(path))
  OBVIOUS
<1>2. r = IF l.ret = NULL THEN Fail(KvfsClose(l, parent))
          ELSE IF \E q \in Wanted[fl.acc] : ~May(q, Entry(l, l.ret), Cred)
            THEN Fail(KvfsClose(KvfsClose(l, l.ret), parent))
          ELSE IF parent # l.cwd THEN KvfsClose(l, parent) ELSE l
  BY <1>1 DEF OpenFound, Then
<1>3. Found(b, l) /\ ~l.fault
  BY <1>1, LookupIs
<1>4. ~ \E q \in Wanted[fl.acc] : ~May(q, Entry(l, l.ret), Cred)
  BY MayAll
<1>5. CASE l.ret = NULL
  <2>1. Same(b, l) /\ l.sh = b.sh
    BY <1>3, <1>5, FoundNothing
  <2> QED BY <1>2, <1>5, <2>1
<1>6. CASE l.ret # NULL
  BY <1>2, <1>3, <1>4, <1>6 DEF FoundParent
<1> QED BY <1>5, <1>6

LEMMA MadeThenSame ==
    ASSUME NEW a, NEW b, Made(a, b), NEW m, Same(b, m), m.sh = b.sh
    PROVE  Made(a, m)
<1>1. Rest(a, m) /\ m.node = a.node /\ m.fault = a.fault /\ m.ent = b.ent
  BY DEF Same, Made, Rest
<1> QED BY <1>1 DEF Made

\* What kvfs_open does once it has the parent.
LEMMA OpenRest ==
    ASSUME NEW a, Good(a), ~a.fault, NEW parent, parent # NULL, ~Dead(a, parent),
           NEW path, NEW fl, NEW mode, NEW b,
           b = (IF fl.creat THEN CreateMissing(a, parent, path, fl, mode) ELSE a),
           fl.creat \/ a.ret # NULL,
           NEW r, r = IF b.ret = NULL THEN b ELSE OpenFound(b, parent, path, fl)
    PROVE  ClosedParent(a, r, parent) \/ \E m : Made(a, m) /\ FoundParent(m, r, parent)
<1>1. CASE ClosedParent(a, b, parent)
  <2>1. PICK m : Made(a, m) /\ b = Fail(KvfsClose(m, parent))
    BY <1>1 DEF ClosedParent
  <2>2. b.ret = NULL
    <3>1. IsFs(KvfsClose(m, parent))
      <4>1. IsFs(m)
        BY <2>1 DEF Made, Rest
      <4> QED BY <4>1 DEF KvfsClose, Fault, IsFs
    <3> QED BY <2>1, <3>1 DEF Fail, IsFs
  <2> QED BY <1>1, <2>2
<1>2. CASE Made(a, b) /\ b.ret # NULL
  <2>1. Good(b) /\ ~Dead(b, parent) /\ ~b.fault
    BY <1>2, MadeGood DEF Made
  <2>2. r = OpenFound(b, parent, path, fl)
    BY <1>2
  <2>3. \/ \E m : Same(b, m) /\ m.sh = b.sh /\ r = Fail(KvfsClose(m, parent))
        \/ FoundParent(b, r, parent)
    BY ONLY <2>1, <2>2, parent # NULL, OpenFoundIs
  <2>4. ASSUME NEW m, Same(b, m), m.sh = b.sh, r = Fail(KvfsClose(m, parent))
        PROVE  ClosedParent(a, r, parent)
    BY <1>2, <2>4, MadeThenSame DEF ClosedParent
  <2> QED BY <1>2, <2>3, <2>4
<1>3. ClosedParent(a, b, parent) \/ (Made(a, b) /\ b.ret # NULL)
  <2>1. CASE fl.creat
    <3>1. b = CreateMissing(a, parent, path, fl, mode)
      BY <2>1
    <3> QED BY ONLY Good(a), ~a.fault, parent # NULL, ~Dead(a, parent), <3>1, CreateMissingIs
  <2>2. CASE ~fl.creat
    <3>1. b = a /\ IsFs(a)
      BY <2>2, GoodParts
    <3>2. Same(a, b) /\ b.sh = a.sh /\ b.ret # NULL
      BY <2>2, <3>1 DEF Same
    <3> QED BY <3>2, SameMade
  <2> QED BY <2>1, <2>2
<1> QED BY <1>1, <1>2, <1>3

\* What kvfs_open leaves: a node for what it opened, with the working directory
\* kept; or no node, and the working directory closed at worst.
Opened(s, r) ==
    /\ Rest(s, r) /\ r.fault \in BOOLEAN /\ (s.fault => r.fault) /\ (r.fault => r.ret = NULL)
    /\ r.fault /\ ~s.fault => s.cwd # NULL /\ Dead(s, s.cwd)
    /\ \E m : Made(s, m) /\ r.ent = m.ent
    /\ r.ret = NULL =>
         \/ r.node = s.node
         \/ /\ s.cwd # s.root /\ s.cwd \in DOMAIN s.node
            /\ r.node = Restrict(s.node, DOMAIN s.node \ {s.cwd})
    /\ r.ret # NULL => \E e \in DOMAIN r.ent : NodeFor(s, r, e)

\* Closing the parent after a failure.
LEMMA ParentClosed ==
    ASSUME NEW s, Good(s), ~s.fault, NEW m, NEW parent, NEW r, r = Fail(KvfsClose(m, parent)),
           \/ Made(s, m) /\ parent \in {s.root, s.cwd} /\ parent # NULL /\ ~Dead(s, parent)
           \/ \E a : Found(s, a) /\ parent = a.ret /\ a.ret # NULL /\ Made(a, m)
    PROVE  Opened(s, r)
<1>1. s.root # NULL => s.root \in DOMAIN s.node
  BY DEF Good, Handles
<1>2. CASE Made(s, m) /\ parent \in {s.root, s.cwd} /\ parent # NULL /\ ~Dead(s, parent)
  <2>1. IsFs(m) /\ m.root = s.root /\ m.cwd = s.cwd /\ m.node = s.node /\ m.fault = FALSE
    BY <1>2, GoodParts DEF Made, Rest
  <2>2. parent \in DOMAIN s.node
    BY <1>2 DEF Dead
  <2>3. CASE parent = s.root
    <3>1. r = Fail(m)
      BY <2>1, <2>3 DEF KvfsClose
    <3>2. Rest(s, r) /\ r.ret = NULL /\ r.node = s.node /\ r.ent = m.ent /\ r.fault = FALSE
      BY <1>2, <2>1, <3>1 DEF Fail, IsFs, Made, Rest
    <3> QED BY <1>2, <3>2 DEF Opened
  <2>4. CASE parent # s.root
    <3>1. PICK k : k = KvfsClose(m, parent)
      OBVIOUS
    <3>2. /\ Rest(m, k) /\ k.ent = m.ent /\ k.fault = m.fault
          /\ k.node = Restrict(m.node, DOMAIN m.node \ {parent})
      BY <1>2, <2>1, <2>2, <2>4, <3>1, CloseIs
    <3>3. r = Fail(k)
      BY <3>1
    <3>4. /\ Rest(s, r) /\ r.ret = NULL /\ r.ent = m.ent /\ r.fault = FALSE
          /\ r.node = Restrict(s.node, DOMAIN s.node \ {s.cwd})
      BY <1>2, <2>1, <2>4, <3>2, <3>3 DEF Fail, IsFs, Made, Rest
    <3> QED BY <1>2, <2>2, <2>4, <3>4 DEF Opened
  <2> QED BY <2>3, <2>4
<1>3. ASSUME NEW a, Found(s, a), parent = a.ret, a.ret # NULL, Made(a, m)
      PROVE  Opened(s, r)
  <2>1. PICK e \in DOMAIN s.ent : NodeFor(s, a, e)
    BY <1>3 DEF Found
  <2>2. /\ a.ret \in Nat \ {NULL} /\ a.ret \notin DOMAIN s.node /\ a.node = Put(s.node, a.ret, e)
        /\ a.ret \in DOMAIN a.node /\ DOMAIN s.node \subseteq DOMAIN a.node
        /\ \A n \in DOMAIN s.node : a.node[n] = s.node[n]
    BY <2>1 DEF NodeFor, New, Put
  <2>3. IsFs(m) /\ m.node = a.node /\ m.root = s.root /\ m.fault = a.fault /\ a.fault = FALSE
    BY <1>3 DEF Made, Rest, Found
  <2>4. PICK k : k = KvfsClose(m, parent)
    OBVIOUS
  <2>5. parent \notin {NULL, m.root} /\ parent \in DOMAIN m.node
    BY <1>1, <1>3, <2>2, <2>3
  <2>6. /\ Rest(m, k) /\ k.ent = m.ent /\ k.fault = m.fault
        /\ k.node = Restrict(m.node, DOMAIN m.node \ {parent})
    BY <2>3, <2>4, <2>5, CloseIs
  <2>7. k.node = s.node
    BY <1>3, <2>2, <2>3, <2>6, GoodParts, PutAndBack
  <2>8. r = Fail(k)
    BY <2>4
  <2>9. Rest(s, r) /\ r.ret = NULL /\ r.ent = m.ent /\ r.fault = FALSE /\ r.node = s.node
    BY <1>3, <2>3, <2>6, <2>7, <2>8 DEF Fail, IsFs, Made, Rest, Found
  <2>10. PICK q : q = [s EXCEPT !.ent = m.ent]
    OBVIOUS
  <2>11. Made(s, q) /\ q.ent = m.ent
    <3>1. Rest(s, q) /\ q.node = s.node /\ q.fault = s.fault /\ q.ent = m.ent
      BY <2>10, GoodParts DEF Rest, IsFs
    <3>2. a.ent = s.ent
      BY <1>3 DEF Found
    <3> QED BY <1>3, <2>2, <3>1, <3>2 DEF Made
  <2> QED BY <2>9, <2>11 DEF Opened
<1> QED BY <1>2, <1>3

\* Closing it after the node is found.
LEMMA ParentLeft ==
    ASSUME NEW s, Good(s), ~s.fault, NEW m, NEW parent, NEW r, FoundParent(m, r, parent),
           \/ Made(s, m) /\ parent \in {s.root, s.cwd} /\ parent # NULL /\ ~Dead(s, parent)
           \/ \E a : Found(s, a) /\ parent = a.ret /\ a.ret # NULL /\ Made(a, m)
    PROVE  Opened(s, r)
<1>1. s.root # NULL => s.root \in DOMAIN s.node
  BY DEF Good, Handles
<1>2. PICK l : Found(m, l) /\ l.ret # NULL /\ r = IF parent # l.cwd THEN KvfsClose(l, parent) ELSE l
  BY DEF FoundParent
<1>3. PICK x \in DOMAIN m.ent : NodeFor(m, l, x)
  BY <1>2 DEF Found
<1>4. l.ret \notin DOMAIN m.node /\ l.ret \in New(m) /\ l.node = Put(m.node, l.ret, x)
      /\ l.fault = FALSE /\ IsFs(l) /\ l.root = m.root /\ l.cwd = m.cwd /\ l.ent = m.ent
  BY <1>2, <1>3 DEF NodeFor, New, Found, Rest
<1>5. CASE Made(s, m) /\ parent \in {s.root, s.cwd} /\ parent # NULL /\ ~Dead(s, parent)
  <2>1. m.root = s.root /\ m.cwd = s.cwd /\ m.node = s.node
    BY <1>5 DEF Made, Rest
  <2>2. r = l
    BY <1>2, <1>4, <1>5, <2>1 DEF KvfsClose
  <2>3. Rest(s, r) /\ NodeFor(s, r, x)
    BY <1>2, <1>3, <1>5, <2>1, <2>2 DEF Found, Made, Rest, NodeFor, New
  <2> QED BY <1>2, <1>3, <1>4, <1>5, <2>2, <2>3 DEF Opened
<1>6. ASSUME NEW a, Found(s, a), parent = a.ret, a.ret # NULL, Made(a, m)
      PROVE  Opened(s, r)
  <2>1. PICK e \in DOMAIN s.ent : NodeFor(s, a, e)
    BY <1>6 DEF Found
  <2>2. /\ a.ret \in Nat \ {NULL} /\ a.ret \notin DOMAIN s.node /\ a.node = Put(s.node, a.ret, e)
        /\ a.ret \in DOMAIN a.node /\ DOMAIN s.node \subseteq DOMAIN a.node /\ a.ret # s.cwd
        /\ \A n \in DOMAIN s.node : a.node[n] = s.node[n]
    BY <2>1 DEF NodeFor, New, Put
  <2>3. m.node = a.node /\ m.root = s.root /\ m.cwd = s.cwd
    BY <1>6 DEF Made, Rest, Found
  <2>4. parent \in DOMAIN m.node /\ parent \notin {NULL, l.root} /\ parent # l.cwd /\ parent # l.ret
    BY <1>1, <1>4, <1>6, <2>2, <2>3
  <2>5. parent \in DOMAIN l.node
    BY <1>4, <2>4 DEF Put
  <2>6. /\ Rest(l, r) /\ r.ent = l.ent /\ r.fault = l.fault /\ r.ret = l.ret
        /\ r.node = Restrict(l.node, DOMAIN l.node \ {parent})
    BY <1>2, <1>4, <2>4, <2>5, CloseIs
  <2>7. l.node = Put(Put(s.node, parent, e), l.ret, x)
    BY <1>4, <1>6, <2>2, <2>3
  <2>8. r.node = Put(s.node, l.ret, x)
    BY <1>6, <2>2, <2>4, <2>6, <2>7, GoodParts, PutTwoTakeFirst
  <2>9. l.ret \in New(s)
    BY <1>4, <2>2, <2>3 DEF New
  <2>10. Rest(s, r) /\ NodeFor(s, r, x) /\ r.ent = m.ent /\ r.fault = FALSE /\ r.ret # NULL
    BY <1>2, <1>4, <1>6, <2>6, <2>8, <2>9 DEF Found, Made, Rest, NodeFor
  <2>11. PICK q : q = [s EXCEPT !.ent = m.ent]
    OBVIOUS
  <2>12. Made(s, q) /\ q.ent = m.ent
    <3>1. Rest(s, q) /\ q.node = s.node /\ q.fault = s.fault /\ q.ent = m.ent
      BY <2>11, GoodParts DEF Rest, IsFs
    <3>2. a.ent = s.ent
      BY <1>6 DEF Found
    <3> QED BY <1>6, <2>2, <3>1, <3>2 DEF Made
  <2> QED BY <1>3, <2>10, <2>12 DEF Opened
<1> QED BY <1>5, <1>6

LEMMA OpenIs ==
    ASSUME NEW s, Good(s), ~s.fault, NEW path, IsPath(path), NEW fl, NEW mode,
           NEW r, r = KvfsOpen(s, path, fl, mode)
    PROVE  Opened(s, r)
<1>1. PICK a : a = KvfsResolveParentFrom(s, s.cwd, path)
  OBVIOUS
<1>2. r = IF a.ret = NULL THEN Fail(a)
          ELSE IF Dead(a, a.ret) THEN Fault(a)
          ELSE Then(IF fl.creat THEN CreateMissing(a, a.ret, path, fl, mode) ELSE a, LAMBDA b :
                 IF b.ret = NULL THEN b ELSE OpenFound(b, a.ret, path, fl))
  BY <1>1 DEF KvfsOpen, OpenBelow, Then
<1>3. /\ Found(s, a) \/ \E start \in {s.root, s.cwd} : a = [s EXCEPT !.ret = start]
      /\ a.fault /\ ~s.fault => s.cwd # NULL /\ Dead(s, s.cwd)
  BY ONLY Good(s), IsPath(path), <1>1, ResolveParentIs
<1>4. IsFs(s) /\ s.fault = FALSE
  BY GoodParts
<1>5. ASSUME NEW start \in {s.root, s.cwd}, a = [s EXCEPT !.ret = start]
      PROVE  Same(s, a) /\ a.sh = s.sh /\ a.ret = start /\ a.ret \in {s.root, s.cwd}
  BY <1>4, <1>5 DEF Same, IsFs
<1>6. Good(a) /\ IsFs(a)
  <2>1. CASE Found(s, a)
    BY <2>1, FoundGood, GoodParts
  <2>2. CASE \E start \in {s.root, s.cwd} : a = [s EXCEPT !.ret = start]
    BY <1>5, <2>2, SameGood, GoodParts
  <2> QED BY <1>3, <2>1, <2>2
<1>7. Made(s, s)
  BY <1>4 DEF Made, Rest
<1>8. Rest(s, a) /\ a.ent = s.ent /\ a.fault \in BOOLEAN
  BY <1>3, <1>4, <1>5 DEF Found, Same, Rest
<1>9. CASE a.ret = NULL
  <2>1. a.node = s.node
    BY <1>3, <1>5, <1>9 DEF Found, NodeFor, New, Same
  <2>2. r = Fail(a)
    BY <1>2, <1>9
  <2>3. Rest(s, r) /\ r.ent = s.ent /\ r.node = s.node /\ r.ret = NULL /\ r.fault = a.fault
    BY <1>6, <1>8, <2>1, <2>2 DEF Fail, IsFs, Rest
  <2> QED BY <1>3, <1>4, <1>7, <1>8, <2>3 DEF Opened
<1>10. CASE a.ret # NULL /\ Dead(a, a.ret)
  <2>1. ~Found(s, a)
    BY <1>10, FoundAlive
  <2>2. Same(s, a) /\ a.sh = s.sh /\ a.ret \in {s.root, s.cwd}
    BY <1>3, <1>5, <2>1
  <2>3. s.cwd # NULL /\ Dead(s, s.cwd)
    BY <1>10, <2>2, RootAlive DEF Dead, Same
  <2>4. r = Fault(a)
    BY <1>2, <1>10
  <2>5. Rest(s, r) /\ r.ent = s.ent /\ r.node = s.node /\ r.ret = NULL /\ r.fault = TRUE
    BY <1>6, <1>8, <2>2, <2>4 DEF Fault, IsFs, Rest, Same
  <2> QED BY <1>4, <1>7, <2>3, <2>5 DEF Opened
<1>11. CASE a.ret # NULL /\ ~Dead(a, a.ret)
  <2>1. PICK parent : parent = a.ret
    OBVIOUS
  <2>2. PICK b : b = IF fl.creat THEN CreateMissing(a, parent, path, fl, mode) ELSE a
    OBVIOUS
  <2>3. r = IF b.ret = NULL THEN b ELSE OpenFound(b, parent, path, fl)
    BY <1>2, <1>11, <2>1, <2>2 DEF Then
  <2>4. ~a.fault
    BY <1>3, <1>4, <1>5, <1>11 DEF Found, Same
  <2>5. parent # NULL /\ ~Dead(a, parent) /\ (fl.creat \/ a.ret # NULL)
    BY <1>11, <2>1
  <2>6. ClosedParent(a, r, parent) \/ \E m : Made(a, m) /\ FoundParent(m, r, parent)
    BY ONLY <1>6, <2>2, <2>3, <2>4, <2>5, OpenRest
  <2>7. ASSUME NEW m, Made(a, m)
        PROVE  \/ Made(s, m) /\ parent \in {s.root, s.cwd} /\ parent # NULL /\ ~Dead(s, parent)
               \/ \E c : Found(s, c) /\ parent = c.ret /\ c.ret # NULL /\ Made(c, m)
    <3>1. CASE Found(s, a)
      BY <1>11, <2>1, <2>7, <3>1
    <3>2. CASE ~Found(s, a)
      <4>1. Same(s, a) /\ a.sh = s.sh /\ a.ret \in {s.root, s.cwd}
        BY <1>3, <1>5, <3>2
      <4>2. Made(s, m)
        BY <2>7, <4>1, MadeSame
      <4> QED BY <1>11, <2>1, <4>1, <4>2 DEF Same, Dead
    <3> QED BY <3>1, <3>2
  <2>8. CASE ClosedParent(a, r, parent)
    <3>1. PICK m : Made(a, m) /\ r = Fail(KvfsClose(m, parent))
      BY <2>8 DEF ClosedParent
    <3> QED BY ONLY Good(s), ~s.fault, <2>7, <3>1, ParentClosed
  <2>9. ASSUME NEW m, Made(a, m), FoundParent(m, r, parent)
        PROVE  Opened(s, r)
    BY ONLY Good(s), ~s.fault, <2>7, <2>9, ParentLeft
  <2> QED BY <2>6, <2>8, <2>9
<1> QED BY <1>9, <1>10, <1>11

LEMMA OpenedGood ==
    ASSUME NEW s, Good(s), NEW r, Opened(s, r), ~r.fault
    PROVE  Good(r)
<1>1. PICK m : Made(s, m) /\ r.ent = m.ent
  BY DEF Opened
<1>2. Good(m) /\ m.node = s.node /\ m.fault = FALSE /\ r.fault = FALSE
  BY <1>1, MadeGood, GoodParts DEF Made, Opened
<1>3. Rest(m, r)
  BY <1>1 DEF Made, Opened, Rest
<1>4. CASE r.ret = NULL /\ r.node = s.node
  <2>1. Same(m, r)
    BY <1>1, <1>2, <1>3, <1>4 DEF Rest, Same
  <2> QED BY <1>2, <2>1, SameGood
<1>5. CASE r.ret = NULL /\ r.node # s.node
  <2>1. /\ s.cwd # s.root /\ s.cwd \in DOMAIN s.node
        /\ r.node = Restrict(s.node, DOMAIN s.node \ {s.cwd})
    BY <1>5 DEF Opened
  <2>2. Without(m, r, s.cwd)
    BY <1>1, <1>2, <1>3, <2>1 DEF Rest, Without
  <2>3. s.cwd # m.root /\ s.cwd \notin DescNodes(m)
    <3>1. s.cwd # NULL
      BY <2>1, GoodParts
    <3>2. \A p \in Procs, f \in Fds : NodeAt(s, p, f) # s.cwd
      BY <3>1 DEF Good, Handles
    <3>3. s.cwd \notin DescNodes(m)
      BY <1>1, <3>2 DEF Made, Rest, DescNodes, Descs, NodeAt, Fds
    <3> QED BY <1>1, <2>1, <3>1, <3>3 DEF Made, Rest
  <2> QED BY <1>2, <2>2, <2>3, WithoutGood
<1>6. CASE r.ret # NULL
  <2>1. PICK e \in DOMAIN r.ent : NodeFor(s, r, e)
    BY <1>6 DEF Opened
  <2>2. NodeFor(m, r, e) /\ e \in DOMAIN m.ent
    BY <1>1, <1>2, <2>1 DEF Made, Rest, NodeFor, New
  <2>3. Found(m, r)
    BY <1>1, <1>2, <1>3, <2>2 DEF Found
  <2> QED BY <1>2, <2>3, FoundGood
<1> QED BY <1>4, <1>5, <1>6

----------------------------------------------------------------------------
(* Descriptors                                                             *)

\* r is s with d for one descriptor, whatever its answer and command.
DescSet(s, r, p, f, d) ==
    /\ IsFs(r) /\ r.ent = s.ent /\ r.node = s.node /\ r.root = s.root /\ r.cwd = s.cwd
    /\ r.lost = s.lost /\ r.heap = s.heap /\ r.fault = s.fault
    /\ r.fds = [s.fds EXCEPT ![p] = [s.fds[p] EXCEPT ![f] = d]]

DescTable(s, r, p, f, d) ==
    /\ r.fds \in [Procs -> [Fds -> Desc]] /\ r.fds[p][f] = d
    /\ \A q \in Procs, g \in Fds : q # p \/ g # f => r.fds[q][g] = s.fds[q][g]

LEMMA DescSetIs ==
    ASSUME NEW s, Good(s), NEW r, NEW p \in Procs, NEW f \in Fds, NEW d \in Desc, DescSet(s, r, p, f, d)
    PROVE  DescTable(s, r, p, f, d)
<1>1. PICK F, G, D : F = s.fds /\ G = r.fds /\ D = Desc
  OBVIOUS
<1>2. F \in [Procs -> [Fds -> D]] /\ d \in D /\ G = [F EXCEPT ![p] = [F[p] EXCEPT ![f] = d]]
  BY <1>1 DEF Good, Typed, DescSet
<1>3. PICK row : row = [F[p] EXCEPT ![f] = d]
  OBVIOUS
<1>4. row \in [Fds -> D] /\ row[f] = d /\ \A g \in Fds : g # f => row[g] = F[p][g]
  BY <1>2, <1>3
<1>5. G \in [Procs -> [Fds -> D]] /\ G[p] = row /\ \A q \in Procs : q # p => G[q] = F[q]
  BY <1>2, <1>3, <1>4
<1> QED BY <1>1, <1>4, <1>5 DEF DescTable

LEMMA DescSetGood ==
    ASSUME NEW s, Good(s), NEW r, NEW p \in Procs, NEW f \in Fds, NEW d \in Desc,
           DescSet(s, r, p, f, d),
           IF d.node = NULL THEN d = NoDesc
           ELSE d.node \in DOMAIN s.node \ {s.root, s.cwd},
           \A q \in Procs, g \in Fds : (q # p \/ g # f) /\ NodeAt(s, q, g) = d.node => d.node = NULL,
           d.node # NULL /\ ~Dead(s, d.node) /\ Entry(s, d.node).kind = "reg"
             => d.off <= Entry(s, d.node).size
    PROVE  Good(r)
<1>1. /\ r.fds \in [Procs -> [Fds -> Desc]] /\ r.fds[p][f] = d
      /\ \A q \in Procs, g \in Fds : q # p \/ g # f => r.fds[q][g] = s.fds[q][g]
  <2>1. DescTable(s, r, p, f, d)
    BY ONLY Good(s), p \in Procs, f \in Fds, d \in Desc, DescSet(s, r, p, f, d), DescSetIs
  <2> QED BY ONLY <2>1 DEF DescTable
<1>2. Typed(r)
  BY <1>1 DEF Good, Typed, DescSet
<1>3. Forest(r.ent)
  BY DEF Good, DescSet
<1>4. NodeAt(r, p, f) = d.node
      /\ \A q \in Procs, g \in Fds : q # p \/ g # f => NodeAt(r, q, g) = NodeAt(s, q, g)
  BY <1>1 DEF NodeAt
<1>5. r.node = s.node /\ r.ent = s.ent /\ r.root = s.root /\ r.cwd = s.cwd
  BY DEF DescSet
<1>6. Handles(r)
  <2>1. ASSUME NEW q \in Procs, NEW g \in Fds
        PROVE  IF NodeAt(r, q, g) = NULL THEN r.fds[q][g] = NoDesc
               ELSE NodeAt(r, q, g) \in DOMAIN r.node \ {r.root, r.cwd}
    <3>1. CASE q = p /\ g = f
      BY <1>1, <1>4, <1>5, <3>1
    <3>2. CASE q # p \/ g # f
      BY <1>1, <1>4, <1>5, <3>2 DEF Good, Handles
    <3> QED BY <3>1, <3>2
  <2>2. ASSUME NEW q \in Procs, NEW g \in Fds, NEW u \in Procs, NEW h \in Fds,
               NodeAt(r, q, g) = NodeAt(r, u, h), NodeAt(r, q, g) # NULL
        PROVE  q = u /\ g = h
    <3>1. CASE (q # p \/ g # f) /\ (u # p \/ h # f)
      <4>1. NodeAt(s, q, g) = NodeAt(s, u, h) /\ NodeAt(s, q, g) # NULL
        BY <1>4, <2>2, <3>1
      <4> QED BY <4>1 DEF Good, Handles
    <3>2. CASE q = p /\ g = f /\ (u # p \/ h # f)
      BY <1>4, <2>2, <3>2
    <3>3. CASE u = p /\ h = f /\ (q # p \/ g # f)
      BY <1>4, <2>2, <3>3
    <3> QED BY <3>1, <3>2, <3>3
  <2>3. r.root # NULL => /\ r.root \in DOMAIN r.node /\ r.node[r.root] \in DOMAIN r.ent
                         /\ r.ent[r.node[r.root]].parent = NULL
    BY <1>5 DEF Good, Handles
  <2> QED BY <2>1, <2>2, <2>3 DEF Handles
<1>7. Positions(r)
  <2> SUFFICES ASSUME NEW q \in Procs, NEW g \in Fds, NodeAt(r, q, g) # NULL,
                      ~Dead(r, NodeAt(r, q, g)), Entry(r, NodeAt(r, q, g)).kind = "reg"
               PROVE  r.fds[q][g].off <= Entry(r, NodeAt(r, q, g)).size
    BY DEF Positions
  <2>1. \A n : (Dead(r, n) <=> Dead(s, n)) /\ Entry(r, n) = Entry(s, n)
    BY <1>5 DEF Dead, Entry
  <2>2. CASE q = p /\ g = f
    BY <1>1, <1>4, <2>1, <2>2
  <2>3. CASE q # p \/ g # f
    <3>1. NodeAt(r, q, g) = NodeAt(s, q, g) /\ r.fds[q][g] = s.fds[q][g]
      BY <1>1, <1>4, <2>3
    <3> QED BY <2>1, <3>1 DEF Good, Positions
  <2> QED BY <2>2, <2>3
<1> QED BY <1>2, <1>3, <1>6, <1>7 DEF Good

\* The nodes descriptors have.
LEMMA InDescNodes ==
    ASSUME NEW s, NEW n
    PROVE  n \in DescNodes(s) <=> n # NULL /\ \E p \in Procs, f \in Fds : NodeAt(s, p, f) = n
<1>1. ASSUME n \in DescNodes(s) PROVE n # NULL /\ \E p \in Procs, f \in Fds : NodeAt(s, p, f) = n
  BY <1>1 DEF DescNodes, Descs, NodeAt, Fds
<1>2. ASSUME NEW p \in Procs, NEW f \in Fds, NodeAt(s, p, f) = n, n # NULL PROVE n \in DescNodes(s)
  <2>1. <<p, f>> \in Descs(s)
    BY <1>2 DEF Descs, NodeAt, Fds
  <2> QED BY <1>2, <2>1 DEF DescNodes, NodeAt
<1> QED BY <1>1, <1>2

\* kfd_create_for_process with a node just opened.
DescMade(s, r, p, n, acc) ==
    \/ /\ Same(s, r) /\ r.sh = s.sh /\ r.ret = KFD_ERROR
       /\ (\A f \in Fds : s.fds[p][f] # NoDesc) \/ ~HasRoom(s)
    \/ /\ r.ret \in Fds /\ s.fds[p][r.ret] = NoDesc /\ r.sh = s.sh
       /\ DescSet(s, r, p, r.ret, [node |-> n, off |-> 0, acc |-> acc])

LEMMA DescMadeIs ==
    ASSUME NEW s, Good(s), NEW p \in Procs, NEW n \in Nat \ {NULL}, NEW acc,
           NEW r, r = KfdCreateForProcess(s, p, n, acc)
    PROVE  DescMade(s, r, p, n, acc)
<1>1. PICK free : free = {f \in Fds : s.fds[p][f] = NoDesc}
  OBVIOUS
<1>2. IsFs(s)
  BY GoodParts
<1>3. CASE free = {} \/ ~HasRoom(s)
  <2>1. r = [s EXCEPT !.ret = KFD_ERROR]
    BY <1>1, <1>3 DEF KfdCreateForProcess
  <2>2. Same(s, r) /\ r.sh = s.sh /\ r.ret = KFD_ERROR
    BY <1>2, <2>1 DEF Same, IsFs
  <2> QED BY <1>1, <1>3, <2>2 DEF DescMade
<1>4. CASE ~(free = {} \/ ~HasRoom(s))
  <2>1. free \subseteq Nat
    BY <1>1 DEF Fds
  <2>2. PICK f : f = Min(free)
    OBVIOUS
  <2>3. f \in free
    BY <1>4, <2>1, <2>2, LeastIn
  <2>4. PICK d : d = [node |-> n, off |-> 0, acc |-> acc]
    OBVIOUS
  <2>5. r = [SetDesc(s, p, f, d) EXCEPT !.ret = f]
    BY <1>1, <1>4, <2>2, <2>4 DEF KfdCreateForProcess
  <2>6. DescSet(s, r, p, f, d) /\ r.sh = s.sh /\ r.ret = f
    BY <1>2, <2>5 DEF SetDesc, DescSet, IsFs
  <2> QED BY <1>1, <2>3, <2>4, <2>6 DEF DescMade
<1> QED BY <1>3, <1>4

\* The shell, or a process, opens a path: no descriptor and no node, a node that
\* nothing holds because a descriptor could not be made, or both.
OpenFails(s, r) == \E a : Opened(s, a) /\ a.ret = NULL /\ r = [a EXCEPT !.ret = KFD_ERROR]
OpenLeaks(s, r, p, a) ==
    /\ Opened(s, a) /\ a.ret # NULL /\ Same(a, r) /\ r.sh = a.sh /\ r.ret = KFD_ERROR
    /\ (\A f \in Fds : s.fds[p][f] # NoDesc) \/ ~HasRoom(a)
OpenWorks(s, r, p, acc) ==
    \E a : /\ Opened(s, a) /\ a.ret # NULL /\ r.ret \in Fds /\ s.fds[p][r.ret] = NoDesc
           /\ r.sh = a.sh /\ DescSet(a, r, p, r.ret, [node |-> a.ret, off |-> 0, acc |-> acc])

LEMMA OpenForProcessIs ==
    ASSUME NEW s, Good(s), ~s.fault, NEW p \in Procs, NEW path, IsPath(path), NEW fl, NEW mode,
           NEW r, r = KfdOpenForProcess(s, p, path, fl, mode), NEW a, a = KvfsOpen(s, path, fl, mode)
    PROVE  OpenFails(s, r) \/ OpenLeaks(s, r, p, a) \/ OpenWorks(s, r, p, fl.acc)
<1>2. r = IF a.ret = NULL THEN [a EXCEPT !.ret = KFD_ERROR] ELSE KfdCreateForProcess(a, p, a.ret, fl.acc)
  BY DEF KfdOpenForProcess, Then
<1>3. Opened(s, a)
  BY ONLY Good(s), ~s.fault, IsPath(path), a = KvfsOpen(s, path, fl, mode), OpenIs
<1>4. CASE a.ret = NULL
  BY <1>2, <1>3, <1>4 DEF OpenFails
<1>5. CASE a.ret # NULL
  <2>1. ~a.fault /\ a.fds = s.fds
    BY <1>3, <1>5 DEF Opened, Rest
  <2>2. Good(a)
    BY <1>3, <2>1, OpenedGood
  <2>3. a.ret \in Nat \ {NULL}
    BY <1>3, <1>5 DEF Opened, NodeFor, New
  <2>4. PICK n, acc : n = a.ret /\ acc = fl.acc
    OBVIOUS
  <2>5. r = KfdCreateForProcess(a, p, n, acc) /\ n \in Nat \ {NULL}
    BY <1>2, <1>5, <2>3, <2>4
  <2>6. DescMade(a, r, p, n, acc)
    BY ONLY <2>2, <2>5, p \in Procs, DescMadeIs
  <2> QED BY <1>3, <1>5, <2>1, <2>4, <2>6 DEF DescMade, OpenLeaks, OpenWorks
<1> QED BY <1>4, <1>5

----------------------------------------------------------------------------
(* What a call leaves of the state s it began in                           *)

Tidy(s) == DOMAIN s.node \subseteq Kept(s)

\* Why a call may come to grief.
Explained(s) ==
    \/ \E n \in DescNodes(s) \cup ({s.cwd} \ {NULL}) : Dead(s, n)
    \/ Data(s, "freed") # {}
    \/ ~HasRoom(s)

\* The descriptors of p that are open.
Holds(s, p) == {f \in Fds : NodeAt(s, p, f) # NULL}

\* Nothing lost and nothing closed but descriptors.
Clean(s, r) ==
    /\ r.fault = FALSE /\ Good(r) /\ Tidy(r) /\ r.lost = s.lost /\ r.cwd = s.cwd
    /\ s.cwd \in DOMAIN s.node => s.cwd \in DOMAIN r.node

\* That, or a use of freed memory.
Quiet(s, r) == IF r.fault THEN Explained(s) ELSE Clean(s, r)

\* A removal that is refused.
RefusedIn(s, path) ==
    /\ KvfsLookupOpen(s, path).ret \notin {NULL, s.root}
    /\ KvfsRmdir(s, path).ret = NULL \/ KvfsUnlink(s, path).ret = NULL

\* What kvfs_open leaves of u, opening for o.
OpenedFor(u, path, o) == KvfsOpen(u, path, Openings[o].fl, Openings[o].mode)

\* a is what kvfs_open left of u for p, no descriptor was made, and r keeps all but
\* its answer, the node n.
InVain(u, p, a, r, n) ==
    /\ a.ret # NULL /\ n = a.ret
    /\ (\A f \in Fds : u.fds[p][f] # NoDesc) \/ ~HasRoom(a)
    /\ r.ent = a.ent /\ DOMAIN r.node = DOMAIN a.node

\* Why nothing names the node n any more.
Excused(s, r, n) ==
    \/ /\ r.fds = s.fds /\ r.sh = s.sh
       /\ \E path \in Paths :
            \/ \E p \in Procs, o \in DOMAIN Openings : InVain(s, p, OpenedFor(s, path, o), r, n)
            \/ LET u == [s EXCEPT !.sh = Opening]
               IN  InVain(u, "shell", OpenedFor(u, path, "ls"), r, n)
    \/ /\ Rest(s, r) /\ r.ent = s.ent /\ n \in New(s) /\ \E e : r.node = Put(s.node, n, e)
       /\ \E path \in Paths : RefusedIn(s, path)

Losses(s, r) ==
    \/ Tidy(r) /\ r.lost = s.lost
    \/ Tidy(r) /\ r.lost = s.lost + 1 /\ Data(s, "held") \ DOMAIN r.ent # {}
    \/ r.lost = s.lost /\ \E n : DOMAIN r.node \ Kept(r) = {n} /\ Excused(s, r, n)

\* A call that fails may close the working directory, one that works does not.
CwdKept(s, r) ==
    s.cwd \in DOMAIN s.node /\ r.cwd = s.cwd /\ s.cwd \notin DOMAIN r.node
      => r.fds = s.fds /\ r.sh = s.sh

Outcome(s, r) ==
    IF r.fault THEN Explained(s) ELSE Good(r) /\ CwdKept(s, r) /\ Losses(s, r)

LEMMA QuietOutcome ==
    ASSUME NEW s, NEW r, Quiet(s, r)
    PROVE  Outcome(s, r)
  BY DEF Quiet, Clean, Outcome, CwdKept, Losses

LEMMA CleanTwice ==
    ASSUME NEW s, NEW a, Clean(s, a), NEW r, Clean(a, r)
    PROVE  Clean(s, r)
  BY DEF Clean

LEMMA SameClean ==
    ASSUME NEW s, Good(s), Tidy(s), ~s.fault, NEW r, Same(s, r)
    PROVE  Clean(s, r) /\ \A p \in Procs : Holds(r, p) = Holds(s, p)
<1>1. Good(r)
  BY SameGood
<1>2. Kept(r) = Kept(s)
  BY DEF Same, Kept, DescNodes, Descs
<1> QED BY <1>1, <1>2, GoodParts DEF Same, Clean, Tidy, Holds, NodeAt

\* Nodes kept through a change of nothing but entries, nodes and the answer.
LEMMA RestKept ==
    ASSUME NEW s, NEW r, Rest(s, r)
    PROVE  Kept(r) = Kept(s) /\ DescNodes(r) = DescNodes(s) /\ \A p \in Procs : Holds(r, p) = Holds(s, p)
  BY DEF Rest, Kept, DescNodes, Descs, Holds, NodeAt

\* A new node is none that is kept.
LEMMA NewNotKept ==
    ASSUME NEW s, Good(s), NEW n \in New(s)
    PROVE  n \notin Kept(s)
<1>1. DescNodes(s) \subseteq DOMAIN s.node
  BY DescNodesThere
<1>2. s.root \in DOMAIN s.node \cup {NULL}
  BY DEF Good, Handles
<1> QED BY <1>1, <1>2 DEF New, Kept

\* What an open leaves.
LEMMA OpenFailsIs ==
    ASSUME NEW s, Good(s), Tidy(s), ~s.fault, NEW r, OpenFails(s, r)
    PROVE  /\ Outcome(s, r) /\ r.ret = KFD_ERROR /\ r.sh = s.sh /\ r.fds = s.fds
           /\ r.fault \in BOOLEAN /\ r.cwd = s.cwd
           /\ r.fault \/ (Tidy(r) /\ r.lost = s.lost /\ Good(r))
<1>1. PICK a : Opened(s, a) /\ a.ret = NULL /\ r = [a EXCEPT !.ret = KFD_ERROR]
  BY DEF OpenFails
<1>2. Rest(s, a)
  BY <1>1 DEF Opened
<1>3. Same(a, r) /\ r.ret = KFD_ERROR /\ r.sh = a.sh
  BY <1>1, <1>2 DEF Rest, IsFs, Same
<1>4. Rest(s, r)
  BY <1>2, <1>3 DEF Rest, Same
<1>5. r.fds = s.fds /\ r.sh = s.sh /\ r.lost = s.lost /\ r.fault \in BOOLEAN /\ r.cwd = s.cwd
  BY <1>1, <1>3, <1>4 DEF Rest, Same, Opened
<1>6. CASE r.fault
  <2>1. s.cwd # NULL /\ Dead(s, s.cwd)
    BY <1>1, <1>3, <1>6 DEF Opened, Same
  <2>2. Explained(s)
    BY <2>1 DEF Explained
  <2> QED BY <1>3, <1>5, <1>6, <2>2 DEF Outcome
<1>7. CASE ~r.fault
  <2>1. ~a.fault
    BY <1>3, <1>7 DEF Same
  <2>2. Good(r)
    BY <1>1, <1>3, <2>1, OpenedGood, SameGood
  <2>3. DOMAIN r.node \subseteq DOMAIN s.node
    BY <1>1, <1>3 DEF Opened, Same, Restrict
  <2>4. Tidy(r)
    BY <1>4, <2>3, RestKept DEF Tidy
  <2>5. CwdKept(s, r) /\ Losses(s, r)
    BY <1>5, <2>4 DEF CwdKept, Losses
  <2> QED BY <1>3, <1>5, <1>7, <2>2, <2>4, <2>5 DEF Outcome
<1> QED BY <1>6, <1>7

\* n is the one node that nothing names.
OnlyLost(r, n) == DOMAIN r.node \ Kept(r) = {n}

LEMMA OpenLeaksIs ==
    ASSUME NEW s, Good(s), Tidy(s), ~s.fault, NEW p \in Procs, NEW r, NEW a, OpenLeaks(s, r, p, a)
    PROVE  /\ Good(r) /\ CwdKept(s, r) /\ r.fault = FALSE /\ r.lost = s.lost
           /\ OnlyLost(r, a.ret)
           /\ r.ret = KFD_ERROR /\ r.sh = s.sh /\ r.fds = s.fds
           /\ r.cwd = s.cwd /\ DOMAIN s.node \subseteq DOMAIN r.node
<1>1. /\ Opened(s, a) /\ a.ret # NULL /\ Same(a, r) /\ r.sh = a.sh /\ r.ret = KFD_ERROR
      /\ (\A f \in Fds : s.fds[p][f] # NoDesc) \/ ~HasRoom(a)
  BY DEF OpenLeaks
<1>2. Rest(s, a) /\ a.fault = FALSE
  BY <1>1 DEF Opened
<1>3. Good(r)
  BY <1>1, <1>2, OpenedGood, SameGood
<1>4. Rest(s, r) /\ r.fault = FALSE
  BY <1>1, <1>2 DEF Rest, Same
<1>5. PICK e \in DOMAIN a.ent : NodeFor(s, a, e)
  BY <1>1 DEF Opened
<1>6. DOMAIN r.node = DOMAIN s.node \cup {a.ret} /\ a.ret \in New(s)
  BY <1>1, <1>5 DEF Same, NodeFor, Put
<1>7. DOMAIN r.node \ Kept(r) = {a.ret}
  BY <1>4, <1>6, NewNotKept, RestKept DEF Tidy
<1> QED BY <1>1, <1>3, <1>4, <1>6, <1>7 DEF Rest, CwdKept, OnlyLost

LEMMA OpenWorksIs ==
    ASSUME NEW s, Good(s), Tidy(s), ~s.fault, NEW p \in Procs, NEW acc \in {"r", "w", "rw"},
           NEW r, OpenWorks(s, r, p, acc)
    PROVE  /\ Clean(s, r) /\ r.ret \in Fds /\ r.ret \notin Holds(s, p) /\ r.sh = s.sh
           /\ NodeAt(r, p, r.ret) # NULL /\ ~Dead(r, NodeAt(r, p, r.ret))
           /\ Holds(r, p) = Holds(s, p) \cup {r.ret}
           /\ \A q \in Procs : q # p => Holds(r, q) = Holds(s, q)
<1>1. PICK a : /\ Opened(s, a) /\ a.ret # NULL /\ r.ret \in Fds /\ s.fds[p][r.ret] = NoDesc
               /\ r.sh = a.sh /\ DescSet(a, r, p, r.ret, [node |-> a.ret, off |-> 0, acc |-> acc])
  BY DEF OpenWorks
<1>2. Rest(s, a) /\ a.fault = FALSE /\ a.fds = s.fds
  BY <1>1 DEF Opened, Rest
<1>3. Good(a)
  BY <1>1, <1>2, OpenedGood
<1>4. PICK e \in DOMAIN a.ent : NodeFor(s, a, e)
  BY <1>1 DEF Opened
<1>5. DOMAIN a.node = DOMAIN s.node \cup {a.ret} /\ a.ret \in New(s) /\ a.node[a.ret] = e
      /\ a.ret \in Nat \ {NULL}
  BY <1>4 DEF NodeFor, Put, New
<1>6. PICK f, d : f = r.ret /\ d = [node |-> a.ret, off |-> 0, acc |-> acc]
  OBVIOUS
<1>7. f \in Fds /\ d \in Desc /\ DescSet(a, r, p, f, d) /\ d.node = a.ret /\ d.off = 0
  BY <1>1, <1>5, <1>6 DEF Desc
<1>8. a.ret \notin Kept(s) /\ Kept(a) = Kept(s) /\ DescNodes(a) = DescNodes(s)
  BY <1>2, <1>5, NewNotKept, RestKept
<1>9. d.node # NULL /\ d.node \in DOMAIN a.node \ {a.root, a.cwd}
  BY <1>2, <1>5, <1>7, <1>8 DEF Kept, Rest
<1>10. \A q \in Procs, g \in Fds : NodeAt(a, q, g) # d.node
  <2>1. a.ret \notin DescNodes(a)
    BY <1>8 DEF Kept
  <2> QED BY <1>7, <1>9, <2>1, InDescNodes
<1>11. Entry(a, d.node).kind = "reg" => d.off <= Entry(a, d.node).size
  <2>1. EntryOK(a.ent[e])
    BY <1>3, GoodParts
  <2> QED BY <1>5, <1>7, <2>1, FilesAssumption DEF Entry, EntryOK
<1>12. Good(r)
  <2>1. IF d.node = NULL THEN d = NoDesc
        ELSE d.node \in DOMAIN a.node \ {a.root, a.cwd}
    BY <1>9
  <2>2. \A q \in Procs, g \in Fds : (q # p \/ g # f) /\ NodeAt(a, q, g) = d.node => d.node = NULL
    BY <1>10
  <2>3. d.node # NULL /\ ~Dead(a, d.node) /\ Entry(a, d.node).kind = "reg"
             => d.off <= Entry(a, d.node).size
    BY <1>11
  <2> QED BY ONLY <1>3, <1>7, <2>1, <2>2, <2>3, p \in Procs, DescSetGood
<1>13. DescTable(a, r, p, f, d)
  BY ONLY <1>3, <1>7, p \in Procs, DescSetIs
<1>14. NodeAt(r, p, f) = d.node /\ \A q \in Procs, g \in Fds : q # p \/ g # f => NodeAt(r, q, g) = NodeAt(s, q, g)
  BY <1>2, <1>13 DEF DescTable, NodeAt
<1>15. NodeAt(s, p, f) = NULL
  BY <1>1, <1>6 DEF NodeAt, NoDesc
<1>16. /\ Holds(r, p) = Holds(s, p) \cup {f} /\ f \notin Holds(s, p)
       /\ \A q \in Procs : q # p => Holds(r, q) = Holds(s, q)
  BY <1>7, <1>9, <1>14, <1>15 DEF Holds
<1>17. Tidy(r)
  <2> SUFFICES ASSUME NEW n \in DOMAIN r.node PROVE n \in Kept(r)
    BY DEF Tidy
  <2>1. CASE n = a.ret
    <3>1. n \in DescNodes(r)
      BY <1>7, <1>9, <1>14, <2>1, InDescNodes
    <3> QED BY <3>1 DEF Kept
  <2>2. CASE n # a.ret
    <3>1. n \in Kept(s)
      BY <1>5, <1>7, <2>2 DEF Tidy, DescSet
    <3>2. CASE n \in {s.root, s.cwd}
      BY <1>2, <1>7, <3>2 DEF Kept, DescSet, Rest
    <3>3. CASE n \in DescNodes(s)
      <4>1. PICK q \in Procs, g \in Fds : NodeAt(s, q, g) = n /\ n # NULL
        BY <3>3, InDescNodes
      <4>2. NodeAt(r, q, g) = n
        BY <1>14, <1>15, <4>1
      <4>3. n \in DescNodes(r)
        BY <4>1, <4>2, InDescNodes
      <4> QED BY <4>3 DEF Kept
    <3> QED BY <3>1, <3>2, <3>3 DEF Kept
  <2> QED BY <2>1, <2>2
<1>18. r.fault = FALSE /\ r.lost = s.lost /\ r.cwd = s.cwd /\ r.node = a.node /\ r.ent = a.ent /\ r.sh = s.sh
  BY <1>1, <1>2, <1>7 DEF DescSet, Rest
<1>19. Clean(s, r)
  BY <1>5, <1>12, <1>17, <1>18 DEF Clean
<1>20. ~Dead(r, d.node)
  BY <1>5, <1>7, <1>18 DEF Dead
<1> QED BY <1>6, <1>7, <1>9, <1>14, <1>16, <1>18, <1>19, <1>20

\* kfd_close_for_process of an open descriptor.
LEMMA CloseForIs ==
    ASSUME NEW s, Good(s), Tidy(s), ~s.fault, NEW p \in Procs, NEW f \in Fds,
           NodeAt(s, p, f) # NULL, NEW r, r = KfdCloseForProcess(s, p, f)
    PROVE  /\ Clean(s, r) /\ r.sh = s.sh /\ Holds(r, p) = Holds(s, p) \ {f}
           /\ \A q \in Procs : q # p => Holds(r, q) = Holds(s, q)
<1>1. PICK n : n = NodeAt(s, p, f)
  OBVIOUS
<1>2. n \in DOMAIN s.node \ {s.root, s.cwd} /\ n # NULL
  BY <1>1 DEF Good, Handles
<1>3. IsFs(s) /\ s.fault = FALSE
  BY GoodParts
<1>4. PICK a : a = KvfsClose(s, n)
  OBVIOUS
<1>5. /\ Rest(s, a) /\ a.ent = s.ent /\ a.fault = s.fault
      /\ a.node = Restrict(s.node, DOMAIN s.node \ {n})
  BY <1>2, <1>3, <1>4, CloseIs
<1>6. KfdGet(s, p, f) # NoDesc
  BY DEF KfdGet, NodeAt, NoDesc
<1>7. r = Ok(SetDesc(a, p, f, NoDesc))
  BY <1>1, <1>3, <1>4, <1>5, <1>6 DEF KfdCloseForProcess, Then, NodeAt
<1>8. PICK b : b = SetDesc(s, p, f, NoDesc)
  OBVIOUS
<1>9. NoDesc \in Desc /\ NoDesc.node = NULL
  BY DEF NoDesc, Desc, NULL
<1>10. PICK d : d = NoDesc
  OBVIOUS
<1>11. DescSet(s, b, p, f, d) /\ d \in Desc /\ d.node = NULL /\ d = NoDesc
  BY <1>3, <1>8, <1>9, <1>10 DEF DescSet, SetDesc, IsFs
<1>12. Good(b)
  <2>1. IF d.node = NULL THEN d = NoDesc ELSE d.node \in DOMAIN s.node \ {s.root, s.cwd}
    BY <1>11
  <2>2. \A q \in Procs, g \in Fds : (q # p \/ g # f) /\ NodeAt(s, q, g) = d.node => d.node = NULL
    BY <1>11
  <2>3. d.node # NULL /\ ~Dead(s, d.node) /\ Entry(s, d.node).kind = "reg"
             => d.off <= Entry(s, d.node).size
    BY <1>11
  <2> QED BY ONLY Good(s), <1>11, <2>1, <2>2, <2>3, p \in Procs, f \in Fds, DescSetGood
<1>13. DescTable(s, b, p, f, d)
  BY ONLY Good(s), <1>11, p \in Procs, f \in Fds, DescSetIs
<1>14. NodeAt(b, p, f) = NULL /\ \A q \in Procs, g \in Fds : q # p \/ g # f => NodeAt(b, q, g) = NodeAt(s, q, g)
  BY <1>11, <1>13 DEF DescTable, NodeAt
<1>15. r.fds = b.fds /\ Without(b, r, n) /\ r.sh = s.sh
  BY <1>3, <1>5, <1>7, <1>8 DEF Ok, SetDesc, IsFs, Rest, Without
<1>16. n \notin DescNodes(b)
  <2> SUFFICES ASSUME NEW q \in Procs, NEW g \in Fds, NodeAt(b, q, g) = n PROVE FALSE
    BY InDescNodes
  <2>1. (q # p \/ g # f) /\ NodeAt(s, q, g) = NodeAt(s, p, f)
    BY <1>1, <1>2, <1>14
  <2> QED BY <1>1, <1>2, <2>1 DEF Good, Handles
<1>17. Good(r)
  <2>1. n # b.root
    BY <1>2, <1>11 DEF DescSet
  <2> QED BY <1>12, <1>15, <1>16, <2>1, WithoutGood
<1>18. NodeAt(r, p, f) = NULL /\ \A q \in Procs, g \in Fds : q # p \/ g # f => NodeAt(r, q, g) = NodeAt(s, q, g)
  BY <1>14, <1>15 DEF NodeAt
<1>19. Holds(r, p) = Holds(s, p) \ {f} /\ \A q \in Procs : q # p => Holds(r, q) = Holds(s, q)
  BY <1>18 DEF Holds
<1>20. DOMAIN r.node = DOMAIN s.node \ {n}
  BY <1>11, <1>15 DEF Without, DescSet, Restrict
<1>21. r.root = s.root /\ r.cwd = s.cwd /\ r.lost = s.lost /\ r.fault = FALSE
  BY <1>3, <1>11, <1>15 DEF Without, DescSet
<1>22. Tidy(r)
  <2> SUFFICES ASSUME NEW m \in DOMAIN r.node PROVE m \in Kept(r)
    BY DEF Tidy
  <2>1. m \in Kept(s) /\ m # n
    BY <1>20 DEF Tidy
  <2>2. CASE m \in {s.root, s.cwd}
    BY <1>21, <2>2 DEF Kept
  <2>3. CASE m \in DescNodes(s)
    <3>1. PICK q \in Procs, g \in Fds : NodeAt(s, q, g) = m /\ m # NULL
      BY <2>3, InDescNodes
    <3>2. NodeAt(r, q, g) = m
      BY <1>1, <1>18, <2>1, <3>1
    <3>3. m \in DescNodes(r)
      BY <3>1, <3>2, InDescNodes
    <3> QED BY <3>3 DEF Kept
  <2> QED BY <2>1, <2>2, <2>3 DEF Kept
<1> QED BY <1>2, <1>15, <1>17, <1>19, <1>20, <1>21, <1>22 DEF Clean

\* An open descriptor moves.
LEMMA MoveIs ==
    ASSUME NEW s, Good(s), Tidy(s), ~s.fault, NEW p \in Procs, NEW f \in Fds,
           NodeAt(s, p, f) # NULL, NEW k \in Nat, NEW r,
           DescSet(s, r, p, f, [s.fds[p][f] EXCEPT !.off = k]),
           ~Dead(s, NodeAt(s, p, f)) /\ Entry(s, NodeAt(s, p, f)).kind = "reg"
             => k <= Entry(s, NodeAt(s, p, f)).size
    PROVE  Clean(s, r) /\ \A q \in Procs : Holds(r, q) = Holds(s, q)
<1>1. PICK d : d = [s.fds[p][f] EXCEPT !.off = k]
  OBVIOUS
<1>2. s.fds[p][f] \in Desc
  BY DEF Good, Typed
<1>3. d \in Desc /\ d.node = NodeAt(s, p, f) /\ d.off = k /\ DescSet(s, r, p, f, d)
  BY <1>1, <1>2 DEF Desc, NodeAt
<1>4. Good(r)
  <2>1. IF d.node = NULL THEN d = NoDesc ELSE d.node \in DOMAIN s.node \ {s.root, s.cwd}
    BY <1>3 DEF Good, Handles
  <2>2. \A q \in Procs, g \in Fds : (q # p \/ g # f) /\ NodeAt(s, q, g) = d.node => d.node = NULL
    BY <1>3 DEF Good, Handles
  <2>3. d.node # NULL /\ ~Dead(s, d.node) /\ Entry(s, d.node).kind = "reg"
             => d.off <= Entry(s, d.node).size
    BY <1>3
  <2> QED BY ONLY Good(s), <1>3, <2>1, <2>2, <2>3, p \in Procs, f \in Fds, DescSetGood
<1>5. DescTable(s, r, p, f, d)
  BY ONLY Good(s), <1>3, p \in Procs, f \in Fds, DescSetIs
<1>6. \A q \in Procs, g \in Fds : NodeAt(r, q, g) = NodeAt(s, q, g)
  BY <1>3, <1>5 DEF DescTable, NodeAt
<1>7. DescNodes(r) = DescNodes(s)
  <2>1. ASSUME NEW n PROVE n \in DescNodes(r) <=> n \in DescNodes(s)
    <3>1. n \in DescNodes(r) <=> n # NULL /\ \E q \in Procs, g \in Fds : NodeAt(r, q, g) = n
      BY InDescNodes
    <3>2. n \in DescNodes(s) <=> n # NULL /\ \E q \in Procs, g \in Fds : NodeAt(s, q, g) = n
      BY InDescNodes
    <3> QED BY <1>6, <3>1, <3>2
  <2> QED BY <2>1
<1>8. r.node = s.node /\ r.root = s.root /\ r.cwd = s.cwd /\ r.lost = s.lost
      /\ r.fault = FALSE
  BY <1>3, GoodParts DEF DescSet
<1>9. Tidy(r)
  BY <1>7, <1>8 DEF Tidy, Kept
<1> QED BY <1>4, <1>6, <1>8, <1>9 DEF Clean, Holds

\* A dead node that a descriptor has explains a fault.
LEMMA DeadDesc ==
    ASSUME NEW s, NEW p \in Procs, NEW f \in Fds, NodeAt(s, p, f) # NULL, Dead(s, NodeAt(s, p, f))
    PROVE  Explained(s)
  BY InDescNodes DEF Explained

LEMMA KfdGetIs ==
    ASSUME NEW s, NEW p, NEW f, KfdGet(s, p, f).node # NULL
    PROVE  f \in Fds /\ KfdGet(s, p, f) = s.fds[p][f] /\ NodeAt(s, p, f) # NULL
  BY DEF KfdGet, NoDesc, NodeAt

\* kfd_stat.
LEMMA StatIs ==
    ASSUME NEW s, Good(s), Tidy(s), ~s.fault, NEW p \in Procs, NEW f, NEW r, r = KfdStat(s, p, f)
    PROVE  /\ Quiet(s, r) /\ r.sh = s.sh
           /\ ~r.fault => Same(s, r) /\ \A q \in Procs : Holds(r, q) = Holds(s, q)
           /\ ~r.fault /\ KfdGet(s, p, f).node # NULL =>
                 r.ret # NULL /\ ~Dead(s, KfdGet(s, p, f).node)
           /\ r.fault => KfdGet(s, p, f).node # NULL /\ Dead(s, KfdGet(s, p, f).node)
<1>1. PICK n : n = KfdGet(s, p, f).node
  OBVIOUS
<1>2. IsFs(s) /\ s.fault = FALSE
  BY GoodParts
<1>3. CASE n = NULL
  <2>1. r = Fail(s)
    BY <1>1, <1>3 DEF KfdStat, KvfsStatFromNode
  <2>2. Same(s, r) /\ r.sh = s.sh /\ r.fault = FALSE
    BY <1>2, <2>1 DEF Fail, Same, IsFs
  <2> QED BY <1>1, <1>3, <2>2, SameClean DEF Quiet
<1>4. CASE n # NULL /\ Dead(s, n)
  <2>1. r = Fault(s)
    BY <1>1, <1>2, <1>4 DEF KfdStat, KvfsStatFromNode, KtmpfsStat
  <2>2. r.fault = TRUE /\ r.sh = s.sh
    BY <1>2, <2>1 DEF Fault, IsFs
  <2>3. f \in Fds /\ NodeAt(s, p, f) = n
    BY <1>1, <1>4, KfdGetIs DEF NodeAt
  <2>4. Explained(s)
    BY <1>4, <2>3, DeadDesc
  <2> QED BY <1>1, <1>4, <2>2, <2>4 DEF Quiet
<1>5. CASE n # NULL /\ ~Dead(s, n)
  <2>1. r = Ok(s)
    BY <1>1, <1>2, <1>5 DEF KfdStat, KvfsStatFromNode, KtmpfsStat
  <2>2. Same(s, r) /\ r.sh = s.sh /\ r.fault = FALSE /\ r.ret # NULL
    BY <1>2, <2>1 DEF Ok, Same, IsFs, OK, NULL
  <2> QED BY <1>1, <1>5, <2>2, SameClean DEF Quiet
<1> QED BY <1>3, <1>4, <1>5

\* ktmpfs_read: nothing changes, and no more is read than there is.
LEMMA TmpfsReadIs ==
    ASSUME NEW s, Good(s), ~s.fault, NEW n, ~Dead(s, n), NEW off \in Nat, NEW len \in Nat,
           Entry(s, n).kind = "reg" => off <= Entry(s, n).size,
           NEW r, r = KtmpfsRead(s, n, off, len)
    PROVE  /\ r.fault => Data(s, "freed") # {}
           /\ ~r.fault => /\ Same(s, r) /\ r.sh = s.sh /\ r.ret \in Nat
                          /\ Entry(s, n).kind = "reg" => off + r.ret <= Entry(s, n).size
<1>1. PICK e : e = Entry(s, n)
  OBVIOUS
<1>2. s.node[n] \in DOMAIN s.ent /\ e = s.ent[s.node[n]]
  BY <1>1 DEF Dead, Entry
<1>3. EntryOK(e) /\ IsFs(s) /\ s.fault = FALSE
  BY <1>2, GoodParts
<1>4. e.kind \in {"chr", "dir", "reg"} /\ e.size \in Nat
  BY <1>3, FilesAssumption DEF EntryOK
<1>5. CASE e.kind = "chr"
  <2>1. r = [s EXCEPT !.ret = len]
    BY <1>1, <1>5 DEF KtmpfsRead, KfsKeyboardRead
  <2> QED BY <1>1, <1>3, <1>5, <2>1 DEF Same, IsFs
<1>6. CASE e.kind = "dir"
  <2>1. r = Fail(s)
    BY <1>1, <1>6 DEF KtmpfsRead
  <2> QED BY <1>1, <1>3, <1>6, <2>1 DEF Same, IsFs, Fail, NULL
<1>7. CASE e.kind = "reg"
  <2>1. PICK count : count = Min({len, e.size - off})
    OBVIOUS
  <2>2. count \in Nat /\ off + count <= e.size
    <3>1. e.size - off \in Nat
      BY <1>1, <1>4, <1>7
    <3>2. count = IF len <= e.size - off THEN len ELSE e.size - off
      BY <2>1, <3>1, MinOfTwo
    <3> QED BY <1>4, <3>1, <3>2
  <2>3. off <= e.size /\ ~(off > e.size)
    BY <1>1, <1>4, <1>7
  <2>4. r = IF count > 0 /\ e.buf = "freed" THEN Fault(s) ELSE [s EXCEPT !.ret = count]
    BY <1>1, <1>7, <2>1, <2>3 DEF KtmpfsRead
  <2>5. CASE count > 0 /\ e.buf = "freed"
    <3>1. r.fault
      BY <1>3, <2>4, <2>5 DEF Fault, IsFs
    <3>2. s.node[n] \in Data(s, "freed")
      BY <1>2, <2>5 DEF Data
    <3> QED BY <3>1, <3>2
  <2>6. CASE ~(count > 0 /\ e.buf = "freed")
    BY <1>1, <1>3, <2>2, <2>4, <2>6 DEF Same, IsFs
  <2> QED BY <2>5, <2>6
<1> QED BY <1>4, <1>5, <1>6, <1>7

\* The position after a transfer that did not fault.
LEMMA MovedIs ==
    ASSUME NEW a, Good(a), Tidy(a), ~a.fault, NEW p \in Procs, NEW f \in Fds,
           NodeAt(a, p, f) # NULL, a.ret \in Nat, NEW r, r = Moved(a, p, f),
           ~Dead(a, NodeAt(a, p, f)) /\ Entry(a, NodeAt(a, p, f)).kind = "reg"
             => a.fds[p][f].off + a.ret <= Entry(a, NodeAt(a, p, f)).size
    PROVE  Clean(a, r) /\ r.sh = a.sh /\ \A q \in Procs : Holds(r, q) = Holds(a, q)
<1>1. IsFs(a) /\ a.fds[p][f] \in Desc
  BY GoodParts DEF Good, Typed
<1>2. PICK k : k = a.fds[p][f].off + a.ret
  OBVIOUS
<1>3. k \in Nat
  BY <1>1, <1>2 DEF Desc
<1>4. r = SetDesc(a, p, f, [a.fds[p][f] EXCEPT !.off = k])
  BY <1>2 DEF Moved
<1>5. DescSet(a, r, p, f, [a.fds[p][f] EXCEPT !.off = k]) /\ r.sh = a.sh
  BY <1>1, <1>4 DEF SetDesc, DescSet, IsFs
<1>6. ~Dead(a, NodeAt(a, p, f)) /\ Entry(a, NodeAt(a, p, f)).kind = "reg"
             => k <= Entry(a, NodeAt(a, p, f)).size
  BY <1>2
<1>7. Clean(a, r) /\ \A q \in Procs : Holds(r, q) = Holds(a, q)
  BY ONLY Good(a), Tidy(a), ~a.fault, p \in Procs, f \in Fds, NodeAt(a, p, f) # NULL,
     <1>3, <1>5, <1>6, MoveIs
<1> QED BY <1>5, <1>7

\* A call that is refused before it begins.
LEMMA FailIs ==
    ASSUME NEW s, Good(s), Tidy(s), ~s.fault
    PROVE  /\ Quiet(s, Fail(s)) /\ Fail(s).sh = s.sh /\ Fail(s).ret = NULL /\ Same(s, Fail(s))
           /\ \A q \in Procs : Holds(Fail(s), q) = Holds(s, q)
<1>1. PICK r : r = Fail(s)
  OBVIOUS
<1>2. Same(s, r) /\ r.sh = s.sh /\ r.fault = FALSE /\ r.ret = NULL
  BY <1>1, GoodParts DEF Fail, Same, IsFs
<1>3. Clean(s, r) /\ \A q \in Procs : Holds(r, q) = Holds(s, q)
  BY <1>2, SameClean
<1> QED BY <1>1, <1>2, <1>3 DEF Quiet

\* kfd_read.
LEMMA ReadForIs ==
    ASSUME NEW s, Good(s), Tidy(s), ~s.fault, NEW p \in Procs, NEW f, NEW len \in Nat,
           NEW r, r = KfdRead(s, p, f, len)
    PROVE  Quiet(s, r) /\ r.sh = s.sh /\ (~r.fault => \A q \in Procs : Holds(r, q) = Holds(s, q))
<1>1. PICK d : d = KfdGet(s, p, f)
  OBVIOUS
<1>2. CASE d.node = NULL \/ len = 0 \/ ~KfdCheckAccess(s, p, f, "read")
  <2>1. r = Fail(s)
    BY <1>1, <1>2 DEF KfdRead
  <2> QED BY <2>1, FailIs
<1>3. CASE ~(d.node = NULL \/ len = 0 \/ ~KfdCheckAccess(s, p, f, "read"))
  <2>1. PICK n, off : n = d.node /\ off = d.off
    OBVIOUS
  <2>2. PICK a : a = KvfsRead(s, n, off, len)
    OBVIOUS
  <2>3. r = Moved(a, p, f)
    BY <1>1, <1>3, <2>1, <2>2 DEF KfdRead
  <2>4. f \in Fds /\ d = s.fds[p][f] /\ NodeAt(s, p, f) = n /\ n # NULL
    BY <1>1, <1>3, <2>1, KfdGetIs DEF NodeAt
  <2>5. d \in Desc /\ off \in Nat /\ IsFs(s) /\ s.fault = FALSE
    BY <2>1, <2>4, GoodParts DEF Good, Typed, Desc
  <2>6. CASE Dead(s, n)
    <3>1. a = Fault(s)
      BY <2>2, <2>4, <2>6 DEF KvfsRead, Guarded
    <3>2. a.fault = TRUE /\ a.sh = s.sh
      BY <2>5, <3>1 DEF Fault, IsFs
    <3>3. r = a
      BY <2>3, <3>2 DEF Moved
    <3> QED BY <2>4, <2>6, <3>2, <3>3, DeadDesc DEF Quiet
  <2>7. CASE ~Dead(s, n)
    <3>1. a = KtmpfsRead(s, n, off, len)
      BY <2>2, <2>4, <2>7, GuardPasses DEF KvfsRead
    <3>2. Entry(s, n).kind = "reg" => off <= Entry(s, n).size
      BY <2>1, <2>4, <2>7 DEF Good, Positions
    <3>3. /\ a.fault => Data(s, "freed") # {}
          /\ ~a.fault => /\ Same(s, a) /\ a.sh = s.sh /\ a.ret \in Nat
                         /\ Entry(s, n).kind = "reg" => off + a.ret <= Entry(s, n).size
      BY ONLY Good(s), ~s.fault, len \in Nat, <2>5, <2>7, <3>1, <3>2, TmpfsReadIs
    <3>4. CASE a.fault
      <4>1. r = a
        BY <2>3, <3>4 DEF Moved
      <4>2. a.sh = s.sh
        <5>1. a = Fail(s) \/ a = Fault(s) \/ \E x : a = [s EXCEPT !.ret = x]
          BY <3>1 DEF KtmpfsRead, KfsKeyboardRead
        <5> QED BY <2>5, <5>1 DEF Fault, Fail, IsFs
      <4> QED BY <3>3, <3>4, <4>1, <4>2 DEF Quiet, Explained
    <3>5. CASE ~a.fault
      <4>1. Same(s, a) /\ a.sh = s.sh /\ a.ret \in Nat
        BY <3>3, <3>5
      <4>2. Clean(s, a) /\ \A q \in Procs : Holds(a, q) = Holds(s, q)
        BY <4>1, SameClean
      <4>3. Good(a) /\ Tidy(a) /\ ~a.fault /\ NodeAt(a, p, f) = n /\ NodeAt(a, p, f) # NULL
        BY <2>4, <4>1, <4>2 DEF Clean, Same, NodeAt
      <4>4. ~Dead(a, NodeAt(a, p, f)) /\ Entry(a, NodeAt(a, p, f)).kind = "reg"
             => a.fds[p][f].off + a.ret <= Entry(a, NodeAt(a, p, f)).size
        BY <2>1, <2>4, <3>3, <3>5, <4>1, <4>3 DEF Same, Entry
      <4>5. Clean(a, r) /\ r.sh = a.sh /\ \A q \in Procs : Holds(r, q) = Holds(a, q)
        BY ONLY p \in Procs, <2>3, <2>4, <4>1, <4>3, <4>4, MovedIs
      <4>6. Clean(s, r) /\ ~r.fault
        BY <4>2, <4>5, CleanTwice DEF Clean
      <4> QED BY <4>1, <4>2, <4>5, <4>6 DEF Quiet
    <3> QED BY <3>4, <3>5
  <2> QED BY <2>6, <2>7
<1> QED BY <1>2, <1>3

\* kfd_readdir.
LEMMA ReaddirForIs ==
    ASSUME NEW s, Good(s), Tidy(s), ~s.fault, NEW p \in Procs, NEW f,
           NEW r, r = KfdReaddir(s, p, f)
    PROVE  Quiet(s, r) /\ r.sh = s.sh /\ (~r.fault => \A q \in Procs : Holds(r, q) = Holds(s, q))
<1>1. CASE KfdGet(s, p, f).node = NULL \/ ~KfdCheckAccess(s, p, f, "read")
  <2>1. r = Fail(s)
    BY <1>1 DEF KfdReaddir
  <2> QED BY <2>1, FailIs
<1>2. CASE ~(KfdGet(s, p, f).node = NULL \/ ~KfdCheckAccess(s, p, f, "read"))
  <2>1. r = KvfsReaddir(s, p, f)
    BY <1>2 DEF KfdReaddir
  <2>2. f \in Fds /\ NodeAt(s, p, f) # NULL
    BY <1>2, KfdGetIs
  <2>3. PICK n, d : n = NodeAt(s, p, f) /\ d = s.fds[p][f]
    OBVIOUS
  <2>4. d \in Desc /\ IsFs(s) /\ s.fault = FALSE
    BY <2>2, <2>3, GoodParts DEF Good, Typed
  <2>5. CASE Dead(s, n)
    <3>1. r = Fault(s)
      BY <2>1, <2>2, <2>3, <2>5 DEF KvfsReaddir, Guarded, NodeAt
    <3>2. r.fault = TRUE /\ r.sh = s.sh
      BY <2>4, <3>1 DEF Fault, IsFs
    <3> QED BY <2>2, <2>3, <2>5, <3>2, DeadDesc DEF Quiet
  <2>6. CASE ~Dead(s, n) /\ Entry(s, n).kind # "dir"
    <3>1. PICK op : op = Fail(s)
      OBVIOUS
    <3>2. r = Guarded(s, n, "read", op)
      BY <2>1, <2>3, <2>6, <3>1 DEF KvfsReaddir, NodeAt
    <3>3. r = op
      BY <2>2, <2>3, <2>6, <3>2, GuardPasses
    <3> QED BY <3>1, <3>3, FailIs
  <2>7. CASE ~Dead(s, n) /\ Entry(s, n).kind = "dir"
    <3>1. PICK op : op = KtmpfsReaddir(s, p, f)
      OBVIOUS
    <3>2. r = Guarded(s, n, "read", op)
      BY <2>1, <2>3, <2>7, <3>1 DEF KvfsReaddir, NodeAt
    <3>3. r = op
      BY <2>2, <2>3, <2>7, <3>2, GuardPasses
    <3>4. PICK k, x : k = d.off + 1 /\ x = IF d.off < Cardinality(Entry(s, d.node).kids) THEN OK ELSE NULL
      OBVIOUS
    <3>5. r = [SetDesc(s, p, f, [d EXCEPT !.off = k]) EXCEPT !.ret = x]
      BY <2>3, <3>1, <3>3, <3>4 DEF KtmpfsReaddir
    <3>6. DescSet(s, r, p, f, [s.fds[p][f] EXCEPT !.off = k]) /\ r.sh = s.sh /\ k \in Nat
      <4>1. PICK e : e = [d EXCEPT !.off = k]
        OBVIOUS
      <4>2. DescSet(s, r, p, f, e) /\ r.sh = s.sh
        BY <2>4, <3>5, <4>1 DEF SetDesc, DescSet, IsFs
      <4>3. k \in Nat
        BY <2>4, <3>4 DEF Desc
      <4> QED BY <2>3, <4>1, <4>2, <4>3
    <3>7. ~Dead(s, NodeAt(s, p, f)) /\ Entry(s, NodeAt(s, p, f)).kind = "reg"
             => k <= Entry(s, NodeAt(s, p, f)).size
      BY <2>3, <2>7
    <3>8. Clean(s, r) /\ \A q \in Procs : Holds(r, q) = Holds(s, q)
      BY ONLY Good(s), Tidy(s), ~s.fault, p \in Procs, <2>2, <3>6, <3>7, MoveIs
    <3> QED BY <3>6, <3>8 DEF Quiet, Clean
  <2> QED BY <2>5, <2>6, <2>7
<1> QED BY <1>1, <1>2

----------------------------------------------------------------------------
(* Writing                                                                 *)

\* x differs from the file's entry old in its data only.
SameFile(old, x) ==
    /\ IsEntry(x) /\ x.kind = old.kind /\ x.name = old.name /\ x.parent = old.parent
    /\ x.kids = old.kids /\ x.nlink = old.nlink /\ x.buf \in {"none", "held", "freed"}
    /\ x.size \in 0 .. MaxSize /\ old.size <= x.size /\ x.cap \in Nat /\ x.size <= x.cap

\* r is s with other data in the file e.
Written(s, r, e) ==
    /\ Rest(s, r) /\ r.node = s.node /\ r.fault = s.fault
    /\ e \in DOMAIN s.ent /\ s.ent[e].kind = "reg"
    /\ IsFun(r.ent) /\ DOMAIN r.ent = DOMAIN s.ent
    /\ \A x \in DOMAIN s.ent : x # e => r.ent[x] = s.ent[x]
    /\ SameFile(s.ent[e], r.ent[e])

LEMMA WrittenGood ==
    ASSUME NEW s, Good(s), NEW r, NEW e, Written(s, r, e)
    PROVE  Good(r)
<1>1. /\ e \in DOMAIN s.ent /\ s.ent[e].kind = "reg" /\ IsFun(r.ent) /\ DOMAIN r.ent = DOMAIN s.ent
      /\ \A x \in DOMAIN s.ent : x # e => r.ent[x] = s.ent[x]
      /\ SameFile(s.ent[e], r.ent[e])
  BY DEF Written
<1>2. \A x \in DOMAIN s.ent : /\ r.ent[x].kind = s.ent[x].kind /\ r.ent[x].parent = s.ent[x].parent
                              /\ r.ent[x].kids = s.ent[x].kids /\ r.ent[x].name = s.ent[x].name
  BY <1>1 DEF SameFile
<1>3. \A x \in DOMAIN s.ent : s.ent[x].size \in Int /\ r.ent[x].size \in Int /\ s.ent[x].size <= r.ent[x].size
  <2>1. \A x \in DOMAIN s.ent : s.ent[x].size \in Int
    BY GoodParts DEF EntryOK
  <2> QED BY <1>1, <2>1 DEF SameFile
<1>4. Forest(r.ent)
  <2>1. IsTable(r.ent)
    BY <1>1, GoodParts DEF IsTable
  <2>2. \A x \in DOMAIN r.ent : EntryOK(r.ent[x])
    <3>1. EntryOK(s.ent[e])
      BY <1>1, GoodParts
    <3>2. EntryOK(r.ent[e])
      BY <1>1, <3>1 DEF EntryOK, SameFile
    <3> QED BY <1>1, <3>2, GoodParts
  <2>3. LinkedUp(r.ent)
    BY <1>1, <1>2, GoodParts DEF LinkedUp
  <2>4. LinkedDown(r.ent)
    BY <1>1, <1>2, GoodParts DEF LinkedDown
  <2>5. NamesApart(r.ent)
    <3> SUFFICES ASSUME NEW d \in DOMAIN s.ent, NEW j \in s.ent[d].kids, NEW k \in s.ent[d].kids,
                        r.ent[j].name = r.ent[k].name
                 PROVE  j = k
      BY <1>1, <1>2 DEF NamesApart
    <3>1. j \in DOMAIN s.ent /\ k \in DOMAIN s.ent
      BY GoodParts DEF LinkedDown
    <3> QED BY <1>2, <3>1, GoodParts DEF NamesApart
  <2> QED BY <2>1, <2>2, <2>3, <2>4, <2>5 DEF Forest
<1>5. Typed(r)
  BY DEF Good, Typed, Written, Rest
<1>6. Handles(r)
  <2>1. r.root # NULL => /\ r.root \in DOMAIN r.node /\ r.node[r.root] \in DOMAIN r.ent
                         /\ r.ent[r.node[r.root]].parent = NULL
    BY <1>1, <1>2 DEF Good, Handles, Written, Rest
  <2> QED BY <2>1 DEF Good, Handles, Written, Rest, NodeAt
<1>7. Positions(r)
  <2> SUFFICES ASSUME NEW q \in Procs, NEW g \in Fds, NodeAt(r, q, g) # NULL,
                      ~Dead(r, NodeAt(r, q, g)), Entry(r, NodeAt(r, q, g)).kind = "reg"
               PROVE  r.fds[q][g].off <= Entry(r, NodeAt(r, q, g)).size
    BY DEF Positions
  <2>1. r.fds = s.fds /\ NodeAt(r, q, g) = NodeAt(s, q, g) /\ r.node = s.node
    BY DEF Written, Rest, NodeAt
  <2>2. PICK n, x : n = NodeAt(s, q, g) /\ x = s.node[n]
    OBVIOUS
  <2>3. n \in DOMAIN s.node /\ x \in DOMAIN s.ent /\ Entry(s, n) = s.ent[x] /\ Entry(r, n) = r.ent[x]
    BY <1>1, <2>1, <2>2 DEF Dead, Entry
  <2>4. ~Dead(s, n) /\ Entry(s, n).kind = "reg" /\ Entry(s, n).size <= Entry(r, n).size
    BY <1>2, <1>3, <2>1, <2>2, <2>3 DEF Dead
  <2>5. s.fds[q][g].off <= Entry(s, n).size /\ s.fds[q][g].off \in Nat
    BY <2>1, <2>2, <2>4 DEF Good, Positions, Typed, Desc
  <2> QED BY <1>3, <2>1, <2>2, <2>3, <2>4, <2>5
<1> QED BY <1>4, <1>5, <1>6, <1>7 DEF Good

\* r is s with the entry x at e.
LEMMA PutWritten ==
    ASSUME NEW s, NEW e \in DOMAIN s.ent, s.ent[e].kind = "reg", NEW x, SameFile(s.ent[e], x),
           NEW r, Rest(s, r), r.node = s.node, r.fault = s.fault, r.ent = Put(s.ent, e, x)
    PROVE  Written(s, r, e) /\ r.ent[e] = x
<1>1. IsFun(r.ent) /\ DOMAIN r.ent = DOMAIN s.ent /\ r.ent[e] = x
      /\ \A z \in DOMAIN s.ent : z # e => r.ent[z] = s.ent[z]
  BY DEF Put, IsFun
<1> QED BY <1>1 DEF Written

\* ktmpfs_write of a file whose data are there.
LEMMA FileWrite ==
    ASSUME NEW s, Good(s), ~s.fault, NEW e \in DOMAIN s.ent, s.ent[e].kind = "reg",
           NEW off \in Nat, NEW len \in Nat, off + len <= MaxSize, off <= s.ent[e].size,
           NEW a, a = (IF off + len > s.ent[e].cap THEN KtmpfsGrow(s, e, off + len) ELSE Ok(s)),
           NEW r, r = IF a.ret = NULL THEN a
                      ELSE [a EXCEPT !.ent = Put(a.ent, e, KvfsStatUpdateSize(a.ent[e], Max({a.ent[e].size, off + len}))),
                                     !.ret = len]
    PROVE  Written(s, r, e) /\ r.ret \in Nat /\ off + r.ret <= r.ent[e].size
<1>1. PICK old, top : old = s.ent[e] /\ top = off + len
  OBVIOUS
<1>2. IsFs(s) /\ EntryOK(old) /\ top \in 0 .. MaxSize
  BY <1>1, GoodParts, FilesAssumption
<1>3. IsEntry(old) /\ old.size \in 0 .. MaxSize /\ old.cap \in Nat /\ old.size <= old.cap /\ old.kind = "reg"
      /\ old.buf \in {"none", "held", "freed"}
  BY <1>1, <1>2 DEF EntryOK
<1>4. CASE top > old.cap /\ ~HasRoom(s)
  <2>1. PICK new : new = [old EXCEPT !.buf = IF old.buf = "held" THEN "freed" ELSE old.buf]
    OBVIOUS
  <2>2. a = [s EXCEPT !.ent = Put(s.ent, e, new), !.ret = NULL]
    BY <1>1, <1>4, <2>1 DEF KtmpfsGrow
  <2>3. SameFile(old, new) /\ new.size = old.size
    BY <1>3, <2>1 DEF SameFile, IsEntry
  <2>4. Written(s, a, e) /\ a.ret = NULL /\ a.ent[e] = new
    <3>1. SameFile(s.ent[e], new)
      BY <1>1, <2>3
    <3>2. PICK F : F = Put(s.ent, e, new)
      OBVIOUS
    <3>3. a = [s EXCEPT !.ent = F, !.ret = NULL]
      BY <2>2, <3>2
    <3>4. Rest(s, a) /\ a.node = s.node /\ a.fault = s.fault /\ a.ent = F /\ a.ret = NULL
      BY ONLY <1>2, <3>3 DEF IsFs, Rest
    <3>5. a.ent = Put(s.ent, e, new)
      BY <3>2, <3>4
    <3>6. Written(s, a, e) /\ a.ent[e] = new
      BY ONLY <3>1, <3>4, <3>5, e \in DOMAIN s.ent, s.ent[e].kind = "reg", PutWritten
    <3> QED BY <3>4, <3>6
  <2> QED BY <1>1, <1>3, <2>3, <2>4 DEF NULL
<1>5. CASE ~(top > old.cap /\ ~HasRoom(s))
  <2>1. PICK mid : mid = IF top > old.cap THEN [old EXCEPT !.cap = top, !.buf = "held"] ELSE old
    OBVIOUS
  <2>2. /\ IsEntry(mid) /\ mid.kind = old.kind /\ mid.name = old.name /\ mid.parent = old.parent
        /\ mid.kids = old.kids /\ mid.nlink = old.nlink /\ mid.buf \in {"none", "held", "freed"}
        /\ mid.size = old.size /\ mid.cap \in Nat /\ top <= mid.cap /\ old.size <= mid.cap
    <3>1. CASE top > old.cap
      <4>1. mid = [old EXCEPT !.cap = top, !.buf = "held"]
        BY <2>1, <3>1
      <4>2. /\ IsEntry(mid) /\ mid.kind = old.kind /\ mid.name = old.name /\ mid.parent = old.parent
            /\ mid.kids = old.kids /\ mid.nlink = old.nlink /\ mid.buf = "held"
            /\ mid.size = old.size /\ mid.cap = top
        BY ONLY <1>3, <4>1 DEF IsEntry
      <4> QED BY <1>2, <1>3, <3>1, <4>2
    <3>2. CASE ~(top > old.cap)
      BY <1>2, <1>3, <2>1, <3>2
    <3> QED BY <3>1, <3>2
  <2>3. a.ret = OK /\ a.ent[e] = mid /\ \E F : a = [s EXCEPT !.ent = F, !.ret = OK] /\ Put(F, e, mid) = F
                                                /\ IsFun(F) /\ DOMAIN F = DOMAIN s.ent
                                                /\ \A z \in DOMAIN s.ent : z # e => F[z] = s.ent[z]
    <3>1. CASE top > old.cap
      <4>1. PICK F : F = Put(s.ent, e, mid)
        OBVIOUS
      <4>2. a = [s EXCEPT !.ent = F, !.ret = OK]
        BY <1>1, <1>5, <2>1, <3>1, <4>1 DEF KtmpfsGrow
      <4>3. IsFun(F) /\ DOMAIN F = DOMAIN s.ent /\ F[e] = mid /\ (\A z \in DOMAIN s.ent : z # e => F[z] = s.ent[z])
            /\ Put(F, e, mid) = F
        BY <4>1 DEF Put, IsFun
      <4>4. a.ret = OK /\ a.ent = F
        BY <1>2, <4>2 DEF IsFs
      <4> QED BY <4>2, <4>3, <4>4
    <3>2. CASE ~(top > old.cap)
      <4>1. PICK F : F = s.ent
        OBVIOUS
      <4>2. a = Ok(s)
        BY <1>1, <3>2
      <4>3. a = [s EXCEPT !.ent = F, !.ret = OK] /\ a.ret = OK /\ a.ent = F
        BY <1>2, <4>1, <4>2 DEF Ok, IsFs
      <4>4. IsFun(F) /\ F[e] = mid
        BY <1>1, <2>1, <3>2, <4>1, GoodParts
      <4>5. Put(F, e, mid) = F
        BY <4>1, <4>4 DEF Put, IsFun
      <4> QED BY <4>1, <4>3, <4>4, <4>5
    <3> QED BY <3>1, <3>2
  <2>4. PICK F : a = [s EXCEPT !.ent = F, !.ret = OK] /\ IsFun(F) /\ DOMAIN F = DOMAIN s.ent
                 /\ \A z \in DOMAIN s.ent : z # e => F[z] = s.ent[z]
    BY <2>3
  <2>5. PICK size : size = Max({old.size, top})
    OBVIOUS
  <2>6. size = IF old.size >= top THEN old.size ELSE top
    BY <1>2, <1>3, <2>5, MaxOfTwo
  <2>7. PICK x : x = KvfsStatUpdateSize(mid, size)
    OBVIOUS
  <2>8. SameFile(old, x) /\ x.size = size
    BY <1>2, <1>3, <2>2, <2>6, <2>7 DEF SameFile, KvfsStatUpdateSize, IsEntry
  <2>9. r = [a EXCEPT !.ent = Put(a.ent, e, x), !.ret = len]
    <3>1. a.ret # NULL
      BY <2>3 DEF OK, NULL
    <3>2. PICK c : c = a.ent[e]
      OBVIOUS
    <3>3. c = mid /\ c.size = old.size
      BY <2>2, <2>3, <3>2
    <3>4. Max({c.size, off + len}) = size
      BY <1>1, <2>5, <3>3
    <3>5. x = KvfsStatUpdateSize(c, Max({c.size, off + len}))
      BY <2>7, <3>3, <3>4
    <3> QED BY <3>1, <3>2, <3>5
  <2>10. a.ent = F
    BY <1>2, <2>4 DEF IsFs
  <2>11. Put(F, e, x) = Put(s.ent, e, x)
    BY <2>4 DEF Put
  <2>12. r = [s EXCEPT !.ent = Put(s.ent, e, x), !.ret = len]
    <3>1. PICK G : G = Put(s.ent, e, x)
      OBVIOUS
    <3>2. r = [a EXCEPT !.ent = G, !.ret = len]
      BY <2>9, <2>10, <2>11, <3>1
    <3>3. r = [s EXCEPT !.ent = G, !.ret = len]
      BY <1>2, <2>4, <3>2 DEF IsFs
    <3> QED BY <3>1, <3>3
  <2>13. Written(s, r, e) /\ r.ret = len /\ r.ent[e] = x
    <3>1. SameFile(s.ent[e], x)
      BY <1>1, <2>8
    <3>2. PICK G : G = Put(s.ent, e, x)
      OBVIOUS
    <3>3. r = [s EXCEPT !.ent = G, !.ret = len]
      BY <2>12, <3>2
    <3>4. Rest(s, r) /\ r.node = s.node /\ r.fault = s.fault /\ r.ent = G /\ r.ret = len
      BY ONLY <1>2, <3>3 DEF IsFs, Rest
    <3>5. r.ent = Put(s.ent, e, x)
      BY <3>2, <3>4
    <3>6. Written(s, r, e) /\ r.ent[e] = x
      <4>1. Rest(s, r) /\ r.node = s.node /\ r.fault = s.fault
        BY <3>4
      <4> QED BY ONLY <3>1, <3>5, <4>1, e \in DOMAIN s.ent, s.ent[e].kind = "reg", PutWritten
    <3> QED BY <3>4, <3>6
  <2> QED BY <1>1, <1>2, <1>3, <2>6, <2>8, <2>13
<1> QED BY <1>4, <1>5

\* kvfs_write at a position in the file.
LEMMA WriteIs ==
    ASSUME NEW s, Good(s), ~s.fault, NEW n, n # NULL, NEW off \in Nat, NEW len \in Nat,
           off + len <= MaxSize, ~Dead(s, n) /\ Entry(s, n).kind = "reg" => off <= Entry(s, n).size,
           NEW r, r = KvfsWrite(s, n, off, len)
    PROVE  /\ r.sh = s.sh
           /\ r.fault => Dead(s, n) \/ Data(s, "freed") # {}
           /\ ~r.fault => /\ ~Dead(s, n) /\ (Same(s, r) \/ Written(s, r, s.node[n]))
                          /\ r.ret \in Nat
                          /\ Entry(s, n).kind = "reg" => off + r.ret <= Entry(r, n).size
<1>1. IsFs(s) /\ s.fault = FALSE
  BY GoodParts
<1>2. CASE Dead(s, n)
  <2>1. r = Fault(s)
    BY <1>1, <1>2 DEF KvfsWrite, Guarded
  <2> QED BY <1>1, <1>2, <2>1 DEF Fault, IsFs
<1>3. CASE ~Dead(s, n)
  <2>1. r = KtmpfsWrite(s, n, off, len)
    BY <1>3, GuardPasses DEF KvfsWrite
  <2>2. PICK e : e = s.node[n]
    OBVIOUS
  <2>3. e \in DOMAIN s.ent /\ n \in DOMAIN s.node
    BY <1>3, <2>2 DEF Dead
  <2>4. s.ent[e].kind \in {"dir", "reg", "chr"} /\ Entry(s, n) = s.ent[e]
    BY <2>2, <2>3, GoodParts DEF EntryOK, Entry
  <2>w. \E w : r = CASE s.ent[e].kind = "chr"  -> KfsVgaWrite(s, len)
                   [] s.ent[e].kind = "dir"  -> Fail(s)
                   [] s.ent[e].kind = "reg" /\ s.ent[e].buf = "freed" -> Fault(s)
                   [] OTHER -> w
    BY <2>1, <2>2 DEF KtmpfsWrite
  <2>5. CASE s.ent[e].kind = "chr"
    <3>1. r = [s EXCEPT !.ret = len]
      BY <2>5, <2>w DEF KfsVgaWrite
    <3>2. Same(s, r) /\ r.sh = s.sh /\ r.ret = len /\ r.fault = FALSE
      BY <1>1, <3>1 DEF Same, IsFs
    <3> QED BY <1>3, <2>4, <2>5, <3>2
  <2>6. CASE s.ent[e].kind = "dir"
    <3>1. r = Fail(s)
      BY <2>6, <2>w
    <3>2. Same(s, r) /\ r.sh = s.sh /\ r.ret = 0 /\ r.fault = FALSE
      BY <1>1, <3>1 DEF Same, IsFs, Fail, NULL
    <3> QED BY <1>3, <2>4, <2>6, <3>2
  <2>7. CASE s.ent[e].kind = "reg" /\ s.ent[e].buf = "freed"
    <3>1. r = Fault(s)
      BY <2>1, <2>2, <2>7 DEF KtmpfsWrite
    <3>2. e \in Data(s, "freed")
      BY <2>3, <2>7 DEF Data
    <3> QED BY <1>1, <3>1, <3>2 DEF Fault, IsFs
  <2>8. CASE s.ent[e].kind = "reg" /\ s.ent[e].buf # "freed"
    <3>1. PICK a : a = IF off + len > s.ent[e].cap THEN KtmpfsGrow(s, e, off + len) ELSE Ok(s)
      OBVIOUS
    <3>2. r = IF a.ret = NULL THEN a
              ELSE [a EXCEPT !.ent = Put(a.ent, e, KvfsStatUpdateSize(a.ent[e], Max({a.ent[e].size, off + len}))),
                             !.ret = len]
      BY <2>1, <2>2, <2>8, <3>1 DEF KtmpfsWrite, Then
    <3>3. off <= s.ent[e].size /\ s.ent[e].kind = "reg"
      BY <1>3, <2>4, <2>8
    <3>4. Written(s, r, e) /\ r.ret \in Nat /\ off + r.ret <= r.ent[e].size
      BY ONLY Good(s), ~s.fault, <2>3, <3>1, <3>2, <3>3, off \in Nat, len \in Nat,
         off + len <= MaxSize, FileWrite
    <3>5. r.sh = s.sh /\ r.fault = FALSE /\ r.node = s.node
      BY <1>1, <3>4 DEF Written, Rest
    <3> QED BY <1>3, <2>2, <3>4, <3>5 DEF Entry
  <2> QED BY <2>4, <2>5, <2>6, <2>7, <2>8
<1> QED BY <1>2, <1>3

LEMMA WrittenClean ==
    ASSUME NEW s, Good(s), Tidy(s), ~s.fault, NEW r, NEW e, Written(s, r, e)
    PROVE  Clean(s, r) /\ \A q \in Procs : Holds(r, q) = Holds(s, q)
<1>1. Good(r)
  BY WrittenGood
<1>2. Rest(s, r) /\ r.node = s.node /\ r.fault = FALSE /\ r.lost = s.lost /\ r.cwd = s.cwd
  BY GoodParts DEF Written, Rest
<1>3. Kept(r) = Kept(s) /\ \A q \in Procs : Holds(r, q) = Holds(s, q)
  BY <1>2, RestKept
<1> QED BY <1>1, <1>2, <1>3 DEF Clean, Tidy

\* kfd_write.
LEMMA WriteForIs ==
    ASSUME NEW s, Good(s), Tidy(s), ~s.fault, NEW p \in Procs, NEW f, NEW len \in Nat,
           KfdGet(s, p, f).off + len <= MaxSize, NEW r, r = KfdWrite(s, p, f, len)
    PROVE  Quiet(s, r) /\ r.sh = s.sh /\ (~r.fault => \A q \in Procs : Holds(r, q) = Holds(s, q))
<1>1. PICK d : d = KfdGet(s, p, f)
  OBVIOUS
<1>2. CASE d.node = NULL \/ len = 0 \/ ~KfdCheckAccess(s, p, f, "write")
  <2>1. r = Fail(s)
    BY <1>1, <1>2 DEF KfdWrite
  <2> QED BY <2>1, FailIs
<1>3. CASE ~(d.node = NULL \/ len = 0 \/ ~KfdCheckAccess(s, p, f, "write"))
  <2>1. PICK n, off : n = d.node /\ off = d.off
    OBVIOUS
  <2>2. PICK a : a = KvfsWrite(s, n, off, len)
    OBVIOUS
  <2>3. r = Moved(a, p, f)
    BY <1>1, <1>3, <2>1, <2>2 DEF KfdWrite
  <2>4. f \in Fds /\ d = s.fds[p][f] /\ NodeAt(s, p, f) = n /\ n # NULL
    BY <1>1, <1>3, <2>1, KfdGetIs DEF NodeAt
  <2>5. d \in Desc /\ off \in Nat /\ off + len <= MaxSize
    BY <1>1, <2>1, <2>4 DEF Good, Typed, Desc
  <2>6. ~Dead(s, n) /\ Entry(s, n).kind = "reg" => off <= Entry(s, n).size
    BY <2>1, <2>4 DEF Good, Positions
  <2>7. /\ a.sh = s.sh
        /\ a.fault => Dead(s, n) \/ Data(s, "freed") # {}
        /\ ~a.fault => /\ ~Dead(s, n) /\ (Same(s, a) \/ Written(s, a, s.node[n]))
                       /\ a.ret \in Nat
                       /\ Entry(s, n).kind = "reg" => off + a.ret <= Entry(a, n).size
    BY ONLY Good(s), ~s.fault, len \in Nat, <2>2, <2>4, <2>5, <2>6, WriteIs
  <2>8. CASE a.fault
    <3>1. r = a
      BY <2>3, <2>8 DEF Moved
    <3>2. Explained(s)
      <4>1. CASE Dead(s, n)
        BY <2>4, <4>1, DeadDesc
      <4>2. CASE Data(s, "freed") # {}
        BY <4>2 DEF Explained
      <4> QED BY <2>7, <2>8, <4>1, <4>2
    <3> QED BY <2>7, <2>8, <3>1, <3>2 DEF Quiet
  <2>9. CASE ~a.fault
    <3>1. Clean(s, a) /\ \A q \in Procs : Holds(a, q) = Holds(s, q)
      BY <2>7, <2>9, SameClean, WrittenClean
    <3>2. a.fds = s.fds /\ a.node = s.node
      BY <2>7, <2>9 DEF Same, Written, Rest
    <3>3. Good(a) /\ Tidy(a) /\ ~a.fault /\ NodeAt(a, p, f) = n /\ NodeAt(a, p, f) # NULL /\ a.ret \in Nat
      BY <2>4, <2>7, <2>9, <3>1, <3>2 DEF Clean, NodeAt
    <3>4. Entry(a, n).kind = "reg" => Entry(s, n).kind = "reg"
      <4>1. CASE Same(s, a)
        BY <4>1 DEF Same, Entry
      <4>2. CASE Written(s, a, s.node[n])
        BY <4>2 DEF Written, Entry
      <4> QED BY <2>7, <2>9, <4>1, <4>2
    <3>5. ~Dead(a, NodeAt(a, p, f)) /\ Entry(a, NodeAt(a, p, f)).kind = "reg"
             => a.fds[p][f].off + a.ret <= Entry(a, NodeAt(a, p, f)).size
      BY <2>1, <2>4, <2>7, <2>9, <3>2, <3>3, <3>4
    <3>6. Clean(a, r) /\ r.sh = a.sh /\ \A q \in Procs : Holds(r, q) = Holds(a, q)
      BY ONLY p \in Procs, <2>3, <2>4, <3>3, <3>5, MovedIs
    <3>7. Clean(s, r) /\ ~r.fault
      BY <3>1, <3>6, CleanTwice DEF Clean
    <3> QED BY <2>7, <3>1, <3>6, <3>7 DEF Quiet
  <2> QED BY <2>8, <2>9
<1> QED BY <1>2, <1>3

----------------------------------------------------------------------------
(* The working directory                                                   *)

\* What a lookup that comes to nothing leaves.
LEMMA LookupFails ==
    ASSUME NEW s, Good(s), Tidy(s), ~s.fault, NEW path, IsPath(path),
           NEW a, a = KvfsLookupOpen(s, path), a.ret = NULL
    PROVE  /\ Quiet(s, a) /\ a.sh = s.sh
           /\ ~a.fault => \A q \in Procs : Holds(a, q) = Holds(s, q)
<1>1. /\ Found(s, a) \/ a = [s EXCEPT !.ret = s.root]
      /\ a.fault /\ ~s.fault => s.cwd # NULL /\ Dead(s, s.cwd)
  BY ONLY Good(s), IsPath(path), a = KvfsLookupOpen(s, path), LookupOpenIs
<1>2. CASE a.fault
  <2>1. Explained(s)
    BY <1>1, <1>2 DEF Explained
  <2>2. a.sh = s.sh
    BY <1>1, GoodParts DEF Found, Rest, IsFs
  <2> QED BY <1>2, <2>1, <2>2 DEF Quiet
<1>3. CASE ~a.fault
  <2>1. Same(s, a) /\ a.sh = s.sh
    <3>1. CASE Found(s, a)
      BY <1>3, <3>1, FoundNothing
    <3>2. CASE a = [s EXCEPT !.ret = s.root]
      BY <3>2, GoodParts DEF Same, IsFs
    <3> QED BY <1>1, <3>1, <3>2
  <2> QED BY <1>3, <2>1, SameClean DEF Quiet
<1> QED BY <1>2, <1>3

\* The working directory moves to a node no descriptor has.
LEMMA RehomeGood ==
    ASSUME NEW a, Good(a), NEW x \in DOMAIN a.node, x \notin DescNodes(a),
           NEW b, IsFs(b), b.ent = a.ent, b.node = a.node, b.root = a.root,
           b.fds = a.fds, b.lost = a.lost, b.heap = a.heap, b.fault = a.fault, b.cwd = x
    PROVE  Good(b)
<1>1. x \in Nat /\ x # NULL
  BY GoodParts
<1>2. Typed(b)
  BY <1>1 DEF Good, Typed
<1>3. \A p \in Procs, f \in Fds : NodeAt(a, p, f) # x
  BY <1>1, InDescNodes
<1>4. Handles(b)
  BY <1>1, <1>3 DEF Good, Handles, NodeAt
<1>5. Positions(b)
  BY DEF Good, Positions, NodeAt, Dead, Entry
<1> QED BY <1>2, <1>4, <1>5 DEF Good

LEMMA ChdirIs ==
    ASSUME NEW s, Good(s), Tidy(s), ~s.fault, NEW path, IsPath(path), NEW r, r = KvfsChdir(s, path)
    PROVE  /\ Outcome(s, r) /\ r.sh = s.sh
           /\ ~r.fault => \A q \in Procs : Holds(r, q) = Holds(s, q)
<1>1. PICK a : a = KvfsLookupOpen(s, path)
  OBVIOUS
<1>2. r = IF a.ret = NULL THEN a
          ELSE IF Entry(a, a.ret).kind # "dir" THEN Fail(KvfsClose(a, a.ret))
          ELSE Ok([KvfsClose(a, a.cwd) EXCEPT !.cwd = a.ret])
  BY <1>1 DEF KvfsChdir, ChdirTo, Then
<1>3. Found(s, a) \/ a = [s EXCEPT !.ret = s.root]
  BY <1>1, LookupOpenIs
<1>4. IsFs(s) /\ s.fault = FALSE
  BY GoodParts
<1>5. a = [s EXCEPT !.ret = s.root] => Same(s, a) /\ a.sh = s.sh /\ a.ret = s.root
  BY <1>4 DEF Same, IsFs
<1>6. CASE a.ret = NULL
  BY <1>1, <1>2, <1>6, LookupFails, QuietOutcome
<1>7. CASE a.ret # NULL /\ Entry(a, a.ret).kind # "dir"
  <2>1. PICK b : b = KvfsClose(a, a.ret)
    OBVIOUS
  <2>2. Same(s, b) /\ b.sh = s.sh
    <3>1. CASE Found(s, a)
      BY <1>7, <2>1, <3>1, FoundBack
    <3>2. CASE a = [s EXCEPT !.ret = s.root]
      BY <1>5, <2>1, <3>2 DEF KvfsClose, Same
    <3> QED BY <1>3, <3>1, <3>2
  <2>3. r = Fail(b)
    BY <1>2, <1>7, <2>1
  <2>4. Same(s, r) /\ r.sh = s.sh /\ ~r.fault
    BY <1>4, <2>2, <2>3 DEF Fail, Same, IsFs
  <2>5. Quiet(s, r) /\ \A q \in Procs : Holds(r, q) = Holds(s, q)
    BY <2>4, SameClean DEF Quiet
  <2> QED BY <2>4, <2>5, QuietOutcome
<1>8. CASE a.ret # NULL /\ ~(Entry(a, a.ret).kind # "dir")
  <2>1. PICK x : x = a.ret
    OBVIOUS
  <2>2. Good(a) /\ IsFs(a) /\ a.fault = FALSE /\ Rest(s, a) /\ a.ent = s.ent
    <3>1. CASE Found(s, a)
      BY <1>8, <3>1, FoundGood, GoodParts DEF Found
    <3>2. CASE a = [s EXCEPT !.ret = s.root]
      BY <1>4, <1>5, <3>2, SameGood, GoodParts DEF Same, Rest
    <3> QED BY <1>3, <3>1, <3>2
  <2>3. /\ x \in DOMAIN a.node /\ DOMAIN a.node = DOMAIN s.node \cup {x}
        /\ x # NULL /\ (x = s.root \/ x \in New(s))
    <3>1. CASE Found(s, a)
      BY <1>8, <2>1, <3>1 DEF Found, NodeFor, New, Put
    <3>2. CASE a = [s EXCEPT !.ret = s.root]
      BY <1>5, <1>8, <2>1, <3>2, RootAlive DEF Same
    <3> QED BY <1>3, <3>1, <3>2
  <2>4. x \notin DescNodes(a)
    <3>1. CASE x = s.root
      <4>1. x \notin DescNodes(s)
        BY <2>3, <3>1, InDescNodes DEF Good, Handles
      <4> QED BY <2>2, <4>1, RestKept DEF Rest
    <3>2. CASE x \in New(s)
      BY <2>2, <3>2, NewNotKept, RestKept DEF Kept
    <3> QED BY <2>3, <3>1, <3>2
  <2>5. PICK b : b = [a EXCEPT !.cwd = x]
    OBVIOUS
  <2>6. /\ IsFs(b) /\ b.ent = a.ent /\ b.node = a.node /\ b.root = a.root
        /\ b.fds = a.fds /\ b.lost = a.lost /\ b.heap = a.heap /\ b.fault = a.fault /\ b.cwd = x
        /\ b.sh = a.sh
    BY <2>2, <2>5 DEF IsFs
  <2>7. Good(b)
    BY ONLY <2>2, <2>3, <2>4, <2>6, RehomeGood
  <2>8. PICK c : c = KvfsClose(a, a.cwd)
    OBVIOUS
  <2>9. r = Ok([c EXCEPT !.cwd = x])
    BY <1>2, <1>8, <2>1, <2>8
  <2>10. a.cwd = s.cwd /\ a.root = s.root /\ a.fds = s.fds /\ a.sh = s.sh /\ a.lost = s.lost
    BY <2>2 DEF Rest
  <2>11. CASE s.cwd \in {NULL, s.root}
    <3>1. c = a
      BY <2>8, <2>10, <2>11 DEF KvfsClose
    <3>2. Same(b, r) /\ r.sh = s.sh
      BY <2>2, <2>5, <2>9, <2>10, <3>1 DEF Ok, Same, IsFs
    <3>3. Good(r)
      BY <2>7, <3>2, SameGood
    <3>4. DescNodes(r) = DescNodes(s) /\ \A q \in Procs : Holds(r, q) = Holds(s, q)
      BY <2>6, <2>10, <3>2 DEF Same, DescNodes, Descs, Holds, NodeAt
    <3>5. DOMAIN r.node = DOMAIN s.node \cup {x} /\ r.root = s.root /\ r.cwd = x
          /\ r.lost = s.lost /\ r.fault = FALSE
      BY <2>2, <2>3, <2>6, <2>10, <3>2 DEF Same
    <3>6. Tidy(r)
      <4>1. NULL \notin DOMAIN s.node
        BY GoodParts
      <4> QED BY <2>11, <3>4, <3>5, <4>1 DEF Tidy, Kept
    <3>7. CwdKept(s, r) /\ Losses(s, r)
      BY <3>5, <3>6 DEF CwdKept, Losses
    <3> QED BY <3>2, <3>3, <3>4, <3>5, <3>7 DEF Outcome
  <2>12. CASE s.cwd \notin {NULL, s.root} /\ s.cwd \notin DOMAIN a.node
    <3>1. c = Fault(a)
      BY <2>8, <2>10, <2>12 DEF KvfsClose
    <3>2. r.fault = TRUE /\ r.sh = s.sh
      BY <2>2, <2>9, <2>10, <3>1 DEF Fault, Ok, IsFs
    <3>3. Explained(s)
      BY <2>3, <2>12 DEF Explained, Dead
    <3> QED BY <3>2, <3>3 DEF Outcome
  <2>13. CASE s.cwd \notin {NULL, s.root} /\ s.cwd \in DOMAIN a.node
    <3>1. c = [a EXCEPT !.node = Restrict(a.node, DOMAIN a.node \ {s.cwd})]
      BY <2>8, <2>10, <2>13 DEF KvfsClose
    <3>2. Without(b, r, s.cwd) /\ r.sh = s.sh
      BY <2>2, <2>5, <2>9, <2>10, <3>1 DEF Ok, Without, IsFs
    <3>3. x # s.cwd
      BY <2>3, <2>13 DEF New
    <3>4. s.cwd # b.root /\ s.cwd \notin DescNodes(b)
      <4>2. s.cwd \notin DescNodes(s)
        BY <2>13, InDescNodes DEF Good, Handles
      <4>3. DescNodes(b) = DescNodes(s)
        BY <2>6, <2>10 DEF DescNodes, Descs
      <4> QED BY <2>6, <2>10, <2>13, <4>2, <4>3
    <3>5. Good(r)
      BY <2>7, <3>2, <3>4, WithoutGood
    <3>6. DescNodes(r) = DescNodes(s) /\ \A q \in Procs : Holds(r, q) = Holds(s, q)
      BY <2>6, <2>10, <3>2 DEF Without, DescNodes, Descs, Holds, NodeAt
    <3>7. DOMAIN r.node = (DOMAIN s.node \cup {x}) \ {s.cwd} /\ r.root = s.root /\ r.cwd = x
          /\ r.lost = s.lost /\ r.fault = FALSE
      BY <2>2, <2>3, <2>6, <2>10, <3>2 DEF Without, Restrict
    <3>8. Tidy(r)
      BY <3>6, <3>7 DEF Tidy, Kept
    <3>9. CwdKept(s, r) /\ Losses(s, r)
      BY <3>3, <3>7, <3>8 DEF CwdKept, Losses
    <3> QED BY <3>2, <3>5, <3>6, <3>7, <3>9 DEF Outcome
  <2> QED BY <2>11, <2>12, <2>13
<1> QED BY <1>6, <1>7, <1>8

----------------------------------------------------------------------------
(* Removing                                                                *)

\* The entries F are E without the leaf e of p.
Cut(E, F, p, e) ==
    /\ e \in DOMAIN E /\ E[e].kids = {} /\ E[e].parent = p /\ p # NULL
    /\ IsFun(F) /\ DOMAIN F = DOMAIN E \ {e}
    /\ \A x \in DOMAIN E \ {e} : x # p => F[x] = E[x]
    /\ IsEntry(F[p]) /\ F[p].kids = E[p].kids \ {e} /\ F[p].nlink = E[p].nlink - 1
    /\ F[p].kind = E[p].kind /\ F[p].name = E[p].name /\ F[p].parent = E[p].parent
    /\ F[p].size = E[p].size /\ F[p].cap = E[p].cap /\ F[p].buf = E[p].buf

LEMMA CutForest ==
    ASSUME NEW E, Forest(E), NEW F, NEW p, NEW e, Cut(E, F, p, e)
    PROVE  /\ Forest(F) /\ p \in DOMAIN F
           /\ \A x \in DOMAIN F : /\ F[x].kind = E[x].kind /\ F[x].parent = E[x].parent
                                  /\ F[x].size = E[x].size /\ F[x].name = E[x].name
                                  /\ F[x].kids = E[x].kids \ {e} /\ F[x].buf = E[x].buf
<1>1. /\ IsTable(E) /\ (\A x \in DOMAIN E : EntryOK(E[x]))
      /\ LinkedUp(E) /\ LinkedDown(E) /\ NamesApart(E)
  BY DEF Forest
<1>2. /\ e \in DOMAIN E /\ E[e].kids = {} /\ E[e].parent = p /\ p # NULL
      /\ IsFun(F) /\ DOMAIN F = DOMAIN E \ {e}
      /\ \A x \in DOMAIN E \ {e} : x # p => F[x] = E[x]
  BY DEF Cut
<1>3. p \in DOMAIN E /\ E[p].kind = "dir" /\ e \in E[p].kids /\ p # e /\ p \in DOMAIN F
  BY <1>1, <1>2 DEF LinkedUp
<1>4. \A x \in DOMAIN E : x # p => e \notin E[x].kids
  BY <1>1, <1>2 DEF LinkedDown
<1>5. \A x \in DOMAIN F : /\ F[x].kind = E[x].kind /\ F[x].parent = E[x].parent
                          /\ F[x].size = E[x].size /\ F[x].name = E[x].name
                          /\ F[x].kids = E[x].kids \ {e} /\ F[x].buf = E[x].buf
  <2> SUFFICES ASSUME NEW x \in DOMAIN F
               PROVE  /\ F[x].kind = E[x].kind /\ F[x].parent = E[x].parent
                      /\ F[x].size = E[x].size /\ F[x].name = E[x].name
                      /\ F[x].kids = E[x].kids \ {e} /\ F[x].buf = E[x].buf
    OBVIOUS
  <2>1. CASE x = p
    BY <2>1 DEF Cut
  <2>2. CASE x # p
    <3>1. F[x] = E[x] /\ e \notin E[x].kids
      BY <1>2, <1>4, <2>2
    <3> QED BY <3>1
  <2> QED BY <2>1, <2>2
<1>6. IsTable(F)
  <2>1. IsFiniteSet(DOMAIN E \ {e})
    BY <1>1, FS_Difference DEF IsTable
  <2> QED BY <1>1, <1>2, <2>1 DEF IsTable
<1>7. EntryOK(F[p])
  <2>1. EntryOK(E[p])
    BY <1>1, <1>3
  <2>2. IsFiniteSet(E[p].kids) /\ E[p].nlink = 2 + Cardinality(E[p].kids)
    BY <1>3, <2>1 DEF EntryOK
  <2>3. IsFiniteSet(E[p].kids \ {e}) /\ Cardinality(E[p].kids \ {e}) = Cardinality(E[p].kids) - 1
    BY <1>3, <2>2, FS_RemoveElement
  <2>4. Cardinality(E[p].kids) \in Nat /\ Cardinality(E[p].kids \ {e}) \in Nat
    BY <2>2, <2>3, FS_CardinalityType
  <2>5. F[p].nlink = 2 + Cardinality(F[p].kids) /\ F[p].nlink \in Nat /\ IsFiniteSet(F[p].kids)
    BY <2>2, <2>3, <2>4 DEF Cut
  <2> QED BY <1>3, <2>1, <2>5 DEF EntryOK, Cut
<1>8. \A x \in DOMAIN F : EntryOK(F[x])
  BY <1>1, <1>2, <1>7
<1>9. LinkedUp(F)
  <2> SUFFICES ASSUME NEW x \in DOMAIN F, F[x].parent # NULL
               PROVE  /\ F[x].parent \in DOMAIN F /\ F[F[x].parent].kind = "dir"
                      /\ x \in F[F[x].parent].kids
    BY DEF LinkedUp
  <2>1. PICK u : u = E[x].parent
    OBVIOUS
  <2>2. x \in DOMAIN E /\ x # e /\ F[x].parent = u
    BY <1>2, <1>5, <2>1
  <2>3. u \in DOMAIN E /\ E[u].kind = "dir" /\ x \in E[u].kids
    BY <1>1, <2>1, <2>2 DEF LinkedUp
  <2>4. u # e
    BY <1>2, <2>3
  <2> QED BY <1>2, <1>5, <2>2, <2>3, <2>4
<1>10. LinkedDown(F)
  <2> SUFFICES ASSUME NEW d \in DOMAIN F, NEW k \in F[d].kids
               PROVE  k \in DOMAIN F /\ F[k].parent = d
    BY DEF LinkedDown
  <2>1. d \in DOMAIN E /\ k \in E[d].kids /\ k # e
    BY <1>2, <1>5
  <2>2. k \in DOMAIN E /\ E[k].parent = d
    BY <1>1, <2>1 DEF LinkedDown
  <2> QED BY <1>2, <1>5, <2>1, <2>2
<1>11. NamesApart(F)
  <2> SUFFICES ASSUME NEW d \in DOMAIN F, NEW j \in F[d].kids, NEW k \in F[d].kids,
                      F[j].name = F[k].name
               PROVE  j = k
    BY DEF NamesApart
  <2>1. d \in DOMAIN E /\ j \in E[d].kids /\ k \in E[d].kids /\ j # e /\ k # e
    BY <1>2, <1>5
  <2>2. j \in DOMAIN F /\ k \in DOMAIN F
    BY <1>1, <1>2, <2>1 DEF LinkedDown
  <2>3. E[j].name = E[k].name
    BY <1>5, <2>2
  <2> QED BY <1>1, <2>1, <2>3 DEF NamesApart
<1> QED BY <1>3, <1>5, <1>6, <1>8, <1>9, <1>10, <1>11 DEF Forest

\* r is s with the entry e removed and its data lost.
Removed(s, r, e) ==
    /\ IsFs(r) /\ r.node = s.node /\ r.root = s.root /\ r.cwd = s.cwd
    /\ r.fds = s.fds /\ r.heap = s.heap /\ r.fault = s.fault
    /\ r.lost = (IF s.ent[e].buf = "held" THEN s.lost + 1 ELSE s.lost)
    /\ Cut(s.ent, r.ent, s.ent[e].parent, e)

LEMMA RemovedGood ==
    ASSUME NEW s, Good(s), NEW r, NEW e, Removed(s, r, e)
    PROVE  Good(r) /\ \A n : ~Dead(r, n) => ~Dead(s, n)
<1>1. PICK p : p = s.ent[e].parent
  OBVIOUS
<1>2. /\ Forest(r.ent)
      /\ \A x \in DOMAIN r.ent : /\ r.ent[x].kind = s.ent[x].kind /\ r.ent[x].parent = s.ent[x].parent
                                 /\ r.ent[x].size = s.ent[x].size
  <2>1. Cut(s.ent, r.ent, p, e) /\ Forest(s.ent)
    BY <1>1 DEF Removed, Good
  <2> QED BY ONLY <2>1, CutForest
<1>3. DOMAIN r.ent = DOMAIN s.ent \ {e} /\ s.ent[e].parent # NULL
  BY DEF Removed, Cut
<1>4. Typed(r)
  BY DEF Good, Typed, Removed
<1>5. Handles(r)
  <2>1. r.root # NULL => /\ r.root \in DOMAIN r.node /\ r.node[r.root] \in DOMAIN r.ent
                         /\ r.ent[r.node[r.root]].parent = NULL
    BY <1>2, <1>3 DEF Good, Handles, Removed
  <2> QED BY <2>1 DEF Good, Handles, Removed, NodeAt
<1>6. \A n : ~Dead(r, n) => ~Dead(s, n) /\ Entry(r, n).kind = Entry(s, n).kind /\ Entry(r, n).size = Entry(s, n).size
  BY <1>2, <1>3 DEF Dead, Entry, Removed
<1>7. Positions(r)
  BY <1>6 DEF Good, Positions, NodeAt, Removed
<1> QED BY <1>2, <1>4, <1>5, <1>6, <1>7 DEF Good

\* ktmpfs_remove_from_parent_ll of a leaf.
LEMMA TmpfsRemoveIs ==
    ASSUME NEW s, Good(s), NEW e \in DOMAIN s.ent, s.ent[e].kids = {}, s.ent[e].parent # NULL,
           NEW r, r = KtmpfsRemoveFromParentLl(s, s.ent[e].parent, e)
    PROVE  Removed(s, r, e) /\ r.ret # NULL /\ r.sh = s.sh
<1>1. PICK p : p = s.ent[e].parent
  OBVIOUS
<1>2. p \in DOMAIN s.ent /\ s.ent[p].kind = "dir" /\ e \in s.ent[p].kids /\ p # e /\ p # NULL
  BY <1>1, GoodParts DEF LinkedUp
<1>3. IsFs(s) /\ EntryOK(s.ent[p])
  BY <1>2, GoodParts
<1>4. IsEntry(s.ent[p]) /\ s.ent[p].nlink \in Nat /\ s.ent[p].nlink > 0
  <2>1. IsFiniteSet(s.ent[p].kids) /\ s.ent[p].nlink = 2 + Cardinality(s.ent[p].kids)
    BY <1>2, <1>3 DEF EntryOK
  <2>2. Cardinality(s.ent[p].kids) \in Nat
    BY <2>1, FS_CardinalityType
  <2> QED BY <1>3, <2>1, <2>2 DEF EntryOK
<1>5. PICK mid : mid = [s.ent[p] EXCEPT !.kids = s.ent[p].kids \ {e}]
  OBVIOUS
<1>6. PICK up : up = KvfsStatDecNlink(mid)
  OBVIOUS
<1>7. mid.nlink = s.ent[p].nlink /\ mid.nlink > 0 /\ mid.kids = s.ent[p].kids \ {e} /\ IsEntry(mid)
  BY <1>4, <1>5 DEF IsEntry
<1>8. up = [mid EXCEPT !.nlink = mid.nlink - 1]
  BY <1>6, <1>7 DEF KvfsStatDecNlink
<1>9. /\ IsEntry(up) /\ up.kids = s.ent[p].kids \ {e} /\ up.nlink = s.ent[p].nlink - 1
      /\ up.kind = s.ent[p].kind /\ up.name = s.ent[p].name /\ up.parent = s.ent[p].parent
      /\ up.size = s.ent[p].size /\ up.cap = s.ent[p].cap /\ up.buf = s.ent[p].buf
  BY <1>4, <1>5, <1>8 DEF IsEntry
<1>10. PICK F : F = Restrict(Put(s.ent, p, up), DOMAIN s.ent \ {e})
  OBVIOUS
<1>11. IsFun(F) /\ DOMAIN F = DOMAIN s.ent \ {e} /\ F[p] = up
       /\ \A x \in DOMAIN s.ent \ {e} : x # p => F[x] = s.ent[x]
  BY <1>2, <1>10 DEF Put, Restrict, IsFun
<1>12. PICK l : l = IF s.ent[e].buf = "held" THEN s.lost + 1 ELSE s.lost
  OBVIOUS
<1>13. r = Ok([s EXCEPT !.ent = F, !.lost = l])
  BY <1>1, <1>5, <1>6, <1>10, <1>12 DEF KtmpfsRemoveFromParentLl
<1>14. /\ IsFs(r) /\ r.node = s.node /\ r.root = s.root /\ r.cwd = s.cwd
       /\ r.fds = s.fds /\ r.heap = s.heap /\ r.fault = s.fault /\ r.lost = l /\ r.ent = F
       /\ r.ret = OK /\ r.sh = s.sh
  BY <1>3, <1>13 DEF Ok, IsFs
<1>15. Cut(s.ent, F, p, e)
  BY <1>1, <1>2, <1>9, <1>11 DEF Cut
<1> QED BY <1>1, <1>12, <1>14, <1>15 DEF Removed, OK, NULL

\* What a lookup that finds something leaves: the root, or a node made for it.
LEMMA LookupWorks ==
    ASSUME NEW s, Good(s), ~s.fault, NEW path, IsPath(path),
           NEW a, a = KvfsLookupOpen(s, path), a.ret # NULL
    PROVE  /\ Good(a) /\ IsFs(a) /\ a.fault = FALSE /\ Rest(s, a) /\ a.ent = s.ent
           /\ a.ret \in DOMAIN a.node /\ ~Dead(a, a.ret)
           /\ \/ Same(s, a) /\ a.sh = s.sh /\ a.ret = s.root
              \/ Found(s, a) /\ a.ret \in New(s) /\ a.node = Put(s.node, a.ret, a.node[a.ret])
<1>1. Found(s, a) \/ a = [s EXCEPT !.ret = s.root]
  BY LookupOpenIs
<1>2. IsFs(s) /\ s.fault = FALSE
  BY GoodParts
<1>3. CASE Found(s, a)
  <2>1. Good(a) /\ ~Dead(a, a.ret) /\ IsFs(a)
    BY <1>3, FoundGood, FoundAlive, GoodParts
  <2>2. \E e \in DOMAIN s.ent : NodeFor(s, a, e)
    BY <1>3 DEF Found
  <2>3. a.ret \in New(s) /\ a.node = Put(s.node, a.ret, a.node[a.ret]) /\ a.ret \in DOMAIN a.node
    BY <2>2 DEF NodeFor, Put
  <2>4. a.fault = FALSE /\ Rest(s, a) /\ a.ent = s.ent
    BY <1>2, <1>3 DEF Found
  <2> QED BY <1>3, <2>1, <2>3, <2>4
<1>4. CASE a = [s EXCEPT !.ret = s.root]
  <2>1. Same(s, a) /\ a.sh = s.sh /\ a.ret = s.root
    BY <1>2, <1>4 DEF Same, IsFs
  <2>2. Good(a) /\ IsFs(a)
    BY <2>1, SameGood, GoodParts
  <2>3. a.ret \in DOMAIN a.node /\ ~Dead(a, a.ret)
    BY <2>1, RootAlive DEF Same, Dead
  <2>4. a.fault = FALSE /\ Rest(s, a) /\ a.ent = s.ent
    BY <1>2, <2>1, <2>2 DEF Same, Rest
  <2> QED BY <2>1, <2>2, <2>3, <2>4
<1> QED BY <1>1, <1>3, <1>4

\* A removal that is refused leaves the node it looked up.
LEMMA RefusalIs ==
    ASSUME NEW s, Good(s), Tidy(s), ~s.fault, NEW path \in Paths, IsPath(path),
           NEW a, a = KvfsLookupOpen(s, path), a.ret # NULL, NEW r, r = Fail(a),
           r = KvfsRmdir(s, path) \/ r = KvfsUnlink(s, path)
    PROVE  /\ Outcome(s, r) /\ r.sh = s.sh
           /\ \A q \in Procs : Holds(r, q) = Holds(s, q)
<1>1. /\ Good(a) /\ IsFs(a) /\ a.fault = FALSE /\ Rest(s, a) /\ a.ent = s.ent
      /\ \/ Same(s, a) /\ a.sh = s.sh /\ a.ret = s.root
         \/ Found(s, a) /\ a.ret \in New(s) /\ a.node = Put(s.node, a.ret, a.node[a.ret])
  BY LookupWorks
<1>2. /\ IsFs(r) /\ r.ent = a.ent /\ r.node = a.node /\ r.root = a.root /\ r.cwd = a.cwd
      /\ r.fds = a.fds /\ r.sh = a.sh /\ r.lost = a.lost /\ r.heap = a.heap
      /\ r.fault = FALSE /\ r.ret = NULL
  BY <1>1 DEF Fail, IsFs
<1>3. Rest(s, r) /\ r.ent = s.ent /\ r.sh = s.sh
  BY <1>1, <1>2 DEF Rest
<1>4. CASE Same(s, a) /\ a.sh = s.sh /\ a.ret = s.root
  <2>1. Same(s, r)
    BY <1>1, <1>2, <1>4 DEF Same
  <2> QED BY <1>2, <1>3, <2>1, SameClean, QuietOutcome DEF Quiet
<1>5. CASE a.ret \in New(s) /\ a.node = Put(s.node, a.ret, a.node[a.ret])
  <2>1. PICK x, e : x = a.ret /\ e = a.node[a.ret]
    OBVIOUS
  <2>2. x \in New(s) /\ r.node = Put(s.node, x, e)
    BY <1>2, <1>5, <2>1
  <2>3. Good(r)
    <3>1. Same(a, r)
      BY <1>1, <1>2 DEF Same
    <3> QED BY <1>1, <3>1, SameGood
  <2>4. DOMAIN r.node = DOMAIN s.node \cup {x}
    BY <2>2 DEF Put
  <2>5. x \notin Kept(s) /\ Kept(r) = Kept(s) /\ \A q \in Procs : Holds(r, q) = Holds(s, q)
    BY <1>3, <2>2, NewNotKept, RestKept
  <2>6. DOMAIN r.node \ Kept(r) = {x}
    BY <2>4, <2>5 DEF Tidy
  <2>7. RefusedIn(s, path)
    <3>1. a.ret \notin {NULL, s.root}
      BY <2>1, <2>5 DEF Kept
    <3> QED BY <1>2, <3>1 DEF RefusedIn
  <2>8. Excused(s, r, x)
    BY <1>3, <2>2, <2>7 DEF Excused
  <2>9. CwdKept(s, r)
    BY <2>4 DEF CwdKept
  <2>10. r.lost = s.lost
    BY <1>3 DEF Rest
  <2>11. Losses(s, r)
    BY <2>6, <2>8, <2>10 DEF Losses
  <2> QED BY <1>2, <1>3, <2>3, <2>5, <2>9, <2>11 DEF Outcome
<1> QED BY <1>1, <1>4, <1>5

\* kvfs_unlink and kvfs_rmdir.
LEMMA RemoveIs ==
    ASSUME NEW s, Good(s), Tidy(s), ~s.fault, NEW path \in Paths, IsPath(path),
           NEW kind \in {"reg", "dir"}, NEW r, r = RemoveNode(s, path, kind)
    PROVE  /\ Outcome(s, r) /\ r.sh = s.sh
           /\ ~r.fault => \A q \in Procs : Holds(r, q) = Holds(s, q)
<1>1. PICK a : a = KvfsLookupOpen(s, path)
  OBVIOUS
<1>2. PICK b : b = IF kind = "dir" THEN KtmpfsRmdir(a, a.ret) ELSE KtmpfsUnlink(a, a.ret)
  OBVIOUS
<1>3. r = IF a.ret = NULL THEN a
          ELSE IF Entry(a, a.ret).kind # kind THEN Fail(a)
          ELSE IF b.ret = NULL THEN b ELSE Ok(KvfsClose(b, a.ret))
  BY <1>1, <1>2, MayAll DEF RemoveNode, RemoveFound, Then
<1>4. r = KvfsRmdir(s, path) \/ r = KvfsUnlink(s, path)
  BY DEF KvfsRmdir, KvfsUnlink
<1>5. CASE a.ret = NULL
  BY <1>1, <1>3, <1>5, LookupFails, QuietOutcome
<1>6. CASE a.ret # NULL
  <2>1. /\ Good(a) /\ IsFs(a) /\ a.fault = FALSE /\ Rest(s, a) /\ a.ent = s.ent
        /\ a.ret \in DOMAIN a.node /\ ~Dead(a, a.ret)
        /\ \/ Same(s, a) /\ a.sh = s.sh /\ a.ret = s.root
           \/ Found(s, a) /\ a.ret \in New(s) /\ a.node = Put(s.node, a.ret, a.node[a.ret])
    BY <1>1, <1>6, LookupWorks
  <2>2. PICK x, e : x = a.ret /\ e = a.node[x]
    OBVIOUS
  <2>3. e \in DOMAIN a.ent /\ Entry(a, x) = a.ent[e] /\ EntryOK(a.ent[e])
    BY <2>1, <2>2, GoodParts DEF Dead, Entry
  <2>4. CASE r = Fail(a)
    BY <1>1, <1>4, <1>6, <2>4, RefusalIs
  <2>5. CASE r # Fail(a)
    <3>1. a.ent[e].kind = kind
      BY <1>3, <1>6, <2>2, <2>3, <2>5
    <3>2. a.ent[e].parent # NULL /\ a.ent[e].kids = {} /\ b = KtmpfsRemoveFromParentLl(a, a.ent[e].parent, e)
      <4>1. b = Fail(a) => r = Fail(a)
        BY <1>3, <1>6, <2>1, <2>2, <2>3, <3>1 DEF Fail, IsFs
      <4>2. CASE kind = "dir"
        BY <1>2, <2>2, <2>3, <2>5, <4>1, <4>2 DEF KtmpfsRmdir
      <4>3. CASE kind = "reg"
        <5>1. a.ent[e].kids = {}
          BY <2>3, <3>1, <4>3 DEF EntryOK
        <5> QED BY <1>2, <2>2, <2>3, <2>5, <4>1, <4>3, <5>1 DEF KtmpfsUnlink
      <4> QED BY <4>2, <4>3
    <3>3. Removed(a, b, e) /\ b.ret # NULL /\ b.sh = a.sh
      BY ONLY <2>1, <2>3, <3>2, TmpfsRemoveIs
    <3>4. PICK c : c = KvfsClose(b, x)
      OBVIOUS
    <3>5. r = Ok(c)
      BY <1>3, <1>6, <2>2, <2>3, <3>1, <3>3, <3>4
    <3>6. x # s.root /\ Found(s, a) /\ x \in New(s) /\ a.node = Put(s.node, x, e)
      <4>1. x # s.root
        <5>1. a.root = s.root
          BY <2>1 DEF Rest
        <5> QED BY <1>6, <2>1, <2>2, <3>2, <5>1 DEF Good, Handles
      <4> QED BY <2>1, <2>2, <4>1
    <3>7. Good(b) /\ IsFs(b)
      BY <2>1, <3>3, RemovedGood, GoodParts
    <3>8. /\ b.node = a.node /\ b.root = s.root /\ b.cwd = s.cwd
          /\ b.fds = s.fds /\ b.heap = s.heap /\ b.fault = FALSE /\ b.sh = s.sh
          /\ b.lost = (IF s.ent[e].buf = "held" THEN s.lost + 1 ELSE s.lost)
          /\ DOMAIN b.ent = DOMAIN s.ent \ {e}
      BY <2>1, <3>3 DEF Removed, Rest, Cut
    <3>9. x \in DOMAIN b.node /\ x \notin {NULL, b.root}
      BY <1>6, <2>1, <2>2, <3>6, <3>8
    <3>10. /\ Rest(b, c) /\ c.ent = b.ent /\ c.fault = b.fault
           /\ c.node = Restrict(b.node, DOMAIN b.node \ {x})
      BY ONLY <3>4, <3>7, <3>9, CloseIs
    <3>11. Without(b, r, x) /\ r.sh = s.sh
      BY <3>5, <3>8, <3>10 DEF Ok, Rest, Without, IsFs
    <3>12. x \notin Kept(s) /\ DescNodes(b) = DescNodes(s)
      BY <3>6, <3>8, NewNotKept DEF DescNodes, Descs
    <3>13. Good(r)
      <4>1. x # b.root /\ x \notin DescNodes(b)
        BY <3>8, <3>12 DEF Kept
      <4> QED BY ONLY <3>7, <3>11, <4>1, WithoutGood
    <3>14. r.node = s.node
      <4>1. IsFun(s.node) /\ x \notin DOMAIN s.node
        BY <3>6, GoodParts DEF New
      <4>2. Restrict(a.node, DOMAIN a.node \ {x}) = s.node
        BY ONLY <3>6, <4>1, PutAndBack
      <4> QED BY <3>8, <3>11, <4>2 DEF Without
    <3>15. /\ r.root = s.root /\ r.cwd = s.cwd /\ r.fds = s.fds /\ r.fault = FALSE
           /\ r.lost = (IF s.ent[e].buf = "held" THEN s.lost + 1 ELSE s.lost)
           /\ DOMAIN r.ent = DOMAIN s.ent \ {e}
      BY <3>8, <3>11 DEF Without
    <3>16. Tidy(r) /\ \A q \in Procs : Holds(r, q) = Holds(s, q)
      BY <3>14, <3>15 DEF Tidy, Kept, DescNodes, Descs, Holds, NodeAt
    <3>17. Losses(s, r)
      <4>1. s.ent[e].buf = "held" => e \in Data(s, "held") \ DOMAIN r.ent
        BY <2>1, <2>3, <3>15 DEF Data
      <4> QED BY <3>15, <3>16, <4>1 DEF Losses
    <3>18. CwdKept(s, r)
      BY <3>14 DEF CwdKept
    <3> QED BY <3>11, <3>13, <3>15, <3>16, <3>17, <3>18 DEF Outcome
  <2> QED BY <2>4, <2>5
<1> QED BY <1>5, <1>6

----------------------------------------------------------------------------
(* Whole calls                                                             *)

\* The descriptor the shell's command works with; it has no other.
Busy(s) == IF s.sh.cmd = "prompt" THEN {} ELSE {s.sh.fd}
Orderly(s) == Holds(s, "shell") \subseteq Busy(s)

\* What the system calls and the commands promise of the state r they leave.
Serves(s, r) ==
    Outcome(s, r) /\ (r.fault \/ (ShellOK(r) /\ (Orderly(s) => Orderly(r))))

LEMMA UserServes ==
    ASSUME NEW s, ShellOK(s), NEW r, Outcome(s, r), r.sh = s.sh,
           ~r.fault => Holds(r, "shell") = Holds(s, "shell")
    PROVE  Serves(s, r)
<1>1. CASE r.fault
  BY <1>1 DEF Serves
<1>2. CASE ~r.fault
  <2>1. Holds(r, "shell") = Holds(s, "shell")
    BY <1>2
  <2>2. s.sh.fd \in Fds /\ NodeAt(s, "shell", s.sh.fd) # NULL => NodeAt(r, "shell", s.sh.fd) # NULL
    BY <2>1 DEF Holds
  <2>3. ShellOK(r)
    BY <2>2 DEF ShellOK
  <2> QED BY <2>1, <2>3 DEF Serves, Orderly, Busy
<1> QED BY <1>1, <1>2

LEMMA ProcsAre == "shell" \in Procs /\ "user" \in Procs /\ "shell" # "user"
  BY FilesAssumption

\* The ways callers open with.
LEMMA OpeningAcc ==
    /\ \A o \in DOMAIN Openings : Openings[o].fl.acc \in {"r", "w", "rw"}
    /\ {"read", "write", "touch", "mkdir", "ls"} \subseteq DOMAIN Openings
<1>1. DOMAIN Openings = {"read", "touch", "write", "mkdir", "ls"}
  BY DEF Openings
<1> QED BY <1>1 DEF Openings, Flags

\* kfd_open_for_process: what its answer says.
LEMMA OpenOutcome ==
    ASSUME NEW s, Good(s), Tidy(s), ~s.fault, NEW p \in Procs, NEW path \in Paths, IsPath(path),
           NEW o \in DOMAIN Openings, NEW r, r = OpenAs(s, p, path, o)
    PROVE  /\ Outcome(s, r) /\ r.sh = s.sh
           /\ r.ret = KFD_ERROR => \A q \in Procs : Holds(r, q) = Holds(s, q)
           /\ r.ret # KFD_ERROR =>
                /\ Clean(s, r) /\ r.ret \in Fds
                /\ NodeAt(r, p, r.ret) # NULL /\ ~Dead(r, NodeAt(r, p, r.ret))
                /\ Holds(r, p) = Holds(s, p) \cup {r.ret}
                /\ \A q \in Procs : q # p => Holds(r, q) = Holds(s, q)
<1>0. PICK fl, mode, a : fl = Openings[o].fl /\ mode = Openings[o].mode /\ a = OpenedFor(s, path, o)
  OBVIOUS
<1>1. OpenFails(s, r) \/ OpenLeaks(s, r, p, a) \/ OpenWorks(s, r, p, fl.acc)
  <2>1. r = KfdOpenForProcess(s, p, path, fl, mode) /\ a = KvfsOpen(s, path, fl, mode)
    BY <1>0 DEF OpenAs, OpenedFor
  <2> QED BY ONLY Good(s), ~s.fault, p \in Procs, IsPath(path), <2>1, OpenForProcessIs
<1>9. fl.acc \in {"r", "w", "rw"}
  BY <1>0, OpeningAcc
<1>2. r.fds = s.fds => \A q \in Procs : Holds(r, q) = Holds(s, q)
  BY DEF Holds, NodeAt
<1>3. CASE OpenFails(s, r)
  BY <1>2, <1>3, OpenFailsIs
<1>4. CASE OpenLeaks(s, r, p, a)
  <2>1. /\ Good(r) /\ CwdKept(s, r) /\ r.fault = FALSE /\ r.lost = s.lost
        /\ OnlyLost(r, a.ret)
        /\ r.ret = KFD_ERROR /\ r.sh = s.sh /\ r.fds = s.fds
    BY ONLY Good(s), Tidy(s), ~s.fault, p \in Procs, <1>4, OpenLeaksIs
  <2>5. InVain(s, p, a, r, a.ret)
    BY <1>4 DEF OpenLeaks, InVain, Same
  <2>2. Excused(s, r, a.ret)
    BY <1>0, <2>1, <2>5 DEF Excused
  <2>3. Losses(s, r)
    BY <2>1, <2>2 DEF Losses, OnlyLost
  <2>4. Outcome(s, r)
    BY <2>1, <2>3 DEF Outcome
  <2> QED BY <1>2, <2>1, <2>4
<1>5. CASE OpenWorks(s, r, p, fl.acc)
  <2>1. /\ Clean(s, r) /\ r.ret \in Fds /\ r.ret \notin Holds(s, p) /\ r.sh = s.sh
        /\ NodeAt(r, p, r.ret) # NULL /\ ~Dead(r, NodeAt(r, p, r.ret))
        /\ Holds(r, p) = Holds(s, p) \cup {r.ret}
        /\ \A q \in Procs : q # p => Holds(r, q) = Holds(s, q)
    BY <1>5, <1>9, OpenWorksIs
  <2>2. Outcome(s, r)
    BY <2>1, QuietOutcome DEF Quiet, Clean
  <2>3. r.ret # KFD_ERROR
    BY <2>1, FilesAssumption DEF Fds, KFD_ERROR
  <2> QED BY <2>1, <2>2, <2>3
<1> QED BY <1>1, <1>3, <1>4, <1>5

\* kfd_close_for_process, of any number.
LEMMA CloseOutcome ==
    ASSUME NEW s, Good(s), Tidy(s), ~s.fault, NEW p \in Procs, NEW f,
           NEW r, r = KfdCloseForProcess(s, p, f)
    PROVE  /\ Clean(s, r) /\ r.sh = s.sh
           /\ \A q \in Procs : q # p => Holds(r, q) = Holds(s, q)
<1>1. CASE KfdGet(s, p, f) = NoDesc
  <2>1. r = Fail(s)
    BY <1>1 DEF KfdCloseForProcess
  <2>2. Same(s, r) /\ r.sh = s.sh
    BY <2>1, FailIs
  <2> QED BY <2>2, SameClean
<1>2. CASE KfdGet(s, p, f) # NoDesc
  <2>1. f \in Fds /\ s.fds[p][f] # NoDesc
    BY <1>2 DEF KfdGet
  <2>2. NodeAt(s, p, f) # NULL
    BY <2>1 DEF Good, Handles
  <2> QED BY <2>1, <2>2, CloseForIs
<1> QED BY <1>1, <1>2

\* kmkdir's open, which refuses "/", "." and "..".
LEMMA MkdirOpenOutcome ==
    ASSUME NEW s, Good(s), Tidy(s), ~s.fault, NEW p \in Procs, NEW path \in Paths, IsPath(path),
           NEW r, r = KmkdirOpen(s, p, path)
    PROVE  /\ Outcome(s, r) /\ r.sh = s.sh
           /\ r.ret = KFD_ERROR => \A q \in Procs : Holds(r, q) = Holds(s, q)
           /\ r.ret # KFD_ERROR =>
                /\ Clean(s, r) /\ r.ret \in Fds
                /\ NodeAt(r, p, r.ret) # NULL /\ ~Dead(r, NodeAt(r, p, r.ret))
                /\ Holds(r, p) = Holds(s, p) \cup {r.ret}
                /\ \A q \in Procs : q # p => Holds(r, q) = Holds(s, q)
<1>1. CASE Refused(path)
  <2>1. r = [s EXCEPT !.ret = KFD_ERROR]
    BY <1>1 DEF KmkdirOpen
  <2>2. Same(s, r) /\ r.sh = s.sh /\ r.ret = KFD_ERROR
    BY <2>1, GoodParts DEF Same, IsFs
  <2>3. Clean(s, r) /\ \A q \in Procs : Holds(r, q) = Holds(s, q)
    BY <2>2, SameClean
  <2>4. Outcome(s, r)
    BY <2>3, QuietOutcome DEF Quiet, Clean
  <2> QED BY <2>2, <2>3, <2>4
<1>2. CASE ~Refused(path)
  <2>1. r = OpenAs(s, p, path, "mkdir")
    BY <1>2 DEF KmkdirOpen
  <2> QED BY <2>1, OpeningAcc, OpenOutcome
<1> QED BY <1>1, <1>2

\* A clean call is one that serves.
LEMMA CleanServes ==
    ASSUME NEW s, ShellOK(s), NEW r, Clean(s, r), r.sh = s.sh, Holds(r, "shell") = Holds(s, "shell")
    PROVE  Serves(s, r)
<1>1. Outcome(s, r)
  BY QuietOutcome DEF Quiet, Clean
<1> QED BY <1>1, UserServes

----------------------------------------------------------------------------
(* The system calls                                                        *)

LEMMA SysOpenServes ==
    ASSUME NEW s, Good(s), Tidy(s), ~s.fault, ShellOK(s), NEW path \in Paths, IsPath(path),
           NEW o \in DOMAIN Openings, NEW r, r = OpenAs(s, "user", path, o)
    PROVE  Serves(s, r)
<1>1. Outcome(s, r) /\ r.sh = s.sh /\ Holds(r, "shell") = Holds(s, "shell")
  BY OpenOutcome, ProcsAre
<1> QED BY <1>1, UserServes

LEMMA SysCloseServes ==
    ASSUME NEW s, Good(s), Tidy(s), ~s.fault, ShellOK(s), NEW f,
           NEW r, r = KfdCloseForProcess(s, "user", f)
    PROVE  Serves(s, r)
<1>1. Clean(s, r) /\ r.sh = s.sh /\ Holds(r, "shell") = Holds(s, "shell")
  BY CloseOutcome, ProcsAre
<1> QED BY <1>1, CleanServes

LEMMA SysMkdirServes ==
    ASSUME NEW s, Good(s), Tidy(s), ~s.fault, ShellOK(s), NEW path \in Paths, IsPath(path),
           NEW a, a = KmkdirOpen(s, "user", path),
           NEW r, r = IF a.ret = KFD_ERROR THEN a ELSE KfdCloseForProcess(a, "user", a.ret)
    PROVE  Serves(s, r)
<1>1. /\ Outcome(s, a) /\ a.sh = s.sh /\ Holds(a, "shell") = Holds(s, "shell")
      /\ a.ret # KFD_ERROR => Clean(s, a)
  BY MkdirOpenOutcome, ProcsAre
<1>2. CASE a.ret = KFD_ERROR
  BY <1>1, <1>2, UserServes
<1>3. CASE a.ret # KFD_ERROR
  <2>1. Good(a) /\ Tidy(a) /\ ~a.fault /\ r = KfdCloseForProcess(a, "user", a.ret)
    BY <1>1, <1>3 DEF Clean
  <2>2. Clean(a, r) /\ r.sh = a.sh /\ Holds(r, "shell") = Holds(a, "shell")
    BY <2>1, CloseOutcome, ProcsAre
  <2>3. Clean(s, r)
    BY <1>1, <1>3, <2>2, CleanTwice
  <2> QED BY <1>1, <2>2, <2>3, CleanServes
<1> QED BY <1>2, <1>3

\* The node kstat's own open made is there for its stat.
LEMMA SysStatServes ==
    ASSUME NEW s, Good(s), Tidy(s), ~s.fault, ShellOK(s), NEW path \in Paths, IsPath(path),
           NEW a, a = OpenAs(s, "user", path, "read"),
           NEW r, r = IF a.ret = KFD_ERROR THEN a ELSE KfdStat(a, "user", a.ret)
    PROVE  Serves(s, r)
<1>1. /\ Outcome(s, a) /\ a.sh = s.sh /\ Holds(a, "shell") = Holds(s, "shell")
      /\ a.ret # KFD_ERROR => Clean(s, a) /\ a.ret \in Fds /\ ~Dead(a, NodeAt(a, "user", a.ret))
  BY OpenOutcome, OpeningAcc, ProcsAre
<1>2. CASE a.ret = KFD_ERROR
  BY <1>1, <1>2, UserServes
<1>3. CASE a.ret # KFD_ERROR
  <2>1. Good(a) /\ Tidy(a) /\ ~a.fault /\ r = KfdStat(a, "user", a.ret)
    BY <1>1, <1>3 DEF Clean
  <2>2. KfdGet(a, "user", a.ret).node = NodeAt(a, "user", a.ret)
    BY <1>1, <1>3 DEF KfdGet, NodeAt
  <2>3. /\ r.fault => Dead(a, NodeAt(a, "user", a.ret))
        /\ ~r.fault => Same(a, r) /\ Holds(r, "shell") = Holds(a, "shell")
        /\ r.sh = a.sh
    BY <2>1, <2>2, StatIs, ProcsAre
  <2>4. Clean(a, r)
    BY <1>1, <1>3, <2>1, <2>3, SameClean
  <2>5. Clean(s, r)
    BY <1>1, <1>3, <2>4, CleanTwice
  <2>6. ~r.fault
    BY <2>4 DEF Clean
  <2> QED BY <1>1, <2>3, <2>5, <2>6, CleanServes
<1> QED BY <1>2, <1>3

\* krmdir, which refuses "/", "." and "..".
LEMMA KrmdirServes ==
    ASSUME NEW s, Good(s), Tidy(s), ~s.fault, ShellOK(s), NEW path \in Paths, IsPath(path),
           NEW r, r = Krmdir(s, path)
    PROVE  Serves(s, r)
<1>1. CASE Refused(path)
  <2>1. r = Fail(s)
    BY <1>1 DEF Krmdir
  <2>2. Quiet(s, r) /\ r.sh = s.sh /\ Holds(r, "shell") = Holds(s, "shell")
    BY <2>1, FailIs, ProcsAre
  <2> QED BY <2>2, QuietOutcome, UserServes
<1>2. CASE ~Refused(path)
  <2>1. r = RemoveNode(s, path, "dir")
    BY <1>2 DEF Krmdir, KvfsRmdir
  <2>2. Outcome(s, r) /\ r.sh = s.sh /\ (~r.fault => Holds(r, "shell") = Holds(s, "shell"))
    BY <2>1, RemoveIs, ProcsAre
  <2> QED BY <2>2, UserServes
<1> QED BY <1>1, <1>2

----------------------------------------------------------------------------
(* The commands of the shell                                               *)

\* A command begins: it holds the descriptor it was given.
LEMMA HoldingServes ==
    ASSUME NEW s, Good(s), Tidy(s), ~s.fault, ShellOK(s), s.sh.cmd = "prompt",
           NEW a, Outcome(s, a), a.sh = s.sh,
           a.ret = KFD_ERROR => Holds(a, "shell") = Holds(s, "shell"),
           a.ret # KFD_ERROR => /\ Clean(s, a) /\ a.ret \in Fds /\ NodeAt(a, "shell", a.ret) # NULL
                                /\ Holds(a, "shell") = Holds(s, "shell") \cup {a.ret},
           NEW cmd \in {"cat", "touch", "mkdir", "ls"}, NEW r, r = Holding(a, cmd)
    PROVE  Serves(s, r)
<1>1. CASE a.ret = KFD_ERROR
  <2>1. r = a
    BY <1>1 DEF Holding
  <2> QED BY <1>1, <2>1, UserServes
<1>2. CASE a.ret # KFD_ERROR
  <2>1. PICK f, h : f = a.ret /\ h = [cmd |-> cmd, fd |-> f, len |-> 0]
    OBVIOUS
  <2>2. r = [a EXCEPT !.sh = h]
    BY <1>2, <2>1 DEF Holding
  <2>3. Clean(s, a) /\ Good(a) /\ Tidy(a) /\ ~a.fault /\ IsFs(a)
    BY <1>2, GoodParts DEF Clean
  <2>4. Same(a, r) /\ r.sh = h
    BY <2>2, <2>3 DEF Same, IsFs
  <2>5. Clean(s, r) /\ Holds(r, "shell") = Holds(s, "shell") \cup {f} /\ r.fds = a.fds
    BY <1>2, <2>1, <2>3, <2>4, SameClean, CleanTwice, ProcsAre DEF Same
  <2>6. Outcome(s, r)
    BY <2>5, QuietOutcome DEF Quiet, Clean
  <2>7. ShellOK(r)
    BY <1>2, <2>1, <2>4, <2>5 DEF ShellOK, NodeAt
  <2>8. Orderly(s) => Orderly(r)
    <3>1. Busy(s) = {} /\ Busy(r) = {f}
      BY <2>1, <2>4 DEF Busy
    <3> QED BY <2>5, <3>1 DEF Orderly
  <2> QED BY <2>6, <2>7, <2>8 DEF Serves
<1> QED BY <1>1, <1>2

LEMMA ShellOpenServes ==
    ASSUME NEW s, Good(s), Tidy(s), ~s.fault, ShellOK(s), s.sh.cmd = "prompt",
           NEW path \in Paths, IsPath(path), NEW o \in DOMAIN Openings, NEW cmd \in {"cat", "touch"},
           NEW a, a = OpenAs(s, "shell", path, o), NEW r, r = Holding(a, cmd)
    PROVE  Serves(s, r)
<1>1. /\ Outcome(s, a) /\ a.sh = s.sh
      /\ a.ret = KFD_ERROR => Holds(a, "shell") = Holds(s, "shell")
      /\ a.ret # KFD_ERROR => /\ Clean(s, a) /\ a.ret \in Fds /\ NodeAt(a, "shell", a.ret) # NULL
                              /\ Holds(a, "shell") = Holds(s, "shell") \cup {a.ret}
  BY OpenOutcome, ProcsAre
<1> QED BY <1>1, HoldingServes

LEMMA ShellMkdirServes ==
    ASSUME NEW s, Good(s), Tidy(s), ~s.fault, ShellOK(s), s.sh.cmd = "prompt",
           NEW path \in Paths, IsPath(path),
           NEW a, a = KmkdirOpen(s, "shell", path), NEW r, r = Holding(a, "mkdir")
    PROVE  Serves(s, r)
<1>1. /\ Outcome(s, a) /\ a.sh = s.sh
      /\ a.ret = KFD_ERROR => Holds(a, "shell") = Holds(s, "shell")
      /\ a.ret # KFD_ERROR => /\ Clean(s, a) /\ a.ret \in Fds /\ NodeAt(a, "shell", a.ret) # NULL
                              /\ Holds(a, "shell") = Holds(s, "shell") \cup {a.ret}
  BY MkdirOpenOutcome, ProcsAre
<1> QED BY <1>1, HoldingServes

\* A command ends: its descriptor is closed.
LEMMA ClosingServes ==
    ASSUME NEW s, Good(s), Tidy(s), ~s.fault, NEW a, Clean(s, a), a.sh = s.sh, s.sh.cmd # "prompt",
           ShellOK(s), Holds(a, "shell") = Holds(s, "shell"), NEW r, r = Closing(a)
    PROVE  Serves(s, r)
<1>1. PICK b : b = KfdCloseForProcess(a, "shell", a.sh.fd)
  OBVIOUS
<1>2. Good(a) /\ Tidy(a) /\ ~a.fault
  BY DEF Clean
<1>3. a.sh.fd \in Fds /\ NodeAt(a, "shell", a.sh.fd) # NULL
  <2>1. s.sh.fd \in Fds /\ s.sh.fd \in Holds(s, "shell")
    BY DEF ShellOK, Holds
  <2> QED BY <2>1 DEF Holds
<1>4. Clean(a, b) /\ Holds(b, "shell") = Holds(a, "shell") \ {a.sh.fd}
  BY <1>1, <1>2, <1>3, CloseForIs, ProcsAre
<1>5. ~b.fault /\ Good(b) /\ Tidy(b) /\ IsFs(b)
  BY <1>4, GoodParts DEF Clean
<1>6. r = [b EXCEPT !.sh = Prompt]
  BY <1>1, <1>5 DEF Closing, Back
<1>7. PICK h : h = Prompt
  OBVIOUS
<1>8. Same(b, r) /\ r.sh = h
  BY <1>5, <1>6, <1>7 DEF Same, IsFs
<1>9. Clean(b, r) /\ Holds(r, "shell") = Holds(b, "shell")
  BY <1>5, <1>8, SameClean, ProcsAre
<1>10. Clean(s, r)
  BY <1>4, <1>9, CleanTwice
<1>11. Outcome(s, r)
  BY <1>10, QuietOutcome DEF Quiet, Clean
<1>12. ShellOK(r)
  BY <1>7, <1>8 DEF ShellOK, Prompt
<1>13. Orderly(s) => Orderly(r)
  <2>1. Busy(s) = {a.sh.fd}
    BY DEF Busy
  <2>2. Holds(r, "shell") = Holds(s, "shell") \ {a.sh.fd}
    BY <1>4, <1>9
  <2> QED BY <2>1, <2>2 DEF Orderly
<1> QED BY <1>11, <1>12, <1>13 DEF Serves

\* Closing does not undo a fault.
LEMMA ClosingFault ==
    ASSUME NEW a, IsFs(a), a.fault = TRUE, NEW r, r = Closing(a)
    PROVE  r.fault = TRUE
<1>1. PICK n, f : n = a.fds["shell"][a.sh.fd].node /\ f = a.sh.fd
  OBVIOUS
<1>2. PICK c : c = KvfsClose(a, n)
  OBVIOUS
<1>3. c.fault = TRUE
  BY <1>2 DEF KvfsClose, Fault, IsFs
<1>4. PICK b : b = KfdCloseForProcess(a, "shell", f)
  OBVIOUS
<1>5. b = IF KfdGet(a, "shell", f) = NoDesc THEN Fail(a) ELSE c
  BY <1>1, <1>2, <1>3, <1>4 DEF KfdCloseForProcess, Then
<1>6. b.fault = TRUE
  BY <1>3, <1>5 DEF Fail, IsFs
<1>7. r = b
  BY <1>1, <1>4, <1>6 DEF Closing, Back
<1> QED BY <1>6, <1>7

LEMMA CloseServes ==
    ASSUME NEW s, Good(s), Tidy(s), ~s.fault, ShellOK(s), s.sh.cmd # "prompt", NEW r, r = Closing(s)
    PROVE  Serves(s, r)
<1>1. Same(s, s)
  BY GoodParts DEF Same
<1>2. Clean(s, s)
  BY <1>1, SameClean
<1> QED BY <1>2, ClosingServes

\* cat, before it reads.
LEMMA CatStatServes ==
    ASSUME NEW s, Good(s), Tidy(s), ~s.fault, ShellOK(s), s.sh.cmd = "cat",
           NEW a, a = KfdStat(s, "shell", s.sh.fd),
           NEW r, r = IF a.ret = NULL \/ CatSize(s) = 0 \/ ~HasRoom(s) THEN Closing(a)
                      ELSE [a EXCEPT !.sh = [cmd |-> "read", fd |-> s.sh.fd, len |-> CatSize(s)]]
    PROVE  Serves(s, r)
<1>1. s.sh.fd \in Fds /\ NodeAt(s, "shell", s.sh.fd) # NULL
  BY DEF ShellOK
<1>2. KfdGet(s, "shell", s.sh.fd).node = NodeAt(s, "shell", s.sh.fd)
  BY <1>1 DEF KfdGet, NodeAt
<1>3. /\ Quiet(s, a) /\ a.sh = s.sh
      /\ ~a.fault => /\ Same(s, a) /\ Holds(a, "shell") = Holds(s, "shell")
                     /\ ~Dead(s, NodeAt(s, "shell", s.sh.fd))
  BY <1>1, <1>2, StatIs, ProcsAre
<1>4. CASE a.fault
  <2>1. a = Fault(s)
    BY <1>4, GoodParts DEF KfdStat, KvfsStatFromNode, KtmpfsStat, Fail, Ok, IsFs
  <2>2. a.ret = NULL /\ IsFs(a) /\ a.fault = TRUE
    <3>1. IsFs(s)
      BY GoodParts
    <3> QED BY ONLY <2>1, <3>1 DEF Fault, IsFs
  <2>3. r = Closing(a)
    BY <2>2
  <2>4. r.fault = TRUE
    BY <2>2, <2>3, ClosingFault
  <2> QED BY <1>3, <1>4, <2>4 DEF Serves, Outcome, Quiet
<1>5. CASE ~a.fault
  <2>1. Clean(s, a) /\ Same(s, a) /\ Holds(a, "shell") = Holds(s, "shell")
    BY <1>3, <1>5 DEF Quiet
  <2>2. CASE r = Closing(a)
    BY <1>3, <2>1, <2>2, ClosingServes
  <2>3. CASE r # Closing(a)
    <3>1. PICK n, h : n = CatSize(s) /\ h = [cmd |-> "read", fd |-> s.sh.fd, len |-> n]
      OBVIOUS
    <3>2. r = [a EXCEPT !.sh = h]
      BY <2>3, <3>1
    <3>3. Good(a) /\ Tidy(a) /\ IsFs(a) /\ ~a.fault
      BY <2>1, GoodParts DEF Clean
    <3>4. Same(a, r) /\ r.sh = h
      BY <3>2, <3>3 DEF Same, IsFs
    <3>5. Clean(s, r) /\ Holds(r, "shell") = Holds(s, "shell") /\ r.fds = s.fds
      <4>1. Clean(a, r) /\ Holds(r, "shell") = Holds(a, "shell")
        BY <3>3, <3>4, SameClean, ProcsAre
      <4>2. Clean(s, r)
        BY ONLY <2>1, <4>1, CleanTwice
      <4> QED BY <2>1, <3>4, <4>1, <4>2 DEF Same
    <3>6. n \in Nat
      <4>1. PICK e : e = s.node[NodeAt(s, "shell", s.sh.fd)]
        OBVIOUS
      <4>2. e \in DOMAIN s.ent /\ n = s.ent[e].size
        BY <1>3, <1>5, <3>1, <4>1 DEF CatSize, Entry, NodeAt, Dead
      <4>3. n \in 0 .. MaxSize
        BY <4>2, GoodParts DEF EntryOK
      <4> QED BY <4>3, FilesAssumption
    <3>7. ShellOK(r)
      BY <1>1, <3>1, <3>4, <3>5, <3>6 DEF ShellOK, NodeAt
    <3>8. Busy(r) = Busy(s)
      BY <3>1, <3>4 DEF Busy
    <3>9. Outcome(s, r)
      BY <3>5, QuietOutcome DEF Quiet, Clean
    <3> QED BY <3>5, <3>7, <3>8, <3>9 DEF Serves, Orderly
  <2> QED BY <2>2, <2>3
<1> QED BY <1>4, <1>5

LEMMA CatReadServes ==
    ASSUME NEW s, Good(s), Tidy(s), ~s.fault, ShellOK(s), s.sh.cmd = "read",
           NEW a, a = KfdRead(s, "shell", s.sh.fd, s.sh.len),
           NEW r, r = IF a.fault THEN a ELSE Closing(a)
    PROVE  Serves(s, r)
<1>1. s.sh.len \in Nat
  BY DEF ShellOK
<1>2. Quiet(s, a) /\ a.sh = s.sh /\ (~a.fault => Holds(a, "shell") = Holds(s, "shell"))
  BY <1>1, ReadForIs, ProcsAre
<1>3. CASE a.fault
  BY <1>2, <1>3 DEF Serves, Outcome, Quiet
<1>4. CASE ~a.fault
  BY <1>2, <1>4, ClosingServes DEF Quiet
<1> QED BY <1>3, <1>4

\* ls, one entry or the end.
LEMMA LsNextServes ==
    ASSUME NEW s, Good(s), Tidy(s), ~s.fault, ShellOK(s), s.sh.cmd = "ls",
           NEW a, a = KfdReaddir(s, "shell", s.sh.fd),
           NEW r, r = IF a.ret = OK \/ a.fault THEN a ELSE KfdClosedir(a)
    PROVE  Serves(s, r)
<1>1. Quiet(s, a) /\ a.sh = s.sh /\ (~a.fault => Holds(a, "shell") = Holds(s, "shell"))
  BY ReaddirForIs, ProcsAre
<1>2. CASE a.fault
  BY <1>1, <1>2 DEF Serves, Outcome, Quiet
<1>3. CASE ~a.fault /\ a.ret = OK
  BY <1>1, <1>3, CleanServes DEF Quiet
<1>4. CASE ~a.fault /\ a.ret # OK
  BY <1>1, <1>4, ClosingServes DEF Quiet, KfdClosedir
<1> QED BY <1>2, <1>3, <1>4

\* kfd_opendir, whose block for the directory is not looked at.
LEMMA OpendirServes ==
    ASSUME NEW s, Good(s), Tidy(s), ~s.fault, ShellOK(s), s.sh.cmd = "prompt",
           NEW path \in Paths, IsPath(path),
           NEW r, r = KfdOpendir(s, path)
    PROVE  Serves(s, r)
<1>1. IsFs(s) /\ s.sh = Prompt
  BY GoodParts DEF ShellOK
<1>2. CASE ~HasRoom(s)
  <2>1. r.fault = TRUE
    BY <1>1, <1>2 DEF KfdOpendir, Fault, IsFs
  <2> QED BY <1>2, <2>1 DEF Serves, Outcome, Explained
<1>3. CASE HasRoom(s)
  <2>1. PICK h : h = Opening
    OBVIOUS
  <2>2. PICK t : t = [s EXCEPT !.sh = h]
    OBVIOUS
  <2>3. PICK fl, mode, v : fl = Openings["ls"].fl /\ mode = Openings["ls"].mode /\ v = OpenedFor(t, path, "ls")
    OBVIOUS
  <2>4. PICK a : a = OpenAs(t, "shell", path, "ls")
    OBVIOUS
  <2>5. r = IF a.ret = KFD_ERROR THEN Back(a) ELSE Holding(a, "ls")
    BY <1>3, <2>1, <2>2, <2>4 DEF KfdOpendir, Then
  <2>6. fl.acc \in {"r", "w", "rw"}
    BY <2>3, OpeningAcc
  <2>7. Same(s, t) /\ t.sh = h
    BY <1>1, <2>2 DEF Same, IsFs
  <2>8. Clean(s, t) /\ Holds(t, "shell") = Holds(s, "shell") /\ Good(t) /\ Tidy(t) /\ ~t.fault
    BY <2>7, SameClean, ProcsAre DEF Clean
  <2>9. OpenFails(t, a) \/ OpenLeaks(t, a, "shell", v) \/ OpenWorks(t, a, "shell", fl.acc)
    <3>1. a = KfdOpenForProcess(t, "shell", path, fl, mode) /\ v = KvfsOpen(t, path, fl, mode)
      BY <2>3, <2>4 DEF OpenAs, OpenedFor
    <3> QED BY ONLY <2>8, <3>1, ProcsAre, IsPath(path), OpenForProcessIs
  <2>10. CASE OpenFails(t, a)
    <3>1. /\ Outcome(t, a) /\ a.ret = KFD_ERROR /\ a.sh = t.sh /\ a.fds = t.fds
          /\ a.fault \in BOOLEAN /\ a.cwd = t.cwd
          /\ a.fault \/ (Tidy(a) /\ a.lost = t.lost /\ Good(a))
      BY <2>8, <2>10, OpenFailsIs
    <3>2. CASE a.fault
      <4>1. r = a
        BY <2>5, <3>1, <3>2 DEF Back
      <4>2. t.cwd # NULL /\ Dead(t, t.cwd)
        <5>1. PICK o : Opened(t, o) /\ o.ret = NULL /\ a = [o EXCEPT !.ret = KFD_ERROR]
          BY <2>10 DEF OpenFails
        <5>2. a.fault = o.fault
          BY <5>1 DEF Opened, Rest, IsFs
        <5> QED BY <2>8, <3>2, <5>1, <5>2 DEF Opened
      <4>3. Explained(s)
        BY <2>7, <4>2 DEF Explained, Dead, Same
      <4> QED BY <3>2, <4>1, <4>3 DEF Serves, Outcome
    <3>3. CASE ~a.fault
      <4>1. PICK q : q = Prompt
        OBVIOUS
      <4>2. r = [a EXCEPT !.sh = q]
        BY <2>5, <3>1, <3>3, <4>1 DEF Back
      <4>3. Same(a, r) /\ r.sh = q
        BY <3>1, <3>3, <4>2, GoodParts DEF Same, IsFs
      <4>4. Good(a) /\ Tidy(a)
        BY <3>1, <3>3
      <4>5. Clean(a, r) /\ Holds(r, "shell") = Holds(a, "shell")
        BY <3>3, <4>3, <4>4, SameClean, ProcsAre
      <4>6. r.fault = FALSE /\ Good(r) /\ Tidy(r) /\ r.lost = s.lost /\ r.fds = s.fds /\ r.sh = s.sh
        BY <1>1, <2>7, <3>1, <3>3, <4>1, <4>3, <4>5 DEF Clean, Same
      <4>7. Outcome(s, r)
        BY <4>6 DEF Outcome, CwdKept, Losses
      <4>8. Holds(r, "shell") = Holds(s, "shell")
        BY <4>6 DEF Holds, NodeAt
      <4> QED BY <4>6, <4>7, <4>8, UserServes
    <3> QED BY <3>2, <3>3
  <2>11. CASE OpenLeaks(t, a, "shell", v)
    <3>1. /\ Good(a) /\ a.fault = FALSE /\ a.lost = t.lost
          /\ OnlyLost(a, v.ret)
          /\ a.ret = KFD_ERROR /\ a.sh = t.sh /\ a.fds = t.fds
          /\ a.cwd = t.cwd /\ DOMAIN t.node \subseteq DOMAIN a.node
      BY ONLY <2>8, <2>11, OpenLeaksIs, ProcsAre
    <3>12. InVain(t, "shell", v, a, v.ret)
      BY <2>11 DEF OpenLeaks, InVain, Same
    <3>2. PICK q : q = Prompt
      OBVIOUS
    <3>3. r = [a EXCEPT !.sh = q]
      BY <2>5, <3>1, <3>2 DEF Back
    <3>4. IsFs(a)
      BY <3>1, GoodParts
    <3>5. Same(a, r) /\ r.sh = q
      BY <3>3, <3>4 DEF Same, IsFs
    <3>6. Good(r)
      BY <3>1, <3>5, SameGood
    <3>7. /\ r.fault = FALSE /\ r.lost = s.lost /\ r.fds = s.fds /\ r.sh = s.sh /\ r.cwd = s.cwd
          /\ DOMAIN s.node \subseteq DOMAIN r.node /\ t.fds = s.fds
      BY <1>1, <2>7, <3>1, <3>2, <3>5 DEF Same
    <3>8. DOMAIN r.node \ Kept(r) = {v.ret}
      <4>1. r.node = a.node /\ Kept(r) = Kept(a)
        BY <3>5 DEF Same, Kept, DescNodes, Descs
      <4> QED BY <3>1, <4>1 DEF OnlyLost
    <3>9. Excused(s, r, v.ret)
      <4>1. InVain(t, "shell", v, r, v.ret)
        BY <3>5, <3>12 DEF InVain, Same
      <4>2. t = [s EXCEPT !.sh = Opening]
        BY <2>1, <2>2
      <4> QED BY <2>3, <3>7, <4>1, <4>2 DEF Excused
    <3>10. Outcome(s, r)
      BY <3>6, <3>7, <3>8, <3>9 DEF Outcome, CwdKept, Losses
    <3>11. Holds(r, "shell") = Holds(s, "shell")
      BY <3>7 DEF Holds, NodeAt
    <3> QED BY <3>7, <3>10, <3>11, UserServes
  <2>12. CASE OpenWorks(t, a, "shell", fl.acc)
    <3>1. /\ Clean(t, a) /\ a.ret \in Fds /\ NodeAt(a, "shell", a.ret) # NULL
          /\ Holds(a, "shell") = Holds(t, "shell") \cup {a.ret}
      BY <2>6, <2>8, <2>12, OpenWorksIs, ProcsAre
    <3>2. a.ret # KFD_ERROR
      BY <3>1, FilesAssumption DEF Fds, KFD_ERROR
    <3>3. PICK f, k : f = a.ret /\ k = [cmd |-> "ls", fd |-> f, len |-> 0]
      OBVIOUS
    <3>4. r = [a EXCEPT !.sh = k]
      BY <2>5, <3>2, <3>3 DEF Holding
    <3>5. Clean(s, a) /\ Good(a) /\ Tidy(a) /\ ~a.fault
      BY <2>8, <3>1, CleanTwice DEF Clean
    <3>6. Same(a, r) /\ r.sh = k
      BY <3>4, <3>5, GoodParts DEF Same, IsFs
    <3>7. Clean(s, r) /\ Holds(r, "shell") = Holds(s, "shell") \cup {f} /\ r.fds = a.fds
      BY <2>8, <3>1, <3>3, <3>5, <3>6, SameClean, CleanTwice, ProcsAre DEF Same
    <3>8. ShellOK(r)
      BY <3>1, <3>3, <3>6, <3>7 DEF ShellOK, NodeAt
    <3>9. Busy(s) = {} /\ Busy(r) = {f}
      BY <3>3, <3>6 DEF Busy
    <3>10. Outcome(s, r)
      BY <3>7, QuietOutcome DEF Quiet, Clean
    <3> QED BY <3>7, <3>8, <3>9, <3>10 DEF Serves, Orderly
  <2> QED BY <2>9, <2>10, <2>11, <2>12
<1> QED BY <1>2, <1>3

LEMMA PwdServes ==
    ASSUME NEW s, Good(s), Tidy(s), ~s.fault, ShellOK(s),
           NEW r, r = IF s.cwd # NULL /\ Dead(s, s.cwd) THEN Fault(s) ELSE s
    PROVE  Serves(s, r)
<1>1. CASE s.cwd # NULL /\ Dead(s, s.cwd)
  <2>1. r.fault = TRUE
    BY <1>1, GoodParts DEF Fault, IsFs
  <2>2. Explained(s)
    BY <1>1 DEF Explained
  <2> QED BY <2>1, <2>2 DEF Serves, Outcome
<1>2. CASE r = s
  <2>1. Same(s, r)
    BY <1>2, GoodParts DEF Same
  <2>2. Clean(s, r)
    BY <2>1, SameClean
  <2> QED BY <1>2, <2>2, CleanServes
<1> QED BY <1>1, <1>2

----------------------------------------------------------------------------
(* The end of a call                                                       *)

\* The state a call of s that left r ends in.
Left(s, r) ==
    IF r.fault
      THEN [s EXCEPT !.fault = TRUE, !.node = <<>>, !.root = NULL, !.cwd = NULL,
                     !.fds = NoFds, !.sh = Prompt]
    ELSE [r EXCEPT !.ret = NULL, !.lost = r.lost + Cardinality(DOMAIN r.node \ Kept(r)),
                   !.node = Restrict(r.node, DOMAIN r.node \ (DOMAIN r.node \ Kept(r)))]

LEMMA LeavesLeft ==
    ASSUME NEW r, Leaves(r)
    PROVE  fs' = Left(fs, r)
  BY DEF Leaves, Left

LEMMA EmptyTable == IsTable(<<>>) /\ DOMAIN <<>> = {}
<1>1. DOMAIN <<>> = {}
  OBVIOUS
<1>2. IsFun(<<>>)
  BY DEF IsFun
<1> QED BY <1>1, <1>2, FS_EmptySet DEF IsTable

LEMMA NoFdsTyped ==
    /\ NoFds \in [Procs -> [Fds -> Desc]]
    /\ \A p \in Procs, f \in Fds : NoFds[p][f] = NoDesc
    /\ NoDesc.node = NULL
<1>1. NoDesc \in Desc /\ NoDesc.node = NULL
  BY DEF NoDesc, Desc, NULL
<1> QED BY <1>1 DEF NoFds

\* Nothing is open, nothing is mounted.
LEMMA BareGood ==
    ASSUME NEW t, IsFs(t), Forest(t.ent), t.node = <<>>, t.root = NULL, t.cwd = NULL,
           t.fds = NoFds, t.sh = Prompt, t.fault \in BOOLEAN, t.lost \in Nat, t.heap \in HeapSizes
    PROVE  Good(t) /\ Tidy(t) /\ ShellOK(t) /\ Orderly(t) /\ \A p \in Procs : Holds(t, p) = {}
<1>1. Typed(t)
  BY EmptyTable, NoFdsTyped DEF Typed, NULL
<1>2. \A p \in Procs, f \in Fds : t.fds[p][f] = NoDesc /\ NodeAt(t, p, f) = NULL
  BY NoFdsTyped DEF NodeAt
<1>3. Handles(t) /\ Positions(t)
  BY <1>2 DEF Handles, Positions
<1>4. Tidy(t)
  BY EmptyTable DEF Tidy
<1>5. ShellOK(t)
  BY DEF ShellOK, Prompt
<1>6. \A p \in Procs : Holds(t, p) = {}
  BY <1>2 DEF Holds
<1> QED BY <1>1, <1>3, <1>4, <1>5, <1>6, ProcsAre DEF Good, Orderly

LEMMA LeftFault ==
    ASSUME NEW s, Good(s), NEW r, r.fault, NEW t, t = Left(s, r)
    PROVE  /\ Good(t) /\ Tidy(t) /\ ShellOK(t) /\ Orderly(t) /\ t.fault = TRUE /\ t.ret = s.ret
           /\ t.lost = s.lost /\ t.node = <<>> /\ t.root = NULL /\ t.cwd = NULL
<1>1. PICK q, N : q = Prompt /\ N = NoFds
  OBVIOUS
<1>2. t = [s EXCEPT !.fault = TRUE, !.node = <<>>, !.root = NULL, !.cwd = NULL,
                    !.fds = N, !.sh = q]
  BY <1>1 DEF Left
<1>3. IsFs(s)
  BY GoodParts
<1>4. /\ IsFs(t) /\ t.ent = s.ent /\ t.node = <<>> /\ t.root = NULL /\ t.cwd = NULL
      /\ t.fds = N /\ t.sh = q /\ t.fault = TRUE /\ t.lost = s.lost /\ t.heap = s.heap /\ t.ret = s.ret
  BY ONLY <1>2, <1>3 DEF IsFs
<1>5. Forest(t.ent) /\ t.lost \in Nat /\ t.heap \in HeapSizes
  BY <1>4 DEF Good, Typed
<1>6. Good(t) /\ Tidy(t) /\ ShellOK(t) /\ Orderly(t)
  BY <1>1, <1>4, <1>5, BareGood
<1> QED BY <1>4, <1>6

\* t is r but for the nodes nothing names, which are lost.
Ends(r, t) ==
    /\ IsFs(t) /\ t.ret = NULL /\ t.fault = FALSE
    /\ t.ent = r.ent /\ t.root = r.root /\ t.cwd = r.cwd /\ t.fds = r.fds
    /\ t.sh = r.sh /\ t.heap = r.heap
    /\ t.lost = r.lost + Cardinality(DOMAIN r.node \ Kept(r))
    /\ t.node = Restrict(r.node, DOMAIN r.node \ (DOMAIN r.node \ Kept(r)))
    /\ DOMAIN t.node = DOMAIN r.node \cap Kept(r)

LEMMA LeftGood ==
    ASSUME NEW s, NEW r, Good(r), ~r.fault, NEW t, t = Left(s, r)
    PROVE  Good(t) /\ Tidy(t) /\ Ends(r, t)
<1>1. PICK S : S = DOMAIN r.node \ Kept(r)
  OBVIOUS
<1>2. PICK l, N : l = r.lost + Cardinality(S) /\ N = Restrict(r.node, DOMAIN r.node \ S)
  OBVIOUS
<1>3. t = [r EXCEPT !.ret = NULL, !.lost = l, !.node = N]
  BY <1>1, <1>2 DEF Left
<1>4. IsFs(r) /\ IsTable(r.node) /\ r.fault \in BOOLEAN
  BY GoodParts
<1>5. /\ IsFs(t) /\ t.ent = r.ent /\ t.node = N /\ t.root = r.root /\ t.cwd = r.cwd
      /\ t.fds = r.fds /\ t.sh = r.sh /\ t.fault = r.fault /\ t.lost = l /\ t.heap = r.heap /\ t.ret = NULL
  BY ONLY <1>3, <1>4 DEF IsFs
<1>6. l \in Nat
  <2>1. IsFiniteSet(S)
    BY <1>1, <1>4, FS_Difference DEF IsTable
  <2>2. Cardinality(S) \in Nat
    BY <2>1, FS_CardinalityType
  <2> QED BY <1>2, <2>2 DEF Good, Typed
<1>7. IsTable(N)
  BY <1>2, <1>4, RestrictTable
<1>8. DOMAIN N = DOMAIN r.node \cap Kept(r) /\ \A n \in DOMAIN N : N[n] = r.node[n]
  BY <1>1, <1>2 DEF Restrict
<1>9. Typed(t)
  BY <1>5, <1>6, <1>7, <1>8 DEF Good, Typed
<1>10. \A p \in Procs, f \in Fds : NodeAt(r, p, f) # NULL => NodeAt(r, p, f) \in DOMAIN N
  <2> SUFFICES ASSUME NEW p \in Procs, NEW f \in Fds, NodeAt(r, p, f) # NULL
               PROVE  NodeAt(r, p, f) \in DOMAIN N
    OBVIOUS
  <2>1. NodeAt(r, p, f) \in DOMAIN r.node
    BY DEF Good, Handles
  <2>2. NodeAt(r, p, f) \in DescNodes(r)
    BY InDescNodes
  <2> QED BY <1>8, <2>1, <2>2 DEF Kept
<1>11. Handles(t)
  <2>1. \A p \in Procs, f \in Fds :
         IF NodeAt(t, p, f) = NULL THEN t.fds[p][f] = NoDesc
         ELSE NodeAt(t, p, f) \in DOMAIN t.node \ {t.root, t.cwd}
    BY <1>5, <1>10 DEF Good, Handles, NodeAt
  <2>2. \A p, q \in Procs, f, g \in Fds :
         NodeAt(t, p, f) = NodeAt(t, q, g) /\ NodeAt(t, p, f) # NULL => p = q /\ f = g
    BY <1>5 DEF Good, Handles, NodeAt
  <2>3. t.root # NULL => /\ t.root \in DOMAIN t.node /\ t.node[t.root] \in DOMAIN t.ent
                         /\ t.ent[t.node[t.root]].parent = NULL
    BY <1>5, <1>8 DEF Good, Handles, Kept
  <2> QED BY <2>1, <2>2, <2>3 DEF Handles
<1>12. Positions(t)
  <2>1. \A n : ~Dead(t, n) => ~Dead(r, n) /\ Entry(t, n) = Entry(r, n)
    BY <1>5, <1>8 DEF Dead, Entry
  <2>2. Positions(r)
    BY DEF Good
  <2> QED BY ONLY <1>5, <2>1, <2>2 DEF Positions, NodeAt
<1>13. Tidy(t)
  <2>1. Kept(t) = Kept(r)
    BY <1>5 DEF Kept, DescNodes, Descs
  <2> QED BY <1>5, <1>8, <2>1 DEF Tidy
<1>14. Good(t)
  BY <1>5, <1>9, <1>11, <1>12 DEF Good
<1>15. Ends(r, t)
  BY <1>1, <1>2, <1>4, <1>5, <1>8 DEF Ends
<1> QED BY <1>13, <1>14, <1>15

\* With nothing lost the state is what the call left.
LEMMA LeftTidy ==
    ASSUME NEW s, NEW r, Good(r), Tidy(r), ~r.fault, NEW t, t = Left(s, r)
    PROVE  t.lost = r.lost /\ t.node = r.node /\ Same(r, t)
<1>1. DOMAIN r.node \ Kept(r) = {} /\ DOMAIN r.node \ (DOMAIN r.node \ Kept(r)) = DOMAIN r.node
  BY DEF Tidy
<1>2. PICK S : S = DOMAIN r.node \ Kept(r)
  OBVIOUS
<1>3. /\ t.lost = r.lost + Cardinality(S) /\ t.node = Restrict(r.node, DOMAIN r.node \ S) /\ IsFs(t)
      /\ t.ent = r.ent /\ t.root = r.root /\ t.cwd = r.cwd /\ t.fds = r.fds
      /\ t.heap = r.heap /\ t.fault = FALSE
  <2>1. Ends(r, t)
    BY LeftGood
  <2> QED BY <1>2, <2>1 DEF Ends
<1>4. S = {} /\ Cardinality(S) = 0
  BY <1>1, <1>2, FS_EmptySet
<1>5. t.lost = r.lost
  BY <1>3, <1>4 DEF Good, Typed
<1>6. IsFun(r.node) /\ r.fault = FALSE
  BY GoodParts
<1>7. Restrict(r.node, DOMAIN r.node \ S) = r.node
  BY <1>4, <1>6 DEF Restrict, IsFun
<1> QED BY <1>3, <1>5, <1>6, <1>7 DEF Same

\* The same, when the node is lost.
VainStep(u, p, a, t) ==
    /\ a.ret # NULL
    /\ (\A f \in Fds : u.fds[p][f] # NoDesc) \/ ~HasRoom(a)
    /\ t.ent = a.ent /\ DOMAIN t.node = DOMAIN a.node \ {a.ret}

\* What is said of a step from s to t: of memory that is lost, and of faults.
LeakStep(s, t) ==
    \/ t.lost = s.lost
    \/ /\ t.lost = s.lost + 1
       /\ \/ Data(s, "held") \ DOMAIN t.ent # {}
          \/ t = [s EXCEPT !.lost = s.lost + 1] /\ \E path \in Paths : RefusedIn(s, path)
          \/ /\ t.fds = s.fds /\ t.sh = s.sh
             /\ \E path \in Paths :
                  \/ \E p \in Procs, o \in DOMAIN Openings : VainStep(s, p, OpenedFor(s, path, o), t)
                  \/ LET u == [s EXCEPT !.sh = Opening]
                     IN  VainStep(u, "shell", OpenedFor(u, path, "ls"), t)
FaultStep(s, t) ==
    /\ t.fault /\ ~s.fault => Explained(s)
    /\ s.cwd \in DOMAIN s.node /\ t.cwd = s.cwd /\ ~t.fault /\ s.cwd \notin DOMAIN t.node
         => t.fds = s.fds /\ t.sh = s.sh

\* One node is lost, for a reason.
LEMMA LeftLeaks ==
    ASSUME NEW s, Good(s), s.ret = NULL, ~s.fault, NEW r, Good(r), ~r.fault, r.lost = s.lost,
           NEW n, Excused(s, r, n), DOMAIN r.node \ Kept(r) = {n}, NEW t, Good(t), Ends(r, t)
    PROVE  LeakStep(s, t)
<1>1. Cardinality({n}) = 1
  BY FS_Singleton
<1>2. t.lost = s.lost + 1 /\ t.node = Restrict(r.node, DOMAIN r.node \ {n})
  BY <1>1 DEF Ends
<1>3. DOMAIN r.node = DOMAIN t.node \cup {n} /\ n \notin DOMAIN t.node
  BY DEF Ends
<1>4. /\ IsFs(t) /\ t.ret = NULL /\ t.fault = FALSE
      /\ t.ent = r.ent /\ t.root = r.root /\ t.cwd = r.cwd /\ t.fds = r.fds
      /\ t.sh = r.sh /\ t.heap = r.heap
  BY DEF Ends
<1>5. IsFs(r) /\ IsFs(s) /\ IsFun(s.node) /\ s.fault = FALSE
  BY GoodParts
<1>6. \A u, p, a : InVain(u, p, a, r, n) => VainStep(u, p, a, t)
  BY <1>3, <1>4 DEF InVain, VainStep
<1>7. CASE /\ r.fds = s.fds /\ r.sh = s.sh
           /\ \E path \in Paths :
                \/ \E p \in Procs, o \in DOMAIN Openings : InVain(s, p, OpenedFor(s, path, o), r, n)
                \/ LET u == [s EXCEPT !.sh = Opening]
                   IN  InVain(u, "shell", OpenedFor(u, path, "ls"), r, n)
  <2>1. PICK u : u = [s EXCEPT !.sh = Opening]
    OBVIOUS
  <2>2. \E path \in Paths :
            \/ \E p \in Procs, o \in DOMAIN Openings : VainStep(s, p, OpenedFor(s, path, o), t)
            \/ VainStep(u, "shell", OpenedFor(u, path, "ls"), t)
    BY <1>6, <1>7, <2>1
  <2> QED BY <1>2, <1>4, <1>7, <2>1, <2>2 DEF LeakStep
<1>9. CASE /\ Rest(s, r) /\ r.ent = s.ent /\ n \in New(s) /\ \E e : r.node = Put(s.node, n, e)
           /\ \E path \in Paths : RefusedIn(s, path)
  <2>1. PICK e : r.node = Put(s.node, n, e)
    BY <1>9
  <2>2. n \notin DOMAIN s.node
    BY <1>9 DEF New
  <2>5. t.node = s.node
    <3>1. Restrict(r.node, DOMAIN r.node \ {n}) = s.node
      BY ONLY <1>5, <2>1, <2>2, PutAndBack
    <3> QED BY <1>2, <3>1
  <2>6. t = [s EXCEPT !.lost = s.lost + 1]
    <3>1. PICK l : l = s.lost + 1
      OBVIOUS
    <3>2. /\ t.ent = s.ent /\ t.node = s.node /\ t.root = s.root /\ t.cwd = s.cwd
          /\ t.fds = s.fds /\ t.sh = s.sh /\ t.lost = l /\ t.heap = s.heap /\ t.ret = s.ret
          /\ t.fault = s.fault
      BY <1>2, <1>4, <1>5, <1>9, <2>5, <3>1 DEF Rest
    <3>3. t = [s EXCEPT !.lost = l]
      BY ONLY <1>4, <1>5, <3>2 DEF IsFs
    <3> QED BY <3>1, <3>3
  <2> QED BY <1>2, <1>9, <2>6 DEF LeakStep
<1> QED BY <1>7, <1>9 DEF Excused

\* Every call and command: what the invariant and the action properties need.
Steps(s, t) ==
    /\ Good(t) /\ Tidy(t) /\ ShellOK(t) /\ t.ret = NULL /\ FaultStep(s, t)

LEMMA LeftServes ==
    ASSUME NEW s, Good(s), Tidy(s), s.ret = NULL, ~s.fault, NEW r, Serves(s, r),
           NEW t, t = Left(s, r)
    PROVE  Steps(s, t) /\ LeakStep(s, t) /\ (Orderly(s) => Orderly(t))
<1>1. CASE r.fault
  <2>1. /\ Good(t) /\ Tidy(t) /\ ShellOK(t) /\ Orderly(t) /\ t.fault = TRUE /\ t.ret = s.ret
        /\ t.lost = s.lost
    BY <1>1, LeftFault
  <2>2. Explained(s)
    BY <1>1 DEF Serves, Outcome
  <2> QED BY <2>1, <2>2 DEF Steps, FaultStep, LeakStep
<1>2. CASE ~r.fault
  <2>1. Good(r) /\ CwdKept(s, r) /\ Losses(s, r) /\ ShellOK(r) /\ (Orderly(s) => Orderly(r))
    BY <1>2 DEF Serves, Outcome
  <2>2. Good(t) /\ Tidy(t) /\ Ends(r, t)
    BY <1>2, <2>1, LeftGood
  <2>3. /\ t.ret = NULL /\ t.fault = FALSE /\ t.cwd = r.cwd /\ t.fds = r.fds /\ t.sh = r.sh
        /\ t.ent = r.ent /\ DOMAIN t.node = DOMAIN r.node \cap Kept(r)
    BY <2>2 DEF Ends
  <2>4. ShellOK(t) /\ (Orderly(s) => Orderly(t))
    BY <2>1, <2>3 DEF ShellOK, Orderly, Holds, Busy, NodeAt
  <2>5. FaultStep(s, t)
    <3>1. r.cwd \in DOMAIN r.node => r.cwd \in DOMAIN t.node
      BY <2>3 DEF Kept
    <3> QED BY <2>1, <2>3, <3>1 DEF FaultStep, CwdKept
  <2>6. LeakStep(s, t)
    <3>1. CASE Tidy(r)
      <4>1. t.lost = r.lost
        BY <1>2, <2>1, <3>1, LeftTidy
      <4>2. \/ r.lost = s.lost
            \/ r.lost = s.lost + 1 /\ Data(s, "held") \ DOMAIN r.ent # {}
        BY <2>1 DEF Losses
      <4> QED BY <2>3, <4>1, <4>2 DEF LeakStep
    <3>2. CASE ~Tidy(r)
      <4>1. r.lost = s.lost /\ \E n : DOMAIN r.node \ Kept(r) = {n} /\ Excused(s, r, n)
        BY <2>1, <3>2 DEF Losses
      <4>2. PICK n : DOMAIN r.node \ Kept(r) = {n} /\ Excused(s, r, n)
        BY <4>1
      <4> QED BY <1>2, <2>1, <2>2, <4>1, <4>2, LeftLeaks
    <3> QED BY <3>1, <3>2
  <2> QED BY <2>2, <2>3, <2>4, <2>5, <2>6 DEF Steps
<1> QED BY <1>1, <1>2

----------------------------------------------------------------------------
(* Start-up: mounting                                                      *)

\* The root has no entry called w.
RootLacks(s, w) == s.root # NULL => NameFree(s.ent, s.node[s.root], w)

\* The entries F are E and the root x of a new tree.
Planted(E, F, x) ==
    /\ x \in Nat \ {NULL} /\ x \notin DOMAIN E /\ IsFun(F) /\ DOMAIN F = DOMAIN E \cup {x}
    /\ \A e \in DOMAIN E : F[e] = E[e]
    /\ IsEntry(F[x]) /\ F[x].kind = "dir" /\ F[x].parent = NULL /\ F[x].kids = {} /\ F[x].nlink = 2
    /\ F[x].size = 0 /\ F[x].cap = 0 /\ F[x].buf = "none"

LEMMA PlantedForest ==
    ASSUME NEW E, Forest(E), NEW F, NEW x, Planted(E, F, x)
    PROVE  Forest(F)
<1>1. /\ IsTable(E) /\ (\A e \in DOMAIN E : EntryOK(E[e]))
      /\ LinkedUp(E) /\ LinkedDown(E) /\ NamesApart(E)
  BY DEF Forest
<1>2. /\ x \in Nat \ {NULL} /\ x \notin DOMAIN E /\ IsFun(F) /\ DOMAIN F = DOMAIN E \cup {x}
      /\ \A e \in DOMAIN E : F[e] = E[e]
  BY DEF Planted
<1>3. IsTable(F)
  <2>1. IsFiniteSet(DOMAIN E \cup {x})
    BY <1>1, FS_AddElement DEF IsTable
  <2> QED BY <1>1, <1>2, <2>1 DEF IsTable
<1>4. EntryOK(F[x])
  <2>1. F[x].nlink = 2 + Cardinality(F[x].kids) /\ IsFiniteSet(F[x].kids)
    <3>1. IsFiniteSet({}) /\ Cardinality({}) = 0
      BY FS_EmptySet
    <3>2. F[x].kids = {} /\ F[x].nlink = 2
      BY DEF Planted
    <3> QED BY <3>1, <3>2
  <2> QED BY <2>1, FilesAssumption DEF EntryOK, Planted, NULL
<1>5. \A e \in DOMAIN F : EntryOK(F[e])
  BY <1>1, <1>2, <1>4
<1>6. F[x].parent = NULL /\ F[x].kids = {}
  BY DEF Planted
<1>7. LinkedUp(F)
  BY <1>1, <1>2, <1>6 DEF LinkedUp
<1>8. LinkedDown(F)
  BY <1>1, <1>2, <1>6 DEF LinkedDown
<1>9. NamesApart(F)
  <2> SUFFICES ASSUME NEW d \in DOMAIN F, NEW j \in F[d].kids, NEW k \in F[d].kids, F[j].name = F[k].name
               PROVE  j = k
    BY DEF NamesApart
  <2>1. d \in DOMAIN E /\ j \in E[d].kids /\ k \in E[d].kids
    BY <1>2, <1>6
  <2>2. j \in DOMAIN E /\ k \in DOMAIN E
    BY <1>1, <2>1 DEF LinkedDown
  <2> QED BY <1>1, <1>2, <2>1, <2>2 DEF NamesApart
<1> QED BY <1>3, <1>5, <1>7, <1>8, <1>9 DEF Forest

\* a is s with a new tree, x its root.
NewTree(s, a, x) ==
    /\ Rest(s, a) /\ a.node = s.node /\ a.fault = s.fault /\ Planted(s.ent, a.ent, x)
    /\ \A n \in DOMAIN s.node : s.node[n] # x

LEMMA NewTreeGood ==
    ASSUME NEW s, Good(s), NEW a, NEW x, NewTree(s, a, x)
    PROVE  Good(a)
<1>1. /\ IsFs(a) /\ a.root = s.root /\ a.cwd = s.cwd /\ a.fds = s.fds
      /\ a.lost = s.lost /\ a.heap = s.heap /\ a.node = s.node /\ a.fault = s.fault
  BY DEF NewTree, Rest
<1>2. Typed(a)
  BY <1>1 DEF Good, Typed
<1>3. Forest(a.ent)
  BY PlantedForest DEF Good, NewTree
<1>4. /\ DOMAIN a.ent = DOMAIN s.ent \cup {x} /\ \A e \in DOMAIN s.ent : a.ent[e] = s.ent[e]
      /\ \A n \in DOMAIN s.node : s.node[n] # x
  BY DEF NewTree, Planted
<1>5. Handles(a)
  BY <1>1, <1>4 DEF Good, Handles, NodeAt
<1>6. \A n : ~Dead(a, n) => ~Dead(s, n) /\ Entry(a, n) = Entry(s, n)
  BY <1>1, <1>4 DEF Dead, Entry
<1>7. Positions(a)
  BY <1>1, <1>6 DEF Good, Positions, NodeAt
<1> QED BY <1>2, <1>3, <1>5, <1>7 DEF Good

\* ktmpfs_mount: a tree and a node for its root, or nothing.
LEMMA MountIs ==
    ASSUME NEW s, Good(s), ~s.fault, NEW loc, NEW r, r = KtmpfsMount(s, loc)
    PROVE  /\ r.ret = NULL => Same(s, r) /\ r.sh = s.sh
           /\ r.ret # NULL => \E a, x : NewTree(s, a, x) /\ Found(a, r) /\ NodeFor(a, r, x)
<1>1. PICK e : e = NewEntry(s)
  OBVIOUS
<1>2. e \in Nat \ {NULL} /\ e \notin DOMAIN s.ent /\ \A n \in DOMAIN s.node : s.node[n] # e
  BY <1>1, NewEntryIs
<1>3. PICK x : x = KvfsStatCreate("dir", loc, NULL, <<7, 5, 5>>)
  OBVIOUS
<1>4. PICK E : E = Put(s.ent, e, x)
  OBVIOUS
<1>5. PICK a : a = [s EXCEPT !.ent = E]
  OBVIOUS
<1>6. r = IF ~HasRoom(s) THEN Fail(s) ELSE IF ~HasRoom(a) THEN Fail(s) ELSE KtmpfsCreateVfsNode(a, e)
  BY <1>1, <1>3, <1>4, <1>5 DEF KtmpfsMount, Then
<1>7. IsFs(s) /\ s.fault = FALSE
  BY GoodParts
<1>8. CASE r = Fail(s)
  BY <1>7, <1>8 DEF Fail, Same, IsFs, NULL
<1>9. CASE r # Fail(s)
  <2>1. HasRoom(a) /\ r = KtmpfsCreateVfsNode(a, e)
    BY <1>6, <1>9
  <2>2. /\ IsEntry(x) /\ x.kind = "dir" /\ x.parent = NULL /\ x.kids = {} /\ x.nlink = 2
        /\ x.size = 0 /\ x.cap = 0 /\ x.buf = "none"
    BY <1>3 DEF KvfsStatCreate, IsEntry
  <2>3. IsFun(E) /\ DOMAIN E = DOMAIN s.ent \cup {e} /\ E[e] = x /\ \A y \in DOMAIN s.ent : E[y] = s.ent[y]
    BY <1>2, <1>4 DEF Put, IsFun
  <2>4. Planted(s.ent, E, e)
    BY <1>2, <2>2, <2>3 DEF Planted
  <2>5. Rest(s, a) /\ a.node = s.node /\ a.fault = s.fault /\ a.ent = E
    BY ONLY <1>5, <1>7 DEF IsFs, Rest
  <2>6. NewTree(s, a, e)
    BY <1>2, <2>4, <2>5 DEF NewTree
  <2>7. Good(a) /\ ~a.fault /\ e \in DOMAIN a.ent
    BY <1>7, <2>3, <2>5, <2>6, NewTreeGood
  <2>8. /\ Found(a, r)
        /\ r.ret = NULL => e = NULL \/ ~HasRoom(a)
        /\ r.ret # NULL => NodeFor(a, r, e)
    BY <2>1, <2>7, CreateNodeIs
  <2>9. r.ret # NULL
    BY <1>2, <2>1, <2>8
  <2> QED BY <2>6, <2>8, <2>9
<1> QED BY <1>8, <1>9

\* The root of the first tree becomes kvfs_root_mount_dir and the working directory.
LEMMA AdoptRoot ==
    ASSUME NEW a, Good(a), NEW x \in DOMAIN a.node, a.node[x] \in DOMAIN a.ent,
           a.ent[a.node[x]].parent = NULL, x \notin DescNodes(a),
           NEW b, IsFs(b), b.ent = a.ent, b.node = a.node, b.root = x,
           b.fds = a.fds, b.lost = a.lost, b.heap = a.heap, b.fault = a.fault, b.cwd = x
    PROVE  Good(b)
<1>1. x \in Nat /\ x # NULL
  BY GoodParts
<1>2. Typed(b)
  BY <1>1 DEF Good, Typed
<1>3. \A p \in Procs, f \in Fds : NodeAt(a, p, f) # x
  BY <1>1, InDescNodes
<1>4. Handles(b)
  BY <1>1, <1>3 DEF Good, Handles, NodeAt
<1>5. Positions(b)
  BY DEF Good, Positions, NodeAt, Dead, Entry
<1> QED BY <1>2, <1>4, <1>5 DEF Good

----------------------------------------------------------------------------
(* Start-up: the initrd                                                    *)

\* m is a with at most one entry more, whose name is in P: no data is freed, and
\* the root lacks what it lacked.
Fuller(a, m, P) ==
    /\ Made(a, m) /\ (Data(m, "freed") # {} => Data(a, "freed") # {})
    /\ \A w : w \notin P /\ RootLacks(a, w) => RootLacks(m, w)

LEMMA SameFuller ==
    ASSUME NEW a, NEW m, Same(a, m), m.sh = a.sh, NEW P
    PROVE  Fuller(a, m, P)
<1>1. Made(a, m)
  BY SameMade
<1>2. Data(m, "freed") = Data(a, "freed") /\ \A w : RootLacks(m, w) <=> RootLacks(a, w)
  BY DEF Same, Data, RootLacks
<1> QED BY <1>1, <1>2 DEF Fuller

LEMMA AddedFuller ==
    ASSUME NEW a, Good(a), NEW m, NEW p, NEW x, NEW name, Added(a, m, p, x, name), NameFree(a.ent, p, name),
           NEW P, name \in P
    PROVE  Fuller(a, m, P)
<1>1. /\ Rest(a, m) /\ m.node = a.node /\ m.fault = a.fault
      /\ Grown(a.ent, m.ent, p, x, name) /\ \A n \in DOMAIN a.node : a.node[n] # x
  BY DEF Added
<1>2. Made(a, m)
  BY <1>1 DEF Made
<1>3. /\ p \in DOMAIN a.ent /\ x \notin DOMAIN a.ent /\ DOMAIN m.ent = DOMAIN a.ent \cup {x}
      /\ m.ent[p].kids = a.ent[p].kids \cup {x} /\ m.ent[x].name = name /\ m.ent[x].buf = "none"
      /\ \A e \in DOMAIN a.ent : /\ m.ent[e].name = a.ent[e].name /\ m.ent[e].buf = a.ent[e].buf
                                 /\ e # p => m.ent[e].kids = a.ent[e].kids
  BY <1>1 DEF Grown
<1>4. Data(m, "freed") = Data(a, "freed")
  BY <1>3 DEF Data
<1>5. ASSUME NEW w, w \notin P, RootLacks(a, w) PROVE RootLacks(m, w)
  <2> SUFFICES ASSUME m.root # NULL, NEW k \in m.ent[m.node[m.root]].kids PROVE m.ent[k].name # w
    BY DEF RootLacks, NameFree
  <2>1. PICK d : d = a.node[a.root]
    OBVIOUS
  <2>2. m.root = a.root /\ m.node[m.root] = d
    BY <1>1, <2>1 DEF Rest
  <2>3. d \in DOMAIN a.ent /\ \A j \in a.ent[d].kids : a.ent[j].name # w
    BY <1>5, <2>1, <2>2 DEF Good, Handles, RootLacks, NameFree
  <2>4. a.ent[d].kids \subseteq DOMAIN a.ent
    BY <2>3, GoodParts DEF LinkedDown
  <2>5. k \in a.ent[d].kids \/ k = x
    BY <1>3, <2>2, <2>3
  <2> QED BY <1>3, <1>5, <2>3, <2>4, <2>5
<1> QED BY <1>2, <1>4, <1>5 DEF Fuller

\* The name is looked up, made if it is missing, and looked up again.
LEMMA LookupOrMakeIs ==
    ASSUME NEW a, Good(a), ~a.fault, NEW parent, parent # NULL, ~Dead(a, parent), NEW name, NEW P, name \in P,
           NEW b, \/ b = KinitrdGetOrCreateDirectory(a, parent, name)
                  \/ b = KinitrdOpenOrCreateFile(a, parent, name)
    PROVE  \E m : Fuller(a, m, P) /\ Good(m) /\ ~m.fault /\ Found(m, b) /\ b.fault = FALSE
<1>1. PICK l : l = KvfsLookup(a, parent, name)
  OBVIOUS
<1>2. /\ Found(a, l) /\ ~l.fault
      /\ l.ret = NULL => \/ Entry(a, parent).kind # "dir" \/ ~HasRoom(a)
                         \/ \A k \in Entry(a, parent).kids : a.ent[k].name # name
  <2>1. /\ Found(a, l) /\ (l.fault /\ ~a.fault => parent # NULL /\ Dead(a, parent))
        /\ l.ret = NULL /\ ~l.fault /\ parent # NULL =>
             \/ Entry(a, parent).kind # "dir" \/ ~HasRoom(a)
             \/ \A k \in Entry(a, parent).kids : a.ent[k].name # name
    BY <1>1, LookupIs
  <2> QED BY <2>1
<1>3. CASE l.ret # NULL
  <2>1. b = l
    BY <1>1, <1>3 DEF KinitrdGetOrCreateDirectory, KinitrdOpenOrCreateFile, LookupOrMake, Then
  <2>2. Same(a, a)
    BY GoodParts DEF Same
  <2>3. Fuller(a, a, P)
    BY <2>2, SameFuller
  <2>4. b.fault = FALSE
    BY <1>2, <2>1 DEF Found
  <2> QED BY <1>2, <2>1, <2>3, <2>4
<1>4. CASE l.ret = NULL
  <2>1. Same(a, l) /\ l.sh = a.sh
    BY <1>2, <1>4, FoundNothing
  <2>2. Good(l) /\ ~l.fault /\ IsFs(l)
    BY <1>2, <2>1, SameGood, GoodParts
  <2>3. ~Dead(l, parent) /\ parent \in DOMAIN l.node /\ l.node[parent] \in DOMAIN l.ent
    BY <2>1 DEF Same, Dead
  <2>4. \E kind \in {"dir", "reg"} : \E mode, k :
          /\ k = KtmpfsCreate(l, parent, name, kind, mode)
          /\ b = IF k.ret = NULL THEN k ELSE KvfsLookup(k, parent, name)
    <3>1. \A mode : KvfsMkdir(l, parent, name, mode) = KtmpfsCreate(l, parent, name, "dir", mode)
      BY <2>2, <2>3, GuardPasses DEF KvfsMkdir, KtmpfsMkdir
    <3>2. \A mode : KvfsCreate(l, parent, name, mode) = KtmpfsCreate(l, parent, name, "reg", mode)
      BY <2>2, <2>3, GuardPasses DEF KvfsCreate
    <3>3. CASE b = KinitrdGetOrCreateDirectory(a, parent, name)
      <4>1. PICK mode : mode = <<7, 5, 5>>
        OBVIOUS
      <4>2. PICK k : k = KvfsMkdir(l, parent, name, mode)
        OBVIOUS
      <4>3. b = IF k.ret = NULL THEN k ELSE KvfsLookup(k, parent, name)
        BY <1>1, <1>4, <3>3, <4>1, <4>2 DEF KinitrdGetOrCreateDirectory, LookupOrMake, Then
      <4> QED BY <3>1, <4>2, <4>3
    <3>4. CASE b = KinitrdOpenOrCreateFile(a, parent, name)
      <4>1. PICK mode : mode = <<6, 4, 4>>
        OBVIOUS
      <4>2. PICK k : k = KvfsCreate(l, parent, name, mode)
        OBVIOUS
      <4>3. b = IF k.ret = NULL THEN k ELSE KvfsLookup(k, parent, name)
        BY <1>1, <1>4, <3>4, <4>1, <4>2 DEF KinitrdOpenOrCreateFile, LookupOrMake, Then
      <4> QED BY <3>2, <4>2, <4>3
    <3> QED BY <3>3, <3>4
  <2>5. PICK kind \in {"dir", "reg"} : \E mode, k :
          /\ k = KtmpfsCreate(l, parent, name, kind, mode)
          /\ b = IF k.ret = NULL THEN k ELSE KvfsLookup(k, parent, name)
    BY <2>4
  <2>6. PICK mode, k : /\ k = KtmpfsCreate(l, parent, name, kind, mode)
                       /\ b = IF k.ret = NULL THEN k ELSE KvfsLookup(k, parent, name)
    BY <2>5
  <2>7. /\ k.ret = NULL => Same(l, k) /\ k.sh = l.sh
        /\ k.ret # NULL => /\ l.ent[l.node[parent]].kind = "dir" /\ HasRoom(l)
                           /\ \E x : Added(l, k, l.node[parent], x, name)
    <3>1. kind \in {"dir", "reg", "chr"}
      OBVIOUS
    <3> QED BY ONLY <2>2, <2>3, <2>6, <3>1, CreateIs
  <2>8. CASE k.ret = NULL
    <3>1. b = k
      BY <2>6, <2>8
    <3>2. Same(a, k) /\ k.sh = a.sh
      BY <2>1, <2>7, <2>8 DEF Same
    <3>3. Fuller(a, k, P) /\ Good(k) /\ k.fault = FALSE
      BY <3>2, SameFuller, SameGood, GoodParts DEF Same
    <3>4. Found(k, k)
      BY <2>8, <3>2, <3>3 DEF Found, Rest, Same
    <3> QED BY <3>1, <3>3, <3>4
  <2>9. CASE k.ret # NULL
    <3>1. PICK p, x : p = l.node[parent] /\ Added(l, k, p, x, name)
      BY <2>7, <2>9
    <3>2. HasRoom(a) /\ a.ent = l.ent /\ a.node = l.node
      BY <2>1, <2>7, <2>9, SameRoom DEF Same
    <3>3. NameFree(l.ent, p, name)
      BY <1>2, <1>4, <2>7, <2>9, <3>1, <3>2 DEF NameFree, Entry
    <3>4. Fuller(l, k, P) /\ Good(k)
      BY <2>2, <3>1, <3>3, AddedFuller, AddedGood
    <3>5. Fuller(a, k, P)
      <4>1. Made(a, k)
        BY <2>1, <3>4, MadeSame DEF Fuller
      <4>2. Data(l, "freed") = Data(a, "freed") /\ \A w : RootLacks(l, w) <=> RootLacks(a, w)
        BY <2>1 DEF Same, Data, RootLacks
      <4> QED BY <3>4, <4>1, <4>2 DEF Fuller
    <3>6. k.fault = FALSE /\ ~Dead(k, parent)
      <4>1. k.fault = l.fault /\ \A n : ~Dead(l, n) => ~Dead(k, n)
        BY <2>2, <3>4, MadeGood DEF Fuller, Made
      <4> QED BY <2>2, <2>3, <4>1, GoodParts
    <3>7. b = KvfsLookup(k, parent, name)
      BY <2>6, <2>9
    <3>8. Found(k, b) /\ (b.fault /\ ~k.fault => Dead(k, parent))
      BY <3>4, <3>7, LookupIs
    <3>9. b.fault = FALSE
      BY <3>6, <3>8 DEF Found
    <3> QED BY <3>4, <3>5, <3>6, <3>8, <3>9
  <2> QED BY <2>8, <2>9
<1> QED BY <1>3, <1>4

\* Where a walk that may make entries with names in P stands: nowhere, at the
\* root or at a node of its own.
Walk(s, a, P) ==
    /\ Rest(s, a) /\ Good(a) /\ a.fault = FALSE
    /\ Data(a, "freed") # {} => Data(s, "freed") # {}
    /\ \A w : w \notin P /\ RootLacks(s, w) => RootLacks(a, w)
    /\ \/ a.ret \in {NULL, s.root} /\ a.node = s.node
       \/ \E e \in DOMAIN a.ent : NodeFor(s, a, e)

LEMMA WalkAlive ==
    ASSUME NEW s, Good(s), NEW a, NEW P, Walk(s, a, P), a.ret # NULL
    PROVE  a.ret \in DOMAIN a.node /\ ~Dead(a, a.ret)
<1>1. CASE a.ret = s.root /\ a.node = s.node
  <2>1. a.root = a.ret /\ Good(a) /\ a.root # NULL
    BY <1>1 DEF Walk, Rest
  <2> QED BY <2>1, RootAlive
<1>2. CASE \E e \in DOMAIN a.ent : NodeFor(s, a, e)
  BY <1>2 DEF NodeFor, Put, Dead
<1> QED BY <1>1, <1>2 DEF Walk

LEMMA NewApart ==
    ASSUME NEW s, Good(s), NEW x \in New(s), NEW b, Rest(s, b)
    PROVE  x \notin {NULL, b.root} /\ x \notin DescNodes(b) /\ x \notin DOMAIN s.node
<1>1. x \notin Kept(s) /\ Kept(b) = Kept(s)
  BY NewNotKept, RestKept
<1> QED BY <1>1 DEF Kept, New, Rest

\* The parent's own node is closed.
LEMMA ParentBack ==
    ASSUME NEW s, Good(s), NEW a, NEW P, Walk(s, a, P), a.ret # NULL, NEW d, Good(d), Rest(a, d),
           d.node = a.node, NEW r, r = CloseUnlessRoot(d, a.ret)
    PROVE  /\ Rest(s, r) /\ Good(r) /\ r.node = s.node /\ r.ent = d.ent /\ r.ret = d.ret
           /\ r.fault = d.fault
<1>1. Rest(s, a) /\ Rest(s, d) /\ d.root = s.root
  BY DEF Walk, Rest
<1>2. PICK x : x = a.ret
  OBVIOUS
<1>3. CASE x = s.root
  <2>1. r = d
    BY <1>1, <1>2, <1>3 DEF CloseUnlessRoot
  <2>2. a.node = s.node
    <3>1. ~\E e \in DOMAIN a.ent : NodeFor(s, a, e)
      <4>1. s.root \in DOMAIN s.node
        BY <1>2, <1>3, RootAlive
      <4> QED BY <1>2, <1>3, <4>1 DEF NodeFor, New
    <3> QED BY <3>1 DEF Walk
  <2> QED BY <1>1, <2>1, <2>2
<1>4. CASE x # s.root
  <2>1. PICK e : x \in New(s) /\ a.node = Put(s.node, x, e)
    BY <1>2, <1>4 DEF Walk, NodeFor
  <2>2. x \notin {NULL, d.root} /\ x \notin DescNodes(d) /\ x \notin DOMAIN s.node
    BY <1>1, <2>1, NewApart
  <2>3. r = KvfsClose(d, x)
    BY <1>1, <1>2, <1>4 DEF CloseUnlessRoot
  <2>4. x \in DOMAIN d.node /\ IsFs(d) /\ x \notin {NULL, d.root}
    BY <1>1, <2>1, <2>2 DEF Put, Rest
  <2>5. /\ Rest(d, r) /\ r.ent = d.ent /\ r.fault = d.fault /\ r.ret = d.ret
        /\ r.node = Restrict(d.node, DOMAIN d.node \ {x})
    BY <2>3, <2>4, CloseIs
  <2>6. Without(d, r, x)
    BY <2>5 DEF Without, Rest
  <2>7. Good(r)
    BY <2>2, <2>6, WithoutGood
  <2>8. r.node = s.node
    <3>1. IsFun(s.node)
      BY GoodParts
    <3>2. Restrict(a.node, DOMAIN a.node \ {x}) = s.node
      BY ONLY <2>1, <2>2, <3>1, PutAndBack
    <3> QED BY <2>5, <3>2
  <2>9. Rest(s, r)
    BY <1>1, <2>5 DEF Rest
  <2> QED BY <2>5, <2>7, <2>8, <2>9
<1> QED BY <1>3, <1>4

\* The child's node stays, the parent's is closed.
LEMMA ChildTaken ==
    ASSUME NEW s, Good(s), NEW a, NEW P, Walk(s, a, P), a.ret # NULL, NEW b, Good(b), Rest(a, b),
           NEW e \in DOMAIN b.ent, b.ret \in New(a), b.node = Put(a.node, b.ret, e),
           NEW r, r = CloseUnlessRoot(b, a.ret)
    PROVE  /\ Rest(s, r) /\ Good(r) /\ NodeFor(s, r, e) /\ r.ent = b.ent /\ r.fault = b.fault
<1>1. Rest(s, a) /\ Rest(s, b) /\ b.root = s.root /\ a.cwd = s.cwd
  BY DEF Walk, Rest
<1>2. PICK x, y : x = a.ret /\ y = b.ret
  OBVIOUS
<1>3. CASE x = s.root
  <2>1. r = b
    BY <1>1, <1>2, <1>3 DEF CloseUnlessRoot
  <2>2. a.node = s.node
    <3>1. ~\E k \in DOMAIN a.ent : NodeFor(s, a, k)
      <4>1. s.root \in DOMAIN s.node
        BY <1>2, <1>3, RootAlive
      <4> QED BY <1>2, <1>3, <4>1 DEF NodeFor, New
    <3> QED BY <3>1 DEF Walk
  <2>3. NodeFor(s, r, e)
    BY <1>1, <2>1, <2>2 DEF NodeFor, New
  <2> QED BY <1>1, <2>1, <2>3
<1>4. CASE x # s.root
  <2>1. PICK k : x \in New(s) /\ a.node = Put(s.node, x, k)
    BY <1>2, <1>4 DEF Walk, NodeFor
  <2>2. x \notin {NULL, b.root} /\ x \notin DescNodes(b) /\ x \notin DOMAIN s.node
    BY <1>1, <2>1, NewApart
  <2>3. r = KvfsClose(b, x)
    BY <1>1, <1>2, <1>4 DEF CloseUnlessRoot
  <2>4. /\ y \in New(s) /\ x # y /\ DOMAIN b.node = DOMAIN s.node \cup {x, y}
        /\ b.node = Put(Put(s.node, x, k), y, e)
    BY <1>1, <1>2, <2>1 DEF New, Put
  <2>5. x \in DOMAIN b.node /\ IsFs(b) /\ x \notin {NULL, b.root}
    BY <1>1, <2>2, <2>4 DEF Rest
  <2>6. /\ Rest(b, r) /\ r.ent = b.ent /\ r.fault = b.fault /\ r.ret = b.ret
        /\ r.node = Restrict(b.node, DOMAIN b.node \ {x})
    BY <2>3, <2>5, CloseIs
  <2>7. Without(b, r, x)
    BY <2>6 DEF Without, Rest
  <2>8. Good(r)
    BY <2>2, <2>7, WithoutGood
  <2>9. r.node = Put(s.node, y, e)
    <3>1. IsFun(s.node)
      BY GoodParts
    <3>2. Restrict(b.node, DOMAIN b.node \ {x}) = Put(s.node, y, e)
      BY ONLY <2>2, <2>4, <3>1, PutTwoTakeFirst
    <3> QED BY <2>6, <3>2
  <2>10. Rest(s, r)
    BY <1>1, <2>6 DEF Rest
  <2> QED BY <1>2, <2>4, <2>6, <2>8, <2>9, <2>10 DEF NodeFor
<1> QED BY <1>3, <1>4

\* One component.
LEMMA EnsuredIs ==
    ASSUME NEW s, Good(s), NEW a, NEW P, Walk(s, a, P), NEW name \in P, NEW r, r = Ensured(a, name)
    PROVE  Walk(s, r, P)
<1>1. CASE a.ret = NULL
  BY <1>1 DEF Ensured
<1>2. CASE a.ret # NULL
  <2>1. PICK b : b = KinitrdGetOrCreateDirectory(a, a.ret, name)
    OBVIOUS
  <2>2. r = CloseUnlessRoot(b, a.ret)
    BY <1>2, <2>1 DEF Ensured, Then
  <2>3. Good(a) /\ ~a.fault /\ ~Dead(a, a.ret)
    BY <1>2, WalkAlive DEF Walk
  <2>4. PICK m : Fuller(a, m, P) /\ Good(m) /\ ~m.fault /\ Found(m, b) /\ b.fault = FALSE
    BY <1>2, <2>1, <2>3, LookupOrMakeIs
  <2>5. Good(b)
    BY <2>4, FoundGood
  <2>6. Rest(a, m) /\ m.node = a.node /\ Rest(m, b) /\ b.ent = m.ent
    BY <2>4 DEF Fuller, Made, Found
  <2>7. Rest(a, b) /\ New(m) = New(a)
    BY <2>6 DEF Rest, New
  <2>8. /\ Data(b, "freed") # {} => Data(s, "freed") # {}
        /\ \A w : w \notin P /\ RootLacks(s, w) => RootLacks(m, w)
    BY <2>4, <2>6 DEF Walk, Fuller, Data
  <2>9. CASE b.ret = NULL
    <3>1. b.node = a.node
      <4>1. b.node = m.node
        BY <2>4, <2>9 DEF Found, NodeFor, New
      <4> QED BY <2>6, <4>1
    <3>2. Rest(s, r) /\ Good(r) /\ r.node = s.node /\ r.ent = b.ent /\ r.ret = b.ret /\ r.fault = b.fault
      BY <1>2, <2>2, <2>5, <2>7, <3>1, ParentBack
    <3>3. Data(r, "freed") = Data(b, "freed")
      BY <3>2 DEF Data
    <3>4. \A w : RootLacks(m, w) => RootLacks(r, w)
      <4>1. r.root = m.root /\ m.root = s.root /\ r.ent = m.ent
        BY <2>6, <3>2 DEF Rest, Walk
      <4>2. m.root # NULL => r.node[m.root] = m.node[m.root]
        <5>1. m.root # NULL => s.root \in DOMAIN s.node
          BY <4>1, RootAlive
        <5>2. \A n \in DOMAIN s.node : a.node[n] = s.node[n]
          BY DEF Walk, NodeFor, New, Put
        <5> QED BY <2>6, <3>2, <4>1, <5>1, <5>2
      <4> QED BY <4>1, <4>2 DEF RootLacks
    <3> QED BY <2>4, <2>8, <2>9, <3>2, <3>3, <3>4 DEF Walk
  <2>10. CASE b.ret # NULL
    <3>1. PICK e \in DOMAIN m.ent : NodeFor(m, b, e)
      BY <2>4, <2>10 DEF Found
    <3>2. e \in DOMAIN b.ent /\ b.ret \in New(a) /\ b.node = Put(a.node, b.ret, e)
      BY <2>6, <2>7, <3>1 DEF NodeFor
    <3>3. Rest(s, r) /\ Good(r) /\ NodeFor(s, r, e) /\ r.ent = b.ent /\ r.fault = b.fault
      BY <1>2, <2>2, <2>5, <2>7, <3>2, ChildTaken
    <3>4. Data(r, "freed") = Data(b, "freed")
      BY <3>3 DEF Data
    <3>5. \A w : RootLacks(m, w) => RootLacks(r, w)
      <4>1. r.root = m.root /\ m.root = s.root /\ r.ent = m.ent
        BY <2>6, <3>3 DEF Rest, Walk
      <4>2. m.root # NULL => r.node[m.root] = m.node[m.root]
        <5>1. m.root # NULL => s.root \in DOMAIN s.node
          BY <4>1, RootAlive
        <5>2. \A n \in DOMAIN s.node : a.node[n] = s.node[n] /\ r.node[n] = s.node[n]
          BY <3>3 DEF Walk, NodeFor, New, Put
        <5> QED BY <2>6, <3>3, <4>1, <5>1, <5>2
      <4> QED BY <4>1, <4>2 DEF RootLacks
    <3>6. e \in DOMAIN r.ent
      BY <3>2, <3>3
    <3> QED BY <2>4, <2>8, <3>3, <3>4, <3>5, <3>6 DEF Walk
  <2> QED BY <2>9, <2>10
<1> QED BY <1>1, <1>2

\* The states of kinitrd_ensure_directory's loop.
EnsuredFn(s, names, n, g) ==
    g = [i \in 0 .. n |-> IF i = 0 THEN [s EXCEPT !.ret = s.root] ELSE Ensured(g[i - 1], names[i])]

LEMMA EnsuredThere ==
    ASSUME NEW s, NEW names
    PROVE  \A n \in Nat : \E g : EnsuredFn(s, names, n, g)
<1> DEFINE Bad == {n \in Nat : ~ \E g : EnsuredFn(s, names, n, g)}
<1>1. SUFFICES ASSUME Bad # {} PROVE FALSE
  OBVIOUS
<1>2. PICK n \in Bad : \A m \in Bad : n <= m
  <2>1. Bad \subseteq Nat
    OBVIOUS
  <2> HIDE DEF Bad
  <2> QED BY <1>1, <2>1, LeastIn
<1>3. n \in Nat /\ ~ \E g : EnsuredFn(s, names, n, g)
  BY <1>2
<1>4. CASE n = 0
  <2>1. PICK g : g = [i \in 0 .. 0 |-> [s EXCEPT !.ret = s.root]]
    OBVIOUS
  <2>2. EnsuredFn(s, names, 0, g)
    BY <2>1 DEF EnsuredFn
  <2> QED BY <1>3, <1>4, <2>2
<1>5. CASE n # 0
  <2>1. n - 1 \in Nat /\ n - 1 \notin Bad
    BY <1>2, <1>3, <1>5
  <2>2. PICK g : EnsuredFn(s, names, n - 1, g)
    BY <2>1
  <2>3. PICK h : h = [i \in 0 .. n |-> IF i = n THEN Ensured(g[n - 1], names[n]) ELSE g[i]]
    OBVIOUS
  <2>4. ASSUME NEW i \in 0 .. n
        PROVE  h[i] = IF i = 0 THEN [s EXCEPT !.ret = s.root] ELSE Ensured(h[i - 1], names[i])
    <3>1. \A j \in 0 .. n - 1 : g[j] = IF j = 0 THEN [s EXCEPT !.ret = s.root] ELSE Ensured(g[j - 1], names[j])
      BY <2>2 DEF EnsuredFn
    <3>2. CASE i = n
      <4>1. h[i] = Ensured(g[i - 1], names[i]) /\ h[i - 1] = g[i - 1]
        BY <1>3, <1>5, <2>3, <3>2
      <4> QED BY <1>5, <3>2, <4>1
    <3>3. CASE i # n
      <4>1. h[i] = g[i] /\ i \in 0 .. n - 1 /\ (i # 0 => h[i - 1] = g[i - 1])
        BY <1>3, <2>3, <3>3
      <4> QED BY <3>1, <4>1
    <3> QED BY <3>2, <3>3
  <2>5. EnsuredFn(s, names, n, h)
    BY <2>3, <2>4 DEF EnsuredFn
  <2> QED BY <1>3, <2>5
<1> QED BY <1>4, <1>5

LEMMA EnsureRuns ==
    ASSUME NEW s, NEW parts, NEW names, names = KinitrdComponents(parts), Len(names) \in Nat
    PROVE  \E g : /\ g[0] = [s EXCEPT !.ret = s.root]
                  /\ \A i \in 1 .. Len(names) : g[i] = Ensured(g[i - 1], names[i])
                  /\ KinitrdEnsureDirectory(s, parts) = g[Len(names)]
<1>1. \E g : EnsuredFn(s, names, Len(names), g)
  BY EnsuredThere
<1>2. PICK g : g = CHOOSE h : EnsuredFn(s, names, Len(names), h)
  OBVIOUS
<1>3. EnsuredFn(s, names, Len(names), g)
  BY <1>1, <1>2
<1>4. KinitrdEnsureDirectory(s, parts) = g[Len(names)]
  BY <1>2 DEF KinitrdEnsureDirectory, EnsuredFn
<1>5. \A i \in 0 .. Len(names) :
        g[i] = IF i = 0 THEN [s EXCEPT !.ret = s.root] ELSE Ensured(g[i - 1], names[i])
  BY <1>3 DEF EnsuredFn
<1>6. g[0] = [s EXCEPT !.ret = s.root]
  BY <1>5
<1>7. \A i \in 1 .. Len(names) : g[i] = Ensured(g[i - 1], names[i])
  BY <1>5
<1> QED BY <1>4, <1>6, <1>7

LEMMA EnsureIs ==
    ASSUME NEW s, Good(s), ~s.fault, NEW P, NEW parts \in Seq(P), NEW r, r = KinitrdEnsureDirectory(s, parts)
    PROVE  Walk(s, r, P)
<1>1. PICK names : names = KinitrdComponents(parts)
  OBVIOUS
<1>2. names \in Seq(P) /\ Len(names) \in Nat
  <2>1. names = IF parts # <<>> /\ Head(parts) = "/" THEN Tail(parts) ELSE parts
    BY <1>1 DEF KinitrdComponents
  <2> QED BY <2>1
<1>3. PICK g : /\ g[0] = [s EXCEPT !.ret = s.root]
               /\ \A i \in 1 .. Len(names) : g[i] = Ensured(g[i - 1], names[i])
               /\ KinitrdEnsureDirectory(s, parts) = g[Len(names)]
  BY ONLY <1>1, <1>2, EnsureRuns
<1>4. Walk(s, g[0], P)
  <2>1. PICK a : a = [s EXCEPT !.ret = s.root]
    OBVIOUS
  <2>2. IsFs(s) /\ s.fault = FALSE
    BY GoodParts
  <2>3. Same(s, a) /\ a.sh = s.sh /\ a.ret = s.root
    BY ONLY <2>1, <2>2 DEF Same, IsFs
  <2>4. Good(a)
    BY <2>3, SameGood
  <2>5. Rest(s, a) /\ a.fault = FALSE /\ a.node = s.node /\ Data(a, "freed") = Data(s, "freed")
        /\ \A w : RootLacks(s, w) => RootLacks(a, w)
    BY <2>2, <2>3 DEF Same, Rest, Data, RootLacks
  <2>6. Walk(s, a, P)
    BY <2>3, <2>4, <2>5 DEF Walk
  <2> QED BY <1>3, <2>1, <2>6
<1> DEFINE Bad == {i \in 0 .. Len(names) : ~Walk(s, g[i], P)}
<1>5. SUFFICES ASSUME Bad # {} PROVE FALSE
  <2>1. Len(names) \in 0 .. Len(names)
    BY <1>2
  <2> QED BY <1>3, <1>5, <2>1
<1>6. PICK n \in Bad : \A m \in Bad : n <= m
  <2>1. Bad \subseteq Nat
    BY <1>2
  <2> HIDE DEF Bad
  <2> QED BY <1>5, <2>1, LeastIn
<1>7. n \in 1 .. Len(names)
  BY <1>2, <1>4, <1>6
<1>8. Walk(s, g[n - 1], P)
  <2>1. n - 1 \in 0 .. Len(names) /\ ~(n <= n - 1)
    BY <1>2, <1>7
  <2> QED BY <1>6, <2>1
<1>9. PICK a, b, x : a = g[n - 1] /\ b = g[n] /\ x = names[n]
  OBVIOUS
<1>10. x \in P /\ b = Ensured(a, x)
  BY <1>2, <1>3, <1>7, <1>9
<1>11. Walk(s, b, P)
  BY <1>8, <1>9, <1>10, EnsuredIs
<1> QED BY <1>6, <1>9, <1>11

\* What unpacking an entry leaves of s: more entries, nothing else.
Unpacked(s, r, P) ==
    IF r.fault THEN Data(s, "freed") # {}
    ELSE /\ Rest(s, r) /\ Good(r) /\ r.node = s.node
         /\ \A w : w \notin P /\ RootLacks(s, w) => RootLacks(r, w)

LEMMA WalkBack ==
    ASSUME NEW s, Good(s), NEW a, NEW P, Walk(s, a, P), a.ret = NULL
    PROVE  Unpacked(s, a, P)
<1>1. a.node = s.node
  BY DEF Walk, NodeFor, New
<1> QED BY <1>1 DEF Walk, Unpacked

LEMMA RootLacksSame ==
    ASSUME NEW a, NEW r, r.root = a.root, r.ent = a.ent, r.node = a.node, NEW w, RootLacks(a, w)
    PROVE  RootLacks(r, w)
  BY DEF RootLacks

LEMMA UnpackDirectoryIs ==
    ASSUME NEW s, Good(s), Tidy(s), ~s.fault, NEW e, IsPath(e.path), NEW P, P = Parts(e.path),
           NEW r, r = KinitrdUnpackDirectory(s, e)
    PROVE  Unpacked(s, r, P)
<1>1. PICK parts : parts = KinitrdSplitEntryPath(e.path)
  OBVIOUS
<1>2. parts \in Seq(P)
  <2>1. KvfsSplitPath(e.path) \in Seq(P) /\ <<>> \in Seq(P)
    BY SplitIs
  <2> QED BY <1>1, <2>1 DEF KinitrdSplitEntryPath
<1>3. CASE parts = <<>>
  <2>1. r = Fail(s)
    BY <1>1, <1>3 DEF KinitrdUnpackDirectory
  <2>2. Same(s, r) /\ r.sh = s.sh
    BY <2>1, FailIs
  <2>3. Good(r) /\ Rest(s, r) /\ r.node = s.node /\ r.fault = FALSE
    BY <2>2, SameGood, GoodParts DEF Same, Rest
  <2>4. r.root = s.root /\ r.ent = s.ent
    BY <2>2 DEF Same
  <2> QED BY <2>3, <2>4, RootLacksSame DEF Unpacked
<1>4. CASE parts # <<>>
  <2>1. PICK a : a = KinitrdEnsureDirectory(s, parts)
    OBVIOUS
  <2>2. r = IF a.ret = NULL THEN a ELSE Ok(CloseUnlessRoot(a, a.ret))
    BY <1>1, <1>4, <2>1 DEF KinitrdUnpackDirectory, Then
  <2>3. Walk(s, a, P)
    BY <1>2, <2>1, EnsureIs
  <2>4. CASE a.ret = NULL
    BY <2>2, <2>3, <2>4, WalkBack
  <2>5. CASE a.ret # NULL
    <3>1. PICK b : b = CloseUnlessRoot(a, a.ret)
      OBVIOUS
    <3>2. Good(a) /\ Rest(a, a) /\ a.fault = FALSE
      BY <2>3 DEF Walk, Rest
    <3>3. /\ Rest(s, b) /\ Good(b) /\ b.node = s.node /\ b.ent = a.ent /\ b.fault = a.fault
      BY <2>3, <2>5, <3>1, <3>2, ParentBack
    <3>4. r = Ok(b)
      BY <2>2, <2>5, <3>1
    <3>5. Same(b, r) /\ r.sh = b.sh
      BY <3>3, <3>4 DEF Ok, Rest, Same, IsFs
    <3>6. Rest(s, r) /\ Good(r) /\ r.node = s.node /\ r.fault = FALSE /\ r.ent = a.ent
      BY <3>2, <3>3, <3>5, SameGood DEF Same, Rest
    <3>7. ASSUME NEW w, RootLacks(a, w) PROVE RootLacks(r, w)
      <4>1. r.root = s.root /\ a.root = s.root
        BY <2>3, <3>6 DEF Rest, Walk
      <4>2. s.root # NULL => a.node[s.root] = s.node[s.root]
        <5>1. s.root # NULL => s.root \in DOMAIN s.node
          BY RootAlive
        <5> QED BY <2>3, <5>1 DEF Walk, NodeFor, New, Put
      <4> QED BY <3>6, <3>7, <4>1, <4>2 DEF RootLacks
    <3> QED BY <2>3, <3>6, <3>7 DEF Unpacked, Walk
  <2> QED BY <2>4, <2>5
<1> QED BY <1>3, <1>4

\* The file's data is written, its node and its parent's are closed.
LEMMA UnpackDataIs ==
    ASSUME NEW s, Good(s), NEW a, NEW P, Walk(s, a, P), a.ret # NULL,
           NEW m, Fuller(a, m, P), Good(m), ~m.fault, NEW b, Found(m, b), b.fault = FALSE, b.ret # NULL,
           NEW size \in 0 .. MaxSize, NEW c, c = KinitrdWriteFileData(b, b.ret, size),
           NEW r, r = CloseUnlessRoot(KvfsClose(c, b.ret), a.ret)
    PROVE  Unpacked(s, r, P)
<1>1. PICK y : y = b.ret
  OBVIOUS
<1>2. Rest(a, m) /\ m.node = a.node /\ Rest(m, b) /\ b.ent = m.ent
  BY DEF Fuller, Made, Found
<1>3. Good(b) /\ ~Dead(b, y) /\ IsFs(b)
  BY <1>1, FoundGood, FoundAlive, GoodParts
<1>4. PICK k : y \in New(a) /\ b.node = Put(a.node, y, k)
  <2>1. PICK k \in DOMAIN m.ent : NodeFor(m, b, k)
    BY DEF Found
  <2>2. New(m) = New(a)
    BY <1>2 DEF New, Rest
  <2> QED BY <1>1, <1>2, <2>1, <2>2 DEF NodeFor
<1>5. Good(a) /\ Rest(a, b)
  BY <1>2 DEF Walk, Rest
<1>6. PICK d : d = KvfsClose(c, y)
  OBVIOUS
<1>7. r = CloseUnlessRoot(d, a.ret)
  BY <1>1, <1>6
<1>8. /\ c.sh = b.sh
      /\ c.fault => Data(b, "freed") # {}
      /\ ~c.fault => Same(b, c) \/ \E e : Written(b, c, e)
  <2>1. CASE size = 0
    <3>1. c = Ok(b)
      BY <2>1 DEF KinitrdWriteFileData
    <3>2. Same(b, c) /\ c.sh = b.sh
      BY <1>3, <3>1 DEF Ok, Same, IsFs
    <3>3. ~c.fault
      BY <3>2 DEF Same
    <3> QED BY <3>2, <3>3
  <2>2. CASE size # 0
    <3>1. c = KvfsWrite(b, y, 0, size)
      BY <1>1, <2>2 DEF KinitrdWriteFileData
    <3>2. size \in Nat /\ 0 + size <= MaxSize /\ 0 \in Nat
      BY FilesAssumption
    <3>3. ~Dead(b, y) /\ Entry(b, y).kind = "reg" => 0 <= Entry(b, y).size
      <4>1. b.node[y] \in DOMAIN b.ent /\ y \in DOMAIN b.node
        BY <1>3 DEF Dead
      <4>2. EntryOK(b.ent[b.node[y]])
        BY <1>3, <4>1, GoodParts
      <4> QED BY <4>2, FilesAssumption DEF EntryOK, Entry
    <3>4. y # NULL /\ ~b.fault
      BY <1>1
    <3>5. /\ c.sh = b.sh /\ (c.fault => Dead(b, y) \/ Data(b, "freed") # {})
          /\ ~c.fault => Same(b, c) \/ Written(b, c, b.node[y])
      BY ONLY <1>3, <3>1, <3>2, <3>3, <3>4, WriteIs
    <3> QED BY <1>3, <3>5
  <2> QED BY <2>1, <2>2
<1>9. CASE c.fault
  <2>1. IsFs(c) /\ c.fault = TRUE
    <3>1. CASE size = 0
      BY <1>3, <1>9, <3>1 DEF KinitrdWriteFileData, Ok, IsFs
    <3>2. CASE size # 0
      <4>1. c = KvfsWrite(b, y, 0, size)
        BY <1>1, <3>2 DEF KinitrdWriteFileData
      <4>2. ~b.fault /\ y # NULL
        BY <1>1
      <4>3. c = KtmpfsWrite(b, y, 0, size)
        BY <1>3, <4>1, <4>2, GuardPasses DEF KvfsWrite
      <4>4. c = Fault(b)
        <5>1. PICK e : e = b.node[y]
          OBVIOUS
        <5>2. CASE b.ent[e].kind = "reg" /\ b.ent[e].buf = "freed"
          BY <4>3, <5>1, <5>2 DEF KtmpfsWrite
        <5>3. CASE b.ent[e].kind = "chr"
          <6>1. c = KfsVgaWrite(b, size)
            BY <4>3, <5>1, <5>3 DEF KtmpfsWrite
          <6> QED BY <1>3, <1>9, <4>2, <6>1 DEF KfsVgaWrite, IsFs
        <5>4. CASE b.ent[e].kind = "dir"
          <6>1. c = Fail(b)
            BY <4>3, <5>1, <5>4 DEF KtmpfsWrite
          <6> QED BY <1>3, <1>9, <4>2, <6>1 DEF Fail, IsFs
        <5>5. CASE b.ent[e].kind = "reg" /\ b.ent[e].buf # "freed"
          <6>1. e \in DOMAIN b.ent /\ EntryOK(b.ent[e])
            BY <1>3, <5>1, GoodParts DEF Dead
          <6>2. PICK g : g = IF 0 + size > b.ent[e].cap THEN KtmpfsGrow(b, e, 0 + size) ELSE Ok(b)
            OBVIOUS
          <6>3. c = IF g.ret = NULL THEN g
                    ELSE [g EXCEPT !.ent = Put(g.ent, e, KvfsStatUpdateSize(g.ent[e], Max({g.ent[e].size, 0 + size}))),
                                   !.ret = size]
            BY <4>3, <5>1, <5>5, <6>2 DEF KtmpfsWrite, Then
          <6>4. 0 \in Nat /\ size \in Nat /\ 0 + size <= MaxSize /\ 0 <= b.ent[e].size /\ ~b.fault
            BY <4>2, <6>1, FilesAssumption DEF EntryOK
          <6>5. Written(b, c, e)
            BY ONLY <1>3, <5>5, <6>1, <6>2, <6>3, <6>4, FileWrite
          <6> QED BY <1>9, <4>2, <6>5 DEF Written
        <5>6. b.ent[e].kind \in {"dir", "reg", "chr"}
          BY <1>3, <5>1, GoodParts DEF Dead, EntryOK
        <5> QED BY <5>2, <5>3, <5>4, <5>5, <5>6
      <4> QED BY <1>3, <4>4 DEF Fault, IsFs
    <3> QED BY <3>1, <3>2
  <2>2. d.fault = TRUE /\ IsFs(d)
    BY <1>6, <2>1 DEF KvfsClose, Fault, IsFs
  <2>3. r.fault = TRUE
    BY <1>7, <2>2 DEF CloseUnlessRoot, KvfsClose, Fault, IsFs
  <2>4. Data(m, "freed") = Data(b, "freed")
    BY <1>2 DEF Data
  <2>5. Data(s, "freed") # {}
    BY <1>8, <1>9, <2>4 DEF Fuller, Walk
  <2> QED BY <2>3, <2>5 DEF Unpacked
<1>10. CASE ~c.fault
  <2>1. Good(c) /\ Rest(b, c) /\ c.node = b.node /\ c.fault = FALSE
    <3>1. CASE Same(b, c)
      BY <1>3, <1>8, <3>1, SameGood DEF Same, Rest
    <3>2. CASE \E e : Written(b, c, e)
      BY <1>3, <3>2, WrittenGood DEF Written
    <3> QED BY <1>8, <1>10, <3>1, <3>2
  <2>2. \A w : RootLacks(m, w) => RootLacks(c, w)
    <3>1. /\ DOMAIN c.ent = DOMAIN b.ent
          /\ \A x \in DOMAIN b.ent : c.ent[x].kids = b.ent[x].kids /\ c.ent[x].name = b.ent[x].name
      <4>1. CASE Same(b, c)
        BY <4>1 DEF Same
      <4>2. CASE \E e : Written(b, c, e)
        BY <4>2 DEF Written, SameFile
      <4> QED BY <1>8, <1>10, <4>1, <4>2
    <3> SUFFICES ASSUME NEW w, RootLacks(m, w), c.root # NULL, NEW j \in c.ent[c.node[c.root]].kids
                 PROVE  c.ent[j].name # w
      BY DEF RootLacks, NameFree
    <3>2. PICK d0 : d0 = m.node[m.root]
      OBVIOUS
    <3>3. m.root = c.root /\ m.root # NULL /\ m.root \in DOMAIN m.node
      BY <1>2, <2>1, RootAlive DEF Rest
    <3>4. d0 \in DOMAIN m.ent /\ \A i \in m.ent[d0].kids : m.ent[i].name # w
      BY <3>2, <3>3 DEF Good, Handles, RootLacks, NameFree
    <3>5. c.node[c.root] = d0
      BY <1>2, <1>4, <2>1, <3>2, <3>3 DEF New, Put
    <3>6. j \in m.ent[d0].kids /\ m.ent[d0].kids \subseteq DOMAIN m.ent
      BY <1>2, <3>1, <3>4, <3>5, GoodParts DEF LinkedDown
    <3> QED BY <1>2, <3>1, <3>4, <3>6
  <2>3. y \notin {NULL, c.root} /\ y \notin DescNodes(c) /\ y \notin DOMAIN a.node
    <3>1. Rest(a, c)
      BY <1>5, <2>1 DEF Rest
    <3> QED BY <1>4, <1>5, <3>1, NewApart
  <2>4. IsFs(c) /\ y \in DOMAIN c.node /\ y \notin {NULL, c.root}
    BY <1>4, <2>1, <2>3 DEF Put, Rest
  <2>5. /\ Rest(c, d) /\ d.ent = c.ent /\ d.fault = c.fault
        /\ d.node = Restrict(c.node, DOMAIN c.node \ {y})
    BY ONLY <1>6, <2>4, CloseIs
  <2>6. Without(c, d, y)
    BY <2>5 DEF Without, Rest
  <2>7. Good(d)
    BY <2>1, <2>3, <2>6, WithoutGood
  <2>8. d.node = a.node
    <3>1. IsFun(a.node) /\ y \notin DOMAIN a.node
      BY <1>5, <2>3, GoodParts
    <3>2. Restrict(b.node, DOMAIN b.node \ {y}) = a.node
      BY ONLY <1>4, <3>1, PutAndBack
    <3> QED BY <2>1, <2>5, <3>2
  <2>9. Rest(a, d)
    BY <1>5, <2>1, <2>5 DEF Rest
  <2>10. /\ Rest(s, r) /\ Good(r) /\ r.node = s.node /\ r.ent = d.ent /\ r.fault = d.fault
    BY <1>7, <2>7, <2>8, <2>9, ParentBack
  <2>11. ASSUME NEW w, RootLacks(c, w) PROVE RootLacks(r, w)
    <3>1. r.root = s.root /\ c.root = s.root /\ a.root = s.root /\ r.ent = c.ent
      BY <1>5, <2>1, <2>5, <2>10 DEF Rest, Walk
    <3>2. s.root # NULL => s.root \in DOMAIN s.node
      BY RootAlive
    <3>3. \A n \in DOMAIN s.node : a.node[n] = s.node[n] /\ n \in DOMAIN a.node
      BY DEF Walk, NodeFor, New, Put
    <3>4. \A n \in DOMAIN a.node : c.node[n] = a.node[n]
      BY <1>4, <2>1 DEF New, Put
    <3> QED BY <2>10, <2>11, <3>1, <3>2, <3>3, <3>4 DEF RootLacks
  <2>12. r.fault = FALSE
    BY <2>1, <2>5, <2>10
  <2> QED BY <2>2, <2>10, <2>11, <2>12 DEF Unpacked, Walk, Fuller
<1> QED BY <1>9, <1>10

LEMMA UnpackFileIs ==
    ASSUME NEW s, Good(s), Tidy(s), ~s.fault, NEW e, IsPath(e.path), e.size \in 0 .. MaxSize,
           NEW P, P = Parts(e.path), NEW r, r = KinitrdUnpackFile(s, e)
    PROVE  Unpacked(s, r, P)
<1>1. PICK parts : parts = KinitrdSplitEntryPath(e.path)
  OBVIOUS
<1>2. parts \in Seq(P)
  <2>1. KvfsSplitPath(e.path) \in Seq(P) /\ <<>> \in Seq(P)
    BY SplitIs
  <2> QED BY <1>1, <2>1 DEF KinitrdSplitEntryPath
<1>3. PICK a : a = KinitrdResolveFileParent(s, e.path)
  OBVIOUS
<1>4. PICK name : name = LastName(e.path)
  OBVIOUS
<1>5. PICK b : b = KinitrdOpenOrCreateFile(a, a.ret, name)
  OBVIOUS
<1>6. PICK c : c = KinitrdWriteFileData(b, b.ret, e.size)
  OBVIOUS
<1>7. r = IF a.ret = NULL THEN a
          ELSE IF b.ret = NULL THEN CloseUnlessRoot(b, a.ret)
          ELSE CloseUnlessRoot(KvfsClose(c, b.ret), a.ret)
  BY <1>3, <1>4, <1>5, <1>6 DEF KinitrdUnpackFile, Then
<1>8. CASE Len(parts) < 2
  <2>1. a = Fail(s)
    BY <1>1, <1>3, <1>8 DEF KinitrdResolveFileParent
  <2>2. Same(s, a) /\ a.sh = s.sh /\ a.ret = NULL
    BY <2>1, FailIs
  <2>3. r = a
    BY <1>7, <2>2
  <2>4. Good(r) /\ Rest(s, r) /\ r.node = s.node /\ r.fault = FALSE
    BY <2>2, <2>3, SameGood, GoodParts DEF Same, Rest
  <2>5. r.root = s.root /\ r.ent = s.ent
    BY <2>2, <2>3 DEF Same
  <2> QED BY <2>4, <2>5, RootLacksSame DEF Unpacked
<1>9. CASE ~(Len(parts) < 2)
  <2>1. a = KinitrdEnsureDirectory(s, Front(parts))
    BY <1>1, <1>3, <1>9 DEF KinitrdResolveFileParent
  <2>2. Len(parts) \in Nat /\ Len(parts) >= 2
    BY <1>2, <1>9
  <2>3. PICK f : f = Front(parts)
    OBVIOUS
  <2>4. f \in Seq(P)
    <3>1. f = SubSeq(parts, 1, Len(parts) - 1)
      BY <2>3 DEF Front
    <3> QED BY <1>2, <2>2, <3>1
  <2>5. Walk(s, a, P)
    BY <2>1, <2>3, <2>4, EnsureIs
  <2>6. name \in P
    <3>1. parts = KvfsSplitPath(e.path)
      BY <1>1, <2>2 DEF KinitrdSplitEntryPath
    <3>2. name = parts[Len(parts)]
      BY <1>4, <3>1 DEF LastName, Last
    <3> QED BY <1>2, <2>2, <3>2
  <2>7. CASE a.ret = NULL
    BY <1>7, <2>5, <2>7, WalkBack
  <2>8. CASE a.ret # NULL
    <3>1. Good(a) /\ ~a.fault /\ ~Dead(a, a.ret)
      BY <2>5, <2>8, WalkAlive DEF Walk
    <3>2. PICK m : Fuller(a, m, P) /\ Good(m) /\ ~m.fault /\ Found(m, b) /\ b.fault = FALSE
      BY <1>5, <2>6, <2>8, <3>1, LookupOrMakeIs
    <3>3. CASE b.ret # NULL
      <4>1. r = CloseUnlessRoot(KvfsClose(c, b.ret), a.ret)
        BY <1>7, <2>8, <3>3
      <4> QED BY <1>6, <2>5, <2>8, <3>2, <3>3, <4>1, UnpackDataIs
    <3>4. CASE b.ret = NULL
      <4>1. r = CloseUnlessRoot(b, a.ret)
        BY <1>7, <2>8, <3>4
      <4>2. Rest(a, m) /\ m.node = a.node /\ Rest(m, b) /\ b.ent = m.ent /\ b.node = m.node
        BY <3>2, <3>4 DEF Fuller, Made, Found, NodeFor, New
      <4>3. Good(b) /\ Rest(a, b) /\ b.node = a.node
        BY <3>2, <4>2, FoundGood DEF Rest
      <4>4. Rest(s, r) /\ Good(r) /\ r.node = s.node /\ r.ent = b.ent /\ r.fault = b.fault
        BY <2>5, <2>8, <4>1, <4>3, ParentBack
      <4>5. ASSUME NEW w, RootLacks(m, w) PROVE RootLacks(r, w)
        <5>1. r.root = s.root /\ m.root = s.root /\ r.ent = m.ent
          BY <2>5, <4>2, <4>4 DEF Rest, Walk
        <5>2. s.root # NULL => s.root \in DOMAIN s.node
          BY RootAlive
        <5>3. \A n \in DOMAIN s.node : a.node[n] = s.node[n]
          BY <2>5 DEF Walk, NodeFor, New, Put
        <5> QED BY <4>2, <4>4, <4>5, <5>1, <5>2, <5>3 DEF RootLacks
      <4>6. r.fault = FALSE
        BY <3>2, <4>4
      <4> QED BY <2>5, <3>2, <4>4, <4>5, <4>6 DEF Unpacked, Walk, Fuller
    <3> QED BY <3>3, <3>4
  <2> QED BY <2>7, <2>8
<1> QED BY <1>8, <1>9

----------------------------------------------------------------------------
(* Start-up: the devices                                                   *)

\* u has just mounted /dev, whose node is n: nothing in the root leads to it.
FreshDev(u, n) ==
    /\ n \in DOMAIN u.node /\ u.node[n] \in DOMAIN u.ent
    /\ u.ent[u.node[n]].parent = NULL /\ u.ent[u.node[n]].kids = {}
    /\ u.root # NULL => u.node[u.root] # u.node[n]

\* t is u with devices whose names are in N.
Equipped(u, n, t, N) ==
    /\ Rest(u, t) /\ Good(t) /\ t.fault = FALSE /\ t.node = u.node
    /\ DOMAIN u.ent \subseteq DOMAIN t.ent
    /\ \A k \in t.ent[u.node[n]].kids : t.ent[k].name \in N
    /\ \A e \in DOMAIN u.ent \ {u.node[n]} : t.ent[e] = u.ent[e]

LEMMA SameEquipped ==
    ASSUME NEW u, NEW n, NEW t, NEW N, Equipped(u, n, t, N), NEW r, Same(t, r), r.sh = t.sh, NEW M, N \subseteq M
    PROVE  Equipped(u, n, r, M)
<1>1. Good(r)
  BY SameGood DEF Equipped
<1>2. Rest(u, r)
  BY DEF Equipped, Rest, Same
<1> QED BY <1>1, <1>2 DEF Equipped, Same

LEMMA CreateDeviceIs ==
    ASSUME NEW u, NEW n, FreshDev(u, n), NEW t, NEW N, Equipped(u, n, t, N), NEW name, name \notin N,
           NEW r, r = CreateDevice(t, n, name)
    PROVE  Equipped(u, n, r, N \cup {name})
<1>1. CASE t.ret = NULL
  <2>1. r = t
    BY <1>1 DEF CreateDevice
  <2> QED BY <2>1 DEF Equipped
<1>2. CASE t.ret # NULL
  <2>1. PICK mode, d : mode = <<6, 6, 6>> /\ d = u.node[n]
    OBVIOUS
  <2>2. r = KtmpfsCreate(t, n, name, "chr", mode)
    BY <1>2, <2>1 DEF CreateDevice
  <2>3. n \in DOMAIN t.node /\ t.node[n] = d /\ d \in DOMAIN t.ent /\ Good(t)
    BY <2>1 DEF Equipped, Rest, FreshDev
  <2>4. /\ r.ret = NULL => Same(t, r) /\ r.sh = t.sh
        /\ r.ret # NULL => \E x : Added(t, r, d, x, name)
    BY <2>2, <2>3, CreateIs
  <2>5. CASE r.ret = NULL
    BY <2>4, <2>5, SameEquipped
  <2>6. CASE r.ret # NULL
    <3>1. PICK x : Added(t, r, d, x, name)
      BY <2>4, <2>6
    <3>2. NameFree(t.ent, d, name)
      BY <2>1 DEF NameFree, Equipped
    <3>3. Good(r)
      BY <2>3, <3>1, <3>2, AddedGood
    <3>4. Rest(u, r) /\ r.fault = FALSE /\ r.node = u.node
      BY <3>1 DEF Added, Equipped, Rest
    <3>5. /\ DOMAIN r.ent = DOMAIN t.ent \cup {x} /\ x \notin DOMAIN t.ent
          /\ r.ent[d].kids = t.ent[d].kids \cup {x} /\ r.ent[x].name = name
          /\ r.ent[d].name = t.ent[d].name /\ \A e \in DOMAIN t.ent : e # d => r.ent[e] = t.ent[e]
      BY <3>1 DEF Added, Grown
    <3>6. t.ent[d].kids \subseteq DOMAIN t.ent
      BY <2>3, GoodParts DEF LinkedDown
    <3>7. \A k \in r.ent[d].kids : r.ent[k].name \in N \cup {name}
      <4> SUFFICES ASSUME NEW k \in r.ent[d].kids PROVE r.ent[k].name \in N \cup {name}
        OBVIOUS
      <4>1. CASE k = x
        BY <3>5, <4>1
      <4>2. CASE k # x
        <5>1. k \in t.ent[d].kids /\ k \in DOMAIN t.ent
          BY <3>5, <3>6, <4>2
        <5>2. r.ent[k].name = t.ent[k].name
          BY <3>5, <5>1
        <5> QED BY <2>1, <5>1, <5>2 DEF Equipped
      <4> QED BY <4>1, <4>2
    <3>8. DOMAIN u.ent \subseteq DOMAIN r.ent /\ \A e \in DOMAIN u.ent \ {d} : r.ent[e] = u.ent[e]
      BY <2>1, <3>5 DEF Equipped
    <3> QED BY <2>1, <3>3, <3>4, <3>7, <3>8 DEF Equipped
  <2> QED BY <2>5, <2>6
<1> QED BY <1>1, <1>2

LEMMA SetupDeviceIs ==
    ASSUME NEW u, NEW n, FreshDev(u, n), NEW t, NEW N, Equipped(u, n, t, N), NEW name, NEW r, r = SetupDevice(t, n, name)
    PROVE  Equipped(u, n, r, N)
<1>1. CASE t.ret = NULL
  BY <1>1 DEF SetupDevice
<1>2. CASE t.ret # NULL
  <2>1. PICK a : a = KtmpfsLookup(t, n, name)
    OBVIOUS
  <2>2. r = KvfsClose(a, a.ret)
    BY <1>2, <2>1 DEF SetupDevice, Then
  <2>3. n \in DOMAIN t.node /\ t.node[n] \in DOMAIN t.ent /\ Good(t) /\ ~t.fault
    BY <2>1 DEF Equipped, Rest, FreshDev
  <2>4. Found(t, a) /\ a.fault = t.fault
    BY <2>1, <2>3, TmpfsLookupIs
  <2>5. Same(t, r) /\ r.sh = t.sh
    <3>1. CASE a.ret = NULL
      <4>1. r = a
        BY <2>2, <3>1 DEF KvfsClose
      <4> QED BY <2>3, <2>4, <3>1, <4>1, FoundNothing
    <3>2. CASE a.ret # NULL
      BY <2>2, <2>3, <2>4, <3>2, FoundBack
    <3> QED BY <3>1, <3>2
  <2> QED BY <2>5, SameEquipped
<1> QED BY <1>1, <1>2

LEMMA CreateDevicesIs ==
    ASSUME NEW u, NEW n, FreshDev(u, n), Good(u), u.fault = FALSE, NEW r, r = KfsCreateDevices(u, n)
    PROVE  Equipped(u, n, r, {"stdout", "stderr", "stdin"})
<1>1. Equipped(u, n, u, {})
  BY GoodParts DEF Equipped, FreshDev, Rest
<1>2. PICK a, b, c : a = CreateDevice(u, n, "stdout") /\ b = CreateDevice(a, n, "stderr") /\ c = CreateDevice(b, n, "stdin")
  OBVIOUS
<1>3. Equipped(u, n, a, {"stdout"})
  <2>1. Equipped(u, n, a, {} \cup {"stdout"})
    BY <1>1, <1>2, CreateDeviceIs
  <2>2. {} \cup {"stdout"} = {"stdout"}
    OBVIOUS
  <2> QED BY <2>1, <2>2
<1>4. Equipped(u, n, b, {"stdout", "stderr"})
  <2>1. Equipped(u, n, b, {"stdout"} \cup {"stderr"})
    BY <1>2, <1>3, CreateDeviceIs
  <2>2. {"stdout"} \cup {"stderr"} = {"stdout", "stderr"}
    OBVIOUS
  <2> QED BY <2>1, <2>2
<1>5. PICK N : N = {"stdout", "stderr", "stdin"}
  OBVIOUS
<1>6. Equipped(u, n, c, N)
  <2>1. Equipped(u, n, c, {"stdout", "stderr"} \cup {"stdin"})
    BY <1>2, <1>4, CreateDeviceIs
  <2>2. {"stdout", "stderr"} \cup {"stdin"} = N
    BY <1>5
  <2> QED BY <2>1, <2>2
<1>7. PICK d, e : d = SetupDevice(c, n, "stdout") /\ e = SetupDevice(d, n, "stderr")
  OBVIOUS
<1>8. Equipped(u, n, d, N)
  BY <1>6, <1>7, SetupDeviceIs
<1>9. Equipped(u, n, e, N)
  BY <1>7, <1>8, SetupDeviceIs
<1>10. r = SetupDevice(e, n, "stdin")
  BY <1>2, <1>7 DEF KfsCreateDevices, KfsSetupDevices
<1>11. Equipped(u, n, r, N)
  BY <1>9, <1>10, SetupDeviceIs
<1> QED BY <1>5, <1>11

LEMMA EquippedLacks ==
    ASSUME NEW u, NEW n, FreshDev(u, n), Good(u), NEW t, NEW N, Equipped(u, n, t, N), NEW w, RootLacks(u, w)
    PROVE  RootLacks(t, w)
<1> SUFFICES ASSUME t.root # NULL, NEW k \in t.ent[t.node[t.root]].kids PROVE t.ent[k].name # w
  BY DEF RootLacks, NameFree
<1>1. PICK d, c : d = u.node[u.root] /\ c = u.node[n]
  OBVIOUS
<1>2. t.root = u.root /\ t.node[t.root] = d /\ u.root # NULL
  BY <1>1 DEF Equipped, Rest
<1>3. d \in DOMAIN u.ent /\ d # c /\ \A j \in u.ent[d].kids : u.ent[j].name # w
  BY <1>1, <1>2 DEF Good, Handles, FreshDev, RootLacks, NameFree
<1>4. t.ent[d] = u.ent[d]
  BY <1>1, <1>3 DEF Equipped
<1>5. k \in u.ent[d].kids /\ k \in DOMAIN u.ent /\ u.ent[k].parent = d
  BY <1>2, <1>3, <1>4, GoodParts DEF LinkedDown
<1>6. k # c
  <2>1. d # NULL /\ u.ent[c].parent = NULL
    BY <1>1, <1>3, GoodParts DEF FreshDev
  <2> QED BY <1>5, <2>1
<1>7. t.ent[k] = u.ent[k]
  BY <1>1, <1>5, <1>6 DEF Equipped
<1> QED BY <1>3, <1>5, <1>7

----------------------------------------------------------------------------
(* Start-up                                                                *)

\* What a step of kfs_init leaves: no descriptor made, nothing lost.
Booted(s, r) ==
    IF r.fault THEN Explained(s)
    ELSE /\ Good(r) /\ Tidy(r) /\ r.sh = s.sh /\ r.fds = s.fds /\ r.lost = s.lost /\ r.cwd = r.root

\* A step of kfs_init ends, and the working directory is the root.
Starts(s, t) ==
    /\ Steps(s, t) /\ t.sh = Prompt /\ t.cwd = t.root

LEMMA RootKeepsCwd ==
    ASSUME NEW s, Good(s), NEW t, Good(t), ~t.fault, t.cwd = t.root
    PROVE  FaultStep(s, t)
<1>1. DOMAIN s.node \subseteq Nat \ {NULL}
  BY GoodParts
<1>2. t.root # NULL => t.root \in DOMAIN t.node
  BY RootAlive
<1> QED BY <1>1, <1>2 DEF FaultStep

LEMMA PromptOK ==
    ASSUME NEW s, s.sh = Prompt
    PROVE  ShellOK(s)
  BY DEF ShellOK, Prompt

LEMMA LeftFaultStarts ==
    ASSUME NEW s, Good(s), s.ret = NULL, NEW r, r.fault, Explained(s), NEW t, t = Left(s, r)
    PROVE  /\ Starts(s, t) /\ t.lost = s.lost /\ Orderly(t)
           /\ \A w : RootLacks(t, w)
<1>1. /\ Good(t) /\ Tidy(t) /\ ShellOK(t) /\ Orderly(t) /\ t.fault = TRUE /\ t.ret = s.ret
      /\ t.lost = s.lost /\ t.node = <<>> /\ t.root = NULL /\ t.cwd = NULL
  BY LeftFault
<1>2. t.sh = Prompt
  <2>1. PICK q, N : q = Prompt /\ N = NoFds
    OBVIOUS
  <2>2. t = [s EXCEPT !.fault = TRUE, !.node = <<>>, !.root = NULL, !.cwd = NULL,
                      !.fds = N, !.sh = q]
    BY <2>1 DEF Left
  <2>3. IsFs(s)
    BY GoodParts
  <2>4. t.sh = q
    BY ONLY <2>2, <2>3 DEF IsFs
  <2> QED BY <2>1, <2>4
<1>3. FaultStep(s, t)
  BY <1>1 DEF FaultStep
<1>4. Starts(s, t)
  BY <1>1, <1>2, <1>3 DEF Starts, Steps
<1> QED BY <1>1, <1>4 DEF RootLacks

LEMMA LeftBooted ==
    ASSUME NEW s, Good(s), s.ret = NULL, ~s.fault, s.sh = Prompt, NEW r, Booted(s, r),
           NEW t, t = Left(s, r)
    PROVE  /\ Starts(s, t) /\ t.lost = s.lost /\ (Orderly(s) => Orderly(t))
           /\ \A w : r.fault \/ RootLacks(r, w) => RootLacks(t, w)
<1>1. CASE r.fault
  <2>1. Explained(s)
    BY <1>1 DEF Booted
  <2> QED BY <1>1, <2>1, LeftFaultStarts
<1>2. CASE ~r.fault
  <2>1. Good(r) /\ Tidy(r) /\ r.sh = s.sh /\ r.fds = s.fds /\ r.lost = s.lost /\ r.cwd = r.root
    BY <1>2 DEF Booted
  <2>2. Good(t) /\ Tidy(t) /\ Ends(r, t)
    BY ONLY <1>2, <2>1, t = Left(s, r), LeftGood
  <2>3. /\ t.ret = NULL /\ t.fault = FALSE /\ t.ent = r.ent /\ t.root = r.root /\ t.cwd = r.cwd
        /\ t.fds = r.fds /\ t.sh = r.sh
    BY <2>2 DEF Ends
  <2>4. t.lost = r.lost /\ t.node = r.node
    BY ONLY <1>2, <2>1, t = Left(s, r), LeftTidy
  <2>5. ShellOK(t)
    BY <2>1, <2>3, PromptOK
  <2>6. FaultStep(s, t)
    BY <2>1, <2>2, <2>3, RootKeepsCwd
  <2>7. Holds(t, "shell") = Holds(s, "shell")
    BY <2>1, <2>3 DEF Holds, NodeAt
  <2>8. Orderly(s) => Orderly(t)
    BY <2>1, <2>3, <2>7 DEF Orderly, Busy
  <2>9. \A w : RootLacks(r, w) => RootLacks(t, w)
    BY <2>3, <2>4, RootLacksSame
  <2> QED BY <1>2, <2>1, <2>2, <2>3, <2>4, <2>5, <2>6, <2>8, <2>9 DEF Starts, Steps
<1> QED BY <1>1, <1>2

\* The first mount.
LEMMA MountRootIs ==
    ASSUME NEW s, Good(s), ~s.fault, s.node = <<>>,
           NEW m, m = KvfsMount(s, "/"), m.ret # NULL, NEW r, r = [m EXCEPT !.cwd = m.root]
    PROVE  Booted(s, r) /\ ~r.fault /\ \A w : RootLacks(r, w)
<1>1. PICK b : b = KtmpfsMount(s, "/")
  OBVIOUS
<1>2. m = [b EXCEPT !.root = b.ret]
  BY <1>1 DEF KvfsMount, Then
<1>3. b.ret = NULL => Same(s, b) /\ b.sh = s.sh
  BY <1>1, MountIs
<1>4. IsFs(s)
  BY GoodParts
<1>5. b.ret # NULL => \E a, x : NewTree(s, a, x) /\ Found(a, b) /\ NodeFor(a, b, x)
  BY <1>1, MountIs
<1>6. IsFs(b)
  BY <1>3, <1>5 DEF Same, Found, Rest
<1>7. m.ret = b.ret
  BY ONLY <1>2, <1>6 DEF IsFs
<1>8. PICK a, x : NewTree(s, a, x) /\ Found(a, b) /\ NodeFor(a, b, x)
  BY <1>5, <1>7
<1>9. /\ IsFs(r) /\ r.ent = b.ent /\ r.node = b.node /\ r.root = b.ret /\ r.cwd = b.ret
      /\ r.fds = b.fds /\ r.sh = b.sh /\ r.lost = b.lost /\ r.heap = b.heap /\ r.fault = b.fault
  BY ONLY <1>2, <1>6, r = [m EXCEPT !.cwd = m.root] DEF IsFs
<1>10. Good(a)
  BY <1>8, NewTreeGood
<1>11. Good(b)
  BY <1>8, <1>10, FoundGood
<1>12. /\ a.node = <<>> /\ a.fault = s.fault /\ Planted(s.ent, a.ent, x)
       /\ a.fds = s.fds /\ a.sh = s.sh /\ a.lost = s.lost
  BY <1>8 DEF NewTree, Rest
<1>13. /\ b.ent = a.ent /\ b.fds = a.fds /\ b.sh = a.sh /\ b.lost = a.lost
  BY <1>8 DEF Found, Rest
<1>14. b.ret \in Nat \ {NULL} /\ b.node = Put(a.node, b.ret, x)
  BY <1>8 DEF NodeFor, New
<1>15. b.ret \in DOMAIN b.node /\ b.node[b.ret] = x /\ DOMAIN b.node = {b.ret}
  BY <1>12, <1>14, EmptyTable DEF Put
<1>16. x \in DOMAIN b.ent /\ b.ent[x].parent = NULL /\ b.ent[x].kids = {}
  BY <1>12, <1>13 DEF Planted
<1>17. DescNodes(s) = {} /\ DescNodes(b) = {}
  <2>1. DescNodes(s) = {}
    BY DescNodesThere, EmptyTable
  <2>2. b.fds = s.fds
    BY <1>12, <1>13
  <2>3. DescNodes(b) = DescNodes(s)
    BY ONLY <2>2 DEF DescNodes, Descs
  <2> QED BY <2>1, <2>3
<1>18. b.fault = FALSE
  <2>1. a.fault = FALSE
    BY <1>12, GoodParts
  <2> QED BY <1>7, <1>8, <2>1 DEF Found
<1>19. b.ret \notin DescNodes(b)
  BY <1>12, <1>13, <1>14, <1>17
<1>20. b.node[b.ret] \in DOMAIN b.ent /\ b.ent[b.node[b.ret]].parent = NULL
  BY <1>15, <1>16
<1>21. Good(r)
  BY <1>9, <1>11, <1>15, <1>19, <1>20, AdoptRoot
<1>22. Tidy(r)
  BY <1>9, <1>15 DEF Tidy, Kept
<1>23. \A w : RootLacks(r, w)
  BY <1>9, <1>15, <1>16 DEF RootLacks, NameFree
<1>24. r.sh = s.sh /\ r.fds = s.fds /\ r.lost = s.lost /\ r.cwd = r.root /\ r.fault = FALSE
  BY <1>9, <1>12, <1>13, <1>18
<1> QED BY <1>21, <1>22, <1>23, <1>24 DEF Booted

\* An entry of the image.
LEMMA UnpackedBooted ==
    ASSUME NEW s, Good(s), Tidy(s), s.cwd = s.root, NEW P, NEW r, Unpacked(s, r, P)
    PROVE  Booted(s, r)
           /\ \A w : w \notin P /\ RootLacks(s, w) /\ ~r.fault => RootLacks(r, w)
<1>1. CASE r.fault
  BY <1>1 DEF Unpacked, Booted, Explained
<1>2. CASE ~r.fault
  <2>1. Rest(s, r) /\ Good(r) /\ r.node = s.node
    BY <1>2 DEF Unpacked
  <2>2. Kept(r) = Kept(s)
    BY <2>1, RestKept
  <2>3. Tidy(r)
    BY <2>1, <2>2 DEF Tidy
  <2>4. r.sh = s.sh /\ r.fds = s.fds /\ r.lost = s.lost /\ r.cwd = r.root
    BY <2>1 DEF Rest
  <2> QED BY <1>2, <2>1, <2>3, <2>4 DEF Booted, Unpacked
<1> QED BY <1>1, <1>2

LEMMA UnpackEntryIs ==
    ASSUME NEW s, Good(s), Tidy(s), ~s.fault, s.cwd = s.root, NEW e, IsPath(e.path),
           e.size \in 0 .. MaxSize, NEW r, r = KinitrdUnpackEntry(s, e)
    PROVE  Booted(s, r)
           /\ \A w : w \notin Parts(e.path) /\ RootLacks(s, w) /\ ~r.fault => RootLacks(r, w)
<1>1. PICK P : P = Parts(e.path)
  OBVIOUS
<1>2. Unpacked(s, r, P)
  <2>1. CASE KinitrdGetEntryMode(e) = "dir"
    <3>1. r = KinitrdUnpackDirectory(s, e)
      BY <2>1 DEF KinitrdUnpackEntry
    <3> QED BY <1>1, <3>1, UnpackDirectoryIs
  <2>2. CASE KinitrdGetEntryMode(e) # "dir"
    <3>1. r = KinitrdUnpackFile(s, e)
      BY <2>2 DEF KinitrdUnpackEntry
    <3> QED BY <1>1, <3>1, UnpackFileIs
  <2> QED BY <2>1, <2>2
<1>3. Booted(s, r)
      /\ \A w : w \notin P /\ RootLacks(s, w) /\ ~r.fault => RootLacks(r, w)
  BY ONLY <1>2, Good(s), Tidy(s), s.cwd = s.root, UnpackedBooted
<1> QED BY <1>1, <1>3

\* The mount of /dev: the tree is the root's no part of, and one node is left over,
\* if it works.
DevMade(s, r) ==
    /\ Good(r) /\ r.fault = FALSE /\ r.sh = s.sh /\ r.fds = s.fds /\ r.lost = s.lost /\ r.cwd = r.root
    /\ \E n : DOMAIN r.node \ Kept(r) \subseteq {n}

\* The step that left r ends.
LEMMA LeftDev ==
    ASSUME NEW s, Good(s), s.ret = NULL, ~s.fault, s.sh = Prompt, NEW r, DevMade(s, r),
           NEW t, t = Left(s, r)
    PROVE  /\ Starts(s, t) /\ t.lost \in {s.lost, s.lost + 1} /\ (Orderly(s) => Orderly(t))
           /\ \A w : RootLacks(r, w) => RootLacks(t, w)
<1>1. Good(r) /\ ~r.fault /\ r.sh = s.sh /\ r.fds = s.fds /\ r.lost = s.lost /\ r.cwd = r.root
  BY DEF DevMade
<1>2. Good(t) /\ Tidy(t) /\ Ends(r, t)
  BY ONLY <1>1, t = Left(s, r), LeftGood
<1>3. PICK S : S = DOMAIN r.node \ Kept(r)
  OBVIOUS
<1>4. /\ t.ret = NULL /\ t.fault = FALSE /\ t.ent = r.ent /\ t.root = r.root /\ t.cwd = r.cwd
      /\ t.fds = r.fds /\ t.sh = r.sh /\ t.lost = r.lost + Cardinality(S)
      /\ t.node = Restrict(r.node, DOMAIN r.node \ S)
  BY <1>2, <1>3 DEF Ends
<1>5. Cardinality(S) \in {0, 1}
  <2>1. PICK n : S \subseteq {n}
    BY <1>3 DEF DevMade
  <2>2. S = {} \/ S = {n}
    BY <2>1
  <2>3. Cardinality({}) = 0 /\ Cardinality({n}) = 1
    BY FS_EmptySet, FS_Singleton
  <2> QED BY <2>2, <2>3
<1>6. t.lost \in {s.lost, s.lost + 1}
  BY <1>1, <1>4, <1>5 DEF Good, Typed
<1>7. ShellOK(t) /\ t.sh = Prompt /\ t.cwd = t.root
  BY <1>1, <1>4, PromptOK
<1>8. FaultStep(s, t)
  BY <1>2, <1>4, <1>7, RootKeepsCwd
<1>9. Holds(t, "shell") = Holds(s, "shell")
  BY <1>1, <1>4 DEF Holds, NodeAt
<1>10. Orderly(s) => Orderly(t)
  BY <1>1, <1>4, <1>9 DEF Orderly, Busy
<1>11. t.root # NULL => t.node[t.root] = r.node[r.root]
  <2> SUFFICES ASSUME t.root # NULL PROVE t.node[t.root] = r.node[r.root]
    OBVIOUS
  <2>1. r.root \in DOMAIN r.node \ S
    BY <1>1, <1>3, <1>4 DEF Good, Handles, Kept
  <2> QED BY <1>4, <2>1 DEF Restrict
<1>12. \A w : RootLacks(r, w) => RootLacks(t, w)
  BY <1>4, <1>11 DEF RootLacks
<1> QED BY <1>2, <1>4, <1>6, <1>7, <1>8, <1>10, <1>12 DEF Starts, Steps

LEMMA MountDevIs ==
    ASSUME NEW s, Good(s), Tidy(s), ~s.fault, s.cwd = s.root,
           NEW m, m = KtmpfsMount(s, "/dev"),
           NEW r, r = IF m.ret = NULL THEN m ELSE KfsCreateDevices(m, m.ret)
    PROVE  DevMade(s, r) /\ \A w : RootLacks(s, w) => RootLacks(r, w)
<1>1. CASE m.ret = NULL
  <2>1. Same(s, r) /\ r.sh = s.sh
    BY <1>1, MountIs
  <2>2. Good(r)
    BY <2>1, SameGood
  <2>3. Clean(s, r)
    BY <2>1, SameClean
  <2>4. r.fds = s.fds /\ r.cwd = r.root /\ r.ent = s.ent /\ r.root = s.root /\ r.node = s.node
    BY <2>1 DEF Same
  <2>5. \A w : RootLacks(s, w) => RootLacks(r, w)
    BY <2>4, RootLacksSame
  <2>6. DOMAIN r.node \ Kept(r) \subseteq {NULL}
    BY <2>3 DEF Clean, Tidy
  <2> QED BY <2>1, <2>2, <2>3, <2>4, <2>5, <2>6 DEF DevMade, Clean
<1>2. CASE m.ret # NULL
  <2>1. PICK a, x : NewTree(s, a, x) /\ Found(a, m) /\ NodeFor(a, m, x)
    BY <1>2, MountIs
  <2>3. r = KfsCreateDevices(m, m.ret)
    BY <1>2
  <2>6. Good(a)
    BY <2>1, NewTreeGood
  <2>7. Good(m)
    BY <2>1, <2>6, FoundGood
  <2>8. /\ a.node = s.node /\ a.fault = s.fault /\ Planted(s.ent, a.ent, x) /\ a.root = s.root
        /\ a.cwd = s.cwd /\ a.fds = s.fds /\ a.sh = s.sh /\ a.lost = s.lost
        /\ \A n \in DOMAIN s.node : s.node[n] # x
    BY <2>1 DEF NewTree, Rest
  <2>9. /\ m.ent = a.ent /\ m.root = a.root /\ m.cwd = a.cwd /\ m.fds = a.fds /\ m.sh = a.sh
        /\ m.lost = a.lost
    BY <2>1 DEF Found, Rest
  <2>10. m.ret \in New(a) /\ m.node = Put(a.node, m.ret, x)
    BY <2>1 DEF NodeFor
  <2>11. m.ret \in Nat \ {NULL} /\ m.ret \notin DOMAIN s.node
    BY <2>8, <2>10 DEF New
  <2>12. /\ DOMAIN m.node = DOMAIN s.node \cup {m.ret} /\ m.node[m.ret] = x
         /\ \A n \in DOMAIN s.node : m.node[n] = s.node[n]
    BY <2>8, <2>10, <2>11 DEF Put
  <2>13. s.root # NULL => s.root \in DOMAIN s.node /\ s.node[s.root] \in DOMAIN s.ent
    BY RootAlive DEF Dead
  <2>16. m.ret \in DOMAIN m.node
    BY <2>12
  <2>18. FreshDev(m, m.ret)
    <3>1. x \in DOMAIN m.ent /\ m.ent[x].parent = NULL /\ m.ent[x].kids = {}
      BY <2>8, <2>9 DEF Planted
    <3>2. m.root # NULL => m.node[m.root] # x
      BY <2>8, <2>9, <2>12, <2>13
    <3> QED BY <2>12, <2>16, <3>1, <3>2 DEF FreshDev
  <2>19. m.fault = FALSE
    <3>1. a.fault = FALSE
      BY <2>8, GoodParts
    <3> QED BY <1>2, <2>1, <3>1 DEF Found
  <2>20. Equipped(m, m.ret, r, {"stdout", "stderr", "stdin"})
    BY <2>3, <2>7, <2>18, <2>19, CreateDevicesIs
  <2>21. Rest(m, r) /\ Good(r) /\ r.fault = FALSE /\ r.node = m.node
    BY <2>20 DEF Equipped
  <2>22. DOMAIN r.node \ Kept(r) \subseteq {m.ret}
    <3>1. DOMAIN r.node = DOMAIN s.node \cup {m.ret}
      BY <2>12, <2>21
    <3>2. r.root = s.root /\ r.cwd = s.cwd /\ r.fds = s.fds
      BY <2>8, <2>9, <2>21 DEF Rest
    <3>3. DescNodes(r) = DescNodes(s)
      BY ONLY <3>2 DEF DescNodes, Descs
    <3>4. NULL \notin DOMAIN s.node
      BY GoodParts
    <3> QED BY <3>1, <3>2, <3>3, <3>4 DEF Tidy, Kept
  <2>23. \A w : RootLacks(s, w) => RootLacks(r, w)
    <3> SUFFICES ASSUME NEW w, RootLacks(s, w) PROVE RootLacks(r, w)
      OBVIOUS
    <3>1. RootLacks(m, w)
      <4>1. CASE s.root = NULL
        BY <2>8, <2>9, <4>1 DEF RootLacks
      <4>2. CASE s.root # NULL
        <5>1. PICK d : d = s.node[s.root]
          OBVIOUS
        <5>2. d \in DOMAIN s.ent /\ NameFree(s.ent, d, w)
          BY <2>13, <4>2, <5>1 DEF RootLacks
        <5>3. m.root = s.root /\ m.node[m.root] = d /\ m.ent = a.ent
          BY <2>8, <2>9, <2>12, <2>13, <4>2, <5>1
        <5>4. \A e \in DOMAIN s.ent : a.ent[e] = s.ent[e]
          BY <2>8 DEF Planted
        <5>5. \A k \in s.ent[d].kids : k \in DOMAIN s.ent
          BY <5>2, GoodParts DEF LinkedDown
        <5>6. NameFree(a.ent, d, w)
          BY ONLY <5>2, <5>4, <5>5 DEF NameFree
        <5> QED BY <5>3, <5>6 DEF RootLacks
      <4> QED BY <4>1, <4>2
    <3> QED BY ONLY <2>7, <2>18, <2>20, <3>1, EquippedLacks
  <2>24. r.sh = s.sh /\ r.fds = s.fds /\ r.lost = s.lost /\ r.cwd = r.root
    BY <2>8, <2>9, <2>21 DEF Rest
  <2> QED BY <2>21, <2>22, <2>23, <2>24 DEF DevMade
<1> QED BY <1>1, <1>2

----------------------------------------------------------------------------
(* The streams of a process                                                *)

\* Streams were attached from s on: the working directory is still the root, and
\* a node is lost only with the last open.
Attaching(s, r) ==
    /\ Good(r) /\ r.fault = FALSE /\ r.cwd = s.cwd /\ r.root = s.root /\ r.sh = s.sh
    /\ r.ret # KFD_ERROR => Tidy(r)

LEMMA StdIsPath ==
    ASSUME NEW name
    PROVE  IsPath(Std(name))
<1>1. PICK q : q = <<"dev", name>>
  OBVIOUS
<1>2. Std(name).abs = TRUE /\ Std(name).parts = q
  BY <1>1 DEF Std
<1>3. Len(q) = 2 /\ DOMAIN q = 1 .. 2
  BY <1>1
<1>4. q \in Seq({q[i] : i \in DOMAIN q})
  BY <1>1, <1>3
<1> QED BY <1>2, <1>4 DEF IsPath, Range

LEMMA AttachStreamIs ==
    ASSUME NEW s, s.cwd = s.root, NEW a, Attaching(s, a), NEW p \in Procs, NEW name,
           NEW acc \in {"r", "w", "rw"}, NEW fd, NEW r, r = AttachStream(a, p, name, acc, fd)
    PROVE  Attaching(s, r)
<1>1. CASE a.ret = KFD_ERROR
  BY <1>1 DEF AttachStream
<1>2. CASE a.ret # KFD_ERROR
  <2>1. PICK path, fl, mode : path = Std(name) /\ fl = Flags(acc, FALSE, FALSE, FALSE) /\ mode = <<0, 0, 0>>
    OBVIOUS
  <2>2. IsPath(path) /\ fl.acc = acc
    BY <2>1, StdIsPath DEF Flags
  <2>3. PICK b, v : b = KfdOpenForProcess(a, p, path, fl, mode) /\ v = KvfsOpen(a, path, fl, mode)
    OBVIOUS
  <2>4. r = IF b.ret # fd THEN [b EXCEPT !.ret = KFD_ERROR] ELSE b
    BY <1>2, <2>1, <2>3 DEF AttachStream, Then
  <2>5. Good(a) /\ Tidy(a) /\ a.fault = FALSE /\ a.cwd = a.root /\ a.cwd = s.cwd /\ a.root = s.root /\ a.sh = s.sh
    BY <1>2 DEF Attaching
  <2>6. OpenFails(a, b) \/ OpenLeaks(a, b, p, v) \/ OpenWorks(a, b, p, acc)
    BY <2>2, <2>3, <2>5, OpenForProcessIs
  <2>7. /\ Good(b) /\ b.fault = FALSE /\ b.cwd = a.cwd /\ b.root = a.root /\ b.sh = a.sh
        /\ b.ret # KFD_ERROR => Tidy(b)
    <3>1. CASE OpenFails(a, b)
      <4>1. PICK c : Opened(a, c) /\ c.ret = NULL /\ b = [c EXCEPT !.ret = KFD_ERROR]
        BY <3>1 DEF OpenFails
      <4>2. IsFs(c) /\ c.root = a.root /\ c.fault \in BOOLEAN /\ (c.fault => a.cwd # NULL /\ Dead(a, a.cwd))
        BY <2>5, <4>1 DEF Opened, Rest
      <4>3. b.root = c.root /\ b.fault = c.fault
        BY ONLY <4>1, <4>2 DEF IsFs
      <4>4. c.fault = FALSE
        BY <2>5, <4>2, RootAlive
      <4>5. /\ b.ret = KFD_ERROR /\ b.sh = a.sh /\ b.cwd = a.cwd
            /\ b.fault \/ (Tidy(b) /\ b.lost = a.lost /\ Good(b))
        BY <2>5, <3>1, OpenFailsIs
      <4> QED BY <4>2, <4>3, <4>4, <4>5
    <3>2. CASE OpenLeaks(a, b, p, v)
      <4>1. b.root = a.root
        BY <3>2 DEF OpenLeaks, Opened, Rest, Same
      <4>2. Good(b) /\ b.fault = FALSE /\ b.ret = KFD_ERROR /\ b.sh = a.sh /\ b.cwd = a.cwd
        BY <2>5, <3>2, OpenLeaksIs
      <4> QED BY <4>1, <4>2
    <3>3. CASE OpenWorks(a, b, p, acc)
      <4>1. b.root = a.root
        BY <3>3 DEF OpenWorks, Opened, Rest, DescSet
      <4>2. Clean(a, b) /\ b.sh = a.sh
        BY <2>5, <3>3, OpenWorksIs
      <4> QED BY <4>1, <4>2 DEF Clean
    <3> QED BY <2>6, <3>1, <3>2, <3>3
  <2>8. CASE b.ret = fd
    BY <2>4, <2>5, <2>7, <2>8 DEF Attaching
  <2>9. CASE b.ret # fd
    <3>1. r = [b EXCEPT !.ret = KFD_ERROR]
      BY <2>4, <2>9
    <3>2. IsFs(b)
      BY <2>7, GoodParts
    <3>3. Same(b, r) /\ r.ret = KFD_ERROR /\ r.sh = b.sh
      BY ONLY <3>1, <3>2 DEF IsFs, Same
    <3>4. Good(r)
      BY <2>7, <3>3, SameGood
    <3>5. r.fault = b.fault /\ r.cwd = b.cwd /\ r.root = b.root
      BY <3>3 DEF Same
    <3> QED BY <2>5, <2>7, <3>3, <3>4, <3>5 DEF Attaching
  <2> QED BY <2>8, <2>9
<1> QED BY <1>1, <1>2

LEMMA AttachStdStreamsIs ==
    ASSUME NEW s, Good(s), Tidy(s), ~s.fault, s.cwd = s.root, NEW p \in Procs,
           NEW r, r = KprocessAttachStdStreams(s, p)
    PROVE  Attaching(s, r)
<1>1. Attaching(s, s)
  BY GoodParts DEF Attaching
<1>2. PICK a : a = AttachStream(s, p, "stdin", "r", 0)
  OBVIOUS
<1>3. PICK b : b = AttachStream(a, p, "stdout", "w", 1)
  OBVIOUS
<1>4. r = AttachStream(b, p, "stderr", "w", 2)
  BY <1>2, <1>3 DEF KprocessAttachStdStreams
<1>5. Attaching(s, a)
  BY <1>1, <1>2, AttachStreamIs
<1>6. Attaching(s, b)
  BY <1>3, <1>5, AttachStreamIs
<1> QED BY <1>4, <1>6, AttachStreamIs

LEMMA LeftAttached ==
    ASSUME NEW s, Good(s), s.sh = Prompt, s.cwd = s.root, NEW r, Attaching(s, r), NEW t, t = Left(s, r)
    PROVE  Starts(s, t)
<1>1. Good(r) /\ ~r.fault /\ r.cwd = r.root /\ r.sh = Prompt
  BY DEF Attaching
<1>2. Good(t) /\ Tidy(t) /\ Ends(r, t)
  BY <1>1, LeftGood
<1>3. t.ret = NULL /\ t.fault = FALSE /\ t.root = r.root /\ t.cwd = r.cwd /\ t.sh = r.sh
  BY <1>2 DEF Ends
<1>4. ShellOK(t)
  BY <1>1, <1>3, PromptOK
<1>5. FaultStep(s, t)
  BY <1>1, <1>2, <1>3, RootKeepsCwd
<1> QED BY <1>1, <1>2, <1>3, <1>4, <1>5 DEF Starts, Steps

\* With no "dev" in the root no stream is found, and nothing is changed.
LEMMA StdParts ==
    ASSUME NoDevInImages, NEW name, NEW path, path = Std(name)
    PROVE  /\ KvfsSplitPath(path) = <<"/", "dev", name>> /\ path.abs = TRUE
           /\ Names(path) = <<"dev", name>> /\ Front(Names(path)) = <<"dev">>
<1>1. path.abs = TRUE /\ path.parts = <<"dev", name>>
  BY DEF Std
<1>2. PICK all : all = <<"/">> \o <<"dev", name>>
  OBVIOUS
<1>3. all \in Seq({"/", "dev", name}) /\ Len(all) = 3 /\ all[1] = "/" /\ all[2] = "dev" /\ all[3] = name
  BY <1>2
<1>4. KVFS_MAX_PATH_PARTS \in Nat /\ KVFS_MAX_PATH_PARTS >= 3
  BY FilesAssumption DEF NoDevInImages
<1>5. PICK m : m = Min({3, KVFS_MAX_PATH_PARTS})
  OBVIOUS
<1>6. m = 3
  BY <1>4, <1>5 DEF Min
<1>7. KvfsSplitPath(path) = SubSeq(all, 1, Min({Len(all), KVFS_MAX_PATH_PARTS}))
  BY <1>1, <1>2 DEF KvfsSplitPath
<1>8. KvfsSplitPath(path) = SubSeq(all, 1, 3)
  BY <1>3, <1>5, <1>6, <1>7
<1>9. KvfsSplitPath(path) = <<"/", "dev", name>>
  <2>1. PICK q : q = SubSeq(all, 1, 3)
    OBVIOUS
  <2>2. q = [i \in 1 .. 3 |-> all[i]]
    BY <1>3, <2>1 DEF SubSeq
  <2>3. q = <<all[1], all[2], all[3]>>
    BY <2>2
  <2> QED BY <1>3, <1>8, <2>1, <2>3
<1>10. Names(path) = Tail(<<"/", "dev", name>>)
  BY <1>1, <1>9 DEF Names
<1>11. Names(path) = <<"dev", name>>
  BY <1>10
<1>12. PICK n : n = <<"dev", name>>
  OBVIOUS
<1>13. Len(n) = 2 /\ n[1] = "dev"
  BY <1>12
<1>14. Front(n) = SubSeq(n, 1, 1)
  BY <1>13 DEF Front
<1>15. Front(n) = <<"dev">>
  BY <1>12, <1>14
<1> QED BY <1>1, <1>9, <1>11, <1>12, <1>15

LEMMA DescendOne ==
    ASSUME NEW s, NEW start, NEW name, NEW names, names = <<name>>
    PROVE  Descend(s, start, names) = Below([s EXCEPT !.ret = start], start, name)
<1>1. Len(names) = 1 /\ names[1] = name /\ Len(names) \in Nat
  OBVIOUS
<1>0. PICK g : Descent(s, start, names, g)
  <2>1. Len(names) \in Nat
    BY <1>1
  <2> QED BY ONLY <2>1, DescendRuns
<1>2. /\ g[0] = [s EXCEPT !.ret = start]
      /\ \A i \in 1 .. Len(names) : g[i] = Below(g[i - 1], start, names[i])
      /\ Descend(s, start, names) = g[Len(names)]
  BY <1>0 DEF Descent
<1>3. g[1] = Below(g[1 - 1], start, names[1])
  BY <1>1, <1>2
<1>4. g[1 - 1] = [s EXCEPT !.ret = start]
  BY <1>2
<1> QED BY <1>1, <1>2, <1>3, <1>4

LEMMA StdNotFound ==
    ASSUME NoDevInImages, NEW s, Good(s), ~s.fault, s.cwd = s.root, RootLacks(s, "dev"), NEW name,
           NEW path, path = Std(name), NEW fl, NEW mode, NEW r, r = KvfsOpen(s, path, fl, mode)
    PROVE  Same(s, r) /\ r.sh = s.sh /\ r.ret = NULL
<1>1. PICK a : a = KvfsResolveParentFrom(s, s.cwd, path)
  OBVIOUS
<1>2. PICK names : names = <<"dev">>
  OBVIOUS
<1>3. Len(names) = 1 /\ names[1] = "dev"
  BY <1>2
<1>4. Start(s, s.cwd, path) = s.root
  BY DEF Start
<1>5. a = Descend(s, s.root, names)
  <2>1. /\ KvfsSplitPath(path) = <<"/", "dev", name>> /\ Names(path) = <<"dev", name>>
        /\ Front(Names(path)) = <<"dev">>
    BY ONLY NoDevInImages, path = Std(name), StdParts
  <2>2. <<"/", "dev", name>> # <<>> /\ <<"dev", name>> # <<>>
    OBVIOUS
  <2>3. KvfsSplitPath(path) # <<>> /\ Names(path) # <<>> /\ Front(Names(path)) = names
    BY <1>2, <2>1, <2>2
  <2> QED BY <1>1, <1>4, <2>3 DEF KvfsResolveParentFrom
<1>7. PICK b : b = [s EXCEPT !.ret = s.root]
  OBVIOUS
<1>8. a = Below(b, s.root, "dev")
  BY <1>2, <1>5, <1>7, DescendOne
<1>9. IsFs(s) /\ s.fault = FALSE
  BY GoodParts
<1>10. Same(s, b) /\ b.ret = s.root /\ b.sh = s.sh
  BY ONLY <1>7, <1>9 DEF IsFs, Same
<1>11. Good(b)
  BY <1>10, SameGood
<1>12. a = KvfsLookup(b, s.root, "dev")
  BY <1>8, <1>10 DEF Below, Then
<1>13. /\ Found(b, a)
       /\ a.fault /\ ~b.fault => s.root # NULL /\ Dead(b, s.root)
       /\ a.ret # NULL => s.root # NULL /\ ~Dead(b, s.root)
       /\ a.ret # NULL /\ "dev" \notin {".", ".."} => \E k \in Entry(b, s.root).kids : b.ent[k].name = "dev"
  BY <1>11, <1>12, LookupIs
<1>14. b.ent = s.ent /\ b.node = s.node /\ b.root = s.root /\ b.fault = FALSE
  BY <1>9, <1>10 DEF Same
<1>15. s.root # NULL => \A k \in Entry(b, s.root).kids : b.ent[k].name # "dev"
  BY <1>14 DEF RootLacks, NameFree, Entry
<1>16. a.ret = NULL
  BY <1>13, <1>15
<1>17. a.fault = FALSE
  <2>1. s.root # NULL => ~Dead(b, s.root)
    BY <1>11, <1>14, RootAlive
  <2> QED BY <1>13, <1>14, <2>1 DEF Found
<1>18. Rest(b, a) /\ a.ent = b.ent /\ a.node = b.node
  BY <1>13, <1>16 DEF Found, NodeFor, New
<1>19. r = Fail(a)
  BY <1>1, <1>16 DEF KvfsOpen, OpenBelow, Then
<1>20. IsFs(a)
  BY <1>18 DEF Rest
<1>21. r = [a EXCEPT !.ret = NULL]
  BY <1>19 DEF Fail
<1>22. Same(a, r) /\ r.sh = a.sh /\ r.ret = NULL
  BY ONLY <1>20, <1>21 DEF IsFs, Same
<1> QED BY <1>9, <1>10, <1>17, <1>18, <1>22 DEF Same, Rest

LEMMA StreamsNotFound ==
    ASSUME NoDevInImages, NEW s, Good(s), ~s.fault, s.ret = NULL, s.cwd = s.root, RootLacks(s, "dev"), NEW p,
           NEW r, r = KprocessAttachStdStreams(s, p)
    PROVE  Same(s, r) /\ r.sh = s.sh
<1>1. PICK path, fl, mode : /\ path = Std("stdin") /\ fl = Flags("r", FALSE, FALSE, FALSE)
                            /\ mode = <<0, 0, 0>>
  OBVIOUS
<1>2. PICK o : o = KvfsOpen(s, path, fl, mode)
  OBVIOUS
<1>3. Same(s, o) /\ o.sh = s.sh /\ o.ret = NULL
  <2>1. \E name : path = Std(name)
    BY <1>1
  <2> QED BY ONLY NoDevInImages, <1>2, <2>1, Good(s), ~s.fault, s.cwd = s.root, RootLacks(s, "dev"), StdNotFound
<1>4. PICK b : b = KfdOpenForProcess(s, p, path, fl, mode)
  OBVIOUS
<1>5. b = [o EXCEPT !.ret = KFD_ERROR]
  BY <1>2, <1>3, <1>4 DEF KfdOpenForProcess, Then
<1>6. IsFs(o)
  BY <1>3 DEF Same
<1>7. Same(o, b) /\ b.sh = o.sh /\ b.ret = KFD_ERROR
  BY ONLY <1>5, <1>6 DEF IsFs, Same
<1>8. PICK a : a = AttachStream(s, p, "stdin", "r", 0)
  OBVIOUS
<1>9. a = [b EXCEPT !.ret = KFD_ERROR]
  <2>1. s.ret # KFD_ERROR /\ b.ret # 0
    BY <1>7 DEF NULL, KFD_ERROR
  <2> QED BY <1>1, <1>4, <1>8, <2>1 DEF AttachStream, Then
<1>10. IsFs(b)
  BY <1>7 DEF Same
<1>11. Same(b, a) /\ a.sh = b.sh /\ a.ret = KFD_ERROR
  BY ONLY <1>9, <1>10 DEF IsFs, Same
<1>12. AttachStream(a, p, "stdout", "w", 1) = a /\ AttachStream(a, p, "stderr", "w", 2) = a
  BY <1>11 DEF AttachStream
<1>13. r = a
  BY <1>8, <1>12 DEF KprocessAttachStdStreams
<1> QED BY <1>3, <1>7, <1>11, <1>13 DEF Same

LEMMA LeftUntouched ==
    ASSUME NEW s, Good(s), Tidy(s), ~s.fault, NEW r, Same(s, r), r.sh = s.sh, NEW t, t = Left(s, r)
    PROVE  t.lost = s.lost /\ (Orderly(s) => Orderly(t)) /\ \A w : RootLacks(s, w) => RootLacks(t, w)
<1>1. Good(r)
  BY SameGood
<1>2. Clean(s, r)
  BY SameClean
<1>3. Tidy(r) /\ ~r.fault
  BY <1>2 DEF Clean
<1>4. t.lost = r.lost /\ t.node = r.node /\ Same(r, t)
  BY <1>1, <1>3, LeftTidy
<1>5. Ends(r, t)
  BY <1>1, <1>3, LeftGood
<1>6. t.sh = s.sh
  BY <1>5 DEF Ends
<1>7. t.ent = s.ent /\ t.node = s.node /\ t.root = s.root /\ t.fds = s.fds /\ t.lost = s.lost
  BY <1>4 DEF Same
<1>8. Orderly(s) => Orderly(t)
  BY <1>6, <1>7 DEF Orderly, Busy, Holds, NodeAt
<1>9. \A w : RootLacks(s, w) => RootLacks(t, w)
  BY <1>7, RootLacksSame
<1> QED BY <1>7, <1>8, <1>9

----------------------------------------------------------------------------
(* The invariant                                                           *)

\* Where kfs_init is: the working directory stays the root until both processes
\* run.
BootOK(b, s) ==
    /\ b = [pc |-> b.pc, image |-> b.image, i |-> b.i, cursor |-> b.cursor]
    /\ b.pc \in {"mount", "unpack", "dev", "ready", "shell", "both"}
    /\ b.image \in Images /\ b.i \in 1 .. Len(b.image.entries)
    /\ b.cursor \in Nat /\ b.cursor <= b.image.len
    /\ b.pc = "mount" => s.node = <<>> /\ s.root = NULL
    /\ b.pc # "both" => s.cwd = s.root /\ s.sh = Prompt

FilesInv == Good(fs) /\ Tidy(fs) /\ ShellOK(fs) /\ fs.ret = NULL /\ BootOK(boot, fs)

\* The shell holds no descriptor but its command's, and no stream is found at
\* start-up.
Settled == Orderly(fs) /\ (boot.pc # "both" => RootLacks(fs, "dev"))

\* What a step does.
Moves == Steps(fs, fs') /\ BootOK(boot', fs')
Settles ==
    /\ LeakStep(fs, fs') \/ (boot.pc = "dev" /\ fs'.lost = fs.lost + 1)
    /\ Settled'

LEMMA BootGoes ==
    ASSUME NEW b, NEW s, BootOK(b, s), NEW pc \in {"unpack", "dev", "ready", "shell", "both"},
           NEW c, c = [b EXCEPT !.pc = pc], NEW t, pc # "both" => t.cwd = t.root /\ t.sh = Prompt
    PROVE  BootOK(c, t) /\ c.pc = pc
<1>1. c.pc = pc /\ c = [pc |-> pc, image |-> b.image, i |-> b.i, cursor |-> b.cursor]
  BY DEF BootOK
<1> QED BY <1>1 DEF BootOK

\* start-up goes on without a call
LEMMA BootOnly ==
    ASSUME FilesInv, UNCHANGED fs, NEW pc \in {"dev", "ready"}, boot.pc \in {"mount", "unpack"},
           boot' = [boot EXCEPT !.pc = pc]
    PROVE  Moves /\ (Settled => Settles)
<1>1. BootOK(boot, fs) /\ fs.cwd = fs.root /\ fs.sh = Prompt
  BY DEF FilesInv, BootOK
<1>2. PICK b, c, s : b = boot /\ c = boot' /\ s = fs
  OBVIOUS
<1>3. BootOK(c, s) /\ c.pc = pc
  BY <1>1, <1>2, BootGoes
<1>4. FaultStep(s, s) /\ LeakStep(s, s)
  BY DEF FaultStep, LeakStep
<1>5. Steps(s, s)
  BY <1>2, <1>4 DEF FilesInv, Steps
<1>6. Moves
  BY <1>2, <1>3, <1>5 DEF Moves
<1>7. Settled => RootLacks(fs, "dev") /\ Orderly(fs)
  BY DEF Settled
<1>8. (Orderly(fs))' = Orderly(s) /\ (RootLacks(fs, "dev"))' = RootLacks(s, "dev")
  BY <1>2 DEF Orderly, RootLacks, NameFree, Holds, Busy, NodeAt
<1> QED BY <1>2, <1>4, <1>6, <1>7, <1>8 DEF Settles, Settled

\* A step of kfs_init, with its call.
LEMMA StartsMoves ==
    ASSUME FilesInv, Starts(fs, fs'), BootOK(boot', fs')
    PROVE  Moves
  BY DEF Moves, Starts

LEMMA KfsMountRootMoves ==
    ASSUME FilesInv, KfsMountRoot
    PROVE  Moves /\ (Settled => Settles)
<1>1. PICK m : m = KvfsMount(fs, "/")
  OBVIOUS
<1>2. boot.pc = "mount" /\ ~fs.fault
  BY DEF KfsMountRoot, At
<1>3. IF boot.image.len < HEADER \/ m.ret = NULL THEN Goes("ready") /\ UNCHANGED fs
      ELSE Goes("unpack") /\ Leaves([m EXCEPT !.cwd = m.root])
  BY <1>1 DEF KfsMountRoot, Then
<1>4. CASE boot.image.len < HEADER \/ m.ret = NULL
  <2>1. boot' = [boot EXCEPT !.pc = "ready"] /\ UNCHANGED fs
    BY <1>3, <1>4 DEF Goes
  <2> QED BY <1>2, <2>1, BootOnly
<1>5. CASE ~(boot.image.len < HEADER \/ m.ret = NULL)
  <2>1. PICK r : r = [m EXCEPT !.cwd = m.root]
    OBVIOUS
  <2>2. boot' = [boot EXCEPT !.pc = "unpack"] /\ Leaves(r)
    BY <1>3, <1>5, <2>1 DEF Goes
  <2>3. PICK t : t = fs' /\ t = Left(fs, r)
    BY <2>2, LeavesLeft
  <2>4. Good(fs) /\ fs.ret = NULL /\ fs.sh = Prompt /\ fs.node = <<>> /\ BootOK(boot, fs)
    BY <1>2 DEF FilesInv, BootOK
  <2>5. Booted(fs, r) /\ ~r.fault /\ \A w : RootLacks(r, w)
    BY <1>1, <1>2, <1>5, <2>1, <2>4, MountRootIs
  <2>6. /\ Starts(fs, t) /\ t.lost = fs.lost /\ (Orderly(fs) => Orderly(t))
        /\ \A w : RootLacks(t, w)
    BY <1>2, <2>3, <2>4, <2>5, LeftBooted
  <2>7. BootOK(boot', t) /\ boot'.pc = "unpack"
    <3>1. t.cwd = t.root /\ t.sh = Prompt
      BY <2>6 DEF Starts
    <3> QED BY <2>2, <2>4, <2>6, <3>1, BootGoes
  <2>8. Moves
    BY <2>3, <2>6, <2>7, StartsMoves
  <2>9. Orderly(fs) => Settles
    BY <2>3, <2>6 DEF Settles, Settled, LeakStep
  <2> QED BY <2>8, <2>9 DEF Settled
<1> QED BY <1>4, <1>5

\* What the invariant says of the entry kinitrd_unpack is at.
LEMMA EntryIs ==
    ASSUME FilesInv, NEW e, e = boot.image.entries[boot.i]
    PROVE  /\ e \in Range(boot.image.entries) /\ IsPath(e.path) /\ e.size \in 0 .. MaxSize
           /\ e # EndMarker => boot.i + 1 \in 1 .. Len(boot.image.entries)
<1>1. PICK im, i : im = boot.image /\ i = boot.i
  OBVIOUS
<1>2. im \in Images /\ i \in 1 .. Len(im.entries)
  BY <1>1 DEF FilesInv, BootOK
<1>3. /\ Last(im.entries) = EndMarker /\ im.entries \in Seq(Range(im.entries))
      /\ \A x \in Range(im.entries) : IsPath(x.path) /\ x.size \in 0 .. MaxSize
  BY <1>2, FilesAssumption
<1>4. DOMAIN im.entries = 1 .. Len(im.entries) /\ Len(im.entries) \in Nat
  BY <1>3
<1>5. e = im.entries[i]
  BY <1>1
<1>6. e \in Range(im.entries)
  BY <1>2, <1>4, <1>5 DEF Range
<1>7. i = Len(im.entries) => e = EndMarker
  BY <1>3, <1>5 DEF Last
<1>8. i # Len(im.entries) => i + 1 \in 1 .. Len(im.entries)
  BY <1>2, <1>4
<1> QED BY <1>1, <1>3, <1>6, <1>7, <1>8

\* The step that unpacks an entry.
UnpackStep(r, e) ==
    /\ boot.pc = "unpack" /\ ~fs.fault /\ Leaves(r)
    /\ e = boot.image.entries[boot.i] /\ r = KinitrdUnpackEntry(fs, e) /\ e # EndMarker
    /\ boot.image.len - (boot.cursor + HEADER) >= e.size
    /\ boot' = IF r.ret = NULL THEN [boot EXCEPT !.pc = "ready"]
               ELSE [boot EXCEPT !.i = boot.i + 1, !.cursor = boot.cursor + HEADER + e.size]

LEMMA UnpackDoes ==
    ASSUME FilesInv, KinitrdUnpack
    PROVE  \/ /\ UNCHANGED fs /\ boot.pc = "unpack"
              /\ \E pc \in {"dev", "ready"} : boot' = [boot EXCEPT !.pc = pc]
           \/ \E r, e : UnpackStep(r, e)
<1>1. PICK e, r : e = boot.image.entries[boot.i] /\ r = KinitrdUnpackEntry(fs, e)
  OBVIOUS
<1>2. boot.pc = "unpack" /\ ~fs.fault
  BY DEF KinitrdUnpack, At
<1>3. CASE boot.image.len - boot.cursor < HEADER
  BY <1>2, <1>3 DEF KinitrdUnpack, Goes
<1>4. CASE ~(boot.image.len - boot.cursor < HEADER) /\ e = EndMarker
  BY <1>1, <1>2, <1>4 DEF KinitrdUnpack, Goes
<1>5. CASE /\ ~(boot.image.len - boot.cursor < HEADER) /\ e # EndMarker
           /\ ~KinitrdHasRemainingData(boot.cursor + HEADER, e.size)
  BY <1>1, <1>2, <1>5 DEF KinitrdUnpack, Goes
<1>6. CASE /\ ~(boot.image.len - boot.cursor < HEADER) /\ e # EndMarker
           /\ KinitrdHasRemainingData(boot.cursor + HEADER, e.size)
  <2>1. /\ Leaves(r)
        /\ boot' = IF r.ret = NULL THEN [boot EXCEPT !.pc = "ready"]
                   ELSE [boot EXCEPT !.i = boot.i + 1, !.cursor = boot.cursor + HEADER + e.size]
    BY <1>1, <1>6 DEF KinitrdUnpack, Then
  <2> QED BY <1>1, <1>2, <1>6, <2>1 DEF UnpackStep, KinitrdHasRemainingData
<1> QED BY <1>3, <1>4, <1>5, <1>6

LEMMA UnpackStepMoves ==
    ASSUME FilesInv, NEW r, NEW e, UnpackStep(r, e)
    PROVE  /\ Moves /\ fs'.lost = fs.lost /\ (Orderly(fs) => (Orderly(fs))')
           /\ \A w : w \notin Parts(e.path) /\ RootLacks(fs, w) => RootLacks(fs', w)
<1>1. PICK t : t = fs' /\ t = Left(fs, r)
  BY LeavesLeft DEF UnpackStep
<1>2. /\ Good(fs) /\ Tidy(fs) /\ ~fs.fault /\ fs.ret = NULL /\ fs.sh = Prompt /\ fs.cwd = fs.root
      /\ BootOK(boot, fs)
  BY DEF FilesInv, BootOK, UnpackStep
<1>3. /\ IsPath(e.path) /\ e.size \in 0 .. MaxSize /\ r = KinitrdUnpackEntry(fs, e)
      /\ boot.i + 1 \in 1 .. Len(boot.image.entries)
  BY EntryIs DEF UnpackStep
<1>4. Booted(fs, r)
      /\ \A w : w \notin Parts(e.path) /\ RootLacks(fs, w) /\ ~r.fault => RootLacks(r, w)
  BY <1>2, <1>3, UnpackEntryIs
<1>5. /\ Starts(fs, t) /\ t.lost = fs.lost /\ (Orderly(fs) => Orderly(t))
      /\ \A w : r.fault \/ RootLacks(r, w) => RootLacks(t, w)
  BY <1>1, <1>2, <1>4, LeftBooted
<1>6. t.cwd = t.root /\ t.sh = Prompt
  BY <1>2, <1>4, <1>5 DEF Starts
<1>7. BootOK(boot', t)
  <2>1. CASE r.ret = NULL
    <3>1. boot' = [boot EXCEPT !.pc = "ready"]
      BY <2>1 DEF UnpackStep
    <3> QED BY <1>2, <1>6, <3>1, BootGoes
  <2>2. CASE r.ret # NULL
    <3>1. PICK k, c : k = boot.i + 1 /\ c = boot.cursor + HEADER + e.size
      OBVIOUS
    <3>2. boot' = [boot EXCEPT !.i = k, !.cursor = c]
      BY <2>2, <3>1 DEF UnpackStep
    <3>3. boot.image.len \in Nat /\ HEADER \in Nat /\ boot.cursor \in Nat /\ e.size \in Nat
      BY <1>2, <1>3, FilesAssumption DEF BootOK
    <3>4. c \in Nat /\ c <= boot.image.len
      BY <3>1, <3>3 DEF UnpackStep
    <3>5. k \in 1 .. Len(boot.image.entries)
      BY <1>3, <3>1
    <3>6. boot' = [pc |-> boot.pc, image |-> boot.image, i |-> k, cursor |-> c] /\ boot.pc = "unpack"
      BY <1>2, <3>2 DEF BootOK, UnpackStep
    <3>7. boot'.pc = "unpack" /\ boot'.image = boot.image /\ boot'.i = k /\ boot'.cursor = c
      BY <3>6
    <3> QED BY <1>2, <1>6, <3>4, <3>5, <3>6, <3>7 DEF BootOK
  <2> QED BY <2>1, <2>2
<1>8. Moves
  BY <1>1, <1>5, <1>7, StartsMoves
<1>9. \A w : w \notin Parts(e.path) /\ RootLacks(fs, w) => RootLacks(t, w)
  BY <1>4, <1>5
<1>10. (Orderly(fs))' = Orderly(t)
  BY <1>1 DEF Orderly, Holds, Busy, NodeAt
<1> QED BY <1>1, <1>5, <1>8, <1>9, <1>10

LEMMA KinitrdUnpackMoves ==
    ASSUME FilesInv, KinitrdUnpack
    PROVE  Moves
<1>1. CASE /\ UNCHANGED fs /\ boot.pc = "unpack"
           /\ \E pc \in {"dev", "ready"} : boot' = [boot EXCEPT !.pc = pc]
  BY <1>1, BootOnly
<1>2. CASE \E r, e : UnpackStep(r, e)
  BY <1>2, UnpackStepMoves
<1> QED BY <1>1, <1>2, UnpackDoes

LEMMA KinitrdUnpackSettles ==
    ASSUME NoDevInImages, FilesInv, KinitrdUnpack, Settled
    PROVE  Settles
<1>1. CASE /\ UNCHANGED fs /\ boot.pc = "unpack"
           /\ \E pc \in {"dev", "ready"} : boot' = [boot EXCEPT !.pc = pc]
  BY <1>1, BootOnly
<1>2. ASSUME NEW r, NEW e, UnpackStep(r, e)
      PROVE  Settles
  <2>1. "dev" \notin Parts(e.path)
    <3>1. e \in Range(boot.image.entries) /\ boot.image \in Images
      BY <1>2, EntryIs DEF UnpackStep, FilesInv, BootOK
    <3>2. "dev" \notin Range(e.path.parts)
      BY <3>1 DEF NoDevInImages
    <3> QED BY <3>2 DEF Parts
  <2>2. /\ fs'.lost = fs.lost /\ (Orderly(fs) => (Orderly(fs))')
        /\ \A w : w \notin Parts(e.path) /\ RootLacks(fs, w) => RootLacks(fs', w)
    BY <1>2, UnpackStepMoves
  <2>3. Orderly(fs) /\ RootLacks(fs, "dev")
    BY <1>2 DEF Settled, UnpackStep
  <2>4. RootLacks(fs', "dev")
    BY <2>1, <2>2, <2>3
  <2> QED BY <2>2, <2>3, <2>4 DEF Settles, Settled, LeakStep
<1> QED BY <1>1, <1>2, UnpackDoes

LEMMA KfsMountDevMoves ==
    ASSUME FilesInv, KfsMountDev
    PROVE  Moves /\ (Settled => Settles)
<1>1. PICK m : m = KtmpfsMount(fs, "/dev")
  OBVIOUS
<1>2. PICK r : r = IF m.ret = NULL THEN m ELSE KfsCreateDevices(m, m.ret)
  OBVIOUS
<1>3. boot.pc = "dev" /\ ~fs.fault /\ boot' = [boot EXCEPT !.pc = "ready"]
  BY DEF KfsMountDev, At, Goes
<1>4. Leaves(r)
  BY <1>1, <1>2 DEF KfsMountDev, Then
<1>5. PICK t : t = fs' /\ t = Left(fs, r)
  BY <1>4, LeavesLeft
<1>6. /\ Good(fs) /\ Tidy(fs) /\ fs.ret = NULL /\ fs.sh = Prompt /\ fs.cwd = fs.root
      /\ BootOK(boot, fs)
  BY <1>3 DEF FilesInv, BootOK
<1>7. DevMade(fs, r) /\ \A w : RootLacks(fs, w) => RootLacks(r, w)
  BY <1>1, <1>2, <1>3, <1>6, MountDevIs
<1>8. /\ Starts(fs, t) /\ t.lost \in {fs.lost, fs.lost + 1} /\ (Orderly(fs) => Orderly(t))
      /\ \A w : RootLacks(r, w) => RootLacks(t, w)
  BY <1>3, <1>5, <1>6, <1>7, LeftDev
<1>9. BootOK(boot', t) /\ boot'.pc = "ready"
  <2>1. t.cwd = t.root /\ t.sh = Prompt
    BY <1>8 DEF Starts
  <2> QED BY <1>3, <1>6, <2>1, BootGoes
<1>10. Moves
  BY <1>5, <1>8, <1>9, StartsMoves
<1>11. Settled => Orderly(fs) /\ RootLacks(fs, "dev")
  BY <1>3 DEF Settled
<1>12. Settled => Settles
  BY <1>3, <1>5, <1>7, <1>8, <1>11 DEF Settles, Settled, LeakStep
<1> QED BY <1>10, <1>12

LEMMA KprocessCreateMoves ==
    ASSUME FilesInv, NEW p \in Procs, NEW from \in {"ready", "shell"}, NEW to \in {"shell", "both"},
           KprocessCreate(p, from, to)
    PROVE  Moves
<1>1. PICK r : r = KprocessAttachStdStreams(fs, p)
  OBVIOUS
<1>2. boot.pc = from /\ ~fs.fault /\ boot' = [boot EXCEPT !.pc = to] /\ Leaves(r)
  BY <1>1 DEF KprocessCreate, At, Goes
<1>3. PICK t : t = fs' /\ t = Left(fs, r)
  BY <1>2, LeavesLeft
<1>4. Good(fs) /\ Tidy(fs) /\ fs.sh = Prompt /\ fs.cwd = fs.root /\ BootOK(boot, fs)
  BY <1>2 DEF FilesInv, BootOK
<1>5. Attaching(fs, r)
  BY <1>1, <1>2, <1>4, AttachStdStreamsIs
<1>6. Starts(fs, t)
  BY <1>3, <1>4, <1>5, LeftAttached
<1>7. BootOK(boot', t)
  <2>1. t.cwd = t.root /\ t.sh = Prompt
    BY <1>6 DEF Starts
  <2> QED BY <1>2, <1>4, <2>1, BootGoes
<1> QED BY <1>3, <1>6, <1>7, StartsMoves

LEMMA KprocessCreateSettles ==
    ASSUME NoDevInImages, FilesInv, NEW p \in Procs, NEW from \in {"ready", "shell"}, NEW to \in {"shell", "both"},
           KprocessCreate(p, from, to), Settled
    PROVE  Settles
<1>1. PICK r : r = KprocessAttachStdStreams(fs, p)
  OBVIOUS
<1>2. boot.pc = from /\ ~fs.fault /\ Leaves(r)
  BY <1>1 DEF KprocessCreate, At
<1>3. PICK t : t = fs' /\ t = Left(fs, r)
  BY <1>2, LeavesLeft
<1>4. Good(fs) /\ Tidy(fs) /\ fs.ret = NULL /\ fs.cwd = fs.root
  BY <1>2 DEF FilesInv, BootOK
<1>5. Orderly(fs) /\ RootLacks(fs, "dev")
  BY <1>2 DEF Settled
<1>6. Same(fs, r) /\ r.sh = fs.sh
  BY <1>1, <1>2, <1>4, <1>5, StreamsNotFound
<1>7. t.lost = fs.lost /\ Orderly(t) /\ RootLacks(t, "dev")
  BY <1>2, <1>3, <1>4, <1>5, <1>6, LeftUntouched
<1> QED BY <1>3, <1>7 DEF Settles, Settled, LeakStep

LEMMA BootMoves ==
    ASSUME FilesInv, Boot
    PROVE  Moves
<1>1. CASE KfsMountRoot
  BY <1>1, KfsMountRootMoves
<1>2. CASE KinitrdUnpack
  BY <1>2, KinitrdUnpackMoves
<1>3. CASE KfsMountDev
  BY <1>3, KfsMountDevMoves
<1>4. CASE KprocessCreate("shell", "ready", "shell")
  BY <1>4, ProcsAre, KprocessCreateMoves
<1>5. CASE KprocessCreate("user", "shell", "both")
  BY <1>5, ProcsAre, KprocessCreateMoves
<1> QED BY <1>1, <1>2, <1>3, <1>4, <1>5 DEF Boot

LEMMA BootSettles ==
    ASSUME NoDevInImages, FilesInv, Boot, Settled
    PROVE  Settles
<1>1. CASE KfsMountRoot
  BY <1>1, KfsMountRootMoves
<1>2. CASE KinitrdUnpack
  BY <1>2, KinitrdUnpackSettles
<1>3. CASE KfsMountDev
  BY <1>3, KfsMountDevMoves
<1>4. CASE KprocessCreate("shell", "ready", "shell")
  BY <1>4, ProcsAre, KprocessCreateSettles
<1>5. CASE KprocessCreate("user", "shell", "both")
  BY <1>5, ProcsAre, KprocessCreateSettles
<1> QED BY <1>1, <1>2, <1>3, <1>4, <1>5 DEF Boot

----------------------------------------------------------------------------
(* System calls and commands                                               *)

\* What a step of a running system does.
Runs == Moves /\ (Settled => Settles)

\* What the invariant says when a call begins.
Begins(s) == Good(s) /\ Tidy(s) /\ ~s.fault /\ ShellOK(s)

LEMMA RunsOn ==
    ASSUME FilesInv, At("both"), UNCHANGED boot, NEW r, Leaves(r), Serves(fs, r)
    PROVE  Runs
<1>1. PICK t : t = fs' /\ t = Left(fs, r)
  BY LeavesLeft
<1>2. Good(fs) /\ Tidy(fs) /\ fs.ret = NULL /\ ~fs.fault /\ BootOK(boot, fs) /\ boot.pc = "both"
  BY DEF FilesInv, At
<1>3. Steps(fs, t) /\ LeakStep(fs, t) /\ (Orderly(fs) => Orderly(t))
  BY <1>1, <1>2, LeftServes
<1>4. BootOK(boot', t) /\ boot'.pc = "both"
  BY <1>2 DEF BootOK
<1>5. Moves
  BY <1>1, <1>3, <1>4 DEF Moves
<1>6. Settled => Settles
  BY <1>1, <1>3, <1>4 DEF Settles, Settled
<1> QED BY <1>5, <1>6 DEF Runs

LEMMA CallRuns ==
    ASSUME FilesInv, NEW r, Call(r), Begins(fs) => Serves(fs, r)
    PROVE  Runs
<1>1. At("both") /\ UNCHANGED boot /\ Leaves(r)
  BY DEF Call
<1>2. Begins(fs)
  BY <1>1 DEF FilesInv, At, Begins
<1> QED BY <1>1, <1>2, RunsOn

LEMMA CommandRuns ==
    ASSUME FilesInv, NEW r, Command(r), Begins(fs) /\ fs.sh.cmd = "prompt" => Serves(fs, r)
    PROVE  Runs
<1>1. Call(r) /\ fs.sh.cmd = "prompt"
  BY DEF Command
<1> QED BY <1>1, CallRuns

LEMMA ShellRuns ==
    ASSUME FilesInv, NEW cmd, NEW r, ShellStep(cmd, r), Begins(fs) /\ fs.sh.cmd = cmd => Serves(fs, r)
    PROVE  Runs
<1>1. At("both") /\ UNCHANGED boot /\ Leaves(r) /\ fs.sh.cmd = cmd
  BY DEF ShellStep
<1>2. Begins(fs)
  BY <1>1 DEF FilesInv, At, Begins
<1> QED BY <1>1, <1>2, RunsOn

LEMMA PathsAre ==
    ASSUME NEW path \in Paths
    PROVE  IsPath(path)
  BY FilesAssumption

LEMMA QuietServes ==
    ASSUME NEW s, ShellOK(s), NEW r, Quiet(s, r), r.sh = s.sh,
           ~r.fault => \A q \in Procs : Holds(r, q) = Holds(s, q)
    PROVE  Serves(s, r)
<1>1. Outcome(s, r)
  BY QuietOutcome
<1>2. ~r.fault => Holds(r, "shell") = Holds(s, "shell")
  BY ProcsAre
<1> QED BY <1>1, <1>2, UserServes

LEMMA OutcomeServes ==
    ASSUME NEW s, ShellOK(s), NEW r, Outcome(s, r), r.sh = s.sh,
           ~r.fault => \A q \in Procs : Holds(r, q) = Holds(s, q)
    PROVE  Serves(s, r)
<1>1. ~r.fault => Holds(r, "shell") = Holds(s, "shell")
  BY ProcsAre
<1> QED BY <1>1, UserServes

LEMMA ChdirServes ==
    ASSUME NEW s, Begins(s), NEW path \in Paths, NEW r, r = KvfsChdir(s, path)
    PROVE  Serves(s, r)
<1>1. /\ Outcome(s, r) /\ r.sh = s.sh
      /\ ~r.fault => \A q \in Procs : Holds(r, q) = Holds(s, q)
  BY PathsAre, ChdirIs DEF Begins
<1> QED BY <1>1, OutcomeServes DEF Begins

LEMMA UnlinkServes ==
    ASSUME NEW s, Begins(s), NEW path \in Paths, NEW r, r = KvfsUnlink(s, path)
    PROVE  Serves(s, r)
<1>1. r = RemoveNode(s, path, "reg")
  BY DEF KvfsUnlink
<1>2. /\ Outcome(s, r) /\ r.sh = s.sh
      /\ ~r.fault => \A q \in Procs : Holds(r, q) = Holds(s, q)
  BY <1>1, PathsAre, RemoveIs DEF Begins
<1> QED BY <1>2, OutcomeServes DEF Begins

LEMMA RmdirServes ==
    ASSUME NEW s, Begins(s), NEW path \in Paths, NEW r, r = Krmdir(s, path)
    PROVE  Serves(s, r)
  BY PathsAre, KrmdirServes DEF Begins

LEMMA PathCallRuns ==
    ASSUME FilesInv, NEW path \in Paths,
           \/ \E o \in {"read", "write"} : SysOpen(path, o)
           \/ SysChdir(path) \/ SysUnlink(path) \/ SysMkdir(path) \/ SysRmdir(path) \/ SysStat(path)
    PROVE  Runs
<1>1. IsPath(path)
  BY PathsAre
<1>2. ASSUME NEW o \in {"read", "write"}, SysOpen(path, o)
      PROVE  Runs
  <2>1. PICK r : r = OpenAs(fs, "user", path, o)
    OBVIOUS
  <2>2. Call(r)
    BY <1>2, <2>1 DEF SysOpen
  <2>3. o \in DOMAIN Openings
    BY OpeningAcc
  <2>4. Begins(fs) => Serves(fs, r)
    BY <1>1, <2>1, <2>3, SysOpenServes DEF Begins
  <2> QED BY <2>2, <2>4, CallRuns
<1>3. CASE SysChdir(path)
  <2>1. PICK r : r = KvfsChdir(fs, path)
    OBVIOUS
  <2>2. Call(r)
    BY <1>3, <2>1 DEF SysChdir
  <2>3. Begins(fs) => Serves(fs, r)
    BY <2>1, ChdirServes
  <2> QED BY <2>2, <2>3, CallRuns
<1>4. CASE SysUnlink(path)
  <2>1. PICK r : r = KvfsUnlink(fs, path)
    OBVIOUS
  <2>2. Call(r)
    BY <1>4, <2>1 DEF SysUnlink
  <2>3. Begins(fs) => Serves(fs, r)
    BY <2>1, UnlinkServes
  <2> QED BY <2>2, <2>3, CallRuns
<1>5. CASE SysMkdir(path)
  <2>1. PICK a : a = KmkdirOpen(fs, "user", path)
    OBVIOUS
  <2>2. PICK r : r = IF a.ret = KFD_ERROR THEN a ELSE KfdCloseForProcess(a, "user", a.ret)
    OBVIOUS
  <2>3. Call(r)
    BY <1>5, <2>1, <2>2 DEF SysMkdir, Then
  <2>4. Begins(fs) => Serves(fs, r)
    BY <1>1, <2>1, <2>2, SysMkdirServes DEF Begins
  <2> QED BY <2>3, <2>4, CallRuns
<1>6. CASE SysRmdir(path)
  <2>1. PICK r : r = Krmdir(fs, path)
    OBVIOUS
  <2>2. Call(r)
    BY <1>6, <2>1 DEF SysRmdir
  <2>3. Begins(fs) => Serves(fs, r)
    BY <2>1, RmdirServes
  <2> QED BY <2>2, <2>3, CallRuns
<1>7. CASE SysStat(path)
  <2>1. PICK a : a = OpenAs(fs, "user", path, "read")
    OBVIOUS
  <2>2. PICK r : r = IF a.ret = KFD_ERROR THEN a ELSE KfdStat(a, "user", a.ret)
    OBVIOUS
  <2>3. Call(r)
    BY <1>7, <2>1, <2>2 DEF SysStat, Kstat, Then
  <2>4. Begins(fs) => Serves(fs, r)
    BY <1>1, <2>1, <2>2, SysStatServes DEF Begins
  <2> QED BY <2>3, <2>4, CallRuns
<1> QED BY <1>2, <1>3, <1>4, <1>5, <1>6, <1>7

LEMMA DescriptorCallRuns ==
    ASSUME FilesInv, NEW f,
           SysClose(f) \/ SysFstat(f) \/ \E len \in 0 .. 1 : SysRead(f, len) \/ SysWrite(f, len)
    PROVE  Runs
<1>1. CASE SysClose(f)
  <2>1. PICK r : r = KfdCloseForProcess(fs, "user", f)
    OBVIOUS
  <2>2. Call(r)
    BY <1>1, <2>1 DEF SysClose
  <2>3. Begins(fs) => Serves(fs, r)
    BY <2>1, SysCloseServes DEF Begins
  <2> QED BY <2>2, <2>3, CallRuns
<1>2. CASE SysFstat(f)
  <2>1. PICK r : r = KfdStat(fs, "user", f)
    OBVIOUS
  <2>2. Call(r)
    BY <1>2, <2>1 DEF SysFstat
  <2>3. ASSUME Begins(fs)
        PROVE  Serves(fs, r)
    <3>1. Quiet(fs, r) /\ r.sh = fs.sh /\ (~r.fault => \A q \in Procs : Holds(r, q) = Holds(fs, q))
      BY <2>1, <2>3, ProcsAre, StatIs DEF Begins
    <3> QED BY <2>3, <3>1, QuietServes DEF Begins
  <2> QED BY <2>2, <2>3, CallRuns
<1>3. ASSUME NEW len \in 0 .. 1, SysRead(f, len)
      PROVE  Runs
  <2>1. PICK r : r = KfdRead(fs, "user", f, len)
    OBVIOUS
  <2>2. Call(r)
    BY <1>3, <2>1 DEF SysRead
  <2>3. ASSUME Begins(fs)
        PROVE  Serves(fs, r)
    <3>1. Quiet(fs, r) /\ r.sh = fs.sh /\ (~r.fault => \A q \in Procs : Holds(r, q) = Holds(fs, q))
      BY <2>1, <2>3, ProcsAre, ReadForIs DEF Begins
    <3> QED BY <2>3, <3>1, QuietServes DEF Begins
  <2> QED BY <2>2, <2>3, CallRuns
<1>4. ASSUME NEW len \in 0 .. 1, SysWrite(f, len)
      PROVE  Runs
  <2>1. PICK r : r = KfdWrite(fs, "user", f, len)
    OBVIOUS
  <2>2. Call(r) /\ KfdGet(fs, "user", f).off + len <= MaxSize
    BY <1>4, <2>1 DEF SysWrite
  <2>3. ASSUME Begins(fs)
        PROVE  Serves(fs, r)
    <3>1. Quiet(fs, r) /\ r.sh = fs.sh /\ (~r.fault => \A q \in Procs : Holds(r, q) = Holds(fs, q))
      BY <2>1, <2>2, <2>3, ProcsAre, WriteForIs DEF Begins
    <3> QED BY <2>3, <3>1, QuietServes DEF Begins
  <2> QED BY <2>2, <2>3, CallRuns
<1> QED BY <1>1, <1>2, <1>3, <1>4

LEMMA UserRuns ==
    ASSUME FilesInv, User
    PROVE  Runs
<1>1. CASE \E path \in Paths : \/ \E o \in {"read", "write"} : SysOpen(path, o)
                               \/ SysChdir(path) \/ SysUnlink(path) \/ SysMkdir(path)
                               \/ SysRmdir(path) \/ SysStat(path)
  BY <1>1, PathCallRuns
<1>2. CASE \E f \in -1 .. KFD_MAX_COUNT : \/ SysClose(f) \/ SysFstat(f)
                                          \/ \E len \in 0 .. 1 : SysRead(f, len) \/ SysWrite(f, len)
  BY <1>2, DescriptorCallRuns
<1> QED BY <1>1, <1>2 DEF User

LEMMA PathCommandRuns ==
    ASSUME FilesInv, NEW path \in Paths,
           \/ KshellCat(path) \/ KshellTouch(path) \/ KshellMkdir(path) \/ KshellCd(path)
           \/ KshellUnlink(path) \/ KshellRmdir(path) \/ KshellLs(path)
    PROVE  Runs
<1>1. IsPath(path)
  BY PathsAre
<1>2. CASE KshellCat(path)
  <2>1. PICK a, r : a = OpenAs(fs, "shell", path, "read") /\ r = Holding(a, "cat")
    OBVIOUS
  <2>2. Command(r)
    BY <1>2, <2>1 DEF KshellCat
  <2>3. "read" \in DOMAIN Openings
    BY OpeningAcc
  <2>4. Begins(fs) /\ fs.sh.cmd = "prompt" => Serves(fs, r)
    BY <1>1, <2>1, <2>3, ShellOpenServes DEF Begins
  <2> QED BY <2>2, <2>4, CommandRuns
<1>3. CASE KshellTouch(path)
  <2>1. PICK a, r : a = OpenAs(fs, "shell", path, "touch") /\ r = Holding(a, "touch")
    OBVIOUS
  <2>2. Command(r)
    BY <1>3, <2>1 DEF KshellTouch
  <2>3. "touch" \in DOMAIN Openings
    BY OpeningAcc
  <2>4. Begins(fs) /\ fs.sh.cmd = "prompt" => Serves(fs, r)
    BY <1>1, <2>1, <2>3, ShellOpenServes DEF Begins
  <2> QED BY <2>2, <2>4, CommandRuns
<1>4. CASE KshellMkdir(path)
  <2>1. PICK a, r : a = KmkdirOpen(fs, "shell", path) /\ r = Holding(a, "mkdir")
    OBVIOUS
  <2>2. Command(r)
    BY <1>4, <2>1 DEF KshellMkdir
  <2>3. Begins(fs) /\ fs.sh.cmd = "prompt" => Serves(fs, r)
    BY <1>1, <2>1, ShellMkdirServes DEF Begins
  <2> QED BY <2>2, <2>3, CommandRuns
<1>5. CASE KshellCd(path)
  <2>1. PICK r : r = KvfsChdir(fs, path)
    OBVIOUS
  <2>2. Command(r)
    BY <1>5, <2>1 DEF KshellCd
  <2>3. Begins(fs) => Serves(fs, r)
    BY <2>1, ChdirServes
  <2> QED BY <2>2, <2>3, CommandRuns
<1>6. CASE KshellUnlink(path)
  <2>1. PICK r : r = KvfsUnlink(fs, path)
    OBVIOUS
  <2>2. Command(r)
    BY <1>6, <2>1 DEF KshellUnlink
  <2>3. Begins(fs) => Serves(fs, r)
    BY <2>1, UnlinkServes
  <2> QED BY <2>2, <2>3, CommandRuns
<1>7. CASE KshellRmdir(path)
  <2>1. PICK r : r = Krmdir(fs, path)
    OBVIOUS
  <2>2. Command(r)
    BY <1>7, <2>1 DEF KshellRmdir
  <2>3. Begins(fs) => Serves(fs, r)
    BY <2>1, RmdirServes
  <2> QED BY <2>2, <2>3, CommandRuns
<1>8. CASE KshellLs(path)
  <2>1. PICK r : r = KfdOpendir(fs, path)
    OBVIOUS
  <2>2. Command(r)
    BY <1>8, <2>1 DEF KshellLs
  <2>3. Begins(fs) /\ fs.sh.cmd = "prompt" => Serves(fs, r)
    BY <1>1, <2>1, OpendirServes DEF Begins
  <2> QED BY <2>2, <2>3, CommandRuns
<1> QED BY <1>2, <1>3, <1>4, <1>5, <1>6, <1>7, <1>8

LEMMA CommandsRun ==
    ASSUME FilesInv, Commands
    PROVE  Runs
<1>1. CASE \E path \in Paths : \/ KshellCat(path) \/ KshellTouch(path) \/ KshellMkdir(path)
                               \/ KshellCd(path) \/ KshellUnlink(path) \/ KshellRmdir(path)
                               \/ KshellLs(path)
  BY <1>1, PathCommandRuns
<1>2. CASE KshellPwd
  <2>1. PICK r : r = IF fs.cwd # NULL /\ Dead(fs, fs.cwd) THEN Fault(fs) ELSE fs
    OBVIOUS
  <2>2. Command(r)
    BY <1>2, <2>1 DEF KshellPwd
  <2>3. Begins(fs) => Serves(fs, r)
    BY <2>1, PwdServes DEF Begins
  <2> QED BY <2>2, <2>3, CommandRuns
<1> QED BY <1>1, <1>2 DEF Commands

LEMMA ContinueRuns ==
    ASSUME FilesInv, Continue
    PROVE  Runs
<1>1. CASE CatStat
  <2>1. PICK a : a = KfdStat(fs, "shell", fs.sh.fd)
    OBVIOUS
  <2>2. PICK r : r = IF a.ret = NULL \/ CatSize(fs) = 0 \/ ~HasRoom(fs) THEN Closing(a)
                     ELSE [a EXCEPT !.sh = [cmd |-> "read", fd |-> fs.sh.fd, len |-> CatSize(fs)]]
    OBVIOUS
  <2>3. ShellStep("cat", r)
    BY <1>1, <2>1, <2>2 DEF CatStat, Then
  <2>4. Begins(fs) /\ fs.sh.cmd = "cat" => Serves(fs, r)
    BY <2>1, <2>2, CatStatServes DEF Begins
  <2> QED BY <2>3, <2>4, ShellRuns
<1>2. CASE CatRead
  <2>1. PICK a : a = KfdRead(fs, "shell", fs.sh.fd, fs.sh.len)
    OBVIOUS
  <2>2. PICK r : r = IF a.fault THEN a ELSE Closing(a)
    OBVIOUS
  <2>3. ShellStep("read", r)
    BY <1>2, <2>1, <2>2 DEF CatRead, Then
  <2>4. Begins(fs) /\ fs.sh.cmd = "read" => Serves(fs, r)
    BY <2>1, <2>2, CatReadServes DEF Begins
  <2> QED BY <2>3, <2>4, ShellRuns
<1>3. CASE TouchClose \/ KmkdirClose
  <2>1. PICK r : r = Closing(fs)
    OBVIOUS
  <2>2. PICK cmd \in {"touch", "mkdir"} : ShellStep(cmd, r)
    BY <1>3, <2>1 DEF TouchClose, KmkdirClose
  <2>3. Begins(fs) /\ fs.sh.cmd = cmd => Serves(fs, r)
    BY <2>1, CloseServes DEF Begins
  <2> QED BY <2>2, <2>3, ShellRuns
<1>4. CASE LsNext
  <2>1. PICK a : a = KfdReaddir(fs, "shell", fs.sh.fd)
    OBVIOUS
  <2>2. PICK r : r = IF a.ret = OK \/ a.fault THEN a ELSE KfdClosedir(a)
    OBVIOUS
  <2>3. ShellStep("ls", r)
    BY <1>4, <2>1, <2>2 DEF LsNext, Then
  <2>4. Begins(fs) /\ fs.sh.cmd = "ls" => Serves(fs, r)
    BY <2>1, <2>2, LsNextServes DEF Begins
  <2> QED BY <2>3, <2>4, ShellRuns
<1> QED BY <1>1, <1>2, <1>3, <1>4 DEF Continue

----------------------------------------------------------------------------
(* The theorems                                                            *)

LEMMA InitInv ==
    ASSUME FilesInit
    PROVE  FilesInv /\ Settled
<1>1. PICK h \in HeapSizes :
        fs = [ent |-> <<>>, node |-> <<>>, root |-> NULL, cwd |-> NULL,
              fds |-> NoFds, sh |-> Prompt,
              lost |-> 0, heap |-> h, ret |-> NULL, fault |-> FALSE]
  BY DEF FilesInit
<1>2. /\ IsFs(fs) /\ fs.ent = <<>> /\ fs.node = <<>> /\ fs.root = NULL /\ fs.cwd = NULL
      /\ fs.fds = NoFds /\ fs.sh = Prompt /\ fs.lost = 0 /\ fs.heap = h /\ fs.ret = NULL /\ fs.fault = FALSE
  BY <1>1 DEF IsFs
<1>3. Forest(fs.ent)
  BY <1>2, EmptyTable DEF Forest, LinkedUp, LinkedDown, NamesApart
<1>4. Good(fs) /\ Tidy(fs) /\ ShellOK(fs) /\ Orderly(fs)
  <2>1. PICK s : s = fs
    OBVIOUS
  <2>2. s.fault \in BOOLEAN /\ s.lost \in Nat /\ s.heap \in HeapSizes
    <3>1. s.lost = 0 /\ s.heap = h /\ s.fault = FALSE
      BY <1>2, <2>1
    <3>2. s.lost \in Nat /\ s.heap \in HeapSizes
      BY <3>1
    <3>3. s.fault \in BOOLEAN
      BY ONLY <3>1
    <3> QED BY <3>2, <3>3
  <2>3. Good(s) /\ Tidy(s) /\ ShellOK(s) /\ Orderly(s)
    BY <1>2, <1>3, <2>1, <2>2, BareGood
  <2> QED BY <2>1, <2>3
<1>5. PICK im \in Images : boot = [pc |-> "mount", image |-> im, i |-> 1, cursor |-> 0]
  BY DEF FilesInit
<1>6. im.len \in Nat /\ Len(im.entries) \in Nat \ {0}
  <2>1. im.len \in Nat /\ im.entries # <<>> /\ im.entries \in Seq(Range(im.entries))
    BY FilesAssumption
  <2> QED BY <2>1
<1>7. BootOK(boot, fs)
  BY <1>2, <1>5, <1>6 DEF BootOK
<1>8. Settled
  BY <1>2, <1>4 DEF Settled, RootLacks
<1> QED BY <1>2, <1>4, <1>7, <1>8 DEF FilesInv

LEMMA StillMoves ==
    ASSUME FilesInv, UNCHANGED cvars
    PROVE  Moves /\ (Settled => Settles)
<1>1. fs' = fs /\ boot' = boot
  BY DEF cvars
<1>2. FaultStep(fs, fs) /\ LeakStep(fs, fs)
  BY DEF FaultStep, LeakStep
<1>3. Moves
  BY <1>1, <1>2 DEF Moves, Steps, FilesInv
<1>4. Settled => Settles
  BY <1>1, <1>2 DEF Settles, Settled
<1> QED BY <1>3, <1>4

LEMMA NextMoves ==
    ASSUME FilesInv, [CallNext]_cvars
    PROVE  Moves /\ FilesInv'
<1>1. Boot => Moves
  BY BootMoves
<1>2. User \/ Commands \/ Continue => Moves
  BY UserRuns, CommandsRun, ContinueRuns DEF Runs
<1>3. UNCHANGED cvars => Moves
  BY StillMoves
<1>4. Moves
  BY <1>1, <1>2, <1>3 DEF CallNext, Undefined
<1>5. FilesInv'
  BY <1>4 DEF Moves, Steps, FilesInv
<1> QED BY <1>4, <1>5

LEMMA NextSettles ==
    ASSUME NoDevInImages, FilesInv, Settled, [CallNext]_cvars
    PROVE  Settles
<1>1. CASE Boot
  BY <1>1, BootSettles
<1>2. CASE User \/ Commands \/ Continue
  BY <1>2, UserRuns, CommandsRun, ContinueRuns DEF Runs
<1>3. CASE UNCHANGED cvars
  BY <1>3, StillMoves
<1> QED BY <1>1, <1>2, <1>3 DEF CallNext, Undefined

\* A call of the shell that goes on with what it read before a system call.
LEMMA OvertakenAstray ==
    ASSUME ShellOvertaken
    PROVE  astray'
<1>1. ASSUME NEW path \in Paths, NEW o, OpenOvertaken(path, o)
      PROVE  astray'
  BY <1>1 DEF OpenOvertaken, Overtaken
<1>2. ASSUME NEW path \in Paths, NEW kind, RemoveOvertaken(path, kind)
      PROVE  astray'
  BY <1>2 DEF RemoveOvertaken, Overtaken
<1>3. ASSUME NEW path \in Paths, ChdirOvertaken(path)
      PROVE  astray'
  BY <1>3 DEF ChdirOvertaken, Overtaken
<1>4. ASSUME CwdOvertaken
      PROVE  astray'
  BY <1>4 DEF CwdOvertaken, Overtaken
<1>5. ASSUME CopyOvertaken
      PROVE  astray'
  BY <1>5 DEF CopyOvertaken, Overtaken
<1>6. ASSUME ReaddirOvertaken
      PROVE  astray'
  BY <1>6 DEF ReaddirOvertaken, Overtaken
<1> QED BY <1>1, <1>2, <1>3, <1>4, <1>5, <1>6 DEF ShellOvertaken

\* Until one does, every step is a call as a whole.
LEMMA WholeOrAstray ==
    ASSUME [FilesNext]_fvars, ~astray'
    PROVE  ~astray /\ [CallNext]_cvars
<1>1. CASE /\ ~astray /\ UNCHANGED astray
           /\ \/ (Boot \/ Undefined) /\ UNCHANGED seen
              \/ User /\ (Within \/ UNCHANGED seen)
              \/ (Commands \/ Continue) /\ seen = {} /\ UNCHANGED seen
  <2>1. CallNext
    BY <1>1 DEF CallNext
  <2> QED BY <1>1, <2>1
<1>2. CASE ~astray /\ ShellOvertaken
  BY <1>2, OvertakenAstray
<1>3. CASE UNCHANGED fvars
  BY <1>3 DEF fvars, cvars
<1> QED BY <1>1, <1>2, <1>3 DEF FilesNext

\* What the file system keeps between its calls, whatever is called in whatever
\* order and however much the heap has to give (src/src/kernel/fs), until a call
\* of the shell goes on with what it read before a system call.
THEOREM FilesInvariant == FilesSpec => [](astray \/ FilesInv)
<1>1. FilesInit => astray \/ FilesInv
  BY InitInv
<1>2. (astray \/ FilesInv) /\ [FilesNext]_fvars => (astray \/ FilesInv)'
  <2> SUFFICES ASSUME astray \/ FilesInv, [FilesNext]_fvars, ~astray'
               PROVE  FilesInv'
    OBVIOUS
  <2>1. ~astray /\ [CallNext]_cvars
    BY WholeOrAstray
  <2> QED BY <2>1, NextMoves
<1> QED BY <1>1, <1>2, PTL DEF FilesSpec

\* The invariant gives the types.
LEMMA TypesFollow ==
    ASSUME FilesInv
    PROVE  FilesTypeOK
<1>1. Good(fs) /\ ShellOK(fs) /\ fs.ret = NULL /\ BootOK(boot, fs)
  BY DEF FilesInv
<1>2. fs.fault \in BOOLEAN /\ fs.lost \in Nat /\ fs.heap \in HeapSizes
  BY <1>1 DEF Good, Typed
<1>3. \A e \in DOMAIN fs.ent :
        /\ fs.ent[e].kind \in {"dir", "reg", "chr"} /\ fs.ent[e].buf \in {"none", "held", "freed"}
        /\ fs.ent[e].nlink \in Nat /\ fs.ent[e].size \in 0 .. MaxSize
  BY <1>1, GoodParts DEF EntryOK
<1>4. fs.fds \in [Procs -> [Fds -> [node : Nat, off : Nat, acc : DOMAIN Wanted]]]
  <2>1. DOMAIN Wanted = {"r", "w", "rw"}
    BY DEF Wanted
  <2>2. Desc = [node : Nat, off : Nat, acc : DOMAIN Wanted]
    BY <2>1 DEF Desc
  <2> QED BY <1>1, <2>2 DEF Good, Typed
<1>5. /\ fs.sh.cmd \in {"prompt", "cat", "read", "touch", "mkdir", "ls"}
      /\ fs.sh.fd \in Fds \cup {KFD_ERROR}
  BY <1>1 DEF ShellOK, Prompt
<1>6. boot.pc \in {"mount", "unpack", "dev", "ready", "shell", "both"}
  BY <1>1 DEF BootOK
<1> QED BY <1>1, <1>2, <1>3, <1>4, <1>5, <1>6 DEF FilesTypeOK

\* The values of the variables keep their types, until a call of the shell goes
\* on with what it read before a system call.
THEOREM FilesTypes == FilesSpec => [](astray \/ FilesTypeOK)
  BY FilesInvariant, TypesFollow, PTL

LEMMA TreeFollows ==
    ASSUME FilesInv
    PROVE  TreeSound
<1>1. PICK E : E = fs.ent
  OBVIOUS
<1>2. Good(fs)
  BY DEF FilesInv
<1>3. (\A e \in DOMAIN E : EntryOK(E[e])) /\ LinkedUp(E) /\ LinkedDown(E) /\ NamesApart(E)
  BY <1>1, <1>2, GoodParts
<1>4. \A e \in DOMAIN E :
        E[e].parent # NULL => /\ E[e].parent \in {d \in DOMAIN E : E[d].kind = "dir"}
                              /\ e \in E[E[e].parent].kids
  BY <1>3 DEF LinkedUp
<1>5. ASSUME NEW d \in DOMAIN E, E[d].kind = "dir"
      PROVE  /\ IsInjective([e \in E[d].kids |-> E[e].name])
             /\ \A e \in E[d].kids : E[e].parent = d
             /\ E[d].nlink = 2 + Cardinality(E[d].kids)
  <2>1. \A j, k \in E[d].kids : E[j].name = E[k].name => j = k
    BY <1>3 DEF NamesApart
  <2>2. IsInjective([e \in E[d].kids |-> E[e].name])
    BY <2>1 DEF IsInjective
  <2>3. \A e \in E[d].kids : E[e].parent = d
    BY <1>3 DEF LinkedDown
  <2>4. E[d].nlink = 2 + Cardinality(E[d].kids)
    BY <1>3, <1>5 DEF EntryOK
  <2> QED BY <2>2, <2>3, <2>4
<1>6. DescNodes(fs) \cup ({fs.root} \ {NULL}) \subseteq DOMAIN fs.node
  BY <1>2, DescNodesThere DEF Good, Handles
<1>7. Dirs = {d \in DOMAIN E : E[d].kind = "dir"}
  BY <1>1 DEF Dirs
<1>8. NoNameTwice
  <2>1. \A d \in Dirs : IsInjective([e \in E[d].kids |-> E[e].name])
    BY <1>5, <1>7
  <2> QED BY ONLY <1>1, <2>1 DEF NoNameTwice
<1>9. \A e \in DOMAIN E : E[e].parent # NULL => E[e].parent \in Dirs /\ e \in E[E[e].parent].kids
  BY <1>4, <1>7
<1>10. \A d \in Dirs : /\ \A e \in E[d].kids : E[e].parent = d
                      /\ E[d].nlink = 2 + Cardinality(E[d].kids)
  BY <1>5, <1>7
<1> QED BY ONLY <1>1, <1>6, <1>8, <1>9, <1>10 DEF TreeSound

\* The entries ktmpfs_create_entry links and ktmpfs_remove_from_parent_ll unlinks
\* are a forest after every call, and no call frees the node of a descriptor
\* that is open: kvfs_close is only called on nodes the call itself made, on the
\* working directory and by the close of the descriptor.  That is so until a
\* call of the shell goes on with what it read before a system call, such as
\* that the name kvfs_open is to make is missing: the one way to lose it.
THEOREM TreeIsSound == FilesSpec => []TreeSound
<1>1. astray => TreeSound
  BY DEF TreeSound
<1> QED BY <1>1, FilesInvariant, TreeFollows, PTL

LEMMA PositionsFollow ==
    ASSUME FilesInv
    PROVE  PositionsInFile
<1>1. Good(fs) /\ boot.cursor <= boot.image.len
  BY DEF FilesInv, BootOK
<1>2. ASSUME NEW d \in Descs(fs), NEW desc, desc = fs.fds[d[1]][d[2]], NEW e, e = Entry(fs, desc.node),
             ~Dead(fs, desc.node), e.kind = "reg"
      PROVE  desc.off <= e.size /\ e.size <= e.cap
  <2>1. PICK p \in Procs, f \in Fds : p = d[1] /\ f = d[2] /\ desc.node # NULL
    BY <1>2 DEF Descs, Fds
  <2>2. NodeAt(fs, p, f) = desc.node /\ desc = fs.fds[p][f]
    BY <1>2, <2>1 DEF NodeAt
  <2>3. desc.off <= e.size
    BY <1>1, <1>2, <2>1, <2>2 DEF Good, Positions
  <2>4. fs.node[desc.node] \in DOMAIN fs.ent /\ e = fs.ent[fs.node[desc.node]]
    BY <1>2 DEF Dead, Entry
  <2>5. EntryOK(e)
    BY <1>1, <2>4, GoodParts
  <2> QED BY <1>2, <2>3, <2>5 DEF EntryOK
<1> QED BY <1>1, <1>2 DEF PositionsInFile

\* kfd_read and kfd_write never take a position past the end of the file, nor does
\* a file end past its block: the comparison of ktmpfs_read that refuses such a
\* position is never needed, and the cursor of kinitrd_unpack stays in the image.
\* It is so until a call of the shell goes on with what it read before a system
\* call.
THEOREM PositionsStayInFile == FilesSpec => []PositionsInFile
<1>1. astray => PositionsInFile
  BY DEF PositionsInFile
<1> QED BY <1>1, FilesInvariant, PositionsFollow, PTL

\* A use of freed memory has one of the causes FaultExplained lists, and a call
\* that closes the working directory has failed, in every state and for every
\* path (kvfs_open, krealloc in ktmpfs_write, kfd_opendir); any other use of freed
\* memory is by a call of the shell that went on with what it read before a
\* system call, and only the first such call is followed.
THEOREM FaultsExplained == FilesSpec => FaultExplained
<1>1. (astray \/ FilesInv) /\ [FilesNext]_fvars =>
        [/\ fs'.fault /\ ~fs.fault /\ ~astray' =>
               \/ \E n \in DescNodes(fs) \cup ({fs.cwd} \ {NULL}) : Dead(fs, n)
               \/ Data(fs, "freed") # {}
               \/ ~HasRoom(fs)
         /\ fs.cwd \in DOMAIN fs.node /\ fs'.cwd = fs.cwd /\ ~fs'.fault /\ fs.cwd \notin DOMAIN fs'.node
               => astray' \/ (fs'.fds = fs.fds /\ fs'.sh = fs.sh)]_fvars
  <2>1. SUFFICES ASSUME astray \/ FilesInv, [FilesNext]_fvars, ~astray'
                 PROVE  FaultStep(fs, fs')
    BY DEF FaultStep, Explained
  <2>2. ~astray /\ [CallNext]_cvars
    BY <2>1, WholeOrAstray
  <2> QED BY <2>1, <2>2, NextMoves DEF Moves, Steps
<1> QED BY <1>1, FilesInvariant, PTL DEF FilesSpec, FaultExplained

LEMMA SettledAlways ==
    ASSUME NoDevInImages
    PROVE  FilesSpec => [](astray \/ Settled)
<1>1. FilesInit => astray \/ Settled
  BY InitInv
<1>2. (astray \/ FilesInv) /\ (astray \/ Settled) /\ [FilesNext]_fvars => (astray \/ Settled)'
  <2> SUFFICES ASSUME astray \/ FilesInv, astray \/ Settled, [FilesNext]_fvars, ~astray'
               PROVE  Settled'
    OBVIOUS
  <2>1. ~astray /\ [CallNext]_cvars
    BY WholeOrAstray
  <2> QED BY <2>1, NextSettles DEF Settles
<1> QED BY <1>1, <1>2, FilesInvariant, PTL DEF FilesSpec

LEMMA TableFollows ==
    ASSUME FilesInv, Settled
    PROVE  ShellTableClean
<1> SUFFICES ASSUME fs.sh.cmd = "prompt", NEW f \in Fds
             PROVE  fs.fds["shell"][f] = NoDesc
  BY DEF ShellTableClean
<1>1. Holds(fs, "shell") = {}
  BY DEF Settled, Orderly, Busy
<1>2. NodeAt(fs, "shell", f) = NULL
  BY <1>1 DEF Holds
<1>3. Handles(fs)
  BY DEF FilesInv, Good
<1> QED BY <1>2, <1>3, ProcsAre DEF Handles

\* At the prompt the shell's descriptor table is empty, however its commands
\* ended and whatever the user process does in between, until one of them goes
\* on with what it read before a system call; the streams that
\* kprocess_attach_std_streams looks for are never found in a root without
\* "dev", which no image makes (NoDevInImages).
THEOREM ShellTableStaysClean ==
    ASSUME NoDevInImages
    PROVE  FilesSpec => []ShellTableClean
<1>1. astray => ShellTableClean
  BY DEF ShellTableClean
<1> QED BY <1>1, FilesInvariant, SettledAlways, TableFollows, PTL

\* What LeakStep says of a step is what LeaksKnown says.
LEMMA LeakIsKnown ==
    ASSUME LeakStep(fs, fs')
    PROVE  \/ fs'.lost = fs.lost
           \/ /\ fs'.lost = fs.lost + 1
              /\ \/ Data(fs, "held") \ DOMAIN fs'.ent # {}
                 \/ fs' = [fs EXCEPT !.lost = fs.lost + 1] /\ \E path \in Paths : RefusedAt(path)
                 \/ \E path \in Paths :
                      \/ \E p \in Procs, o \in DOMAIN Openings : OpensInVain(fs, p, path, o)
                      \/ OpensInVain([fs EXCEPT !.sh = Opening], "shell", path, "ls")
<1>1. \A path : RefusedIn(fs, path) <=> RefusedAt(path)
  BY DEF RefusedIn, RefusedAt
<1>2. PICK u : u = [fs EXCEPT !.sh = Opening]
  OBVIOUS
<1>3. ASSUME fs'.fds = fs.fds, fs'.sh = fs.sh, NEW w, NEW p, NEW path, NEW o,
             VainStep(w, p, OpenedFor(w, path, o), fs')
      PROVE  OpensInVain(w, p, path, o)
  BY <1>3 DEF VainStep, OpenedFor, OpensInVain
<1>4. CASE /\ fs'.lost = fs.lost + 1 /\ fs'.fds = fs.fds /\ fs'.sh = fs.sh
           /\ \E path \in Paths :
                \/ \E p \in Procs, o \in DOMAIN Openings : VainStep(fs, p, OpenedFor(fs, path, o), fs')
                \/ VainStep(u, "shell", OpenedFor(u, path, "ls"), fs')
  <2>1. \E path \in Paths : \/ \E p \in Procs, o \in DOMAIN Openings : OpensInVain(fs, p, path, o)
                            \/ OpensInVain(u, "shell", path, "ls")
    BY <1>3, <1>4
  <2> QED BY <1>2, <1>4, <2>1
<1>5. CASE \/ fs'.lost = fs.lost
           \/ fs'.lost = fs.lost + 1 /\ Data(fs, "held") \ DOMAIN fs'.ent # {}
  BY <1>5
<1>6. CASE /\ fs'.lost = fs.lost + 1 /\ fs' = [fs EXCEPT !.lost = fs.lost + 1]
           /\ \E path \in Paths : RefusedIn(fs, path)
  BY <1>1, <1>6
<1> QED BY <1>2, <1>4, <1>5, <1>6 DEF LeakStep

\* The heap loses a block only as LeaksKnown lists: ktmpfs_remove_from_parent_ll
\* without a kfree of the data, kvfs_rmdir and kvfs_unlink that return without
\* kvfs_close, kfd_create_for_process that fails on an open node, and kfs_init
\* that drops dev_node; or in a call of the shell that goes on with what it read
\* before a system call.
THEOREM LeaksAreKnown ==
    ASSUME NoDevInImages
    PROVE  FilesSpec => LeaksKnown
<1>1. (astray \/ FilesInv) /\ (astray \/ Settled) /\ [FilesNext]_fvars =>
        [\/ astray' \/ fs'.lost = fs.lost
         \/ /\ fs'.lost = fs.lost + 1
            /\ \/ Data(fs, "held") \ DOMAIN fs'.ent # {}
               \/ fs' = [fs EXCEPT !.lost = fs.lost + 1] /\ \E path \in Paths : RefusedAt(path)
               \/ boot.pc = "dev"
               \/ \E path \in Paths : \/ \E p \in Procs, o \in DOMAIN Openings : OpensInVain(fs, p, path, o)
                                      \/ OpensInVain([fs EXCEPT !.sh = Opening], "shell", path, "ls")]_fvars
  <2>1. SUFFICES ASSUME astray \/ FilesInv, astray \/ Settled, [FilesNext]_fvars, ~astray'
                 PROVE  LeakStep(fs, fs') \/ (boot.pc = "dev" /\ fs'.lost = fs.lost + 1)
    BY LeakIsKnown
  <2>2. ~astray /\ [CallNext]_cvars
    BY <2>1, WholeOrAstray
  <2> QED BY <2>1, <2>2, NextSettles DEF Settles
<1> QED BY <1>1, FilesInvariant, SettledAlways, PTL DEF FilesSpec, LeaksKnown
=============================================================================
