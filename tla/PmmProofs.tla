----------------------------- MODULE PmmProofs -----------------------------
(***************************************************************************)
(* Proofs about Pmm for every memory map, page size and word width: the    *)
(* blocks handed out are exclusive and lie in usable RAM, as long as the   *)
(* address of every free frame fits the word.  Without that condition      *)
(* kpmm_bitmap_get_page_addr cuts addresses and two blocks may share one.  *)
(***************************************************************************)
EXTENDS Pmm, TLAPS, WellFoundedInduction, FiniteSetTheorems,
        SequenceTheorems

\* No free frame lies above the largest address of a word.
AddressableFrames == \A s \in Clear : s * PAGE < WORD

\* The shape of the bitmap and of the history.
Shape ==
    /\ Bits \subseteq Nat
    /\ kpmm_bitmap = [b \in Bits |-> kpmm_bitmap[b]]
    /\ \A b \in Bits : kpmm_bitmap[b] \in BOOLEAN
    /\ e820 \in Maps /\ entry \in Nat \ {0}
    /\ \A b \in live : b \in [addr : Nat, count : Nat \ {0}]
    /\ phase \in {"boot", "e820"} => live = {}

\* A clear bit is a frame that may be handed out.
ClearUsable == Clear \subseteq Usable

\* The inductive invariant.
PmmIndInv == Shape /\ ClearUsable /\ LiveBlocksExclusive

----------------------------------------------------------------------------
\* The minimum of a nonempty set of naturals is its least element.
LEMMA MinIn ==
    ASSUME NEW S, S \subseteq Nat, S # {}
    PROVE  Min(S) \in S /\ \A y \in S : Min(S) =< y
<1>1. \E x \in S : \A y \in S : ~(<<y, x>> \in OpToRel(<, Nat))
  BY WFMin, NatLessThanWellFounded
<1>2. \E x \in S : \A y \in S : x =< y
  <2>1. PICK x \in S : \A y \in S : ~(<<y, x>> \in OpToRel(<, Nat))
    BY <1>1
  <2>2. ASSUME NEW y \in S PROVE x =< y
    <3>1. ~(y < x)
      BY <2>1 DEF OpToRel
    <3> QED BY <3>1
  <2> QED BY <2>2
<1> QED BY <1>2 DEF Min

\* First fit answers the start of a run of clear bits.
LEMMA FirstFitIsRun ==
    ASSUME Shape, NEW n \in Nat, Runs(n) # {}
    PROVE  /\ GetNContinuous(n) \in Bits
           /\ GetNContinuous(n) .. (GetNContinuous(n) + n - 1) \subseteq Clear
<1>1. Runs(n) \subseteq Nat
  BY DEF Runs, Shape
<1>2. GetNContinuous(n) \in Runs(n)
  BY <1>1, MinIn DEF GetNContinuous
<1> QED BY <1>2 DEF Runs, FreeRun

\* An address that fits the word names the page it was made from.
LEMMA AddressNamesPage ==
    ASSUME NEW s \in Nat, s * PAGE < WORD
    PROVE  PageAddr(s) \in Nat /\ PageAddr(s) \div PAGE = s
<1>1. s * PAGE \in Nat /\ PAGE \in Nat \ {0} /\ WORD \in Nat \ {0}
  BY PmmAssumption
<1>2. (s * PAGE) % WORD = s * PAGE
  BY <1>1
<1>3. (s * PAGE) \div PAGE = s
  BY <1>1
<1> QED BY <1>1, <1>2, <1>3 DEF PageAddr

----------------------------------------------------------------------------
\* The initial state satisfies the inductive invariant.
LEMMA PmmInitInv == PmmInit => PmmIndInv
<1> SUFFICES ASSUME PmmInit PROVE PmmIndInv
  OBVIOUS
<1>1. Bits = {} /\ Clear = {}
  BY DEF PmmInit, Bits, Clear
<1>2. Shape
  BY <1>1 DEF PmmInit, Shape, Bits
<1> QED BY <1>1, <1>2 DEF PmmInit, PmmIndInv, ClearUsable, LiveBlocksExclusive

\* What kpmm_bitmap_set_value does to the bitmap.
LEMMA SetValueEffect ==
    ASSUME Shape, NEW f \in Nat, NEW n \in Nat, NEW v \in BOOLEAN, SetValue(f, n, v)
    PROVE  /\ Bits' = Bits
           /\ kpmm_bitmap' = [b \in Bits' |-> kpmm_bitmap'[b]]
           /\ \A b \in Bits' : kpmm_bitmap'[b] \in BOOLEAN
           /\ v => Clear' = Clear \ (f .. (f + n - 1))
           /\ ~v => Clear' = Clear \cup (Bits \cap (f .. (f + n - 1)))
BY DEF SetValue, Bits, Clear, Shape

\* kpmm_alloc_pages, when it finds a run: the new block is the run.
LEMMA AllocEffect ==
    ASSUME PmmIndInv, AddressableFrames, NEW n \in 0 .. MaxCount,
           KpmmAllocPages(n), Runs(n) # {}
    PROVE  \E s \in Nat, new \in [addr : Nat, count : {n}] :
               /\ PagesOfBlock(new) = s .. (s + n - 1)
               /\ PagesOfBlock(new) \subseteq Clear
               /\ live' = live \cup {new}
               /\ Bits' = Bits /\ Clear' = Clear \ PagesOfBlock(new)
               /\ kpmm_bitmap' = [b \in Bits' |-> kpmm_bitmap'[b]]
               /\ \A b \in Bits' : kpmm_bitmap'[b] \in BOOLEAN
<1> USE DEF PmmIndInv
<1>1. n \in Nat \ {0}
  BY PmmAssumption DEF KpmmAllocPages, Refuses
<1> DEFINE s == GetNContinuous(n)
           new == [addr |-> PageAddr(s), count |-> n]
<1>2. SetValue(s, n, TRUE) /\ live' = live \cup {new}
  BY DEF KpmmAllocPages
<1>3. s \in Nat /\ s .. (s + n - 1) \subseteq Clear
  BY <1>1, FirstFitIsRun DEF Shape
<1>4. s \in Clear
  BY <1>1, <1>3
<1>5. PageAddr(s) \in Nat /\ PageAddr(s) \div PAGE = s
  BY <1>3, <1>4, AddressNamesPage DEF AddressableFrames
<1>6. PagesOfBlock(new) = s .. (s + n - 1)
  BY <1>5 DEF PagesOfBlock
<1>7. /\ Bits' = Bits /\ Clear' = Clear \ PagesOfBlock(new)
      /\ kpmm_bitmap' = [b \in Bits' |-> kpmm_bitmap'[b]]
      /\ \A b \in Bits' : kpmm_bitmap'[b] \in BOOLEAN
  BY <1>1, <1>2, <1>3, <1>6, SetValueEffect
<1>8. new \in [addr : Nat, count : {n}]
  BY <1>5
<1> HIDE DEF s, new
<1> QED BY <1>2, <1>3, <1>6, <1>7, <1>8

\* kpmm_alloc_pages, when it finds none: the machine stops.
LEMMA AllocPanics ==
    ASSUME NEW n, KpmmAllocPages(n), Runs(n) = {}
    PROVE  /\ UNCHANGED <<kpmm_bitmap, kpmm_free_pages_amount, live, e820, entry>>
           /\ phase' = "panic" /\ Bits' = Bits /\ Clear' = Clear /\ Usable' = Usable
BY DEF KpmmAllocPages, Bits, Clear, Usable

\* kpmm_alloc_pages keeps the invariant.
LEMMA AllocStep ==
    ASSUME PmmIndInv, AddressableFrames, NEW n \in 0 .. MaxCount, KpmmAllocPages(n)
    PROVE  PmmIndInv'
<1> USE DEF PmmIndInv
<1>1. CASE Runs(n) = {}
  BY <1>1, AllocPanics DEF Shape, ClearUsable, LiveBlocksExclusive
<1>2. CASE Runs(n) # {}
  <2>1. n \in Nat \ {0} /\ UNCHANGED <<e820, entry, phase>> /\ phase = "ready"
    BY <1>2, PmmAssumption DEF KpmmAllocPages, Refuses
  <2>2. PICK s \in Nat, new \in [addr : Nat, count : {n}] :
            /\ PagesOfBlock(new) = s .. (s + n - 1)
            /\ PagesOfBlock(new) \subseteq Clear
            /\ live' = live \cup {new}
            /\ Bits' = Bits /\ Clear' = Clear \ PagesOfBlock(new)
            /\ kpmm_bitmap' = [b \in Bits' |-> kpmm_bitmap'[b]]
            /\ \A b \in Bits' : kpmm_bitmap'[b] \in BOOLEAN
    BY <1>2, AllocEffect
  <2>3. Usable' = Usable
    BY <2>1 DEF Usable
  <2>4. Shape'
    BY <2>1, <2>2 DEF Shape
  <2>5. Clear \subseteq Usable \cap Bits
    BY DEF ClearUsable, Clear
  <2>6. LiveBlocksExclusive'
    <3>1. \A b \in live : PagesOfBlock(b) \cap PagesOfBlock(new) = {}
      BY <2>2 DEF LiveBlocksExclusive
    <3> QED BY <2>2, <2>3, <2>5, <3>1 DEF LiveBlocksExclusive
  <2> QED BY <2>2, <2>3, <2>4, <2>6 DEF ClearUsable
<1> QED BY <1>1, <1>2

\* kpmm_free_pages clears the bits of the block.
LEMMA FreeEffect ==
    ASSUME PmmIndInv, NEW b \in live, KpmmFreePages(b)
    PROVE  /\ b.addr \div PAGE \in Nat /\ b.count \in Nat \ {0}
           /\ Bits' = Bits /\ Clear' = Clear \cup PagesOfBlock(b) /\ Usable' = Usable
           /\ kpmm_bitmap' = [x \in Bits' |-> kpmm_bitmap'[x]]
           /\ \A x \in Bits' : kpmm_bitmap'[x] \in BOOLEAN
<1> USE DEF PmmIndInv
<1>1. /\ SetValue(b.addr \div PAGE, b.count, FALSE)
      /\ UNCHANGED <<e820, entry, phase>>
  BY DEF KpmmFreePages
<1>2. b.addr \div PAGE \in Nat /\ b.count \in Nat \ {0}
  <2>1. b.addr \in Nat /\ b.count \in Nat \ {0}
    BY DEF Shape
  <2>2. PAGE \in Nat \ {0}
    BY PmmAssumption
  <2>3. \A x \in Nat : \A p \in Nat \ {0} : x \div p \in Nat
    OBVIOUS
  <2> QED BY <2>1, <2>2, <2>3
<1>3. PagesOfBlock(b) \subseteq Usable \cap Bits
  BY DEF LiveBlocksExclusive, Clear
<1> QED BY <1>1, <1>2, <1>3, SetValueEffect DEF Usable, PagesOfBlock

\* kpmm_free_pages keeps the invariant.
LEMMA FreeStep ==
    ASSUME PmmIndInv, NEW b \in live, KpmmFreePages(b)
    PROVE  PmmIndInv'
<1> USE DEF PmmIndInv
<1>1. live' = live \ {b} /\ UNCHANGED <<e820, entry, phase>>
  BY DEF KpmmFreePages
<1>2. /\ Bits' = Bits /\ Clear' = Clear \cup PagesOfBlock(b) /\ Usable' = Usable
      /\ kpmm_bitmap' = [x \in Bits' |-> kpmm_bitmap'[x]]
      /\ \A x \in Bits' : kpmm_bitmap'[x] \in BOOLEAN
  BY FreeEffect
<1>3. PagesOfBlock(b) \subseteq Usable \cap Bits
  BY DEF LiveBlocksExclusive, Clear
<1>4. Shape'
  BY <1>1, <1>2 DEF Shape
<1>5. LiveBlocksExclusive'
  BY <1>1, <1>2 DEF LiveBlocksExclusive
<1> QED BY <1>2, <1>3, <1>4, <1>5 DEF ClearUsable

\* kpmm_init, whatever the bitmap's size, keeps the invariant.
LEMMA BootStep ==
    ASSUME PmmIndInv, KpmmInit \/ FreePagesFromE820 \/ KpmmInitDone
    PROVE  PmmIndInv'
<1> USE DEF PmmIndInv
<1>1. live = {} /\ live' = {} /\ e820' = e820 /\ Usable' = Usable
  BY DEF KpmmInit, FreePagesFromE820, KpmmInitDone, Shape, Usable
<1>2. LiveBlocksExclusive'
  BY <1>1 DEF LiveBlocksExclusive
<1>3. CASE KpmmInit
  <2> DEFINE bytes == PagesUp(PagesUp(MaxPhys, PAGE), 8)
  <2>1. CASE kpmm_bitmap' = [b \in 0 .. (8 * bytes - 1) |-> TRUE]
    <3>1. Bits' = 0 .. (8 * bytes - 1) /\ Clear' = {}
      BY <2>1 DEF Bits, Clear
    <3>2. Bits' \subseteq Nat
      BY <3>1
    <3> QED BY <1>1, <1>2, <1>3, <2>1, <3>1, <3>2 DEF KpmmInit, Shape, ClearUsable
  <2>2. CASE kpmm_bitmap' = kpmm_bitmap
    <3>1. Bits' = Bits /\ Clear' = Clear
      BY <2>2 DEF Bits, Clear
    <3> QED BY <1>1, <1>2, <1>3, <2>2, <3>1 DEF KpmmInit, Shape, ClearUsable
  <2> QED BY <1>3, <2>1, <2>2 DEF KpmmInit
<1>4. CASE FreePagesFromE820
  <2>1. PagesOf(e820[entry]) \subseteq Usable
    <3>1. e820 \in Seq([base : Nat, length : Nat, type : {"FREE", "USED"}])
      BY PmmAssumption DEF Shape
    <3>2. entry \in DOMAIN e820
      BY <1>4, <3>1 DEF FreePagesFromE820, Shape
    <3> QED BY <3>2 DEF Usable
  <2>2. /\ Bits' = Bits /\ Clear' \subseteq Clear \cup PagesOf(e820[entry])
        /\ kpmm_bitmap' = [b \in Bits' |-> kpmm_bitmap'[b]]
        /\ \A b \in Bits' : kpmm_bitmap'[b] \in BOOLEAN
    BY <1>4 DEF FreePagesFromE820, Bits, Clear, Shape
  <2>3. Shape'
    BY <1>1, <1>4, <2>2 DEF FreePagesFromE820, Shape
  <2> QED BY <1>1, <1>2, <2>1, <2>2, <2>3 DEF ClearUsable
<1>5. CASE KpmmInitDone
  <2>1. Bits' = Bits /\ Clear' = Clear
    BY <1>5 DEF KpmmInitDone, Bits, Clear
  <2> QED BY <1>1, <1>2, <1>5, <2>1 DEF KpmmInitDone, Shape, ClearUsable
<1> QED BY <1>3, <1>4, <1>5

\* A step that changes nothing keeps the invariant.
LEMMA PmmStutter == PmmIndInv /\ UNCHANGED pmmvars => PmmIndInv'
BY DEF pmmvars, PmmIndInv, Shape, ClearUsable, LiveBlocksExclusive, Bits, Clear,
       Usable, PagesOf

\* Every step keeps the invariant, while the free frames can be addressed.
LEMMA PmmStep == PmmIndInv /\ AddressableFrames /\ [PmmNext]_pmmvars => PmmIndInv'
<1> SUFFICES ASSUME PmmIndInv, AddressableFrames, [PmmNext]_pmmvars
             PROVE  PmmIndInv'
  OBVIOUS
<1>1. CASE KpmmInit \/ FreePagesFromE820 \/ KpmmInitDone
  BY <1>1, BootStep
<1>2. ASSUME NEW n \in 0 .. MaxCount, KpmmAllocPages(n) PROVE PmmIndInv'
  BY <1>2, AllocStep
<1>3. ASSUME NEW b \in live, KpmmFreePages(b) PROVE PmmIndInv'
  BY <1>3, FreeStep
<1>4. ASSUME NEW n \in 0 .. MaxCount, KpmmAllocNull(n) PROVE PmmIndInv'
  BY <1>4, PmmStutter DEF KpmmAllocNull
<1>5. CASE Halted
  BY <1>5, PmmStutter DEF Halted
<1>6. CASE UNCHANGED pmmvars
  BY <1>6, PmmStutter
<1> QED BY <1>1, <1>2, <1>3, <1>4, <1>5, <1>6 DEF PmmNext

----------------------------------------------------------------------------
\* On every map whose free frames can be addressed, and after any history of
\* kpmm_alloc_pages and kpmm_free_pages, blocks handed out never overlap, lie
\* in usable RAM and are marked in the bitmap.
THEOREM BlocksAlwaysExclusive ==
    PmmSpec /\ []AddressableFrames => []LiveBlocksExclusive
<1>1. PmmIndInv => LiveBlocksExclusive
  BY DEF PmmIndInv
<1> QED BY PmmInitInv, PmmStep, <1>1, PTL DEF PmmSpec

----------------------------------------------------------------------------
(* The counter of free frames                                              *)

\* The pages of the entries that kpmm_init has been through.
Released == UNION {PagesOf(e820[i]) : i \in 1 .. (entry - 1)}

\* Where the frames are, phase by phase, and that the counter follows.
Counted ==
    /\ kpmm_free_pages_amount = Cardinality(Clear)
    /\ phase = "boot" => Clear = {} /\ entry = 1
    /\ phase = "e820" =>
           Clear = Released /\ Usable \subseteq Bits /\ entry - 1 <= Len(e820)
    /\ phase = "ready" => Usable = Clear \cup UNION {PagesOfBlock(b) : b \in live}
    /\ phase \in {"boot", "e820", "ready", "panic"}

\* An entry of a map has a base and a length.
LEMMA MapEntries ==
    ASSUME e820 \in Maps
    PROVE  /\ Len(e820) \in Nat /\ DOMAIN e820 = 1 .. Len(e820)
           /\ \A i \in DOMAIN e820 : e820[i].base \in Nat /\ e820[i].length \in Nat
<1>1. e820 \in Seq([base : Nat, length : Nat, type : {"FREE", "USED"}])
  BY PmmAssumption
<1>2. Len(e820) \in Nat /\ DOMAIN e820 = 1 .. Len(e820)
  BY <1>1
<1>3. \A i \in DOMAIN e820 :
          e820[i] \in [base : Nat, length : Nat, type : {"FREE", "USED"}]
  BY <1>1, <1>2, ElementOfSeq
<1> QED BY <1>2, <1>3

\* The highest address is found: a map has finitely many entries.
LEMMA MaxPhysBounds ==
    ASSUME e820 \in Maps
    PROVE  /\ MaxPhys \in Nat
           /\ \A i \in DOMAIN e820 : e820[i].base + e820[i].length <= MaxPhys
<1> DEFINE end(i) == e820[i].base + e820[i].length
           Ends(k) == {0} \cup {end(i) : i \in 1 .. k}
           Bad == {k \in 0 .. Len(e820) : ~ \E x \in Ends(k) : \A y \in Ends(k) : x >= y}
<1>1. /\ Len(e820) \in Nat /\ DOMAIN e820 = 1 .. Len(e820)
      /\ \A i \in 1 .. Len(e820) : end(i) \in Nat
  BY MapEntries
<1> HIDE DEF end
<1>2. Bad = {}
  <2> SUFFICES ASSUME Bad # {} PROVE FALSE
    OBVIOUS
  <2>1. PICK k \in Bad : \A j \in Bad : k =< j
    <3>1. Bad \subseteq Nat
      BY <1>1
    <3> QED BY <3>1, MinIn
  <2>2. k # 0
    <3>1. Ends(0) = {0}
      OBVIOUS
    <3> QED BY <2>1, <3>1
  <2>3. k \in 1 .. Len(e820) /\ k - 1 \in 0 .. Len(e820) /\ k - 1 \notin Bad
    <3>1. k \in 0 .. Len(e820)
      BY <2>1
    <3>2. k - 1 \notin Bad
      <4> HIDE DEF Bad
      <4> QED BY <1>1, <2>1, <3>1
    <3> QED BY <1>1, <2>2, <3>1, <3>2
  <2>4. PICK x \in Ends(k - 1) : \A y \in Ends(k - 1) : x >= y
    BY <2>3
  <2>5. Ends(k) = Ends(k - 1) \cup {end(k)} /\ Ends(k - 1) \subseteq Int
    BY <1>1, <2>3
  <2>6. \E z \in Ends(k) : \A y \in Ends(k) : z >= y
    <3>1. x \in Int /\ end(k) \in Int
      BY <1>1, <2>3, <2>5
    <3> HIDE DEF Ends
    <3>2. CASE x >= end(k)
      BY <2>4, <2>5, <3>1, <3>2
    <3>3. CASE end(k) > x
      BY <2>4, <2>5, <3>1, <3>3
    <3> QED BY <3>1, <3>2, <3>3
  <2> QED BY <2>1, <2>6
<1>3. \E x \in Ends(Len(e820)) : \A y \in Ends(Len(e820)) : x >= y
  <2>1. Len(e820) \in 0 .. Len(e820)
    BY <1>1
  <2> HIDE DEF Ends
  <2> QED BY <1>2, <2>1
<1>4. MaxPhys = Max(Ends(Len(e820)))
  BY <1>1 DEF MaxPhys, end
<1>5. MaxPhys \in Ends(Len(e820)) /\ \A y \in Ends(Len(e820)) : MaxPhys >= y
  BY <1>3, <1>4 DEF Max
<1>6. Ends(Len(e820)) \subseteq Nat /\ \A i \in 1 .. Len(e820) : end(i) \in Ends(Len(e820))
  BY <1>1
<1>7. \A i \in 1 .. Len(e820) : end(i) <= MaxPhys
  BY <1>1, <1>5, <1>6
<1> QED BY <1>1, <1>5, <1>6, <1>7 DEF end

\* Rounding up and down to pages.
LEMMA Rounding ==
    ASSUME NEW x \in Nat, NEW y \in Nat, x <= y, NEW a \in Nat \ {0}
    PROVE  /\ PagesDown(x, a) \in Nat /\ PagesUp(y, a) \in Nat
           /\ PagesDown(x, a) <= PagesUp(y, a) /\ PagesDown(x, a) <= x
  BY DEF PagesDown, PagesUp

\* The pages of an entry lie below its end.
LEMMA EntryPages ==
    ASSUME e820 \in Maps, NEW i \in DOMAIN e820
    PROVE  /\ IsFiniteSet(PagesOf(e820[i])) /\ PagesOf(e820[i]) \subseteq Nat
           /\ \A p \in PagesOf(e820[i]) :
                  p < PagesDown(e820[i].base + e820[i].length, PAGE)
<1> DEFINE base == e820[i].base
           end == e820[i].base + e820[i].length
           start == IF base < MIN_FREE THEN MIN_FREE ELSE base
<1>1. base \in Nat /\ end \in Nat /\ MIN_FREE \in Nat /\ PAGE \in Nat \ {0}
  BY MapEntries, PmmAssumption
<1>2. start \in Nat
  BY <1>1
<1>3. PagesUp(start, PAGE) \in Nat /\ PagesDown(end, PAGE) \in Nat
  <2> HIDE DEF start, end
  <2> QED BY <1>1, <1>2, Rounding
<1>4. PagesOf(e820[i]) = PagesUp(start, PAGE) .. (PagesDown(end, PAGE) - 1)
      \/ PagesOf(e820[i]) = {}
  BY DEF PagesOf
<1> HIDE DEF start, end
<1>5. IsFiniteSet(PagesOf(e820[i]))
  <2>1. PagesUp(start, PAGE) \in Int /\ PagesDown(end, PAGE) - 1 \in Int
    BY <1>3
  <2>2. IsFiniteSet(PagesUp(start, PAGE) .. (PagesDown(end, PAGE) - 1))
    BY <2>1, FS_Interval
  <2> QED BY <1>4, <2>2, FS_EmptySet
<1>6. \A p \in PagesOf(e820[i]) : p \in Nat /\ p < PagesDown(end, PAGE)
  BY <1>3, <1>4
<1> QED BY <1>5, <1>6 DEF end

\* The usable pages are finitely many and the bitmap has a bit for each.
LEMMA UsableFinite ==
    ASSUME e820 \in Maps
    PROVE  /\ IsFiniteSet(Usable)
           /\ Usable \subseteq
                  0 .. (8 * PagesUp(PagesUp(MaxPhys, PAGE), 8) - 1)
<1> DEFINE pages == PagesUp(MaxPhys, PAGE)
<1>1. MaxPhys \in Nat /\ PAGE \in Nat \ {0}
  BY MaxPhysBounds, PmmAssumption
<1>2. pages \in Nat
  BY <1>1, Rounding
<1>3. \A p \in Usable : p \in Nat /\ p < pages
  <2> SUFFICES ASSUME NEW i \in DOMAIN e820, NEW p \in PagesOf(e820[i])
               PROVE  p \in Nat /\ p < pages
    BY DEF Usable
  <2> DEFINE end == e820[i].base + e820[i].length
  <2>1. end \in Nat /\ end <= MaxPhys
    BY MapEntries, MaxPhysBounds
  <2>2. p \in Nat /\ p < PagesDown(end, PAGE)
    BY EntryPages
  <2> HIDE DEF end
  <2>3. PagesDown(end, PAGE) \in Nat /\ PagesDown(end, PAGE) <= pages
    BY <1>1, <2>1, Rounding
  <2> QED BY <1>2, <2>2, <2>3
<1> HIDE DEF pages
<1>4. 8 * PagesUp(pages, 8) \in Nat /\ pages <= 8 * PagesUp(pages, 8)
  BY <1>2 DEF PagesUp
<1>5. Usable \subseteq 0 .. (8 * PagesUp(pages, 8) - 1)
  BY <1>2, <1>3, <1>4
<1>6. IsFiniteSet(Usable)
  <2>1. IsFiniteSet(0 .. (8 * PagesUp(pages, 8) - 1))
    BY <1>4, FS_Interval
  <2> QED BY <1>5, <2>1, FS_Subset
<1> QED BY <1>5, <1>6 DEF pages

\* A count of usable pages fits the word.
LEMMA CountFits ==
    ASSUME CleanMemory, e820 \in Maps, NEW S, S \subseteq Usable
    PROVE  IsFiniteSet(S) /\ Cardinality(S) \in Nat /\ Cardinality(S) % WORD = Cardinality(S)
<1>1. IsFiniteSet(S) /\ Cardinality(S) <= Cardinality(Usable)
  BY UsableFinite, FS_Subset
<1>2. Cardinality(S) \in Nat /\ Cardinality(Usable) \in Nat
  BY <1>1, UsableFinite, FS_CardinalityType
<1>3. Cardinality(Usable) < WORD
  BY DEF CleanMemory, CleanMap, Usable
<1>4. Cardinality(S) \in 0 .. (WORD - 1) /\ WORD \in Nat \ {0}
  BY <1>1, <1>2, <1>3, PmmAssumption
<1>5. \A x \in Int, w \in Nat \ {0} : x \in 0 .. (w - 1) => x % w = x
  OBVIOUS
<1> QED BY <1>1, <1>2, <1>4, <1>5

\* A disjoint union is counted by addition, a part taken out by subtraction.
LEMMA CountMoves ==
    ASSUME NEW S, NEW T, IsFiniteSet(S), IsFiniteSet(T)
    PROVE  /\ S \cap T = {} => Cardinality(S \cup T) = Cardinality(S) + Cardinality(T)
           /\ T \subseteq S => Cardinality(S \ T) = Cardinality(S) - Cardinality(T)
<1>1. S \cap T = {} => Cardinality(S \cup T) = Cardinality(S) + Cardinality(T)
  <2>1. Cardinality(S) \in Nat /\ Cardinality(T) \in Nat /\ Cardinality({}) = 0
    BY FS_CardinalityType, FS_EmptySet
  <2>2. Cardinality(S \cup T) = Cardinality(S) + Cardinality(T) - Cardinality(S \cap T)
    BY FS_Union
  <2>3. ASSUME S \cap T = {} PROVE Cardinality(S \cap T) = 0
    BY <2>1, <2>3
  <2> QED BY <2>1, <2>2, <2>3
<1>2. T \subseteq S => Cardinality(S \ T) = Cardinality(S) - Cardinality(T)
  <2>1. T \subseteq S => S \cap T = T
    OBVIOUS
  <2> QED BY <2>1, FS_Difference
<1> QED BY <1>1, <1>2

\* The pages of a set of blocks with one more.
LEMMA OneMoreBlock ==
    ASSUME NEW L, NEW x
    PROVE  UNION {PagesOfBlock(c) : c \in L \cup {x}} =
               (UNION {PagesOfBlock(c) : c \in L}) \cup PagesOfBlock(x)
<1> DEFINE Pages(S) == UNION {PagesOfBlock(c) : c \in S}
<1>1. \A S, p : p \in Pages(S) <=> \E c \in S : p \in PagesOfBlock(c)
  OBVIOUS
<1> HIDE DEF Pages
<1>2. \A p : p \in Pages(L \cup {x}) <=> p \in Pages(L) \cup PagesOfBlock(x)
  BY <1>1
<1>3. Pages(L \cup {x}) = Pages(L) \cup PagesOfBlock(x)
  BY <1>2
<1> QED BY <1>3 DEF Pages

\* On clean maps every free frame can be addressed.
LEMMA CleanIsAddressable == CleanMemory /\ PmmIndInv => AddressableFrames
BY DEF CleanMemory, CleanMap, PmmIndInv, Shape, ClearUsable, Usable, AddressableFrames

\* kpmm_init makes the bitmap, releases the entries one by one and is done.
LEMMA BootCounts ==
    ASSUME CleanMemory, PmmIndInv, Counted, KpmmInit \/ FreePagesFromE820 \/ KpmmInitDone
    PROVE  Counted'
<1>1. /\ e820 \in Maps /\ entry \in Nat \ {0} /\ Bits \subseteq Nat
      /\ phase \in {"boot", "e820"} => live = {}
  BY DEF PmmIndInv, Shape
<1>2. Usable' = Usable
  BY DEF KpmmInit, FreePagesFromE820, KpmmInitDone, Usable
<1>3. CASE KpmmInit
  <2> DEFINE bits == 0 .. (8 * PagesUp(PagesUp(MaxPhys, PAGE), 8) - 1)
  <2>1. /\ Clear = {} /\ entry = 1 /\ entry' = 1 /\ e820' = e820
        /\ kpmm_free_pages_amount' = 0
    BY <1>3, FS_EmptySet DEF KpmmInit, Counted
  <2>2. Released' = {}
    BY <2>1 DEF Released
  <2>3. CASE kpmm_bitmap' = [b \in bits |-> TRUE] /\ phase' = "e820"
    <3>1. Bits' = bits /\ Clear' = {}
      BY <2>3 DEF Bits, Clear
    <3>2. Usable' \subseteq Bits'
      BY <1>1, <1>2, <3>1, UsableFinite
    <3>3. Len(e820') \in Nat
      BY <1>1, <2>1, MapEntries
    <3> QED BY <2>1, <2>2, <2>3, <3>1, <3>2, <3>3, FS_EmptySet DEF Counted
  <2>4. CASE kpmm_bitmap' = kpmm_bitmap /\ phase' = "panic"
    <3>1. Clear' = {}
      BY <2>1, <2>4 DEF Bits, Clear
    <3> QED BY <2>1, <2>4, <3>1, FS_EmptySet DEF Counted
  <2> QED BY <1>3, <2>3, <2>4 DEF KpmmInit
<1>4. CASE FreePagesFromE820
  <2> DEFINE new == PagesOf(e820[entry])
  <2>1. /\ phase = "e820" /\ phase' = "e820" /\ e820' = e820 /\ entry' = entry + 1
        /\ entry <= Len(e820)
        /\ kpmm_free_pages_amount' = (kpmm_free_pages_amount + Cardinality(new)) % WORD
    BY <1>4 DEF FreePagesFromE820
  <2>2. Clear = Released /\ Usable \subseteq Bits /\ kpmm_free_pages_amount = Cardinality(Clear)
    BY <2>1 DEF Counted
  <2>3. Len(e820) \in Nat /\ DOMAIN e820 = 1 .. Len(e820) /\ entry \in DOMAIN e820
    BY <1>1, <2>1, MapEntries
  <2>4. new \subseteq Usable /\ IsFiniteSet(new)
    BY <1>1, <2>3, EntryPages DEF Usable
  <2>5. Bits' = Bits /\ Clear' = Clear \cup new
    BY <1>4, <2>2, <2>4 DEF FreePagesFromE820, Bits, Clear
  <2>6. Released' = Released \cup new
    <3>1. 1 .. (entry' - 1) = (1 .. (entry - 1)) \cup {entry}
      BY <1>1, <2>1
    <3> QED BY <2>1, <3>1 DEF Released
  <2>7. Clear \cap new = {}
    <3>1. \A i \in 1 .. (entry - 1) : i \in DOMAIN e820 /\ i # entry
      BY <1>1, <2>1, <2>3
    <3>2. \A i \in 1 .. (entry - 1) : PagesOf(e820[i]) \cap new = {}
      BY <1>1, <2>3, <3>1 DEF CleanMemory, CleanMap
    <3> QED BY <2>2, <3>2 DEF Released
  <2>8. Clear \cup new \subseteq Usable
    BY <2>4 DEF PmmIndInv, ClearUsable
  <2>9. kpmm_free_pages_amount' = Cardinality(Clear')
    <3>1. IsFiniteSet(Clear)
      BY <1>1, CountFits DEF PmmIndInv, ClearUsable
    <3>2. Cardinality(Clear \cup new) = Cardinality(Clear) + Cardinality(new)
      BY <2>4, <2>7, <3>1, CountMoves
    <3>3. Cardinality(Clear \cup new) % WORD = Cardinality(Clear \cup new)
      BY <1>1, <2>8, CountFits
    <3> QED BY <2>1, <2>2, <2>5, <3>2, <3>3
  <2>10. entry' - 1 <= Len(e820')
    BY <1>1, <2>1, <2>3
  <2> QED BY <1>2, <2>1, <2>2, <2>5, <2>6, <2>9, <2>10 DEF Counted
<1>5. CASE KpmmInitDone
  <2>1. /\ phase = "e820" /\ phase' = "ready" /\ live' = live /\ live = {}
        /\ entry > Len(e820) /\ Bits' = Bits /\ Clear' = Clear
        /\ kpmm_free_pages_amount' = kpmm_free_pages_amount
    BY <1>1, <1>5 DEF KpmmInitDone, Bits, Clear
  <2>2. Clear = Released /\ kpmm_free_pages_amount = Cardinality(Clear)
        /\ entry - 1 <= Len(e820)
    BY <2>1 DEF Counted
  <2>3. 1 .. (entry - 1) = DOMAIN e820
    BY <1>1, <2>1, <2>2, MapEntries
  <2>4. Released = Usable
    BY <2>3 DEF Released, Usable
  <2> QED BY <1>2, <2>1, <2>2, <2>4 DEF Counted
<1> QED BY <1>3, <1>4, <1>5

\* kpmm_alloc_pages takes as many frames off the counter as off the bitmap.
LEMMA AllocCounts ==
    ASSUME CleanMemory, PmmIndInv, Counted, NEW n \in 0 .. MaxCount, KpmmAllocPages(n)
    PROVE  Counted'
<1>1. AddressableFrames /\ e820 \in Maps /\ Clear \subseteq Usable
  BY CleanIsAddressable DEF PmmIndInv, Shape, ClearUsable
<1>2. CASE Runs(n) = {}
  BY <1>2, AllocPanics DEF Counted
<1>3. CASE Runs(n) # {}
  <2>1. /\ n \in Nat \ {0} /\ UNCHANGED <<e820, phase>> /\ phase = "ready"
        /\ kpmm_free_pages_amount' = (kpmm_free_pages_amount - n) % WORD
    BY <1>3, PmmAssumption DEF KpmmAllocPages, Refuses
  <2>2. PICK s \in Nat, new \in [addr : Nat, count : {n}] :
            /\ PagesOfBlock(new) = s .. (s + n - 1)
            /\ PagesOfBlock(new) \subseteq Clear
            /\ live' = live \cup {new}
            /\ Clear' = Clear \ PagesOfBlock(new)
    BY <1>1, <1>3, AllocEffect
  <2> DEFINE run == PagesOfBlock(new)
  <2>3. Usable' = Usable
    BY <2>1 DEF Usable
  <2>4. IsFiniteSet(run) /\ Cardinality(run) = n
    <3>1. s \in Int /\ s + n - 1 \in Int /\ ~(s > s + n - 1) /\ (s + n - 1) - s + 1 = n
      BY <2>1
    <3> QED BY <2>2, <3>1, FS_Interval
  <2>5. Cardinality(Clear \ run) = Cardinality(Clear) - n
    <3>1. IsFiniteSet(Clear)
      BY <1>1, CountFits
    <3> QED BY <2>2, <2>4, <3>1, CountMoves
  <2>6. Cardinality(Clear \ run) % WORD = Cardinality(Clear \ run)
    BY <1>1, CountFits
  <2>7. kpmm_free_pages_amount' = Cardinality(Clear')
    BY <2>1, <2>2, <2>5, <2>6 DEF Counted
  <2>8. UNION {PagesOfBlock(b) : b \in live'} =
            (UNION {PagesOfBlock(b) : b \in live}) \cup run
    BY <2>2, OneMoreBlock
  <2>9. Usable = Clear' \cup UNION {PagesOfBlock(b) : b \in live'}
    BY <2>1, <2>2, <2>8 DEF Counted
  <2> QED BY <2>1, <2>3, <2>7, <2>9 DEF Counted
<1> QED BY <1>2, <1>3

\* kpmm_free_pages puts them back on both.
LEMMA FreeCounts ==
    ASSUME CleanMemory, PmmIndInv, Counted, NEW b \in live, KpmmFreePages(b)
    PROVE  Counted'
<1>1. e820 \in Maps /\ Clear \subseteq Usable
  BY DEF PmmIndInv, Shape, ClearUsable
<1>2. /\ live' = live \ {b} /\ UNCHANGED <<e820, phase>> /\ phase = "ready"
      /\ kpmm_free_pages_amount' = (kpmm_free_pages_amount + b.count) % WORD
  BY DEF KpmmFreePages
<1> DEFINE pages == PagesOfBlock(b)
<1>3. /\ b.addr \div PAGE \in Nat /\ b.count \in Nat \ {0}
      /\ Clear' = Clear \cup pages /\ Usable' = Usable
  BY FreeEffect
<1>4. pages \subseteq Usable /\ Clear \cap pages = {}
  BY DEF PmmIndInv, LiveBlocksExclusive
<1>5. IsFiniteSet(pages) /\ Cardinality(pages) = b.count
  <2>1. \A f \in Nat, c \in Nat \ {0} :
            IsFiniteSet(f .. (f + c - 1)) /\ Cardinality(f .. (f + c - 1)) = c
    <3> TAKE f \in Nat, c \in Nat \ {0}
    <3>1. f \in Int /\ f + c - 1 \in Int /\ ~(f > f + c - 1) /\ (f + c - 1) - f + 1 = c
      OBVIOUS
    <3> QED BY <3>1, FS_Interval
  <2> QED BY <1>3, <2>1 DEF PagesOfBlock
<1>6. Cardinality(Clear \cup pages) = Cardinality(Clear) + b.count
  <2>1. IsFiniteSet(Clear)
    BY <1>1, CountFits
  <2> QED BY <1>4, <1>5, <2>1, CountMoves
<1>7. Cardinality(Clear \cup pages) % WORD = Cardinality(Clear \cup pages)
  BY <1>1, <1>4, CountFits
<1>8. kpmm_free_pages_amount' = Cardinality(Clear')
  BY <1>2, <1>3, <1>6, <1>7 DEF Counted
<1>9. UNION {PagesOfBlock(c) : c \in live} =
          (UNION {PagesOfBlock(c) : c \in live'}) \cup pages
  <2>1. live = live' \cup {b}
    BY <1>2
  <2> QED BY <2>1, OneMoreBlock
<1>10. Usable = Clear' \cup UNION {PagesOfBlock(c) : c \in live'}
  BY <1>2, <1>3, <1>9 DEF Counted
<1> QED BY <1>2, <1>3, <1>8, <1>10 DEF Counted

\* On every clean map no frame is ever lost, and the counter on which
\* kpmm_alloc_pages answers NULL is exact, after any history of allocations
\* and frees and in the panic that a failed search ends in.
THEOREM FramesAlwaysConserved ==
    ASSUME CleanMemory
    PROVE  PmmSpec => []FramesConserved
<1>1. PmmInit => Counted
  <2> SUFFICES ASSUME PmmInit PROVE Counted
    OBVIOUS
  <2>1. Clear = {}
    BY DEF PmmInit, Bits, Clear
  <2> QED BY <2>1, FS_EmptySet DEF PmmInit, Counted
<1>2. PmmIndInv /\ Counted /\ [PmmNext]_pmmvars => PmmIndInv' /\ Counted'
  <2> SUFFICES ASSUME PmmIndInv, Counted, [PmmNext]_pmmvars
               PROVE  PmmIndInv' /\ Counted'
    OBVIOUS
  <2>1. PmmIndInv'
    BY CleanIsAddressable, PmmStep
  <2>2. CASE KpmmInit \/ FreePagesFromE820 \/ KpmmInitDone
    BY <2>1, <2>2, BootCounts
  <2>3. ASSUME NEW n \in 0 .. MaxCount, KpmmAllocPages(n) PROVE Counted'
    BY <2>3, AllocCounts
  <2>4. ASSUME NEW b \in live, KpmmFreePages(b) PROVE Counted'
    BY <2>4, FreeCounts
  <2>5. ASSUME UNCHANGED pmmvars PROVE Counted'
    BY <2>5 DEF pmmvars, Counted, Released, Usable, Bits, Clear
  <2> QED BY <2>1, <2>2, <2>3, <2>4, <2>5 DEF PmmNext, KpmmAllocNull, Halted
<1>3. Counted => FramesConserved
  BY DEF Counted, FramesConserved
<1> QED BY PmmInitInv, <1>1, <1>2, <1>3, PTL DEF PmmSpec

----------------------------------------------------------------------------
(* The search for a run of free frames                                     *)

\* The bits of the bitmap are numbered from 0.
BitsFromZero == e820 \in Maps /\ \E N \in Nat : Bits = 0 .. (N - 1)

\* kpmm_init makes the bitmap of whole bytes; no later step changes its size.
LEMMA BitsAlwaysFromZero == PmmSpec => []BitsFromZero
<1>1. PmmInit => BitsFromZero
  <2> SUFFICES ASSUME PmmInit PROVE BitsFromZero
    OBVIOUS
  <2>1. Bits = 0 .. (0 - 1) /\ e820 \in Maps
    BY DEF PmmInit, Bits
  <2> QED BY <2>1 DEF BitsFromZero
<1>2. BitsFromZero /\ [PmmNext]_pmmvars => BitsFromZero'
  <2> SUFFICES ASSUME BitsFromZero, [PmmNext]_pmmvars PROVE BitsFromZero'
    OBVIOUS
  <2>1. e820' = e820
    BY DEF PmmNext, KpmmInit, FreePagesFromE820, KpmmInitDone, KpmmAllocNull,
           KpmmAllocPages, KpmmFreePages, Halted, pmmvars
  <2>2. CASE Bits' = Bits
    BY <2>1, <2>2 DEF BitsFromZero
  <2>3. CASE KpmmInit
    <3> PICK b : b = PagesUp(PagesUp(MaxPhys, PAGE), 8)
      OBVIOUS
    <3>1. MaxPhys \in Nat
      BY MaxPhysBounds DEF BitsFromZero
    <3>2. b \in Nat
      <4>1. PagesUp(MaxPhys, PAGE) \in Nat
        BY <3>1, Rounding, PmmAssumption
      <4> QED BY <4>1, Rounding
    <3>3. kpmm_bitmap' = [i \in 0 .. (8 * b - 1) |-> TRUE] \/ kpmm_bitmap' = kpmm_bitmap
      BY <2>3 DEF KpmmInit
    <3>4. Bits' = 0 .. (8 * b - 1) \/ Bits' = Bits
      BY <3>3 DEF Bits
    <3>5. 8 * b \in Nat
      BY <3>2
    <3> QED BY <2>1, <2>2, <3>4, <3>5 DEF BitsFromZero
  <2>4. CASE FreePagesFromE820 \/ KpmmInitDone \/ Halted \/ UNCHANGED pmmvars
    BY <2>2, <2>4 DEF FreePagesFromE820, KpmmInitDone, Halted, pmmvars, Bits
  <2>5. ASSUME NEW n \in 0 .. MaxCount, KpmmAllocNull(n) \/ KpmmAllocPages(n)
        PROVE  Bits' = Bits
    BY <2>5 DEF KpmmAllocNull, KpmmAllocPages, SetValue, pmmvars, Bits
  <2>6. ASSUME NEW b \in live, KpmmFreePages(b) PROVE Bits' = Bits
    BY <2>6 DEF KpmmFreePages, SetValue, Bits
  <2> QED BY <2>2, <2>3, <2>4, <2>5, <2>6 DEF PmmNext
<1> QED BY <1>1, <1>2, PTL DEF PmmSpec

\* The loop is well defined: it has a state behind each bit.
LEMMA ScanExists ==
    ASSUME NEW n, NEW N \in Nat, Bits = 0 .. (N - 1)
    PROVE  ScanUpTo(n) = [i \in Bits \cup {-1} |->
                IF i = -1 THEN ScanStart ELSE ScanBit(ScanUpTo(n)[i - 1], i, n)]
<1> DEFINE Is(f, k) ==
        f = [i \in (-1) .. (k - 1) |->
                IF i = -1 THEN ScanStart ELSE ScanBit(f[i - 1], i, n)]
           Bad == {k \in Nat : ~ \E f : Is(f, k)}
<1>1. Bad = {}
  <2> SUFFICES ASSUME Bad # {} PROVE FALSE
    OBVIOUS
  <2>1. PICK k \in Bad : \A j \in Bad : k =< j
    <3>1. Bad \subseteq Nat
      OBVIOUS
    <3> QED BY <3>1, MinIn
  <2>2. k # 0
    <3>1. Is([i \in (-1) .. (-1) |-> ScanStart], 0)
      OBVIOUS
    <3> QED BY <2>1, <3>1
  <2>3. k \in Nat /\ k - 1 \in Nat /\ k - 1 \notin Bad
    <3>1. k \in Nat /\ k - 1 \in Nat
      BY <2>1, <2>2
    <3> HIDE DEF Bad
    <3> QED BY <2>1, <3>1
  <2>4. PICK f : Is(f, k - 1)
    BY <2>3
  <2> DEFINE g == [i \in (-1) .. (k - 1) |->
                      IF i = k - 1 THEN ScanBit(f[k - 2], k - 1, n) ELSE f[i]]
  <2>5. \A i \in (-1) .. (k - 1) : i # -1 => g[i - 1] = f[i - 1]
    BY <2>3
  <2>6. \A i \in (-1) .. (k - 1) :
            g[i] = IF i = -1 THEN ScanStart ELSE ScanBit(g[i - 1], i, n)
    <3> TAKE i \in (-1) .. (k - 1)
    <3>1. CASE i = k - 1
      BY <2>3, <2>5, <3>1
    <3>2. CASE i # k - 1
      <4>1. i \in (-1) .. ((k - 1) - 1)
        BY <2>3, <3>2
      <4>2. f[i] = IF i = -1 THEN ScanStart ELSE ScanBit(f[i - 1], i, n)
        BY <2>4, <4>1
      <4> QED BY <2>5, <3>2, <4>2
    <3> QED BY <3>1, <3>2
  <2>7. Is(g, k)
    <3>1. g = [i \in (-1) .. (k - 1) |-> g[i]]
      OBVIOUS
    <3> HIDE DEF g
    <3> QED BY <2>6, <3>1
  <2> QED BY <2>1, <2>7
<1>2. PICK f : Is(f, N)
  BY <1>1
<1>3. Bits \cup {-1} = (-1) .. (N - 1)
  OBVIOUS
<1>4. f = [i \in Bits \cup {-1} |->
              IF i = -1 THEN ScanStart ELSE ScanBit(f[i - 1], i, n)]
  BY <1>2, <1>3
<1> QED BY <1>4 DEF ScanUpTo

\* What the loop knows behind bit i: every run of n clear bits starts behind the
\* last used bit, or the first run has been found.
ScanKnows(s, i, n) ==
    /\ s.found \in BOOLEAN
    /\ s.found => s.bit_tmp \in Runs(n) /\ \A t \in Runs(n) : s.bit_tmp <= t
    /\ ~s.found => /\ s.continous \in 0 .. (n - 1)
                   /\ s.continous <= i + 1
                   /\ \A k \in (i - s.continous + 1) .. i : k \in Clear
                   /\ s.continous # 0 => s.bit_tmp = i - s.continous + 1
                   /\ \A t \in Runs(n) : t > i - s.continous

\* One turn of the loop.
LEMMA ScanTurn ==
    ASSUME NEW n \in Nat \ {0}, NEW N \in Nat, Bits = 0 .. (N - 1),
           NEW i \in Bits, NEW s, ScanKnows(s, i - 1, n),
           NEW t, t = ScanBit(s, i, n)
    PROVE  ScanKnows(t, i, n)
<1>0. Runs(n) \subseteq Nat /\ i \in Nat
  BY DEF Runs
<1>1. CASE s.found
  <2>1. t = s
    BY <1>1 DEF ScanBit
  <2> QED BY <1>1, <2>1 DEF ScanKnows
<1>2. CASE ~s.found
  <2> PICK c : c = s.continous
    OBVIOUS
  <2>1. /\ c \in Nat /\ c <= n - 1 /\ c <= i
        /\ \A k \in (i - c) .. (i - 1) : k \in Clear
        /\ c # 0 => s.bit_tmp = i - c
        /\ \A r \in Runs(n) : r > i - 1 - c
    BY <1>0, <1>2 DEF ScanKnows
  <2>2. CASE kpmm_bitmap[i]
    <3>1. t.found = s.found /\ t.continous = 0
      BY <1>2, <2>2 DEF ScanBit
    <3>2. i \notin Clear
      BY <2>2 DEF Clear
    <3>3. ASSUME NEW r \in Runs(n), r <= i PROVE FALSE
      <4>1. r \in Nat /\ r > i - 1 - c
        BY <1>0, <2>1
      <4>2. i \in r .. (r + n - 1)
        BY <1>0, <2>1, <3>3, <4>1
      <4> QED BY <3>2, <4>2 DEF Runs, FreeRun
    <3>4. \A r \in Runs(n) : r > i
      BY <1>0, <3>3
    <3> QED BY <1>0, <1>2, <3>1, <3>4 DEF ScanKnows
  <2>3. CASE ~kpmm_bitmap[i]
    <3>1. /\ t.bit_tmp = i - c /\ t.continous = c + 1
          /\ t.found = (c + 1 >= n)
      BY <1>0, <1>2, <2>1, <2>3 DEF ScanBit
    <3>2. i \in Clear
      BY <2>3 DEF Clear
    <3>3. \A k \in (i - c) .. i : k \in Clear
      BY <1>0, <2>1, <3>2
    <3>4. CASE c + 1 >= n
      <4>1. c + 1 = n /\ i - c \in Bits
        BY <1>0, <2>1, <3>4
      <4>2. i - c \in Runs(n)
        <5>1. \A k \in (i - c) .. (i - c + n - 1) : k \in Clear
          BY <1>0, <2>1, <3>3, <4>1
        <5> QED BY <4>1, <5>1 DEF Runs, FreeRun
      <4>3. \A r \in Runs(n) : i - c <= r
        BY <1>0, <2>1
      <4> QED BY <3>1, <3>4, <4>2, <4>3 DEF ScanKnows
    <3>5. CASE c + 1 < n
      <4>1. t.found = FALSE /\ t.continous \in 0 .. (n - 1) /\ t.continous <= i + 1
        <5>1. t.continous \in 0 .. (n - 1) /\ t.continous <= i + 1
          BY <1>0, <2>1, <3>1, <3>5
        <5>2. ~(c + 1 >= n)
          BY <2>1, <3>5
        <5>3. t.found = FALSE
          <6>1. t.found = (s.continous + 1 >= n)
            BY <1>2, <2>3 DEF ScanBit
          <6>2. (c + 1 >= n) = FALSE
            BY <5>2
          <6> QED BY <6>1, <6>2
        <5> QED BY <5>1, <5>3
      <4>2. /\ i - t.continous + 1 = i - c /\ i - t.continous = i - 1 - c
        BY <1>0, <2>1, <3>1
      <4> QED BY <2>1, <3>1, <3>3, <4>1, <4>2 DEF ScanKnows
    <3> QED BY <2>1, <3>4, <3>5
  <2> QED BY <2>2, <2>3
<1> QED BY <1>1, <1>2 DEF ScanKnows

\* Behind every bit the loop knows what it should.
LEMMA ScanRuns ==
    ASSUME NEW n \in Nat \ {0}, NEW N \in Nat, Bits = 0 .. (N - 1)
    PROVE  \A k \in 0 .. N : ScanKnows(ScanUpTo(n)[k - 1], k - 1, n)
<1> PICK f : f = ScanUpTo(n)
  OBVIOUS
<1>1. f = [i \in Bits \cup {-1} |-> IF i = -1 THEN ScanStart ELSE ScanBit(f[i - 1], i, n)]
  BY ScanExists
<1>2. f[-1] = ScanStart /\ \A i \in 0 .. (N - 1) : f[i] = ScanBit(f[i - 1], i, n)
  <2>1. \A i \in Bits \cup {-1} :
            f[i] = IF i = -1 THEN ScanStart ELSE ScanBit(f[i - 1], i, n)
    BY <1>1
  <2> QED BY <2>1
<1> DEFINE Bad == {k \in 0 .. N : ~ScanKnows(f[k - 1], k - 1, n)}
<1>3. Bad = {}
  <2> SUFFICES ASSUME Bad # {} PROVE FALSE
    OBVIOUS
  <2>1. PICK k \in Bad : \A j \in Bad : k =< j
    <3>1. Bad \subseteq Nat
      OBVIOUS
    <3> QED BY <3>1, MinIn
  <2>2. k \in 0 .. N /\ ~ScanKnows(f[k - 1], k - 1, n)
    BY <2>1
  <2>3. k # 0
    <3>1. \A r \in Runs(n) : r \in Nat
      BY DEF Runs
    <3>2. ScanKnows(ScanStart, -1, n)
      BY <3>1 DEF ScanKnows, ScanStart
    <3> QED BY <1>2, <2>2, <3>2
  <2>4. k - 1 \in 0 .. N /\ k - 1 \in 0 .. (N - 1) /\ k - 1 \notin Bad
    <3>1. k - 1 \in 0 .. N /\ k - 1 \in 0 .. (N - 1)
      BY <2>2, <2>3
    <3> HIDE DEF Bad
    <3> QED BY <2>1, <2>2, <3>1
  <2>5. ScanKnows(f[k - 2], k - 2, n)
    <3>1. (k - 1) - 1 = k - 2
      BY <2>2
    <3> QED BY <2>4, <3>1
  <2>6. f[k - 1] = ScanBit(f[k - 2], k - 1, n)
    <3>1. (k - 1) - 1 = k - 2
      BY <2>2
    <3> QED BY <1>2, <2>4, <3>1
  <2>7. ScanKnows(f[k - 1], k - 1, n)
    <3>1. (k - 1) - 1 = k - 2
      BY <2>2
    <3> QED BY <2>4, <2>5, <2>6, <3>1, ScanTurn
  <2> QED BY <2>2, <2>7
<1> QED BY <1>3

\* kpmm_bitmap_get_n_continuous is first fit: on every bitmap of every history,
\* its loops find a run exactly when there is one, and then the first.
THEOREM ScanFindsFirstFit == PmmSpec => []ScanIsFirstFit
<1>1. BitsFromZero => ScanIsFirstFit
  <2> SUFFICES ASSUME BitsFromZero, NEW n \in 1 .. MaxCount
               PROVE  /\ ScanFor(n).found <=> Runs(n) # {}
                      /\ Runs(n) # {} => ScanFor(n).bit_tmp = GetNContinuous(n)
    BY DEF ScanIsFirstFit
  <2>1. PICK N \in Nat : Bits = 0 .. (N - 1)
    BY DEF BitsFromZero
  <2>2. n \in Nat \ {0}
    BY PmmAssumption
  <2>3. Cardinality(Bits) = N
    <3>1. Cardinality(0 .. (N - 1)) = IF 0 > N - 1 THEN 0 ELSE (N - 1) - 0 + 1
      BY FS_Interval
    <3> QED BY <2>1, <3>1
  <2> PICK s : s = ScanFor(n)
    OBVIOUS
  <2>4. ScanKnows(s, N - 1, n)
    BY <2>1, <2>2, <2>3, ScanRuns DEF ScanFor
  <2>5. Runs(n) \subseteq Nat
    BY <2>1 DEF Runs
  <2>6. CASE s.found
    <3>1. s.bit_tmp \in Runs(n) /\ \A t \in Runs(n) : s.bit_tmp <= t
      BY <2>4, <2>6 DEF ScanKnows
    <3>2. GetNContinuous(n) \in Runs(n) /\ \A t \in Runs(n) : GetNContinuous(n) <= t
      BY <2>5, <3>1, MinIn DEF GetNContinuous
    <3>3. s.bit_tmp = GetNContinuous(n)
      BY <2>5, <3>1, <3>2
    <3> QED BY <2>6, <3>1, <3>3
  <2>7. CASE ~s.found
    <3> PICK c : c = s.continous
      OBVIOUS
    <3>1. c \in 0 .. (n - 1) /\ \A t \in Runs(n) : t > N - 1 - c
      BY <2>4, <2>7 DEF ScanKnows
    <3>2. ASSUME NEW t \in Runs(n) PROVE FALSE
      <4>1. t \in Nat /\ t > N - 1 - c
        BY <2>5, <3>1
      <4>2. t + n - 1 \in t .. (t + n - 1) /\ t + n - 1 >= N
        BY <2>2, <3>1, <4>1
      <4>3. t + n - 1 \in Bits
        BY <4>2 DEF Runs, FreeRun, Clear
      <4> QED BY <2>1, <4>2, <4>3
    <3> QED BY <2>7, <3>2
  <2> QED BY <2>6, <2>7
<1> QED BY <1>1, BitsAlwaysFromZero, PTL
=============================================================================
