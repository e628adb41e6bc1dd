----------------------------- MODULE SfsProofs -----------------------------
(***************************************************************************)
(* sfs_api.c keeps the file system consistent, for every size of the       *)
(* tables, the blocks and the disk.  SfsInv is the inductive invariant of  *)
(* a client that may seek anywhere; CarefulInv adds what holds for one     *)
(* that stays inside its files.                                            *)
(*                                                                         *)
(* The first half is about transfers: what sfs_fwrite_recursive,           *)
(* sfs_fread_recursive and the allocation of blocks do to an i-node, the   *)
(* free blocks and the indirect blocks.  A read or write is a chain of     *)
(* levels, so what it does is proved by induction over the levels: Least   *)
(* gives a smallest counterexample.  The second half is about the calls.   *)
(***************************************************************************)
EXTENDS SfsInvariants, WellFoundedInduction, TLAPS

(* What the indirect blocks may contain.                                   *)
Contents == UNION {[D -> Pointers] : D \in SUBSET Blocks}

-----------------------------------------------------------------------------
(* The least-number principle, which stands in for induction.               *)
LEMMA Least ==
    ASSUME NEW S, S \subseteq Nat, S # {}
    PROVE  \E x \in S : \A y \in S : x <= y
  <1> DEFINE R == {ss \in Nat \X Nat : ss[1] < ss[2]}
  <1>1. IsWellFoundedOn(R, Nat)
    BY NatLessThanWellFounded DEF OpToRel
  <1>2. PICK x \in S : \A y \in S : ~ (<<y, x>> \in R)
    <2> HIDE DEF R
    <2> QED BY <1>1, WFMin
  <1>3. ASSUME NEW y \in S PROVE x <= y
    <2>1. y < x => <<y, x>> \in R
      OBVIOUS
    <2> QED BY <2>1, <1>2
  <1> QED BY <1>3

(* The search loops return the first index that will do, or -1.             *)
LEMMA FirstIs ==
    ASSUME NEW S, S \subseteq Nat
    PROVE  /\ S = {} => First(S) = None
           /\ S # {} => First(S) \in S /\ \A y \in S : First(S) <= y
           /\ First(S) = None <=> S = {}
           /\ First(S) \in Int
  <1>1. S # {} => Min(S) \in S /\ \A y \in S : Min(S) <= y
    BY Least DEF Min
  <1>2. S = {} => First(S) = -1
    BY DEF First, None
  <1>3. S # {} => First(S) = Min(S)
    BY DEF First
  <1>4. S # {} => First(S) \in S /\ \A y \in S : First(S) <= y
    BY <1>1, <1>3
  <1>5. S # {} => First(S) \in Nat
    BY <1>4
  <1>6. None = -1 /\ None \notin Nat
    BY DEF None
  <1> HIDE DEF None
  <1> QED BY <1>2, <1>4, <1>5, <1>6

(* The block of a position and the place in it.                             *)
LEMMA DivMod ==
    ASSUME NEW p \in Int
    PROVE  /\ p = BLOCK_SIZE * (p \div BLOCK_SIZE) + (p % BLOCK_SIZE)
           /\ p % BLOCK_SIZE \in 0 .. BLOCK_SIZE - 1
           /\ p \div BLOCK_SIZE \in Int
           /\ p \div BLOCK_SIZE \in Nat <=> p \in Nat
  <1>1. BLOCK_SIZE \in Nat /\ BLOCK_SIZE > 0
    BY SfsAssumption
  <1>2. /\ p = BLOCK_SIZE * (p \div BLOCK_SIZE) + (p % BLOCK_SIZE)
        /\ p % BLOCK_SIZE \in 0 .. BLOCK_SIZE - 1
        /\ p \div BLOCK_SIZE \in Int
    BY <1>1
  <1>3. ASSUME NEW q \in Int, NEW r \in 0 .. BLOCK_SIZE - 1, p = BLOCK_SIZE * q + r
        PROVE  q \in Nat <=> p \in Nat
    <2>1. q >= 0 => BLOCK_SIZE * q >= 0
      BY <1>1
    <2>2. q <= -1 => BLOCK_SIZE * q <= -BLOCK_SIZE
      BY <1>1
    <2>3. BLOCK_SIZE * q \in Int
      BY <1>1
    <2> QED BY <1>1, <1>3, <2>1, <2>2, <2>3
  <1> QED BY <1>2, <1>3

LEMMA BlockOfPosition ==
    ASSUME NEW p \in Nat, NEW k \in Nat
    PROVE  p \div BLOCK_SIZE = k <=> k * BLOCK_SIZE <= p /\ p < (k + 1) * BLOCK_SIZE
  BY SfsAssumption, DivMod

LEMMA BlockOrder ==
    ASSUME NEW j \in Int, NEW k \in Int
    PROVE  /\ j < k <=> j * BLOCK_SIZE < k * BLOCK_SIZE
           /\ j < k <=> (j + 1) * BLOCK_SIZE <= k * BLOCK_SIZE
           /\ (j + 1) * BLOCK_SIZE = j * BLOCK_SIZE + BLOCK_SIZE
           /\ j * BLOCK_SIZE \in Int
  <1>0. BLOCK_SIZE \in Int /\ BLOCK_SIZE > 0
    BY SfsAssumption
  <1>1. ASSUME NEW a \in Int, NEW b \in Int, a < b
        PROVE  (a + 1) * BLOCK_SIZE <= b * BLOCK_SIZE
    BY <1>0, <1>1
  <1>2. ASSUME NEW a \in Int
        PROVE  (a + 1) * BLOCK_SIZE = a * BLOCK_SIZE + BLOCK_SIZE /\ a * BLOCK_SIZE \in Int
    BY <1>0
  <1>3. ASSUME NEW a \in Int, NEW b \in Int, b <= a
        PROVE  b * BLOCK_SIZE <= a * BLOCK_SIZE
    BY <1>0, <1>3
  <1> QED BY <1>0, <1>1, <1>2, <1>3

-----------------------------------------------------------------------------
(* Block numbers are no error values.                                       *)
LEMMA BlockNumbers ==
    /\ Blocks \subseteq Nat /\ 0 \notin Blocks
    /\ None \notin Blocks /\ Garbage \notin Blocks /\ None # Garbage
    /\ None \notin Nat /\ Garbage \notin Nat /\ None \in Int /\ Garbage \in Int
  BY SfsAssumption DEF Blocks, None, Garbage

LEMMA ContentsIs ==
    ASSUME NEW ind
    PROVE  ind \in Contents <=> DOMAIN ind \subseteq Blocks /\ ind \in [DOMAIN ind -> Pointers]
  BY DEF Contents

(* A slot of a file is a place in direct_ptr or in the indirect block.      *)
LEMMA SlotIs ==
    ASSUME NEW k \in Slots
    PROVE  /\ k \in Nat
           /\ k < DIRECT_PTR_NUM <=> k \in DirectSlots
           /\ ~ (k < DIRECT_PTR_NUM) => k - DIRECT_PTR_NUM \in IndexSlots
  BY SfsAssumption DEF Slots, DirectSlots, IndexSlots

LEMMA SlotOf ==
    /\ DirectSlots \subseteq Slots /\ DirectSlots \subseteq Nat
    /\ \A k \in DirectSlots : k < DIRECT_PTR_NUM
    /\ \A k \in IndexSlots : /\ k \in Nat /\ k + DIRECT_PTR_NUM \in Slots
                             /\ ~ (k + DIRECT_PTR_NUM < DIRECT_PTR_NUM)
                             /\ (k + DIRECT_PTR_NUM) - DIRECT_PTR_NUM = k
    /\ DIRECT_PTR_NUM \in Nat /\ 0 \in DirectSlots /\ 0 \in IndexSlots
  BY SfsAssumption DEF Slots, DirectSlots, IndexSlots

LEMMA PtrType ==
    ASSUME NEW node \in INode, NEW ind \in Contents
    PROVE  /\ Index(node, ind) \in Pointers
           /\ \A k \in Slots : Ptr(node, ind, k) \in Blocks \cup {None}
           /\ Used(node, ind) \subseteq Blocks
  <1>1. Index(node, ind) \in Pointers
    BY ContentsIs DEF Index, Pointers
  <1>2. ASSUME NEW k \in Slots PROVE Ptr(node, ind, k) \in Blocks \cup {None}
    BY <1>1, SlotIs DEF Ptr, INode, Pointers
  <1>3. node.indirect_ptr \in Blocks \cup {None}
    BY DEF INode
  <1> QED BY <1>1, <1>2, <1>3 DEF Used

-----------------------------------------------------------------------------
(* A transfer in progress.                                                  *)
Transfers == [ptr : Int, node : INode, free : SUBSET Blocks, ind : Contents,
              left : Nat, block : Int]

PtrOf(s, k) == Ptr(s.node, s.ind, k)

(* The place of the first pointer of s that is not set gets the free block  *)
(* b; an indirect block that is needed for it is taken from the free ones.  *)
Allocates(s, t, b) ==
    /\ t \in Transfers /\ t.block = b /\ b \in s.free
    /\ t.ptr = s.ptr /\ t.left = s.left
    /\ t.node.size = s.node.size /\ t.node.occupied = s.node.occupied
    /\ t.free = s.free \ {b, t.node.indirect_ptr}
    /\ \/ t.node.indirect_ptr = s.node.indirect_ptr
       \/ s.node.indirect_ptr = None /\ t.node.indirect_ptr \in s.free \ {b}
    /\ t.node.indirect_ptr # None => t.node.indirect_ptr \in DOMAIN t.ind
    /\ \A p \in DOMAIN s.ind : p # t.node.indirect_ptr =>
          p \in DOMAIN t.ind /\ t.ind[p] = s.ind[p]
    /\ \E v \in Slots :
          /\ PtrOf(s, v) = None
          /\ \A k \in Slots : k < v => PtrOf(s, k) # None
          /\ \A k \in Slots : PtrOf(t, k) = IF k = v THEN b ELSE PtrOf(s, k)

(* Every pointer of an i-node is set.                                       *)
AllSet(node, ind) == \A k \in Slots : Ptr(node, ind, k) # None

(* Nothing was free, or a block was taken and then none was free for the    *)
(* pointers, or no pointer left: that block is lost.                        *)
RunsOut(s, t) ==
    /\ t \in Transfers /\ t = [s EXCEPT !.free = t.free, !.block = None] /\ t.free \subseteq s.free
    /\ \/ t.free = s.free
       \/ \E b \in s.free : /\ t.free = s.free \ {b}
                            /\ t.free = {} \/ AllSet(s.node, s.ind)

(* What the i-node of a transfer needs before a block is added to it.       *)
Ready(s) == /\ s \in Transfers
            /\ WellFormed(s.node, s.ind) /\ Used(s.node, s.ind) \cap s.free = {}

LEMMA AddDirectAllocates ==
    ASSUME NEW s, Ready(s), NEW b \in s.free, VacantSlot(s.node.direct_ptr) # None
    PROVE  Allocates(s, AddDirect([s EXCEPT !.free = @ \ {b}], b), b)
  <1> DEFINE v == VacantSlot(s.node.direct_ptr)
             V == {k \in DOMAIN s.node.direct_ptr : s.node.direct_ptr[k] = None}
             t == AddDirect([s EXCEPT !.free = @ \ {b}], b)
  <1>1. /\ s \in Transfers /\ s.node \in INode /\ s.ind \in Contents
        /\ s.node.direct_ptr \in [DirectSlots -> Blocks \cup {None}]
        /\ b \in Blocks /\ b # None
    BY BlockNumbers DEF Ready, Transfers, INode
  <1>2. v \in V /\ \A k \in V : v <= k
    BY <1>1, FirstIs, SlotOf DEF VacantSlot
  <1>3. v \in DirectSlots /\ s.node.direct_ptr[v] = None
    BY <1>1, <1>2
  <1> HIDE DEF v
  <1>4. t = [s EXCEPT !.free = @ \ {b}, !.block = b,
                      !.node = [s.node EXCEPT !.direct_ptr = [@ EXCEPT ![v] = b]]]
    BY <1>1 DEF AddDirect, v, Transfers
  <1> HIDE DEF t
  <1>5. /\ t.node.direct_ptr = [s.node.direct_ptr EXCEPT ![v] = b]
        /\ t.ptr = s.ptr /\ t.left = s.left /\ t.free = s.free \ {b} /\ t.ind = s.ind
        /\ t.block = b /\ t.node.indirect_ptr = s.node.indirect_ptr
        /\ t.node.size = s.node.size /\ t.node.occupied = s.node.occupied
    BY <1>1, <1>4 DEF Transfers, INode
  <1>6. t \in Transfers
    <2>1. [s.node.direct_ptr EXCEPT ![v] = b] \in [DirectSlots -> Blocks \cup {None}]
      BY <1>1, <1>3
    <2>2. [s.node EXCEPT !.direct_ptr = [@ EXCEPT ![v] = b]] \in INode
      BY <1>1, <2>1 DEF INode
    <2>3. s.free \ {b} \in SUBSET Blocks /\ b \in Int
      BY <1>1, BlockNumbers DEF Transfers
    <2> QED BY <1>1, <1>4, <2>2, <2>3 DEF Transfers
  <1>7. Index(t.node, t.ind) = Index(s.node, s.ind)
    BY <1>5 DEF Index
  <1>8. ASSUME NEW k \in Slots PROVE PtrOf(t, k) = IF k = v THEN b ELSE PtrOf(s, k)
    BY <1>1, <1>3, <1>5, <1>7, SlotIs, SlotOf DEF PtrOf, Ptr
  <1>9. ASSUME NEW k \in Slots, k < v PROVE PtrOf(s, k) # None
    <2>1. k \in DirectSlots
      BY <1>3, <1>9, SlotIs, SlotOf
    <2>2. PtrOf(s, k) = s.node.direct_ptr[k] /\ k \in Nat /\ v \in Nat
      BY <1>3, <2>1, SlotOf DEF PtrOf, Ptr
    <2>3. s.node.direct_ptr[k] = None => k \in V
      BY <1>1, <2>1
    <2> QED BY <1>2, <1>9, <2>2, <2>3
  <1>10. v \in Slots /\ PtrOf(s, v) = None
    BY <1>3, SlotOf DEF PtrOf, Ptr
  <1>11. s.node.indirect_ptr \notin s.free
    BY <1>1, BlockNumbers DEF Ready, Used, Transfers
  <1>12. s.node.indirect_ptr # None => s.node.indirect_ptr \in DOMAIN s.ind
    BY DEF Ready, WellFormed
  <1>13. t.free = s.free \ {b, t.node.indirect_ptr}
    BY <1>5, <1>11
  <1> QED BY <1>5, <1>6, <1>8, <1>9, <1>10, <1>12, <1>13 DEF Allocates, t

(* Writing an indirect block leaves the others alone.                       *)
LEMMA SetPointersIs ==
    ASSUME NEW ind \in Contents, NEW p \in Blocks, NEW ptrs \in Pointers
    PROVE  /\ SetPointers(ind, p, ptrs) \in Contents
           /\ DOMAIN SetPointers(ind, p, ptrs) = DOMAIN ind \cup {p}
           /\ SetPointers(ind, p, ptrs)[p] = ptrs
           /\ \A x \in DOMAIN ind : x # p => SetPointers(ind, p, ptrs)[x] = ind[x]
  <1>1. DOMAIN ind \subseteq Blocks /\ \A x \in DOMAIN ind : ind[x] \in Pointers
    BY ContentsIs
  <1>2. SetPointers(ind, p, ptrs) \in [DOMAIN ind \cup {p} -> Pointers]
    BY <1>1 DEF SetPointers
  <1> QED BY <1>1, <1>2, ContentsIs DEF SetPointers

LEMMA AddIndirectAllocates ==
    ASSUME NEW s, Ready(s), NEW b \in s.free, VacantSlot(s.node.direct_ptr) = None, disk_ready
    PROVE  LET t == AddIndirect([s EXCEPT !.free = @ \ {b}], b)
           IN  Allocates(s, t, b) \/ RunsOut(s, t)
  <1> DEFINE fresh == s.node.indirect_ptr = None
             p     == IF fresh THEN First(s.free \ {b}) ELSE s.node.indirect_ptr
             ptrs  == IF fresh THEN [k \in IndexSlots |-> None] ELSE s.ind[p]
             slot  == VacantSlot(ptrs)
             t     == AddIndirect([s EXCEPT !.free = @ \ {b}], b)
             gone  == [s EXCEPT !.free = @ \ {b}, !.block = None]
             filled == [ptrs EXCEPT ![slot] = b]
             done  == [s EXCEPT !.free = (@ \ {b}) \ {p},
                                !.node = [s.node EXCEPT !.indirect_ptr = p],
                                !.ind = SetPointers(s.ind, p, filled), !.block = b]
  <1>1. /\ s \in Transfers /\ s.node \in INode /\ s.ind \in Contents /\ s.free \subseteq Blocks
        /\ s.node.direct_ptr \in [DirectSlots -> Blocks \cup {None}]
        /\ b \in Blocks /\ b # None /\ b \in Int /\ s.free \ {b} \in SUBSET Blocks
    BY BlockNumbers DEF Ready, Transfers, INode
  <1>2. /\ ~fresh => p \in DOMAIN s.ind /\ p \notin s.free
        /\ fresh => p = None \/ p \in s.free \ {b}
    <2>1. ~fresh => s.node.indirect_ptr \in DOMAIN s.ind /\ s.node.indirect_ptr \notin s.free
      BY DEF Ready, WellFormed, Used
    <2>2. s.free \ {b} \subseteq Nat
      BY <1>1, BlockNumbers
    <2>3. First(s.free \ {b}) = None \/ First(s.free \ {b}) \in s.free \ {b}
      BY <2>2, FirstIs
    <2> QED BY <2>1, <2>3
  <1>3. ptrs \in Pointers /\ ptrs \in [IndexSlots -> Blocks \cup {None}]
    BY <1>1, <1>2, ContentsIs DEF Pointers
  <1>4. p # None => ptrs = Index(s.node, s.ind)
    <2>1. None \notin DOMAIN s.ind
      BY <1>1, ContentsIs, BlockNumbers
    <2> QED BY <1>2, <2>1 DEF Index
  <1>5. /\ slot = None \/ (slot \in IndexSlots /\ ptrs[slot] = None)
        /\ \A k \in IndexSlots : slot # None /\ ptrs[k] = None => slot <= k
    <2> DEFINE V == {k \in DOMAIN ptrs : ptrs[k] = None}
    <2>1. V \subseteq Nat /\ DOMAIN ptrs = IndexSlots
      BY <1>3, SlotOf
    <2>2. slot = First(V)
      BY DEF VacantSlot
    <2> HIDE DEF ptrs, slot
    <2>3. (slot = None \/ slot \in V) /\ \A k \in V : slot # None => slot <= k
      BY <2>1, <2>2, FirstIs
    <2> QED BY <2>1, <2>3
  <1>6. t = IF p = None \/ slot = None THEN gone ELSE done
    <2>1. ~fresh => CanRead(disk_ready, s.ind, p)
      BY <1>2 DEF CanRead
    <2> DEFINE u == [s EXCEPT !.free = @ \ {b}]
    <2>2. u.node = s.node /\ u.free = s.free \ {b} /\ u.ind = s.ind
      BY <1>1 DEF Transfers
    <2>3. /\ [u EXCEPT !.block = None] = gone
          /\ [u EXCEPT !.free = @ \ {p}, !.node.indirect_ptr = p,
                       !.ind = SetPointers(@, p, filled), !.block = b] = done
      <3> HIDE DEF p, filled
      <3> QED BY <1>1 DEF Transfers, INode
    <2>4. t = IF p = None THEN [u EXCEPT !.block = None]
              ELSE IF ~fresh /\ ~CanRead(disk_ready, s.ind, p) THEN [u EXCEPT !.block = Garbage]
              ELSE IF slot = None THEN [u EXCEPT !.block = None]
              ELSE [u EXCEPT !.free = @ \ {p}, !.node.indirect_ptr = p,
                             !.ind = IF disk_ready THEN SetPointers(@, p, filled) ELSE @,
                             !.block = b]
      <3>1. t = AddIndirect(u, b)
        OBVIOUS
      <3> HIDE DEF u, t
      <3> QED BY <2>2, <3>1 DEF AddIndirect
    <2> HIDE DEF u, gone, done, filled, slot, fresh, p, t
    <2>5. [u EXCEPT !.free = @ \ {p}, !.node.indirect_ptr = p,
                    !.ind = IF disk_ready THEN SetPointers(@, p, filled) ELSE @,
                    !.block = b] = done
      BY <2>3
    <2> QED BY <2>1, <2>3, <2>4, <2>5
  <1>7. \A k \in Slots : k < DIRECT_PTR_NUM => s.node.direct_ptr[k] # None
    <2> DEFINE V == {j \in DOMAIN s.node.direct_ptr : s.node.direct_ptr[j] = None}
    <2>1. First(V) = None /\ V \subseteq Nat
      BY <1>1, SlotOf DEF VacantSlot
    <2>2. V = {}
      BY <2>1, FirstIs
    <2> QED BY <1>1, <2>2, SlotIs
  <1>8. CASE p = None \/ slot = None
    <2>1. t = gone
      BY <1>6, <1>8
    <2>2. gone \in Transfers /\ gone.free = s.free \ {b}
      BY <1>1, BlockNumbers DEF Transfers
    <2>3. p = None => s.free \ {b} = {}
      <3>1. p = None => First(s.free \ {b}) = None
        BY <1>1, <1>2, ContentsIs, BlockNumbers
      <3>2. s.free \ {b} \subseteq Nat
        BY <1>1, BlockNumbers
      <3> QED BY <3>1, <3>2, FirstIs
    <2>4. ASSUME p # None, NEW k \in Slots
          PROVE  Ptr(s.node, s.ind, k) # None
      <3>1. CASE k < DIRECT_PTR_NUM
        BY <1>7, <3>1 DEF Ptr
      <3>2. CASE ~ (k < DIRECT_PTR_NUM)
        <4>1. k - DIRECT_PTR_NUM \in IndexSlots
          BY <3>2, SlotIs, SlotOf
        <4>2. ptrs[k - DIRECT_PTR_NUM] # None
          <5> DEFINE V == {j \in DOMAIN ptrs : ptrs[j] = None}
          <5>1. First(V) = None /\ V \subseteq Nat /\ DOMAIN ptrs = IndexSlots
            BY <1>3, <1>8, <2>4, SlotOf DEF VacantSlot
          <5> HIDE DEF ptrs, slot
          <5>2. V = {}
            BY <5>1, FirstIs
          <5> QED BY <4>1, <5>1, <5>2
        <4> QED BY <1>4, <2>4, <3>2, <4>2 DEF Ptr
      <3> QED BY <3>1, <3>2
    <2>5. gone.free = {} \/ AllSet(s.node, s.ind)
      BY <2>2, <2>3, <2>4 DEF AllSet
    <2> QED BY <1>1, <2>1, <2>2, <2>5 DEF RunsOut, Transfers
  <1>9. CASE p # None /\ slot # None
    <2>1. t = done
      BY <1>6, <1>9
    <2>2. slot \in IndexSlots /\ ptrs[slot] = None /\ p \in Blocks
      BY <1>1, <1>2, <1>5, <1>9, ContentsIs
    <2> HIDE DEF p, slot, ptrs
    <2>3. /\ filled \in Pointers
          /\ \A k \in IndexSlots : filled[k] = IF k = slot THEN b ELSE ptrs[k]
      BY <1>1, <1>3, <2>2 DEF Pointers
    <2> DEFINE ind == SetPointers(s.ind, p, filled)
    <2>4. /\ ind \in Contents /\ p \in DOMAIN ind /\ ind[p] = filled
          /\ \A x \in DOMAIN s.ind : x # p => x \in DOMAIN ind /\ ind[x] = s.ind[x]
      <3> DEFINE old == s.ind
      <3> HIDE DEF filled, old
      <3>1. old \in Contents
        BY <1>1 DEF old
      <3>2. /\ SetPointers(old, p, filled) \in Contents
            /\ DOMAIN SetPointers(old, p, filled) = DOMAIN old \cup {p}
            /\ SetPointers(old, p, filled)[p] = filled
            /\ \A x \in DOMAIN old : x # p => SetPointers(old, p, filled)[x] = old[x]
        BY <2>2, <2>3, <3>1, SetPointersIs
      <3> QED BY <3>2 DEF old
    <2>5. /\ [s.node EXCEPT !.indirect_ptr = p] \in INode
          /\ [s.node EXCEPT !.indirect_ptr = p].direct_ptr = s.node.direct_ptr
          /\ [s.node EXCEPT !.indirect_ptr = p].indirect_ptr = p
          /\ [s.node EXCEPT !.indirect_ptr = p].size = s.node.size
          /\ [s.node EXCEPT !.indirect_ptr = p].occupied = s.node.occupied
      BY <1>1, <2>2 DEF INode
    <2> HIDE DEF filled, ind
    <2>6. /\ t \in Transfers /\ t.block = b /\ t.ptr = s.ptr /\ t.left = s.left
          /\ t.node = [s.node EXCEPT !.indirect_ptr = p] /\ t.ind = ind
          /\ t.free = s.free \ {b, p}
      <3>1. (s.free \ {b}) \ {p} \in SUBSET Blocks /\ (s.free \ {b}) \ {p} = s.free \ {b, p}
        BY <1>1
      <3>2. t = [s EXCEPT !.free = (@ \ {b}) \ {p}, !.ind = ind, !.block = b,
                          !.node = [s.node EXCEPT !.indirect_ptr = p]]
        BY <1>1, <2>1 DEF Transfers, ind
      <3> HIDE DEF t
      <3> QED BY <1>1, <2>4, <2>5, <3>1, <3>2 DEF Transfers
    <2> HIDE DEF t
    <2>7. Index(t.node, t.ind) = filled
      BY <2>4, <2>5, <2>6 DEF Index
    <2>8. ASSUME NEW k \in Slots
          PROVE  PtrOf(t, k) = IF k = slot + DIRECT_PTR_NUM THEN b ELSE PtrOf(s, k)
      <3>1. CASE k < DIRECT_PTR_NUM
        BY <2>2, <2>5, <2>6, <3>1, SlotIs, SlotOf DEF PtrOf, Ptr
      <3>2. CASE ~ (k < DIRECT_PTR_NUM)
        <4>1. k - DIRECT_PTR_NUM \in IndexSlots /\ k \in Nat /\ DIRECT_PTR_NUM \in Nat
          BY <3>2, SlotIs, SlotOf
        <4>2. PtrOf(t, k) = filled[k - DIRECT_PTR_NUM] /\ PtrOf(s, k) = ptrs[k - DIRECT_PTR_NUM]
          BY <1>4, <1>9, <2>7, <3>2 DEF PtrOf, Ptr
        <4>3. k - DIRECT_PTR_NUM = slot <=> k = slot + DIRECT_PTR_NUM
          BY <2>2, <4>1, SlotOf
        <4> QED BY <2>3, <4>1, <4>2, <4>3
      <3> QED BY <3>1, <3>2
    <2>9. slot + DIRECT_PTR_NUM \in Slots /\ PtrOf(s, slot + DIRECT_PTR_NUM) = None
      BY <1>4, <1>9, <2>2, SlotOf DEF PtrOf, Ptr
    <2>10. ASSUME NEW k \in Slots, k < slot + DIRECT_PTR_NUM
           PROVE  PtrOf(s, k) # None
      <3>1. CASE k < DIRECT_PTR_NUM
        BY <1>7, <3>1 DEF PtrOf, Ptr
      <3>2. CASE ~ (k < DIRECT_PTR_NUM)
        <4>1. k - DIRECT_PTR_NUM \in IndexSlots /\ ~ (slot <= k - DIRECT_PTR_NUM)
          BY <2>2, <2>10, <3>2, SlotIs, SlotOf
        <4> QED BY <1>4, <1>5, <1>9, <3>2, <4>1 DEF PtrOf, Ptr
      <3> QED BY <3>1, <3>2
    <2>11. \/ p = s.node.indirect_ptr
           \/ s.node.indirect_ptr = None /\ p \in s.free \ {b}
      BY <1>2, <1>9 DEF p
    <2>12. Allocates(s, t, b)
      BY <2>4, <2>5, <2>6, <2>8, <2>9, <2>10, <2>11 DEF Allocates
    <2> QED BY <2>12 DEF t
  <1> QED BY <1>8, <1>9

-----------------------------------------------------------------------------
(* A recursion over levels, each computed from the one before, is defined   *)
(* for any number of them; what the first has and each next one keeps, the  *)
(* last has.                                                                *)
Levels(g, S, F, a, length) ==
    /\ g \in [0 .. length -> S]
    /\ g[0] = a /\ \A n \in 1 .. length : g[n] = F[g[n - 1]]

LEMMA LevelsExist ==
    ASSUME NEW S, NEW F \in [S -> S], NEW a \in S, NEW length \in Nat
    PROVE  \E g : Levels(g, S, F, a, length)
  <1> DEFINE Fits(g, m) == Levels(g, S, F, a, m)
             T == {m \in Nat : \A g : ~ Fits(g, m)}
  <1>1. SUFFICES ASSUME T # {} PROVE FALSE
    OBVIOUS
  <1>2. PICK m \in T : \A y \in T : m <= y
    <2>1. T \subseteq Nat
      OBVIOUS
    <2> HIDE DEF T
    <2> QED BY <1>1, <2>1, Least
  <1>3. CASE m = 0
    <2> DEFINE g == [n \in 0 .. 0 |-> a]
    <2>1. Fits(g, 0)
      BY DEF Levels
    <2> QED BY <1>2, <1>3, <2>1
  <1>4. CASE m # 0
    <2>1. m \in Nat /\ m - 1 \in Nat /\ m - 1 \notin T
      <3>1. m \in Nat
        OBVIOUS
      <3> HIDE DEF T
      <3> QED BY <1>2, <1>4, <3>1
    <2>2. PICK g : Levels(g, S, F, a, m - 1)
      BY <2>1
    <2> DEFINE h == [n \in 0 .. m |-> IF n = m THEN F[g[m - 1]] ELSE g[n]]
    <2>3. h \in [0 .. m -> S]
      <3>1. F[g[m - 1]] \in S
        BY <2>1, <2>2 DEF Levels
      <3>2. ASSUME NEW n \in 0 .. m, n # m PROVE g[n] \in S
        BY <2>1, <2>2, <3>2 DEF Levels
      <3> QED BY <3>1, <3>2
    <2>4. ASSUME NEW n \in 1 .. m PROVE h[n] = F[h[n - 1]]
      <3>1. CASE n = m
        BY <1>4, <2>1, <3>1
      <3>2. CASE n # m
        <4>1. n \in 1 .. m - 1 /\ h[n] = g[n] /\ h[n - 1] = g[n - 1]
          BY <2>1, <3>2
        <4> QED BY <2>2, <4>1 DEF Levels
      <3> QED BY <3>1, <3>2
    <2>5. h[0] = a
      BY <1>4, <2>1, <2>2 DEF Levels
    <2>6. Levels(h, S, F, a, m)
      <3> HIDE DEF h
      <3> QED BY <2>3, <2>4, <2>5 DEF Levels
    <2> QED BY <1>2, <2>6
  <1> QED BY <1>3, <1>4

LEMMA LevelsStay ==
    ASSUME NEW S, NEW length \in Nat, NEW level, level[0] \in S,
           \A n \in 1 .. length : level[n - 1] \in S => level[n] \in S
    PROVE  level[length] \in S
  <1> DEFINE T == {n \in 0 .. length : level[n] \notin S}
  <1>1. SUFFICES ASSUME T # {} PROVE FALSE
    OBVIOUS
  <1>2. PICK n \in T : \A y \in T : n <= y
    <2>1. T \subseteq Nat
      OBVIOUS
    <2> HIDE DEF T
    <2> QED BY <1>1, <2>1, Least
  <1>3. n \in 1 .. length /\ level[n] \notin S
    OBVIOUS
  <1>4. n - 1 \in 0 .. length /\ n - 1 \notin T
    <2> HIDE DEF T
    <2> QED BY <1>2, <1>3
  <1> QED BY <1>3, <1>4

LEMMA WriteLevelsAre ==
    ASSUME NEW f, NEW length \in Nat, NEW S, Start(f, length) \in S,
           \A s \in S : WriteChunk(s) \in S
    PROVE  LET level == WriteLevels(f, length) IN
           /\ level[0] = Start(f, length)
           /\ \A n \in 1 .. length : level[n] = WriteChunk(level[n - 1])
           /\ \A n \in 0 .. length : level[n] \in S
  <1> DEFINE Level(g, n) == IF n = 0 THEN Start(f, length) ELSE WriteChunk(g[n - 1])
             F == [s \in S |-> WriteChunk(s)]
             level == WriteLevels(f, length)
  <1>1. PICK g : Levels(g, S, F, Start(f, length), length)
    <2> F \in [S -> S]
      OBVIOUS
    <2> HIDE DEF F, level
    <2> QED BY LevelsExist
  <1>2. ASSUME NEW n \in 1 .. length PROVE F[g[n - 1]] = WriteChunk(g[n - 1])
    <2>1. g[n - 1] \in S
      BY <1>1 DEF Levels
    <2> QED BY <2>1
  <1>3. g = [n \in 0 .. length |-> Level(g, n)]
    <2> HIDE DEF F
    <2> QED BY <1>1, <1>2 DEF Levels
  <1>4. level = CHOOSE h : h = [n \in 0 .. length |-> Level(h, n)]
    BY DEF WriteLevels
  <1>5. level = [n \in 0 .. length |-> Level(level, n)]
    <2> HIDE DEF Level, level
    <2> QED BY <1>3, <1>4
  <1> HIDE DEF level
  <1>6. level[0] = Start(f, length) /\ \A n \in 1 .. length : level[n] = WriteChunk(level[n - 1])
    BY <1>5
  <1>7. ASSUME NEW n \in 0 .. length PROVE level[n] \in S
    <2>1. n \in Nat /\ level[0] \in S /\ \A k \in 1 .. n : level[k - 1] \in S => level[k] \in S
      BY <1>6
    <2> QED BY <2>1, LevelsStay
  <1> QED BY <1>6, <1>7 DEF level

LEMMA WriteInduction ==
    ASSUME NEW f, NEW length \in Nat, NEW S, Start(f, length) \in S,
           \A s \in S : WriteChunk(s) \in S
    PROVE  sfs_fwrite_recursive(f, length) \in S
  <1>1. length \in 0 .. length
    OBVIOUS
  <1> QED BY <1>1, WriteLevelsAre DEF sfs_fwrite_recursive

LEMMA ReadLevels ==
    ASSUME NEW f, NEW length \in Nat, NEW S, Start(f, length) \in S,
           \A s \in S : ReadChunk(s) \in S
    PROVE  \E level : /\ level[0] = Start(f, length)
                      /\ \A n \in 1 .. length : level[n] = ReadChunk(level[n - 1])
                      /\ sfs_fread_recursive(f, length) = level[length]
  <1> DEFINE Level(g, n) == IF n = 0 THEN Start(f, length) ELSE ReadChunk(g[n - 1])
             F == [s \in S |-> ReadChunk(s)]
             level == CHOOSE h : h = [n \in 0 .. length |-> Level(h, n)]
  <1>1. PICK g : Levels(g, S, F, Start(f, length), length)
    <2> F \in [S -> S]
      OBVIOUS
    <2> HIDE DEF F, level
    <2> QED BY LevelsExist
  <1>2. ASSUME NEW n \in 1 .. length PROVE F[g[n - 1]] = ReadChunk(g[n - 1])
    <2>1. g[n - 1] \in S
      BY <1>1 DEF Levels
    <2> QED BY <2>1
  <1>3. g = [n \in 0 .. length |-> Level(g, n)]
    <2> HIDE DEF F, level
    <2> QED BY <1>1, <1>2 DEF Levels
  <1>4. level = [n \in 0 .. length |-> Level(level, n)]
    <2> HIDE DEF Level
    <2> QED BY <1>3
  <1>5. sfs_fread_recursive(f, length) = level[length]
    BY DEF sfs_fread_recursive
  <1> HIDE DEF level
  <1>6. level[0] = Start(f, length) /\ \A n \in 1 .. length : level[n] = ReadChunk(level[n - 1])
    BY <1>4
  <1> QED BY <1>5, <1>6

LEMMA ReadInduction ==
    ASSUME NEW f, NEW length \in Nat, NEW S, Start(f, length) \in S,
           \A s \in S : ReadChunk(s) \in S
    PROVE  sfs_fread_recursive(f, length) \in S
  <1>1. PICK level : /\ level[0] = Start(f, length)
                     /\ \A n \in 1 .. length : level[n] = ReadChunk(level[n - 1])
                     /\ sfs_fread_recursive(f, length) = level[length]
    BY ReadLevels
  <1> QED BY <1>1, LevelsStay

-----------------------------------------------------------------------------
LEMMA Allocation ==
    ASSUME NEW s, Ready(s), disk_ready
    PROVE  LET t == allocate_disk_block_to_i_node(s)
           IN  (\E b \in s.free : Allocates(s, t, b)) \/ RunsOut(s, t)
  <1> DEFINE b == First(s.free)
             t == allocate_disk_block_to_i_node(s)
             u == [s EXCEPT !.free = @ \ {b}]
  <1>1. s \in Transfers /\ s.free \subseteq Blocks /\ s.free \subseteq Nat
    BY BlockNumbers DEF Ready, Transfers
  <1>2. b = None \/ b \in s.free
    BY <1>1, FirstIs
  <1>3. t = IF b = None THEN [s EXCEPT !.block = None]
            ELSE IF VacantSlot(s.node.direct_ptr) # None THEN AddDirect(u, b)
            ELSE AddIndirect(u, b)
    BY <1>1 DEF allocate_disk_block_to_i_node, Taken, Transfers
  <1> HIDE DEF b, t
  <1>4. b = None => RunsOut(s, t)
    BY <1>1, <1>3, BlockNumbers DEF RunsOut, Transfers
  <1>5. ASSUME b # None, VacantSlot(s.node.direct_ptr) # None
        PROVE  Allocates(s, t, b)
    BY <1>2, <1>3, <1>5, AddDirectAllocates
  <1>6. ASSUME b # None, VacantSlot(s.node.direct_ptr) = None
        PROVE  Allocates(s, t, b) \/ RunsOut(s, t)
    <2>1. Allocates(s, AddIndirect(u, b), b) \/ RunsOut(s, AddIndirect(u, b))
      BY <1>2, <1>6, AddIndirectAllocates
    <2> QED BY <1>2, <1>3, <1>6, <2>1
  <1> QED BY <1>2, <1>4, <1>5, <1>6 DEF t

(* What every level of a transfer keeps of its start a, R being the blocks  *)
(* of the other files.                                                      *)
Keeps(a, R, s) ==
    /\ Ready(s)
    /\ s.node.size \in Nat /\ s.node.occupied
    /\ s.free \subseteq a.free
    /\ Used(s.node, s.ind) \cap R = {}
    /\ \A p \in R : p \in DOMAIN a.ind => p \in DOMAIN s.ind /\ s.ind[p] = a.ind[p]
    /\ \A k \in Slots : PtrOf(a, k) # None => PtrOf(s, k) = PtrOf(a, k)

LEMMA AllocationKeeps ==
    ASSUME NEW a, NEW R, a.free \cap R = {}, NEW s, Keeps(a, R, s),
           NEW b \in s.free, NEW t, Allocates(s, t, b)
    PROVE  Keeps(a, R, t)
  <1>1. /\ s \in Transfers /\ t \in Transfers /\ b \in Blocks /\ b # None
        /\ s.free \subseteq Blocks /\ DOMAIN s.ind \subseteq Blocks
        /\ s.node \in INode /\ s.ind \in Contents /\ t.node \in INode /\ t.ind \in Contents
    <2>1. s \in Transfers /\ t \in Transfers
      BY DEF Keeps, Ready, Allocates
    <2> QED BY <2>1, BlockNumbers, ContentsIs DEF Transfers
  <1>2. PICK v \in Slots :
            /\ PtrOf(s, v) = None
            /\ \A k \in Slots : PtrOf(t, k) = IF k = v THEN b ELSE PtrOf(s, k)
    BY DEF Allocates
  <1>3. \A k \in Slots : PtrOf(s, k) # None => PtrOf(s, k) \in Used(s.node, s.ind)
    BY DEF PtrOf, Used
  <1>4. Used(s.node, s.ind) \cap s.free = {} /\ Used(s.node, s.ind) \cap R = {} /\ s.free \cap R = {}
    BY DEF Keeps, Ready
  <1>5. \/ t.node.indirect_ptr = None
        \/ t.node.indirect_ptr = s.node.indirect_ptr /\ t.node.indirect_ptr \in Used(s.node, s.ind)
        \/ s.node.indirect_ptr = None /\ t.node.indirect_ptr \in s.free \ {b}
    BY <1>1 DEF Allocates, Used
  <1>6. WellFormed(t.node, t.ind)
    <2>1. ASSUME NEW j \in Slots, NEW k \in Slots, PtrOf(t, j) # None
          PROVE  /\ PtrOf(t, j) # t.node.indirect_ptr
                 /\ PtrOf(t, j) = PtrOf(t, k) => j = k
      <3>1. PtrOf(s, j) # None => PtrOf(s, j) # s.node.indirect_ptr
                                  /\ (PtrOf(s, j) = PtrOf(s, k) => j = k)
        BY DEF Keeps, Ready, WellFormed, PtrOf
      <3> QED BY <1>1, <1>2, <1>3, <1>4, <1>5, <2>1, <3>1
    <2>2. t.node.indirect_ptr # None => t.node.indirect_ptr \in DOMAIN t.ind
      BY DEF Allocates
    <2> QED BY <2>1, <2>2 DEF WellFormed, PtrOf
  <1>7. Used(t.node, t.ind) \subseteq Used(s.node, s.ind) \cup {b, t.node.indirect_ptr}
    BY <1>1, <1>2, <1>3 DEF Used, PtrOf
  <1>8. None \notin Used(t.node, t.ind)
    BY DEF Used
  <1>9. t.free = s.free \ {b, t.node.indirect_ptr}
    BY DEF Allocates
  <1>10. Used(t.node, t.ind) \cap t.free = {} /\ Used(t.node, t.ind) \cap R = {}
    BY <1>4, <1>5, <1>7, <1>8, <1>9
  <1>11. ASSUME NEW p \in R, p \in DOMAIN a.ind
         PROVE  p \in DOMAIN t.ind /\ t.ind[p] = a.ind[p]
    <2>1. p \in DOMAIN s.ind /\ s.ind[p] = a.ind[p]
      BY <1>11 DEF Keeps
    <2>2. p # t.node.indirect_ptr
      BY <1>1, <1>4, <1>5, <2>1, BlockNumbers
    <2> QED BY <2>1, <2>2 DEF Allocates
  <1>12. ASSUME NEW k \in Slots, PtrOf(a, k) # None PROVE PtrOf(t, k) = PtrOf(a, k)
    BY <1>2, <1>12 DEF Keeps
  <1>13. t.node.size \in Nat /\ t.node.occupied /\ t.free \subseteq a.free
    BY <1>9 DEF Keeps, Allocates
  <1> QED BY <1>1, <1>6, <1>10, <1>11, <1>12, <1>13 DEF Keeps, Ready

(* The block a position falls into is the pointer of its slot.              *)
LEMMA BlockAtIs ==
    ASSUME NEW s \in Transfers, disk_ready
    PROVE  LET k == s.ptr \div BLOCK_SIZE
               x == BlockAt(s.node, s.ind, s.ptr)
           IN  \/ k \in Slots /\ x = PtrOf(s, k)
               \/ x \in {None, Garbage} /\ (k \in Slots => PtrOf(s, k) = None)
  <1> DEFINE k == s.ptr \div BLOCK_SIZE
             x == BlockAt(s.node, s.ind, s.ptr)
             rest == s.ptr - DIRECT_PTR_NUM * BLOCK_SIZE
  <1>0. s.ptr \in Int
    BY DEF Transfers
  <1>a. CASE s.ptr \notin Nat
    <2>1. k \notin Nat
      BY <1>0, <1>a, DivMod
    <2>2. k \notin Slots
      BY <2>1 DEF Slots
    <2>3. s.ptr < 0
      BY <1>0, <1>a
    <2>4. x \in {None, Garbage}
      BY <2>3 DEF BlockAt
    <2> QED BY <2>2, <2>4
  <1> SUFFICES ASSUME s.ptr \in Nat
               PROVE  \/ k \in Slots /\ x = PtrOf(s, k)
                      \/ x = Garbage /\ (k \in Slots => PtrOf(s, k) = None)
    BY <1>a
  <1>1. /\ s.ptr \in Nat /\ s.node \in INode /\ s.ind \in Contents
        /\ BLOCK_SIZE \in Nat /\ DIRECT_PTR_NUM \in Nat
    BY SfsAssumption DEF Transfers
  <1>2. k \in Nat /\ k * BLOCK_SIZE <= s.ptr /\ s.ptr < (k + 1) * BLOCK_SIZE
    BY <1>1, DivMod, BlockOfPosition
  <1> HIDE DEF k
  <1>3. CASE k < DIRECT_PTR_NUM
    <2>1. s.ptr < DIRECT_PTR_NUM * BLOCK_SIZE
      <3>1. (k + 1) * BLOCK_SIZE <= DIRECT_PTR_NUM * BLOCK_SIZE
        BY <1>1, <1>2, <1>3, BlockOrder
      <3>2. (k + 1) * BLOCK_SIZE \in Int /\ DIRECT_PTR_NUM * BLOCK_SIZE \in Int
        BY <1>1, <1>2
      <3> QED BY <1>1, <1>2, <3>1, <3>2
    <2>2. x = s.node.direct_ptr[k]
      BY <1>1, <2>1 DEF BlockAt, k
    <2>3. k \in Slots /\ PtrOf(s, k) = s.node.direct_ptr[k]
      BY <1>1, <1>2, <1>3, SlotOf DEF PtrOf, Ptr, DirectSlots
    <2> QED BY <2>2, <2>3 DEF k
  <1>4. CASE ~ (k < DIRECT_PTR_NUM)
    <2>1. /\ DIRECT_PTR_NUM * BLOCK_SIZE <= k * BLOCK_SIZE
          /\ DIRECT_PTR_NUM * BLOCK_SIZE \in Nat /\ k * BLOCK_SIZE \in Nat
          /\ (k - DIRECT_PTR_NUM) * BLOCK_SIZE = k * BLOCK_SIZE - DIRECT_PTR_NUM * BLOCK_SIZE
          /\ ((k - DIRECT_PTR_NUM) + 1) * BLOCK_SIZE
                = (k + 1) * BLOCK_SIZE - DIRECT_PTR_NUM * BLOCK_SIZE
      <3>1. DIRECT_PTR_NUM * BLOCK_SIZE <= k * BLOCK_SIZE
        BY <1>1, <1>2, <1>4, BlockOrder
      <3>2. DIRECT_PTR_NUM * BLOCK_SIZE \in Nat /\ k * BLOCK_SIZE \in Nat
        BY <1>1, <1>2
      <3>3. (k - DIRECT_PTR_NUM) * BLOCK_SIZE = k * BLOCK_SIZE - DIRECT_PTR_NUM * BLOCK_SIZE
        BY <1>1, <1>2
      <3>4. ((k - DIRECT_PTR_NUM) + 1) * BLOCK_SIZE
                = (k + 1) * BLOCK_SIZE - DIRECT_PTR_NUM * BLOCK_SIZE
        BY <1>1, <1>2
      <3> QED BY <3>1, <3>2, <3>3, <3>4
    <2>2. (k + 1) * BLOCK_SIZE \in Nat
      BY <1>1, <1>2
    <2>3. rest \in Nat /\ ~ (s.ptr < DIRECT_PTR_NUM * BLOCK_SIZE)
      BY <1>1, <1>2, <2>1
    <2>4. rest \div BLOCK_SIZE = k - DIRECT_PTR_NUM
      <3>1. k - DIRECT_PTR_NUM \in Nat
        BY <1>1, <1>2, <1>4
      <3>2. /\ (k - DIRECT_PTR_NUM) * BLOCK_SIZE <= rest
            /\ rest < ((k - DIRECT_PTR_NUM) + 1) * BLOCK_SIZE
        BY <1>1, <1>2, <2>1, <2>2
      <3> HIDE DEF rest
      <3> QED BY <2>3, <3>1, <3>2, BlockOfPosition
    <2>5. x = IF s.node.indirect_ptr \in DOMAIN s.ind /\ k - DIRECT_PTR_NUM \in IndexSlots
              THEN s.ind[s.node.indirect_ptr][k - DIRECT_PTR_NUM] ELSE Garbage
      BY <1>1, <2>3, <2>4 DEF BlockAt, CanRead
    <2>6. k \in Slots <=> k - DIRECT_PTR_NUM \in IndexSlots
      BY <1>1, <1>2, <1>4, SfsAssumption DEF Slots, IndexSlots
    <2>7. PtrOf(s, k) = Index(s.node, s.ind)[k - DIRECT_PTR_NUM]
      BY <1>4 DEF PtrOf, Ptr
    <2> HIDE DEF x
    <2>8. \/ k \in Slots /\ x = PtrOf(s, k)
          \/ x = Garbage /\ (k \in Slots => PtrOf(s, k) = None)
      BY <2>5, <2>6, <2>7 DEF Index
    <2> QED BY <2>8 DEF x, k
  <1> QED BY <1>3, <1>4

(* Writing n bytes to a data block of the file, which ends its life as an   *)
(* indirect block of another one; the file then has size z.                 *)
Written(s, n, z) == [s EXCEPT !.ptr = @ + n, !.left = @ - n, !.node.size = z,
                              !.ind = Restrict(@, DOMAIN @ \ {s.block})]

DataAt(s, n, z, t) ==
    /\ \A j \in Slots : PtrOf(t, j) = PtrOf(s, j)
    /\ t.ptr = s.ptr + n /\ t.left = s.left - n /\ t.node.size = z
    /\ t.block = s.block /\ t.free = s.free /\ t.node.indirect_ptr = s.node.indirect_ptr

LEMMA DataKeeps ==
    ASSUME NEW a, NEW R, a.free \cap R = {}, NEW s, Keeps(a, R, s),
           NEW k \in Slots, s.block = PtrOf(s, k), s.block # None,
           NEW n \in Nat, n <= s.left, NEW z \in Nat
    PROVE  Keeps(a, R, Written(s, n, z)) /\ DataAt(s, n, z, Written(s, n, z))
  <1> DEFINE ind == Restrict(s.ind, DOMAIN s.ind \ {s.block})
             t == Written(s, n, z)
  <1>1. /\ s \in Transfers /\ s.node \in INode /\ s.ind \in Contents
        /\ WellFormed(s.node, s.ind) /\ Used(s.node, s.ind) \cap s.free = {}
    BY DEF Keeps, Ready, Transfers
  <1>2. /\ ind \in Contents /\ DOMAIN ind = DOMAIN s.ind \ {s.block}
        /\ \A x \in DOMAIN ind : ind[x] = s.ind[x]
    BY <1>1, ContentsIs DEF Restrict
  <1>3. /\ t.ptr = s.ptr + n /\ t.left = s.left - n /\ t.node = [s.node EXCEPT !.size = z]
        /\ t.ind = ind /\ t.block = s.block /\ t.free = s.free
    <2> HIDE DEF ind
    <2>1. t = [s EXCEPT !.ptr = @ + n, !.left = @ - n, !.node.size = z, !.ind = ind]
      BY <1>1 DEF ind, Written
    <2> HIDE DEF t
    <2> QED BY <1>1, <2>1 DEF Transfers
  <1>4. /\ t.node \in INode /\ t.node.size = z /\ t.node.direct_ptr = s.node.direct_ptr
        /\ t.node.indirect_ptr = s.node.indirect_ptr /\ t.node.occupied = s.node.occupied
    BY <1>1, <1>3 DEF INode
  <1>5. t \in Transfers
    <2> HIDE DEF ind
    <2>1. t = [s EXCEPT !.ptr = @ + n, !.left = @ - n, !.node = [s.node EXCEPT !.size = z], !.ind = ind]
      BY <1>1 DEF ind, Transfers, Written
    <2> HIDE DEF t
    <2>2. s.ptr + n \in Int /\ s.left - n \in Nat
      BY <1>1 DEF Transfers
    <2> QED BY <1>1, <1>2, <1>3, <1>4, <2>1, <2>2 DEF Transfers
  <1> HIDE DEF ind, t
  <1>6. s.block # s.node.indirect_ptr
    BY <1>1 DEF WellFormed, PtrOf
  <1>7. Index(t.node, t.ind) = Index(s.node, s.ind)
    BY <1>2, <1>3, <1>4, <1>6 DEF Index
  <1>8. \A j \in Slots : PtrOf(t, j) = PtrOf(s, j)
    BY <1>4, <1>7 DEF PtrOf, Ptr
  <1>9. Used(t.node, t.ind) = Used(s.node, s.ind)
    BY <1>4, <1>8 DEF Used, PtrOf
  <1>10. WellFormed(t.node, t.ind)
    <2>1. ASSUME NEW i \in Slots, NEW j \in Slots, PtrOf(t, i) # None
          PROVE  /\ PtrOf(t, i) # t.node.indirect_ptr
                 /\ PtrOf(t, i) = PtrOf(t, j) => i = j
      <3>1. PtrOf(s, i) # None => PtrOf(s, i) # s.node.indirect_ptr
                                  /\ (PtrOf(s, i) = PtrOf(s, j) => i = j)
        BY <1>1 DEF WellFormed, PtrOf
      <3> QED BY <1>4, <1>8, <2>1, <3>1
    <2>2. t.node.indirect_ptr # None => t.node.indirect_ptr \in DOMAIN t.ind
      BY <1>1, <1>2, <1>3, <1>4, <1>6 DEF WellFormed
    <2> QED BY <2>1, <2>2 DEF WellFormed, PtrOf
  <1>11. s.block \in Used(s.node, s.ind)
    BY DEF Used, PtrOf
  <1>12. ASSUME NEW p \in R, p \in DOMAIN a.ind
         PROVE  p \in DOMAIN t.ind /\ t.ind[p] = a.ind[p]
    <2>1. p \in DOMAIN s.ind /\ s.ind[p] = a.ind[p] /\ p # s.block
      BY <1>11, <1>12 DEF Keeps
    <2> QED BY <1>2, <1>3, <2>1
  <1>13. ASSUME NEW j \in Slots, PtrOf(a, j) # None PROVE PtrOf(t, j) = PtrOf(a, j)
    BY <1>8, <1>13 DEF Keeps
  <1>14. Keeps(a, R, t)
    BY <1>1, <1>3, <1>4, <1>5, <1>9, <1>10, <1>12, <1>13 DEF Keeps, Ready
  <1> QED BY <1>3, <1>4, <1>8, <1>14 DEF t, DataAt

(* The bytes that one level of a transfer moves, and their slot.            *)
ChunkLength(s) == Smaller(s.left, BLOCK_SIZE - (s.ptr % BLOCK_SIZE))
SlotAt(s) == s.ptr \div BLOCK_SIZE

LEMMA ChunkLengthIs ==
    ASSUME NEW s \in Transfers, ~ Over(s)
    PROVE  /\ ChunkLength(s) \in Nat \ {0} /\ ChunkLength(s) <= s.left
           /\ ChunkLength(s) <= BLOCK_SIZE - (s.ptr % BLOCK_SIZE)
           /\ s.ptr + ChunkLength(s) \in Int
           /\ s.ptr \in Nat => s.ptr + ChunkLength(s) \in Nat
           /\ \/ ChunkLength(s) = s.left
              \/ ChunkLength(s) = BLOCK_SIZE - (s.ptr % BLOCK_SIZE)
  <1>1. s.ptr \in Int /\ s.left \in Nat /\ s.left # 0
    BY DEF Transfers, Over
  <1>2. s.ptr % BLOCK_SIZE \in 0 .. BLOCK_SIZE - 1 /\ BLOCK_SIZE \in Nat
    BY <1>1, DivMod, SfsAssumption
  <1> QED BY <1>1, <1>2 DEF ChunkLength, Smaller

LEMMA OffsetOrder ==
    ASSUME NEW j \in Nat, NEW k \in Nat
    PROVE  /\ j < k <=> Offset(j) < Offset(k)
           /\ j < k <=> Offset(j + 1) <= Offset(k)
           /\ Offset(j) \in Nat
  <1>1. j * BLOCK_SIZE \in Nat
    BY SfsAssumption
  <1>2. j < k <=> j * BLOCK_SIZE < k * BLOCK_SIZE
    BY BlockOrder
  <1>3. j < k <=> (j + 1) * BLOCK_SIZE <= k * BLOCK_SIZE
    BY BlockOrder
  <1> QED BY <1>1, <1>2, <1>3 DEF Offset

(* Where a chunk begins and ends: in the bytes of one slot.                 *)
LEMMA ChunkPlace ==
    ASSUME NEW s \in Transfers, ~ Over(s), s.ptr \in Nat
    PROVE  LET q == SlotAt(s) IN
           /\ q \in Nat /\ Offset(q) \in Nat /\ Offset(q + 1) \in Nat
           /\ Offset(q) <= s.ptr /\ s.ptr < Offset(q + 1)
           /\ Offset(q) < s.ptr + ChunkLength(s) /\ s.ptr + ChunkLength(s) <= Offset(q + 1)
           /\ s.ptr % BLOCK_SIZE = 0 <=> s.ptr = Offset(q)
  <1> DEFINE q == SlotAt(s)
             r == s.ptr % BLOCK_SIZE
             n == ChunkLength(s)
  <1>1. s.ptr \in Nat /\ s.ptr \in Int /\ BLOCK_SIZE \in Nat
    BY SfsAssumption
  <1>2. q \in Nat /\ Offset(q) <= s.ptr /\ s.ptr < Offset(q + 1)
    <2>1. q \in Nat
      BY <1>1, DivMod DEF SlotAt
    <2> QED BY <1>1, <2>1, BlockOfPosition DEF SlotAt, Offset
  <1>3. s.ptr = BLOCK_SIZE * q + r /\ r \in 0 .. BLOCK_SIZE - 1
    BY <1>1, DivMod DEF SlotAt
  <1>4. n \in Nat \ {0} /\ n <= BLOCK_SIZE - r
    BY ChunkLengthIs
  <1> HIDE DEF q, r, n
  <1>5. /\ Offset(q + 1) = Offset(q) + BLOCK_SIZE /\ BLOCK_SIZE * q = Offset(q)
        /\ Offset(q) \in Nat
    BY <1>1, <1>2 DEF Offset
  <1>6. s.ptr = Offset(q) + r
    BY <1>3, <1>5
  <1>7. /\ Offset(q) < s.ptr + n /\ s.ptr + n <= Offset(q + 1)
        /\ r = 0 <=> s.ptr = Offset(q)
        /\ Offset(q + 1) \in Nat
    BY <1>1, <1>3, <1>4, <1>5, <1>6
  <1> QED BY <1>2, <1>5, <1>7 DEF q, r, n

LEMMA SlotBound ==
    ASSUME NEW k \in Nat
    PROVE  /\ k \in Slots => Offset(k + 1) <= Offset(DIRECT_PTR_NUM + POINTERS)
           /\ Offset(k) < Offset(DIRECT_PTR_NUM + POINTERS) => k \in Slots
           /\ Offset(DIRECT_PTR_NUM + POINTERS) \in Nat
  <1>1. DIRECT_PTR_NUM + POINTERS \in Nat
    BY SfsAssumption
  <1>2. k < DIRECT_PTR_NUM + POINTERS <=> k \in Slots
    BY <1>1, SfsAssumption DEF Slots
  <1> QED BY <1>1, <1>2, OffsetOrder

(* The bytes of a slot are far from the largest int.                        *)
LEMMA SlotFits ==
    ASSUME NEW s \in Transfers, ~ Over(s), s.ptr \in Nat, SlotAt(s) \in Slots
    PROVE  s.ptr + ChunkLength(s) < IntLimit
  <1> DEFINE q == SlotAt(s)
             e == s.ptr + ChunkLength(s)
  <1>1. q \in Nat /\ e \in Nat /\ e <= Offset(q + 1) /\ Offset(q + 1) \in Nat
    BY ChunkPlace, ChunkLengthIs
  <1> HIDE DEF q, e
  <1>2. /\ Offset(q + 1) <= Offset(DIRECT_PTR_NUM + POINTERS)
        /\ Offset(DIRECT_PTR_NUM + POINTERS) \in Nat
    BY <1>1, SlotBound DEF q
  <1>3. Offset(DIRECT_PTR_NUM + POINTERS) < IntLimit /\ IntLimit \in Nat
    BY SfsAssumption DEF Offset
  <1> QED BY <1>1, <1>2, <1>3 DEF e

(* A slot has a number from 0 on, and so has each byte in it.               *)
LEMMA InSlot ==
    ASSUME NEW s \in Transfers, SlotAt(s) \in Slots
    PROVE  s.ptr \in Nat
  <1>1. SlotAt(s) \in Nat
    BY SlotIs
  <1> QED BY <1>1, DivMod DEF SlotAt, Transfers

(* One level of a write ends the transfer, or puts the next bytes into a    *)
(* new block or one the file has; behind a new block there may be no room   *)
(* for an int.                                                              *)
Moved(s, t) == Written(t, ChunkLength(s), Larger(t.node.size, s.ptr + ChunkLength(s)))
Overflows(s) == s.ptr + ChunkLength(s) >= IntLimit
Adds(s, t, u) == \/ u = Moved(s, t)
                 \/ Overflows(s) /\ u = [t EXCEPT !.block = Garbage]

LEMMA WriteChunkIs ==
    ASSUME NEW s, Ready(s), disk_ready
    PROVE  LET u == WriteChunk(s) IN
           \/ Over(s) /\ u = s
           \/ ~ Over(s) /\ should_add_new(s) /\ RunsOut(s, u)
           \/ /\ ~ Over(s) /\ ~ should_add_new(s)
              /\ SlotAt(s) \in Slots => PtrOf(s, SlotAt(s)) = None
              /\ \E x \in {None, Garbage} : u = [s EXCEPT !.block = x]
           \/ ~ Over(s) /\ should_add_new(s) /\ \E b \in s.free : \E t :
                 Allocates(s, t, b) /\ Adds(s, t, u)
           \/ /\ ~ Over(s) /\ ~ should_add_new(s)
              /\ SlotAt(s) \in Slots /\ PtrOf(s, SlotAt(s)) # None
              /\ u = Moved(s, [s EXCEPT !.block = PtrOf(s, SlotAt(s))])
  <1> DEFINE x == BlockAt(s.node, s.ind, s.ptr)
             t == IF should_add_new(s) THEN allocate_disk_block_to_i_node(s)
                  ELSE [s EXCEPT !.block = x]
             u == WriteChunk(s)
  <1>1. s \in Transfers /\ s.node \in INode /\ s.ind \in Contents /\ s.left \in Nat
    BY DEF Ready, Transfers
  <1>2. u = IF Over(s) THEN s ELSE IF Over(t) THEN t
            ELSE IF Overflows(s) THEN [t EXCEPT !.block = Garbage] ELSE Moved(s, t)
    BY DEF WriteChunk, Moved, Written, ChunkLength, Overflows
  <1> HIDE DEF u
  <1>3. CASE Over(s)
    BY <1>2, <1>3 DEF u
  <1>4. ASSUME ~ Over(s), should_add_new(s)
        PROVE  \/ RunsOut(s, u)
               \/ \E b \in s.free : Allocates(s, t, b) /\ Adds(s, t, u)
    <2>1. t = allocate_disk_block_to_i_node(s)
      BY <1>4
    <2> HIDE DEF t
    <2>2. (\E b \in s.free : Allocates(s, t, b)) \/ RunsOut(s, t)
      BY <2>1, Allocation
    <2>3. ASSUME NEW b \in s.free, Allocates(s, t, b) PROVE Adds(s, t, u)
      <3>1. b \in Blocks /\ t.block = b /\ t.left = s.left
        BY <1>1, <2>3 DEF Allocates, Transfers
      <3>2. ~ Over(t)
        BY <1>4, <3>1, BlockNumbers DEF Over
      <3> QED BY <1>2, <1>4, <3>2 DEF Adds
    <2>4. RunsOut(s, t) => u = t
      <3>1. RunsOut(s, t) => t.block = None
        BY <1>1 DEF RunsOut, Transfers
      <3> QED BY <1>2, <1>4, <3>1 DEF Over
    <2> QED BY <2>2, <2>3, <2>4
  <1>5. ASSUME ~ Over(s), ~ should_add_new(s)
        PROVE  \/ /\ SlotAt(s) \in Slots => PtrOf(s, SlotAt(s)) = None
                  /\ x \in {None, Garbage} /\ u = [s EXCEPT !.block = x]
               \/ /\ SlotAt(s) \in Slots /\ PtrOf(s, SlotAt(s)) # None
                  /\ u = Moved(s, [s EXCEPT !.block = PtrOf(s, SlotAt(s))])
    <2>1. t = [s EXCEPT !.block = x]
      BY <1>5
    <2>2. \/ SlotAt(s) \in Slots /\ x = PtrOf(s, SlotAt(s))
          \/ x \in {None, Garbage} /\ (SlotAt(s) \in Slots => PtrOf(s, SlotAt(s)) = None)
      BY <1>1, BlockAtIs DEF SlotAt
    <2> HIDE DEF t, x
    <2>3. t.block = x /\ t.left = s.left
      BY <1>1, <2>1 DEF Transfers
    <2>4. CASE x \in {None, Garbage}
      <3>1. Over(t)
        BY <2>3, <2>4 DEF Over
      <3>2. SlotAt(s) \in Slots => PtrOf(s, SlotAt(s)) = None
        <4>1. SlotAt(s) \in Slots => PtrOf(s, SlotAt(s)) \in Blocks \cup {None}
          BY <1>1, PtrType DEF PtrOf
        <4> QED BY <2>2, <2>4, <4>1, BlockNumbers
      <3> QED BY <1>2, <1>5, <2>1, <2>4, <3>1, <3>2
    <2>5. CASE x \notin {None, Garbage}
      <3>1. ~ Over(t)
        BY <1>5, <2>3, <2>5 DEF Over
      <3>2. ~ Overflows(s)
        <4>1. s.ptr \in Nat /\ s.ptr + ChunkLength(s) \in Nat /\ IntLimit \in Nat
          BY <1>1, <1>5, <2>2, <2>5, InSlot, ChunkLengthIs, SfsAssumption
        <4>2. s.ptr + ChunkLength(s) < IntLimit
          BY <1>1, <1>5, <2>2, <2>5, <4>1, SlotFits
        <4> QED BY <4>1, <4>2 DEF Overflows
      <3> QED BY <1>2, <1>5, <2>1, <2>2, <2>5, <3>1, <3>2
    <2> QED BY <2>4, <2>5
  <1> HIDE DEF t, x
  <1> QED BY <1>3, <1>4, <1>5 DEF u

(* How a chunk ends: u comes from t, in which the block has been found.      *)
MovesTo(a, R, s, t, u) ==
    /\ Keeps(a, R, u)
    /\ \A j \in Slots : PtrOf(u, j) = PtrOf(t, j)
    /\ u.ptr = s.ptr + ChunkLength(s) /\ u.left = s.left - ChunkLength(s)
    /\ u.node.size = Larger(t.node.size, s.ptr + ChunkLength(s))
    /\ u.block = t.block
    /\ u.free = t.free /\ u.node.indirect_ptr = t.node.indirect_ptr

LEMMA MovedKeeps ==
    ASSUME NEW a, NEW R, a.free \cap R = {}, NEW s \in Transfers, ~ Over(s),
           NEW t, Keeps(a, R, t), t.left = s.left, t.ptr = s.ptr,
           NEW k \in Slots, t.block = PtrOf(t, k), t.block # None
    PROVE  MovesTo(a, R, s, t, Moved(s, t))
  <1> DEFINE n == ChunkLength(s)
             z == Larger(t.node.size, s.ptr + n)
             u == Written(t, n, z)
  <1>1. n \in Nat /\ n <= t.left /\ s.ptr + n \in Int
    BY ChunkLengthIs
  <1>2. z \in Nat
    BY <1>1 DEF Larger, Keeps
  <1>3. Moved(s, t) = u
    BY DEF Moved
  <1> HIDE DEF n, z
  <1>4. Keeps(a, R, u) /\ DataAt(t, n, z, u)
    BY <1>1, <1>2, DataKeeps
  <1> HIDE DEF u
  <1> QED BY <1>3, <1>4 DEF MovesTo, DataAt, n, z, u

LEMMA WriteChunkKeeps ==
    ASSUME NEW a, NEW R, a.free \cap R = {}, NEW s, Keeps(a, R, s), disk_ready
    PROVE  Keeps(a, R, WriteChunk(s))
  <1> DEFINE u == WriteChunk(s)
  <1>1. Ready(s) /\ s \in Transfers /\ s.node \in INode /\ s.node.size \in Int
    BY DEF Keeps, Ready, Transfers, INode
  <1>2. \/ Over(s) /\ u = s
        \/ ~ Over(s) /\ should_add_new(s) /\ RunsOut(s, u)
        \/ /\ ~ Over(s) /\ ~ should_add_new(s)
           /\ \E x \in {None, Garbage} : u = [s EXCEPT !.block = x]
        \/ ~ Over(s) /\ should_add_new(s) /\ \E b \in s.free : \E t :
              Allocates(s, t, b) /\ Adds(s, t, u)
        \/ /\ ~ Over(s) /\ ~ should_add_new(s)
           /\ SlotAt(s) \in Slots /\ PtrOf(s, SlotAt(s)) # None
           /\ u = Moved(s, [s EXCEPT !.block = PtrOf(s, SlotAt(s))])
    BY <1>1, WriteChunkIs
  <1> HIDE DEF u
  <1>3. ASSUME NEW t, Keeps(a, R, t), NEW x \in Int, NEW v, v = [t EXCEPT !.block = x]
        PROVE  Keeps(a, R, v) /\ v.block = x
    <2>1. t \in Transfers
      BY <1>3 DEF Keeps, Ready
    <2>2. v \in Transfers
      BY <1>3, <2>1 DEF Transfers
    <2>3. v.node = t.node /\ v.ind = t.ind /\ v.free = t.free /\ v.block = x
      BY <1>3, <2>1 DEF Transfers
    <2> QED BY <1>3, <2>2, <2>3 DEF Keeps, Ready, PtrOf
  <1>4. ASSUME RunsOut(s, u) PROVE Keeps(a, R, u)
    <2>1. u.node = s.node /\ u.ind = s.ind /\ u.free \subseteq s.free /\ u \in Transfers
      BY <1>1, <1>4 DEF RunsOut, Transfers
    <2> QED BY <2>1 DEF Keeps, Ready, PtrOf
  <1>5. ASSUME NEW t, Keeps(a, R, t), NEW k \in Slots, t.block = PtrOf(t, k), t.block # None,
               t.left = s.left, t.ptr = s.ptr, ~ Over(s), u = Moved(s, t)
        PROVE  Keeps(a, R, u)
    BY <1>1, <1>5, MovedKeeps DEF MovesTo
  <1>6. ASSUME NEW b \in s.free, NEW t, Allocates(s, t, b), ~ Over(s), Adds(s, t, u)
        PROVE  Keeps(a, R, u)
    <2>1. Keeps(a, R, t)
      BY <1>6, AllocationKeeps
    <2>2. PICK k \in Slots : PtrOf(t, k) = b
      BY <1>6 DEF Allocates
    <2>3. t.block = b /\ t.left = s.left /\ t.ptr = s.ptr /\ b # None
      BY <1>1, <1>6, BlockNumbers DEF Allocates, Transfers
    <2>4. u = Moved(s, t) => Keeps(a, R, u)
      BY <1>5, <1>6, <2>1, <2>2, <2>3
    <2>5. u = [t EXCEPT !.block = Garbage] => Keeps(a, R, u)
      BY <1>3, <2>1, BlockNumbers
    <2> QED BY <1>6, <2>4, <2>5 DEF Adds
  <1>7. ASSUME ~ Over(s), SlotAt(s) \in Slots, PtrOf(s, SlotAt(s)) # None,
               u = Moved(s, [s EXCEPT !.block = PtrOf(s, SlotAt(s))])
        PROVE  Keeps(a, R, u)
    <2> DEFINE t == [s EXCEPT !.block = PtrOf(s, SlotAt(s))]
    <2>1. PtrOf(s, SlotAt(s)) \in Int
      BY <1>1, <1>7, PtrType, BlockNumbers DEF PtrOf, Transfers
    <2>2. t.node = s.node /\ t.ind = s.ind /\ t.left = s.left /\ t.ptr = s.ptr
      BY <1>1 DEF Transfers
    <2>3. Keeps(a, R, t) /\ t.block = PtrOf(s, SlotAt(s))
      BY <1>3, <2>1
    <2>4. t.block = PtrOf(t, SlotAt(s)) /\ t.block # None
      BY <1>7, <2>2, <2>3 DEF PtrOf
    <2> HIDE DEF t
    <2> QED BY <1>5, <1>7, <2>2, <2>3, <2>4 DEF t
  <1>8. None \in Int /\ Garbage \in Int
    BY BlockNumbers
  <1> QED BY <1>2, <1>3, <1>4, <1>6, <1>7, <1>8 DEF u

(* Wherever a write starts, it counts what it has written: the position     *)
(* moves on by the bytes that are not left any more, and the size follows   *)
(* it.                                                                      *)
Counts(a, s) ==
    /\ s.ptr + s.left = a.ptr + a.left /\ a.ptr <= s.ptr
    /\ s.node.size = IF s.ptr = a.ptr THEN a.node.size ELSE Larger(a.node.size, s.ptr)

LEMMA WriteChunkCounts ==
    ASSUME NEW a \in Transfers, a.node.size \in Nat, NEW R, a.free \cap R = {},
           NEW s, Keeps(a, R, s), Counts(a, s), disk_ready
    PROVE  Counts(a, WriteChunk(s))
  <1> DEFINE u == WriteChunk(s)
             n == ChunkLength(s)
  <1>1. Ready(s) /\ s \in Transfers /\ s.node.size \in Nat
    BY DEF Keeps, Ready
  <1>2. \/ Over(s) /\ u = s
        \/ ~ Over(s) /\ should_add_new(s) /\ RunsOut(s, u)
        \/ /\ ~ Over(s) /\ ~ should_add_new(s)
           /\ \E x \in {None, Garbage} : u = [s EXCEPT !.block = x]
        \/ ~ Over(s) /\ should_add_new(s) /\ \E b \in s.free : \E t :
              Allocates(s, t, b) /\ Adds(s, t, u)
        \/ /\ ~ Over(s) /\ ~ should_add_new(s)
           /\ SlotAt(s) \in Slots /\ PtrOf(s, SlotAt(s)) # None
           /\ u = Moved(s, [s EXCEPT !.block = PtrOf(s, SlotAt(s))])
    BY <1>1, WriteChunkIs
  <1> HIDE DEF u, n
  <1>3. ASSUME u.ptr = s.ptr, u.left = s.left, u.node.size = s.node.size
        PROVE  Counts(a, u)
    BY <1>3 DEF Counts
  <1>4. ASSUME NEW x, u = [s EXCEPT !.block = x] PROVE Counts(a, u)
    BY <1>1, <1>3, <1>4 DEF Transfers
  <1>5. ASSUME RunsOut(s, u) PROVE Counts(a, u)
    BY <1>1, <1>3, <1>5 DEF RunsOut, Transfers
  <1>6. ASSUME NEW t, Keeps(a, R, t), NEW k \in Slots, t.block = PtrOf(t, k), t.block # None,
               t.left = s.left, t.ptr = s.ptr, t.node.size = s.node.size,
               ~ Over(s), u = Moved(s, t)
        PROVE  Counts(a, u)
    <2>1. MovesTo(a, R, s, t, u)
      BY <1>1, <1>6, MovedKeeps
    <2>2. u.ptr = s.ptr + n /\ u.left = s.left - n /\ u.node.size = Larger(s.node.size, s.ptr + n)
      BY <1>6, <2>1 DEF MovesTo, n
    <2>3. n \in Nat \ {0} /\ n <= s.left
      BY <1>1, <1>6, ChunkLengthIs DEF n
    <2>4. s.ptr \in Int /\ s.left \in Nat /\ a.ptr \in Int /\ a.left \in Nat
      BY <1>1 DEF Transfers
    <2> QED BY <1>1, <2>2, <2>3, <2>4 DEF Counts, Larger
  <1>7. ASSUME NEW b \in s.free, NEW t, Allocates(s, t, b), ~ Over(s), Adds(s, t, u)
        PROVE  Counts(a, u)
    <2>1. Keeps(a, R, t)
      BY <1>7, AllocationKeeps
    <2>2. PICK k \in Slots : PtrOf(t, k) = b
      BY <1>7 DEF Allocates
    <2>3. t.block = b /\ t.left = s.left /\ t.ptr = s.ptr /\ t.node.size = s.node.size /\ b # None
      BY <1>1, <1>7, BlockNumbers DEF Allocates, Transfers
    <2>4. u = Moved(s, t) => Counts(a, u)
      BY <1>6, <1>7, <2>1, <2>2, <2>3
    <2>5. u = [t EXCEPT !.block = Garbage] => Counts(a, u)
      <3>1. t \in Transfers
        BY <1>7 DEF Allocates
      <3> QED BY <1>3, <2>3, <3>1 DEF Transfers
    <2> QED BY <1>7, <2>4, <2>5 DEF Adds
  <1>8. ASSUME ~ Over(s), SlotAt(s) \in Slots, PtrOf(s, SlotAt(s)) # None,
               u = Moved(s, [s EXCEPT !.block = PtrOf(s, SlotAt(s))])
        PROVE  Counts(a, u)
    <2> DEFINE t == [s EXCEPT !.block = PtrOf(s, SlotAt(s))]
    <2>1. PtrOf(s, SlotAt(s)) \in Int
      BY <1>1, <1>8, PtrType, BlockNumbers DEF PtrOf, Transfers
    <2>2. /\ t.node = s.node /\ t.ind = s.ind /\ t.left = s.left /\ t.ptr = s.ptr
          /\ t.free = s.free /\ t.block = PtrOf(s, SlotAt(s)) /\ t \in Transfers
      BY <1>1, <2>1 DEF Transfers
    <2> HIDE DEF t
    <2>3. Keeps(a, R, t) /\ t.block = PtrOf(t, SlotAt(s)) /\ t.block # None
      BY <1>8, <2>2 DEF Keeps, Ready, PtrOf
    <2> QED BY <1>6, <1>8, <2>2, <2>3 DEF t
  <1>9. Over(s) /\ u = s => Counts(a, u)
    BY <1>3
  <1> QED BY <1>2, <1>4, <1>5, <1>7, <1>8, <1>9 DEF u

(* A transfer that starts inside the file stays inside it, and always finds *)
(* its blocks.                                                              *)
Inside(a, s) ==
    /\ Mapped(s.node, s.ind) /\ s.ptr \in 0 .. s.node.size
    /\ s.block # Garbage
    /\ s.ptr + s.left = a.ptr + a.left /\ a.ptr <= s.ptr
    /\ s.node.size = Larger(a.node.size, s.ptr)

LEMMA WriteChunkInside ==
    ASSUME NEW a \in Transfers, NEW R, a.free \cap R = {},
           NEW s, Keeps(a, R, s), Inside(a, s), disk_ready
    PROVE  Inside(a, WriteChunk(s))
  <1> DEFINE u == WriteChunk(s)
             q == SlotAt(s)
             e == s.ptr + ChunkLength(s)
             z == Larger(s.node.size, e)
  <1>1. /\ Ready(s) /\ s \in Transfers /\ s.node \in INode /\ s.node.size \in Nat
        /\ s.ptr \in Nat /\ s.left \in Nat /\ a.ptr \in Int /\ a.node.size \in Int /\ a.left \in Nat
    BY DEF Keeps, Ready, Transfers, INode, Inside
  <1>2. /\ Mapped(s.node, s.ind) /\ s.ptr <= s.node.size
        /\ \A k \in Slots : PtrOf(s, k) # None <=> Offset(k) < s.node.size
        /\ s.node.size <= Offset(DIRECT_PTR_NUM + POINTERS)
    BY <1>1 DEF Inside, Mapped, PtrOf
  <1>3. CASE Over(s)
    BY <1>3 DEF WriteChunk
  <1>4. ASSUME ~ Over(s)
        PROVE  /\ q \in Nat /\ Offset(q) \in Nat /\ Offset(q) <= s.ptr
               /\ Offset(q) < e /\ e <= Offset(q + 1) /\ e \in Nat
               /\ Offset(q + 1) \in Nat
               /\ should_add_new(s) => s.node.size = Offset(q)
               /\ ~ should_add_new(s) => Offset(q) < s.node.size
    <2>1. e \in Nat
      BY <1>1, <1>4, ChunkLengthIs
    <2>2. /\ q \in Nat /\ Offset(q) \in Nat /\ Offset(q) <= s.ptr
          /\ Offset(q) < e /\ e <= Offset(q + 1) /\ Offset(q + 1) \in Nat
          /\ s.ptr % BLOCK_SIZE = 0 <=> s.ptr = Offset(q)
      BY <1>1, <1>4, ChunkPlace
    <2> HIDE DEF q, e
    <2>3. should_add_new(s) <=> s.ptr = Offset(q) /\ s.ptr = s.node.size
      BY <1>1, <1>2, <2>2 DEF should_add_new
    <2> QED BY <1>1, <1>2, <2>1, <2>2, <2>3
  <1>5. ASSUME NEW v, ~ Over(s), q \in Slots, v \in Transfers, v.block # Garbage,
               \A k \in Slots : PtrOf(v, k) # None <=> Offset(k) < z,
               v.ptr = e, v.left = s.left - ChunkLength(s), v.node.size = z
        PROVE  Inside(a, v)
    <2>1. ChunkLength(s) \in Nat /\ e \in Nat /\ e = s.ptr + ChunkLength(s)
      BY <1>1, <1>5, ChunkLengthIs
    <2>2. e <= Offset(DIRECT_PTR_NUM + POINTERS)
          /\ Offset(DIRECT_PTR_NUM + POINTERS) \in Nat
      <3>1. /\ q \in Nat /\ e <= Offset(q + 1) /\ Offset(q + 1) \in Nat
        BY <1>4, <1>5
      <3> HIDE DEF q, e
      <3>2. /\ Offset(q + 1) <= Offset(DIRECT_PTR_NUM + POINTERS)
            /\ Offset(DIRECT_PTR_NUM + POINTERS) \in Nat
        BY <1>5, <3>1, SlotBound
      <3> QED BY <2>1, <3>1, <3>2 DEF e
    <2> HIDE DEF q, e
    <2>3. z \in Nat /\ e <= z /\ z <= Offset(DIRECT_PTR_NUM + POINTERS)
      BY <1>1, <1>2, <2>1, <2>2 DEF Larger
    <2>4. z = Larger(a.node.size, e)
      BY <1>1, <1>2, <2>1 DEF Inside, Larger
    <2>5. e + (s.left - ChunkLength(s)) = a.ptr + a.left /\ a.ptr <= e
      BY <1>1, <2>1 DEF Inside
    <2> HIDE DEF z
    <2>6. Mapped(v.node, v.ind)
      BY <1>5, <2>2, <2>3 DEF Mapped, PtrOf
    <2> QED BY <1>5, <2>1, <2>3, <2>4, <2>5, <2>6 DEF Inside
  <1>6. ASSUME ~ Over(s), should_add_new(s), RunsOut(s, u)
        PROVE  Inside(a, u)
    <2>1. u.node = s.node /\ u.ind = s.ind /\ u.ptr = s.ptr /\ u.left = s.left /\ u.block = None
      <3> HIDE DEF u
      <3> QED BY <1>1, <1>6 DEF RunsOut, Transfers
    <2> HIDE DEF u
    <2> QED BY <2>1, BlockNumbers DEF Inside
  <1>7. ASSUME ~ Over(s), ~ should_add_new(s)
        PROVE  q \in Slots /\ PtrOf(s, q) # None
    <2>1. q \in Nat /\ Offset(q) < s.node.size /\ Offset(q) \in Nat
      BY <1>4, <1>7
    <2> HIDE DEF q
    <2>2. q \in Slots
      BY <1>1, <1>2, <2>1, SlotBound
    <2> QED BY <1>2, <2>1, <2>2
  <1>10. ASSUME ~ Over(s), should_add_new(s), NEW v \in Slots, PtrOf(s, v) = None,
                \A k \in Slots : k < v => PtrOf(s, k) # None
         PROVE  v = q
    <2>1. q \in Nat /\ s.node.size = Offset(q) /\ Offset(q) \in Nat
      BY <1>4, <1>10
    <2> HIDE DEF q
    <2>2. v \in Nat /\ \A k \in Nat : k < v => k \in Slots
      BY SfsAssumption DEF Slots
    <2>3. ~ (v < q)
      BY <1>2, <1>10, <2>1, <2>2, OffsetOrder
    <2>4. ~ (q < v)
      <3>1. SUFFICES ASSUME q < v PROVE FALSE
        OBVIOUS
      <3>2. q \in Slots /\ PtrOf(s, q) # None
        BY <1>10, <2>1, <2>2, <3>1
      <3> QED BY <1>1, <1>2, <2>1, <3>2
    <2> QED BY <2>1, <2>2, <2>3, <2>4
  <1>11. ASSUME ~ Over(s), should_add_new(s), NEW b, NEW t, Allocates(s, t, b)
         PROVE  ~ Overflows(s)
    <2>1. PICK v \in Slots : /\ PtrOf(s, v) = None
                             /\ \A k \in Slots : k < v => PtrOf(s, k) # None
      BY <1>11 DEF Allocates
    <2>2. q \in Slots
      BY <1>10, <1>11, <2>1
    <2>3. s.ptr + ChunkLength(s) < IntLimit /\ s.ptr + ChunkLength(s) \in Nat /\ IntLimit \in Nat
      BY <1>1, <1>11, <2>2, SlotFits, ChunkLengthIs, SfsAssumption
    <2> QED BY <2>3 DEF Overflows
  <1>8. ASSUME ~ Over(s), should_add_new(s), NEW b \in s.free, NEW t,
               Allocates(s, t, b), u = Moved(s, t)
        PROVE  Inside(a, u)
    <2>1. Keeps(a, R, t)
      BY <1>8, AllocationKeeps
    <2>2. PICK v \in Slots :
              /\ PtrOf(s, v) = None
              /\ \A k \in Slots : k < v => PtrOf(s, k) # None
              /\ \A k \in Slots : PtrOf(t, k) = IF k = v THEN b ELSE PtrOf(s, k)
      BY <1>8 DEF Allocates
    <2>3. /\ t.block = b /\ t.left = s.left /\ t.ptr = s.ptr /\ t.node.size = s.node.size
          /\ b # None /\ b # Garbage
      BY <1>1, <1>8, BlockNumbers DEF Allocates, Transfers
    <2>4. /\ Keeps(a, R, u) /\ \A j \in Slots : PtrOf(u, j) = PtrOf(t, j)
          /\ u.ptr = e /\ u.left = s.left - ChunkLength(s)
          /\ u.node.size = z /\ u.block = b
      <3>1. t.block = PtrOf(t, v) /\ t.block # None
        BY <2>2, <2>3
      <3>2. MovesTo(a, R, s, t, Moved(s, t))
        BY <1>1, <1>8, <2>1, <2>2, <2>3, <3>1, MovedKeeps
      <3> HIDE DEF u
      <3> QED BY <1>8, <2>3, <3>2 DEF MovesTo
    <2>5. /\ q \in Nat /\ s.node.size = Offset(q) /\ Offset(q) < e
          /\ e <= Offset(q + 1) /\ z = e /\ e \in Nat /\ Offset(q + 1) \in Nat
      <3>1. /\ q \in Nat /\ s.node.size = Offset(q) /\ Offset(q) < e
            /\ e <= Offset(q + 1) /\ e \in Nat /\ Offset(q + 1) \in Nat
        BY <1>4, <1>8
      <3> QED BY <1>1, <3>1 DEF Larger
    <2>6. v = q
      BY <1>8, <1>10, <2>2
    <2> HIDE DEF u, q, e, z
    <2>7. ASSUME NEW k \in Slots
          PROVE  PtrOf(u, k) # None <=> Offset(k) < z
      <3>1. k \in Nat
        BY SlotIs
      <3>2. k <= q => Offset(k) <= Offset(q)
        BY <2>5, <3>1, OffsetOrder
      <3>3. q < k => Offset(q + 1) <= Offset(k)
        BY <2>5, <3>1, OffsetOrder
      <3>4. k < q <=> Offset(k) < s.node.size
        BY <2>5, <3>1, OffsetOrder
      <3>5. PtrOf(u, k) # None <=> k = q \/ k < q
        BY <1>2, <2>2, <2>3, <2>4, <2>6, <3>4
      <3>6. Offset(k) \in Nat
        BY <3>1, OffsetOrder
      <3> QED BY <1>1, <2>5, <3>1, <3>2, <3>3, <3>5, <3>6
    <2>8. u \in Transfers
      BY <2>4 DEF Keeps, Ready
    <2> QED BY <1>5, <1>8, <2>3, <2>4, <2>6, <2>7, <2>8
  <1>9. ASSUME ~ Over(s), ~ should_add_new(s),
               u = Moved(s, [s EXCEPT !.block = PtrOf(s, SlotAt(s))])
        PROVE  Inside(a, u)
    <2> DEFINE t == [s EXCEPT !.block = PtrOf(s, SlotAt(s))]
    <2>1. q \in Slots /\ PtrOf(s, q) # None
      BY <1>7, <1>9
    <2>2. PtrOf(s, q) \in Blocks
      BY <1>1, <2>1, PtrType DEF PtrOf, Transfers
    <2>3. /\ t \in Transfers /\ t.node = s.node /\ t.ind = s.ind /\ t.free = s.free
          /\ t.left = s.left /\ t.ptr = s.ptr /\ t.block = PtrOf(s, q)
      <3>1. PtrOf(s, q) \in Int
        BY <2>2, BlockNumbers
      <3> QED BY <1>1, <3>1 DEF Transfers
    <2> HIDE DEF t, q, e, z
    <2>4. Keeps(a, R, t) /\ \A k \in Slots : PtrOf(t, k) = PtrOf(s, k)
      BY <2>3 DEF Keeps, Ready, PtrOf
    <2>5. MovesTo(a, R, s, t, Moved(s, t))
      BY <1>1, <1>9, <2>1, <2>3, <2>4, MovedKeeps
    <2>6. /\ Keeps(a, R, u) /\ \A j \in Slots : PtrOf(u, j) = PtrOf(s, j)
          /\ u.ptr = e /\ u.left = s.left - ChunkLength(s)
          /\ u.node.size = z /\ u.block = PtrOf(s, q)
      <3>1. u = Moved(s, t)
        BY <1>9 DEF t, q
      <3> HIDE DEF u
      <3> QED BY <2>3, <2>4, <2>5, <3>1 DEF MovesTo, e, z
    <2>7. /\ q \in Nat /\ Offset(q) < s.node.size /\ Offset(q) \in Nat
          /\ e <= Offset(q + 1) /\ e \in Nat /\ Offset(q + 1) \in Nat
      BY <1>4, <1>9 DEF q, e
    <2> HIDE DEF u
    <2>8. ASSUME NEW k \in Slots
          PROVE  PtrOf(u, k) # None <=> Offset(k) < z
      <3>1. k \in Nat
        BY SlotIs
      <3>2. Offset(k) \in Nat /\ (q < k => Offset(q + 1) <= Offset(k))
            /\ (~ (q < k) => Offset(k) <= Offset(q))
        BY <2>7, <3>1, OffsetOrder
      <3>3. PtrOf(u, k) # None <=> Offset(k) < s.node.size
        BY <1>2, <2>6
      <3>4. z = s.node.size \/ (z = e /\ s.node.size < e)
        BY <1>1, <2>7 DEF z, Larger
      <3> QED BY <1>1, <2>7, <3>1, <3>2, <3>3, <3>4
    <2>9. u \in Transfers /\ u.block # Garbage
      BY <2>2, <2>6, BlockNumbers DEF Keeps, Ready
    <2> QED BY <1>5, <1>9, <2>1, <2>6, <2>8, <2>9 DEF q, e, z, u
  <1>12. ASSUME ~ Over(s), should_add_new(s), NEW b \in s.free, NEW t,
                Allocates(s, t, b), Adds(s, t, u)
         PROVE  Inside(a, u)
    BY <1>8, <1>11, <1>12 DEF Adds
  <1> QED BY <1>1, <1>3, <1>6, <1>7, <1>9, <1>12, WriteChunkIs

(* A read changes nothing but the position; it too finds its blocks.        *)
ReadsOnly(a, s) ==
    /\ s \in Transfers
    /\ s.node = a.node /\ s.free = a.free /\ s.ind = a.ind /\ s.left <= a.left

LEMMA ReadChunkReads ==
    ASSUME NEW a \in Transfers, a.node.size \in Nat, NEW s, ReadsOnly(a, s), disk_ready
    PROVE  /\ ReadsOnly(a, ReadChunk(s))
           /\ Inside(a, s) => Inside(a, ReadChunk(s))
           /\ Inside(a, s) /\ s.block # None =>
                 /\ ReadChunk(s).block # None
                 /\ \/ ReadChunk(s) = s /\ (s.left = 0 \/ s.ptr = s.node.size)
                    \/ ReadChunk(s).left < s.left /\ s.ptr < s.node.size
  <1> DEFINE x == BlockAt(s.node, s.ind, s.ptr)
             b == IF s.ptr >= s.node.size THEN None ELSE x
             n == Smaller(ChunkLength(s), s.node.size - s.ptr)
             u == ReadChunk(s)
  <1>1. /\ s \in Transfers /\ s.node \in INode /\ s.ind \in Contents /\ s.node.size \in Nat
        /\ s.ptr \in Int /\ s.left \in Nat /\ a.ptr \in Int /\ a.left \in Nat
        /\ s.node = a.node
    BY DEF ReadsOnly, Transfers
  <1>2. u = IF Over(s) \/ s.ptr = s.node.size THEN s
            ELSE IF b \in {None, Garbage} THEN [s EXCEPT !.block = b]
            ELSE [s EXCEPT !.ptr = @ + n, !.left = @ - n, !.block = b]
    BY DEF ReadChunk, ChunkLength
  <1> HIDE DEF u
  <1>3. CASE Over(s) \/ s.ptr = s.node.size
    BY <1>1, <1>2, <1>3 DEF u, Over, Inside
  <1>4. \/ SlotAt(s) \in Slots /\ x = PtrOf(s, SlotAt(s))
        \/ x \in {None, Garbage} /\ (SlotAt(s) \in Slots => PtrOf(s, SlotAt(s)) = None)
    BY <1>1, BlockAtIs DEF SlotAt
  <1>5. x \in Int
    <2>1. SlotAt(s) \in Slots => PtrOf(s, SlotAt(s)) \in Blocks \cup {None}
      BY <1>1, PtrType DEF PtrOf
    <2> HIDE DEF x
    <2>2. x = Garbage \/ x = None \/ x \in Blocks
      BY <1>4, <2>1
    <2>3. Blocks \subseteq Int
      BY BlockNumbers
    <2> QED BY <2>2, <2>3, BlockNumbers, Zenon
  <1>6. ASSUME ~ Over(s), s.ptr < s.node.size, Inside(a, s)
        PROVE  x \notin {None, Garbage}
    <2> DEFINE q == SlotAt(s)
    <2>1. q \in Nat /\ Offset(q) <= s.ptr /\ Offset(q) \in Nat
      <3>1. s.ptr \in Nat
        BY <1>1, <1>6 DEF Inside
      <3> QED BY <1>1, <1>6, <3>1, ChunkPlace
    <2> HIDE DEF q, x
    <2>2. /\ Offset(q) < s.node.size /\ s.node.size <= Offset(DIRECT_PTR_NUM + POINTERS)
          /\ Offset(DIRECT_PTR_NUM + POINTERS) \in Nat
      BY <1>1, <1>6, <2>1, SlotBound DEF Inside, Mapped
    <2>3. q \in Slots
      BY <1>1, <2>1, <2>2, SlotBound
    <2>4. PtrOf(s, q) # None
      BY <1>6, <2>2, <2>3 DEF Inside, Mapped, PtrOf
    <2>5. PtrOf(s, q) \in Blocks \cup {None}
      BY <1>1, <2>3, PtrType DEF PtrOf
    <2> QED BY <1>4, <2>3, <2>4, <2>5, BlockNumbers DEF q
  <1>7. CASE ~ Over(s) /\ s.ptr # s.node.size /\ b \in {None, Garbage}
    <2>1. u = [s EXCEPT !.block = b] /\ b \in Int
      BY <1>2, <1>7, BlockNumbers
    <2>2. ReadsOnly(a, u)
      BY <1>1, <2>1 DEF ReadsOnly, Transfers
    <2>3. ~ Inside(a, s)
      <3>1. SUFFICES ASSUME Inside(a, s) PROVE FALSE
        OBVIOUS
      <3>2. s.ptr < s.node.size
        BY <1>1, <1>7, <3>1 DEF Inside
      <3> QED BY <1>1, <1>6, <1>7, <3>1, <3>2
    <2> QED BY <2>2, <2>3 DEF u
  <1>8. CASE ~ Over(s) /\ s.ptr # s.node.size /\ b \notin {None, Garbage}
    <2>1. s.ptr < s.node.size /\ b = x
      BY <1>1, <1>8
    <2>2. ChunkLength(s) \in Nat \ {0} /\ ChunkLength(s) <= s.left
      BY <1>1, <1>8, ChunkLengthIs
    <2>3. n \in Nat \ {0} /\ n <= s.left /\ s.ptr + n <= s.node.size
      BY <1>1, <2>1, <2>2 DEF Smaller
    <2>4. u = [s EXCEPT !.ptr = @ + n, !.left = @ - n, !.block = b] /\ b \in Int
      BY <1>2, <1>5, <1>8, <2>1
    <2> HIDE DEF n, b, x
    <2>5. /\ u.ptr = s.ptr + n /\ u.left = s.left - n /\ u.block = b
          /\ u.node = s.node /\ u.free = s.free /\ u.ind = s.ind /\ u \in Transfers
      <3>1. s.ptr + n \in Int /\ s.left - n \in Nat
        BY <1>1, <2>3
      <3> QED BY <1>1, <2>4, <3>1 DEF Transfers
    <2>6. ReadsOnly(a, u)
      BY <1>1, <2>3, <2>5 DEF ReadsOnly
    <2>7. Inside(a, s) => Inside(a, u)
      BY <1>1, <1>8, <2>3, <2>5 DEF Inside, Larger
    <2>8. u.block # None /\ u.left < s.left /\ s.ptr < s.node.size
      BY <1>1, <1>8, <2>1, <2>3, <2>5
    <2> QED BY <2>6, <2>7, <2>8 DEF u
  <1> QED BY <1>3, <1>7, <1>8

-----------------------------------------------------------------------------
(* A whole write and a whole read.                                          *)
LEMMA WriteKeeps ==
    ASSUME NEW f, NEW length \in Nat, NEW R, disk_ready,
           Keeps(Start(f, length), R, Start(f, length)), free_bitmap \cap R = {}
    PROVE  LET a == Start(f, length)
               s == sfs_fwrite_recursive(f, length)
           IN  Keeps(a, R, s) /\ (Inside(a, a) => Inside(a, s))
  <1> DEFINE a == Start(f, length)
             S == {s \in Transfers : Keeps(a, R, s)}
             T == {s \in Transfers : Keeps(a, R, s) /\ Inside(a, s)}
  <1>1. a.free \cap R = {} /\ a \in Transfers
    BY DEF Start, Keeps, Ready
  <1> HIDE DEF a
  <1>2. ASSUME NEW s \in S PROVE WriteChunk(s) \in S
    <2>1. Keeps(a, R, s)
      OBVIOUS
    <2>2. Keeps(a, R, WriteChunk(s))
      BY <1>1, <2>1, WriteChunkKeeps
    <2> QED BY <2>2 DEF Keeps, Ready
  <1>3. ASSUME NEW s \in T PROVE WriteChunk(s) \in T
    <2>1. Keeps(a, R, s) /\ Inside(a, s)
      OBVIOUS
    <2>2. Keeps(a, R, WriteChunk(s))
      BY <1>1, <2>1, WriteChunkKeeps
    <2>3. Inside(a, WriteChunk(s))
      BY <1>1, <2>1, WriteChunkInside
    <2> QED BY <2>2, <2>3 DEF Keeps, Ready
  <1>4. a \in S /\ (Inside(a, a) => a \in T)
    BY <1>1 DEF a
  <1> HIDE DEF S, T
  <1>5. sfs_fwrite_recursive(f, length) \in S
    BY <1>2, <1>4, WriteInduction DEF a
  <1>6. a \in T => sfs_fwrite_recursive(f, length) \in T
    BY <1>3, WriteInduction DEF a
  <1> QED BY <1>4, <1>5, <1>6 DEF S, T, a

LEMMA WriteCounts ==
    ASSUME NEW f, NEW length \in Nat, NEW R, disk_ready,
           Keeps(Start(f, length), R, Start(f, length)), free_bitmap \cap R = {}
    PROVE  Counts(Start(f, length), sfs_fwrite_recursive(f, length))
  <1> DEFINE a == Start(f, length)
             S == {s \in Transfers : Keeps(a, R, s) /\ Counts(a, s)}
  <1>1. a.free \cap R = {} /\ a \in Transfers /\ a.node.size \in Nat /\ Keeps(a, R, a)
    BY DEF Start, Keeps, Ready
  <1> HIDE DEF a
  <1>2. ASSUME NEW s \in S PROVE WriteChunk(s) \in S
    <2>1. Keeps(a, R, s) /\ Counts(a, s)
      OBVIOUS
    <2>2. Keeps(a, R, WriteChunk(s))
      BY <1>1, <2>1, WriteChunkKeeps
    <2>3. Counts(a, WriteChunk(s))
      BY <1>1, <2>1, WriteChunkCounts
    <2> QED BY <2>2, <2>3 DEF Keeps, Ready
  <1>3. a \in S
    BY <1>1 DEF Counts, Transfers
  <1> HIDE DEF S
  <1>4. sfs_fwrite_recursive(f, length) \in S
    BY <1>2, <1>3, WriteInduction DEF a
  <1> QED BY <1>4 DEF S, a

LEMMA ReadKeeps ==
    ASSUME NEW f, NEW length \in Nat, disk_ready,
           Start(f, length) \in Transfers, Start(f, length).node.size \in Nat
    PROVE  LET a == Start(f, length)
               s == sfs_fread_recursive(f, length)
           IN  ReadsOnly(a, s) /\ (Inside(a, a) => Inside(a, s))
  <1> DEFINE a == Start(f, length)
             S == {s \in Transfers : ReadsOnly(a, s)}
             T == {s \in Transfers : ReadsOnly(a, s) /\ Inside(a, s)}
  <1> HIDE DEF a
  <1>1. a \in Transfers /\ a.node.size \in Nat
    BY DEF a
  <1>2. ReadsOnly(a, a)
    BY <1>1 DEF ReadsOnly, Transfers
  <1>3. ASSUME NEW s \in S PROVE ReadChunk(s) \in S
    BY <1>1, ReadChunkReads DEF ReadsOnly
  <1>4. ASSUME NEW s \in T PROVE ReadChunk(s) \in T
    BY <1>1, ReadChunkReads DEF ReadsOnly
  <1>5. a \in S /\ (Inside(a, a) => a \in T)
    BY <1>1, <1>2
  <1> HIDE DEF S, T
  <1>6. sfs_fread_recursive(f, length) \in S
    BY <1>3, <1>5, ReadInduction DEF a
  <1>7. a \in T => sfs_fread_recursive(f, length) \in T
    BY <1>4, ReadInduction DEF a
  <1> QED BY <1>5, <1>6, <1>7 DEF S, T, a

(* A read ends when it has all it was asked for, or is at the end of the    *)
(* file: each level moves at least a byte.                                  *)
LEMMA ReadDone ==
    ASSUME NEW f, NEW length \in Nat, disk_ready,
           Start(f, length) \in Transfers, Start(f, length).node.size \in Nat,
           Inside(Start(f, length), Start(f, length))
    PROVE  LET s == sfs_fread_recursive(f, length)
           IN  s.left = 0 \/ s.ptr = s.node.size
  <1> DEFINE a == Start(f, length)
             Goes(n, s) == /\ ReadsOnly(a, s) /\ Inside(a, s) /\ s.block # None
                           /\ s.left = 0 \/ s.ptr = s.node.size \/ s.left + n <= length
             S == {s \in Transfers : ReadsOnly(a, s)}
             P == {p \in Nat \X Transfers : Goes(p[1], p[2])}
  <1>1. a.left = length /\ a.block = 0 /\ ReadsOnly(a, a)
    BY DEF Start, ReadsOnly
  <1> HIDE DEF a
  <1>2. a \in Transfers /\ a.node.size \in Nat /\ Inside(a, a)
    BY DEF a
  <1>3. a \in S /\ \A s \in S : ReadChunk(s) \in S
    BY <1>1, <1>2, ReadChunkReads DEF ReadsOnly
  <1>4. PICK level : /\ level[0] = a
                     /\ \A n \in 1 .. length : level[n] = ReadChunk(level[n - 1])
                     /\ sfs_fread_recursive(f, length) = level[length]
    <2> HIDE DEF S
    <2> QED BY <1>3, ReadLevels DEF a
  <1> DEFINE h == [n \in 0 .. length |-> <<n, level[n]>>]
  <1>5. h[0] \in P
    <2>1. a.block # None /\ a.left + 0 <= length
      BY <1>1 DEF None
    <2> QED BY <1>1, <1>2, <1>4, <2>1
  <1>6. ASSUME NEW n \in 1 .. length, h[n - 1] \in P PROVE h[n] \in P
    <2> DEFINE s == level[n - 1]
               u == ReadChunk(s)
    <2>1. n \in Nat /\ n - 1 \in 0 .. length /\ n - 1 \in Nat
      OBVIOUS
    <2>2. h[n - 1] = <<n - 1, s>> /\ h[n] = <<n, u>>
      BY <1>4, <2>1
    <2>3. s \in Transfers /\ Goes(n - 1, s)
      BY <1>6, <2>2
    <2> HIDE DEF h, s, u, Goes
    <2>4. /\ ReadsOnly(a, u) /\ Inside(a, u) /\ u.block # None /\ u \in Transfers
          /\ \/ u = s /\ (s.left = 0 \/ s.ptr = s.node.size)
             \/ u.left < s.left /\ s.ptr < s.node.size
          /\ s.left = 0 \/ s.ptr = s.node.size \/ s.left + (n - 1) <= length
      BY <1>2, <2>3, ReadChunkReads DEF ReadsOnly, Goes, u
    <2>5. s.left \in Nat /\ u.left \in Nat /\ s.ptr \in Int /\ u.ptr \in Int
          /\ u.node = s.node /\ s.node.size \in Nat
      BY <1>2, <2>3, <2>4 DEF Transfers, ReadsOnly, Goes
    <2>6. u.left = 0 \/ u.ptr = u.node.size \/ u.left + n <= length
      <3>1. CASE u = s /\ (s.left = 0 \/ s.ptr = s.node.size)
        BY <3>1
      <3>2. CASE u.left < s.left
        <4>1. CASE s.left = 0
          BY <2>5, <3>2, <4>1
        <4>2. CASE s.ptr = s.node.size
          BY <2>4, <2>5, <3>2, <4>2
        <4>3. CASE s.left + (n - 1) <= length
          BY <2>1, <2>5, <3>2, <4>3
        <4> QED BY <2>4, <4>1, <4>2, <4>3
      <3> QED BY <2>4, <3>1, <3>2
    <2> QED BY <2>1, <2>2, <2>4, <2>6 DEF Goes
  <1>7. h[length] \in P
    <2> HIDE DEF h, P
    <2> QED BY <1>5, <1>6, LevelsStay
  <1>8. h[length] = <<length, level[length]>>
    OBVIOUS
  <1>9. level[length] \in Transfers /\ Goes(length, level[length])
    <2> HIDE DEF h, Goes
    <2> QED BY <1>7, <1>8
  <1>10. level[length].left \in Nat
    BY <1>9 DEF Transfers
  <1> QED BY <1>4, <1>9, <1>10

-----------------------------------------------------------------------------
(* The tables' indices, and what the searches find in them.                 *)
LEMMA Indices ==
    /\ Entries \subseteq Nat /\ INodes \subseteq Nat /\ 0 \in INodes
    /\ NUM_OF_FILES - 1 \in Entries /\ NUM_OF_FILES \in Nat \ {0}
    /\ \A i \in Entries : i <= NUM_OF_FILES - 1
    /\ 0 .. SavedEntries - 1 \subseteq Entries
    /\ \A i \in Entries : i < SavedEntries <=> i \in 0 .. SavedEntries - 1
    /\ None \notin Entries /\ None \notin INodes /\ None \in Int
    /\ \A i \in Entries : i + 1 \in Entries \cup {NUM_OF_FILES}
  BY SfsAssumption DEF Entries, INodes, NUM_OF_FILES, None

(* Every file may be one whose removal was cut short.                       *)
LEMMA WithoutRemoval ==
    ASSUME NEW X
    PROVE  /\ Directory => DirectoryBut(X)
           /\ Storage => StorageBut(X)
           /\ SfsInv => InvBut(X)
  <1>1. (Directory => DirectoryBut(X)) /\ (Storage => StorageBut(X))
    BY DEF Directory, DirectoryBut, Storage, StorageBut
  <1> QED BY <1>1 DEF SfsInv, InvBut

LEMMA FileFoundBut ==
    ASSUME NEW X, DirectoryBut(X), NEW name, does_file_exist(name)
    PROVE  /\ get_file(name) \in Occupied /\ get_file(name) # None
           /\ root_dir_table[get_file(name)].file_name = name
           /\ \A i \in Occupied : root_dir_table[i].file_name = name => i = get_file(name)
           /\ INodeOf(name) \in FileNodes
  <1> DEFINE N == {i \in Entries : root_dir_table[i].file_name = name}
  <1>1. PICK i \in Occupied : root_dir_table[i].file_name = name
    BY DEF does_file_exist, Occupied
  <1>2. get_file(name) \in N /\ \A j \in N : get_file(name) <= j
    <2>1. N \subseteq Nat /\ N # {}
      BY <1>1, Indices DEF Occupied
    <2> HIDE DEF N
    <2>2. First(N) \in N /\ \A j \in N : First(N) <= j
      BY <2>1, FirstIs
    <2> QED BY <2>2 DEF get_file, N
  <1>3. \A j \in N : j \in Occupied => j = get_file(name)
    <2>1. ASSUME NEW j \in N, j \in Occupied PROVE j = get_file(name)
      <3>1. j <= get_file(name) /\ get_file(name) <= j
        BY <1>2, <2>1 DEF DirectoryBut
      <3>2. j \in Nat /\ get_file(name) \in Nat
        BY <1>2, Indices
      <3> QED BY <3>1, <3>2
    <2> QED BY <2>1
  <1>4. get_file(name) = i
    BY <1>1, <1>3 DEF Occupied
  <1> QED BY <1>1, <1>3, <1>4, Indices DEF FileNodes, INodeOf, Occupied

LEMMA FileFound ==
    ASSUME Directory, NEW name, does_file_exist(name)
    PROVE  /\ get_file(name) \in Occupied /\ get_file(name) # None
           /\ root_dir_table[get_file(name)].file_name = name
           /\ \A i \in Occupied : root_dir_table[i].file_name = name => i = get_file(name)
           /\ INodeOf(name) \in FileNodes
  BY WithoutRemoval, FileFoundBut

LEMMA NotOpen ==
    ASSUME NEW x, get_fd(x) = None
    PROVE  \A g \in Entries : ~ (fdt[g].i_node_ptr = x /\ fdt[g].occupied)
  <1> DEFINE G == {g \in Entries : fdt[g].i_node_ptr = x /\ fdt[g].occupied}
  <1>1. G \subseteq Nat /\ First(G) = None
    BY Indices DEF get_fd
  <1>2. G = {}
    <2> HIDE DEF G
    <2> QED BY <1>1, FirstIs
  <1> QED BY <1>2

LEMMA FreeFound ==
    /\ fdt_get_the_first_free_block # None =>
          /\ fdt_get_the_first_free_block \in Entries
          /\ ~ fdt[fdt_get_the_first_free_block].occupied
    /\ get_the_first_free_root_directory # None =>
          /\ get_the_first_free_root_directory \in Entries
          /\ ~ root_dir_table[get_the_first_free_root_directory].occupied
          /\ \A i \in Entries : i < get_the_first_free_root_directory =>
                root_dir_table[i].occupied
    /\ get_the_first_free_i_node # None =>
          /\ get_the_first_free_i_node \in INodes
          /\ ~ i_node_table[get_the_first_free_i_node].occupied
    /\ fdt_get_the_first_free_block \in Int
  <1> DEFINE A == {i \in Entries : ~fdt[i].occupied}
             B == {i \in Entries : ~root_dir_table[i].occupied}
             C == {i \in INodes : ~i_node_table[i].occupied}
  <1>1. A \subseteq Nat /\ B \subseteq Nat /\ C \subseteq Nat
    BY Indices
  <1>2. /\ First(A) # None => First(A) \in A
        /\ First(B) # None => First(B) \in B /\ \A i \in B : First(B) <= i
        /\ First(C) # None => First(C) \in C
        /\ First(A) \in Int
    <2> HIDE DEF A, B, C
    <2> QED BY <1>1, FirstIs
  <1>3. ASSUME NEW i \in Entries, First(B) # None, i < First(B)
        PROVE  root_dir_table[i].occupied
    <2>1. i \in Nat /\ First(B) \in Nat /\ (i \in B => First(B) <= i)
      <3> HIDE DEF B
      <3> QED BY <1>1, <1>2, <1>3, Indices
    <2>2. i \notin B
      <3> HIDE DEF B
      <3> QED BY <1>3, <2>1
    <2> QED BY <2>2
  <1> QED BY <1>2, <1>3 DEF fdt_get_the_first_free_block,
             get_the_first_free_root_directory, get_the_first_free_i_node

-----------------------------------------------------------------------------
(* The parts of TypeOK that the tables, and those that the rest makes up.   *)
TablesOK ==
    /\ i_node_table \in [INodes -> INode]
    /\ root_dir_table \in [Entries -> RootEntry]
    /\ free_bitmap \subseteq Blocks
OthersOK ==
    /\ fdt \in [Entries -> Descriptor]
    /\ curr_file_index \in Entries \cup {NUM_OF_FILES}
    /\ ret.value \in Int \cup Names
    /\ undefined \in {"no", "fdt_end", "entry_-1", "bad_block"}
DiskOK == DiskMirrors /\ disk_ready /\ indirect \in Contents

LEMMA ImageIs ==
    ASSUME NEW nodes, NEW root, NEW bitmap, NEW ind
    PROVE  /\ Image(nodes, root, bitmap, ind).i_nodes = nodes
           /\ Image(nodes, root, bitmap, ind).root = Restrict(root, 0 .. SavedEntries - 1)
           /\ Image(nodes, root, bitmap, ind).bitmap = bitmap
           /\ Image(nodes, root, bitmap, ind).indirect = ind
  BY DEF Image

(* With the tables on the disk the disk's types are those of the tables.    *)
LEMMA TypesFollow ==
    TypeOK <=> TablesOK /\ OthersOK /\ disk_ready \in BOOLEAN
               /\ disk.i_nodes \in [INodes -> INode]
               /\ disk.root \in [0 .. SavedEntries - 1 -> RootEntry]
               /\ disk.bitmap \subseteq Blocks
               /\ DOMAIN indirect \subseteq Blocks /\ Range(indirect) \subseteq Pointers
  BY DEF TypeOK, TablesOK, OthersOK

LEMMA DiskTypes ==
    ASSUME TablesOK, OthersOK, DiskOK
    PROVE  TypeOK
  <1>1. /\ disk.i_nodes = i_node_table /\ disk.bitmap = free_bitmap
        /\ disk.root = Restrict(root_dir_table, 0 .. SavedEntries - 1)
    BY ImageIs DEF DiskOK, DiskMirrors
  <1>2. disk.root \in [0 .. SavedEntries - 1 -> RootEntry]
    BY <1>1, Indices DEF TablesOK, Restrict
  <1>3. DOMAIN indirect \subseteq Blocks /\ Range(indirect) \subseteq Pointers
    BY ContentsIs DEF DiskOK, Range
  <1> QED BY <1>1, <1>2, <1>3, TypesFollow DEF TablesOK, DiskOK

(* SfsInv in the form in which a step is shown to keep it.                  *)
LEMMA InvParts ==
    SfsInv <=> TablesOK /\ OthersOK /\ Directory /\ DiskOK /\ INodesClean /\ Storage /\ OpenFiles
  <1>1. ASSUME SfsInv PROVE DiskOK
    BY <1>1, ContentsIs DEF SfsInv, DiskWorks, DiskOK, TypeOK
  <1>2. ASSUME DiskOK PROVE DiskWorks
    BY <1>2, ContentsIs DEF DiskWorks, DiskOK
  <1> QED BY <1>1, <1>2, DiskTypes, TypesFollow DEF SfsInv

LEMMA InvButParts ==
    ASSUME NEW X
    PROVE  InvBut(X) <=> /\ TablesOK /\ OthersOK /\ DirectoryBut(X) /\ DiskOK
                         /\ INodesClean /\ StorageBut(X) /\ OpenFiles
  <1>1. ASSUME TypeOK PROVE DiskOK <=> DiskWorks
    BY <1>1, ContentsIs DEF DiskWorks, DiskOK, TypeOK
  <1> QED BY <1>1, DiskTypes, TypesFollow DEF InvBut

-----------------------------------------------------------------------------
LEMMA NoFiles ==
    ASSUME \A i \in Entries : /\ ~ root_dir_table[i].occupied
                               /\ root_dir_table[i].i_node_ptr \in {None, 0},
           \A f \in Entries : ~ fdt[f].occupied
    PROVE  Directory /\ Storage /\ OpenFiles /\ FileNodes = {}
  BY DEF Directory, Storage, OpenFiles, FileNodes, Occupied

NewINode == [FreeINode EXCEPT !.size = 0, !.occupied = TRUE]

LEMMA EmptyTables ==
    /\ initialize_i_node_table \in [INodes -> INode]
    /\ initialize_i_node_table[0] = RootINode
    /\ \A i \in INodes : ~ initialize_i_node_table[i].occupied =>
          initialize_i_node_table[i] = FreeINode
    /\ initialize_FDT \in [Entries -> Descriptor]
    /\ \A f \in Entries : ~ initialize_FDT[f].occupied
    /\ NoPointers \in Contents
    /\ Closed \in Descriptor /\ ~ Closed.occupied
    /\ FreeINode \in INode /\ ~ FreeINode.occupied /\ FreeINode.indirect_ptr = None
    /\ RootINode \in INode /\ RootINode.occupied /\ RootINode.indirect_ptr = None
    /\ NewINode \in INode /\ NewINode.occupied /\ NewINode.size = 0
    /\ NewINode.indirect_ptr = None /\ NewINode.direct_ptr = [k \in DirectSlots |-> None]
    /\ ZeroEntry \in RootEntry /\ ~ ZeroEntry.occupied
    /\ ZeroEntry.file_name = NoName /\ ZeroEntry.i_node_ptr = 0
  <1>1. FreeINode \in INode /\ ~ FreeINode.occupied /\ FreeINode.indirect_ptr = None
    BY DEF FreeINode, INode
  <1>2. NUM_OF_FILES \in Int
    BY Indices
  <1>3. RootINode \in INode /\ RootINode.occupied /\ RootINode.indirect_ptr = None
    BY <1>1, <1>2 DEF RootINode, INode
  <1>4. Closed \in Descriptor /\ ~ Closed.occupied
    BY Indices DEF Closed, Descriptor
  <1>5. /\ ZeroEntry \in RootEntry /\ ~ ZeroEntry.occupied
        /\ ZeroEntry.file_name = NoName /\ ZeroEntry.i_node_ptr = 0
    BY Indices DEF ZeroEntry, RootEntry
  <1>6. NoPointers \in Contents
    BY ContentsIs DEF NoPointers
  <1>7. /\ initialize_i_node_table \in [INodes -> INode]
        /\ initialize_i_node_table[0] = RootINode
        /\ \A i \in INodes : ~ initialize_i_node_table[i].occupied =>
              initialize_i_node_table[i] = FreeINode
    BY <1>1, <1>3, Indices DEF initialize_i_node_table
  <1>8. /\ initialize_FDT \in [Entries -> Descriptor]
        /\ \A f \in Entries : ~ initialize_FDT[f].occupied
    BY <1>4 DEF initialize_FDT
  <1>9. /\ NewINode \in INode /\ NewINode.occupied /\ NewINode.size = 0
        /\ NewINode.indirect_ptr = None
    <2>1. 0 \in Int
      OBVIOUS
    <2> QED BY <1>1, <2>1 DEF NewINode, INode
  <1>10. NewINode.direct_ptr = [k \in DirectSlots |-> None]
    BY DEF NewINode, FreeINode
  <1> QED BY <1>1, <1>3, <1>4, <1>5, <1>6, <1>7, <1>8, <1>9, <1>10

(* mksfs(1) in a new process, and again later.                              *)
LEMMA InitInv ==
    ASSUME Init PROVE SfsInv
  <1>1. /\ root_dir_table = initialize_root_directory_table([i \in Entries |-> ZeroEntry])
        /\ i_node_table = initialize_i_node_table /\ free_bitmap = Blocks
        /\ disk = Image(i_node_table, root_dir_table, free_bitmap, NoPointers)
        /\ disk_ready = TRUE /\ fdt = initialize_FDT /\ curr_file_index = 0
        /\ ret = Result("mksfs", 1) /\ undefined = "no"
    BY DEF Init
  <1>2. /\ root_dir_table \in [Entries -> RootEntry]
        /\ \A i \in Entries : /\ ~ root_dir_table[i].occupied
                              /\ root_dir_table[i].i_node_ptr \in {None, 0}
    <2> DEFINE e == [ZeroEntry EXCEPT !.i_node_ptr = None, !.occupied = FALSE]
    <2>1. e \in RootEntry /\ ~ e.occupied /\ e.i_node_ptr = None
      BY EmptyTables DEF RootEntry
    <2>2. root_dir_table = [i \in Entries |-> IF i < NUM_OF_FILES - 1 THEN e ELSE ZeroEntry]
      BY <1>1 DEF initialize_root_directory_table
    <2> HIDE DEF e
    <2> QED BY <2>1, <2>2, EmptyTables
  <1>3. TablesOK
    BY <1>1, <1>2, EmptyTables DEF TablesOK
  <1>4. OthersOK
    BY <1>1, EmptyTables, Indices, SfsAssumption DEF OthersOK, Result, Entries, NUM_OF_FILES
  <1>5. DiskOK
    <2>1. indirect = NoPointers
      BY <1>1, ImageIs DEF indirect
    <2> QED BY <1>1, <2>1, EmptyTables DEF DiskOK, DiskMirrors
  <1>6. INodesClean
    BY <1>1, EmptyTables DEF INodesClean, FreeINodesClean
  <1>7. Directory /\ Storage /\ OpenFiles
    BY <1>1, <1>2, EmptyTables, NoFiles
  <1> QED BY <1>3, <1>4, <1>5, <1>6, <1>7, InvParts

LEMMA NothingThere ==
    ASSUME Init PROVE Occupied = {}
  <1>1. ASSUME NEW i \in Entries PROVE ~ root_dir_table[i].occupied
    <2>1. root_dir_table[i] = ZeroEntry
          \/ root_dir_table[i] = [ZeroEntry EXCEPT !.i_node_ptr = None, !.occupied = FALSE]
      BY DEF Init, initialize_root_directory_table
    <2> QED BY <2>1, EmptyTables DEF RootEntry
  <1> QED BY <1>1 DEF Occupied

LEMMA FormatInv ==
    ASSUME SfsInv, "FormatFull" \notin Habits, Format
    PROVE  /\ SfsInv' /\ Occupied' = {} /\ UNCHANGED undefined
           /\ \A f \in Entries : ~ fdt'[f].occupied
  <1>1. /\ ~ root_dir_table[NUM_OF_FILES - 1].occupied
        /\ i_node_table' = initialize_i_node_table
        /\ root_dir_table' = initialize_root_directory_table(root_dir_table)
        /\ free_bitmap' = Blocks /\ disk_ready' = TRUE
        /\ disk' = Image(i_node_table', root_dir_table', free_bitmap', NoPointers)
        /\ fdt' = initialize_FDT /\ ret' = Result("mksfs", 1)
        /\ curr_file_index' = curr_file_index /\ undefined' = undefined
    BY DEF Format, Save
  <1>2. TablesOK /\ OthersOK
    BY InvParts
  <1>3. /\ root_dir_table' \in [Entries -> RootEntry]
        /\ \A i \in Entries : /\ ~ root_dir_table'[i].occupied
                              /\ root_dir_table'[i].i_node_ptr \in {None, 0}
    <2>1. ASSUME NEW i \in Entries
          PROVE  /\ root_dir_table'[i] \in RootEntry /\ ~ root_dir_table'[i].occupied
                 /\ root_dir_table'[i].i_node_ptr \in {None, 0}
      <3> DEFINE e == [root_dir_table[i] EXCEPT !.i_node_ptr = None, !.occupied = FALSE]
      <3>1. /\ e \in RootEntry /\ ~ e.occupied /\ root_dir_table[i] \in RootEntry
            /\ e.i_node_ptr = None
        BY <1>2, Indices DEF TablesOK, RootEntry
      <3>2. root_dir_table'[i] = IF i < NUM_OF_FILES - 1 THEN e ELSE root_dir_table[i]
        BY <1>1 DEF initialize_root_directory_table
      <3>3. ~ (i < NUM_OF_FILES - 1) => i = NUM_OF_FILES - 1
        BY Indices
      <3>4. ~ root_dir_table[i].occupied => root_dir_table[i].i_node_ptr \in {None, 0}
        BY InvParts DEF Directory, Occupied
      <3> HIDE DEF e
      <3> QED BY <1>1, <3>1, <3>2, <3>3, <3>4
    <2>2. root_dir_table' = [i \in Entries |-> root_dir_table'[i]]
      BY <1>1 DEF initialize_root_directory_table
    <2> QED BY <2>1, <2>2
  <1>4. TablesOK'
    BY <1>1, <1>3, EmptyTables DEF TablesOK
  <1>5. OthersOK'
    BY <1>1, <1>2, EmptyTables DEF OthersOK, Result
  <1>6. DiskOK'
    <2>1. indirect' = NoPointers
      BY <1>1, ImageIs DEF indirect
    <2> QED BY <1>1, <2>1, EmptyTables DEF DiskOK, DiskMirrors
  <1>7. INodesClean'
    BY <1>1, EmptyTables DEF INodesClean, FreeINodesClean
  <1>8. (Directory /\ Storage /\ OpenFiles)'
    <2>1. \A f \in Entries : ~ fdt'[f].occupied
      BY <1>1, EmptyTables
    <2> QED BY <1>3, <2>1 DEF Directory, Storage, OpenFiles, FileNodes, Occupied
  <1>9. SfsInv'
    BY <1>4, <1>5, <1>6, <1>7, <1>8, InvParts, PTL
  <1>10. Occupied' = {} /\ \A f \in Entries : ~ fdt'[f].occupied
    BY <1>1, <1>3, EmptyTables DEF Occupied
  <1> QED BY <1>1, <1>9, <1>10

(* mksfs(0) finds on the disk the tables that were in memory, except for    *)
(* directory entries that were not saved.                                   *)
LEMMA LoadInv ==
    ASSUME SfsInv, NEW memory, LoadTables(memory), disk' = disk,
           curr_file_index' \in Entries \cup {NUM_OF_FILES},
           \A i \in Entries : memory[i] \in {ZeroEntry, root_dir_table[i]}
    PROVE  /\ SfsInv' /\ UNCHANGED <<i_node_table, indirect, undefined>>
           /\ FileNodes' \subseteq FileNodes
           /\ \A i \in Occupied' : i \in Occupied /\ root_dir_table'[i] = root_dir_table[i]
           /\ \A f \in Entries : ~ fdt'[f].occupied
  <1>1. TablesOK /\ OthersOK /\ Directory /\ DiskOK /\ INodesClean /\ Storage
    BY InvParts
  <1>2. /\ disk.i_nodes = i_node_table /\ disk.bitmap = free_bitmap
        /\ disk.root = Restrict(root_dir_table, 0 .. SavedEntries - 1)
    BY <1>1, ImageIs DEF DiskOK, DiskMirrors
  <1>3. /\ i_node_table' = i_node_table /\ free_bitmap' = free_bitmap /\ disk_ready' = TRUE
        /\ root_dir_table' = [i \in Entries |-> IF i < SavedEntries THEN disk.root[i] ELSE memory[i]]
        /\ fdt' = initialize_FDT /\ ret' = Result("mksfs", 0) /\ undefined' = undefined
    BY <1>2 DEF LoadTables
  <1>4. ASSUME NEW i \in Entries
        PROVE  /\ root_dir_table'[i] \in {ZeroEntry, root_dir_table[i]}
               /\ i \in 0 .. SavedEntries - 1 => root_dir_table'[i] = root_dir_table[i]
    <2>1. i < SavedEntries <=> i \in 0 .. SavedEntries - 1
      BY Indices
    <2>2. root_dir_table'[i] = IF i < SavedEntries THEN disk.root[i] ELSE memory[i]
      BY <1>3
    <2>3. i < SavedEntries => disk.root[i] = root_dir_table[i]
      BY <1>1, <1>2, <2>1 DEF Restrict, TablesOK
    <2> QED BY <2>1, <2>2, <2>3
  <1>5. root_dir_table' \in [Entries -> RootEntry]
    <2>1. \A i \in Entries : root_dir_table'[i] \in RootEntry
      BY <1>1, <1>4, EmptyTables DEF TablesOK
    <2>2. root_dir_table' = [i \in Entries |-> root_dir_table'[i]]
      BY <1>3
    <2> QED BY <2>1, <2>2
  <1>6. TablesOK' /\ OthersOK'
    BY <1>1, <1>3, <1>5, EmptyTables DEF TablesOK, OthersOK, Result
  <1>7. DiskOK'
    <2>1. Restrict(root_dir_table', 0 .. SavedEntries - 1) = disk.root
      <3>1. \A i \in 0 .. SavedEntries - 1 : root_dir_table'[i] = root_dir_table[i]
        BY <1>4, Indices
      <3> QED BY <1>1, <1>2, <1>5, <3>1, Indices DEF Restrict, TablesOK
    <2>2. disk = Image(i_node_table', root_dir_table', free_bitmap', indirect)
      BY <1>1, <1>2, <1>3, <2>1 DEF DiskOK, DiskMirrors, Image
    <2> QED BY <1>1, <1>3, <2>2 DEF DiskOK, DiskMirrors, indirect
  <1>8. INodesClean'
    BY <1>1, <1>3 DEF INodesClean, FreeINodesClean
  <1>9. ASSUME NEW i \in Occupied'
        PROVE  i \in Occupied /\ root_dir_table'[i] = root_dir_table[i]
    BY <1>4, EmptyTables DEF Occupied
  <1>10. FileNodes' \subseteq FileNodes
    BY <1>9 DEF FileNodes
  <1>11. Directory'
    <2>1. ASSUME NEW i \in Occupied'
          PROVE  /\ root_dir_table'[i].file_name \in Names
                 /\ root_dir_table'[i].i_node_ptr \in INodes \ {0}
                 /\ i_node_table'[root_dir_table'[i].i_node_ptr].occupied
                 /\ \A j \in Entries :
                       root_dir_table'[j].file_name = root_dir_table'[i].file_name => i <= j
      <3>1. ASSUME NEW j \in Entries, root_dir_table'[j].file_name = root_dir_table'[i].file_name
            PROVE  i <= j
        <4>1. root_dir_table[i].file_name # NoName
          BY <1>1, <1>9, SfsAssumption DEF Directory
        <4> QED BY <1>1, <1>4, <1>9, <3>1, <4>1, EmptyTables DEF Directory
      <3> QED BY <1>1, <1>3, <1>9, <3>1 DEF Directory
    <2>2. ASSUME NEW i \in Entries \ Occupied'
          PROVE  root_dir_table'[i].i_node_ptr \in {None, 0}
      <3>1. root_dir_table[i].i_node_ptr \in {None, 0} \/ i \in Occupied
        BY <1>1 DEF Directory
      <3>2. CASE root_dir_table'[i] = ZeroEntry
        BY <3>2, EmptyTables
      <3>3. CASE root_dir_table'[i] = root_dir_table[i]
        BY <3>1, <3>3 DEF Occupied
      <3> QED BY <1>4, <3>2, <3>3
    <2> QED BY <1>1, <1>9, <2>1, <2>2 DEF Directory
  <1>12. Storage'
    BY <1>1, <1>3, <1>10 DEF Storage, indirect
  <1>13. OpenFiles' /\ \A f \in Entries : ~ fdt'[f].occupied
    BY <1>3, EmptyTables DEF OpenFiles
  <1>14. SfsInv'
    BY <1>6, <1>7, <1>8, <1>11, <1>12, <1>13, InvParts, PTL
  <1>15. indirect' = indirect
    BY DEF indirect
  <1> QED BY <1>3, <1>9, <1>10, <1>13, <1>14, <1>15

(* A new process reads the tables from the disk, or the same one again.     *)
LEMMA MountInv ==
    ASSUME SfsInv, Restart \/ Remount
    PROVE  /\ SfsInv' /\ UNCHANGED <<i_node_table, indirect, undefined>>
           /\ FileNodes' \subseteq FileNodes
           /\ \A i \in Occupied' : i \in Occupied /\ root_dir_table'[i] = root_dir_table[i]
           /\ \A f \in Entries : ~ fdt'[f].occupied
           /\ \A i \in 0 .. SavedEntries - 1 : root_dir_table'[i] = disk.root[i]
           /\ ret' = Result("mksfs", 0)
  <1>1. OthersOK
    BY InvParts
  <1>2. PICK memory :
           /\ LoadTables(memory) /\ disk' = disk
           /\ curr_file_index' \in Entries \cup {NUM_OF_FILES}
           /\ \A i \in Entries : memory[i] \in {ZeroEntry, root_dir_table[i]}
    <2>1. CASE Restart
      <3> DEFINE zero == [i \in Entries |-> ZeroEntry]
      <3>1. /\ LoadTables(zero) /\ disk' = disk
            /\ curr_file_index' \in Entries \cup {NUM_OF_FILES}
        BY <2>1, SfsAssumption DEF Restart, NewProcess, Entries, NUM_OF_FILES
      <3>2. \A i \in Entries : zero[i] \in {ZeroEntry, root_dir_table[i]}
        OBVIOUS
      <3> HIDE DEF zero
      <3> QED BY <3>1, <3>2
    <2>2. CASE Remount
      BY <1>1, <2>2 DEF Remount, OthersOK
    <2> QED BY <2>1, <2>2
  <1>3. \A i \in 0 .. SavedEntries - 1 : root_dir_table'[i] = disk.root[i]
    <2>1. \A i \in 0 .. SavedEntries - 1 : i \in Entries /\ i < SavedEntries
      BY Indices
    <2>2. root_dir_table' = [j \in Entries |-> IF j < SavedEntries THEN disk.root[j] ELSE memory[j]]
      BY <1>2 DEF LoadTables
    <2> QED BY <2>1, <2>2
  <1>4. ret' = Result("mksfs", 0)
    BY <1>2 DEF LoadTables
  <1> QED BY <1>2, <1>3, <1>4, LoadInv

(* Calls that leave the tables and the disk alone.                          *)
LEMMA SameTables ==
    ASSUME SfsInv, UNCHANGED <<tables, disk, disk_ready>>, OthersOK', OpenFiles'
    PROVE  SfsInv'
  <1>1. TablesOK /\ Directory /\ DiskOK /\ INodesClean /\ Storage
    BY InvParts
  <1>2. TablesOK'
    BY <1>1 DEF TablesOK, tables
  <1>3. Directory'
    BY <1>1 DEF Directory, Occupied, tables
  <1>4. DiskOK'
    BY <1>1 DEF DiskOK, DiskMirrors, indirect, tables
  <1>5. INodesClean'
    BY <1>1 DEF INodesClean, FreeINodesClean, tables
  <1>6. Storage'
    BY <1>1 DEF Storage, FileNodes, Occupied, indirect, tables
  <1> QED BY <1>2, <1>3, <1>4, <1>5, <1>6, InvParts, PTL

LEMMA SameFiles ==
    ASSUME UNCHANGED tables
    PROVE  FileNodes' = FileNodes
  BY DEF FileNodes, Occupied, tables

LEMMA SameDescriptors ==
    ASSUME SfsInv, UNCHANGED <<tables, disk, disk_ready, fdt>>, OthersOK'
    PROVE  SfsInv'
  <1>1. OpenFiles'
    BY SameFiles DEF OpenFiles, SfsInv
  <1> QED BY <1>1, SameTables

LEMMA NextFileNameInv ==
    ASSUME SfsInv, sfs_getnextfilename
    PROVE  SfsInv'
  <1>1. OthersOK /\ TablesOK /\ Directory
    BY InvParts
  <1>2. NextFile = None \/ (NextFile \in Entries /\ does_file_exist(root_dir_table[NextFile].file_name))
    <2> DEFINE S == {i \in Entries : /\ i >= curr_file_index
                                     /\ does_file_exist(root_dir_table[i].file_name)}
    <2>1. S \subseteq Nat
      BY Indices
    <2>2. First(S) = None \/ First(S) \in S
      <3> HIDE DEF S
      <3> QED BY <2>1, FirstIs
    <2> QED BY <2>2 DEF NextFile
  <1>3. NextFile # None => root_dir_table[NextFile].file_name \in Names
    BY <1>1, <1>2 DEF Directory, does_file_exist, Occupied
  <1>4. UNCHANGED <<tables, disk, disk_ready, fdt>>
    BY DEF sfs_getnextfilename
  <1>5. OthersOK'
    <2>1. curr_file_index' \in Entries \cup {NUM_OF_FILES}
      BY <1>1, <1>2, Indices, SfsAssumption
         DEF sfs_getnextfilename, OthersOK, AfterLast, Entries, NUM_OF_FILES
    <2>2. ret'.value \in Int \cup Names
      BY <1>3 DEF sfs_getnextfilename, Result
    <2> QED BY <1>1, <2>1, <2>2 DEF sfs_getnextfilename, OthersOK
  <1> QED BY <1>4, <1>5, SameDescriptors

LEMMA GetFileSizeInv ==
    ASSUME SfsInv, NEW name \in Names, sfs_getfilesize(name)
    PROVE  SfsInv'
  <1>1. OthersOK /\ TablesOK /\ Directory
    BY InvParts
  <1>2. does_file_exist(name) => end_of_file(name) \in Int
    <2>1. does_file_exist(name) => INodeOf(name) \in INodes
      BY <1>1, FileFound DEF FileNodes, Directory
    <2> QED BY <1>1, <2>1 DEF end_of_file, TablesOK, INode
  <1>3. UNCHANGED <<tables, disk, disk_ready, fdt>>
    BY DEF sfs_getfilesize, others
  <1>4. OthersOK'
    BY <1>1, <1>2 DEF sfs_getfilesize, OthersOK, Result, others
  <1> QED BY <1>3, <1>4, SameDescriptors

LEMMA FopenAgainInv ==
    ASSUME SfsInv, NEW name \in Names, FopenAgain(name)
    PROVE  SfsInv'
  <1>1. OthersOK
    BY InvParts
  <1>2. OpenFd(name) \in Int
    <2> DEFINE x == INodeOf(name)
               S == {i \in Entries : fdt[i].i_node_ptr = x /\ fdt[i].occupied}
    <2>1. S \subseteq Nat
      BY Indices
    <2>2. First(S) \in Int
      <3> HIDE DEF S
      <3> QED BY <2>1, FirstIs
    <2> QED BY <2>2, Indices DEF OpenFd, get_fd
  <1>3. UNCHANGED <<tables, disk, disk_ready, fdt>>
    BY DEF FopenAgain, others
  <1>4. OthersOK'
    BY <1>1, <1>2 DEF FopenAgain, OthersOK, Result, others
  <1> QED BY <1>3, <1>4, SameDescriptors

LEMMA FopenTooLongInv ==
    ASSUME SfsInv, NEW name \in Names, FopenTooLong(name)
    PROVE  SfsInv'
  <1>1. OthersOK
    BY InvParts
  <1>2. UNCHANGED <<tables, disk, disk_ready, fdt>>
    BY DEF FopenTooLong, others
  <1>3. OthersOK'
    BY <1>1 DEF FopenTooLong, OthersOK, Result, others
  <1> QED BY <1>2, <1>3, SameDescriptors

LEMMA FopenOutOfBoundsInv ==
    ASSUME SfsInv, NEW name \in Names, FopenOutOfBounds(name)
    PROVE  SfsInv'
  <1>1. OthersOK
    BY InvParts
  <1>2. UNCHANGED <<tables, disk, disk_ready, fdt>>
    BY DEF FopenOutOfBounds
  <1>3. OthersOK'
    BY <1>1 DEF FopenOutOfBounds, OthersOK
  <1> QED BY <1>2, <1>3, SameDescriptors

(* An open file: its descriptor, and no other one, stands for it.           *)
LEMMA OpenedIs ==
    ASSUME SfsInv, fdt_get_the_first_free_block # None,
           NEW x \in INodes, NEW position \in Nat,
           \A g \in Entries : fdt[g].occupied => fdt[g].i_node_ptr # x,
           fdt' = Opened(x, position)
    PROVE  /\ fdt' \in [Entries -> Descriptor]
           /\ \A f, g \in Entries : fdt'[f].occupied =>
                 /\ fdt'[f].i_node_ptr \in FileNodes \cup {x}
                 /\ fdt'[g].occupied /\ fdt'[f].i_node_ptr = fdt'[g].i_node_ptr => f = g
           /\ \A f \in Entries : fdt'[f].occupied =>
                 \/ (fdt[f].occupied /\ fdt'[f] = fdt[f])
                 \/ (fdt'[f].i_node_ptr = x /\ fdt'[f].read_write_ptr = position)
  <1> DEFINE d == [i_node_ptr |-> x, read_write_ptr |-> position, occupied |-> TRUE]
             h == fdt_get_the_first_free_block
  <1>1. h \in Entries
    BY FreeFound
  <1>2. d \in Descriptor
    BY Indices DEF Descriptor
  <1>3. fdt \in [Entries -> Descriptor] /\ OpenFiles
    BY InvParts DEF OthersOK
  <1>4. fdt' = [fdt EXCEPT ![h] = d]
    BY DEF Opened
  <1>5. \A f \in Entries : fdt'[f] = IF f = h THEN d ELSE fdt[f]
    BY <1>1, <1>3, <1>4
  <1>6. fdt' \in [Entries -> Descriptor]
    BY <1>1, <1>2, <1>3, <1>4
  <1>7. d.occupied /\ d.i_node_ptr = x /\ d.read_write_ptr = position
    OBVIOUS
  <1> HIDE DEF d, h
  <1>8. ASSUME NEW f \in Entries, NEW g \in Entries, fdt'[f].occupied
        PROVE  /\ fdt'[f].i_node_ptr \in FileNodes \cup {x}
               /\ fdt'[g].occupied /\ fdt'[f].i_node_ptr = fdt'[g].i_node_ptr => f = g
    BY <1>3, <1>5, <1>7, <1>8 DEF OpenFiles
  <1>9. ASSUME NEW f \in Entries, fdt'[f].occupied
        PROVE  \/ (fdt[f].occupied /\ fdt'[f] = fdt[f])
               \/ (fdt'[f].i_node_ptr = x /\ fdt'[f].read_write_ptr = position)
    BY <1>5, <1>7, <1>9
  <1> QED BY <1>6, <1>8, <1>9

LEMMA FopenExistingInv ==
    ASSUME SfsInv, NEW name \in Names, FopenExisting(name)
    PROVE  /\ SfsInv' /\ UNCHANGED others
           /\ \A f \in Entries : fdt'[f].occupied =>
                 \/ (fdt[f].occupied /\ fdt'[f] = fdt[f])
                 \/ fdt'[f].read_write_ptr = i_node_table[fdt'[f].i_node_ptr].size
  <1> DEFINE x == INodeOf(name)
  <1>1. OthersOK /\ TablesOK /\ Directory /\ Storage
    BY InvParts
  <1>2. does_file_exist(name) /\ CanOpen(name)
    BY DEF FopenExisting
  <1>3. get_file(name) # None /\ x \in FileNodes /\ x \in INodes /\ end_of_file(name) \in Nat
    BY <1>1, <1>2, FileFound DEF FileNodes, Directory, Storage, end_of_file
  <1>4. \A g \in Entries : fdt[g].occupied => fdt[g].i_node_ptr # x
    BY <1>2, <1>3, NotOpen DEF CanOpen, OpenFd
  <1>5. fdt' = Opened(x, end_of_file(name))
    BY DEF FopenExisting, OpenPosition
  <1>6. fdt_get_the_first_free_block # None
    BY <1>2 DEF CanOpen
  <1>7. UNCHANGED <<tables, disk, disk_ready>>
    BY DEF FopenExisting, others
  <1> HIDE DEF x
  <1>8. /\ fdt' \in [Entries -> Descriptor]
        /\ \A f, g \in Entries : fdt'[f].occupied =>
              /\ fdt'[f].i_node_ptr \in FileNodes \cup {x}
              /\ fdt'[g].occupied /\ fdt'[f].i_node_ptr = fdt'[g].i_node_ptr => f = g
        /\ \A f \in Entries : fdt'[f].occupied =>
              \/ (fdt[f].occupied /\ fdt'[f] = fdt[f])
              \/ (fdt'[f].i_node_ptr = x /\ fdt'[f].read_write_ptr = end_of_file(name))
    BY <1>3, <1>4, <1>5, <1>6, OpenedIs
  <1>9. OpenFiles'
    BY <1>3, <1>7, <1>8, SameFiles DEF OpenFiles
  <1>10. OthersOK'
    BY <1>1, <1>8, FreeFound DEF FopenExisting, OthersOK, Result, others
  <1>11. UNCHANGED others /\ end_of_file(name) = i_node_table[x].size
    BY DEF FopenExisting, end_of_file, x
  <1>12. SfsInv'
    BY <1>7, <1>9, <1>10, SameTables
  <1> QED BY <1>8, <1>11, <1>12

(* The new file's i-node was free, so it has no pointers.                   *)
LEMMA CreatedNode ==
    ASSUME SfsInv, get_the_first_free_i_node # None
    PROVE  LET x == get_the_first_free_i_node IN
           /\ x \in INodes \ {0} /\ x \notin FileNodes
           /\ ~ i_node_table[x].occupied
           /\ CreatedINode \in [INodes -> INode]
           /\ CreatedINode[x] = NewINode
           /\ \A i \in INodes : i # x => CreatedINode[i] = i_node_table[i]
  <1> DEFINE x == get_the_first_free_i_node
             ptrs == [k \in DirectSlots |->
                        IF k < DIRECT_PTR_NUM \div 4 THEN None ELSE i_node_table[x].direct_ptr[k]]
  <1>1. TablesOK /\ INodesClean /\ Directory
    BY InvParts
  <1>2. x \in INodes /\ ~ i_node_table[x].occupied
    BY FreeFound
  <1> HIDE DEF x
  <1>3. i_node_table[x] = FreeINode /\ x # 0
    BY <1>1, <1>2, EmptyTables DEF INodesClean, FreeINodesClean
  <1>4. ptrs = FreeINode.direct_ptr
    BY <1>3 DEF FreeINode
  <1>5. CreatedINode = [i_node_table EXCEPT ![x].size = 0, ![x].occupied = TRUE,
                                            ![x].direct_ptr = ptrs, ![0].indirect_ptr = None]
    BY <1>1, <1>2 DEF CreatedINode, TablesOK, INode, x
  <1> HIDE DEF ptrs
  <1>6. [i_node_table[0] EXCEPT !.indirect_ptr = None] = i_node_table[0]
    BY <1>1, EmptyTables, Indices DEF INodesClean, TablesOK, INode
  <1>7. [i_node_table[x] EXCEPT !.size = 0, !.occupied = TRUE, !.direct_ptr = ptrs] = NewINode
    BY <1>3, <1>4, EmptyTables DEF INode, NewINode
  <1>8. CreatedINode = [i_node_table EXCEPT ![x] = NewINode]
    BY <1>1, <1>2, <1>3, <1>5, <1>6, <1>7, Indices DEF TablesOK
  <1>9. x \notin FileNodes
    BY <1>1, <1>2 DEF Directory, FileNodes
  <1> QED BY <1>1, <1>2, <1>3, <1>8, <1>9, EmptyTables DEF TablesOK, x

(* The blocks of a file depend on its i-node and on the indirect blocks.    *)
LEMMA NewINodeUsesNothing ==
    ASSUME NEW ind \in Contents
    PROVE  /\ Used(NewINode, ind) = {} /\ WellFormed(NewINode, ind) /\ Mapped(NewINode, ind)
           /\ \A k \in Slots : Ptr(NewINode, ind, k) = None
  <1>1. None \notin DOMAIN ind
    BY ContentsIs, BlockNumbers
  <1>2. \A k \in Slots : Ptr(NewINode, ind, k) = None
    BY <1>1, EmptyTables, SlotIs DEF Ptr, Index
  <1>3. Used(NewINode, ind) = {} /\ WellFormed(NewINode, ind)
    BY <1>2, EmptyTables DEF Used, WellFormed
  <1>4. ASSUME NEW k \in Slots PROVE ~ (Offset(k) < 0)
    BY SlotIs, OffsetOrder
  <1>5. DIRECT_PTR_NUM + POINTERS \in Nat
    BY SfsAssumption
  <1>6. Offset(DIRECT_PTR_NUM + POINTERS) \in Nat
    BY <1>5, OffsetOrder
  <1>7. Mapped(NewINode, ind)
    BY <1>2, <1>4, <1>6, EmptyTables DEF Mapped
  <1> QED BY <1>2, <1>3, <1>7

(* The new file is empty, the others are as they were.                      *)
CreateDone(name, x) ==
    /\ x \in INodes /\ x \notin FileNodes /\ FileNodes' = FileNodes \cup {x}
    /\ i_node_table'[x] = NewINode
    /\ \A y \in FileNodes : i_node_table'[y] = i_node_table[y]
    /\ UNCHANGED <<indirect, undefined>> /\ ~ does_file_exist(name)
    /\ \A i \in Occupied' : \/ (i \in Occupied /\ root_dir_table'[i] = root_dir_table[i])
                            \/ root_dir_table'[i].file_name = name
    /\ \A f \in Entries : fdt'[f].occupied =>
          \/ (fdt[f].occupied /\ fdt'[f] = fdt[f])
          \/ (fdt'[f].i_node_ptr = x /\ fdt'[f].read_write_ptr = 0)

LEMMA FopenCreateInv ==
    ASSUME SfsInv, NEW name \in Names, FopenCreate(name)
    PROVE  SfsInv' /\ CreateDone(name, get_the_first_free_i_node)
  <1> DEFINE x == get_the_first_free_i_node
             h == get_the_first_free_root_directory
             e == [file_name |-> name, i_node_ptr |-> x, occupied |-> TRUE]
  <1>1. OthersOK /\ TablesOK /\ Directory /\ Storage /\ DiskOK /\ INodesClean /\ OpenFiles
    BY InvParts
  <1>2. /\ CanOpen(name) /\ ~ does_file_exist(name) /\ x # None /\ h # None
        /\ root_dir_table' = [root_dir_table EXCEPT ![h] = e]
        /\ i_node_table' = CreatedINode /\ fdt' = Opened(x, 0)
        /\ ret' = Result("sfs_fopen", fdt_get_the_first_free_block)
        /\ UNCHANGED <<free_bitmap, curr_file_index, disk_ready, undefined>>
        /\ Save(indirect)
    BY DEF FopenCreate, CanCreate, CreatedEntry
  <1>3. /\ x \in INodes \ {0} /\ x \notin FileNodes
        /\ ~ i_node_table[x].occupied
        /\ i_node_table' \in [INodes -> INode]
        /\ i_node_table'[x] = NewINode
        /\ \A i \in INodes : i # x => i_node_table'[i] = i_node_table[i]
    BY <1>2, CreatedNode
  <1>4. h \in Entries /\ h \notin Occupied /\ \A i \in Entries : i < h => i \in Occupied
    BY <1>2, FreeFound DEF Occupied
  <1> HIDE DEF x, h
  <1>5. e \in RootEntry /\ e.occupied /\ e.file_name = name /\ e.i_node_ptr = x
    BY <1>3 DEF RootEntry
  <1> HIDE DEF e
  <1>6. \A i \in Entries : root_dir_table'[i] = IF i = h THEN e ELSE root_dir_table[i]
    BY <1>1, <1>2, <1>4 DEF TablesOK
  <1>7. TablesOK'
    BY <1>1, <1>2, <1>3, <1>4, <1>5 DEF TablesOK
  <1>8. Occupied' = Occupied \cup {h} /\ FileNodes' = FileNodes \cup {x}
    <2>1. Occupied' = Occupied \cup {h}
      BY <1>4, <1>5, <1>6 DEF Occupied
    <2> QED BY <1>4, <1>5, <1>6, <2>1 DEF FileNodes, Occupied
  <1>9. DiskOK'
    <2>1. disk' = Image(i_node_table', root_dir_table', free_bitmap', indirect)
      BY <1>1, <1>2 DEF Save, DiskOK
    <2>2. indirect' = indirect
      BY <2>1, ImageIs DEF indirect
    <2> QED BY <1>1, <1>2, <2>1, <2>2 DEF DiskOK, DiskMirrors
  <1>10. INodesClean'
    BY <1>1, <1>3, Indices, EmptyTables DEF INodesClean, FreeINodesClean
  <1>11. Directory'
    <2>1. ASSUME NEW i \in Occupied'
          PROVE  /\ root_dir_table'[i].file_name \in Names
                 /\ root_dir_table'[i].i_node_ptr \in INodes \ {0}
                 /\ i_node_table'[root_dir_table'[i].i_node_ptr].occupied
      <3>1. CASE i = h
        BY <1>3, <1>4, <1>5, <1>6, <3>1, EmptyTables
      <3>2. CASE i # h
        <4>1. i \in Occupied /\ root_dir_table'[i] = root_dir_table[i]
          BY <1>6, <1>8, <3>2 DEF Occupied
        <4>2. root_dir_table[i].i_node_ptr \in FileNodes
          BY <4>1 DEF FileNodes
        <4> QED BY <1>1, <1>3, <4>1, <4>2 DEF Directory
      <3> QED BY <3>1, <3>2
    <2>2. ASSUME NEW i \in Occupied', NEW j \in Entries,
                 root_dir_table'[j].file_name = root_dir_table'[i].file_name
          PROVE  i <= j
      <3>1. ASSUME NEW k \in Occupied PROVE root_dir_table[k].file_name # name
        BY <1>2, <3>1 DEF does_file_exist, Occupied
      <3>2. i \in Entries /\ i \in Nat /\ j \in Nat /\ h \in Nat
        BY <1>4, Indices DEF Occupied
      <3>3. CASE i = h
        <4>1. root_dir_table'[i].file_name = name
          BY <1>5, <1>6, <3>2, <3>3
        <4>2. j # h => root_dir_table[j].file_name = name
          BY <1>6, <2>2, <4>1
        <4>3. j # h => j \notin Occupied
          BY <3>1, <4>2
        <4> QED BY <1>4, <3>2, <3>3, <4>3
      <3>4. CASE i # h
        <4>1. i \in Occupied /\ root_dir_table'[i] = root_dir_table[i]
          BY <1>6, <1>8, <3>2, <3>4
        <4>2. j # h
          BY <1>5, <1>6, <2>2, <3>1, <4>1
        <4> QED BY <1>1, <1>6, <2>2, <4>1, <4>2 DEF Directory
      <3> QED BY <3>3, <3>4
    <2>3. ASSUME NEW i \in Occupied', NEW j \in Occupied',
                 root_dir_table'[i].i_node_ptr = root_dir_table'[j].i_node_ptr
          PROVE  i = j
      <3>1. ASSUME NEW k \in Occupied', k # h
            PROVE  /\ k \in Occupied /\ root_dir_table'[k] = root_dir_table[k]
                   /\ root_dir_table'[k].i_node_ptr # x
        <4>1. k \in Occupied /\ root_dir_table'[k] = root_dir_table[k]
          BY <1>6, <1>8, <3>1 DEF Occupied
        <4> QED BY <1>3, <4>1 DEF FileNodes
      <3>2. root_dir_table'[h].i_node_ptr = x
        BY <1>4, <1>5, <1>6
      <3> QED BY <1>1, <2>3, <3>1, <3>2 DEF Directory
    <2>4. ASSUME NEW i \in Entries \ Occupied'
          PROVE  root_dir_table'[i].i_node_ptr \in {None, 0}
      BY <1>1, <1>4, <1>6, <1>8, <2>4 DEF Directory
    <2> QED BY <2>1, <2>2, <2>3, <2>4 DEF Directory
  <1>12. Storage'
    <2>1. /\ \A y \in FileNodes : i_node_table'[y] = i_node_table[y]
          /\ free_bitmap' = free_bitmap /\ indirect \in Contents
      BY <1>1, <1>2, <1>3 DEF FileNodes, Directory, DiskOK
    <2>2. indirect' = indirect
      <3>1. disk' = Image(i_node_table', root_dir_table', free_bitmap', indirect)
        BY <1>1, <1>2 DEF Save, DiskOK
      <3> QED BY <3>1, ImageIs DEF indirect
    <2>3. Used(i_node_table'[x], indirect) = {} /\ WellFormed(i_node_table'[x], indirect)
          /\ i_node_table'[x].size \in Nat
      BY <1>3, <2>1, NewINodeUsesNothing, EmptyTables
    <2> QED BY <1>1, <1>8, <2>1, <2>2, <2>3 DEF Storage
  <1>13. /\ OpenFiles' /\ fdt' \in [Entries -> Descriptor]
         /\ \A f \in Entries : fdt'[f].occupied =>
               \/ (fdt[f].occupied /\ fdt'[f] = fdt[f])
               \/ (fdt'[f].i_node_ptr = x /\ fdt'[f].read_write_ptr = 0)
    <2>1. \A g \in Entries : fdt[g].occupied => fdt[g].i_node_ptr # x
      BY <1>1, <1>3 DEF OpenFiles
    <2>2. /\ fdt' \in [Entries -> Descriptor]
          /\ \A f, g \in Entries : fdt'[f].occupied =>
                /\ fdt'[f].i_node_ptr \in FileNodes \cup {x}
                /\ fdt'[g].occupied /\ fdt'[f].i_node_ptr = fdt'[g].i_node_ptr => f = g
          /\ \A f \in Entries : fdt'[f].occupied =>
                \/ (fdt[f].occupied /\ fdt'[f] = fdt[f])
                \/ (fdt'[f].i_node_ptr = x /\ fdt'[f].read_write_ptr = 0)
      BY <1>2, <1>3, <2>1, OpenedIs DEF CanOpen
    <2> QED BY <1>8, <2>2 DEF OpenFiles
  <1>14. OthersOK'
    BY <1>1, <1>2, <1>13, FreeFound DEF OthersOK, Result
  <1>15. SfsInv'
    BY <1>7, <1>9, <1>10, <1>11, <1>12, <1>13, <1>14, InvParts, PTL
  <1>16. ASSUME NEW i \in Occupied'
         PROVE  \/ (i \in Occupied /\ root_dir_table'[i] = root_dir_table[i])
                \/ root_dir_table'[i].file_name = name
    BY <1>5, <1>6, <1>8 DEF Occupied
  <1>17. \A y \in FileNodes : i_node_table'[y] = i_node_table[y]
    BY <1>1, <1>3 DEF FileNodes, Directory
  <1>18. indirect' = indirect
    <2>1. disk' = Image(i_node_table', root_dir_table', free_bitmap', indirect)
      BY <1>1, <1>2 DEF Save, DiskOK
    <2> QED BY <2>1, ImageIs DEF indirect
  <1>19. CreateDone(name, x)
    BY <1>2, <1>3, <1>8, <1>13, <1>16, <1>17, <1>18 DEF CreateDone
  <1> QED BY <1>15, <1>19 DEF x

(* Moving or closing a descriptor.                                          *)
LEMMA FcloseInv ==
    ASSUME SfsInv, NEW f \in Entries, sfs_fclose(f)
    PROVE  /\ SfsInv' /\ UNCHANGED <<others>>
           /\ \A g \in Entries : fdt'[g].occupied => fdt'[g] = fdt[g]
  <1>1. OthersOK /\ OpenFiles /\ fdt \in [Entries -> Descriptor]
    BY InvParts DEF OthersOK
  <1>2. UNCHANGED <<others>> /\ UNCHANGED <<tables, disk, disk_ready>>
    BY DEF sfs_fclose, others
  <1>3. /\ fdt' \in [Entries -> Descriptor]
        /\ \A g \in Entries : fdt'[g].occupied => fdt'[g] = fdt[g]
    <2>1. fdt' = fdt \/ fdt' = [fdt EXCEPT ![f] = Closed]
      BY DEF sfs_fclose
    <2> QED BY <1>1, <2>1, EmptyTables
  <1>4. OthersOK'
    <2>1. ret'.value \in Int
      BY DEF sfs_fclose, Result
    <2> QED BY <1>1, <1>2, <1>3, <2>1 DEF OthersOK, others
  <1>5. OpenFiles'
    BY <1>1, <1>2, <1>3, SameFiles DEF OpenFiles
  <1> QED BY <1>2, <1>3, <1>4, <1>5, SameTables

LEMMA FseekInv ==
    ASSUME SfsInv, NEW f \in Entries, NEW loc \in Seeks, sfs_fseek(f, loc)
    PROVE  /\ SfsInv' /\ UNCHANGED <<others>>
           /\ \A g \in Entries : fdt'[g].occupied =>
                 /\ fdt[g].occupied /\ fdt'[g].i_node_ptr = fdt[g].i_node_ptr
                 /\ fdt'[g].read_write_ptr = IF g = f THEN loc ELSE fdt[g].read_write_ptr
  <1>1. OthersOK /\ OpenFiles /\ fdt \in [Entries -> Descriptor] /\ loc \in Int
    BY InvParts, SfsAssumption DEF OthersOK
  <1>2. UNCHANGED <<others>> /\ UNCHANGED <<tables, disk, disk_ready>>
    BY DEF sfs_fseek, others
  <1>3. /\ fdt' \in [Entries -> Descriptor]
        /\ \A g \in Entries : fdt'[g].occupied =>
              /\ fdt[g].occupied /\ fdt'[g].i_node_ptr = fdt[g].i_node_ptr
              /\ fdt'[g].read_write_ptr = IF g = f THEN loc ELSE fdt[g].read_write_ptr
    <2> DEFINE d == [fdt[f] EXCEPT !.read_write_ptr = loc]
    <2>1. fdt' = IF fdt[f].occupied THEN [fdt EXCEPT ![f] = d] ELSE fdt
      BY <1>1 DEF sfs_fseek
    <2>2. fdt[f] \in Descriptor /\ loc \in Int
      BY <1>1
    <2>3. /\ d \in Descriptor /\ d.i_node_ptr = fdt[f].i_node_ptr
          /\ d.occupied = fdt[f].occupied /\ d.read_write_ptr = loc
      BY <2>2 DEF Descriptor
    <2> HIDE DEF d
    <2> QED BY <1>1, <2>1, <2>3
  <1>4. OthersOK'
    <2>1. ret'.value \in Int
      BY DEF sfs_fseek, Result
    <2> QED BY <1>1, <1>2, <1>3, <2>1 DEF OthersOK, others
  <1>5. OpenFiles'
    BY <1>1, <1>2, <1>3, SameFiles DEF OpenFiles
  <1> QED BY <1>2, <1>3, <1>4, <1>5, SameTables

-----------------------------------------------------------------------------
(* Indirect blocks of other files do not matter to a file.                  *)
LEMMA SameIndirect ==
    ASSUME NEW node \in INode, NEW ind \in Contents, NEW new \in Contents,
           WellFormed(node, ind),
           node.indirect_ptr # None => /\ node.indirect_ptr \in DOMAIN new
                                       /\ new[node.indirect_ptr] = ind[node.indirect_ptr]
    PROVE  /\ \A k \in Slots : Ptr(node, new, k) = Ptr(node, ind, k)
           /\ Used(node, new) = Used(node, ind) /\ WellFormed(node, new)
           /\ Mapped(node, ind) => Mapped(node, new)
  <1>1. None \notin DOMAIN ind /\ None \notin DOMAIN new
    BY ContentsIs, BlockNumbers
  <1>2. Index(node, new) = Index(node, ind)
    BY <1>1 DEF Index, WellFormed
  <1>3. \A k \in Slots : Ptr(node, new, k) = Ptr(node, ind, k)
    BY <1>2 DEF Ptr
  <1> QED BY <1>3 DEF Used, WellFormed, Mapped

(* The blocks of the files other than that of i-node x.                     *)
OtherBlocks(x) == UNION {Used(i_node_table[y], indirect) : y \in FileNodes \ {x}}

LEMMA StartKeeps ==
    ASSUME SfsInv, NEW f \in Entries, fdt[f].occupied, NEW length \in Nat
    PROVE  LET x == fdt[f].i_node_ptr
               a == Start(f, length)
           IN  /\ x \in FileNodes /\ x \in INodes \ {0}
               /\ free_bitmap \cap OtherBlocks(x) = {}
               /\ a \in Transfers /\ Keeps(a, OtherBlocks(x), a)
  <1> DEFINE x == fdt[f].i_node_ptr
             a == Start(f, length)
  <1>1. TablesOK /\ OthersOK /\ Directory /\ DiskOK /\ Storage /\ OpenFiles
    BY InvParts
  <1>2. x \in FileNodes /\ fdt[f].read_write_ptr \in Int
    BY <1>1 DEF OpenFiles, OthersOK, Descriptor
  <1>3. x \in INodes \ {0} /\ i_node_table[x].occupied /\ i_node_table[x] \in INode
    BY <1>1, <1>2 DEF Directory, FileNodes, TablesOK
  <1>4. indirect \in Contents /\ free_bitmap \in SUBSET Blocks
    BY <1>1 DEF DiskOK, TablesOK
  <1>5. a = [ptr |-> fdt[f].read_write_ptr, node |-> i_node_table[x], free |-> free_bitmap,
             ind |-> indirect, left |-> length, block |-> 0]
    BY DEF Start
  <1>6. a \in Transfers
    BY <1>2, <1>3, <1>4, <1>5 DEF Transfers
  <1>7. /\ WellFormed(i_node_table[x], indirect) /\ i_node_table[x].size \in Nat
        /\ Used(i_node_table[x], indirect) \cap free_bitmap = {}
        /\ Used(i_node_table[x], indirect) \cap OtherBlocks(x) = {}
        /\ free_bitmap \cap OtherBlocks(x) = {}
    <2>1. ASSUME NEW y \in FileNodes, y # x
          PROVE  /\ Used(i_node_table[y], indirect) \cap free_bitmap = {}
                 /\ Used(i_node_table[x], indirect) \cap Used(i_node_table[y], indirect) = {}
      BY <1>1, <1>2, <2>1 DEF Storage
    <2> QED BY <1>1, <1>2, <2>1 DEF Storage, OtherBlocks
  <1> HIDE DEF x
  <1>8. a.node = i_node_table[x] /\ a.ind = indirect /\ a.free = free_bitmap
    BY <1>5
  <1> HIDE DEF a
  <1>9. Keeps(a, OtherBlocks(x), a)
    BY <1>3, <1>6, <1>7, <1>8 DEF Keeps, Ready
  <1> QED BY <1>2, <1>3, <1>6, <1>7, <1>9 DEF x, a

(* What a read or write leaves behind: the i-node of its file, the position *)
(* of its descriptor, and the other files as they were.                     *)
TransferDone(f, x, s) ==
    /\ UNCHANGED <<root_dir_table, undefined>> /\ FileNodes' = FileNodes
    /\ i_node_table'[x] = s.node /\ indirect' = s.ind
    /\ \A y \in FileNodes \ {x} :
          /\ i_node_table'[y] = i_node_table[y]
          /\ \A k \in Slots : Ptr(i_node_table[y], s.ind, k) = Ptr(i_node_table[y], indirect, k)
          /\ Mapped(i_node_table[y], indirect) => Mapped(i_node_table[y], s.ind)
    /\ \A g \in Entries :
          /\ fdt'[g].occupied = fdt[g].occupied /\ fdt'[g].i_node_ptr = fdt[g].i_node_ptr
          /\ fdt'[g].read_write_ptr = IF g = f THEN s.ptr ELSE fdt[g].read_write_ptr

LEMMA TransferInv ==
    ASSUME SfsInv, NEW f \in Entries, fdt[f].occupied, NEW length \in Nat, NEW call, NEW s,
           Keeps(Start(f, length), OtherBlocks(fdt[f].i_node_ptr), s),
           s.block # Garbage, Transfer(call, f, length, s)
    PROVE  SfsInv' /\ TransferDone(f, fdt[f].i_node_ptr, s)
  <1> DEFINE x == fdt[f].i_node_ptr
             a == Start(f, length)
             d == [fdt[f] EXCEPT !.read_write_ptr = s.ptr]
  <1>1. /\ TablesOK /\ OthersOK /\ Directory /\ DiskOK /\ INodesClean /\ Storage
        /\ OpenFiles /\ fdt \in [Entries -> Descriptor]
    BY InvParts DEF OthersOK
  <1>2. /\ fdt' = [fdt EXCEPT ![f] = d]
        /\ i_node_table' = [i_node_table EXCEPT ![x] = s.node]
        /\ free_bitmap' = s.free
        /\ ret' = Result(call, length - s.left)
        /\ UNCHANGED <<root_dir_table, curr_file_index, disk_ready, undefined>>
        /\ Save(s.ind)
    BY DEF Transfer
  <1>3. x \in FileNodes /\ x \in INodes \ {0} /\ a.ind = indirect /\ a.free = free_bitmap
    BY StartKeeps DEF Start
  <1> HIDE DEF x, a, d
  <1>4. Keeps(a, OtherBlocks(x), s) /\ s \in Transfers
    BY DEF a, x, Keeps, Ready
  <1>5. /\ s.node \in INode /\ s.ind \in Contents /\ s.free \subseteq Blocks
        /\ s.ptr \in Int /\ s.left \in Nat
    BY <1>4 DEF Transfers
  <1>6. i_node_table' \in [INodes -> INode] /\ i_node_table'[x] = s.node
        /\ \A y \in INodes : y # x => i_node_table'[y] = i_node_table[y]
    BY <1>1, <1>2, <1>3, <1>5 DEF TablesOK
  <1>7. TablesOK'
    BY <1>1, <1>2, <1>5, <1>6 DEF TablesOK
  <1>8. disk' = Image(i_node_table', root_dir_table', free_bitmap', s.ind) /\ indirect' = s.ind
    <2>1. disk' = Image(i_node_table', root_dir_table', free_bitmap', s.ind)
      BY <1>1, <1>2 DEF Save, DiskOK
    <2> QED BY <2>1, ImageIs DEF indirect
  <1>9. DiskOK'
    BY <1>1, <1>2, <1>5, <1>8 DEF DiskOK, DiskMirrors
  <1>10. s.node.occupied /\ s.node.size \in Nat /\ WellFormed(s.node, s.ind)
         /\ Used(s.node, s.ind) \cap s.free = {} /\ s.free \subseteq free_bitmap
         /\ Used(s.node, s.ind) \cap OtherBlocks(x) = {}
    BY <1>3, <1>4 DEF Keeps, Ready
  <1>11. INodesClean'
    BY <1>1, <1>3, <1>6, <1>10, Indices DEF INodesClean, FreeINodesClean
  <1>12. Occupied' = Occupied /\ FileNodes' = FileNodes
    BY <1>2 DEF Occupied, FileNodes
  <1>13. Directory'
    <2>1. ASSUME NEW i \in Occupied
          PROVE  i_node_table'[root_dir_table[i].i_node_ptr].occupied
      BY <1>1, <1>6, <1>10 DEF Directory
    <2> QED BY <1>1, <1>2, <1>12, <2>1 DEF Directory
  <1>14. ASSUME NEW y \in FileNodes \ {x}
         PROVE  /\ i_node_table'[y] = i_node_table[y] /\ y \in INodes
                /\ \A k \in Slots : Ptr(i_node_table[y], s.ind, k) = Ptr(i_node_table[y], indirect, k)
                /\ Used(i_node_table[y], s.ind) = Used(i_node_table[y], indirect)
                /\ WellFormed(i_node_table[y], s.ind)
                /\ Mapped(i_node_table[y], indirect) => Mapped(i_node_table[y], s.ind)
                /\ Used(i_node_table[y], indirect) \subseteq OtherBlocks(x)
    <2>1. y \in INodes /\ i_node_table[y] \in INode /\ indirect \in Contents
      BY <1>1 DEF Directory, FileNodes, TablesOK, DiskOK
    <2>2. WellFormed(i_node_table[y], indirect)
      BY <1>1 DEF Storage
    <2>3. Used(i_node_table[y], indirect) \subseteq OtherBlocks(x)
      BY DEF OtherBlocks
    <2>4. i_node_table[y].indirect_ptr # None =>
             /\ i_node_table[y].indirect_ptr \in DOMAIN indirect
             /\ i_node_table[y].indirect_ptr \in OtherBlocks(x)
      BY <2>2, <2>3 DEF WellFormed, Used
    <2>5. i_node_table[y].indirect_ptr # None =>
             /\ i_node_table[y].indirect_ptr \in DOMAIN s.ind
             /\ s.ind[i_node_table[y].indirect_ptr] = indirect[i_node_table[y].indirect_ptr]
      BY <1>3, <1>4, <2>4 DEF Keeps
    <2> QED BY <1>5, <1>6, <2>1, <2>2, <2>3, <2>5, SameIndirect
  <1>15. Storage'
    <2>1. ASSUME NEW y \in FileNodes
          PROVE  /\ i_node_table'[y].size \in Nat
                 /\ WellFormed(i_node_table'[y], s.ind)
                 /\ Used(i_node_table'[y], s.ind) \cap free_bitmap' = {}
      <3>1. CASE y = x
        BY <1>2, <1>6, <1>10, <3>1
      <3>2. CASE y # x
        BY <1>1, <1>2, <1>10, <1>14, <3>2 DEF Storage
      <3> QED BY <3>1, <3>2
    <2>2. ASSUME NEW y \in FileNodes, NEW z \in FileNodes, y # z
          PROVE  Used(i_node_table'[y], s.ind) \cap Used(i_node_table'[z], s.ind) = {}
      <3>1. CASE y # x /\ z # x
        BY <1>1, <1>14, <2>2, <3>1 DEF Storage
      <3>2. CASE y = x \/ z = x
        BY <1>6, <1>10, <1>14, <2>2, <3>2
      <3> QED BY <3>1, <3>2
    <2> QED BY <1>8, <1>12, <2>1, <2>2 DEF Storage
  <1>16. /\ fdt' \in [Entries -> Descriptor]
         /\ \A g \in Entries :
               /\ fdt'[g].occupied = fdt[g].occupied /\ fdt'[g].i_node_ptr = fdt[g].i_node_ptr
               /\ fdt'[g].read_write_ptr = IF g = f THEN s.ptr ELSE fdt[g].read_write_ptr
    <2>1. fdt[f] \in Descriptor /\ s.ptr \in Int
      BY <1>1, <1>5
    <2>2. /\ d \in Descriptor /\ d.i_node_ptr = fdt[f].i_node_ptr
          /\ d.occupied = fdt[f].occupied /\ d.read_write_ptr = s.ptr
      BY <2>1 DEF Descriptor, d
    <2> QED BY <1>1, <1>2, <2>2
  <1>17. OpenFiles'
    BY <1>1, <1>5, <1>12, <1>16 DEF OpenFiles
  <1>18. OthersOK'
    <2>1. ret'.value \in Int
      BY <1>2, <1>5 DEF Result
    <2> QED BY <1>1, <1>2, <1>16, <2>1 DEF OthersOK
  <1>19. SfsInv'
    BY <1>7, <1>9, <1>11, <1>13, <1>15, <1>17, <1>18, InvParts, PTL
  <1>20. TransferDone(f, x, s)
    BY <1>2, <1>6, <1>8, <1>12, <1>14, <1>16 DEF TransferDone
  <1> QED BY <1>19, <1>20 DEF x

(* A read or write that is refused, jumps to a block that is not there, or  *)
(* is done, whose recursion ended in s.                                     *)
Transferred(f, length, s) ==
    LET x == fdt[f].i_node_ptr
        a == Start(f, length) IN
    \/ UNCHANGED <<fdt, others>>
    \/ /\ fdt[f].occupied /\ s.block = Garbage
       /\ Inside(a, a) => Inside(a, s)
       /\ UNCHANGED <<fdt, tables, disk>>
    \/ /\ fdt[f].occupied /\ x \in FileNodes
       /\ Keeps(a, OtherBlocks(x), s) /\ (Inside(a, a) => Inside(a, s))
       /\ TransferDone(f, x, s)

LEMMA TransferEnds ==
    ASSUME SfsInv, NEW f \in Entries, NEW length \in Lengths, NEW call, NEW s,
           Transfer(call, f, length, s),
           fdt[f].occupied => LET a == Start(f, length) IN
               /\ Keeps(a, OtherBlocks(fdt[f].i_node_ptr), s)
               /\ Inside(a, a) => Inside(a, s)
    PROVE  SfsInv' /\ Transferred(f, length, s)
  <1>1. OthersOK /\ length \in Nat
    BY InvParts, SfsAssumption
  <1>2. CASE ~ fdt[f].occupied
    <2>1. ret' = Result(call, -1) /\ UNCHANGED <<fdt, others>>
      BY <1>2 DEF Transfer
    <2>2. OthersOK' /\ UNCHANGED <<tables, disk, disk_ready, fdt>>
      BY <1>1, <2>1 DEF OthersOK, Result, others
    <2> QED BY <2>1, <2>2, SameDescriptors DEF Transferred
  <1>3. CASE fdt[f].occupied /\ s.block = Garbage
    <2>1. /\ undefined' = "bad_block"
          /\ UNCHANGED <<fdt, tables, curr_file_index, disk, disk_ready, ret>>
      BY <1>3 DEF Transfer
    <2>2. OthersOK' /\ UNCHANGED <<tables, disk, disk_ready, fdt>>
      BY <1>1, <2>1 DEF OthersOK
    <2> QED BY <1>3, <2>1, <2>2, SameDescriptors DEF Transferred
  <1>4. CASE fdt[f].occupied /\ s.block # Garbage
    <2>1. fdt[f].i_node_ptr \in FileNodes
      BY <1>1, <1>4, StartKeeps
    <2>2. SfsInv' /\ TransferDone(f, fdt[f].i_node_ptr, s)
      BY <1>1, <1>4, TransferInv
    <2> QED BY <1>4, <2>1, <2>2 DEF Transferred
  <1> QED BY <1>2, <1>3, <1>4

LEMMA FwriteInv ==
    ASSUME SfsInv, NEW f \in Entries, NEW length \in Lengths, sfs_fwrite(f, length)
    PROVE  SfsInv' /\ Transferred(f, length, sfs_fwrite_recursive(f, length))
  <1> DEFINE a == Start(f, length)
             s == sfs_fwrite_recursive(f, length)
             x == fdt[f].i_node_ptr
  <1>1. length \in Nat /\ disk_ready
    BY InvParts, SfsAssumption DEF DiskOK
  <1>2. ASSUME fdt[f].occupied
        PROVE  Keeps(a, OtherBlocks(x), s) /\ (Inside(a, a) => Inside(a, s))
    <2>1. Keeps(a, OtherBlocks(x), a) /\ free_bitmap \cap OtherBlocks(x) = {}
      BY <1>1, <1>2, StartKeeps
    <2> QED BY <1>1, <2>1, WriteKeeps
  <1>3. Transfer("sfs_fwrite", f, length, s)
    BY DEF sfs_fwrite
  <1> QED BY <1>2, <1>3, TransferEnds

LEMMA FreadInv ==
    ASSUME SfsInv, NEW f \in Entries, NEW length \in Lengths, sfs_fread(f, length)
    PROVE  SfsInv' /\ Transferred(f, length, sfs_fread_recursive(f, length))
  <1> DEFINE a == Start(f, length)
             s == sfs_fread_recursive(f, length)
             x == fdt[f].i_node_ptr
  <1>1. length \in Nat /\ disk_ready
    BY InvParts, SfsAssumption DEF DiskOK
  <1>2. ASSUME fdt[f].occupied
        PROVE  Keeps(a, OtherBlocks(x), s) /\ (Inside(a, a) => Inside(a, s))
    <2>1. Keeps(a, OtherBlocks(x), a) /\ a \in Transfers
      BY <1>1, <1>2, StartKeeps
    <2>2. a.node.size \in Nat
      BY <2>1 DEF Keeps
    <2>3. ReadsOnly(a, s) /\ (Inside(a, a) => Inside(a, s))
      BY <1>1, <2>1, <2>2, ReadKeeps
    <2> HIDE DEF a, s, x
    <2>4. Keeps(a, OtherBlocks(x), s)
      BY <2>1, <2>3 DEF Keeps, Ready, ReadsOnly, PtrOf
    <2> QED BY <2>3, <2>4
  <1>3. Transfer("sfs_fread", f, length, s)
    BY DEF sfs_fread
  <1> QED BY <1>2, <1>3, TransferEnds

-----------------------------------------------------------------------------
LEMMA RemoveMissingInv ==
    ASSUME SfsInv, NEW name \in Names, RemoveMissing(name)
    PROVE  SfsInv' /\ UNCHANGED <<fdt, others>>
  <1>1. OthersOK
    BY InvParts
  <1>2. UNCHANGED <<fdt, others>> /\ UNCHANGED <<tables, disk, disk_ready, fdt>>
    BY DEF RemoveMissing, others
  <1>3. OthersOK'
    BY <1>1, <1>2 DEF RemoveMissing, OthersOK, Result, others
  <1> QED BY <1>2, <1>3, SameDescriptors

LEMMA PointersFreedUsed ==
    ASSUME NEW node \in INode, indirect \in Contents, WellFormed(node, indirect)
    PROVE  PointersFreed(node) \ {None} \subseteq Used(node, indirect)
  <1>1. ASSUME NEW p \in Range(node.direct_ptr), p # None
        PROVE  p \in Used(node, indirect)
    <2>1. PICK k \in DirectSlots : p = node.direct_ptr[k]
      BY DEF Range, INode
    <2>2. k \in Slots /\ Ptr(node, indirect, k) = p
      BY <2>1, SlotOf DEF Ptr
    <2> QED BY <1>1, <2>2 DEF Used
  <1>2. ASSUME node.indirect_ptr # None, NEW p \in Range(indirect[node.indirect_ptr]), p # None
        PROVE  p \in Used(node, indirect)
    <2>1. node.indirect_ptr \in DOMAIN indirect
      BY <1>2 DEF WellFormed
    <2>2. Index(node, indirect) = indirect[node.indirect_ptr]
          /\ DOMAIN indirect[node.indirect_ptr] = IndexSlots
      BY <2>1, ContentsIs DEF Index, Pointers
    <2>3. PICK k \in IndexSlots : p = indirect[node.indirect_ptr][k]
      BY <1>2, <2>2 DEF Range
    <2>4. k + DIRECT_PTR_NUM \in Slots /\ Ptr(node, indirect, k + DIRECT_PTR_NUM) = p
      BY <2>2, <2>3, SlotOf DEF Ptr
    <2> QED BY <1>2, <2>4 DEF Used
  <1> QED BY <1>1, <1>2 DEF PointersFreed

(* The removed file's i-node is free, the other files are as they were.     *)
RemoveDone(x) ==
    /\ UNCHANGED <<fdt, undefined>> /\ FileNodes' = FileNodes \ {x} /\ indirect' = indirect
    /\ \A y \in FileNodes \ {x} : i_node_table'[y] = i_node_table[y]
    /\ \A i \in Occupied' : i \in Occupied /\ root_dir_table'[i] = root_dir_table[i]
    /\ \A f \in Entries : fdt[f].occupied => fdt[f].i_node_ptr # x

LEMMA RemoveCompletes ==
    ASSUME Overlay = "padding", "RemoveOpen" \notin Habits,
           NEW name \in Names, InvBut({INodeOf(name)}), RemoveExisting(name)
    PROVE  SfsInv' /\ RemoveDone(INodeOf(name))
  <1> DEFINE h == get_file(name)
             x == INodeOf(name)
             node == i_node_table[x]
             freed == PointersFreed(node) \ {None}
             e == [file_name |-> NoName, i_node_ptr |-> None, occupied |-> FALSE]
  <1>1. /\ TablesOK /\ OthersOK /\ DirectoryBut({x}) /\ DiskOK /\ INodesClean
        /\ StorageBut({x}) /\ OpenFiles /\ disk_ready /\ indirect \in Contents
    BY InvButParts DEF DiskOK
  <1>2. does_file_exist(name) /\ OpenFd(name) = None
    BY DEF RemoveExisting, CanRemove
  <1>3. /\ h \in Occupied /\ h # None /\ x \in FileNodes
        /\ root_dir_table[h].file_name = name /\ root_dir_table[h].i_node_ptr = x
    BY <1>1, <1>2, FileFoundBut DEF INodeOf
  <1>4. h \in Entries /\ x \in INodes \ {0} /\ x \in INodes /\ node \in INode
    BY <1>1, <1>3 DEF DirectoryBut, FileNodes, Occupied, TablesOK
  <1>5. get_fd(None) = None
    <2> DEFINE S == {i \in Entries : fdt[i].i_node_ptr = None /\ fdt[i].occupied}
    <2>1. FileNodes \subseteq INodes /\ None \notin FileNodes
      BY <1>1, Indices DEF DirectoryBut, FileNodes
    <2>3. S = {}
      BY <1>1, <2>1 DEF OpenFiles
    <2>2. First(S) = None
      BY <2>3 DEF First
    <2> QED BY <2>2 DEF get_fd
  <1>6. WellFormed(node, indirect)
    BY <1>1, <1>3 DEF StorageBut
  <1>7. /\ root_dir_table' = [root_dir_table EXCEPT ![h] = e]
        /\ disk_ready' = disk_ready /\ fdt' = fdt
        /\ i_node_table' = [i_node_table EXCEPT ![x] = FreeINode]
        /\ free_bitmap' = free_bitmap \cup freed
        /\ undefined' = undefined /\ curr_file_index' = curr_file_index
        /\ ret' = Result("sfs_remove", 1)
        /\ Save(indirect)
    <2>1. disk_ready' = disk_ready /\ fdt' = fdt
      BY <1>1, <1>5 DEF RemoveExisting, DiskOK
    <2>2. node.indirect_ptr # None => CanRead(disk_ready', indirect, node.indirect_ptr)
      BY <1>1, <1>6, <2>1 DEF CanRead, WellFormed
    <2> QED BY <2>1, <2>2 DEF RemoveExisting, RemovedEntry, RemovedINode, Cleared
  <1>8. freed \subseteq Used(node, indirect) /\ freed \subseteq Blocks
    BY <1>1, <1>4, <1>6, PointersFreedUsed, PtrType
  <1>9. \A g \in Entries : fdt[g].occupied => fdt[g].i_node_ptr # x
    BY <1>2, <1>3, NotOpen DEF OpenFd
  <1> HIDE DEF h, x
  <1>10. /\ e \in RootEntry /\ ~ e.occupied /\ e.file_name = NoName
         /\ e.i_node_ptr = None
    BY DEF RootEntry
  <1> HIDE DEF e
  <1>11. /\ i_node_table' \in [INodes -> INode] /\ i_node_table'[x] = FreeINode
         /\ \A y \in INodes : y # x => i_node_table'[y] = i_node_table[y]
         /\ root_dir_table' \in [Entries -> RootEntry]
         /\ \A i \in Entries : root_dir_table'[i] = IF i = h THEN e ELSE root_dir_table[i]
    BY <1>1, <1>4, <1>7, <1>10, EmptyTables DEF TablesOK
  <1>12. TablesOK'
    BY <1>1, <1>7, <1>8, <1>11 DEF TablesOK
  <1>13. OthersOK'
    BY <1>1, <1>7 DEF OthersOK, Result
  <1>14. disk' = Image(i_node_table', root_dir_table', free_bitmap', indirect)
         /\ indirect' = indirect
    <2>1. disk' = Image(i_node_table', root_dir_table', free_bitmap', indirect)
      BY <1>1, <1>7 DEF Save
    <2> QED BY <2>1, ImageIs DEF indirect
  <1>15. DiskOK'
    BY <1>1, <1>7, <1>14 DEF DiskOK, DiskMirrors
  <1>16. INodesClean'
    BY <1>1, <1>4, <1>11, Indices DEF INodesClean, FreeINodesClean
  <1>17. Occupied' = Occupied \ {h} /\ FileNodes' = FileNodes \ {x}
    <2>1. Occupied' = Occupied \ {h}
      BY <1>10, <1>11 DEF Occupied
    <2>2. \A i \in Occupied \ {h} : /\ root_dir_table'[i].i_node_ptr = root_dir_table[i].i_node_ptr
                                    /\ root_dir_table[i].i_node_ptr # x
      BY <1>1, <1>3, <1>11 DEF DirectoryBut, Occupied
    <2> QED BY <1>3, <2>1, <2>2 DEF FileNodes
  <1>18. \A y \in FileNodes \ {x} : y \in INodes /\ i_node_table'[y] = i_node_table[y]
    BY <1>1, <1>11 DEF DirectoryBut, FileNodes
  <1>19. Directory'
    <2>1. ASSUME NEW i \in Occupied'
          PROVE  /\ i \in Occupied /\ root_dir_table'[i] = root_dir_table[i]
                 /\ root_dir_table[i].i_node_ptr \in FileNodes \ {x}
                 /\ root_dir_table[i].file_name \in Names
      BY <1>1, <1>3, <1>11, <1>17 DEF DirectoryBut, Occupied, FileNodes
    <2>2. ASSUME NEW i \in Occupied', NEW j \in Entries,
                 root_dir_table'[j].file_name = root_dir_table'[i].file_name
          PROVE  i <= j
      <3>1. j # h
        BY <1>10, <1>11, <2>1, <2>2, SfsAssumption
      <3> QED BY <1>1, <1>11, <2>1, <2>2, <3>1 DEF DirectoryBut
    <2>3. ASSUME NEW i \in Entries \ Occupied'
          PROVE  root_dir_table'[i].i_node_ptr \in {None, 0}
      BY <1>1, <1>10, <1>11, <1>17 DEF DirectoryBut
    <2> QED BY <1>1, <1>18, <2>1, <2>2, <2>3 DEF DirectoryBut, Directory
  <1>20. Storage'
    <2>1. ASSUME NEW y \in FileNodes \ {x}
          PROVE  Used(i_node_table[y], indirect) \cap (free_bitmap \cup freed) = {}
      BY <1>1, <1>3, <1>8 DEF StorageBut
    <2> HIDE DEF freed
    <2> QED BY <1>1, <1>7, <1>14, <1>17, <1>18, <2>1 DEF StorageBut, Storage
  <1>21. OpenFiles'
    BY <1>1, <1>7, <1>9, <1>17 DEF OpenFiles
  <1>22. SfsInv'
    BY <1>12, <1>13, <1>15, <1>16, <1>19, <1>20, <1>21, InvParts, PTL
  <1>23. \A i \in Occupied' : i \in Occupied /\ root_dir_table'[i] = root_dir_table[i]
    BY <1>11, <1>17 DEF Occupied
  <1>24. RemoveDone(x)
    BY <1>7, <1>9, <1>14, <1>17, <1>18, <1>23 DEF RemoveDone
  <1> QED BY <1>22, <1>24 DEF x

LEMMA RemoveExistingInv ==
    ASSUME SfsInv, Overlay = "padding", "RemoveOpen" \notin Habits,
           NEW name \in Names, RemoveExisting(name)
    PROVE  SfsInv' /\ RemoveDone(INodeOf(name))
  BY WithoutRemoval, RemoveCompletes

-----------------------------------------------------------------------------
(* What every call does to the files that are there before and after it:    *)
(* their directory entries and the blocks they have stay.                   *)
Stays ==
    /\ \A i \in Occupied' : \/ (i \in Occupied /\ root_dir_table'[i] = root_dir_table[i])
                            \/ ~ does_file_exist(root_dir_table'[i].file_name)
    /\ \A x \in FileNodes \cap FileNodes' : \A k \in Slots :
          Ptr(i_node_table[x], indirect, k) # None =>
              Ptr(i_node_table'[x], indirect', k) = Ptr(i_node_table[x], indirect, k)

InsideFiles == \A f \in Entries : fdt[f].occupied =>
                  fdt[f].read_write_ptr \in 0 .. i_node_table[fdt[f].i_node_ptr].size

StepOK == SfsInv' /\ Stays /\ (Habits = {} /\ Careful => Careful')

LEMMA SameTablesStep ==
    ASSUME SfsInv', UNCHANGED <<tables, disk>>,
           Habits = {} /\ Careful => undefined' # "bad_block" /\ InsideFiles'
    PROVE  StepOK
  <1>1. /\ Occupied' = Occupied /\ FileNodes' = FileNodes /\ indirect' = indirect
        /\ i_node_table' = i_node_table /\ root_dir_table' = root_dir_table
    BY DEF Occupied, FileNodes, indirect, tables
  <1>2. Stays
    BY <1>1 DEF Stays
  <1>3. ASSUME Habits = {}, Careful PROVE Careful'
    BY <1>1, <1>3 DEF Careful, InsideFiles
  <1> QED BY <1>2, <1>3 DEF StepOK

LEMMA SameDescriptorsStep ==
    ASSUME SfsInv', UNCHANGED <<tables, disk, fdt>>,
           Habits = {} /\ Careful => undefined' # "bad_block"
    PROVE  StepOK
  <1>1. Careful => InsideFiles'
    BY DEF Careful, InsideFiles, tables
  <1> QED BY <1>1, SameTablesStep

LEMMA FormatStep ==
    ASSUME SfsInv, "FormatFull" \notin Habits, Format
    PROVE  StepOK
  <1>1. /\ SfsInv' /\ Occupied' = {} /\ FileNodes' = {} /\ undefined' = undefined
        /\ \A f \in Entries : ~ fdt'[f].occupied
    BY FormatInv DEF FileNodes
  <1> QED BY <1>1 DEF StepOK, Stays, Careful

LEMMA LoadStep ==
    ASSUME SfsInv, Restart \/ Remount
    PROVE  StepOK
  <1>1. /\ SfsInv' /\ UNCHANGED <<i_node_table, indirect, undefined>>
        /\ FileNodes' \subseteq FileNodes
        /\ \A i \in Occupied' : i \in Occupied /\ root_dir_table'[i] = root_dir_table[i]
        /\ \A f \in Entries : ~ fdt'[f].occupied
    BY MountInv
  <1>2. Stays
    BY <1>1 DEF Stays
  <1>3. Careful => Careful'
    BY <1>1 DEF Careful
  <1> QED BY <1>1, <1>2, <1>3 DEF StepOK

LEMMA FopenStep ==
    ASSUME SfsInv, NEW name \in Names, sfs_fopen(name)
    PROVE  StepOK
  <1>1. CASE FopenAgain(name)
    <2>1. SfsInv' /\ UNCHANGED <<tables, disk, fdt>> /\ undefined' = undefined
      BY <1>1, FopenAgainInv DEF FopenAgain, others
    <2> QED BY <2>1, SameDescriptorsStep DEF Careful
  <1>2. CASE FopenExisting(name)
    <2>1. SfsInv' /\ UNCHANGED <<tables, disk>> /\ UNCHANGED i_node_table
          /\ undefined' = undefined
      BY <1>2, FopenExistingInv DEF others, tables
    <2>2. ASSUME Careful, NEW f \in Entries, fdt'[f].occupied
          PROVE  fdt'[f].read_write_ptr \in 0 .. i_node_table[fdt'[f].i_node_ptr].size
      <3>1. \/ (fdt[f].occupied /\ fdt'[f] = fdt[f])
            \/ fdt'[f].read_write_ptr = i_node_table[fdt'[f].i_node_ptr].size
        BY <1>2, <2>2, FopenExistingInv
      <3>2. OpenFiles' /\ Storage' /\ FileNodes' = FileNodes
        BY <2>1, SameFiles DEF SfsInv
      <3>3. i_node_table[fdt'[f].i_node_ptr].size \in Nat
        BY <2>1, <2>2, <3>2 DEF OpenFiles, Storage
      <3> QED BY <2>2, <3>1, <3>3 DEF Careful
    <2>3. Careful => undefined' # "bad_block" /\ InsideFiles'
      BY <2>1, <2>2 DEF Careful, InsideFiles
    <2> QED BY <2>1, <2>3, SameTablesStep
  <1>3. CASE FopenCreate(name)
    <2> DEFINE x == get_the_first_free_i_node
    <2>1. SfsInv' /\ CreateDone(name, x)
      BY <1>3, FopenCreateInv
    <2> HIDE DEF x
    <2>2. Stays
      BY <2>1 DEF Stays, CreateDone
    <2>3. ASSUME Careful PROVE Careful'
      <3>1. indirect \in Contents /\ OpenFiles
        BY InvParts DEF DiskOK
      <3>2. ASSUME NEW y \in FileNodes' PROVE Mapped(i_node_table'[y], indirect')
        BY <2>1, <2>3, <3>1, NewINodeUsesNothing DEF CreateDone, Careful
      <3>3. ASSUME NEW f \in Entries, fdt'[f].occupied
            PROVE  fdt'[f].read_write_ptr \in 0 .. i_node_table'[fdt'[f].i_node_ptr].size
        <4>1. CASE fdt[f].occupied /\ fdt'[f] = fdt[f]
          BY <2>1, <2>3, <3>1, <4>1 DEF CreateDone, Careful, OpenFiles
        <4>2. CASE fdt'[f].i_node_ptr = x /\ fdt'[f].read_write_ptr = 0
          BY <2>1, <4>2, EmptyTables DEF CreateDone
        <4> QED BY <2>1, <3>3, <4>1, <4>2 DEF CreateDone
      <3> QED BY <2>1, <2>3, <3>2, <3>3 DEF Careful, CreateDone
    <2> QED BY <2>1, <2>2, <2>3 DEF StepOK
  <1>4. CASE FopenOutOfBounds(name)
    <2>1. SfsInv' /\ UNCHANGED <<tables, disk, fdt>> /\ undefined' # "bad_block"
      BY <1>4, FopenOutOfBoundsInv DEF FopenOutOfBounds
    <2> QED BY <2>1, SameDescriptorsStep
  <1>5. CASE FopenTooLong(name)
    <2>1. SfsInv' /\ UNCHANGED <<tables, disk, fdt>> /\ undefined' = undefined
      BY <1>5, FopenTooLongInv DEF FopenTooLong, others
    <2> QED BY <2>1, SameDescriptorsStep DEF Careful
  <1> QED BY <1>1, <1>2, <1>3, <1>4, <1>5 DEF sfs_fopen, FopenShort

LEMMA FcloseStep ==
    ASSUME SfsInv, NEW f \in Entries, sfs_fclose(f)
    PROVE  StepOK
  <1>1. /\ SfsInv' /\ UNCHANGED <<tables, disk>> /\ UNCHANGED <<i_node_table, undefined>>
        /\ \A g \in Entries : fdt'[g].occupied => fdt'[g] = fdt[g]
    BY FcloseInv DEF others, tables
  <1>2. Careful => undefined' # "bad_block" /\ InsideFiles'
    BY <1>1 DEF Careful, InsideFiles
  <1> QED BY <1>1, <1>2, SameTablesStep

LEMMA FseekStep ==
    ASSUME SfsInv, NEW f \in Entries, NEW loc \in Seeks, sfs_fseek(f, loc)
    PROVE  StepOK
  <1>1. /\ SfsInv' /\ UNCHANGED <<tables, disk>> /\ UNCHANGED <<i_node_table, undefined>>
        /\ \A g \in Entries : fdt'[g].occupied =>
              /\ fdt[g].occupied /\ fdt'[g].i_node_ptr = fdt[g].i_node_ptr
              /\ fdt'[g].read_write_ptr = IF g = f THEN loc ELSE fdt[g].read_write_ptr
    BY FseekInv DEF others, tables
  <1>2. Habits = {} /\ fdt[f].occupied => loc \in 0 .. i_node_table[fdt[f].i_node_ptr].size
    BY DEF sfs_fseek
  <1>3. Habits = {} /\ Careful => undefined' # "bad_block" /\ InsideFiles'
    BY <1>1, <1>2 DEF Careful, InsideFiles
  <1> QED BY <1>1, <1>3, SameTablesStep

LEMMA StartInside ==
    ASSUME SfsInv, Careful, NEW f \in Entries, fdt[f].occupied, NEW length \in Nat
    PROVE  Inside(Start(f, length), Start(f, length))
  <1> DEFINE x == fdt[f].i_node_ptr
             a == Start(f, length)
  <1>1. x \in FileNodes /\ i_node_table[x].size \in Nat
    BY DEF SfsInv, OpenFiles, Storage
  <1>2. fdt[f].read_write_ptr \in 0 .. i_node_table[x].size /\ Mapped(i_node_table[x], indirect)
    BY <1>1 DEF Careful
  <1>3. /\ a.ptr = fdt[f].read_write_ptr /\ a.node = i_node_table[x] /\ a.ind = indirect
        /\ a.left = length /\ a.block = 0
    BY DEF Start
  <1> HIDE DEF x, a
  <1>4. a.block # Garbage
    BY <1>3 DEF Garbage
  <1>5. a.node.size = Larger(a.node.size, a.ptr)
    BY <1>1, <1>2, <1>3 DEF Larger
  <1> QED BY <1>1, <1>2, <1>3, <1>4, <1>5 DEF Inside, a

LEMMA TransferStep ==
    ASSUME SfsInv, SfsInv', NEW f \in Entries, NEW length \in Lengths, NEW s,
           Transferred(f, length, s)
    PROVE  StepOK
  <1> DEFINE x == fdt[f].i_node_ptr
             a == Start(f, length)
  <1>1. Careful /\ fdt[f].occupied => Inside(a, a)
    BY StartInside, SfsAssumption
  <1>2. CASE UNCHANGED <<fdt, others>>
    <2>1. UNCHANGED <<tables, disk, fdt>> /\ undefined' = undefined
      BY <1>2 DEF others
    <2> QED BY <2>1, SameDescriptorsStep DEF Careful
  <1>3. CASE /\ fdt[f].occupied /\ s.block = Garbage
             /\ Inside(a, a) => Inside(a, s)
             /\ UNCHANGED <<fdt, tables, disk>>
    <2>1. ~ Careful
      BY <1>1, <1>3 DEF Inside
    <2>2. UNCHANGED <<tables, disk, fdt>>
      BY <1>3
    <2> QED BY <2>1, <2>2, SameDescriptorsStep
  <1>4. CASE /\ fdt[f].occupied /\ x \in FileNodes
             /\ Keeps(a, OtherBlocks(x), s) /\ (Inside(a, a) => Inside(a, s))
             /\ TransferDone(f, x, s)
    <2>1. a.node = i_node_table[x] /\ a.ind = indirect
      BY DEF Start
    <2> HIDE DEF a, x
    <2>2. \A k \in Slots : Ptr(i_node_table[x], indirect, k) # None =>
                               Ptr(s.node, s.ind, k) = Ptr(i_node_table[x], indirect, k)
      BY <1>4, <2>1 DEF Keeps, PtrOf
    <2>3. Occupied' = Occupied
      BY <1>4 DEF TransferDone, Occupied
    <2>4. Stays
      BY <1>4, <2>2, <2>3 DEF Stays, TransferDone
    <2>5. ASSUME Careful PROVE Careful'
      <3>1. Inside(a, s)
        BY <1>1, <1>4, <2>5
      <3>2. ASSUME NEW y \in FileNodes PROVE Mapped(i_node_table'[y], indirect')
        BY <1>4, <2>5, <3>1, <3>2 DEF TransferDone, Inside, Careful
      <3>3. ASSUME NEW g \in Entries, fdt'[g].occupied
            PROVE  fdt'[g].read_write_ptr \in 0 .. i_node_table'[fdt'[g].i_node_ptr].size
        <4>1. /\ fdt[g].occupied /\ fdt'[g].i_node_ptr = fdt[g].i_node_ptr
              /\ fdt'[g].read_write_ptr = IF g = f THEN s.ptr ELSE fdt[g].read_write_ptr
              /\ fdt[g].i_node_ptr \in FileNodes
              /\ fdt[g].i_node_ptr = x => g = f
          BY <1>4, <3>3 DEF TransferDone, SfsInv, OpenFiles, x
        <4>2. CASE g = f
          BY <1>4, <3>1, <4>1, <4>2 DEF TransferDone, Inside, x
        <4>3. CASE g # f
          BY <1>4, <2>5, <4>1, <4>3 DEF TransferDone, Careful
        <4> QED BY <4>2, <4>3
      <3> QED BY <1>4, <2>5, <3>2, <3>3 DEF TransferDone, Careful
    <2> QED BY <2>4, <2>5 DEF StepOK
  <1> QED BY <1>2, <1>3, <1>4 DEF Transferred

LEMMA RemoveStep ==
    ASSUME SfsInv, Overlay = "padding", "RemoveOpen" \notin Habits,
           NEW name \in Names, sfs_remove(name)
    PROVE  StepOK
  <1>1. CASE RemoveMissing(name)
    <2>1. SfsInv' /\ UNCHANGED <<tables, disk, fdt>> /\ undefined' = undefined
      BY <1>1, RemoveMissingInv DEF others
    <2> QED BY <2>1, SameDescriptorsStep DEF Careful
  <1>2. CASE RemoveExisting(name)
    <2> DEFINE x == INodeOf(name)
    <2>1. SfsInv' /\ RemoveDone(x) /\ OpenFiles
      BY <1>2, RemoveExistingInv DEF SfsInv
    <2> HIDE DEF x
    <2>2. Stays
      BY <2>1 DEF Stays, RemoveDone
    <2>3. ASSUME Careful PROVE Careful'
      <3>1. \A y \in FileNodes' : Mapped(i_node_table'[y], indirect')
        BY <2>1, <2>3 DEF RemoveDone, Careful
      <3>2. ASSUME NEW f \in Entries, fdt'[f].occupied
            PROVE  fdt'[f].read_write_ptr \in 0 .. i_node_table'[fdt'[f].i_node_ptr].size
        BY <2>1, <2>3, <3>2 DEF RemoveDone, Careful, OpenFiles
      <3> QED BY <2>1, <2>3, <3>1, <3>2 DEF RemoveDone, Careful
    <2> QED BY <2>1, <2>2, <2>3 DEF StepOK
  <1> QED BY <1>1, <1>2 DEF sfs_remove

(* Every call keeps the invariant; the client may be careless in one way.   *)
LEMMA CallStep ==
    ASSUME Overlay = "padding", Habits \subseteq {"SeekOutside"}, SfsInv, Call
    PROVE  StepOK
  <1>1. "FormatFull" \notin Habits /\ "RemoveOpen" \notin Habits
    OBVIOUS
  <1>2. CASE Format
    BY <1>1, <1>2, FormatStep
  <1>3. CASE Restart \/ Remount
    BY <1>3, LoadStep
  <1>4. CASE sfs_getnextfilename
    <2>1. UNCHANGED <<tables, disk, fdt>> /\ undefined' = undefined
      BY <1>4 DEF sfs_getnextfilename
    <2> QED BY <1>4, <2>1, NextFileNameInv, SameDescriptorsStep DEF Careful
  <1>5. ASSUME NEW name \in Names, sfs_getfilesize(name) PROVE StepOK
    <2>1. UNCHANGED <<tables, disk, fdt>> /\ undefined' = undefined
      BY <1>5 DEF sfs_getfilesize, others
    <2> QED BY <1>5, <2>1, GetFileSizeInv, SameDescriptorsStep DEF Careful
  <1>6. ASSUME NEW name \in Names, sfs_fopen(name) PROVE StepOK
    BY <1>6, FopenStep
  <1>7. ASSUME NEW name \in Names, sfs_remove(name) PROVE StepOK
    BY <1>1, <1>7, RemoveStep
  <1>8. ASSUME NEW f \in Entries, sfs_fclose(f) PROVE StepOK
    BY <1>8, FcloseStep
  <1>9. ASSUME NEW f \in Entries, NEW length \in Lengths, sfs_fwrite(f, length) PROVE StepOK
    BY <1>9, FwriteInv, TransferStep
  <1>10. ASSUME NEW f \in Entries, NEW loc \in Seeks, sfs_fseek(f, loc) PROVE StepOK
    BY <1>10, FseekStep
  <1>11. ASSUME NEW f \in Entries, NEW length \in Lengths, sfs_fread(f, length) PROVE StepOK
    BY <1>11, FreadInv, TransferStep
  <1> QED BY <1>2, <1>3, <1>4, <1>5, <1>6, <1>7, <1>8, <1>9, <1>10, <1>11 DEF Call, Change, Query

-----------------------------------------------------------------------------
(* What the inductive invariants say in the words of Sfs.                   *)
LEMMA SameBlocks ==
    ASSUME NEW node
    PROVE  /\ BlocksOf(node) = Used(node, indirect)
           /\ \A k \in Slots : PointerAt(node, k) = Ptr(node, indirect, k)
  <1>1. IndexOf(node) = Index(node, indirect)
    BY DEF IndexOf, Index
  <1>2. \A k \in Slots : PointerAt(node, k) = Ptr(node, indirect, k)
    BY <1>1 DEF PointerAt, Ptr
  <1>3. {PointerAt(node, k) : k \in Slots} = {Ptr(node, indirect, k) : k \in Slots}
    BY <1>2
  <1> QED BY <1>2, <1>3 DEF BlocksOf, Used

LEMMA FilesAreNodes ==
    ASSUME Directory
    PROVE  /\ \A n \in Files : INodeOf(n) \in FileNodes
           /\ \A m, n \in Files : INodeOf(m) = INodeOf(n) => m = n
           /\ \A x \in FileNodes : \E n \in Files : x = INodeOf(n)
  <1>1. ASSUME NEW n \in Files
        PROVE  /\ get_file(n) \in Occupied /\ root_dir_table[get_file(n)].file_name = n
               /\ \A i \in Occupied : root_dir_table[i].file_name = n => i = get_file(n)
               /\ INodeOf(n) \in FileNodes
    BY FileFound DEF Files
  <1>2. ASSUME NEW m \in Files, NEW n \in Files, INodeOf(m) = INodeOf(n) PROVE m = n
    <2>1. get_file(m) = get_file(n)
      BY <1>1, <1>2 DEF Directory, INodeOf
    <2> QED BY <1>1, <2>1
  <1>3. ASSUME NEW x \in FileNodes PROVE \E n \in Files : x = INodeOf(n)
    <2>1. PICK i \in Occupied : x = root_dir_table[i].i_node_ptr
      BY DEF FileNodes
    <2> DEFINE n == root_dir_table[i].file_name
    <2>2. n \in Files
      BY DEF Directory, Files, does_file_exist, Occupied
    <2>3. i = get_file(n)
      BY <1>1, <2>2
    <2> QED BY <2>1, <2>2, <2>3 DEF INodeOf
  <1> QED BY <1>1, <1>2, <1>3

LEMMA InvNoCrossLinks ==
    ASSUME SfsInv PROVE NoCrossLinks
  <1>1. Directory /\ Storage
    BY DEF SfsInv
  <1>2. ASSUME NEW n \in Files
        PROVE  /\ BlocksOf(NodeOf(n)) \cap free_bitmap = {}
               /\ WellFormed(NodeOf(n), indirect)
    <2>1. INodeOf(n) \in FileNodes
      BY <1>1, FilesAreNodes
    <2> QED BY <1>1, <2>1, SameBlocks DEF Storage, NodeOf
  <1>3. ASSUME NEW m \in Files, NEW n \in Files, m # n
        PROVE  BlocksOf(NodeOf(m)) \cap BlocksOf(NodeOf(n)) = {}
    <2>1. INodeOf(m) \in FileNodes /\ INodeOf(n) \in FileNodes /\ INodeOf(m) # INodeOf(n)
      BY <1>1, <1>3, FilesAreNodes
    <2> QED BY <1>1, <2>1, SameBlocks DEF Storage, NodeOf
  <1>4. ASSUME NEW n \in Files, NEW j \in Slots, NEW k \in Slots
        PROVE  LET p == PointerAt(NodeOf(n), j) IN
               /\ p # None => p # NodeOf(n).indirect_ptr
               /\ p # None /\ p = PointerAt(NodeOf(n), k) => j = k
    BY <1>2, SameBlocks DEF WellFormed
  <1> QED BY <1>2, <1>3, <1>4 DEF NoCrossLinks

LEMMA InvLookupAgrees ==
    ASSUME SfsInv PROVE LookupAgrees
  <1>1. Directory
    BY DEF SfsInv
  <1>2. \A n \in Files : root_dir_table[get_file(n)].occupied
    BY <1>1, FileFound DEF Files, Occupied
  <1>3. ASSUME NEW i \in Entries, NEW j \in Entries,
               root_dir_table[i].occupied, root_dir_table[j].occupied
        PROVE  /\ i_node_table[root_dir_table[i].i_node_ptr].occupied
               /\ root_dir_table[i].file_name = root_dir_table[j].file_name => i = j
               /\ root_dir_table[i].i_node_ptr = root_dir_table[j].i_node_ptr => i = j
    <2>1. i \in Occupied /\ j \in Occupied /\ i \in Nat /\ j \in Nat
      BY <1>3, Indices DEF Occupied
    <2>2. root_dir_table[i].file_name = root_dir_table[j].file_name => i <= j /\ j <= i
      BY <1>1, <2>1 DEF Directory
    <2> QED BY <1>1, <2>1, <2>2 DEF Directory
  <1> QED BY <1>2, <1>3 DEF LookupAgrees

LEMMA InvEveryByteMapped ==
    ASSUME CarefulInv PROVE EveryByteMapped
  <1>1. ASSUME NEW n \in Files PROVE Mapped(NodeOf(n), indirect)
    BY FilesAreNodes DEF CarefulInv, Careful, SfsInv, NodeOf
  <1> QED BY <1>1, SameBlocks DEF EveryByteMapped, Mapped, Offset

LEMMA InvDescriptorsValid ==
    ASSUME CarefulInv PROVE DescriptorsValid
  <1> SUFFICES ASSUME NEW f \in Entries, NEW g \in Entries, fdt[f].occupied
               PROVE  /\ \E n \in Files : fdt[f].i_node_ptr = INodeOf(n)
                      /\ fdt[f].read_write_ptr \in 0 .. i_node_table[fdt[f].i_node_ptr].size
                      /\ fdt[g].occupied /\ fdt[f].i_node_ptr = fdt[g].i_node_ptr => f = g
    BY DEF DescriptorsValid
  <1>1. Directory /\ Storage /\ OpenFiles /\ Careful
    BY DEF CarefulInv, SfsInv
  <1>2. /\ fdt[f].i_node_ptr \in FileNodes
        /\ fdt[g].occupied /\ fdt[f].i_node_ptr = fdt[g].i_node_ptr => f = g
    BY <1>1 DEF OpenFiles
  <1>3. i_node_table[fdt[f].i_node_ptr].size \in Nat
    BY <1>1, <1>2 DEF Storage
  <1>4. fdt[f].read_write_ptr \in 0 .. i_node_table[fdt[f].i_node_ptr].size
    BY <1>1 DEF Careful
  <1> QED BY <1>1, <1>2, <1>3, <1>4, FilesAreNodes

(* The same as state predicates, to be used of the next state too.          *)
FilesFound ==
    \A n \in Files :
        /\ get_file(n) \in Occupied /\ root_dir_table[get_file(n)].file_name = n
        /\ \A i \in Occupied : root_dir_table[i].file_name = n => i = get_file(n)
        /\ INodeOf(n) \in FileNodes
SamePointers ==
    \A n \in Names : \A k \in Slots :
        PointerAt(NodeOf(n), k) = Ptr(i_node_table[INodeOf(n)], indirect, k)

LEMMA InBothStates == (Directory => FilesFound) /\ SamePointers
  BY FileFound, SameBlocks DEF Files, FilesFound, SamePointers, NodeOf

(* A file that a step leaves keeps its i-node, and that one its pointers.   *)
LEMMA StaysBlocks ==
    ASSUME Directory, Directory', Stays, NEW n \in Files, n \in Files', NEW k \in Slots,
           PointerAt(NodeOf(n), k) # None
    PROVE  PointerAt(NodeOf(n), k)' = PointerAt(NodeOf(n), k)
  <1> DEFINE x == INodeOf(n)
  <1>1. /\ get_file(n)' \in Occupied' /\ root_dir_table'[get_file(n)'].file_name = n
        /\ INodeOf(n)' \in FileNodes'
    <2>1. (Directory => FilesFound)'
      BY InBothStates, PTL
    <2> QED BY <2>1 DEF FilesFound
  <1>2. /\ x \in FileNodes /\ does_file_exist(n)
        /\ \A i \in Occupied : root_dir_table[i].file_name = n => i = get_file(n)
    BY FileFound DEF Files
  <1>3. /\ get_file(n)' \in Occupied
        /\ root_dir_table'[get_file(n)'] = root_dir_table[get_file(n)']
    BY <1>1, <1>2 DEF Stays
  <1>4. get_file(n)' = get_file(n)
    BY <1>1, <1>2, <1>3
  <1>5. INodeOf(n)' = x /\ x \in FileNodes'
    BY <1>1, <1>3, <1>4 DEF INodeOf
  <1>6. PointerAt(NodeOf(n), k) = Ptr(i_node_table[x], indirect, k)
    BY SameBlocks DEF NodeOf
  <1>7. PointerAt(NodeOf(n), k)' = Ptr(i_node_table'[INodeOf(n)'], indirect', k)
    <2>1. SamePointers'
      BY InBothStates, PTL
    <2>2. n \in Names
      BY DEF Files
    <2> QED BY <2>1, <2>2 DEF SamePointers
  <1> HIDE DEF x
  <1> QED BY <1>2, <1>5, <1>6, <1>7 DEF Stays

-----------------------------------------------------------------------------
(* The client may seek outside a file, but it does not remove     *)
(* open files or format a full directory, and what lies before fdt in       *)
(* memory is padding.                                                       *)
LEMMA NextStep ==
    ASSUME Overlay = "padding", Habits \subseteq {"SeekOutside"}, SfsInv, [Next]_vars
    PROVE  StepOK \/ UNCHANGED vars
  <1>1. CASE undefined = "no" /\ Call
    BY <1>1, CallStep
  <1>2. CASE undefined # "no" /\ UNCHANGED vars
    BY <1>2
  <1> QED BY <1>1, <1>2 DEF Next

LEMMA StutterKeeps ==
    ASSUME UNCHANGED vars
    PROVE  (SfsInv => SfsInv') /\ (Careful => Careful')
  <1>1. /\ UNCHANGED <<tables, disk, disk_ready, fdt>> /\ undefined' = undefined
        /\ curr_file_index' = curr_file_index /\ ret' = ret
    BY DEF vars, others
  <1>2. SfsInv => OthersOK'
    BY <1>1, InvParts DEF OthersOK
  <1>3. Careful => Careful'
    BY <1>1 DEF Careful, FileNodes, Occupied, indirect, tables
  <1> QED BY <1>1, <1>2, <1>3, SameDescriptors

(* SfsInv is an inductive invariant.                                        *)
THEOREM Inductive ==
    ASSUME Overlay = "padding", Habits \subseteq {"SeekOutside"}
    PROVE  Spec => []SfsInv
  <1>1. Init => SfsInv
    BY InitInv
  <1>2. SfsInv /\ [Next]_vars => SfsInv'
    BY NextStep, StutterKeeps DEF StepOK
  <1> QED BY <1>1, <1>2, PTL DEF Spec

(* A client that also seeks inside its files only never makes the program   *)
(* jump to a block that is not there; every file has just the blocks that   *)
(* its size needs, and every descriptor is inside its file.                 *)
THEOREM InductiveCareful ==
    ASSUME Overlay = "padding", Habits = {}
    PROVE  Spec => []CarefulInv
  <1>1. Init => CarefulInv
    <2>1. Init => Occupied = {}
      BY NothingThere
    <2>2. Init => undefined # "bad_block" /\ \A f \in Entries : ~ fdt[f].occupied
      BY EmptyTables DEF Init
    <2> QED BY <2>1, <2>2, InitInv DEF CarefulInv, Careful, FileNodes
  <1>2. CarefulInv /\ [Next]_vars => CarefulInv'
    BY NextStep, StutterKeeps DEF StepOK, CarefulInv
  <1> QED BY <1>1, <1>2, PTL DEF Spec

(* The tables, the descriptors and the disk keep their types.               *)
THEOREM TypeCorrect ==
    ASSUME Overlay = "padding", Habits \subseteq {"SeekOutside"}
    PROVE  Spec => []TypeOK
  <1>1. SfsInv => TypeOK
    BY DEF SfsInv
  <1> QED BY <1>1, Inductive, PTL

(* No block is in two files, or twice in one, or free while a file has it:  *)
(* allocate_a_block and sfs_remove keep bitmap and pointers in step,        *)
(* whatever positions the client seeks to.                                  *)
THEOREM NeverCrossLinked ==
    ASSUME Overlay = "padding", Habits \subseteq {"SeekOutside"}
    PROVE  Spec => []NoCrossLinks
  <1>1. SfsInv => NoCrossLinks
    BY InvNoCrossLinks
  <1> QED BY <1>1, Inductive, PTL

(* The i-node that sfs_fopen takes for a new file never has old pointers.   *)
THEOREM FreeINodesAreClean ==
    ASSUME Overlay = "padding", Habits \subseteq {"SeekOutside"}
    PROVE  Spec => []FreeINodesClean
  <1>1. SfsInv => FreeINodesClean
    BY DEF SfsInv, INodesClean
  <1> QED BY <1>1, Inductive, PTL

(* After every call the disk holds what the tables in memory say.           *)
THEOREM DiskIsCurrent ==
    ASSUME Overlay = "padding", Habits \subseteq {"SeekOutside"}
    PROVE  Spec => []DiskMirrors
  <1>1. SfsInv => DiskMirrors
    BY InvParts DEF DiskOK
  <1> QED BY <1>1, Inductive, PTL

(* get_file and does_file_exist agree, and every file has its own i-node.   *)
THEOREM NamesFindTheirFiles ==
    ASSUME Overlay = "padding", Habits \subseteq {"SeekOutside"}
    PROVE  Spec => []LookupAgrees
  <1>1. SfsInv => LookupAgrees
    BY InvLookupAgrees
  <1> QED BY <1>1, Inductive, PTL

(* Every byte that a file's size counts has a block, and no block is there  *)
(* without need, also when the disk or the file gets full in a write.       *)
THEOREM BytesHaveBlocks ==
    ASSUME Overlay = "padding", Habits = {}
    PROVE  Spec => []EveryByteMapped
  <1>1. CarefulInv => EveryByteMapped
    BY InvEveryByteMapped
  <1> QED BY <1>1, InductiveCareful, PTL

(* A descriptor stands for an existing file, at a position in it, and no    *)
(* file has two.                                                            *)
THEOREM DescriptorsAreValid ==
    ASSUME Overlay = "padding", Habits = {}
    PROVE  Spec => []DescriptorsValid
  <1>1. CarefulInv => DescriptorsValid
    BY InvDescriptorsValid
  <1> QED BY <1>1, InductiveCareful, PTL

(* No call takes a block from a file that is there before and after it, or  *)
(* moves it in the file.                                                    *)
THEOREM FilesKeepTheirBlocks ==
    ASSUME Overlay = "padding", Habits \subseteq {"SeekOutside"}
    PROVE  Spec => BlocksStay
  <1> DEFINE Kept == \A n \in Files : \A k \in Slots :
                 PointerAt(NodeOf(n), k) # None /\ n \in Files' =>
                     PointerAt(NodeOf(n), k)' = PointerAt(NodeOf(n), k)
  <1>1. SfsInv /\ SfsInv' /\ [Next]_vars => [Kept]_vars
    <2>1. ASSUME SfsInv, SfsInv', Stays PROVE Kept
      BY <2>1, StaysBlocks DEF SfsInv
    <2> QED BY <2>1, NextStep DEF StepOK
  <1>2. Spec => [][Kept]_vars
    <2> HIDE DEF Kept
    <2> QED BY <1>1, Inductive, PTL DEF Spec
  <1> QED BY <1>2 DEF BlocksStay
=============================================================================
