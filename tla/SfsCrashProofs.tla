--------------------------- MODULE SfsCrashProofs ---------------------------
(***************************************************************************)
(* What a new process finds on the disk when the last one ended inside a   *)
(* call of sfs_api.c, for every size of the tables, the blocks and the     *)
(* disk: the files share no block, the tables agree, and every byte has a  *)
(* block.                                                                  *)
(*                                                                         *)
(* The writes of a call lead from disk to disk through disks on which the  *)
(* file is one of those that CutOff describes: with its old blocks, some   *)
(* of the new ones, and a bitmap that offers none of them.  CrashInv says  *)
(* what holds until an unfinished removal was tried again, BytesInv what   *)
(* that means for the bytes.                                               *)
(***************************************************************************)
EXTENDS SfsCrash, SfsProofs

-----------------------------------------------------------------------------
(* A disk, and a sequence of writes that leads from one to another through  *)
(* disks of S only.                                                         *)
Disks == [i_nodes : [INodes -> INode], root : [0 .. SavedEntries - 1 -> RootEntry],
          bitmap : SUBSET Blocks, indirect : Contents]
Tables == [INodes -> INode] \cup [0 .. SavedEntries - 1 -> RootEntry] \cup SUBSET Blocks
Writes == [to : {"i_nodes", "root", "bitmap", "indirect"}, what : Tables \cup Contents]

Leads(S, d, w, e) ==
    /\ w \in Seq(Writes)
    /\ \A n \in 0 .. Len(w) : write_blocks(d, w, n) \in S
    /\ write_blocks(d, w, Len(w)) = e

LEMMA MaxIs ==
    ASSUME NEW n \in Nat, NEW S, S \subseteq 1 .. n, n \in S
    PROVE  Max(S) = n
  <1>1. \A y \in S : n >= y
    OBVIOUS
  <1>2. \A x \in S : (\A y \in S : x >= y) => x = n
    BY <1>1
  <1> QED BY <1>1, <1>2 DEF Max

LEMMA NoWrite ==
    ASSUME NEW d \in Disks, NEW w
    PROVE  write_blocks(d, w, 0) = d
  <1>1. 1 .. 0 = {}
    OBVIOUS
  <1>2. write_blocks(d, w, 0) = [t \in DOMAIN d |-> d[t]]
    BY <1>1 DEF write_blocks
  <1> QED BY <1>2 DEF Disks

LEMMA OneMoreWrite ==
    ASSUME NEW d, NEW w, NEW n \in Nat \ {0}
    PROVE  write_blocks(d, w, n) = [write_blocks(d, w, n - 1) EXCEPT ![w[n].to] = w[n].what]
  <1> DEFINE Those(t, m) == {i \in 1 .. m : w[i].to = t}
             old == write_blocks(d, w, n - 1)
  <1>1. ASSUME NEW t, w[n].to = t PROVE Those(t, n) # {} /\ Max(Those(t, n)) = n
    <2>1. n \in Those(t, n) /\ Those(t, n) \subseteq 1 .. n
      BY <1>1
    <2> HIDE DEF Those
    <2> QED BY <2>1, MaxIs
  <1>2. ASSUME NEW t, w[n].to # t PROVE Those(t, n) = Those(t, n - 1)
    BY <1>2
  <1>3. ASSUME NEW m PROVE
          write_blocks(d, w, m) = [t \in DOMAIN d |-> IF Those(t, m) = {} THEN d[t]
                                                      ELSE w[Max(Those(t, m))].what]
    BY DEF write_blocks
  <1>4. DOMAIN old = DOMAIN d
    BY <1>3
  <1> HIDE DEF Those
  <1>5. ASSUME NEW t \in DOMAIN d
        PROVE  write_blocks(d, w, n)[t] = IF t = w[n].to THEN w[n].what ELSE old[t]
    <2>1. old[t] = IF Those(t, n - 1) = {} THEN d[t] ELSE w[Max(Those(t, n - 1))].what
      BY <1>3
    <2>2. write_blocks(d, w, n)[t] = IF Those(t, n) = {} THEN d[t] ELSE w[Max(Those(t, n))].what
      BY <1>3
    <2> HIDE DEF old
    <2> QED BY <1>1, <1>2, <2>1, <2>2
  <1>6. write_blocks(d, w, n) = [t \in DOMAIN d |-> write_blocks(d, w, n)[t]]
    BY <1>3
  <1>7. [old EXCEPT ![w[n].to] = w[n].what]
          = [t \in DOMAIN d |-> IF t = w[n].to THEN w[n].what ELSE old[t]]
    <2> HIDE DEF old
    <2> QED BY <1>4
  <1>8. write_blocks(d, w, n) = [old EXCEPT ![w[n].to] = w[n].what]
    <2> HIDE DEF old
    <2>1. [t \in DOMAIN d |-> write_blocks(d, w, n)[t]]
            = [t \in DOMAIN d |-> IF t = w[n].to THEN w[n].what ELSE old[t]]
      BY <1>5
    <2> QED BY <1>6, <1>7, <2>1
  <1> QED BY <1>8

(* The first writes decide about the disk after them.                       *)
LEMMA SameWrites ==
    ASSUME NEW d, NEW v, NEW w, NEW n \in Nat, \A i \in 1 .. n : v[i] = w[i]
    PROVE  write_blocks(d, v, n) = write_blocks(d, w, n)
  <1> DEFINE V(t) == {i \in 1 .. n : v[i].to = t}
             W(t) == {i \in 1 .. n : w[i].to = t}
  <1>1. ASSUME NEW t PROVE V(t) = W(t)
    OBVIOUS
  <1>2. ASSUME NEW t, V(t) # {} PROVE Max(V(t)) \in 1 .. n
    <2>1. V(t) \subseteq 1 .. n
      OBVIOUS
    <2> HIDE DEF V
    <2>2. \E x \in V(t) : \A y \in V(t) : x >= y
      <3> DEFINE U == {n - x : x \in V(t)}
      <3>1. U \subseteq Nat /\ U # {}
        BY <1>2, <2>1
      <3>2. PICK u \in U : \A y \in U : u <= y
        <4> HIDE DEF U
        <4> QED BY <3>1, Least
      <3>3. PICK x \in V(t) : u = n - x
        OBVIOUS
      <3>4. ASSUME NEW y \in V(t) PROVE x >= y
        <4>1. n - y \in U /\ x \in 1 .. n /\ y \in 1 .. n
          BY <2>1
        <4> HIDE DEF U
        <4> QED BY <3>2, <3>3, <4>1
      <3> QED BY <3>4
    <2> QED BY <2>1, <2>2 DEF Max
  <1>3. ASSUME NEW t, V(t) # {} PROVE v[Max(V(t))].what = w[Max(W(t))].what
    BY <1>1, <1>2, <1>3
  <1>4. /\ write_blocks(d, v, n) = [t \in DOMAIN d |-> IF V(t) = {} THEN d[t] ELSE v[Max(V(t))].what]
        /\ write_blocks(d, w, n) = [t \in DOMAIN d |-> IF W(t) = {} THEN d[t] ELSE w[Max(W(t))].what]
    BY DEF write_blocks
  <1> HIDE DEF V, W
  <1> QED BY <1>1, <1>3, <1>4

LEMMA LeadsNowhere ==
    ASSUME NEW S, S \subseteq Disks, NEW d \in S
    PROVE  Leads(S, d, <<>>, d)
  BY NoWrite DEF Leads

LEMMA LeadsOnce ==
    ASSUME NEW S, S \subseteq Disks, NEW d \in S, NEW v \in Writes,
           [d EXCEPT ![v.to] = v.what] \in S
    PROVE  Leads(S, d, <<v>>, [d EXCEPT ![v.to] = v.what])
  <1>1. write_blocks(d, <<v>>, 0) = d
    BY NoWrite
  <1>2. write_blocks(d, <<v>>, 1) = [d EXCEPT ![v.to] = v.what]
    BY <1>1, OneMoreWrite
  <1>3. <<v>> \in Seq(Writes) /\ Len(<<v>>) = 1
    OBVIOUS
  <1>4. ASSUME NEW n \in 0 .. 1 PROVE n = 0 \/ n = 1
    OBVIOUS
  <1> QED BY <1>1, <1>2, <1>3, <1>4 DEF Leads

LEMMA LeadsOn ==
    ASSUME NEW S, S \subseteq Disks, NEW d \in S, NEW e, NEW f, NEW a, NEW b,
           Leads(S, d, a, e), Leads(S, e, b, f)
    PROVE  Leads(S, d, a \o b, f)
  <1> DEFINE After(n) == write_blocks(d, a \o b, n)
             m == Len(a)
             T == {k \in 0 .. Len(b) : After(m + k) # write_blocks(e, b, k)}
  <1>1. /\ a \in Seq(Writes) /\ b \in Seq(Writes) /\ a \o b \in Seq(Writes)
        /\ m \in Nat /\ Len(b) \in Nat /\ Len(a \o b) = m + Len(b)
        /\ \A i \in 1 .. m : (a \o b)[i] = a[i]
        /\ \A i \in 1 .. Len(b) : (a \o b)[m + i] = b[i]
    BY DEF Leads
  <1>2. ASSUME NEW n \in 0 .. m PROVE After(n) = write_blocks(d, a, n)
    <2>1. n \in Nat /\ \A i \in 1 .. n : (a \o b)[i] = a[i]
      BY <1>1
    <2> QED BY <2>1, SameWrites
  <1>3. e \in Disks
    BY <1>1 DEF Leads
  <1>4. T = {}
    <2> SUFFICES ASSUME T # {} PROVE FALSE
      OBVIOUS
    <2>1. PICK k \in T : \A y \in T : k <= y
      <3>1. T \subseteq Nat
        BY <1>1
      <3> HIDE DEF T
      <3> QED BY <3>1, Least
    <2>2. CASE k = 0
      <3>1. After(m) = e
        BY <1>1, <1>2 DEF Leads
      <3>2. write_blocks(e, b, 0) = e
        BY <1>3, NoWrite
      <3> QED BY <1>1, <2>2, <3>1, <3>2
    <2>3. CASE k # 0
      <3>1. k \in 1 .. Len(b) /\ k - 1 \in 0 .. Len(b) /\ k \in Nat \ {0} /\ m + k \in Nat \ {0}
        BY <1>1, <2>3
      <3>2. k - 1 \notin T
        <4>1. k \in Nat /\ ~ (k <= k - 1)
          BY <3>1
        <4> HIDE DEF T
        <4> QED BY <2>1, <4>1
      <3>3. After(m + (k - 1)) = write_blocks(e, b, k - 1)
        BY <3>1, <3>2
      <3>4. (m + k) - 1 = m + (k - 1) /\ (a \o b)[m + k] = b[k]
        BY <1>1, <3>1
      <3>5. After(m + k) = [After((m + k) - 1) EXCEPT ![(a \o b)[m + k].to] = (a \o b)[m + k].what]
        <4> DEFINE n == m + k
                   w == a \o b
        <4>1. n \in Nat \ {0}
          BY <3>1
        <4> HIDE DEF n, w
        <4>2. write_blocks(d, w, n) = [write_blocks(d, w, n - 1) EXCEPT ![w[n].to] = w[n].what]
          BY <4>1, OneMoreWrite
        <4> QED BY <4>2 DEF n, w
      <3>6. write_blocks(e, b, k) = [write_blocks(e, b, k - 1) EXCEPT ![b[k].to] = b[k].what]
        BY <3>1, OneMoreWrite
      <3> HIDE DEF After
      <3>7. After(m + k) = write_blocks(e, b, k)
        BY <3>3, <3>4, <3>5, <3>6
      <3> QED BY <3>7
    <2> QED BY <2>2, <2>3
  <1>5. ASSUME NEW k \in 0 .. Len(b) PROVE After(m + k) = write_blocks(e, b, k)
    BY <1>4
  <1>6. ASSUME NEW n \in 0 .. m + Len(b) PROVE After(n) \in S
    <2>1. CASE n <= m
      <3>1. n \in 0 .. m
        BY <1>1, <2>1
      <3> HIDE DEF After
      <3> QED BY <1>2, <3>1 DEF Leads
    <2>2. CASE ~ (n <= m)
      <3>1. n - m \in 0 .. Len(b) /\ m + (n - m) = n
        BY <1>1, <2>2
      <3> HIDE DEF After, m
      <3>2. After(m + (n - m)) = write_blocks(e, b, n - m)
        BY <1>5, <3>1
      <3> QED BY <3>1, <3>2 DEF Leads
    <2> QED BY <2>1, <2>2
  <1>7. After(m + Len(b)) = f
    <2>1. Len(b) \in 0 .. Len(b)
      BY <1>1
    <2> HIDE DEF After
    <2> QED BY <1>5, <2>1 DEF Leads
  <1> QED BY <1>1, <1>6, <1>7 DEF Leads

(* The writes of one chunk after the other.                                 *)
Joined(g, chunk, n) ==
    /\ g \in [1 .. n -> Seq(Writes)]
    /\ \A i \in 1 .. n : g[i] = IF i = 1 THEN chunk[i] ELSE g[i - 1] \o chunk[i]

LEMMA JoinedExists ==
    ASSUME NEW m \in Nat, NEW chunk \in [1 .. m -> Seq(Writes)]
    PROVE  \E g : Joined(g, chunk, m)
  <1> DEFINE T == {n \in 0 .. m : \A g : ~ Joined(g, chunk, n)}
  <1>1. SUFFICES ASSUME T # {} PROVE FALSE
    <2>1. m \in 0 .. m
      OBVIOUS
    <2> QED BY <2>1
  <1>2. PICK n \in T : \A y \in T : n <= y
    <2>1. T \subseteq Nat
      OBVIOUS
    <2> HIDE DEF T
    <2> QED BY <1>1, <2>1, Least
  <1>3. CASE n = 0
    <2>1. Joined([i \in 1 .. 0 |-> <<>>], chunk, 0)
      BY DEF Joined
    <2> QED BY <1>2, <1>3, <2>1
  <1>4. CASE n # 0
    <2>1. n \in 1 .. m /\ n - 1 \in 0 .. m
      BY <1>4
    <2>2. n - 1 \notin T
      <3>1. ~ (n <= n - 1)
        BY <2>1
      <3> HIDE DEF T
      <3> QED BY <1>2, <3>1
    <2>3. PICK g : Joined(g, chunk, n - 1)
      BY <2>1, <2>2
    <2> DEFINE next == IF n = 1 THEN chunk[n] ELSE g[n - 1] \o chunk[n]
               h == [i \in 1 .. n |-> IF i = n THEN next ELSE g[i]]
    <2>4. next \in Seq(Writes)
      <3>1. n # 1 => g[n - 1] \in Seq(Writes)
        BY <2>1, <2>3 DEF Joined
      <3>2. chunk[n] \in Seq(Writes)
        BY <2>1
      <3> QED BY <3>1, <3>2
    <2>5. ASSUME NEW i \in 1 .. n
          PROVE  /\ h[i] \in Seq(Writes)
                 /\ h[i] = IF i = 1 THEN chunk[i] ELSE h[i - 1] \o chunk[i]
      <3>1. CASE i = n
        <4>1. h[i] = next
          BY <3>1
        <4>2. i # 1 => h[i - 1] = g[i - 1]
          BY <2>1, <3>1
        <4> HIDE DEF h
        <4> QED BY <2>4, <3>1, <4>1, <4>2
      <3>2. CASE i # n
        <4>1. i \in 1 .. n - 1
          BY <2>1, <3>2
        <4>2. h[i] = g[i] /\ (i # 1 => h[i - 1] = g[i - 1])
          BY <2>1, <4>1
        <4> HIDE DEF h
        <4> QED BY <2>3, <4>1, <4>2 DEF Joined
      <3> QED BY <3>1, <3>2
    <2>6. Joined(h, chunk, n)
      <3>1. h = [i \in 1 .. n |-> h[i]]
        OBVIOUS
      <3> HIDE DEF h
      <3> QED BY <2>5, <3>1 DEF Joined
    <2> QED BY <1>2, <2>6
  <1> QED BY <1>3, <1>4

LEMMA FlattenIs ==
    ASSUME NEW m \in Nat \ {0}, NEW chunk \in [1 .. m -> Seq(Writes)]
    PROVE  \E g : /\ \A i \in 1 .. m : g[i] = IF i = 1 THEN chunk[i] ELSE g[i - 1] \o chunk[i]
                  /\ FlattenSeq(chunk) = g[m]
  <1> DEFINE Longer(g, i) == IF i = 1 THEN chunk[i] ELSE g[i - 1] \o chunk[i]
             flatten == CHOOSE g : g = [i \in 1 .. m |-> Longer(g, i)]
  <1>1. PICK g : Joined(g, chunk, m)
    BY JoinedExists
  <1>2. g = [i \in 1 .. m |-> Longer(g, i)]
    BY <1>1 DEF Joined
  <1>3. flatten = [i \in 1 .. m |-> Longer(flatten, i)]
    <2> HIDE DEF Longer
    <2> QED BY <1>2
  <1>4. Len(chunk) = m
    OBVIOUS
  <1>5. FlattenSeq(chunk) = flatten[m]
    BY <1>4 DEF FlattenSeq
  <1> HIDE DEF flatten
  <1>6. \A i \in 1 .. m : flatten[i] = Longer(flatten, i)
    <2> HIDE DEF Longer
    <2> QED BY <1>3
  <1> QED BY <1>5, <1>6

LEMMA FlattenLeads ==
    ASSUME NEW S, S \subseteq Disks, NEW m \in Nat \ {0}, NEW chunk \in [1 .. m -> Seq(Writes)],
           NEW good \in [0 .. m -> SUBSET S], NEW d \in good[0],
           \A n \in 1 .. m : \A e \in good[n - 1] :
               \E g \in good[n] : Leads(S, e, chunk[n], g)
    PROVE  \E e \in good[m] : Leads(S, d, FlattenSeq(chunk), e)
  <1>1. PICK w : /\ \A i \in 1 .. m : w[i] = IF i = 1 THEN chunk[i] ELSE w[i - 1] \o chunk[i]
                 /\ FlattenSeq(chunk) = w[m]
    BY FlattenIs
  <1> DEFINE T == {n \in 1 .. m : \A e \in good[n] : ~ Leads(S, d, w[n], e)}
  <1>2. T = {}
    <2> SUFFICES ASSUME T # {} PROVE FALSE
      OBVIOUS
    <2>1. PICK n \in T : \A y \in T : n <= y
      <3>1. T \subseteq Nat
        OBVIOUS
      <3> HIDE DEF T
      <3> QED BY <3>1, Least
    <2>2. CASE n = 1
      <3>1. w[n] = chunk[n] /\ n - 1 = 0 /\ n \in 1 .. m
        BY <1>1, <2>2
      <3>2. \E g \in good[n] : Leads(S, d, chunk[n], g)
        BY <3>1
      <3> QED BY <3>1, <3>2
    <2>3. CASE n # 1
      <3>0. n \in 1 .. m
        OBVIOUS
      <3>1. n \in 1 .. m /\ n - 1 \in 1 .. m /\ w[n] = w[n - 1] \o chunk[n]
        <4> HIDE DEF T
        <4>1. n - 1 \in 1 .. m
          BY <2>3, <3>0
        <4>2. w[n] = IF n = 1 THEN chunk[n] ELSE w[n - 1] \o chunk[n]
          BY <1>1, <3>0
        <4> QED BY <2>3, <3>0, <4>1, <4>2
      <3>2. n - 1 \notin T
        <4>1. ~ (n <= n - 1)
          BY <3>1
        <4> HIDE DEF T
        <4> QED BY <2>1, <4>1
      <3>3. PICK e \in good[n - 1] : Leads(S, d, w[n - 1], e)
        BY <3>1, <3>2
      <3>4. PICK g \in good[n] : Leads(S, e, chunk[n], g)
        BY <3>1
      <3>5. d \in S
        OBVIOUS
      <3>6. Leads(S, d, w[n], g)
        BY <3>1, <3>3, <3>4, <3>5, LeadsOn
      <3> QED BY <3>6
    <2> QED BY <2>2, <2>3
  <1>3. m \in 1 .. m /\ m \notin T
    <2> HIDE DEF T
    <2> QED BY <1>2
  <1>4. \E e \in good[m] : Leads(S, d, w[m], e)
    BY <1>3
  <1> QED BY <1>1, <1>4

-----------------------------------------------------------------------------
(* After a write that was cut short a file can have a block more than its   *)
(* size needs; every byte of its size has one, and they are set in order.   *)
Covered(node, ind) ==
    /\ \A k \in Slots : Offset(k) < node.size => Ptr(node, ind, k) # None
    /\ \A j, k \in Slots : j < k /\ Ptr(node, ind, k) # None => Ptr(node, ind, j) # None

Covers(a, s) == Covered(s.node, s.ind) /\ a.node.size <= s.node.size
Follows(a, s) == Covers(a, s) /\ s.ptr \in 0 .. s.node.size

LEMMA AllocationCovers ==
    ASSUME NEW a, NEW s \in Transfers, Covers(a, s), NEW b \in s.free, NEW t, Allocates(s, t, b)
    PROVE  Covers(a, t)
  <1>1. PICK v \in Slots :
            /\ \A k \in Slots : k < v => PtrOf(s, k) # None
            /\ \A k \in Slots : PtrOf(t, k) = IF k = v THEN b ELSE PtrOf(s, k)
    BY DEF Allocates
  <1>2. b # None /\ t.node.size = s.node.size
    BY BlockNumbers DEF Allocates, Transfers
  <1>3. ASSUME NEW k \in Slots, Offset(k) < t.node.size PROVE PtrOf(t, k) # None
    BY <1>1, <1>2, <1>3 DEF Covers, Covered, PtrOf
  <1>4. ASSUME NEW j \in Slots, NEW k \in Slots, j < k, PtrOf(t, k) # None
        PROVE  PtrOf(t, j) # None
    BY <1>1, <1>2, <1>4 DEF Covers, Covered, PtrOf
  <1> QED BY <1>2, <1>3, <1>4 DEF Covers, Covered, PtrOf

(* Bytes that end in the block of slot q, which is set, are covered.        *)
LEMMA MovedFollows ==
    ASSUME NEW a, a.node.size \in Nat, NEW R, NEW s \in Transfers, s.node.size \in Nat, ~ Over(s),
           NEW t, Covers(a, t), t.node.size = s.node.size,
           SlotAt(s) \in Slots, PtrOf(t, SlotAt(s)) # None,
           NEW u, MovesTo(a, R, s, t, u)
    PROVE  Follows(a, u)
  <1> DEFINE q == SlotAt(s)
             e == s.ptr + ChunkLength(s)
  <1>1. /\ q \in Nat /\ e \in Nat /\ e <= Offset(q + 1) /\ Offset(q + 1) \in Nat
    BY InSlot, ChunkPlace, ChunkLengthIs
  <1>2. /\ \A j \in Slots : PtrOf(u, j) = PtrOf(t, j)
        /\ u.ptr = e /\ u.node.size = Larger(s.node.size, e)
    BY DEF MovesTo
  <1>3. q \in Slots /\ PtrOf(t, q) # None
    OBVIOUS
  <1> HIDE DEF q, e
  <1>4. u.node.size \in Nat /\ e <= u.node.size /\ a.node.size <= u.node.size
        /\ (u.node.size = s.node.size \/ u.node.size = e)
    BY <1>1, <1>2 DEF Larger, Covers
  <1>5. ASSUME NEW k \in Slots, Offset(k) < u.node.size PROVE PtrOf(u, k) # None
    <2>1. k \in Nat /\ Offset(k) \in Nat /\ (q < k => Offset(q + 1) <= Offset(k))
      BY <1>1, SlotIs, OffsetOrder
    <2>2. CASE q < k
      <3>1. Offset(k) < s.node.size
        BY <1>1, <1>4, <1>5, <2>1, <2>2
      <3> QED BY <1>2, <3>1 DEF Covers, Covered, PtrOf
    <2>3. CASE k = q \/ k < q
      BY <1>2, <1>3, <2>3 DEF Covers, Covered, PtrOf
    <2> QED BY <1>1, <2>1, <2>2, <2>3
  <1>6. ASSUME NEW j \in Slots, NEW k \in Slots, j < k, PtrOf(u, k) # None
        PROVE  PtrOf(u, j) # None
    BY <1>2, <1>6 DEF Covers, Covered, PtrOf
  <1>7. Covers(a, u)
    BY <1>4, <1>5, <1>6 DEF Covers, Covered, PtrOf
  <1>8. u.ptr \in 0 .. u.node.size
    BY <1>1, <1>2, <1>4
  <1> QED BY <1>7, <1>8 DEF Follows

LEMMA WriteChunkFollows ==
    ASSUME NEW a, a.node.size \in Nat, NEW R, a.free \cap R = {},
           NEW s, Keeps(a, R, s), Follows(a, s), disk_ready
    PROVE  Follows(a, WriteChunk(s))
  <1> DEFINE u == WriteChunk(s)
             q == SlotAt(s)
  <1>1. Ready(s) /\ s \in Transfers /\ s.node.size \in Nat /\ s.ptr \in Nat
    BY DEF Keeps, Ready, Transfers, Follows
  <1>2. CASE Over(s)
    BY <1>2 DEF WriteChunk
  <1>3. ASSUME RunsOut(s, u) PROVE Follows(a, u)
    <2>1. u.node = s.node /\ u.ind = s.ind /\ u.ptr = s.ptr
      <3> HIDE DEF u
      <3> QED BY <1>1, <1>3 DEF RunsOut, Transfers
    <2> HIDE DEF u
    <2> QED BY <2>1 DEF Follows, Covers
  <1>4. ASSUME NEW x, u = [s EXCEPT !.block = x] PROVE Follows(a, u)
    <2>1. u.node = s.node /\ u.ind = s.ind /\ u.ptr = s.ptr
      BY <1>1, <1>4 DEF Transfers
    <2> HIDE DEF u
    <2> QED BY <2>1 DEF Follows, Covers
  <1>5. ASSUME ~ Over(s), should_add_new(s), NEW b \in s.free, NEW t,
               Allocates(s, t, b), Adds(s, t, u)
        PROVE  Follows(a, u)
    <2>1. Keeps(a, R, t) /\ Covers(a, t)
      BY <1>1, <1>5, AllocationKeeps, AllocationCovers DEF Follows
    <2>2. PICK v \in Slots :
              /\ PtrOf(s, v) = None
              /\ \A k \in Slots : k < v => PtrOf(s, k) # None
              /\ \A k \in Slots : PtrOf(t, k) = IF k = v THEN b ELSE PtrOf(s, k)
      BY <1>5 DEF Allocates
    <2>3. /\ t.block = b /\ t.left = s.left /\ t.ptr = s.ptr /\ t.node.size = s.node.size
          /\ b # None
      BY <1>1, <1>5, BlockNumbers DEF Allocates, Transfers
    <2>4. MovesTo(a, R, s, t, Moved(s, t))
      BY <1>1, <1>5, <2>1, <2>2, <2>3, MovedKeeps
    <2>5. q \in Nat /\ s.node.size = Offset(q)
      <3>1. q \in Nat /\ Offset(q) \in Nat /\ (s.ptr % BLOCK_SIZE = 0 <=> s.ptr = Offset(q))
        BY <1>1, <1>5, ChunkPlace
      <3> HIDE DEF q
      <3> QED BY <1>1, <1>5, <3>1 DEF should_add_new, Follows
    <2>6. q \in Slots /\ PtrOf(t, q) # None
      <3> HIDE DEF q
      <3>1. v \in Nat /\ \A k \in Nat : k <= v => k \in Slots
        BY SfsAssumption DEF Slots
      <3>2. v < q => Offset(v) < s.node.size
        BY <2>5, <3>1, OffsetOrder
      <3>3. ~ (v < q)
        BY <2>2, <3>2 DEF Follows, Covers, Covered, PtrOf
      <3>4. q \in Slots
        BY <2>5, <3>1, <3>3
      <3> QED BY <2>2, <2>3, <2>5, <3>1, <3>3, <3>4
    <2>7. ~ Overflows(s)
      <3>1. /\ s.ptr + ChunkLength(s) < IntLimit
            /\ s.ptr + ChunkLength(s) \in Nat /\ IntLimit \in Nat
        BY <1>1, <1>5, <2>6, SlotFits, ChunkLengthIs, SfsAssumption
      <3> QED BY <3>1 DEF Overflows
    <2>8. u = Moved(s, t)
      BY <1>5, <2>7 DEF Adds
    <2> HIDE DEF u
    <2> QED BY <1>1, <1>5, <2>1, <2>3, <2>4, <2>6, <2>8, MovedFollows
  <1>6. ASSUME ~ Over(s), q \in Slots, PtrOf(s, q) # None,
               u = Moved(s, [s EXCEPT !.block = PtrOf(s, SlotAt(s))])
        PROVE  Follows(a, u)
    <2> DEFINE t == [s EXCEPT !.block = PtrOf(s, SlotAt(s))]
    <2>1. PtrOf(s, q) \in Int
      BY <1>1, <1>6, PtrType, BlockNumbers DEF PtrOf, Transfers
    <2>2. /\ t \in Transfers /\ t.node = s.node /\ t.ind = s.ind /\ t.free = s.free
          /\ t.left = s.left /\ t.ptr = s.ptr /\ t.block = PtrOf(s, q)
      BY <1>1, <2>1 DEF Transfers
    <2> HIDE DEF t, q
    <2>3. Keeps(a, R, t) /\ Covers(a, t) /\ \A k \in Slots : PtrOf(t, k) = PtrOf(s, k)
      BY <2>2 DEF Keeps, Ready, PtrOf, Follows, Covers
    <2>4. MovesTo(a, R, s, t, Moved(s, t))
      BY <1>1, <1>6, <2>2, <2>3, MovedKeeps
    <2>5. Follows(a, Moved(s, t))
      BY <1>1, <1>6, <2>2, <2>3, <2>4, MovedFollows DEF q
    <2> QED BY <1>6, <2>5 DEF t, q
  <1> QED BY <1>1, <1>2, <1>3, <1>4, <1>5, <1>6, WriteChunkIs

-----------------------------------------------------------------------------
(* What sfs_fwrite has on the disk when it is cut short, a being its start,  *)
(* x its i-node and R the blocks of the other files: an i-node and indirect *)
(* blocks that keep what a had.                                             *)
Sound(a, R, node, free, ind) ==
    LET s == [a EXCEPT !.node = node, !.free = free, !.ind = ind] IN
    Keeps(a, R, s) /\ (Follows(a, a) => Covers(a, s))

CutOff(a, R, x) ==
    {d \in Disks : /\ d.root = disk.root
                   /\ d.i_nodes = [i_node_table EXCEPT ![x] = d.i_nodes[x]]
                   /\ Sound(a, R, d.i_nodes[x], d.bitmap, d.indirect)}

(* The disk at a level s of the recursion: only the size is not up to date. *)
Tracks(a, R, x, s) ==
    {d \in CutOff(a, R, x) :
        /\ d.bitmap = s.free /\ d.indirect = s.ind
        /\ d.i_nodes[x] = [s.node EXCEPT !.size = d.i_nodes[x].size]
        /\ d.i_nodes[x].size <= s.node.size}

LEMMA SoundIs ==
    ASSUME NEW a \in Transfers, NEW R, NEW s, Keeps(a, R, s), Follows(a, a) => Covers(a, s),
           NEW z \in Nat, z <= s.node.size, Follows(a, a) => a.node.size <= z,
           NEW free, free \subseteq s.free
    PROVE  Sound(a, R, [s.node EXCEPT !.size = z], free, s.ind)
  <1> DEFINE node == [s.node EXCEPT !.size = z]
             v == [a EXCEPT !.node = node, !.free = free, !.ind = s.ind]
  <1>1. s \in Transfers /\ s.node \in INode /\ s.ind \in Contents /\ free \subseteq Blocks
        /\ s.node.size \in Nat
    BY DEF Keeps, Ready, Transfers
  <1>2. /\ node \in INode /\ node.size = z /\ node.occupied = s.node.occupied
        /\ node.indirect_ptr = s.node.indirect_ptr /\ node.direct_ptr = s.node.direct_ptr
    BY <1>1 DEF INode
  <1> HIDE DEF node
  <1>3. v \in Transfers /\ v.node = node /\ v.free = free /\ v.ind = s.ind
    BY <1>1, <1>2 DEF Transfers
  <1> HIDE DEF v
  <1>4. \A k \in Slots : Ptr(node, s.ind, k) = Ptr(s.node, s.ind, k)
    BY <1>2 DEF Ptr, Index
  <1>5. Used(node, s.ind) = Used(s.node, s.ind) /\ WellFormed(node, s.ind)
    <2>1. WellFormed(s.node, s.ind)
      BY DEF Keeps, Ready
    <2> QED BY <1>2, <1>4, <2>1 DEF Used, WellFormed
  <1>6. Keeps(a, R, v)
    <2>1. Used(s.node, s.ind) \cap s.free = {} /\ Used(s.node, s.ind) \cap R = {}
          /\ s.node.occupied /\ s.free \subseteq a.free
      BY DEF Keeps, Ready
    <2>2. Ready(v)
      BY <1>3, <1>5, <2>1 DEF Ready
    <2>3. \A k \in Slots : PtrOf(v, k) = PtrOf(s, k)
      BY <1>3, <1>4 DEF PtrOf
    <2>4. \A k \in Slots : PtrOf(a, k) # None => PtrOf(v, k) = PtrOf(a, k)
      BY <2>3 DEF Keeps
    <2>5. \A q \in R : q \in DOMAIN a.ind => q \in DOMAIN v.ind /\ v.ind[q] = a.ind[q]
      BY <1>3 DEF Keeps
    <2>6. v.node.size \in Nat /\ v.node.occupied /\ v.free \subseteq a.free
          /\ Used(v.node, v.ind) \cap R = {}
      BY <1>2, <1>3, <1>5, <2>1
    <2> HIDE DEF v
    <2> QED BY <2>2, <2>4, <2>5, <2>6 DEF Keeps
  <1>7. ASSUME Follows(a, a) PROVE Covers(a, v)
    <2>1. ASSUME NEW k \in Slots, Offset(k) < z PROVE Offset(k) < s.node.size
      <3>1. Offset(k) \in Nat
        BY SlotIs, OffsetOrder
      <3> QED BY <1>1, <2>1, <3>1
    <2> QED BY <1>2, <1>3, <1>4, <1>7, <2>1 DEF Covers, Covered
  <1> QED BY <1>6, <1>7 DEF Sound, v, node

(* A file that has no indirect block is not touched when one is filled.     *)
LEMMA OthersIndirect ==
    ASSUME NEW a, NEW R, NEW s, Keeps(a, R, s), s.node.indirect_ptr = None,
           NEW ind \in Contents,
           \A p \in R : p \in DOMAIN s.ind => p \in DOMAIN ind /\ ind[p] = s.ind[p],
           NEW v, v = [s EXCEPT !.ind = ind]
    PROVE  Keeps(a, R, v) /\ (Covers(a, s) => Covers(a, v))
  <1>1. s \in Transfers /\ s.node \in INode /\ s.ind \in Contents
    BY DEF Keeps, Ready, Transfers
  <1>2. v \in Transfers /\ v.node = s.node /\ v.ind = ind /\ v.free = s.free
    BY <1>1 DEF Transfers
  <1>3. None \notin DOMAIN ind /\ None \notin DOMAIN s.ind
    BY <1>1, ContentsIs, BlockNumbers
  <1>4. \A k \in Slots : Ptr(s.node, ind, k) = Ptr(s.node, s.ind, k)
    BY <1>3 DEF Ptr, Index
  <1>5. Used(s.node, ind) = Used(s.node, s.ind) /\ WellFormed(s.node, ind)
    <2>1. WellFormed(s.node, s.ind)
      BY DEF Keeps, Ready
    <2> QED BY <1>4, <2>1 DEF Used, WellFormed
  <1>6. Keeps(a, R, v)
    BY <1>2, <1>4, <1>5 DEF Keeps, Ready, PtrOf
  <1> QED BY <1>2, <1>4, <1>6 DEF Covers, Covered

(* allocate_disk_block_to_i_node takes the first free block, and changes    *)
(* the i-node or its indirect block, or gives it its first one.             *)
LEMMA AllocationOrder ==
    ASSUME NEW s, Ready(s), disk_ready
    PROVE  LET b == First(s.free)
               t == allocate_disk_block_to_i_node(s)
           IN  /\ b = None \/ b \in s.free
               /\ b = None => t.block = None
               /\ t.block \in {b, None, Garbage}
               /\ t.block = None => t.free = s.free \ {b}
               /\ t.ind = s.ind \/ t.node = s.node \/ s.node.indirect_ptr = None
  <1> DEFINE b == First(s.free)
             t == allocate_disk_block_to_i_node(s)
             u == [s EXCEPT !.free = @ \ {b}]
             v == AddIndirect(u, b)
  <1>1. s \in Transfers /\ s.free \subseteq Blocks /\ s.free \subseteq Nat /\ None \notin s.free
    BY BlockNumbers DEF Ready, Transfers
  <1>2. b = None \/ b \in s.free
    BY <1>1, FirstIs
  <1>3. t = IF b = None THEN [s EXCEPT !.block = None]
            ELSE IF VacantSlot(s.node.direct_ptr) # None THEN AddDirect(u, b)
            ELSE v
    BY <1>1 DEF allocate_disk_block_to_i_node, Taken, Transfers
  <1> HIDE DEF b
  <1>4. u.node = s.node /\ u.free = s.free \ {b} /\ u.ind = s.ind /\ u.block = s.block
    BY <1>1 DEF Transfers
  <1>5. CASE b = None
    <2>1. t = [s EXCEPT !.block = None]
      BY <1>3, <1>5
    <2>2. t.block = None /\ t.free = s.free /\ t.ind = s.ind
      BY <1>1, <2>1 DEF Transfers
    <2> HIDE DEF t
    <2> QED BY <1>1, <1>5, <2>2 DEF b, t
  <1>6. CASE b # None /\ VacantSlot(s.node.direct_ptr) # None
    <2>1. t = AddDirect(u, b)
      BY <1>3, <1>6
    <2>2. t.block = b /\ t.ind = s.ind
      BY <1>1, <2>1 DEF AddDirect, Transfers
    <2> HIDE DEF t
    <2> QED BY <1>2, <1>6, <2>2 DEF b, t
  <1>7. CASE b # None /\ VacantSlot(s.node.direct_ptr) = None
    <2> DEFINE fresh == u.node.indirect_ptr = None
               p     == IF fresh THEN First(u.free) ELSE u.node.indirect_ptr
               ptrs  == IF fresh THEN [k \in IndexSlots |-> None] ELSE u.ind[p]
               new   == IF disk_ready THEN SetPointers(u.ind, p, [ptrs EXCEPT ![VacantSlot(ptrs)] = b])
                        ELSE u.ind
    <2>1. \/ v = [u EXCEPT !.block = None]
          \/ v = [u EXCEPT !.block = Garbage]
          \/ v = [u EXCEPT !.free = @ \ {p}, !.node.indirect_ptr = p, !.ind = new, !.block = b]
      <3> HIDE DEF u
      <3> QED BY DEF AddIndirect
    <2>2. t = v
      BY <1>3, <1>7
    <2>3. /\ t.block \in {b, None, Garbage}
          /\ t.block # b => t.free = s.free \ {b}
          /\ t.node = s.node \/ s.node.indirect_ptr = None
      <3> HIDE DEF new, v, t
      <3>1. CASE t = [u EXCEPT !.block = None] \/ t = [u EXCEPT !.block = Garbage]
        BY <1>1, <1>4, <3>1 DEF Transfers
      <3>2. CASE t = [u EXCEPT !.free = @ \ {p}, !.node.indirect_ptr = p, !.ind = new, !.block = b]
        <4>1. t.block = b /\ t.node = [s.node EXCEPT !.indirect_ptr = p]
          BY <1>1, <3>2 DEF Transfers
        <4>2. s.node.indirect_ptr # None => p = s.node.indirect_ptr
          BY <1>4
        <4> HIDE DEF p
        <4>3. s.node \in INode
          BY <1>1 DEF Transfers
        <4> QED BY <4>1, <4>2, <4>3 DEF INode
      <3> QED BY <2>1, <2>2, <3>1, <3>2
    <2> HIDE DEF t, v
    <2> QED BY <1>2, <1>7, <2>3 DEF b, t
  <1> QED BY <1>5, <1>6, <1>7

LEMMA IndirectIsWrite ==
    ASSUME NEW ind \in Contents
    PROVE  WriteIndirect(ind) \in Writes /\ WriteIndirect(ind).to = "indirect"
           /\ WriteIndirect(ind).what = ind
  BY DEF WriteIndirect, Writes

(* One more write, if what it leaves is sound.                              *)
LEMMA CutOffOn ==
    ASSUME i_node_table \in [INodes -> INode],
           NEW a, NEW R, NEW x \in INodes, NEW d \in CutOff(a, R, x)
    PROVE  LET S == CutOff(a, R, x) IN
           /\ \A free \in SUBSET Blocks :
                 LET e == [d EXCEPT !.bitmap = free] IN
                 Sound(a, R, d.i_nodes[x], free, d.indirect) =>
                    e \in S /\ Leads(S, d, <<WriteBitmap(free)>>, e)
           /\ \A ind \in Contents :
                 LET e == [d EXCEPT !.indirect = ind] IN
                 Sound(a, R, d.i_nodes[x], d.bitmap, ind) =>
                    e \in S /\ Leads(S, d, <<WriteIndirect(ind)>>, e)
           /\ \A node \in INode :
                 LET e == [d EXCEPT !.i_nodes = [i_node_table EXCEPT ![x] = node]] IN
                 Sound(a, R, node, d.bitmap, d.indirect) =>
                    e \in S /\ Leads(S, d, <<WriteINodes(e.i_nodes)>>, e)
  <1> DEFINE S == CutOff(a, R, x)
  <1>1. S \subseteq Disks /\ d \in S /\ d \in Disks
    BY DEF CutOff
  <1>2. d.root = disk.root /\ d.i_nodes = [i_node_table EXCEPT ![x] = d.i_nodes[x]]
        /\ d.i_nodes \in [INodes -> INode]
    BY <1>1 DEF CutOff, Disks
  <1>3. ASSUME NEW free \in SUBSET Blocks, Sound(a, R, d.i_nodes[x], free, d.indirect)
        PROVE  LET e == [d EXCEPT !.bitmap = free] IN
               e \in S /\ Leads(S, d, <<WriteBitmap(free)>>, e)
    <2> DEFINE e == [d EXCEPT !.bitmap = free]
    <2>1. /\ e \in Disks /\ e.i_nodes = d.i_nodes /\ e.root = d.root
          /\ e.bitmap = free /\ e.indirect = d.indirect
      BY <1>1 DEF Disks
    <2>2. e \in S
      <3> HIDE DEF e
      <3> QED BY <1>2, <1>3, <2>1 DEF CutOff
    <2>3. WriteBitmap(free) \in Writes /\ WriteBitmap(free).to = "bitmap"
          /\ WriteBitmap(free).what = free
      BY DEF WriteBitmap, Writes, Tables
    <2>4. e = [d EXCEPT ![WriteBitmap(free).to] = WriteBitmap(free).what]
      BY <2>3
    <2> HIDE DEF e, S
    <2> QED BY <1>1, <2>2, <2>3, <2>4, LeadsOnce DEF e
  <1>4. ASSUME NEW ind \in Contents, Sound(a, R, d.i_nodes[x], d.bitmap, ind)
        PROVE  LET e == [d EXCEPT !.indirect = ind] IN
               e \in S /\ Leads(S, d, <<WriteIndirect(ind)>>, e)
    <2> DEFINE e == [d EXCEPT !.indirect = ind]
    <2>1. /\ e \in Disks /\ e.i_nodes = d.i_nodes /\ e.root = d.root
          /\ e.bitmap = d.bitmap /\ e.indirect = ind
      BY <1>1 DEF Disks
    <2>2. e \in S
      <3> HIDE DEF e
      <3> QED BY <1>2, <1>4, <2>1 DEF CutOff
    <2>3. WriteIndirect(ind) \in Writes /\ WriteIndirect(ind).to = "indirect"
          /\ WriteIndirect(ind).what = ind
      BY IndirectIsWrite
    <2>4. e = [d EXCEPT ![WriteIndirect(ind).to] = WriteIndirect(ind).what]
      BY <2>3
    <2> HIDE DEF e, S
    <2> QED BY <1>1, <2>2, <2>3, <2>4, LeadsOnce DEF e
  <1>5. ASSUME NEW node \in INode, Sound(a, R, node, d.bitmap, d.indirect)
        PROVE  LET e == [d EXCEPT !.i_nodes = [i_node_table EXCEPT ![x] = node]] IN
               e \in S /\ Leads(S, d, <<WriteINodes(e.i_nodes)>>, e)
    <2> DEFINE nodes == [i_node_table EXCEPT ![x] = node]
               e == [d EXCEPT !.i_nodes = nodes]
    <2>1. nodes \in [INodes -> INode] /\ nodes[x] = node
      OBVIOUS
    <2> HIDE DEF nodes
    <2>2. /\ e \in Disks /\ e.i_nodes = nodes /\ e.root = d.root
          /\ e.bitmap = d.bitmap /\ e.indirect = d.indirect
      BY <1>1, <2>1 DEF Disks
    <2>3. e \in S
      <3> HIDE DEF e
      <3>1. e.i_nodes = [i_node_table EXCEPT ![x] = e.i_nodes[x]]
        BY <2>1, <2>2 DEF nodes
      <3> QED BY <1>2, <1>5, <2>1, <2>2, <3>1 DEF CutOff
    <2>4. WriteINodes(nodes) \in Writes /\ WriteINodes(nodes).to = "i_nodes"
          /\ WriteINodes(nodes).what = nodes
      BY <2>1 DEF WriteINodes, Writes, Tables
    <2>5. e = [d EXCEPT ![WriteINodes(nodes).to] = WriteINodes(nodes).what]
      BY <2>4
    <2> HIDE DEF e, S
    <2>6. e \in S /\ Leads(S, d, <<WriteINodes(nodes)>>, e)
      BY <1>1, <2>3, <2>4, <2>5, LeadsOnce
    <2> QED BY <2>2, <2>6 DEF e, nodes
  <1> QED BY <1>3, <1>4, <1>5

(* What the disk has of the file of s: the i-node but for its size, which   *)
(* is at least that of the start.                                           *)
LEMMA TracksIs ==
    ASSUME NEW a \in Transfers, NEW R, NEW x, NEW s, Keeps(a, R, s), NEW d \in Tracks(a, R, x, s)
    PROVE  /\ d \in CutOff(a, R, x) /\ d \in Disks
           /\ d.bitmap = s.free /\ d.indirect = s.ind
           /\ d.i_nodes[x] = [s.node EXCEPT !.size = d.i_nodes[x].size]
           /\ d.i_nodes[x].size \in Nat /\ d.i_nodes[x].size <= s.node.size
           /\ Follows(a, a) => a.node.size <= d.i_nodes[x].size
  <1> DEFINE node == d.i_nodes[x]
             v == [a EXCEPT !.node = node, !.free = d.bitmap, !.ind = d.indirect]
  <1>1. Sound(a, R, node, d.bitmap, d.indirect) /\ d \in CutOff(a, R, x) /\ d \in Disks
        /\ d.bitmap = s.free /\ d.indirect = s.ind
        /\ node = [s.node EXCEPT !.size = node.size] /\ node.size <= s.node.size
    BY DEF Tracks, CutOff
  <1>2. v.node = node
    BY DEF Transfers
  <1>3. Keeps(a, R, v) /\ (Follows(a, a) => Covers(a, v))
    BY <1>1 DEF Sound
  <1> HIDE DEF v
  <1>4. node.size \in Nat /\ (Follows(a, a) => a.node.size <= node.size)
    BY <1>2, <1>3 DEF Keeps, Covers
  <1> QED BY <1>1, <1>4

LEMMA AllocationLeads ==
    ASSUME i_node_table \in [INodes -> INode], disk_ready,
           NEW a \in Transfers, NEW R, a.free \cap R = {},
           NEW f, fdt[f].i_node_ptr \in INodes,
           NEW s, Keeps(a, R, s), Follows(a, a) => Follows(a, s),
           NEW d \in Tracks(a, R, fdt[f].i_node_ptr, s)
    PROVE  LET x == fdt[f].i_node_ptr
               t == allocate_disk_block_to_i_node(s)
           IN  /\ Keeps(a, R, t) /\ (Follows(a, a) => Covers(a, t))
               /\ \E e \in Tracks(a, R, x, t) :
                     Leads(CutOff(a, R, x), d, AllocationWrites(f, s), e)
  <1> DEFINE x == fdt[f].i_node_ptr
             S == CutOff(a, R, x)
             b == First(s.free)
             t == allocate_disk_block_to_i_node(s)
             p == t.node.indirect_ptr
             fresh == p # s.node.indirect_ptr
             nones == [k \in IndexSlots |-> None]
             taken == <<WriteBitmap(s.free \ {b})>>
             filled == <<WriteBitmap(t.free), WriteIndirect(SetPointers(s.ind, p, nones))>>
             stored == <<WriteIndirect(t.ind), WriteINode(f, t.node)>>
             z == d.i_nodes[x].size
  <1>1. /\ Ready(s) /\ s \in Transfers /\ s.node \in INode /\ s.ind \in Contents
        /\ s.free \subseteq Blocks /\ s.free \subseteq a.free /\ s.node.size \in Nat
    BY DEF Keeps, Ready, Transfers
  <1>2. /\ b = None \/ b \in s.free
        /\ b = None => t.block = None
        /\ t.block \in {b, None, Garbage}
        /\ t.block = None => t.free = s.free \ {b}
        /\ t.ind = s.ind \/ t.node = s.node \/ s.node.indirect_ptr = None
    BY <1>1, AllocationOrder
  <1>3. (\E c \in s.free : Allocates(s, t, c)) \/ RunsOut(s, t)
    BY <1>1, Allocation
  <1>4. AllocationWrites(f, s) = IF b = None THEN <<>>
                                 ELSE taken \o (IF fresh THEN filled ELSE <<>>)
                                            \o (IF t.block = None THEN <<>> ELSE stored)
    BY DEF AllocationWrites
  <1>5. /\ d \in S /\ S \subseteq Disks /\ d.bitmap = s.free /\ d.indirect = s.ind
        /\ d.i_nodes[x] = [s.node EXCEPT !.size = z] /\ z \in Nat /\ z <= s.node.size
        /\ Follows(a, a) => a.node.size <= z
    <2>1. S \subseteq Disks
      BY DEF CutOff
    <2> HIDE DEF S, x
    <2>2. d \in Tracks(a, R, x, s)
      BY DEF x
    <2> QED BY <2>1, <2>2, TracksIs DEF S
  <1>6. Follows(a, a) => Covers(a, s)
    BY DEF Follows
  <1>7. ASSUME NEW free \in SUBSET Blocks, free \subseteq s.free
        PROVE  Sound(a, R, d.i_nodes[x], free, s.ind)
    <2> HIDE DEF x, z
    <2> QED BY <1>5, <1>6, <1>7, SoundIs
  <1> HIDE DEF b, t, S, x, z, taken, filled, stored
  <1>8. CASE RunsOut(s, t)
    <2>1. /\ t.block = None /\ t.node = s.node /\ t.ind = s.ind /\ t.free \subseteq s.free
          /\ t \in Transfers
      BY <1>1, <1>8 DEF RunsOut, Transfers
    <2>2. Used(s.node, s.ind) \cap t.free = {} /\ WellFormed(s.node, s.ind)
      BY <1>1, <2>1 DEF Ready
    <2>3. Keeps(a, R, t) /\ (Covers(a, s) => Covers(a, t))
      BY <1>1, <2>1, <2>2 DEF Keeps, Ready, PtrOf, Covers
    <2>4. t.free = s.free \ {b} /\ ~ fresh
      BY <1>2, <2>1
    <2>5. CASE b = None
      <3>1. t.free = s.free
        BY <1>1, <2>4, <2>5, BlockNumbers
      <3>2. d \in Tracks(a, R, x, t)
        BY <2>1, <3>1 DEF Tracks, x
      <3>3. Leads(S, d, AllocationWrites(f, s), d)
        BY <1>4, <1>5, <2>5, LeadsNowhere
      <3> QED BY <1>6, <2>3, <3>2, <3>3 DEF x, t, S
    <2>6. CASE b # None
      <3> DEFINE e == [d EXCEPT !.bitmap = t.free]
      <3>1. e \in S /\ Leads(S, d, <<WriteBitmap(t.free)>>, e)
        <4>1. t.free \in SUBSET Blocks /\ Sound(a, R, d.i_nodes[x], t.free, d.indirect)
          BY <1>1, <1>5, <1>7, <2>1
        <4> QED BY <1>5, <4>1, CutOffOn DEF x, S
      <3>2. /\ e.bitmap = t.free /\ e.indirect = d.indirect /\ e.i_nodes = d.i_nodes
        BY <1>5 DEF Disks
      <3>3. AllocationWrites(f, s) = <<WriteBitmap(t.free)>>
        BY <1>4, <2>1, <2>4, <2>6 DEF taken
      <3> HIDE DEF e
      <3>4. e \in Tracks(a, R, x, t)
        BY <1>5, <2>1, <3>1, <3>2 DEF Tracks, S, z
      <3> QED BY <1>6, <2>3, <3>1, <3>3, <3>4 DEF x, t, S
    <2> QED BY <2>5, <2>6
  <1>9. CASE \E c \in s.free : Allocates(s, t, c)
    <2>1. b \in s.free /\ Allocates(s, t, b) /\ t.block = b /\ b # None
      BY <1>1, <1>2, <1>9, BlockNumbers DEF Allocates
    <2>2. /\ t \in Transfers /\ t.node \in INode /\ t.ind \in Contents /\ t.free \subseteq Blocks
          /\ t.node.size = s.node.size /\ t.free = s.free \ {b, p}
          /\ p = s.node.indirect_ptr \/ (s.node.indirect_ptr = None /\ p \in s.free \ {b})
          /\ \A q \in DOMAIN s.ind : q # p => q \in DOMAIN t.ind /\ t.ind[q] = s.ind[q]
      BY <2>1 DEF Allocates, Transfers
    <2>3. Keeps(a, R, t)
      BY <2>1, AllocationKeeps
    <2>4. Covers(a, s) => Covers(a, t)
      BY <1>1, <2>1, AllocationCovers
    <2> HIDE <1>3, <1>9
    <2>5. ASSUME NEW q \in R, q \in DOMAIN s.ind
          PROVE  /\ q # p \/ p = s.node.indirect_ptr
                 /\ s.node.indirect_ptr = None => q # p
      <3>1. q # None
        BY <1>1, <2>5, ContentsIs, BlockNumbers
      <3>2. p \in s.free => q # p
        BY <1>1
      <3> QED BY <2>2, <3>1, <3>2
    <2>6. ASSUME NEW ind \in Contents, NEW free \in SUBSET Blocks, free \subseteq s.free,
                 s.node.indirect_ptr = None,
                 \A q \in DOMAIN s.ind : q # p => q \in DOMAIN ind /\ ind[q] = s.ind[q]
          PROVE  Sound(a, R, d.i_nodes[x], free, ind)
      <3> DEFINE v == [s EXCEPT !.ind = ind]
      <3>1. Keeps(a, R, v) /\ (Covers(a, s) => Covers(a, v))
        <4>1. \A q \in R : q \in DOMAIN s.ind => q \in DOMAIN ind /\ ind[q] = s.ind[q]
          BY <2>5, <2>6
        <4> QED BY <2>6, <4>1, OthersIndirect
      <3>2. v.node = s.node /\ v.ind = ind /\ v.free = s.free
        BY <1>1 DEF Transfers
      <3> HIDE DEF v
      <3>3. Sound(a, R, [v.node EXCEPT !.size = z], free, v.ind)
        BY <1>5, <1>6, <2>6, <3>1, <3>2, SoundIs
      <3> QED BY <1>5, <3>2, <3>3
    <2>7. \E e \in S : /\ Leads(S, d, taken \o (IF fresh THEN filled ELSE <<>>), e)
                       /\ e.bitmap = t.free /\ e.i_nodes = d.i_nodes
      <3> DEFINE e == [d EXCEPT !.bitmap = s.free \ {b}]
      <3>1. e \in S /\ Leads(S, d, taken, e)
        <4>1. s.free \ {b} \in SUBSET Blocks /\ Sound(a, R, d.i_nodes[x], s.free \ {b}, d.indirect)
          BY <1>1, <1>5, <1>7
        <4> QED BY <1>5, <4>1, CutOffOn DEF x, S, taken
      <3>2. e.bitmap = s.free \ {b} /\ e.indirect = d.indirect /\ e.i_nodes = d.i_nodes
        BY <1>5 DEF Disks
      <3> HIDE DEF e
      <3>3. CASE ~ fresh
        <4>1. p \notin s.free
          <5>1. None \notin s.free
            BY <1>1, BlockNumbers
          <5>2. p # None => p \in Used(s.node, s.ind)
            BY <3>3 DEF Used
          <5> QED BY <1>1, <5>1, <5>2 DEF Ready
        <4>2. t.free = s.free \ {b}
          BY <2>2, <4>1
        <4>3. taken \o <<>> = taken
          BY DEF taken
        <4> QED BY <3>1, <3>2, <3>3, <4>2, <4>3
      <3>4. CASE fresh
        <4> DEFINE ind == SetPointers(s.ind, p, nones)
                   g == [e EXCEPT !.bitmap = t.free]
                   h == [g EXCEPT !.indirect = ind]
        <4>1. s.node.indirect_ptr = None /\ p \in Blocks
          BY <1>1, <2>2, <3>4
        <4>2. ind \in Contents /\ \A q \in DOMAIN s.ind : q # p => q \in DOMAIN ind /\ ind[q] = s.ind[q]
          <5>1. nones \in Pointers
            BY DEF Pointers
          <5>2. PICK old : old = s.ind
            OBVIOUS
          <5>3. old \in Contents
            BY <1>1, <5>2
          <5> HIDE DEF nones, p
          <5>4. /\ SetPointers(old, p, nones) \in Contents
                /\ DOMAIN SetPointers(old, p, nones) = DOMAIN old \cup {p}
                /\ \A q \in DOMAIN old : q # p => SetPointers(old, p, nones)[q] = old[q]
            BY <4>1, <5>1, <5>3, SetPointersIs
          <5> QED BY <5>2, <5>4
        <4> HIDE DEF ind
        <4>3. Sound(a, R, d.i_nodes[x], t.free, ind)
          BY <2>2, <2>6, <4>1, <4>2
        <4>4. g \in S /\ Leads(S, e, <<WriteBitmap(t.free)>>, g)
          <5>1. t.free \in SUBSET Blocks /\ Sound(a, R, e.i_nodes[x], t.free, e.indirect)
            BY <1>5, <1>7, <2>2, <3>2
          <5> QED BY <3>1, <5>1, CutOffOn DEF x, S
        <4>5. g.bitmap = t.free /\ g.indirect = e.indirect /\ g.i_nodes = e.i_nodes
          BY <1>5, <3>1 DEF Disks
        <4> HIDE DEF g
        <4>6. h \in S /\ Leads(S, g, <<WriteIndirect(ind)>>, h)
          <5>1. Sound(a, R, g.i_nodes[x], g.bitmap, ind)
            BY <3>2, <4>3, <4>5
          <5> QED BY <4>2, <4>4, <5>1, CutOffOn DEF x, S
        <4>7. h.bitmap = g.bitmap /\ h.i_nodes = g.i_nodes
          BY <1>5, <4>4 DEF Disks
        <4> HIDE DEF h
        <4>8. Leads(S, e, <<WriteBitmap(t.free)>> \o <<WriteIndirect(ind)>>, h)
          BY <1>5, <3>1, <4>4, <4>6, LeadsOn
        <4>9. filled = <<WriteBitmap(t.free)>> \o <<WriteIndirect(ind)>>
          BY DEF filled, ind
        <4>10. Leads(S, d, taken \o filled, h)
          BY <1>5, <3>1, <4>8, <4>9, LeadsOn
        <4> QED BY <3>2, <3>4, <4>5, <4>6, <4>7, <4>10
      <3> QED BY <3>3, <3>4
    <2>8. PICK e \in S : /\ Leads(S, d, taken \o (IF fresh THEN filled ELSE <<>>), e)
                         /\ e.bitmap = t.free /\ e.i_nodes = d.i_nodes
      BY <2>7
    <2> DEFINE g == [e EXCEPT !.indirect = t.ind]
               h == [g EXCEPT !.i_nodes = [i_node_table EXCEPT ![x] = t.node]]
    <2>9. Sound(a, R, d.i_nodes[x], t.free, t.ind)
      <3>1. CASE t.ind = s.ind
        BY <1>7, <2>2, <3>1
      <3>2. CASE s.node.indirect_ptr = None
        BY <2>2, <2>6, <3>2
      <3>3. CASE t.node = s.node
        <4>1. Sound(a, R, [t.node EXCEPT !.size = z], t.free, t.ind)
          BY <1>5, <1>6, <2>2, <2>3, <2>4, SoundIs
        <4> QED BY <1>5, <3>3, <4>1
      <3> QED BY <1>2, <3>1, <3>2, <3>3
    <2>10. g \in S /\ Leads(S, e, <<WriteIndirect(t.ind)>>, g)
      BY <2>2, <2>8, <2>9, CutOffOn DEF x, S
    <2>11. g.bitmap = t.free /\ g.indirect = t.ind
      BY <1>5, <2>8 DEF Disks
    <2> HIDE DEF g
    <2>12. Sound(a, R, t.node, t.free, t.ind)
      <3>1. Sound(a, R, [t.node EXCEPT !.size = t.node.size], t.free, t.ind)
        <4>1. t.node.size \in Nat /\ t.node.size <= t.node.size
              /\ (Follows(a, a) => a.node.size <= t.node.size)
          BY <1>1, <1>6, <2>2 DEF Covers
        <4> QED BY <1>6, <2>2, <2>3, <2>4, <4>1, SoundIs
      <3>2. [t.node EXCEPT !.size = t.node.size] = t.node
        BY <2>2 DEF INode
      <3> QED BY <3>1, <3>2
    <2>13. h \in S /\ Leads(S, g, <<WriteINodes(h.i_nodes)>>, h)
      BY <2>2, <2>10, <2>11, <2>12, CutOffOn DEF x, S
    <2>14. /\ h.bitmap = t.free /\ h.indirect = t.ind /\ h.i_nodes[x] = t.node
           /\ h.i_nodes = [i_node_table EXCEPT ![x] = t.node]
      <3>1. h.i_nodes = [i_node_table EXCEPT ![x] = t.node] /\ h.bitmap = g.bitmap
            /\ h.indirect = g.indirect
        BY <1>5, <2>10 DEF Disks
      <3> HIDE DEF h
      <3> QED BY <2>11, <3>1 DEF x
    <2> HIDE DEF h
    <2>15. h \in Tracks(a, R, x, t)
      <3>1. t.node = [t.node EXCEPT !.size = t.node.size] /\ t.node.size <= t.node.size
        BY <1>1, <2>2 DEF INode
      <3> QED BY <2>13, <2>14, <3>1 DEF Tracks, S
    <2>16. stored = <<WriteIndirect(t.ind)>> \o <<WriteINodes(h.i_nodes)>>
      BY <2>14 DEF stored, WriteINode, x
    <2>17. Leads(S, e, stored, h)
      BY <1>5, <2>8, <2>10, <2>13, <2>16, LeadsOn
    <2>18. Leads(S, d, (taken \o (IF fresh THEN filled ELSE <<>>)) \o stored, h)
      BY <1>5, <2>8, <2>17, LeadsOn
    <2>19. AllocationWrites(f, s) = (taken \o (IF fresh THEN filled ELSE <<>>)) \o stored
      BY <1>4, <2>1
    <2> QED BY <1>6, <2>3, <2>4, <2>15, <2>18, <2>19 DEF x, t, S
  <1> QED BY <1>3, <1>8, <1>9

(* After its block is there, a level changes the size only, and what the    *)
(* indirect blocks hold if it writes over one.                              *)
LEMMA ChunkSize ==
    ASSUME NEW s \in Transfers, ~ Over(s),
           NEW v, v = (IF should_add_new(s) THEN allocate_disk_block_to_i_node(s) ELSE s),
           v \in Transfers, v.node.size \in Nat
    PROVE  LET u == WriteChunk(s) IN
           /\ u.free = v.free /\ v.node.size <= u.node.size
           /\ u.node = [v.node EXCEPT !.size = u.node.size]
  <1> DEFINE t == IF should_add_new(s) THEN allocate_disk_block_to_i_node(s)
                  ELSE [s EXCEPT !.block = BlockAt(s.node, s.ind, s.ptr)]
             u == WriteChunk(s)
             n == ChunkLength(s)
             z == Larger(v.node.size, s.ptr + n)
  <1>1. t.node = v.node /\ t.free = v.free /\ t = [v EXCEPT !.block = t.block]
    <2>1. CASE should_add_new(s)
      BY <2>1 DEF Transfers
    <2>2. CASE ~ should_add_new(s)
      BY <2>2 DEF Transfers
    <2> QED BY <2>1, <2>2
  <1>2. u = IF Over(t) THEN t
            ELSE IF s.ptr + n >= IntLimit THEN [t EXCEPT !.block = Garbage]
            ELSE [t EXCEPT !.ptr = @ + n, !.left = @ - n, !.node.size = Larger(@, s.ptr + n),
                           !.ind = Restrict(@, DOMAIN @ \ {t.block})]
    BY DEF WriteChunk, ChunkLength
  <1>3. v.node \in INode /\ s.ptr + n \in Int
    BY ChunkLengthIs DEF Transfers
  <1>4. z \in Nat /\ v.node.size <= z
    <2> HIDE DEF n
    <2> QED BY <1>3 DEF Larger
  <1> HIDE DEF t, u, n
  <1>5. CASE Over(t)
    BY <1>1, <1>2, <1>3, <1>5 DEF u, INode
  <1>7. CASE ~ Over(t) /\ s.ptr + n >= IntLimit
    <2>1. u.free = v.free /\ u.node = v.node
      BY <1>1, <1>2, <1>7 DEF Transfers
    <2> QED BY <1>3, <2>1 DEF u, INode
  <1>6. CASE ~ Over(t) /\ ~ (s.ptr + n >= IntLimit)
    <2>1. u.free = v.free /\ u.node = [v.node EXCEPT !.size = z]
      BY <1>1, <1>2, <1>6 DEF Transfers
    <2>2. u.node.size = z
      <3> HIDE DEF z
      <3> QED BY <1>3, <2>1 DEF INode
    <2> QED BY <1>4, <2>1, <2>2 DEF u
  <1> QED BY <1>5, <1>6, <1>7

LEMMA ChunkLeads ==
    ASSUME i_node_table \in [INodes -> INode], disk_ready,
           NEW a \in Transfers, a.node.size \in Nat, NEW R, a.free \cap R = {},
           NEW f, fdt[f].i_node_ptr \in INodes,
           NEW s, Keeps(a, R, s), Follows(a, a) => Follows(a, s),
           NEW d \in Tracks(a, R, fdt[f].i_node_ptr, s)
    PROVE  LET x == fdt[f].i_node_ptr IN
           \E e \in Tracks(a, R, x, WriteChunk(s)) :
               Leads(CutOff(a, R, x), d, ChunkWrites(f, s), e)
  <1> DEFINE x == fdt[f].i_node_ptr
             S == CutOff(a, R, x)
             u == WriteChunk(s)
             v == IF should_add_new(s) THEN allocate_disk_block_to_i_node(s) ELSE s
             first == IF should_add_new(s) THEN AllocationWrites(f, s) ELSE <<>>
  <1>1. S \subseteq Disks /\ d \in S /\ d \in Tracks(a, R, x, s) /\ x \in INodes
    BY DEF CutOff, Tracks
  <1>2. CASE Over(s)
    <2>1. u = s /\ ChunkWrites(f, s) = <<>>
      BY <1>2 DEF WriteChunk, ChunkWrites
    <2> HIDE DEF u, S, x
    <2>2. Leads(S, d, <<>>, d)
      BY <1>1, LeadsNowhere
    <2> QED BY <1>1, <2>1, <2>2 DEF u, S, x
  <1>3. CASE ~ Over(s)
    <2>1. Keeps(a, R, v) /\ \E e \in Tracks(a, R, x, v) : Leads(S, d, first, e)
      <3>1. CASE should_add_new(s)
        <4>1. v = allocate_disk_block_to_i_node(s) /\ first = AllocationWrites(f, s)
          BY <3>1
        <4> HIDE DEF v, first
        <4> QED BY <1>1, <4>1, AllocationLeads
      <3>2. CASE ~ should_add_new(s)
        <4>1. v = s /\ first = <<>>
          BY <3>2
        <4> HIDE DEF v, first, S, x
        <4>2. Leads(S, d, <<>>, d)
          BY <1>1, LeadsNowhere
        <4> QED BY <1>1, <4>1, <4>2
      <3> QED BY <3>1, <3>2
    <2>2. PICK e \in Tracks(a, R, x, v) : Leads(S, d, first, e)
      BY <2>1
    <2>3. /\ e \in S /\ e \in Disks /\ e.bitmap = v.free /\ e.indirect = v.ind
          /\ e.i_nodes[x] = [v.node EXCEPT !.size = e.i_nodes[x].size]
          /\ e.i_nodes[x].size \in Nat /\ e.i_nodes[x].size <= v.node.size
          /\ Follows(a, a) => a.node.size <= e.i_nodes[x].size
      <3> HIDE DEF x, v, S
      <3> QED BY <2>1, <2>2, TracksIs DEF S
    <2>4. Keeps(a, R, u) /\ (Follows(a, a) => Covers(a, u))
      BY WriteChunkKeeps, WriteChunkFollows DEF Follows
    <2>5. u \in Transfers /\ u.ind \in Contents /\ v \in Transfers /\ v.node.size \in Nat
          /\ s \in Transfers /\ v.node \in INode /\ u.node.size \in Nat
      <3> HIDE DEF u, v
      <3> QED BY <2>1, <2>4 DEF Keeps, Ready, Transfers
    <2>6. /\ u.free = v.free /\ v.node.size <= u.node.size
          /\ u.node = [v.node EXCEPT !.size = u.node.size]
      BY <1>3, <2>5, ChunkSize
    <2> DEFINE z == e.i_nodes[x].size
               g == [e EXCEPT !.indirect = u.ind]
    <2> HIDE DEF u, v, S, x, first
    <2>7. Sound(a, R, e.i_nodes[x], e.bitmap, u.ind)
      <3>1. z \in Nat /\ z <= u.node.size /\ (Follows(a, a) => a.node.size <= z)
        BY <2>3, <2>5, <2>6
      <3>2. Sound(a, R, [u.node EXCEPT !.size = z], u.free, u.ind)
        <4> HIDE DEF z
        <4> QED BY <2>4, <2>5, <3>1, SoundIs
      <3>3. [u.node EXCEPT !.size = z] = [v.node EXCEPT !.size = z]
        <4> HIDE DEF z
        <4> QED BY <2>5, <2>6 DEF INode
      <3> QED BY <2>3, <2>6, <3>2, <3>3
    <2>8. g \in S /\ Leads(S, e, <<WriteIndirect(u.ind)>>, g)
      BY <1>1, <2>3, <2>5, <2>7, CutOffOn DEF S
    <2>9. g.bitmap = e.bitmap /\ g.indirect = u.ind /\ g.i_nodes = e.i_nodes
      BY <2>3 DEF Disks
    <2> HIDE DEF g
    <2>10. g \in Tracks(a, R, x, u)
      <3>1. g.i_nodes[x] = [u.node EXCEPT !.size = z] /\ z <= u.node.size
        <4>1. e.i_nodes[x] = [v.node EXCEPT !.size = z] /\ z \in Nat /\ z <= v.node.size
          BY <2>3
        <4> HIDE DEF z
        <4> QED BY <2>5, <2>6, <2>9, <4>1 DEF INode
      <3>2. g.i_nodes[x].size = z
        BY <2>9
      <3> HIDE DEF z
      <3> QED BY <2>3, <2>6, <2>8, <2>9, <3>1, <3>2 DEF Tracks, S
    <2>11. ChunkWrites(f, s) = first \o <<WriteIndirect(u.ind)>>
      BY <1>3 DEF ChunkWrites, first, u
    <2>12. Leads(S, d, first \o <<WriteIndirect(u.ind)>>, g)
      BY <1>1, <2>2, <2>8, LeadsOn
    <2> QED BY <2>10, <2>11, <2>12 DEF u, S, x
  <1> QED BY <1>2, <1>3

(* At every level there is a disk to go on from.                            *)
LEMMA TracksSome ==
    ASSUME i_node_table \in [INodes -> INode], disk \in Disks,
           NEW a, NEW R, NEW x \in INodes, a \in Transfers,
           NEW s, Keeps(a, R, s), Follows(a, a) => Covers(a, s)
    PROVE  [i_nodes |-> [i_node_table EXCEPT ![x] = s.node], root |-> disk.root,
            bitmap |-> s.free, indirect |-> s.ind] \in Tracks(a, R, x, s)
  <1> DEFINE nodes == [i_node_table EXCEPT ![x] = s.node]
             d == [i_nodes |-> nodes, root |-> disk.root, bitmap |-> s.free, indirect |-> s.ind]
  <1>1. s.node \in INode /\ s.free \subseteq Blocks /\ s.ind \in Contents /\ s.node.size \in Nat
    BY DEF Keeps, Ready, Transfers
  <1>2. nodes \in [INodes -> INode] /\ nodes[x] = s.node
        /\ nodes = [i_node_table EXCEPT ![x] = nodes[x]]
    BY <1>1
  <1> HIDE DEF nodes
  <1>3. d \in Disks
    BY <1>1, <1>2 DEF Disks
  <1>4. [s.node EXCEPT !.size = s.node.size] = s.node
    BY <1>1 DEF INode
  <1>5. Sound(a, R, s.node, s.free, s.ind)
    <2>1. s.node.size <= s.node.size /\ (Follows(a, a) => a.node.size <= s.node.size)
      BY <1>1 DEF Covers
    <2>2. Sound(a, R, [s.node EXCEPT !.size = s.node.size], s.free, s.ind)
      BY <1>1, <2>1, SoundIs
    <2> QED BY <1>4, <2>2
  <1>6. d.i_nodes = nodes /\ d.root = disk.root /\ d.bitmap = s.free /\ d.indirect = s.ind
    OBVIOUS
  <1> HIDE DEF d
  <1>7. d \in CutOff(a, R, x)
    BY <1>2, <1>3, <1>5, <1>6 DEF CutOff
  <1>8. s.node.size <= s.node.size
    BY <1>1
  <1>9. d \in Tracks(a, R, x, s)
    BY <1>2, <1>4, <1>6, <1>7, <1>8 DEF Tracks
  <1> QED BY <1>9 DEF d, nodes

LEMMA DiskIs ==
    ASSUME TablesOK, DiskOK
    PROVE  /\ disk \in Disks /\ disk.i_nodes = i_node_table /\ disk.bitmap = free_bitmap
           /\ disk.indirect = indirect
           /\ disk.root = Restrict(root_dir_table, 0 .. SavedEntries - 1)
           /\ DOMAIN disk.root = 0 .. SavedEntries - 1
           /\ \A i \in 0 .. SavedEntries - 1 : disk.root[i] = root_dir_table[i]
  <1>1. disk = Image(i_node_table, root_dir_table, free_bitmap, indirect)
    BY DEF DiskOK, DiskMirrors
  <1>2. Restrict(root_dir_table, 0 .. SavedEntries - 1) \in [0 .. SavedEntries - 1 -> RootEntry]
        /\ \A i \in 0 .. SavedEntries - 1 :
              Restrict(root_dir_table, 0 .. SavedEntries - 1)[i] = root_dir_table[i]
    BY Indices DEF Restrict, TablesOK
  <1>3. disk.root = Restrict(root_dir_table, 0 .. SavedEntries - 1)
        /\ disk.i_nodes = i_node_table /\ disk.bitmap = free_bitmap
    BY <1>1, ImageIs
  <1>4. disk \in Disks
    <2> DEFINE r == Restrict(root_dir_table, 0 .. SavedEntries - 1)
    <2>1. disk = [i_nodes |-> i_node_table, root |-> r, bitmap |-> free_bitmap,
                  indirect |-> indirect]
      BY <1>1 DEF Image
    <2> HIDE DEF r
    <2>2. r \in [0 .. SavedEntries - 1 -> RootEntry] /\ indirect \in Contents
      BY <1>2 DEF r, DiskOK
    <2> QED BY <2>1, <2>2 DEF Disks, TablesOK
  <1> QED BY <1>2, <1>3, <1>4 DEF indirect

(* The directory is saved as it is on the disk.                             *)
LEMMA RootSaved ==
    ASSUME TablesOK, DiskOK, NEW S, S \subseteq Disks, NEW d \in S, d.root = disk.root
    PROVE  Leads(S, d, <<WriteRoot(root_dir_table)>>, d)
  <1> DEFINE v == WriteRoot(root_dir_table)
  <1>1. v.to = "root" /\ v.what = disk.root
    BY DiskIs DEF WriteRoot
  <1>2. d \in Disks /\ disk.root \in [0 .. SavedEntries - 1 -> RootEntry]
    BY DiskIs DEF Disks
  <1>3. v \in Writes
    BY <1>1, <1>2 DEF WriteRoot, Writes, Tables
  <1> HIDE DEF v
  <1>4. [d EXCEPT ![v.to] = v.what] = d
    BY <1>1, <1>2 DEF Disks
  <1>5. Leads(S, d, <<v>>, [d EXCEPT ![v.to] = v.what])
    BY <1>3, <1>4, LeadsOnce
  <1> QED BY <1>4, <1>5 DEF v

LEMMA FwriteCutOff ==
    ASSUME SfsInv, NEW f \in Entries, fdt[f].occupied, NEW length \in Nat \ {0}
    PROVE  LET x == fdt[f].i_node_ptr
               w == FwriteWrites(f, length)
           IN  \A n \in 0 .. Len(w) :
                   write_blocks(disk, w, n) \in CutOff(Start(f, length), OtherBlocks(x), x)
  <1> DEFINE x == fdt[f].i_node_ptr
             a == Start(f, length)
             R == OtherBlocks(x)
             S == CutOff(a, R, x)
             G == {s \in Transfers : Keeps(a, R, s) /\ (Follows(a, a) => Follows(a, s))}
             level == WriteLevels(f, length)
             good == [n \in 0 .. length |-> Tracks(a, R, x, level[n])]
             chunk == [n \in 1 .. length |-> ChunkWrites(f, level[n - 1])]
             s == level[length]
             last == <<WriteRoot(root_dir_table), WriteINode(f, s.node), WriteBitmap(s.free)>>
  <1>1. TablesOK /\ DiskOK /\ disk_ready /\ i_node_table \in [INodes -> INode]
        /\ length \in Nat
    BY InvParts DEF DiskOK, TablesOK
  <1>2. /\ x \in INodes /\ a.free \cap R = {} /\ a \in Transfers /\ Keeps(a, R, a)
        /\ a.node = i_node_table[x] /\ a.free = free_bitmap /\ a.ind = indirect
        /\ a.node.size \in Nat
    <2>1. a.node = i_node_table[x] /\ a.free = free_bitmap /\ a.ind = indirect
      BY DEF Start
    <2>2. x \in INodes /\ free_bitmap \cap R = {} /\ a \in Transfers /\ Keeps(a, R, a)
      BY <1>1, StartKeeps
    <2>3. a.node.size \in Nat
      BY <2>2 DEF Keeps
    <2> QED BY <2>1, <2>2, <2>3
  <1> HIDE DEF x, a, R
  <1>3. ASSUME NEW e \in G PROVE WriteChunk(e) \in G
    <2>1. Keeps(a, R, WriteChunk(e)) /\ (Follows(a, a) => Follows(a, WriteChunk(e)))
      BY <1>1, <1>2, WriteChunkKeeps, WriteChunkFollows
    <2>2. WriteChunk(e) \in Transfers
      BY <2>1 DEF Keeps, Ready
    <2> QED BY <2>1, <2>2
  <1>4. a \in G
    BY <1>2
  <1>5. /\ level[0] = a
        /\ \A n \in 1 .. length : level[n] = WriteChunk(level[n - 1])
        /\ \A n \in 0 .. length : level[n] \in G
    <2> HIDE DEF G, level
    <2> QED BY <1>1, <1>3, <1>4, WriteLevelsAre DEF a, level
  <1> HIDE DEF level
  <1>6. S \subseteq Disks
    BY DEF CutOff
  <1>7. good \in [0 .. length -> SUBSET S]
    BY DEF Tracks
  <1>8. disk \in Disks
    BY <1>1, DiskIs
  <1>9. ASSUME NEW n \in 1 .. length, NEW d \in good[n - 1]
        PROVE  \E e \in good[n] : Leads(S, d, chunk[n], e)
    <2>1. n - 1 \in 0 .. length /\ n \in 0 .. length
      OBVIOUS
    <2>2. good[n - 1] = Tracks(a, R, x, level[n - 1]) /\ good[n] = Tracks(a, R, x, level[n])
          /\ chunk[n] = ChunkWrites(f, level[n - 1]) /\ level[n] = WriteChunk(level[n - 1])
      BY <1>5, <2>1
    <2>3. Keeps(a, R, level[n - 1]) /\ (Follows(a, a) => Follows(a, level[n - 1]))
      BY <1>5, <2>1
    <2> DEFINE l == level[n - 1]
    <2> HIDE DEF good, chunk, S, l
    <2>4. \E e \in Tracks(a, R, x, WriteChunk(l)) :
             Leads(CutOff(a, R, x), d, ChunkWrites(f, l), e)
      <3>1. d \in Tracks(a, R, fdt[f].i_node_ptr, l) /\ fdt[f].i_node_ptr \in INodes
        BY <1>2, <2>2 DEF l, x
      <3>2. Keeps(a, R, l) /\ (Follows(a, a) => Follows(a, l))
        BY <2>3 DEF l
      <3> QED BY <1>1, <1>2, <3>1, <3>2, ChunkLeads DEF x
    <2> QED BY <2>2, <2>4 DEF S, l
  <1>10. chunk \in [1 .. length -> Seq(Writes)]
    <2>1. ASSUME NEW n \in 1 .. length PROVE chunk[n] \in Seq(Writes)
      <3>1. n - 1 \in 0 .. length
        OBVIOUS
      <3>2. \E d : d \in good[n - 1]
        <4>1. Keeps(a, R, level[n - 1]) /\ (Follows(a, a) => Covers(a, level[n - 1]))
          BY <1>5, <3>1 DEF Follows
        <4>2. \E d : d \in Tracks(a, R, x, level[n - 1])
          BY <1>1, <1>2, <1>8, <4>1, TracksSome
        <4> QED BY <3>1, <4>2
      <3>3. \E d, e : Leads(S, d, chunk[n], e)
        BY <1>9, <3>2
      <3> QED BY <3>3 DEF Leads
    <2> QED BY <2>1
  <1>11. disk \in good[0]
    <2>1. Follows(a, a) => Covers(a, a)
      BY DEF Follows
    <2>2. [i_nodes |-> [i_node_table EXCEPT ![x] = a.node], root |-> disk.root,
           bitmap |-> a.free, indirect |-> a.ind] \in Tracks(a, R, x, a)
      BY <1>1, <1>2, <1>8, <2>1, TracksSome
    <2>3. disk = [i_nodes |-> [i_node_table EXCEPT ![x] = a.node], root |-> disk.root,
                  bitmap |-> a.free, indirect |-> a.ind]
      <3>1. [i_node_table EXCEPT ![x] = a.node] = i_node_table
        BY <1>1, <1>2
      <3>2. disk.i_nodes = i_node_table /\ disk.bitmap = a.free /\ disk.indirect = a.ind
        BY <1>1, <1>2, DiskIs
      <3> QED BY <1>8, <3>1, <3>2 DEF Disks
    <2>4. good[0] = Tracks(a, R, x, a)
      BY <1>1, <1>5
    <2> QED BY <2>2, <2>3, <2>4
  <1>12. PICK e \in good[length] : Leads(S, disk, FlattenSeq(chunk), e)
    <2> HIDE DEF good, chunk, S
    <2>1. \E e \in good[length] : Leads(S, disk, FlattenSeq(chunk), e)
      BY <1>6, <1>7, <1>9, <1>10, <1>11, FlattenLeads
    <2> QED BY <2>1
  <1>13. /\ Keeps(a, R, s) /\ (Follows(a, a) => Covers(a, s)) /\ s \in Transfers
         /\ e \in Tracks(a, R, x, s)
    BY <1>1, <1>5 DEF Follows
  <1> HIDE DEF good, s
  <1>14. e \in S /\ e \in Disks /\ e.bitmap = s.free /\ e.indirect = s.ind /\ e.root = disk.root
    BY <1>6, <1>13 DEF Tracks, CutOff
  <1>15. Leads(S, e, <<WriteRoot(root_dir_table)>>, e)
    BY <1>1, <1>6, <1>14, RootSaved
  <1> DEFINE g == [e EXCEPT !.i_nodes = [i_node_table EXCEPT ![x] = s.node]]
             h == [g EXCEPT !.bitmap = s.free]
  <1>16. s.node \in INode /\ s.free \in SUBSET Blocks
    BY <1>13 DEF Transfers
  <1>17. Sound(a, R, s.node, s.free, s.ind)
    <2>1. s.node.size \in Nat /\ s.node.size <= s.node.size
          /\ (Follows(a, a) => a.node.size <= s.node.size)
      BY <1>13 DEF Keeps, Covers
    <2>2. Sound(a, R, [s.node EXCEPT !.size = s.node.size], s.free, s.ind)
      BY <1>2, <1>13, <2>1, SoundIs
    <2>3. [s.node EXCEPT !.size = s.node.size] = s.node
      BY <1>16 DEF INode
    <2> QED BY <2>2, <2>3
  <1>18. g \in S /\ Leads(S, e, <<WriteINodes(g.i_nodes)>>, g)
    BY <1>1, <1>2, <1>14, <1>16, <1>17, CutOffOn DEF S
  <1>19. g.i_nodes = [i_node_table EXCEPT ![x] = s.node] /\ g.bitmap = e.bitmap
         /\ g.indirect = e.indirect
    BY <1>14 DEF Disks
  <1>20. g.i_nodes[x] = s.node
    BY <1>1, <1>2, <1>19
  <1> HIDE DEF g
  <1>21. h \in S /\ Leads(S, g, <<WriteBitmap(s.free)>>, h)
    BY <1>1, <1>2, <1>14, <1>16, <1>17, <1>18, <1>19, <1>20, CutOffOn DEF S
  <1> HIDE DEF h
  <1>22. Leads(S, e, <<WriteRoot(root_dir_table)>> \o <<WriteINodes(g.i_nodes)>>, g)
    BY <1>6, <1>14, <1>15, <1>18, LeadsOn
  <1>23. Leads(S, e, (<<WriteRoot(root_dir_table)>> \o <<WriteINodes(g.i_nodes)>>)
                     \o <<WriteBitmap(s.free)>>, h)
    BY <1>6, <1>14, <1>21, <1>22, LeadsOn
  <1>24. last = (<<WriteRoot(root_dir_table)>> \o <<WriteINodes(g.i_nodes)>>)
                \o <<WriteBitmap(s.free)>>
    BY <1>19 DEF WriteINode, x
  <1> HIDE DEF last, chunk, S
  <1>25. disk \in S
    BY <1>7, <1>11 DEF good
  <1>26. Leads(S, disk, FlattenSeq(chunk) \o last, h)
    BY <1>6, <1>12, <1>23, <1>24, <1>25, LeadsOn
  <1>27. FwriteWrites(f, length) = FlattenSeq(chunk) \o last
    BY DEF FwriteWrites, chunk, last, level, s
  <1> QED BY <1>26, <1>27 DEF Leads, S, x, a, R

-----------------------------------------------------------------------------
(* What a table holds after some writes is what it held, or what one of     *)
(* them wrote to it.                                                        *)
LEMMA MaxOf ==
    ASSUME NEW n \in Nat, NEW V, V \subseteq 1 .. n, V # {}
    PROVE  Max(V) \in V
  <1> DEFINE U == {n - x : x \in V}
  <1>1. U \subseteq Nat /\ U # {}
    <2>1. \A x \in V : n - x \in Nat
      OBVIOUS
    <2>2. PICK x : x \in V
      OBVIOUS
    <2> QED BY <2>1, <2>2
  <1>2. PICK u \in U : \A y \in U : u <= y
    <2> HIDE DEF U
    <2> QED BY <1>1, Least
  <1>3. PICK x \in V : u = n - x
    OBVIOUS
  <1>4. ASSUME NEW y \in V PROVE x >= y
    <2>1. n - y \in U /\ x \in 1 .. n /\ y \in 1 .. n
      OBVIOUS
    <2> HIDE DEF U
    <2> QED BY <1>2, <1>3, <2>1
  <1> QED BY <1>4 DEF Max

LEMMA WrittenIs ==
    ASSUME NEW d \in Disks, NEW w, NEW n \in Nat
    PROVE  LET e == write_blocks(d, w, n) IN
           /\ \A t \in {"i_nodes", "root", "bitmap", "indirect"} :
                 e[t] = d[t] \/ \E i \in 1 .. n : w[i].to = t /\ e[t] = w[i].what
           /\ (/\ e.i_nodes \in [INodes -> INode] /\ e.root \in [0 .. SavedEntries - 1 -> RootEntry]
               /\ e.bitmap \subseteq Blocks /\ e.indirect \in Contents) => e \in Disks
  <1> DEFINE T == {"i_nodes", "root", "bitmap", "indirect"}
             e == write_blocks(d, w, n)
             Those(t) == {i \in 1 .. n : w[i].to = t}
  <1>1. DOMAIN d = T
    BY DEF Disks
  <1>2. e = [t \in T |-> IF Those(t) = {} THEN d[t] ELSE w[Max(Those(t))].what]
    BY <1>1 DEF write_blocks
  <1>3. ASSUME NEW t, Those(t) # {} PROVE Max(Those(t)) \in 1 .. n /\ w[Max(Those(t))].to = t
    <2>1. Those(t) \subseteq 1 .. n /\ \A i \in Those(t) : w[i].to = t
      OBVIOUS
    <2> HIDE DEF Those
    <2>2. Max(Those(t)) \in Those(t)
      BY <1>3, <2>1, MaxOf
    <2> QED BY <2>1, <2>2
  <1> HIDE DEF e, Those
  <1>4. ASSUME NEW t \in T
        PROVE  e[t] = d[t] \/ \E i \in 1 .. n : w[i].to = t /\ e[t] = w[i].what
    <2>1. e[t] = IF Those(t) = {} THEN d[t] ELSE w[Max(Those(t))].what
      BY <1>2
    <2> QED BY <1>3, <2>1
  <1>5. e = [i_nodes |-> e.i_nodes, root |-> e.root, bitmap |-> e.bitmap, indirect |-> e.indirect]
    <2>1. e = [t \in T |-> e[t]]
      BY <1>2
    <2> QED BY <2>1
  <1>6. ASSUME e.i_nodes \in [INodes -> INode], e.root \in [0 .. SavedEntries - 1 -> RootEntry],
               e.bitmap \subseteq Blocks, e.indirect \in Contents
        PROVE  e \in Disks
    BY <1>5, <1>6 DEF Disks
  <1> QED BY <1>4, <1>6 DEF e

LEMMA DiskHolds ==
    DiskOK => DiskWorks
  BY ContentsIs DEF DiskWorks, DiskOK

LEMMA DiskIsBut ==
    ASSUME NEW X, InvBut(X)
    PROVE  /\ TablesOK /\ DiskOK /\ disk \in Disks
           /\ disk.i_nodes = i_node_table /\ disk.bitmap = free_bitmap
           /\ disk.indirect = indirect
           /\ \A i \in 0 .. SavedEntries - 1 : disk.root[i] = root_dir_table[i]
  BY InvButParts, DiskIs

(* A new process finds, of the directory on a disk d, the entries that have *)
(* room there; with the other tables of d they make a sound file system,    *)
(* but for the i-nodes Y.                                                   *)
LEMMA CrashLoads ==
    ASSUME NEW X, InvBut(X), NewProcess, NEW d \in Disks, disk' = d, d.root = disk.root, NEW Y,
           d.i_nodes[0] = RootINode,
           \A i \in INodes : ~ d.i_nodes[i].occupied => d.i_nodes[i] = FreeINode,
           \A y \in FileNodes :
              /\ WellFormed(d.i_nodes[y], d.indirect)
              /\ \/ y \in Y
                 \/ /\ d.i_nodes[y].occupied /\ d.i_nodes[y].size \in Nat
                    /\ Used(d.i_nodes[y], d.indirect) \cap d.bitmap = {},
           \A y, z \in FileNodes : y # z =>
              Used(d.i_nodes[y], d.indirect) \cap Used(d.i_nodes[z], d.indirect) = {}
    PROVE  /\ InvBut(Y)' /\ FileNodes' \subseteq FileNodes
           /\ i_node_table' = d.i_nodes /\ free_bitmap' = d.bitmap /\ indirect' = d.indirect
           /\ \A i \in 0 .. SavedEntries - 1 : root_dir_table'[i] = root_dir_table[i]
           /\ \A i \in Occupied' : i \in Occupied /\ root_dir_table'[i] = root_dir_table[i]
           /\ \A f \in Entries : ~ fdt'[f].occupied
           /\ undefined' = undefined
  <1>1. /\ TablesOK /\ OthersOK /\ DirectoryBut(X) /\ DiskOK
        /\ \A i \in 0 .. SavedEntries - 1 : disk.root[i] = root_dir_table[i]
    BY InvButParts, DiskIsBut
  <1>2. /\ i_node_table' = d.i_nodes /\ free_bitmap' = d.bitmap /\ disk_ready' = TRUE
        /\ root_dir_table' = [i \in Entries |-> IF i < SavedEntries THEN d.root[i] ELSE ZeroEntry]
        /\ fdt' = initialize_FDT /\ ret' = Result("mksfs", 0) /\ undefined' = undefined
        /\ curr_file_index' = 0 /\ indirect' = d.indirect
    <2>1. root_dir_table' = [i \in Entries |-> IF i < SavedEntries THEN disk'.root[i]
                                               ELSE [j \in Entries |-> ZeroEntry][i]]
      BY DEF NewProcess, LoadTables
    <2> QED BY <2>1 DEF NewProcess, LoadTables, indirect
  <1>3. /\ d.i_nodes \in [INodes -> INode] /\ d.root \in [0 .. SavedEntries - 1 -> RootEntry]
        /\ d.bitmap \subseteq Blocks /\ d.indirect \in Contents
        /\ d = [i_nodes |-> d.i_nodes, root |-> d.root, bitmap |-> d.bitmap, indirect |-> d.indirect]
    BY DEF Disks
  <1>4. ASSUME NEW i \in Entries
        PROVE  /\ root_dir_table'[i] \in {ZeroEntry, root_dir_table[i]}
               /\ i \in 0 .. SavedEntries - 1 => root_dir_table'[i] = d.root[i]
    BY <1>1, <1>2, Indices
  <1>5. root_dir_table' \in [Entries -> RootEntry]
    <2>1. \A i \in Entries : root_dir_table'[i] \in RootEntry
      BY <1>1, <1>4, EmptyTables DEF TablesOK
    <2>2. root_dir_table' = [i \in Entries |-> root_dir_table'[i]]
      BY <1>2
    <2> QED BY <2>1, <2>2
  <1>6. TablesOK' /\ OthersOK'
    <2>1. 0 \in Entries
      BY SfsAssumption DEF Entries, NUM_OF_FILES
    <2> QED BY <1>1, <1>2, <1>3, <1>5, <2>1, EmptyTables DEF TablesOK, OthersOK, Result
  <1>7. DiskOK'
    <2>1. Restrict(root_dir_table', 0 .. SavedEntries - 1) = d.root
      BY <1>3, <1>4, <1>5, Indices DEF Restrict
    <2>2. d = Image(i_node_table', root_dir_table', free_bitmap', d.indirect)
      BY <1>2, <1>3, <2>1 DEF Image
    <2> QED BY <1>2, <1>3, <2>2 DEF DiskOK, DiskMirrors
  <1>8. INodesClean'
    BY <1>2 DEF INodesClean, FreeINodesClean
  <1>9. ASSUME NEW i \in Occupied'
        PROVE  i \in Occupied /\ root_dir_table'[i] = root_dir_table[i]
    BY <1>4, EmptyTables DEF Occupied
  <1>10. FileNodes' \subseteq FileNodes
    BY <1>9 DEF FileNodes
  <1>11. DirectoryBut(Y)'
    <2>1. ASSUME NEW i \in Occupied'
          PROVE  /\ root_dir_table'[i].file_name \in Names
                 /\ root_dir_table'[i].i_node_ptr \in INodes \ {0}
                 /\ \/ i_node_table'[root_dir_table'[i].i_node_ptr].occupied
                    \/ root_dir_table'[i].i_node_ptr \in Y
                 /\ \A j \in Entries :
                       root_dir_table'[j].file_name = root_dir_table'[i].file_name => i <= j
      <3>1. ASSUME NEW j \in Entries, root_dir_table'[j].file_name = root_dir_table'[i].file_name
            PROVE  i <= j
        <4>1. root_dir_table[i].file_name # NoName
          BY <1>1, <1>9, SfsAssumption DEF DirectoryBut
        <4> QED BY <1>1, <1>4, <1>9, <3>1, <4>1, EmptyTables DEF DirectoryBut
      <3>2. root_dir_table[i].i_node_ptr \in FileNodes
        BY <1>9 DEF FileNodes
      <3> QED BY <1>1, <1>2, <1>9, <3>1, <3>2 DEF DirectoryBut
    <2>2. ASSUME NEW i \in Entries \ Occupied'
          PROVE  root_dir_table'[i].i_node_ptr \in {None, 0}
      <3>1. root_dir_table[i].i_node_ptr \in {None, 0} \/ i \in Occupied
        BY <1>1 DEF DirectoryBut
      <3>2. CASE root_dir_table'[i] = ZeroEntry
        BY <3>2, EmptyTables
      <3>3. CASE root_dir_table'[i] = root_dir_table[i]
        BY <3>1, <3>3 DEF Occupied
      <3> QED BY <1>4, <3>2, <3>3
    <2>3. ASSUME NEW i \in Occupied', NEW j \in Occupied',
                 root_dir_table'[i].i_node_ptr = root_dir_table'[j].i_node_ptr
          PROVE  i = j
      BY <1>1, <1>9, <2>3 DEF DirectoryBut
    <2> QED BY <2>1, <2>2, <2>3 DEF DirectoryBut
  <1>12. StorageBut(Y)'
    BY <1>2, <1>10 DEF StorageBut
  <1>13. OpenFiles' /\ \A f \in Entries : ~ fdt'[f].occupied
    BY <1>2, EmptyTables DEF OpenFiles
  <1>14. InvBut(Y)'
    <2>1. TypeOK'
      BY <1>6, <1>7, DiskTypes, PTL
    <2>2. DiskWorks'
      BY <1>7, DiskHolds, PTL
    <2> QED BY <1>8, <1>11, <1>12, <1>13, <2>1, <2>2 DEF InvBut
  <1>15. \A i \in 0 .. SavedEntries - 1 : root_dir_table'[i] = root_dir_table[i]
    BY <1>1, <1>4, Indices
  <1> QED BY <1>2, <1>9, <1>10, <1>13, <1>14, <1>15

LEMMA FreeINodeUsesNothing ==
    ASSUME NEW ind \in Contents
    PROVE  Used(FreeINode, ind) = {} /\ WellFormed(FreeINode, ind)
  <1>1. None \notin DOMAIN ind
    BY ContentsIs, BlockNumbers
  <1>2. \A k \in Slots : FreeINode.direct_ptr = [j \in DirectSlots |-> None]
                         /\ Ptr(FreeINode, ind, k) = None
    <2>1. FreeINode.direct_ptr = [j \in DirectSlots |-> None] /\ FreeINode.indirect_ptr = None
      BY DEF FreeINode
    <2> QED BY <1>1, <2>1, SlotIs DEF Ptr, Index
  <1> QED BY <1>2, EmptyTables DEF Used, WellFormed

LEMMA NothingTorn ==
    InvBut({}) => SfsInv
  BY DEF InvBut, SfsInv, DirectoryBut, Directory, StorageBut, Storage

(* The new process has no other files than the old one, no descriptor open, *)
(* and of the files but x the same blocks.                                  *)
CrashDone(x) ==
    /\ FileNodes' \subseteq FileNodes
    /\ \A i \in Occupied' : i \in Occupied /\ root_dir_table'[i] = root_dir_table[i]
    /\ \A i \in 0 .. SavedEntries - 1 : root_dir_table'[i] = root_dir_table[i]
    /\ \A f \in Entries : ~ fdt'[f].occupied
    /\ \A y \in FileNodes \ {x} :
          /\ i_node_table'[y] = i_node_table[y]
          /\ \A k \in Slots : Ptr(i_node_table[y], indirect', k) = Ptr(i_node_table[y], indirect, k)
    /\ undefined' = undefined

(* The i-node is saved before the entry: the worst that is left of a new    *)
(* file is an i-node in use that no entry refers to.                        *)
LEMMA CrashInFopenInv ==
    ASSUME SfsInv, NEW name \in Names, CrashInFopen(name)
    PROVE  SfsInv' /\ \A x : CrashDone(x)
  <1> DEFINE w == FopenWrites(name)
             new == get_the_first_free_i_node
  <1>1. TablesOK /\ Directory /\ DiskOK /\ INodesClean /\ Storage /\ disk \in Disks
        /\ disk.i_nodes = i_node_table /\ disk.bitmap = free_bitmap /\ disk.indirect = indirect
    BY InvParts, DiskIs
  <1>2. PICK n \in 1 .. Len(w) - 1 : disk' = write_blocks(disk, w, n)
    BY DEF CrashInFopen, CutShort
  <1>3. NewProcess /\ new # None
    BY DEF CrashInFopen, CutShort, CanCreate
  <1>4. n \in Nat /\ \A i \in 1 .. n : i = 1
    BY <1>2 DEF FopenWrites
  <1>5. w[1].to = "i_nodes" /\ w[1].what = CreatedINode
    BY DEF FopenWrites, WriteINodes
  <1> DEFINE d == write_blocks(disk, w, n)
  <1>6. /\ d.i_nodes \in {disk.i_nodes, CreatedINode} /\ d.root = disk.root
        /\ d.bitmap = disk.bitmap /\ d.indirect = disk.indirect
    <2> HIDE DEF w
    <2>1. \A t \in {"i_nodes", "root", "bitmap", "indirect"} :
             d[t] = disk[t] \/ \E i \in 1 .. n : w[i].to = t /\ d[t] = w[i].what
      BY <1>1, <1>4, WrittenIs
    <2> HIDE DEF d
    <2>2. \A t \in {"i_nodes", "root", "bitmap", "indirect"} :
             d[t] = disk[t] \/ (t = "i_nodes" /\ d[t] = CreatedINode)
      BY <1>4, <1>5, <2>1
    <2> QED BY <2>2
  <1>7. /\ new \in INodes \ {0} /\ new \notin FileNodes
        /\ CreatedINode \in [INodes -> INode] /\ CreatedINode[new] = NewINode
        /\ \A i \in INodes : i # new => CreatedINode[i] = i_node_table[i]
    BY <1>3, CreatedNode
  <1> HIDE DEF new
  <1>8. /\ d.i_nodes \in [INodes -> INode]
        /\ \A i \in INodes : d.i_nodes[i] = i_node_table[i] \/ (i = new /\ d.i_nodes[i] = NewINode)
    BY <1>1, <1>6, <1>7 DEF TablesOK
  <1>9. d \in Disks
    <2>1. /\ d.root \in [0 .. SavedEntries - 1 -> RootEntry] /\ d.bitmap \subseteq Blocks
          /\ d.indirect \in Contents
      BY <1>1, <1>6 DEF Disks
    <2> HIDE DEF w
    <2> QED BY <1>1, <1>4, <1>8, <2>1, WrittenIs
  <1> HIDE DEF d
  <1>10. \A y \in FileNodes : y \in INodes /\ d.i_nodes[y] = i_node_table[y]
    BY <1>1, <1>7, <1>8 DEF Directory, FileNodes
  <1>11. d.i_nodes[0] = RootINode /\ NewINode.occupied
         /\ \A i \in INodes : ~ d.i_nodes[i].occupied => d.i_nodes[i] = FreeINode
    BY <1>1, <1>7, <1>8, Indices, EmptyTables DEF INodesClean, FreeINodesClean
  <1>12. ASSUME NEW y \in FileNodes
         PROVE  /\ WellFormed(d.i_nodes[y], d.indirect)
                /\ d.i_nodes[y].occupied /\ d.i_nodes[y].size \in Nat
                /\ Used(d.i_nodes[y], d.indirect) \cap d.bitmap = {}
    BY <1>1, <1>6, <1>10 DEF Storage, Directory, FileNodes
  <1>13. ASSUME NEW y \in FileNodes, NEW z \in FileNodes, y # z
         PROVE  Used(d.i_nodes[y], d.indirect) \cap Used(d.i_nodes[z], d.indirect) = {}
    BY <1>1, <1>6, <1>10, <1>13 DEF Storage
  <1>14. InvBut({})
    BY WithoutRemoval
  <1>15. disk' = d
    BY <1>2 DEF d
  <1>16. /\ InvBut({})' /\ FileNodes' \subseteq FileNodes
         /\ i_node_table' = d.i_nodes /\ indirect' = d.indirect
         /\ \A i \in 0 .. SavedEntries - 1 : root_dir_table'[i] = root_dir_table[i]
         /\ \A i \in Occupied' : i \in Occupied /\ root_dir_table'[i] = root_dir_table[i]
         /\ \A f \in Entries : ~ fdt'[f].occupied
         /\ undefined' = undefined
    <2> HIDE DEF w
    <2> QED BY ZenonT(60), <1>3, <1>6, <1>9, <1>11, <1>12, <1>13, <1>14, <1>15, CrashLoads
  <1>17. SfsInv'
    BY <1>16, NothingTorn, PTL
  <1> QED BY <1>1, <1>6, <1>10, <1>16, <1>17 DEF CrashDone

(* A descriptor that is open stands for the file that get_file finds.       *)
LEMMA OpenFdIs ==
    ASSUME SfsInv, NEW name \in Names, OpenFd(name) # None
    PROVE  LET f == OpenFd(name) IN
           /\ f \in Entries /\ fdt[f].occupied /\ fdt[f].i_node_ptr \in FileNodes
           /\ \A i \in Occupied : root_dir_table[i].i_node_ptr = fdt[f].i_node_ptr =>
                  root_dir_table[i].file_name = name
  <1> DEFINE h == get_file(name)
             N == {i \in Entries : root_dir_table[i].file_name = name}
             F == {i \in Entries : fdt[i].i_node_ptr = INodeOf(name) /\ fdt[i].occupied}
             f == OpenFd(name)
  <1>1. Directory /\ OpenFiles
    BY InvParts
  <1>2. h # None /\ f = get_fd(INodeOf(name)) /\ f # None
    BY DEF OpenFd
  <1>3. h \in N
    <2>1. N \subseteq Nat /\ h = First(N)
      BY Indices DEF get_file
    <2> HIDE DEF N
    <2> QED BY <1>2, <2>1, FirstIs
  <1>4. f \in F
    <2>1. F \subseteq Nat /\ f = First(F)
      BY <1>2, Indices DEF get_fd
    <2> HIDE DEF F
    <2> QED BY <1>2, <2>1, FirstIs
  <1> HIDE DEF f, h
  <1>5. f \in Entries /\ fdt[f].occupied /\ fdt[f].i_node_ptr \in FileNodes
        /\ fdt[f].i_node_ptr = root_dir_table[h].i_node_ptr
    BY <1>1, <1>4 DEF OpenFiles, INodeOf, h
  <1>6. h \in Occupied
    <2>1. fdt[f].i_node_ptr \in INodes \ {0}
      BY <1>1, <1>5 DEF Directory, FileNodes
    <2>2. fdt[f].i_node_ptr \notin {None, 0}
      BY <2>1, Indices
    <2> QED BY <1>1, <1>3, <1>5, <2>2 DEF Directory
  <1>7. \A i \in Occupied : root_dir_table[i].i_node_ptr = fdt[f].i_node_ptr =>
            root_dir_table[i].file_name = name
    BY <1>1, <1>3, <1>5, <1>6 DEF Directory
  <1> QED BY <1>5, <1>7 DEF f

(* Each write of sfs_fwrite leaves the file with what it had and some of    *)
(* what it is to get, and the other files alone.                            *)
LEMMA CrashInFwriteInv ==
    ASSUME SfsInv, NEW name \in Names, NEW length \in Lengths, CrashInFwrite(name, length)
    PROVE  LET f == OpenFd(name)
               x == fdt[f].i_node_ptr
               a == Start(f, length) IN
           /\ SfsInv' /\ CrashDone(x)
           /\ \A i \in Occupied : root_dir_table[i].i_node_ptr = x =>
                 root_dir_table[i].file_name = name
           /\ f \in Entries /\ fdt[f].occupied /\ x \in FileNodes
           /\ Follows(a, a) => /\ Covered(i_node_table'[x], indirect')
                              /\ i_node_table[x].size <= i_node_table'[x].size
           /\ \A k \in Slots : Ptr(i_node_table[x], indirect, k) # None =>
                 Ptr(i_node_table'[x], indirect', k) = Ptr(i_node_table[x], indirect, k)
  <1> DEFINE f == OpenFd(name)
             x == fdt[f].i_node_ptr
             a == Start(f, length)
             R == OtherBlocks(x)
             w == FwriteWrites(f, length)
  <1>1. /\ TablesOK /\ Directory /\ DiskOK /\ INodesClean /\ Storage /\ disk \in Disks
        /\ disk.i_nodes = i_node_table /\ disk.bitmap = free_bitmap /\ disk.indirect = indirect
        /\ i_node_table \in [INodes -> INode] /\ indirect \in Contents
    BY InvParts, DiskIs DEF TablesOK, DiskOK
  <1>2. f \in Entries /\ fdt[f].occupied /\ x \in FileNodes
        /\ \A i \in Occupied : root_dir_table[i].i_node_ptr = x =>
              root_dir_table[i].file_name = name
    <2>1. OpenFd(name) # None
      BY DEF CrashInFwrite
    <2> QED BY <2>1, OpenFdIs
  <1>3. PICK n \in 1 .. Len(w) - 1 : disk' = write_blocks(disk, w, n)
    BY DEF CrashInFwrite, CutShort
  <1>4. NewProcess
    BY DEF CrashInFwrite, CutShort
  <1>5. length \in Nat \ {0} /\ length \in Nat
    BY SfsAssumption
  <1>6. PICK d \in CutOff(a, R, x) : disk' = d
    <2>1. \A m \in 0 .. Len(w) : write_blocks(disk, w, m) \in CutOff(a, R, x)
      <3> HIDE DEF f
      <3> QED BY <1>2, <1>5, FwriteCutOff
    <2>2. n \in 0 .. Len(w)
      OBVIOUS
    <2> HIDE DEF w
    <2> QED BY <1>3, <2>1, <2>2
  <1>7. x \in INodes \ {0} /\ a \in Transfers /\ a.ind = indirect /\ a.free = free_bitmap
    <2> HIDE DEF f
    <2> QED BY <1>2, <1>5, StartKeeps DEF Start
  <1> HIDE DEF f, x, a, R, w
  <1> DEFINE node == d.i_nodes[x]
             v == [a EXCEPT !.node = node, !.free = d.bitmap, !.ind = d.indirect]
  <1>8. /\ d \in Disks /\ d.root = disk.root
        /\ d.i_nodes = [i_node_table EXCEPT ![x] = node]
        /\ Keeps(a, R, v) /\ (Follows(a, a) => Covers(a, v))
    BY DEF CutOff, Sound
  <1>9. v.node = node /\ v.free = d.bitmap /\ v.ind = d.indirect
    BY <1>7 DEF Transfers
  <1> HIDE DEF v, node
  <1>10. /\ WellFormed(node, d.indirect) /\ Used(node, d.indirect) \cap d.bitmap = {}
         /\ node.size \in Nat /\ node.occupied /\ d.bitmap \subseteq free_bitmap
         /\ Used(node, d.indirect) \cap R = {}
         /\ \A p \in R : p \in DOMAIN indirect =>
               p \in DOMAIN d.indirect /\ d.indirect[p] = indirect[p]
    BY <1>7, <1>8, <1>9 DEF Keeps, Ready
  <1>11. d.indirect \in Contents /\ d.bitmap \subseteq Blocks
    BY <1>8 DEF Disks
  <1>12. d.i_nodes[x] = node /\ \A y \in INodes : y # x => d.i_nodes[y] = i_node_table[y]
    BY <1>1, <1>7, <1>8
  <1>13. ASSUME NEW y \in FileNodes \ {x}
         PROVE  /\ y \in INodes /\ d.i_nodes[y] = i_node_table[y]
                /\ \A k \in Slots : Ptr(i_node_table[y], d.indirect, k) = Ptr(i_node_table[y], indirect, k)
                /\ Used(i_node_table[y], d.indirect) = Used(i_node_table[y], indirect)
                /\ WellFormed(i_node_table[y], d.indirect)
                /\ Used(i_node_table[y], indirect) \subseteq R
    <2>1. y \in INodes /\ i_node_table[y] \in INode
      BY <1>1 DEF Directory, FileNodes
    <2>2. WellFormed(i_node_table[y], indirect)
      BY <1>1 DEF Storage
    <2>3. Used(i_node_table[y], indirect) \subseteq R
      BY DEF OtherBlocks, R
    <2>4. i_node_table[y].indirect_ptr # None =>
             /\ i_node_table[y].indirect_ptr \in DOMAIN indirect
             /\ i_node_table[y].indirect_ptr \in R
      BY <2>2, <2>3 DEF WellFormed, Used
    <2>5. i_node_table[y].indirect_ptr # None =>
             /\ i_node_table[y].indirect_ptr \in DOMAIN d.indirect
             /\ d.indirect[i_node_table[y].indirect_ptr] = indirect[i_node_table[y].indirect_ptr]
      BY <1>10, <2>4
    <2> QED BY <1>1, <1>11, <1>12, <2>1, <2>2, <2>3, <2>5, SameIndirect
  <1>14. d.i_nodes[0] = RootINode
         /\ \A i \in INodes : ~ d.i_nodes[i].occupied => d.i_nodes[i] = FreeINode
    BY <1>1, <1>7, <1>10, <1>12, Indices DEF INodesClean, FreeINodesClean
  <1>15. ASSUME NEW y \in FileNodes
         PROVE  /\ WellFormed(d.i_nodes[y], d.indirect)
                /\ d.i_nodes[y].occupied /\ d.i_nodes[y].size \in Nat
                /\ Used(d.i_nodes[y], d.indirect) \cap d.bitmap = {}
    <2>1. CASE y = x
      BY <1>10, <1>12, <2>1
    <2>2. CASE y # x
      <3>1. i_node_table[y].occupied /\ i_node_table[y].size \in Nat
            /\ Used(i_node_table[y], indirect) \cap free_bitmap = {}
        BY <1>1 DEF Directory, Storage, FileNodes
      <3> QED BY <1>10, <1>13, <2>2, <3>1
    <2> QED BY <2>1, <2>2
  <1>16. ASSUME NEW y \in FileNodes, NEW z \in FileNodes, y # z
         PROVE  Used(d.i_nodes[y], d.indirect) \cap Used(d.i_nodes[z], d.indirect) = {}
    <2>1. CASE y # x /\ z # x
      <3>1. Used(i_node_table[y], indirect) \cap Used(i_node_table[z], indirect) = {}
        BY <1>1, <1>16 DEF Storage
      <3> QED BY <1>13, <2>1, <3>1
    <2>2. CASE y = x \/ z = x
      BY <1>10, <1>12, <1>13, <1>16, <2>2
    <2> QED BY <2>1, <2>2
  <1>17. InvBut({})
    BY WithoutRemoval
  <1>18. /\ InvBut({})' /\ FileNodes' \subseteq FileNodes
         /\ i_node_table' = d.i_nodes /\ indirect' = d.indirect
         /\ \A i \in 0 .. SavedEntries - 1 : root_dir_table'[i] = root_dir_table[i]
         /\ \A i \in Occupied' : i \in Occupied /\ root_dir_table'[i] = root_dir_table[i]
         /\ \A g \in Entries : ~ fdt'[g].occupied
         /\ undefined' = undefined
    <2>1. d \in Disks /\ d.root = disk.root /\ disk' = d
      BY <1>6, <1>8
    <2>2. \A y \in FileNodes :
             /\ WellFormed(d.i_nodes[y], d.indirect)
             /\ \/ y \in {}
                \/ /\ d.i_nodes[y].occupied /\ d.i_nodes[y].size \in Nat
                   /\ Used(d.i_nodes[y], d.indirect) \cap d.bitmap = {}
      BY <1>15
    <2>3. \A y, z \in FileNodes : y # z =>
             Used(d.i_nodes[y], d.indirect) \cap Used(d.i_nodes[z], d.indirect) = {}
      BY <1>16
    <2> HIDE DEF node
    <2> QED BY <1>4, <1>14, <1>17, <2>1, <2>2, <2>3, CrashLoads
  <1>19. SfsInv'
    BY <1>18, NothingTorn, PTL
  <1>20. CrashDone(x)
    BY <1>13, <1>18 DEF CrashDone
  <1>21. /\ Follows(a, a) => /\ Covered(i_node_table'[x], indirect')
                             /\ i_node_table[x].size <= i_node_table'[x].size
         /\ \A k \in Slots : Ptr(i_node_table[x], indirect, k) # None =>
               Ptr(i_node_table'[x], indirect', k) = Ptr(i_node_table[x], indirect, k)
    <2>1. a.node = i_node_table[x]
      BY DEF Start, a, x
    <2> QED BY <1>7, <1>8, <1>9, <1>12, <1>18, <2>1 DEF Covers, Keeps, PtrOf
  <1> QED BY <1>2, <1>19, <1>20, <1>21 DEF f, x, a

(* The n-th write of a removal.                                             *)
LEMMA RemoveWritesAre ==
    ASSUME NEW name
    PROVE  LET w == RemoveWrites(name)
               all == DIRECT_PTR_NUM + POINTERS IN
           /\ all \in Nat /\ Len(w) = all + 3
           /\ \A i \in 1 .. all + 2 :
                 \/ w[i].to = "bitmap" /\ \E k \in 0 .. all : w[i].what = Freed(name, k)
                 \/ w[i].to = "i_nodes" /\ w[i].what = RemovedINode(name)
  <1> DEFINE all == DIRECT_PTR_NUM + POINTERS
             first == [n \in 1 .. all |-> WriteBitmap(Freed(name, n))]
             last == <<WriteINodes(RemovedINode(name)), WriteBitmap(Freed(name, all)),
                       WriteRoot(RemovedEntry(name))>>
             w == first \o last
  <1>1. all \in Nat
    BY SfsAssumption
  <1>2. RemoveWrites(name) = w
    BY DEF RemoveWrites
  <1>3. Len(last) = 3 /\ last[1] = WriteINodes(RemovedINode(name))
        /\ last[2] = WriteBitmap(Freed(name, all))
    OBVIOUS
  <1> DEFINE Wrote(i) == WriteBitmap(Freed(name, i))
  <1> HIDE DEF all, last, Wrote
  <1>4. Len(first) = all /\ \A i \in 1 .. all : first[i] = WriteBitmap(Freed(name, i))
    BY <1>1
  <1> DEFINE V == {first[i] : i \in 1 .. all} \cup {last[i] : i \in 1 .. 3}
  <1>5. first \in Seq(V)
    <2>1. first \in [1 .. all -> V]
      OBVIOUS
    <2> HIDE DEF first, V
    <2> QED BY <1>1, <2>1
  <1>6. last \in Seq(V)
    <2>1. last \in [1 .. 3 -> V]
      BY DEF last
    <2> HIDE DEF V
    <2> QED BY <2>1
  <1> HIDE DEF first, V
  <1>7. /\ Len(w) = all + 3
        /\ \A i \in 1 .. all : w[i] = first[i]
        /\ w[all + 1] = last[1] /\ w[all + 2] = last[2]
    <2>1. /\ Len(w) = Len(first) + Len(last)
          /\ \A i \in 1 .. Len(first) + Len(last) :
                w[i] = IF i <= Len(first) THEN first[i] ELSE last[i - Len(first)]
      <3> USE <1>5, <1>6
      <3> QED OBVIOUS
    <2> HIDE DEF w
    <2>2. Len(w) = all + 3
      BY <1>3, <1>4, <2>1
    <2>3. ASSUME NEW i \in 1 .. all
          PROVE  w[i] = first[i]
      BY <1>1, <1>3, <1>4, <2>1, <2>3
    <2>4. w[all + 1] = last[1] /\ w[all + 2] = last[2]
      <3>1. all + 1 \in 1 .. all + 3 /\ all + 2 \in 1 .. all + 3
            /\ ~ (all + 1 <= all) /\ ~ (all + 2 <= all)
            /\ all + 1 - all = 1 /\ all + 2 - all = 2
        BY <1>1
      <3>2. ASSUME NEW i \in 1 .. all + 3, ~ (i <= all)
            PROVE  w[i] = last[i - all]
        BY <1>3, <1>4, <2>1, <3>2
      <3>3. w[all + 1] = last[all + 1 - all]
        BY <1>1, <3>1, <3>2
      <3>4. w[all + 2] = last[all + 2 - all]
        BY <1>1, <3>1, <3>2
      <3> QED BY <3>1, <3>3, <3>4
    <2> QED BY <2>2, <2>3, <2>4
  <1> HIDE DEF w
  <1>8. ASSUME NEW i \in 1 .. all + 2
        PROVE  \/ w[i].to = "bitmap" /\ \E k \in 0 .. all : w[i].what = Freed(name, k)
               \/ w[i].to = "i_nodes" /\ w[i].what = RemovedINode(name)
    <2>1. CASE i \in 1 .. all
      <3>1. i \in 0 .. all
        BY <1>1, <2>1
      <3> QED BY <1>4, <1>7, <2>1, <3>1 DEF WriteBitmap
    <2>2. CASE i = all + 1
      BY <1>3, <1>7, <2>2 DEF WriteINodes
    <2>3. CASE i = all + 2
      <3>1. all \in 0 .. all
        BY <1>1
      <3> QED BY <1>3, <1>7, <2>3, <3>1 DEF WriteBitmap
    <2> QED BY <1>1, <2>1, <2>2, <2>3
  <1> QED BY <1>1, <1>2, <1>7, <1>8 DEF all

(* What is left of a removal is the entry, with blocks already in the       *)
(* bitmap or a free i-node: the other files are as they were.               *)
LEMMA CrashInRemoveInv ==
    ASSUME NEW name \in Names, CrashInRemove(name), NEW x, x = INodeOf(name), InvBut({x})
    PROVE  /\ InvBut({x})' /\ CrashDone(x)
           /\ \A i \in Occupied : root_dir_table[i].i_node_ptr = x =>
                 root_dir_table[i].file_name = name
  <1> DEFINE node == i_node_table[x]
             w == RemoveWrites(name)
             all == DIRECT_PTR_NUM + POINTERS
  <1>1. /\ TablesOK /\ DirectoryBut({x}) /\ DiskOK /\ INodesClean /\ StorageBut({x})
        /\ indirect \in Contents /\ free_bitmap \subseteq Blocks
    BY InvButParts DEF DiskOK, TablesOK
  <1>2. /\ disk \in Disks /\ disk.i_nodes = i_node_table /\ disk.bitmap = free_bitmap
        /\ disk.indirect = indirect
    BY DiskIsBut
  <1>3. does_file_exist(name) /\ NewProcess
    BY DEF CrashInRemove, CanRemove, CutShort
  <1>4. /\ get_file(name) \in Occupied /\ x \in FileNodes
        /\ root_dir_table[get_file(name)].file_name = name
        /\ root_dir_table[get_file(name)].i_node_ptr = x
    BY <1>1, <1>3, FileFoundBut DEF INodeOf
  <1>5. x \in INodes \ {0} /\ node \in INode
    BY <1>1, <1>4 DEF DirectoryBut, FileNodes, TablesOK
  <1>24. Slots = 0 .. all - 1
    <2>1. DIRECT_PTR_NUM + (POINTERS - 1) = all - 1
      BY SfsAssumption DEF all
    <2> QED BY <2>1 DEF Slots
  <1>6. PICK n \in 1 .. Len(w) - 1 : disk' = write_blocks(disk, w, n)
    BY DEF CrashInRemove, CutShort
  <1>7. /\ all \in Nat /\ Len(w) = all + 3
        /\ \A i \in 1 .. all + 2 :
              \/ w[i].to = "bitmap" /\ \E k \in 0 .. all : w[i].what = Freed(name, k)
              \/ w[i].to = "i_nodes" /\ w[i].what = RemovedINode(name)
    BY RemoveWritesAre
  <1> HIDE DEF w, all
  <1>8. n \in Nat /\ \A i \in 1 .. n : i \in 1 .. all + 2
    BY <1>6, <1>7
  <1> DEFINE d == write_blocks(disk, w, n)
  <1>9. /\ d.i_nodes \in {i_node_table, RemovedINode(name)} /\ d.root = disk.root
        /\ d.indirect = indirect
        /\ d.bitmap = free_bitmap \/ \E k \in 0 .. all : d.bitmap = Freed(name, k)
    <2>1. \A t \in {"i_nodes", "root", "bitmap", "indirect"} :
             d[t] = disk[t] \/ \E i \in 1 .. n : w[i].to = t /\ d[t] = w[i].what
      BY <1>2, <1>8, WrittenIs
    <2> HIDE DEF d
    <2>2. \A t \in {"i_nodes", "root", "bitmap", "indirect"} :
             \/ d[t] = disk[t]
             \/ t = "bitmap" /\ \E k \in 0 .. all : d[t] = Freed(name, k)
             \/ t = "i_nodes" /\ d[t] = RemovedINode(name)
      BY <1>7, <1>8, <2>1
    <2> QED BY <1>2, <2>2
  <1>10. ASSUME NEW k \in 0 .. all
         PROVE  /\ Freed(name, k) \subseteq Blocks
                /\ Freed(name, k) \subseteq free_bitmap \cup Used(node, indirect)
    <2>1. \A j \in 0 .. k - 1 : j \in Slots
      BY <1>7, <1>24
    <2>2. \A j \in 0 .. k - 1 : PointerAt(NodeOf(name), j) = Ptr(node, indirect, j)
      BY <2>1, SameBlocks DEF NodeOf
    <2>3. {PointerAt(NodeOf(name), j) : j \in 0 .. k - 1} \ {None} \subseteq Used(node, indirect)
      BY <2>1, <2>2 DEF Used
    <2>4. Used(node, indirect) \subseteq Blocks
      BY <1>1, <1>5, PtrType
    <2> QED BY <1>1, <2>3, <2>4 DEF Freed
  <1>11. RemovedINode(name) \in [INodes -> INode] /\ RemovedINode(name)[x] = FreeINode
         /\ \A i \in INodes : i # x => RemovedINode(name)[i] = i_node_table[i]
    BY <1>1, <1>5, EmptyTables DEF RemovedINode, Cleared, TablesOK
  <1>12. d \in Disks
    <2>1. d.i_nodes \in [INodes -> INode] /\ d.bitmap \subseteq Blocks /\ d.indirect \in Contents
      BY <1>1, <1>9, <1>10, <1>11 DEF TablesOK
    <2>2. d.root \in [0 .. SavedEntries - 1 -> RootEntry]
      BY <1>2, <1>9 DEF Disks
    <2> QED BY <1>2, <1>8, <2>1, <2>2, WrittenIs
  <1> HIDE DEF d
  <1>13. /\ d.i_nodes[0] = RootINode
         /\ \A i \in INodes : d.i_nodes[i] = i_node_table[i] \/ (i = x /\ d.i_nodes[i] = FreeINode)
    BY <1>1, <1>5, <1>9, <1>11, Indices DEF INodesClean
  <1>14. \A i \in INodes : ~ d.i_nodes[i].occupied => d.i_nodes[i] = FreeINode
    BY <1>1, <1>13 DEF INodesClean, FreeINodesClean
  <1>15. d.bitmap \subseteq free_bitmap \cup Used(node, indirect)
    BY <1>9, <1>10
  <1>16. ASSUME NEW y \in FileNodes
         PROVE  /\ y \in INodes
                /\ y # x => d.i_nodes[y] = i_node_table[y]
                /\ WellFormed(d.i_nodes[y], d.indirect)
                /\ Used(d.i_nodes[y], d.indirect) \subseteq Used(i_node_table[y], indirect)
    <2>1. y \in INodes /\ WellFormed(i_node_table[y], indirect)
      BY <1>1 DEF DirectoryBut, StorageBut, FileNodes
    <2>2. Used(FreeINode, indirect) = {} /\ WellFormed(FreeINode, indirect)
      BY <1>1, FreeINodeUsesNothing
    <2> QED BY <1>9, <1>13, <2>1, <2>2
  <1>17. ASSUME NEW y \in FileNodes, y # x
         PROVE  /\ d.i_nodes[y].occupied /\ d.i_nodes[y].size \in Nat
                /\ Used(d.i_nodes[y], d.indirect) \cap d.bitmap = {}
    <2>1. i_node_table[y].occupied /\ i_node_table[y].size \in Nat
          /\ Used(i_node_table[y], indirect) \cap free_bitmap = {}
      BY <1>1, <1>17 DEF DirectoryBut, StorageBut, FileNodes
    <2>2. Used(i_node_table[y], indirect) \cap Used(node, indirect) = {}
      BY <1>1, <1>4, <1>17 DEF StorageBut
    <2> QED BY <1>9, <1>15, <1>16, <1>17, <2>1, <2>2
  <1>18. \A y \in FileNodes :
             /\ WellFormed(d.i_nodes[y], d.indirect)
             /\ \/ y \in {x}
                \/ /\ d.i_nodes[y].occupied /\ d.i_nodes[y].size \in Nat
                   /\ Used(d.i_nodes[y], d.indirect) \cap d.bitmap = {}
    BY <1>16, <1>17
  <1>19. \A y, z \in FileNodes : y # z =>
             Used(d.i_nodes[y], d.indirect) \cap Used(d.i_nodes[z], d.indirect) = {}
    <2>1. ASSUME NEW y \in FileNodes, NEW z \in FileNodes, y # z
          PROVE  Used(d.i_nodes[y], d.indirect) \cap Used(d.i_nodes[z], d.indirect) = {}
      <3>1. Used(i_node_table[y], indirect) \cap Used(i_node_table[z], indirect) = {}
        BY <1>1, <2>1 DEF StorageBut
      <3> QED BY <1>16, <3>1
    <2> QED BY <2>1
  <1>20. InvBut({x}) /\ disk' = d
    BY <1>6 DEF d
  <1> HIDE DEF node
  <1>21. /\ InvBut({x})' /\ FileNodes' \subseteq FileNodes
         /\ i_node_table' = d.i_nodes /\ indirect' = d.indirect
         /\ \A i \in 0 .. SavedEntries - 1 : root_dir_table'[i] = root_dir_table[i]
         /\ \A i \in Occupied' : i \in Occupied /\ root_dir_table'[i] = root_dir_table[i]
         /\ \A g \in Entries : ~ fdt'[g].occupied
         /\ undefined' = undefined
    <2>1. d.root = disk.root /\ d.i_nodes[0] = RootINode /\ NewProcess
      BY <1>3, <1>9, <1>13
    <2> QED BY <1>12, <1>14, <1>18, <1>19, <1>20, <2>1, CrashLoads
  <1>22. CrashDone(x)
    BY <1>9, <1>16, <1>21 DEF CrashDone
  <1>23. \A i \in Occupied : root_dir_table[i].i_node_ptr = x => root_dir_table[i].file_name = name
    BY <1>1, <1>4 DEF DirectoryBut
  <1> QED BY <1>21, <1>22, <1>23

-----------------------------------------------------------------------------
(* The inductive invariant: until its removal is tried again, the file it   *)
(* was cut short of may have a free i-node, or blocks in the bitmap; the    *)
(* new process has no descriptor open.                                      *)
Unfinished ==
    {root_dir_table[i].i_node_ptr :
        i \in {j \in Occupied : root_dir_table[j].file_name = interrupted}}

CrashInv ==
    /\ interrupted \in Names \cup {NoName}
    /\ interrupted # NoName => \A f \in Entries : ~ fdt[f].occupied
    /\ InvBut(Unfinished)

(* A file system without a torn file satisfies it.                          *)
LEMMA SoundIsStill ==
    SfsInv => InvBut(Unfinished)
  BY DEF SfsInv, InvBut, DirectoryBut, Directory, StorageBut, Storage

LEMMA OnlyTheUnfinished ==
    ASSUME NEW x, InvBut({x})',
           \A i \in Occupied' : root_dir_table'[i].i_node_ptr = x =>
               root_dir_table'[i].file_name = interrupted'
    PROVE  InvBut(Unfinished)'
  <1>1. DirectoryBut({x})' /\ StorageBut({x})' /\ OpenFiles' /\ TypeOK' /\ DiskWorks'
        /\ INodesClean'
    BY DEF InvBut
  <1>2. \A i \in Occupied' : root_dir_table'[i].i_node_ptr = x => x \in Unfinished'
    BY DEF Unfinished
  <1>3. x \in FileNodes' => x \in Unfinished'
    BY <1>2 DEF FileNodes
  <1>4. DirectoryBut(Unfinished)'
    BY <1>1, <1>2 DEF DirectoryBut
  <1>5. StorageBut(Unfinished)'
    BY <1>1, <1>3 DEF StorageBut
  <1> QED BY <1>1, <1>4, <1>5 DEF InvBut

(* Once no removal is unfinished, the file system is sound.                 *)
LEMMA RepairedIsSound ==
    ASSUME CrashInv, interrupted = NoName \/ ~ does_file_exist(interrupted)
    PROVE  SfsInv
  <1>1. Unfinished = {}
    <2>1. ASSUME NEW j \in Occupied, root_dir_table[j].file_name = interrupted
          PROVE  FALSE
      <3>1. root_dir_table[j].file_name \in Names
        BY DEF CrashInv, InvBut, DirectoryBut
      <3> QED BY <2>1, <3>1, SfsAssumption DEF does_file_exist, Occupied
    <2> QED BY <2>1 DEF Unfinished
  <1>2. InvBut({})
    BY <1>1 DEF CrashInv
  <1> QED BY <1>2, NothingTorn

LEMMA OneUnfinished ==
    ASSUME CrashInv, does_file_exist(interrupted)
    PROVE  InvBut({INodeOf(interrupted)})
  <1>1. DirectoryBut(Unfinished) /\ StorageBut(Unfinished) /\ OpenFiles /\ TypeOK
        /\ DiskWorks /\ INodesClean
    BY DEF CrashInv, InvBut
  <1>2. \A i \in Occupied : root_dir_table[i].file_name = interrupted =>
            i = get_file(interrupted)
    BY <1>1, FileFoundBut
  <1>3. Unfinished \subseteq {INodeOf(interrupted)}
    BY <1>2 DEF Unfinished, INodeOf
  <1>4. DirectoryBut({INodeOf(interrupted)})
    BY <1>1, <1>3 DEF DirectoryBut
  <1>5. StorageBut({INodeOf(interrupted)})
    BY <1>1, <1>3 DEF StorageBut
  <1> QED BY <1>1, <1>4, <1>5 DEF InvBut

(* A removal that is cut short, for the first time or again.                *)
LEMMA CrashInRemoveStep ==
    ASSUME NEW name \in Names, InvBut({INodeOf(name)}), CrashInRemove(name)
    PROVE  CrashInv'
  <1>1. PICK x : x = INodeOf(name)
    OBVIOUS
  <1>2. InvBut({x})
    BY <1>1
  <1>3. /\ InvBut({x})' /\ CrashDone(x)
        /\ \A i \in Occupied : root_dir_table[i].i_node_ptr = x =>
              root_dir_table[i].file_name = name
    BY <1>1, <1>2, CrashInRemoveInv
  <1>4. interrupted' = name
    BY DEF CrashInRemove
  <1>5. InvBut(Unfinished)'
    <2>1. \A i \in Occupied' : root_dir_table'[i].i_node_ptr = x =>
              root_dir_table'[i].file_name = interrupted'
      BY <1>3, <1>4 DEF CrashDone
    <2> QED BY <1>3, <2>1, OnlyTheUnfinished
  <1> QED BY <1>3, <1>4, <1>5 DEF CrashInv, CrashDone

LEMMA CrashStep ==
    ASSUME Overlay = "padding", Habits \subseteq {"SeekOutside"}, CrashInv, [CrashNext]_crashVars
    PROVE  CrashInv'
  <1>1. ASSUME SfsInv', interrupted' = NoName
        PROVE  CrashInv'
    <2>1. InvBut(Unfinished)'
      BY <1>1, SoundIsStill, PTL
    <2> QED BY <1>1, <2>1 DEF CrashInv
  <1>2. ASSUME undefined = "no", Undisturbed
        PROVE  CrashInv'
    <2>1. SfsInv /\ interrupted = NoName
      BY <1>2, RepairedIsSound DEF Undisturbed
    <2>2. CASE Change /\ UNCHANGED interrupted
      BY <1>1, <2>1, <2>2, CallStep DEF StepOK, Call
    <2>3. ASSUME NEW name \in Names, CrashInFopen(name)
          PROVE  CrashInv'
      BY <1>1, <2>1, <2>3, CrashInFopenInv DEF CrashInFopen
    <2>4. ASSUME NEW name \in Names, NEW length \in Lengths, CrashInFwrite(name, length)
          PROVE  CrashInv'
      BY <1>1, <2>1, <2>4, CrashInFwriteInv DEF CrashInFwrite
    <2>5. ASSUME NEW name \in Names, CrashInRemove(name)
          PROVE  CrashInv'
      BY <2>1, <2>5, WithoutRemoval, CrashInRemoveStep
    <2> QED BY <1>2, <2>2, <2>3, <2>4, <2>5 DEF Undisturbed, Crash
  <1>3. ASSUME undefined = "no", TryAgain
        PROVE  CrashInv'
    <2>1. interrupted \in Names
      BY <1>3 DEF TryAgain, CrashInv
    <2>2. CASE RemoveMissing(interrupted) /\ interrupted' = NoName
      BY <1>1, <2>1, <2>2, RepairedIsSound, RemoveMissingInv DEF RemoveMissing
    <2>3. CASE RemoveExisting(interrupted) /\ interrupted' = NoName
      BY <1>1, <2>1, <2>3, OneUnfinished, RemoveCompletes DEF RemoveExisting, CanRemove
    <2>4. CASE CrashInRemove(interrupted)
      BY <2>1, <2>4, OneUnfinished, CrashInRemoveStep DEF CrashInRemove, CanRemove
    <2> QED BY <1>3, <2>2, <2>3, <2>4 DEF TryAgain, sfs_remove
  <1>4. CASE UNCHANGED crashVars
    <2>1. /\ UNCHANGED <<i_node_table, root_dir_table, free_bitmap, fdt, disk, disk_ready>>
          /\ UNCHANGED <<curr_file_index, ret, undefined, interrupted>>
      BY <1>4 DEF crashVars, vars, others, tables
    <2>2. Occupied' = Occupied /\ FileNodes' = FileNodes /\ Unfinished' = Unfinished
          /\ indirect' = indirect
      BY <2>1 DEF Occupied, FileNodes, Unfinished, indirect
    <2> QED BY <2>1, <2>2 DEF CrashInv, InvBut, TypeOK, DirectoryBut, DiskWorks, DiskMirrors,
               INodesClean, FreeINodesClean, StorageBut, OpenFiles
  <1> QED BY <1>2, <1>3, <1>4 DEF CrashNext

(* CrashInv is an inductive invariant.                                      *)
THEOREM CrashInductive ==
    ASSUME Overlay = "padding", Habits \subseteq {"SeekOutside"}
    PROVE  CrashSpec => []CrashInv
  <1>1. CrashInit => CrashInv
    BY InitInv, SoundIsStill DEF CrashInit, CrashInv
  <1>2. CrashInv /\ [CrashNext]_crashVars => CrashInv'
    BY CrashStep
  <1> QED BY <1>1, <1>2, PTL DEF CrashSpec

(* Wherever the calls are cut short, once an unfinished removal was tried   *)
(* again no two files share a block and no file's block is free: the bitmap *)
(* is saved before the pointer when a block is taken, and sfs_remove can    *)
(* finish what another sfs_remove left.                                     *)
THEOREM CrashesDoNotCrossLink ==
    ASSUME Overlay = "padding", Habits \subseteq {"SeekOutside"}
    PROVE  CrashSpec => []NoCrossLinksAfterCrash
  <1>1. CrashInv => NoCrossLinksAfterCrash
    BY RepairedIsSound, InvNoCrossLinks DEF NoCrossLinksAfterCrash, Repaired
  <1> QED BY <1>1, CrashInductive, PTL

(* ... every entry has an i-node of its own that is in use, and the i-nodes *)
(* that are not in use are clean: sfs_fopen saves the i-node first.         *)
THEOREM CrashesKeepTablesTogether ==
    ASSUME Overlay = "padding", Habits \subseteq {"SeekOutside"}
    PROVE  CrashSpec => []TablesAgreeAfterCrash
  <1>1. CrashInv => TablesAgreeAfterCrash
    BY RepairedIsSound, InvLookupAgrees
       DEF TablesAgreeAfterCrash, Repaired, SfsInv, INodesClean
  <1> QED BY <1>1, CrashInductive, PTL

-----------------------------------------------------------------------------
(* Every file has the blocks that its size needs, and those a cut short     *)
(* write gave it; no descriptor is beyond the end of its file.              *)
BytesOf(i) ==
    LET e == root_dir_table[i] IN
    e.file_name # interrupted =>
        /\ Covered(i_node_table[e.i_node_ptr], indirect)
        /\ e.file_name \notin torn => Mapped(i_node_table[e.i_node_ptr], indirect)

BytesInv == InsideFiles /\ \A i \in Occupied : BytesOf(i)

LEMMA SameBytes ==
    ASSUME NEW node, NEW d, NEW e, \A k \in Slots : Ptr(node, e, k) = Ptr(node, d, k)
    PROVE  /\ Covered(node, d) => Covered(node, e)
           /\ Mapped(node, d) => Mapped(node, e)
  <1>1. Slots \subseteq Nat
    BY SlotIs
  <1>2. Covered(node, d) => Covered(node, e)
    BY <1>1 DEF Covered
  <1>3. Mapped(node, d) => Mapped(node, e)
    BY DEF Mapped
  <1> QED BY <1>2, <1>3

LEMMA NewINodeCovered ==
    ASSUME NEW ind \in Contents
    PROVE  Covered(NewINode, ind) /\ Mapped(NewINode, ind)
  <1>1. Mapped(NewINode, ind) /\ \A k \in Slots : Ptr(NewINode, ind, k) = None
    BY NewINodeUsesNothing
  <1> QED BY <1>1 DEF Covered, Mapped

(* What a step leaves alone keeps its bytes.                                *)
KeptBytes(i) ==
    LET e == root_dir_table[i]
        y == e.i_node_ptr IN
    /\ i \in Occupied /\ root_dir_table'[i] = e /\ i_node_table'[y] = i_node_table[y]
    /\ \A k \in Slots : Ptr(i_node_table[y], indirect', k) = Ptr(i_node_table[y], indirect, k)
    /\ e.file_name # interrupted' => e.file_name # interrupted
    /\ e.file_name \notin torn' => e.file_name \notin torn

LEMMA KeptIsCovered ==
    ASSUME BytesInv, NEW i, KeptBytes(i)
    PROVE  BytesOf(i)'
  <1> DEFINE y == root_dir_table[i].i_node_ptr
  <1>1. /\ BytesOf(i) /\ root_dir_table'[i] = root_dir_table[i]
        /\ i_node_table'[y] = i_node_table[y]
        /\ Covered(i_node_table[y], indirect) => Covered(i_node_table[y], indirect')
        /\ Mapped(i_node_table[y], indirect) => Mapped(i_node_table[y], indirect')
    BY SameBytes DEF KeptBytes, BytesInv
  <1> QED BY <1>1 DEF BytesOf, KeptBytes

LEMMA BytesNext ==
    ASSUME BytesInv, InsideFiles',
           \A i \in Occupied' : KeptBytes(i) \/ BytesOf(i)'
    PROVE  BytesInv'
  <1>1. ASSUME NEW i \in Occupied' PROVE BytesOf(i)'
    BY <1>1, KeptIsCovered
  <1> QED BY <1>1 DEF BytesInv

(* A call that ends leaves a file torn that was torn before and is there.   *)
LEMMA StillTorn ==
    ASSUME SfsInv', torn' = torn \cap Files', NEW i \in Occupied',
           root_dir_table'[i].file_name \notin torn'
    PROVE  root_dir_table'[i].file_name \notin torn
  <1> DEFINE n == root_dir_table'[i].file_name
  <1>1. n \in Names
    BY DEF SfsInv, Directory
  <1>2. n \in Files'
    BY <1>1 DEF Files, does_file_exist, Occupied
  <1> QED BY <1>2

LEMMA BytesSameTables ==
    ASSUME SfsInv', BytesInv, InsideFiles', UNCHANGED <<root_dir_table, i_node_table, indirect>>,
           torn' = torn \cap Files', UNCHANGED interrupted
    PROVE  BytesInv'
  <1>1. ASSUME NEW i \in Occupied' PROVE KeptBytes(i)
    BY <1>1, StillTorn DEF KeptBytes, Occupied
  <1> QED BY <1>1, BytesNext

LEMMA FopenBytes ==
    ASSUME SfsInv, SfsInv', BytesInv, NEW name \in Names, sfs_fopen(name),
           torn' = torn \cap Files', UNCHANGED interrupted
    PROVE  BytesInv'
  <1>1. CASE FopenAgain(name) \/ FopenOutOfBounds(name) \/ FopenTooLong(name)
    <2>1. UNCHANGED <<i_node_table, root_dir_table, indirect, fdt>>
      BY <1>1 DEF FopenTooLong, FopenAgain, FopenOutOfBounds, others, tables, indirect
    <2>2. InsideFiles'
      BY <2>1 DEF BytesInv, InsideFiles
    <2> QED BY <2>1, <2>2, BytesSameTables
  <1>2. CASE FopenExisting(name)
    <2>1. /\ UNCHANGED <<i_node_table, root_dir_table, indirect>>
          /\ \A f \in Entries : fdt'[f].occupied =>
                \/ (fdt[f].occupied /\ fdt'[f] = fdt[f])
                \/ fdt'[f].read_write_ptr = i_node_table[fdt'[f].i_node_ptr].size
      BY <1>2, FopenExistingInv DEF others, tables, indirect
    <2>2. ASSUME NEW f \in Entries, fdt'[f].occupied
          PROVE  i_node_table'[fdt'[f].i_node_ptr].size \in Nat
      BY <2>2 DEF SfsInv, OpenFiles, Storage
    <2>3. InsideFiles'
      BY <2>1, <2>2 DEF BytesInv, InsideFiles
    <2> QED BY <2>1, <2>3, BytesSameTables
  <1>3. CASE FopenCreate(name)
    <2> DEFINE x == get_the_first_free_i_node
    <2>1. /\ CreateDone(name, x) /\ Directory' /\ indirect \in Contents
      BY <1>3, FopenCreateInv, InvParts DEF SfsInv, DiskOK
    <2>2. ASSUME NEW i \in Occupied'
          PROVE  \/ root_dir_table'[i].i_node_ptr = x
                 \/ i \in Occupied /\ root_dir_table'[i] = root_dir_table[i]
      <3> DEFINE h == get_the_first_free_root_directory
      <3>1. /\ root_dir_table \in [Entries -> RootEntry]
            /\ root_dir_table' = [root_dir_table EXCEPT ![h] =
                  [file_name |-> name, i_node_ptr |-> x, occupied |-> TRUE]]
        BY <1>3, InvParts DEF FopenCreate, CreatedEntry, TablesOK
      <3> HIDE DEF h, x
      <3>2. CASE i = h
        BY <3>1, <3>2 DEF Occupied
      <3>3. CASE i # h
        BY <3>1, <3>3 DEF Occupied
      <3> QED BY <3>2, <3>3
    <2> HIDE DEF x
    <2>3. InsideFiles'
      <3>1. ASSUME NEW f \in Entries, fdt[f].occupied
            PROVE  fdt[f].i_node_ptr \in FileNodes
        BY <3>1 DEF SfsInv, OpenFiles
      <3>2. NewINode.size = 0
        BY DEF NewINode
      <3> QED BY <2>1, <3>1, <3>2 DEF CreateDone, BytesInv, InsideFiles
    <2>4. ASSUME NEW i \in Occupied' PROVE KeptBytes(i) \/ BytesOf(i)'
      <3>1. CASE root_dir_table'[i].i_node_ptr = x
        <4>1. Covered(i_node_table'[x], indirect') /\ Mapped(i_node_table'[x], indirect')
          BY <2>1, NewINodeCovered DEF CreateDone
        <4> QED BY <3>1, <4>1 DEF BytesOf
      <3>2. CASE i \in Occupied /\ root_dir_table'[i] = root_dir_table[i]
        <4>1. root_dir_table[i].i_node_ptr \in FileNodes
          BY <3>2 DEF FileNodes
        <4> QED BY <2>1, <3>2, <4>1, StillTorn DEF CreateDone, KeptBytes
      <3> QED BY <2>2, <3>1, <3>2
    <2> QED BY <2>3, <2>4, BytesNext
  <1> QED BY <1>1, <1>2, <1>3 DEF sfs_fopen, FopenShort

(* A write that ends has covered what it wrote.                             *)
LEMMA WriteFollows ==
    ASSUME SfsInv, NEW f \in Entries, fdt[f].occupied, NEW length \in Nat,
           Follows(Start(f, length), Start(f, length))
    PROVE  Follows(Start(f, length), sfs_fwrite_recursive(f, length))
  <1> DEFINE a == Start(f, length)
             R == OtherBlocks(fdt[f].i_node_ptr)
             S == {s \in Transfers : Keeps(a, R, s) /\ Follows(a, s)}
  <1>1. /\ disk_ready /\ a \in Transfers /\ Keeps(a, R, a) /\ free_bitmap \cap R = {}
        /\ a.free = free_bitmap
    BY InvParts, StartKeeps DEF Start, DiskOK
  <1>2. Follows(a, a)
    OBVIOUS
  <1> HIDE DEF a, R
  <1>6. a.free \cap R = {} /\ a.node.size \in Nat
    BY <1>1 DEF Keeps
  <1>3. ASSUME NEW s \in S PROVE WriteChunk(s) \in S
    <2>2. Keeps(a, R, s) /\ Follows(a, s)
      OBVIOUS
    <2>1. Keeps(a, R, WriteChunk(s)) /\ Follows(a, WriteChunk(s)) 
      BY <1>1, <1>6, <2>2, WriteChunkKeeps, WriteChunkFollows
    <2> QED BY <2>1 DEF Keeps, Ready
  <1>4. a \in S
    BY <1>1, <1>2
  <1> HIDE DEF S
  <1>5. sfs_fwrite_recursive(f, length) \in S
    BY <1>3, <1>4, WriteInduction DEF a
  <1> QED BY <1>5 DEF S, a

(* The file of an open descriptor may be written to.                        *)
LEMMA StartFollows ==
    ASSUME SfsInv, BytesInv, interrupted = NoName, NEW f \in Entries, fdt[f].occupied,
           NEW length \in Nat
    PROVE  Follows(Start(f, length), Start(f, length))
  <1> DEFINE x == fdt[f].i_node_ptr
             a == Start(f, length)
  <1>1. PICK i \in Occupied : root_dir_table[i].i_node_ptr = x
    BY DEF SfsInv, OpenFiles, FileNodes
  <1>2. root_dir_table[i].file_name # interrupted
    BY SfsAssumption DEF SfsInv, Directory
  <1>3. Covered(i_node_table[x], indirect)
    BY <1>1, <1>2 DEF BytesInv, BytesOf
  <1>4. fdt[f].read_write_ptr \in 0 .. i_node_table[x].size /\ i_node_table[x].size \in Nat
    BY DEF BytesInv, InsideFiles, SfsInv, OpenFiles, Storage
  <1>5. a.node = i_node_table[x] /\ a.ind = indirect /\ a.ptr = fdt[f].read_write_ptr
    BY DEF Start
  <1> HIDE DEF a, x
  <1>6. Follows(a, a)
    BY <1>3, <1>4, <1>5 DEF Follows, Covers
  <1> QED BY <1>6 DEF a

LEMMA FwriteBytes ==
    ASSUME SfsInv, SfsInv', BytesInv, interrupted = NoName, NEW f \in Entries,
           NEW length \in Lengths, sfs_fwrite(f, length),
           torn' = torn \cap Files', UNCHANGED interrupted
    PROVE  BytesInv'
  <1> DEFINE x == fdt[f].i_node_ptr
             a == Start(f, length)
             s == sfs_fwrite_recursive(f, length)
  <1>1. length \in Nat /\ Transferred(f, length, s)
    BY FwriteInv, SfsAssumption
  <1>2. ASSUME fdt[f].occupied
        PROVE  Follows(a, s)
    BY <1>1, <1>2, StartFollows, WriteFollows
  <1>3. a.node = i_node_table[x] /\ a.ind = indirect
    BY DEF Start
  <1> HIDE DEF a, s
  <1>4. CASE UNCHANGED <<fdt, tables, disk>>
    <2>1. UNCHANGED <<i_node_table, root_dir_table, indirect, fdt>>
      BY <1>4 DEF tables, indirect
    <2>2. InsideFiles'
      BY <2>1 DEF BytesInv, InsideFiles
    <2> QED BY <2>1, <2>2, BytesSameTables
  <1>5. CASE /\ fdt[f].occupied /\ x \in FileNodes
             /\ Inside(a, a) => Inside(a, s)
             /\ TransferDone(f, x, s)
    <2>1. Follows(a, s)
      BY <1>2, <1>5
    <2>2. InsideFiles'
      <3>1. ASSUME NEW g \in Entries, fdt'[g].occupied
            PROVE  fdt'[g].read_write_ptr \in 0 .. i_node_table'[fdt'[g].i_node_ptr].size
        <4>1. /\ fdt[g].occupied /\ fdt'[g].i_node_ptr = fdt[g].i_node_ptr
              /\ fdt'[g].read_write_ptr = IF g = f THEN s.ptr ELSE fdt[g].read_write_ptr
              /\ fdt[g].i_node_ptr \in FileNodes
              /\ fdt[g].i_node_ptr = x => g = f
          BY <1>5, <3>1 DEF TransferDone, SfsInv, OpenFiles, x
        <4>2. CASE g = f
          BY <1>5, <2>1, <4>1, <4>2 DEF TransferDone, Follows, x
        <4>3. CASE g # f
          BY <1>5, <4>1, <4>3 DEF TransferDone, BytesInv, InsideFiles
        <4> QED BY <4>2, <4>3
      <3> QED BY <3>1 DEF InsideFiles
    <2>3. ASSUME NEW i \in Occupied' PROVE KeptBytes(i) \/ BytesOf(i)'
      <3>1. i \in Occupied /\ root_dir_table'[i] = root_dir_table[i]
            /\ root_dir_table[i].i_node_ptr \in FileNodes
        BY <1>5, <2>3 DEF TransferDone, Occupied, FileNodes
      <3>2. CASE root_dir_table[i].i_node_ptr # x
        BY <1>5, <3>1, <3>2, StillTorn DEF TransferDone, KeptBytes
      <3>3. CASE root_dir_table[i].i_node_ptr = x
        <4>1. /\ BytesOf(i) /\ root_dir_table[i].file_name \in Names
              /\ root_dir_table[i].file_name \notin torn' => root_dir_table[i].file_name \notin torn
          BY <3>1, StillTorn DEF BytesInv, SfsInv, Directory
        <4>2. Covered(s.node, s.ind)
          BY <2>1 DEF Follows, Covers
        <4>3. Mapped(i_node_table[x], indirect) => Mapped(s.node, s.ind)
          <5>1. /\ fdt[f].read_write_ptr <= i_node_table[x].size
                /\ fdt[f].read_write_ptr \in Nat /\ i_node_table[x].size \in Nat
            BY <1>5 DEF BytesInv, InsideFiles, SfsInv, OpenFiles, Storage, x
          <5>2. Mapped(a.node, a.ind) => Inside(a, a)
            <6>1. a.ptr = fdt[f].read_write_ptr /\ a.block = 0 /\ a.left = length
              BY DEF Start, a
            <6> HIDE DEF x
            <6>2. a.ptr \in Nat /\ a.node.size \in Nat /\ a.ptr <= a.node.size
              BY <1>3, <5>1, <6>1
            <6>3. a.block # Garbage /\ a.node.size = Larger(a.node.size, a.ptr)
              BY <6>1, <6>2 DEF Larger, Garbage
            <6> QED BY <6>2, <6>3 DEF Inside
          <5> QED BY <1>3, <1>5, <5>2 DEF Inside
        <4>4. i_node_table'[x] = s.node /\ indirect' = s.ind
          BY <1>5 DEF TransferDone
        <4>5. root_dir_table[i].file_name # interrupted
          BY <4>1, SfsAssumption
        <4> HIDE DEF x
        <4> QED BY <3>1, <3>3, <4>1, <4>2, <4>3, <4>4, <4>5 DEF BytesOf
      <3> QED BY <3>2, <3>3
    <2> QED BY <2>2, <2>3, BytesNext
  <1> QED BY <1>1, <1>4, <1>5 DEF Transferred, others, a

(* What is left after a removal, and after a crash, was there before.       *)
LEMMA RemovedBytes ==
    ASSUME SfsInv', BytesInv, NEW x, RemoveDone(x), \A f \in Entries : fdt[f].occupied =>
               fdt[f].i_node_ptr \in FileNodes,
           \A i \in Occupied' :
               LET n == root_dir_table'[i].file_name IN
               /\ n # interrupted' => n # interrupted
               /\ n \notin torn' => n \notin torn
    PROVE  BytesInv'
  <1>1. ASSUME NEW i \in Occupied' PROVE KeptBytes(i)
    <2>1. i \in Occupied /\ root_dir_table'[i] = root_dir_table[i]
          /\ root_dir_table'[i].i_node_ptr \in FileNodes'
      BY <1>1 DEF RemoveDone, FileNodes
    <2>2. root_dir_table[i].i_node_ptr \in FileNodes \ {x}
      BY <2>1 DEF RemoveDone
    <2> QED BY <1>1, <2>1, <2>2 DEF KeptBytes, RemoveDone
  <1>2. InsideFiles'
    BY DEF RemoveDone, InsideFiles, BytesInv
  <1> QED BY <1>1, <1>2, BytesNext

LEMMA CrashBytes ==
    ASSUME BytesInv, NEW x, CrashDone(x),
           \A i \in Occupied' :
               LET n == root_dir_table'[i].file_name IN
               /\ n # interrupted' => n # interrupted
               /\ n \notin torn' => n \notin torn
               /\ root_dir_table'[i].i_node_ptr = x => BytesOf(i)'
    PROVE  BytesInv'
  <1>1. ASSUME NEW i \in Occupied' PROVE KeptBytes(i) \/ BytesOf(i)'
    <2>1. i \in Occupied /\ root_dir_table'[i] = root_dir_table[i]
          /\ root_dir_table[i].i_node_ptr \in FileNodes
      BY <1>1 DEF CrashDone, FileNodes
    <2> QED BY <1>1, <2>1 DEF KeptBytes, CrashDone
  <1>2. InsideFiles'
    BY DEF CrashDone, InsideFiles
  <1> QED BY <1>1, <1>2, BytesNext

LEMMA CrashInRemoveBytes ==
    ASSUME NEW name \in Names, InvBut({INodeOf(name)}), BytesInv, CrashInRemove(name),
           interrupted \in {NoName, name}
    PROVE  BytesInv'
  <1>1. PICK x : x = INodeOf(name)
    OBVIOUS
  <1>2. InvBut({x})
    BY <1>1
  <1>3. /\ CrashDone(x)
        /\ \A i \in Occupied : root_dir_table[i].i_node_ptr = x =>
              root_dir_table[i].file_name = name
    BY <1>1, <1>2, CrashInRemoveInv
  <1>4. interrupted' = name /\ torn' = torn
    BY DEF CrashInRemove
  <1>5. ASSUME NEW i \in Occupied'
        PROVE  root_dir_table'[i].file_name \in Names
    <2>1. i \in Occupied /\ root_dir_table'[i] = root_dir_table[i]
      BY <1>3, <1>5 DEF CrashDone
    <2> QED BY <1>2, <2>1 DEF InvBut, DirectoryBut
  <1>6. ASSUME NEW i \in Occupied', root_dir_table'[i].i_node_ptr = x
        PROVE  BytesOf(i)'
    <2>1. root_dir_table'[i].file_name = name
      BY <1>3, <1>6 DEF CrashDone
    <2> QED BY <1>4, <2>1 DEF BytesOf
  <1> QED BY <1>3, <1>4, <1>5, <1>6, SfsAssumption, CrashBytes

(* The calls that end.                                                      *)
LEMMA ChangeBytes ==
    ASSUME Overlay = "padding", Habits = {}, SfsInv, BytesInv, interrupted = NoName,
           Change, torn' = torn \cap Files', UNCHANGED interrupted
    PROVE  BytesInv'
  <1>1. SfsInv' /\ OpenFiles
    BY CallStep DEF StepOK, Call, SfsInv
  <1>2. \A i \in Occupied' : root_dir_table'[i].file_name \notin torn' =>
                                 root_dir_table'[i].file_name \notin torn
    BY <1>1, StillTorn
  <1>3. CASE Format
    <2>1. Occupied' = {} /\ \A f \in Entries : ~ fdt'[f].occupied
      BY <1>3, FormatInv
    <2> QED BY <2>1 DEF BytesInv, InsideFiles
  <1>4. CASE Restart
    <2>1. /\ UNCHANGED <<i_node_table, indirect, undefined>> /\ FileNodes' \subseteq FileNodes
          /\ \A i \in Occupied' : i \in Occupied /\ root_dir_table'[i] = root_dir_table[i]
          /\ \A f \in Entries : ~ fdt'[f].occupied
      BY <1>4, MountInv
    <2>2. \A i \in Occupied' : KeptBytes(i)
      BY <1>2, <2>1 DEF KeptBytes
    <2>3. InsideFiles'
      BY <2>1 DEF InsideFiles
    <2> QED BY <2>2, <2>3, BytesNext
  <1>5. ASSUME NEW f \in Entries, sfs_fclose(f) PROVE BytesInv'
    <2>1. /\ UNCHANGED <<root_dir_table, i_node_table, indirect>>
          /\ \A g \in Entries : fdt'[g].occupied => fdt'[g] = fdt[g]
      BY <1>5, FcloseInv DEF others, tables, indirect
    <2>2. InsideFiles'
      BY <2>1 DEF BytesInv, InsideFiles
    <2> QED BY <1>1, <2>1, <2>2, BytesSameTables
  <1>6. ASSUME NEW f \in Entries, NEW loc \in Seeks, sfs_fseek(f, loc) PROVE BytesInv'
    <2>1. /\ UNCHANGED <<root_dir_table, i_node_table, indirect>>
          /\ \A g \in Entries : fdt'[g].occupied =>
                /\ fdt[g].occupied /\ fdt'[g].i_node_ptr = fdt[g].i_node_ptr
                /\ fdt'[g].read_write_ptr = IF g = f THEN loc ELSE fdt[g].read_write_ptr
      BY <1>6, FseekInv DEF others, tables, indirect
    <2>2. fdt[f].occupied => loc \in 0 .. i_node_table[fdt[f].i_node_ptr].size
      BY <1>6 DEF sfs_fseek
    <2>3. InsideFiles'
      BY <2>1, <2>2 DEF BytesInv, InsideFiles
    <2> QED BY <1>1, <2>1, <2>3, BytesSameTables
  <1>7. ASSUME NEW name \in Names, sfs_fopen(name) PROVE BytesInv'
    BY <1>1, <1>7, FopenBytes
  <1>8. ASSUME NEW f \in Entries, NEW length \in Lengths, sfs_fwrite(f, length) PROVE BytesInv'
    BY <1>1, <1>8, FwriteBytes
  <1>9. ASSUME NEW name \in Names, RemoveMissing(name) PROVE BytesInv'
    <2>1. UNCHANGED <<root_dir_table, i_node_table, indirect, fdt>>
      BY <1>9 DEF RemoveMissing, others, tables, indirect
    <2>2. InsideFiles'
      BY <2>1 DEF BytesInv, InsideFiles
    <2> QED BY <1>1, <2>1, <2>2, BytesSameTables
  <1>10. ASSUME NEW name \in Names, RemoveExisting(name) PROVE BytesInv'
    <2> DEFINE x == INodeOf(name)
    <2>1. RemoveDone(x)
      BY <1>10, RemoveExistingInv
    <2> HIDE DEF x
    <2> QED BY <1>1, <1>2, <2>1, RemovedBytes DEF OpenFiles
  <1> QED BY <1>3, <1>4, <1>5, <1>6, <1>7, <1>8, <1>9, <1>10 DEF Change, sfs_remove

(* The calls that are cut short.                                            *)
LEMMA CutShortBytes ==
    ASSUME SfsInv, BytesInv, interrupted = NoName, NEW name \in Names, Crash(name)
    PROVE  BytesInv'
  <1>1. CASE CrashInFopen(name)
    <2>1. \A x : CrashDone(x)
      BY <1>1, CrashInFopenInv
    <2>2. CrashDone(None) /\ None \notin FileNodes
      BY <2>1, InvParts, Indices DEF Directory, FileNodes
    <2>3. \A i \in Occupied' : root_dir_table'[i].i_node_ptr # None
      BY <2>2 DEF CrashDone, FileNodes
    <2>4. UNCHANGED <<interrupted, torn>>
      BY <1>1 DEF CrashInFopen
    <2> QED BY <2>2, <2>3, <2>4, CrashBytes
  <1>2. ASSUME NEW length \in Lengths, CrashInFwrite(name, length) PROVE BytesInv'
    <2> DEFINE f == OpenFd(name)
               x == fdt[f].i_node_ptr
               a == Start(f, length)
    <2>1. /\ SfsInv' /\ CrashDone(x)
          /\ \A i \in Occupied : root_dir_table[i].i_node_ptr = x =>
                root_dir_table[i].file_name = name
          /\ f \in Entries /\ fdt[f].occupied
          /\ Follows(a, a) => Covered(i_node_table'[x], indirect')
      BY <1>2, CrashInFwriteInv
    <2>2. torn' = torn \cup {name} /\ UNCHANGED interrupted /\ length \in Nat
      BY <1>2, SfsAssumption DEF CrashInFwrite
    <2>3. Follows(a, a)
      BY <2>1, <2>2, StartFollows
    <2> HIDE DEF x, a, f
    <2>4. ASSUME NEW i \in Occupied', root_dir_table'[i].i_node_ptr = x PROVE BytesOf(i)'
      <3>1. root_dir_table'[i].file_name = name
        BY <2>1, <2>4 DEF CrashDone
      <3> QED BY <2>1, <2>2, <2>3, <2>4, <3>1 DEF BytesOf
    <2> QED BY <2>1, <2>2, <2>4, CrashBytes
  <1>3. CASE CrashInRemove(name)
    BY <1>3, WithoutRemoval, CrashInRemoveBytes
  <1> QED BY <1>1, <1>2, <1>3 DEF Crash

(* The removal that was cut short, once more.                               *)
LEMMA TryAgainBytes ==
    ASSUME Overlay = "padding", Habits = {}, CrashInv, BytesInv, TryAgain
    PROVE  BytesInv'
  <1>1. interrupted \in Names
    BY DEF TryAgain, CrashInv
  <1>2. CASE /\ RemoveMissing(interrupted)
             /\ interrupted' = NoName /\ torn' = torn \ {interrupted}
    <2>1. UNCHANGED <<root_dir_table, i_node_table, indirect, fdt>>
      BY <1>2 DEF RemoveMissing, others, tables, indirect
    <2>2. \A i \in Occupied : root_dir_table[i].file_name # interrupted
      BY <1>2 DEF RemoveMissing, does_file_exist, Occupied
    <2>3. ASSUME NEW i \in Occupied' PROVE KeptBytes(i)
      BY <1>2, <2>1, <2>2, <2>3 DEF KeptBytes, Occupied
    <2>4. InsideFiles'
      BY <2>1 DEF BytesInv, InsideFiles
    <2> QED BY <2>3, <2>4, BytesNext
  <1>3. CASE /\ RemoveExisting(interrupted)
             /\ interrupted' = NoName /\ torn' = torn \ {interrupted}
    <2> DEFINE x == INodeOf(interrupted)
    <2>1. does_file_exist(interrupted)
      BY <1>3 DEF RemoveExisting, CanRemove
    <2>2. InvBut({x})
      BY <2>1, OneUnfinished
    <2>3. SfsInv' /\ RemoveDone(x)
      BY <1>1, <1>3, <2>2, RemoveCompletes
    <2>4. \A i \in Occupied : root_dir_table[i].file_name = interrupted =>
              root_dir_table[i].i_node_ptr = x
      BY <2>1, <2>2, FileFoundBut DEF InvBut, INodeOf
    <2>5. OpenFiles
      BY DEF CrashInv, InvBut
    <2> HIDE DEF x
    <2>6. ASSUME NEW i \in Occupied' PROVE root_dir_table'[i].file_name # interrupted
      <3>1. i \in Occupied /\ root_dir_table'[i] = root_dir_table[i]
            /\ root_dir_table'[i].i_node_ptr \in FileNodes'
        BY <2>3, <2>6 DEF RemoveDone, FileNodes
      <3> QED BY <2>3, <2>4, <3>1 DEF RemoveDone
    <2> QED BY <1>3, <2>3, <2>5, <2>6, RemovedBytes DEF OpenFiles
  <1>4. CASE CrashInRemove(interrupted)
    BY <1>1, <1>4, OneUnfinished, CrashInRemoveBytes DEF CrashInRemove, CanRemove
  <1> QED BY <1>2, <1>3, <1>4 DEF TryAgain, sfs_remove

LEMMA BytesStep ==
    ASSUME Overlay = "padding", Habits = {}, CrashInv, BytesInv, [CrashNext]_crashVars
    PROVE  BytesInv'
  <1>1. ASSUME Undisturbed PROVE BytesInv'
    <2>1. SfsInv /\ interrupted = NoName
      BY <1>1, RepairedIsSound DEF Undisturbed
    <2> QED BY <1>1, <2>1, ChangeBytes, CutShortBytes DEF Undisturbed
  <1>2. CASE UNCHANGED crashVars
    <2>1. UNCHANGED <<i_node_table, root_dir_table, fdt, indirect, interrupted, torn>>
      BY <1>2 DEF crashVars, vars, others, tables, indirect
    <2> QED BY <2>1 DEF BytesInv, InsideFiles, BytesOf, Occupied
  <1> QED BY <1>1, <1>2, TryAgainBytes DEF CrashNext

LEMMA EveryByte ==
    ASSUME CrashInv, BytesInv
    PROVE  EveryByteHasBlock
  <1>1. ASSUME NEW n \in Files \ {interrupted}, NEW k \in Slots
        PROVE  LET p == PointerAt(NodeOf(n), k) IN
               /\ k * BLOCK_SIZE < NodeOf(n).size => p # None
               /\ n \notin torn => (p # None => k * BLOCK_SIZE < NodeOf(n).size)
    <2> DEFINE i == get_file(n)
               node == i_node_table[root_dir_table[i].i_node_ptr]
    <2>1. i \in Occupied /\ root_dir_table[i].file_name = n
      BY FileFoundBut DEF CrashInv, InvBut, Files
    <2>2. Covered(node, indirect) /\ (n \notin torn => Mapped(node, indirect))
      <3> HIDE DEF i
      <3> QED BY <2>1 DEF BytesInv, BytesOf
    <2>3. NodeOf(n) = node
      BY DEF NodeOf, INodeOf
    <2> HIDE DEF node
    <2>4. PointerAt(node, k) = Ptr(node, indirect, k)
      BY SameBlocks
    <2> QED BY <2>2, <2>3, <2>4 DEF Covered, Mapped, Offset
  <1> QED BY <1>1 DEF EveryByteHasBlock

(* Between the calls no descriptor is past the end of its file, and every   *)
(* byte that a file's size counts has a block.                              *)
LEMMA BytesInductive ==
    ASSUME Overlay = "padding", Habits = {}
    PROVE  CrashSpec => []BytesInv
  <1>1. CrashInit => BytesInv
    <2>1. Init => Occupied = {}
      BY NothingThere
    <2>2. Init => \A f \in Entries : ~ fdt[f].occupied
      BY EmptyTables DEF Init
    <2> QED BY <2>1, <2>2 DEF CrashInit, BytesInv, InsideFiles
  <1>2. CrashInv /\ BytesInv /\ [CrashNext]_crashVars => BytesInv'
    BY BytesStep
  <1>3. CrashSpec => []CrashInv
    BY CrashInductive
  <1> QED BY <1>1, <1>2, <1>3, PTL DEF CrashSpec

(* Wherever the calls are cut short, every byte that a file's size counts   *)
(* has a block, and a file that no write was cut short of has no block more *)
(* than that: the pointer is saved before the size.                         *)
THEOREM CrashesLoseNoBytes ==
    ASSUME Overlay = "padding", Habits = {}
    PROVE  CrashSpec => []EveryByteHasBlock
  <1>1. CrashInv /\ BytesInv => EveryByteHasBlock
    BY EveryByte
  <1>2. CrashSpec => []CrashInv
    BY CrashInductive
  <1>3. CrashSpec => []BytesInv
    BY BytesInductive
  <1> QED BY <1>1, <1>2, <1>3, PTL

-----------------------------------------------------------------------------
(* What a new process finds of the files.  A name that get_file finds       *)
(* stands for the same i-node as before, when no entry was lost.            *)
SavedFiles == \A i \in Occupied : i \in 0 .. SavedEntries - 1

NamesFound ==
    \A n \in Files : /\ get_file(n) \in Occupied /\ root_dir_table[get_file(n)].file_name = n
                     /\ \A i \in Occupied : root_dir_table[i].file_name = n => i = get_file(n)
                     /\ INodeOf(n) \in FileNodes

LEMMA NamesAreFound ==
    CrashInv => NamesFound
  BY FileFoundBut DEF CrashInv, InvBut, NamesFound, Files

LEMMA SavedStay ==
    ASSUME CrashInv, CrashInv', SavedFiles,
           \A i \in Occupied' : i \in Occupied /\ root_dir_table'[i] = root_dir_table[i],
           \A i \in 0 .. SavedEntries - 1 : root_dir_table'[i] = root_dir_table[i]
    PROVE  Files' = Files /\ \A n \in Files : INodeOf(n)' = INodeOf(n)
  <1>1. Occupied' = Occupied /\ \A i \in Occupied : root_dir_table'[i] = root_dir_table[i]
    BY Indices DEF SavedFiles, Occupied
  <1>2. \A n : n \in Files <=> n \in Names /\ \E i \in Occupied : root_dir_table[i].file_name = n
    BY DEF Files, does_file_exist, Occupied
  <1>3. \A n : n \in Files' <=> n \in Names /\ \E i \in Occupied' : root_dir_table'[i].file_name = n
    BY DEF Files, does_file_exist, Occupied
  <1>4. Files' = Files
    BY <1>1, <1>2, <1>3
  <1>5. NamesFound
    BY NamesAreFound
  <1>6. NamesFound'
    BY NamesAreFound, PTL
  <1>7. ASSUME NEW n \in Files
        PROVE  INodeOf(n)' = INodeOf(n)
    <2>1. get_file(n) \in Occupied /\ root_dir_table[get_file(n)].file_name = n
      BY <1>5 DEF NamesFound
    <2>2. /\ get_file(n)' \in Occupied'
          /\ \A i \in Occupied' : root_dir_table'[i].file_name = n => i = get_file(n)'
      BY <1>4, <1>6 DEF NamesFound
    <2>3. get_file(n)' = get_file(n)
      BY <1>1, <2>1, <2>2
    <2>4. INodeOf(n)' = root_dir_table'[get_file(n)'].i_node_ptr
      BY DEF INodeOf
    <2> QED BY <1>1, <2>1, <2>3, <2>4 DEF INodeOf
  <1> QED BY <1>4, <1>7

(* What CrashIsLocal says of one crash, in the call about m.                *)
Local(m) ==
    /\ Files \subseteq Files' /\ Files' \ Files \subseteq {m}
    /\ m \in Files' \ Files => NodeOf(m)'.size = 0
    /\ \A n \in Files \ {interrupted', m} : NodeOf(n)' = NodeOf(n)
    /\ \A n \in Files \ {interrupted', interrupted} :
          /\ NodeOf(n)'.size >= NodeOf(n).size
          /\ \A k \in Slots : PointerAt(NodeOf(n), k) # None =>
                PointerAt(NodeOf(n), k)' = PointerAt(NodeOf(n), k)

(* The i-node of n has the size it had or a larger one, and its blocks.     *)
Kept(y) ==
    /\ i_node_table'[y].size >= i_node_table[y].size
    /\ \A k \in Slots : Ptr(i_node_table[y], indirect, k) # None =>
          Ptr(i_node_table'[y], indirect', k) = Ptr(i_node_table[y], indirect, k)

LEMMA CrashLocal ==
    ASSUME CrashInv, CrashInv', SavedFiles, NEW x, CrashDone(x), NEW m \in Names,
           \A i \in Occupied : root_dir_table[i].i_node_ptr = x => root_dir_table[i].file_name = m,
           x \in FileNodes /\ m \notin {interrupted', interrupted} => Kept(x)
    PROVE  Local(m)
  <1>1. Files' = Files /\ \A n \in Files : INodeOf(n)' = INodeOf(n)
    BY SavedStay DEF CrashDone
  <1>2. NamesFound /\ SamePointers
    BY NamesAreFound, InBothStates
  <1>3. SamePointers'
    BY InBothStates, PTL
  <1>4. ASSUME NEW n \in Files
        PROVE  /\ INodeOf(n) \in FileNodes /\ (INodeOf(n) = x => n = m)
               /\ i_node_table[INodeOf(n)].size \in Int
    <2>1. /\ get_file(n) \in Occupied /\ root_dir_table[get_file(n)].file_name = n
          /\ INodeOf(n) = root_dir_table[get_file(n)].i_node_ptr /\ INodeOf(n) \in FileNodes
      BY <1>2 DEF NamesFound, INodeOf
    <2>2. i_node_table \in [INodes -> INode] /\ FileNodes \subseteq INodes
      BY DEF CrashInv, InvBut, TypeOK, DirectoryBut, FileNodes
    <2>3. i_node_table[INodeOf(n)].size \in Int
      BY <2>1, <2>2 DEF INode
    <2> QED BY <2>1, <2>3
  <1>5. \A n \in Files \ {interrupted', m} : NodeOf(n)' = NodeOf(n)
    BY <1>1, <1>4 DEF CrashDone, NodeOf
  <1>6. ASSUME NEW n \in Files \ {interrupted', interrupted}
        PROVE  Kept(INodeOf(n))
    BY <1>4 DEF CrashDone, Kept
  <1>7. ASSUME NEW n \in Files \ {interrupted', interrupted}
        PROVE  /\ NodeOf(n)'.size >= NodeOf(n).size
               /\ \A k \in Slots : PointerAt(NodeOf(n), k) # None =>
                     PointerAt(NodeOf(n), k)' = PointerAt(NodeOf(n), k)
    <2>1. NodeOf(n)' = i_node_table'[INodeOf(n)] /\ NodeOf(n) = i_node_table[INodeOf(n)]
      BY <1>1 DEF NodeOf
    <2>2. n \in Names /\ Kept(INodeOf(n)) /\ INodeOf(n)' = INodeOf(n)
      BY <1>1, <1>6 DEF Files
    <2>3. \A k \in Slots :
             /\ PointerAt(NodeOf(n), k) = Ptr(i_node_table[INodeOf(n)], indirect, k)
             /\ PointerAt(NodeOf(n), k)' = Ptr(i_node_table'[INodeOf(n)'], indirect', k)
      BY <1>2, <1>3, <2>2 DEF SamePointers
    <2> QED BY <2>1, <2>2, <2>3 DEF Kept
  <1> QED BY <1>1, <1>5, <1>7 DEF Local

(* mksfs(0) in a process of its own finds everything.                       *)
LEMMA RestartLocal ==
    ASSUME SfsInv, CrashInv, CrashInv', SavedFiles, Restart, UNCHANGED interrupted, NEW m \in Names
    PROVE  Local(m)
  <1>1. /\ UNCHANGED <<i_node_table, indirect, undefined>> /\ FileNodes' \subseteq FileNodes
        /\ \A i \in Occupied' : i \in Occupied /\ root_dir_table'[i] = root_dir_table[i]
        /\ \A f \in Entries : ~ fdt'[f].occupied
        /\ \A i \in 0 .. SavedEntries - 1 : root_dir_table'[i] = disk.root[i]
    BY MountInv
  <1>2. \A i \in 0 .. SavedEntries - 1 : disk.root[i] = root_dir_table[i]
    BY WithoutRemoval, DiskIsBut
  <1>3. CrashDone(None)
    BY <1>1, <1>2 DEF CrashDone
  <1>4. None \notin FileNodes
    BY InvParts, Indices DEF Directory, FileNodes
  <1>5. \A i \in Occupied : root_dir_table[i].i_node_ptr # None
    BY <1>4 DEF FileNodes
  <1> QED BY <1>3, <1>4, <1>5, CrashLocal

(* A call that went on past the end of an array left the files alone.       *)
LEMMA NothingMoved ==
    ASSUME CrashInv, UNCHANGED <<tables, disk, interrupted>>, NEW m \in Names
    PROVE  Local(m)
  <1>1. UNCHANGED <<i_node_table, root_dir_table, indirect, interrupted>>
    BY DEF tables, indirect
  <1>2. Files' = Files
    BY <1>1 DEF Files, does_file_exist
  <1>3. \A n : INodeOf(n)' = INodeOf(n)
    BY <1>1 DEF INodeOf, get_file
  <1>4. \A n : NodeOf(n)' = NodeOf(n)
    BY <1>1, <1>3 DEF NodeOf
  <1>5. SamePointers /\ NamesFound
    BY InBothStates, NamesAreFound
  <1>6. SamePointers'
    BY InBothStates, PTL
  <1>7. \A n \in Names : \A k \in Slots : PointerAt(NodeOf(n), k)' = PointerAt(NodeOf(n), k)
    BY <1>1, <1>3, <1>5, <1>6 DEF SamePointers
  <1>8. ASSUME NEW n \in Files
        PROVE  NodeOf(n)'.size >= NodeOf(n).size
    <2>1. INodeOf(n) \in FileNodes
      BY <1>5 DEF NamesFound
    <2>2. i_node_table \in [INodes -> INode] /\ FileNodes \subseteq INodes
      BY DEF CrashInv, InvBut, TypeOK, DirectoryBut, FileNodes
    <2>3. NodeOf(n).size \in Int
      BY <2>1, <2>2 DEF INode, NodeOf
    <2> QED BY <1>4, <2>3
  <1>9. Files \subseteq Names
    BY DEF Files
  <1> QED BY <1>2, <1>4, <1>7, <1>8, <1>9 DEF Local

LEMMA LocalStep ==
    ASSUME Overlay = "padding", Habits = {}, Names # {}, CrashInv, BytesInv, SavedFiles,
           CrashNext, ret'.call = "mksfs", ret'.value = 0
    PROVE  UNCHANGED crashVars \/ \E m \in Names : Local(m)
  <1>1. CrashInv'
    BY CrashStep
  <1>2. ASSUME SfsInv, interrupted = NoName, NEW m \in Names, CrashInFopen(m)
        PROVE  Local(m)
    <2>1. CrashDone(None)
      BY <1>2, CrashInFopenInv
    <2>2. None \notin FileNodes
      BY <1>2, InvParts, Indices DEF Directory, FileNodes
    <2>3. \A i \in Occupied : root_dir_table[i].i_node_ptr # None
      BY <2>2 DEF FileNodes
    <2> QED BY <1>1, <2>1, <2>2, <2>3, CrashLocal
  <1>3. ASSUME SfsInv, interrupted = NoName, NEW m \in Names, NEW length \in Lengths,
               CrashInFwrite(m, length)
        PROVE  Local(m)
    <2> DEFINE f == OpenFd(m)
               a == Start(f, length)
    <2>1. PICK x : x = fdt[f].i_node_ptr
      OBVIOUS
    <2>2. /\ CrashDone(x) /\ f \in Entries /\ fdt[f].occupied /\ x \in FileNodes
          /\ \A i \in Occupied : root_dir_table[i].i_node_ptr = x => root_dir_table[i].file_name = m
          /\ Follows(a, a) => i_node_table[x].size <= i_node_table'[x].size
          /\ \A k \in Slots : Ptr(i_node_table[x], indirect, k) # None =>
                Ptr(i_node_table'[x], indirect', k) = Ptr(i_node_table[x], indirect, k)
      BY <1>3, <2>1, CrashInFwriteInv
    <2>3. Follows(a, a)
      BY <1>3, <2>2, StartFollows, SfsAssumption
    <2>4. TypeOK /\ TypeOK' /\ x \in INodes
      BY <1>1, <1>3, <2>2 DEF CrashInv, InvBut, SfsInv, Directory, FileNodes
    <2>5. i_node_table[x].size \in Int /\ i_node_table'[x].size \in Int
      BY <2>4 DEF TypeOK, INode
    <2> HIDE DEF a, f
    <2>6. Kept(x)
      BY <2>2, <2>3, <2>5 DEF Kept
    <2> QED BY <1>1, <2>2, <2>6, CrashLocal
  <1>4. ASSUME NEW m \in Names, CrashInRemove(m), InvBut({INodeOf(m)})
        PROVE  Local(m)
    <2>1. PICK x : x = INodeOf(m)
      OBVIOUS
    <2>2. InvBut({x})
      BY <1>4, <2>1
    <2>3. /\ CrashDone(x)
          /\ \A i \in Occupied : root_dir_table[i].i_node_ptr = x => root_dir_table[i].file_name = m
      BY <1>4, <2>1, <2>2, CrashInRemoveInv
    <2>4. interrupted' = m
      BY <1>4 DEF CrashInRemove
    <2> QED BY <1>1, <2>3, <2>4, CrashLocal
  <1>5. CASE Undisturbed
    <2>1. SfsInv /\ interrupted = NoName
      BY <1>5, RepairedIsSound DEF Undisturbed
    <2>2. CASE Change /\ UNCHANGED interrupted
      <3>1. CASE Restart
        BY <1>1, <2>1, <2>2, <3>1, RestartLocal
      <3>2. CASE Format
        BY <3>2 DEF Format, Result
      <3>3. ASSUME NEW name \in Names, sfs_fopen(name)
            PROVE  UNCHANGED <<tables, disk>>
        BY <3>3 DEF sfs_fopen, FopenTooLong, FopenShort, FopenAgain, FopenExisting, FopenCreate,
                           FopenOutOfBounds, Result
      <3>4. ASSUME NEW name \in Names, sfs_remove(name) PROVE FALSE
        BY <3>4 DEF sfs_remove, RemoveMissing, RemoveExisting, Result
      <3>5. ASSUME NEW f \in Entries, NEW length \in Lengths, sfs_fwrite(f, length)
            PROVE  UNCHANGED <<tables, disk>>
        BY <3>5 DEF sfs_fwrite, Transfer, Result, others
      <3>6. ASSUME NEW f \in Entries, NEW loc \in Seeks, sfs_fseek(f, loc)
            PROVE  FALSE
        BY <3>6 DEF sfs_fclose, sfs_fseek, Result
      <3>7. ASSUME NEW f \in Entries, sfs_fclose(f) PROVE FALSE
        BY <3>7 DEF sfs_fclose, Result
      <3>8. ASSUME UNCHANGED <<tables, disk>> PROVE \E m \in Names : Local(m)
        BY <2>2, <3>8, NothingMoved
      <3> QED BY <1>1, <2>1, <2>2, <3>1, <3>2, <3>3, <3>4, <3>5, <3>6, <3>7, <3>8 DEF Change
    <2>3. ASSUME NEW m \in Names, CrashInRemove(m) PROVE Local(m)
      BY <1>4, <2>1, <2>3, WithoutRemoval
    <2> QED BY <1>2, <1>3, <1>5, <2>1, <2>2, <2>3 DEF Undisturbed, Crash
  <1>6. CASE TryAgain
    <2>1. interrupted \in Names
      BY <1>6 DEF TryAgain, CrashInv
    <2>2. ~ sfs_remove(interrupted)
      BY DEF sfs_remove, RemoveMissing, RemoveExisting, Result
    <2>3. CrashInRemove(interrupted)
      BY <1>6, <2>2 DEF TryAgain
    <2> QED BY <1>4, <2>1, <2>3, OneUnfinished DEF CrashInRemove, CanRemove
  <1> QED BY <1>5, <1>6 DEF CrashNext

LEMMA SavedAreFound ==
    ASSUME CrashInv
    PROVE  EveryFileSaved <=> SavedFiles
  <1>1. disk \in Disks /\ \A i \in 0 .. SavedEntries - 1 : disk.root[i] = root_dir_table[i]
    BY DiskIsBut DEF CrashInv
  <1>2. DOMAIN disk.root = 0 .. SavedEntries - 1
    BY <1>1 DEF Disks
  <1> QED BY <1>1, <1>2 DEF EveryFileSaved, SavedFiles, Occupied

(* A crash touches only the file of the call it cuts short: no other file   *)
(* is lost or changed, a file that was being made is there and empty or not *)
(* there, and one that was written to keeps its bytes; as long as every     *)
(* directory entry is among those that are saved.                           *)
THEOREM CrashesAreLocal ==
    ASSUME Overlay = "padding", Habits = {}, Names # {}
    PROVE  CrashSpec /\ []EveryFileSaved => CrashIsLocal
  <1> DEFINE Found == ret'.call = "mksfs" /\ ret'.value = 0 => \E m \in Names : Local(m)
  <1>1. CrashInv /\ BytesInv /\ EveryFileSaved /\ [CrashNext]_crashVars => [Found]_crashVars
    BY SavedAreFound, LocalStep
  <1>2. CrashSpec => []CrashInv
    BY CrashInductive
  <1>3. CrashSpec => []BytesInv
    BY BytesInductive
  <1>4. CrashSpec /\ []EveryFileSaved => [][Found]_crashVars
    BY <1>1, <1>2, <1>3, PTL DEF CrashSpec
  <1> QED BY <1>4 DEF CrashIsLocal, Local

(* With no such condition where the whole directory is saved.               *)
THEOREM CrashesAreLocalWhenSaved ==
    ASSUME Overlay = "padding", Habits = {}, Names # {}, SavedEntries = NUM_OF_FILES
    PROVE  CrashSpec => CrashIsLocal
  <1>1. CrashInv => EveryFileSaved
    BY SavedAreFound DEF SavedFiles, Occupied, Entries
  <1>2. CrashSpec => []CrashInv
    BY CrashInductive
  <1>3. CrashSpec /\ []EveryFileSaved => CrashIsLocal
    BY CrashesAreLocal
  <1> QED BY <1>1, <1>2, <1>3, PTL
=============================================================================
