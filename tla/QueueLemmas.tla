---------------------------- MODULE QueueLemmas ----------------------------
(* What is in a first-in-first-out queue without duplicates: the facts about *)
(* queue_insert_tail and queue_pop_head that the proofs about tasks and the *)
(* ones about contexts share.                                               *)
EXTENDS Integers, Sequences, Functions, TLAPS

(* An entry that is not in a queue goes to its end.                         *)
LEMMA AppendElements ==
    ASSUME NEW S, NEW q \in Seq(S), NEW t \in S
    PROVE  /\ Append(q, t) \in Seq(S)
           /\ Range(Append(q, t)) = Range(q) \cup {t}
           /\ IsInjective(q) /\ t \notin Range(q) => IsInjective(Append(q, t))
<1> DEFINE r == Append(q, t)
<1>1. /\ r \in Seq(S)
      /\ DOMAIN q = 1 .. Len(q) /\ Len(q) \in Nat
      /\ DOMAIN r = 1 .. Len(q) + 1
      /\ \A i \in 1 .. Len(q) : r[i] = q[i]
      /\ r[Len(q) + 1] = t
  OBVIOUS
<1>2. Range(r) = Range(q) \cup {t}
  <2>1. ASSUME NEW x \in Range(r) PROVE x \in Range(q) \cup {t}
    <3>1. PICK i \in 1 .. Len(q) + 1 : x = r[i]
      BY <1>1, <2>1 DEF Range
    <3> QED
      BY <1>1, <3>1 DEF Range
  <2>2. ASSUME NEW x \in Range(q) \cup {t} PROVE x \in Range(r)
    <3>1. CASE x = t
      <4>1. Len(q) + 1 \in DOMAIN r
        BY <1>1
      <4> QED
        BY <1>1, <3>1, <4>1 DEF Range
    <3>2. CASE x \in Range(q)
      <4>1. PICK i \in 1 .. Len(q) : x = q[i]
        BY <1>1, <3>2 DEF Range
      <4>2. i \in DOMAIN r /\ r[i] = x
        BY <1>1, <4>1
      <4> QED
        BY <4>2 DEF Range
    <3> QED
      BY <2>2, <3>1, <3>2
  <2> QED
    BY <2>1, <2>2
<1>3. ASSUME IsInjective(q), t \notin Range(q) PROVE IsInjective(r)
  <2>1. \A i \in 1 .. Len(q) : q[i] # t
    BY <1>1, <1>3 DEF Range
  <2> QED
    BY <1>1, <1>3, <2>1 DEF IsInjective
<1> QED
  BY <1>1, <1>2, <1>3

(* The first entry leaves the queue; no other one does.                     *)
LEMMA TailElements ==
    ASSUME NEW S, NEW q \in Seq(S), q # <<>>
    PROVE  /\ Tail(q) \in Seq(S) /\ Head(q) \in S
           /\ Range(q) = Range(Tail(q)) \cup {Head(q)}
           /\ IsInjective(q) => IsInjective(Tail(q)) /\ Head(q) \notin Range(Tail(q))
<1> DEFINE r == Tail(q)
<1>1. /\ r \in Seq(S) /\ Head(q) = q[1] /\ Head(q) \in S
      /\ DOMAIN q = 1 .. Len(q) /\ Len(q) \in Nat \ {0}
      /\ DOMAIN r = 1 .. Len(q) - 1
      /\ \A i \in 1 .. Len(q) - 1 : r[i] = q[i + 1]
  OBVIOUS
<1>2. 1 \in DOMAIN q
  BY <1>1
<1>3. ASSUME NEW x \in Range(r)
      PROVE  \E i \in DOMAIN q : i # 1 /\ x = q[i]
  <2>1. PICK i \in 1 .. Len(q) - 1 : x = r[i]
    BY <1>1, <1>3 DEF Range
  <2>2. i + 1 \in DOMAIN q /\ i + 1 # 1 /\ x = q[i + 1]
    BY <1>1, <2>1
  <2> QED
    BY <2>2
<1>4. Range(q) = Range(r) \cup {Head(q)}
  <2>1. ASSUME NEW x \in Range(q), x # q[1] PROVE x \in Range(r)
    <3>1. PICK i \in 1 .. Len(q) : x = q[i]
      BY <1>1, <2>1 DEF Range
    <3>2. i - 1 \in DOMAIN r /\ r[i - 1] = x
      BY <1>1, <2>1, <3>1
    <3> QED
      BY <3>2 DEF Range
  <2>2. Range(r) \subseteq Range(q) /\ q[1] \in Range(q)
    BY <1>2, <1>3 DEF Range
  <2> QED
    BY <1>1, <2>1, <2>2
<1>5. ASSUME IsInjective(q) PROVE IsInjective(r) /\ Head(q) \notin Range(r)
  <2>1. IsInjective(r)
    <3> SUFFICES ASSUME NEW i \in 1 .. Len(q) - 1, NEW j \in 1 .. Len(q) - 1,
                        r[i] = r[j]
                 PROVE  i = j
      BY <1>1 DEF IsInjective
    <3>1. i + 1 \in DOMAIN q /\ j + 1 \in DOMAIN q /\ q[i + 1] = q[j + 1]
      BY <1>1
    <3>2. i + 1 = j + 1
      BY <1>5, <3>1 DEF IsInjective
    <3> QED
      BY <3>2
  <2>2. Head(q) \notin Range(r)
    BY <1>1, <1>2, <1>3, <1>5 DEF IsInjective
  <2> QED
    BY <2>1, <2>2
<1> QED
  BY <1>1, <1>4, <1>5

(* A duplicate-free queue after another that has nothing in common with it. *)
LEMMA Concatenated ==
    ASSUME NEW S, NEW q \in Seq(S), NEW r \in Seq(S)
    PROVE  /\ q \o r \in Seq(S) /\ Range(q \o r) = Range(q) \cup Range(r)
           /\ IsInjective(q) /\ IsInjective(r) /\ Range(q) \cap Range(r) = {}
                  => IsInjective(q \o r)
<1> DEFINE c == q \o r
<1>1. /\ c \in Seq(S) /\ Len(q) \in Nat /\ Len(r) \in Nat
      /\ DOMAIN q = 1 .. Len(q) /\ DOMAIN r = 1 .. Len(r)
      /\ DOMAIN c = 1 .. Len(q) + Len(r)
      /\ \A i \in 1 .. Len(q) : c[i] = q[i]
      /\ \A i \in 1 .. Len(r) : c[Len(q) + i] = r[i]
  OBVIOUS
<1> HIDE DEF c
<1>2. ASSUME NEW i \in DOMAIN c
      PROVE  \/ i \in DOMAIN q /\ c[i] = q[i]
             \/ i - Len(q) \in DOMAIN r /\ c[i] = r[i - Len(q)] /\ i \notin DOMAIN q
  <2>1. CASE i \in 1 .. Len(q)
    BY <1>1, <2>1
  <2>2. CASE i \notin 1 .. Len(q)
    <3>1. i - Len(q) \in 1 .. Len(r) /\ Len(q) + (i - Len(q)) = i
      BY <1>1, <2>2
    <3>2. c[Len(q) + (i - Len(q))] = r[i - Len(q)]
      BY <1>1, <3>1
    <3> QED
      BY <1>1, <2>2, <3>1, <3>2
  <2> QED
    BY <2>1, <2>2
<1>3. Range(c) = Range(q) \cup Range(r)
  <2>1. Range(c) \subseteq Range(q) \cup Range(r)
    BY <1>2 DEF Range
  <2>2. Range(q) \subseteq Range(c)
    <3>1. \A i \in DOMAIN q : i \in DOMAIN c /\ c[i] = q[i]
      BY <1>1
    <3> QED
      BY <3>1 DEF Range
  <2>3. Range(r) \subseteq Range(c)
    <3>1. \A i \in DOMAIN r : Len(q) + i \in DOMAIN c /\ c[Len(q) + i] = r[i]
      BY <1>1
    <3> QED
      BY <3>1 DEF Range
  <2> QED
    BY <2>1, <2>2, <2>3
<1>4. ASSUME IsInjective(q), IsInjective(r), Range(q) \cap Range(r) = {}
      PROVE  IsInjective(c)
  <2> SUFFICES ASSUME NEW i \in DOMAIN c, NEW j \in DOMAIN c, c[i] = c[j]
               PROVE  i = j
    BY DEF IsInjective
  <2>0. i \in Int /\ j \in Int
    BY <1>1
  <2>1. \A k \in DOMAIN q, m \in DOMAIN r : q[k] # r[m]
    BY <1>4 DEF Range
  <2>2. CASE i \in DOMAIN q /\ j \in DOMAIN q
    BY <1>2, <1>4, <2>2 DEF IsInjective
  <2>3. CASE i \notin DOMAIN q /\ j \notin DOMAIN q
    <3>1. i - Len(q) = j - Len(q)
      BY <1>2, <1>4, <2>3 DEF IsInjective
    <3> QED
      BY <1>1, <2>0, <3>1
  <2>4. CASE ~(i \in DOMAIN q <=> j \in DOMAIN q)
    BY <1>2, <2>1, <2>4
  <2> QED
    BY <2>2, <2>3, <2>4
<1> QED
  BY <1>1, <1>3, <1>4 DEF c
=============================================================================
