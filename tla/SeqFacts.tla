------------------------------ MODULE SeqFacts ------------------------------
(* Facts about the sequence operators the models use: which elements a       *)
(* queue or stack holds after a step, and that no element is duplicated.     *)
EXTENDS Integers, Sequences, Functions, TLAPS

\* The time a leaf may take.
USE SMTT(60)

\* The empty queue.
LEMMA EmptyElems ==
    ASSUME NEW S
    PROVE  /\ <<>> \in Seq(S)
           /\ Range(<<>>) = {}
           /\ IsInjective(<<>>)
           /\ Len(<<>>) = 0
  BY DEF Range, IsInjective

\* Membership by index.
LEMMA ElemIndex ==
    ASSUME NEW S, NEW s \in Seq(S)
    PROVE  /\ DOMAIN s = 1..Len(s)
           /\ Len(s) \in Nat
           /\ \A x : x \in Range(s) <=> \E i \in 1..Len(s) : s[i] = x
           /\ IsInjective(s) <=> \A i, j \in 1..Len(s) : s[i] = s[j] => i = j
  BY DEF Range, IsInjective

LEMMA ElemTypes == ASSUME NEW S, NEW s \in Seq(S) PROVE Range(s) \subseteq S
<1>1. \A i \in 1..Len(s) : s[i] \in S
  OBVIOUS
<1> QED
  BY <1>1, ElemIndex

\* push_back.
LEMMA AppendElems ==
    ASSUME NEW S, NEW s \in Seq(S), NEW x \in S
    PROVE  /\ Append(s, x) \in Seq(S)
           /\ Len(Append(s, x)) = Len(s) + 1
           /\ Range(Append(s, x)) = Range(s) \cup {x}
           /\ IsInjective(s) /\ x \notin Range(s) => IsInjective(Append(s, x))
<1> DEFINE u == Append(s, x)
<1>1. /\ u \in Seq(S) /\ Len(u) = Len(s) + 1 /\ Len(s) \in Nat
      /\ u[Len(s) + 1] = x /\ \A i \in 1..Len(s) : u[i] = s[i]
  OBVIOUS
<1> HIDE DEF u
<1>2. \A y : y \in Range(u) <=> y \in Range(s) \/ y = x
  <2>1. \A y : y \in Range(u) <=> \E i \in 1..Len(s) + 1 : u[i] = y
    BY <1>1, ElemIndex
  <2>2. \A y : y \in Range(s) <=> \E i \in 1..Len(s) : s[i] = y
    BY ElemIndex
  <2> QED
    BY <1>1, <2>1, <2>2
<1>3. ASSUME IsInjective(s), x \notin Range(s) PROVE IsInjective(u)
  <2>1. \A i, j \in 1..Len(s) : s[i] = s[j] => i = j
    BY <1>3, ElemIndex
  <2>2. \A i \in 1..Len(s) : s[i] # x
    BY <1>3, ElemIndex
  <2>3. \A i, j \in 1..Len(u) : u[i] = u[j] => i = j
    BY <1>1, <2>1, <2>2
  <2> QED
    BY <1>1, <2>3, ElemIndex
<1> QED
  BY <1>1, <1>2, <1>3 DEF u

\* Dropping the last k elements of a stack and popping the next.
LEMMA PrefixElems ==
    ASSUME NEW S, NEW s \in Seq(S), NEW k \in 0..(Len(s) - 1)
    PROVE  LET p == SubSeq(s, 1, Len(s) - k - 1)
               x == s[Len(s) - k]
           IN  /\ p \in Seq(S)
               /\ Range(p) \subseteq Range(s)
               /\ x \in Range(s)
               /\ x \in S
               /\ IsInjective(s) => IsInjective(p) /\ x \notin Range(p)
  BY DEF Range, IsInjective

\* pop_front.
LEMMA TailElems ==
    ASSUME NEW S, NEW s \in Seq(S), s # <<>>
    PROVE  /\ Tail(s) \in Seq(S)
           /\ Len(Tail(s)) = Len(s) - 1
           /\ Head(s) \in S
           /\ Range(s) = {Head(s)} \cup Range(Tail(s))
           /\ IsInjective(s) => /\ IsInjective(Tail(s))
                               /\ Head(s) \notin Range(Tail(s))
<1> DEFINE t == Tail(s)
<1>1. /\ t \in Seq(S) /\ Len(t) = Len(s) - 1 /\ Head(s) = s[1] /\ Head(s) \in S
      /\ Len(s) > 0 /\ DOMAIN s = 1..Len(s) /\ DOMAIN t = 1..Len(t)
      /\ \A i \in 1..Len(t) : t[i] = s[i + 1]
  OBVIOUS
<1> HIDE DEF t
<1>2. Range(s) = {Head(s)} \cup Range(t)
  <2>1. \A i \in 1..Len(s) : i = 1 \/ (i - 1 \in 1..Len(t) /\ s[i] = t[i - 1])
    BY <1>1
  <2>2. \A i \in 1..Len(t) : i + 1 \in 1..Len(s) /\ t[i] = s[i + 1]
    BY <1>1
  <2>3. ASSUME NEW x \in Range(s) PROVE x = Head(s) \/ x \in Range(t)
    <3>1. PICK i \in 1..Len(s) : s[i] = x
      BY ElemIndex
    <3>2. ASSUME i # 1 PROVE i - 1 \in 1..Len(t) /\ t[i - 1] = x
      BY <2>1, <3>1, <3>2
    <3> QED
      BY SMTT(60), <1>1, <3>1, <3>2, ElemIndex
  <2>4. ASSUME NEW x \in Range(t) PROVE x \in Range(s)
    <3>1. PICK i \in 1..Len(t) : t[i] = x
      BY <1>1, ElemIndex
    <3> QED
      BY <2>2, <3>1, ElemIndex
  <2>5. Head(s) \in Range(s)
    BY <1>1, ElemIndex
  <2> QED
    BY <2>3, <2>4, <2>5
<1>3. ASSUME IsInjective(s) PROVE IsInjective(t) /\ Head(s) \notin Range(t)
  BY SMTT(60), <1>1, <1>3, ElemIndex
<1> QED
  BY <1>1, <1>2, <1>3 DEF t

\* Appending one queue to another.
LEMMA ConcatElems ==
    ASSUME NEW S, NEW s \in Seq(S), NEW t \in Seq(S)
    PROVE  /\ s \o t \in Seq(S)
           /\ Len(s \o t) = Len(s) + Len(t)
           /\ Range(s \o t) = Range(s) \cup Range(t)
           /\ /\ IsInjective(s) /\ IsInjective(t) /\ Range(s) \cap Range(t) = {}
              => IsInjective(s \o t)
<1> DEFINE u == s \o t
<1>1. /\ u \in Seq(S) /\ Len(u) = Len(s) + Len(t)
      /\ DOMAIN s = 1..Len(s) /\ DOMAIN t = 1..Len(t) /\ DOMAIN u = 1..Len(u)
      /\ Len(s) \in Nat /\ Len(t) \in Nat
      /\ \A i \in 1..Len(u) : u[i] = IF i <= Len(s) THEN s[i] ELSE t[i - Len(s)]
  OBVIOUS
<1> HIDE DEF u
<1>2. Range(u) = Range(s) \cup Range(t)
  <2>1. ASSUME NEW i \in 1..Len(t) PROVE i + Len(s) \in 1..Len(u) /\ u[i + Len(s)] = t[i]
    BY <1>1
  <2>2. ASSUME NEW i \in 1..Len(s) PROVE i \in 1..Len(u) /\ u[i] = s[i]
    BY <1>1
  <2>3. ASSUME NEW i \in 1..Len(u)
        PROVE  \/ i \in 1..Len(s) /\ u[i] = s[i]
               \/ i - Len(s) \in 1..Len(t) /\ u[i] = t[i - Len(s)]
    BY <1>1
  <2>4. ASSUME NEW x \in Range(u) PROVE x \in Range(s) \/ x \in Range(t)
    <3>1. PICK i \in 1..Len(u) : u[i] = x
      BY <1>1, ElemIndex
    <3> DEFINE k == i - Len(s)
    <3>2. \/ i \in 1..Len(s) /\ s[i] = x
          \/ k \in 1..Len(t) /\ t[k] = x
      BY <2>3, <3>1
    <3> HIDE DEF k
    <3> QED
      BY <3>2, ElemIndex
  <2>5. \A x : x \in Range(s) \/ x \in Range(t) => x \in Range(u)
    BY SMTT(60), <1>1, <2>1, <2>2, ElemIndex
  <2> QED
    BY <2>4, <2>5
<1>3. ASSUME IsInjective(s), IsInjective(t), Range(s) \cap Range(t) = {}
      PROVE  IsInjective(u)
  <2>1. SUFFICES ASSUME NEW i \in 1..Len(u), NEW j \in 1..Len(u), u[i] = u[j], i < j
                 PROVE  FALSE
    BY SMTT(60), <1>1, ElemIndex
  <2>2. CASE j <= Len(s)
    <3>1. i \in 1..Len(s) /\ j \in 1..Len(s) /\ i # j /\ s[i] = s[j]
      BY <1>1, <2>1, <2>2
    <3> QED
      BY <1>3, <3>1, ElemIndex
  <2>3. CASE i > Len(s)
    <3> DEFINE k == i - Len(s)
               l == j - Len(s)
    <3>1. k \in 1..Len(t) /\ l \in 1..Len(t) /\ k # l
      BY <1>1, <2>1, <2>3
    <3>2. t[k] = t[l]
      BY <1>1, <2>1, <2>3
    <3> HIDE DEF k, l
    <3> QED
      BY <1>3, <3>1, <3>2, ElemIndex
  <2>4. CASE i <= Len(s) /\ j > Len(s)
    <3> DEFINE k == j - Len(s)
    <3>1. i \in 1..Len(s) /\ k \in 1..Len(t) /\ s[i] = t[k]
      BY <1>1, <2>1, <2>4
    <3> HIDE DEF k
    <3>2. s[i] \in Range(s) /\ t[k] \in Range(t)
      BY <3>1, ElemIndex
    <3> QED
      BY <1>3, <3>1, <3>2
  <2> QED
    BY <1>1, <2>1, <2>2, <2>3, <2>4
<1> QED
  BY <1>1, <1>2, <1>3 DEF u
=============================================================================
