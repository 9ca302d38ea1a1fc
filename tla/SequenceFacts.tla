---------------------------- MODULE SequenceFacts ----------------------------
(***************************************************************************)
(* Lemmas about sequences without repetition, used where the code keeps    *)
(* blocks in a queue (memory.rs) or in a chain (arena.rs): what adding or  *)
(* removing an element at either end does to the set of elements.          *)
(***************************************************************************)
EXTENDS Integers, FiniteSets, SequencesExt, SequenceTheorems, FunctionTheorems,
        FiniteSetTheorems, TLAPS

\* The elements of a sequence are its values at 1..Len.
LEMMA InRange ==
  ASSUME NEW S, NEW s \in Seq(S), NEW x
  PROVE  x \in Range(s) <=> \E i \in 1..Len(s) : s[i] = x
BY DEF Range

\* Adding an element at the back.
LEMMA Pushed ==
  ASSUME NEW S, NEW s \in Seq(S), NEW f \in S
  PROVE  /\ Append(s, f) \in Seq(S) /\ Append(s, f) # <<>>
         /\ Len(Append(s, f)) = Len(s) + 1
         /\ \A i \in 1..Len(s) : Append(s, f)[i] = s[i]
         /\ Append(s, f)[Len(s) + 1] = f
         /\ Last(Append(s, f)) = f
BY DEF Last

\* Removing it.
LEMMA Popped ==
  ASSUME NEW S, NEW s \in Seq(S), s # <<>>
  PROVE  /\ Len(s) \in Nat \ {0}
         /\ Last(s) \in S /\ Last(s) = s[Len(s)]
         /\ Front(s) \in Seq(S)
         /\ Len(Front(s)) = Len(s) - 1
         /\ \A i \in 1..(Len(s) - 1) : Front(s)[i] = s[i]
<1> DEFINE n == Len(s) - 1
<1>1. Len(s) \in Nat \ {0} /\ Last(s) = s[Len(s)] /\ Last(s) \in S
  BY DEF Last
<1>2. n \in Nat /\ \A i \in 1..n : s[i] \in S
  BY <1>1
<1>3. Front(s) = SubSeq(s, 1, n) /\ n = Len(s) - 1
  BY DEF Front
<1> HIDE DEF n
<1>4. /\ SubSeq(s, 1, n) \in Seq(S)
      /\ Len(SubSeq(s, 1, n)) = IF 1 <= n THEN n - 1 + 1 ELSE 0
      /\ \A i \in 1..(n - 1 + 1) : SubSeq(s, 1, n)[i] = s[1 + i - 1]
  BY ONLY <1>2, SubSeqProperties, SMT
<1>5. /\ SubSeq(s, 1, n) \in Seq(S) /\ Len(SubSeq(s, 1, n)) = n
      /\ \A i \in 1..n : SubSeq(s, 1, n)[i] = s[i]
  BY ONLY <1>2, <1>4
<1> QED BY ONLY <1>1, <1>3, <1>5

\* Adding a new element at the back, as VecDeque::push_back does.
LEMMA AppendFresh ==
  ASSUME NEW S, NEW s \in Seq(S), NEW b \in S, IsInjective(s), b \notin Range(s)
  PROVE  /\ Append(s, b) \in Seq(S)
         /\ Len(Append(s, b)) = Len(s) + 1
         /\ IsInjective(Append(s, b))
         /\ Range(Append(s, b)) = Range(s) \cup {b}
<1> DEFINE t == Append(s, b)
<1>1. /\ t \in Seq(S)
      /\ Len(t) = Len(s) + 1
      /\ \A i \in 1..Len(s) : t[i] = s[i]
      /\ t[Len(s) + 1] = b
  OBVIOUS
<1> HIDE DEF t
<1>2. \A i \in 1..Len(s) : s[i] # b
  BY InRange
<1>3. IsInjective(t)
  BY <1>1, <1>2 DEF IsInjective
<1>4. ASSUME NEW x PROVE x \in Range(t) <=> x \in Range(s) \cup {b}
  <2>1. x \in Range(t) <=> \E i \in 1..(Len(s) + 1) : t[i] = x
    BY ONLY <1>1, InRange
  <2>2. x \in Range(s) <=> \E i \in 1..Len(s) : s[i] = x
    BY InRange
  <2> QED
    BY <1>1, <2>1, <2>2
<1> QED
  BY <1>1, <1>3, <1>4 DEF t

\* Adding a new element at the front, as VecDeque::push_front does.
LEMMA ConsFresh ==
  ASSUME NEW S, NEW s \in Seq(S), NEW b \in S, IsInjective(s), b \notin Range(s)
  PROVE  /\ <<b>> \o s \in Seq(S)
         /\ Len(<<b>> \o s) = Len(s) + 1
         /\ IsInjective(<<b>> \o s)
         /\ Range(<<b>> \o s) = Range(s) \cup {b}
<1> DEFINE t == <<b>> \o s
<1>1. /\ t \in Seq(S)
      /\ Len(t) = Len(s) + 1
      /\ t[1] = b
      /\ \A i \in 2..(Len(s) + 1) : t[i] = s[i - 1]
  OBVIOUS
<1> HIDE DEF t
<1>2. \A i \in 1..Len(s) : s[i] # b
  BY InRange
<1>3. IsInjective(t)
  BY <1>1, <1>2 DEF IsInjective
<1>4. Range(t) = Range(s) \cup {b}
  <2>1. <<b>> \in Seq(S) /\ Range(<<b>>) = {b}
    BY DEF Range
  <2>2. Range(<<b>> \o s) = Range(<<b>>) \cup Range(s)
    BY ONLY <2>1, RangeConcatenation, Zenon
  <2> QED
    BY <2>1, <2>2 DEF t
<1> QED
  BY <1>1, <1>3, <1>4 DEF t

\* Removing the back of a sequence without repetition, as pop_back does: the
\* removed element is not left behind.
LEMMA FrontOfInjective ==
  ASSUME NEW S, NEW s \in Seq(S), IsInjective(s), s # <<>>
  PROVE  /\ Front(s) \in Seq(S)
         /\ Len(Front(s)) = Len(s) - 1
         /\ Last(s) \in S
         /\ Last(s) \in Range(s)
         /\ IsInjective(Front(s))
         /\ Range(Front(s)) = Range(s) \ {Last(s)}
<1> DEFINE t == Front(s)
<1>0. Len(s) \in Nat \ {0} /\ Last(s) = s[Len(s)]
  BY DEF Last
<1>1. /\ t \in Seq(S)
      /\ Len(t) = Len(s) - 1
      /\ \A i \in 1..(Len(s) - 1) : t[i] = s[i]
  BY ONLY s \in Seq(S), s # <<>>, Popped
<1> HIDE DEF t
<1>2. \A i \in 1..(Len(s) - 1) : s[i] # s[Len(s)]
  BY <1>0 DEF IsInjective
<1>3. IsInjective(t)
  BY <1>0, <1>1 DEF IsInjective
<1>4. ASSUME NEW x PROVE x \in Range(t) <=> x \in Range(s) \ {Last(s)}
  <2>1. x \in Range(t) <=> \E i \in 1..(Len(s) - 1) : t[i] = x
    BY ONLY <1>1, InRange
  <2>2. x \in Range(s) <=> \E i \in 1..Len(s) : s[i] = x
    BY InRange
  <2> QED
    BY <1>0, <1>1, <1>2, <2>1, <2>2
<1>5. Last(s) \in S /\ Last(s) \in Range(s)
  BY <1>0, InRange
<1> QED
  BY <1>0, <1>1, <1>3, <1>4, <1>5 DEF t

\* Removing the front of a sequence without repetition, as pop_front does.
LEMMA TailOfInjective ==
  ASSUME NEW S, NEW s \in Seq(S), IsInjective(s), s # <<>>
  PROVE  /\ Tail(s) \in Seq(S)
         /\ Len(Tail(s)) = Len(s) - 1
         /\ s[1] \in Range(s)
         /\ IsInjective(Tail(s))
         /\ Range(Tail(s)) = Range(s) \ {s[1]}
<1> DEFINE t == Tail(s)
<1>0. Len(s) \in Nat \ {0}
  OBVIOUS
<1>1. /\ t \in Seq(S)
      /\ Len(t) = Len(s) - 1
      /\ \A i \in 1..(Len(s) - 1) : t[i] = s[i + 1]
  BY <1>0
<1> HIDE DEF t
<1>2. \A i \in 2..Len(s) : s[i] # s[1]
  BY <1>0 DEF IsInjective
<1>3. IsInjective(t)
  BY <1>0, <1>1 DEF IsInjective
<1>4. ASSUME NEW x PROVE x \in Range(t) <=> x \in Range(s) \ {s[1]}
  <2>1. x \in Range(t) <=> \E i \in 1..(Len(s) - 1) : t[i] = x
    BY ONLY <1>1, InRange
  <2>2. x \in Range(s) <=> \E i \in 1..Len(s) : s[i] = x
    BY InRange
  <2>3. ASSUME NEW i \in 1..(Len(s) - 1), t[i] = x
        PROVE  x \in Range(s) /\ x # s[1]
    BY ONLY <1>0, <1>1, <1>2, <2>2, <2>3
  <2>4. ASSUME NEW i \in 1..Len(s), s[i] = x, x # s[1]
        PROVE  i - 1 \in 1..(Len(s) - 1) /\ t[i - 1] = x
    BY ONLY <1>0, <1>1, <2>4
  <2> QED
    BY <2>1, <2>2, <2>3, <2>4
<1>5. s[1] \in Range(s)
  BY <1>0, InRange
<1> QED
  BY <1>1, <1>3, <1>4, <1>5 DEF t

\* A sequence without repetition has as many elements as positions.
LEMMA CardinalityOfInjective ==
  ASSUME NEW S, NEW s \in Seq(S), IsInjective(s)
  PROVE  /\ IsFiniteSet(Range(s))
         /\ Cardinality(Range(s)) = Len(s)
<1> DEFINE n == Len(s)
<1>1. n \in Nat /\ s \in [1..n -> S]
  OBVIOUS
<1>2. s \in [1..n -> Range(s)] /\ \A y \in Range(s) : \E i \in 1..n : s[i] = y
  BY <1>1 DEF Range
<1>3. s \in Bijection(1..n, Range(s))
  BY <1>2 DEF Bijection, Injection, Surjection, IsInjective
<1>4. ExistsBijection(1..n, Range(s))
  BY <1>3 DEF ExistsBijection
<1> HIDE DEF n
<1>5. IsFiniteSet(1..n) /\ Cardinality(1..n) = n
  BY <1>1, FS_Interval
<1>6. IsFiniteSet(Range(s)) /\ Cardinality(Range(s)) = n
  BY <1>4, <1>5, FS_Bijection
<1> QED
  BY <1>6 DEF n
=============================================================================
