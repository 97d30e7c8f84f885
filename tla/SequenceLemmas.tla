---------------------------- MODULE SequenceLemmas ----------------------------
(***************************************************************************)
(* Facts about finite sequences used as queues, as stacks and as streams,  *)
(* and about sets of numbers, stated once so that the proofs about the     *)
(* program cite them by name.                                              *)
(***************************************************************************)
EXTENDS Naturals, Sequences, SequenceTheorems, WellFoundedInduction, TLAPS

\* The empty sequence, a single element and an appended element are sequences.
LEMMA SeqTypes ==
    ASSUME NEW S
    PROVE  /\ <<>> \in Seq(S)
           /\ \A x \in S : <<x>> \in Seq(S)
           /\ \A s \in Seq(S), x \in S : Append(s, x) \in Seq(S)
<1>1. <<>> \in Seq(S)
    OBVIOUS
<1>2. ASSUME NEW x \in S PROVE <<x>> \in Seq(S)
    OBVIOUS
<1>3. ASSUME NEW s \in Seq(S), NEW x \in S PROVE Append(s, x) \in Seq(S)
    OBVIOUS
<1>4. QED
    BY <1>1, <1>2, <1>3

\* Taking the first element of a queue.
LEMMA HeadTailTypes ==
    ASSUME NEW S, NEW s \in Seq(S), s # <<>>
    PROVE  Head(s) \in S /\ Tail(s) \in Seq(S)
  OBVIOUS

\* Pushing on a nonempty stack leaves its bottom alone.
LEMMA PushBottom ==
    ASSUME NEW S, NEW s \in Seq(S), NEW x \in S, s # <<>>
    PROVE  Append(s, x)[1] = s[1] /\ Append(s, x) # <<>>
  OBVIOUS

\* Popping a stack.
LEMMA FrontType ==
    ASSUME NEW S, NEW s \in Seq(S), s # <<>>
    PROVE  SubSeq(s, 1, Len(s) - 1) \in Seq(S)
  OBVIOUS

LEMMA FrontOfOne ==
    ASSUME NEW S, NEW s \in Seq(S), Len(s) = 1
    PROVE  SubSeq(s, 1, Len(s) - 1) = <<>>
<1>1. SubSeq(s, 1, 0) = <<>>
    BY SubSeqEmpty
<1>2. QED
    BY <1>1

LEMMA FrontOfMore ==
    ASSUME NEW S, NEW s \in Seq(S), s # <<>>, Len(s) # 1
    PROVE  /\ SubSeq(s, 1, Len(s) - 1) # <<>>
           /\ SubSeq(s, 1, Len(s) - 1)[1] = s[1]
<1>1. Len(s) \in Nat /\ Len(s) >= 1
    OBVIOUS
<1>2. \A n \in Nat : n >= 1 /\ n # 1 => n - 1 \in Nat /\ 1 <= n - 1
    OBVIOUS
<1>3. Len(s) - 1 \in Nat /\ 1 <= Len(s) - 1
    BY <1>1, <1>2, Zenon
<1>4. \A i \in 1 .. Len(s) - 1 : s[i] \in S
    BY <1>1
<1>5. SubSeq(s, 1, Len(s) - 1)[1] = s[1]
    BY <1>3
<1>6. Len(SubSeq(s, 1, Len(s) - 1)) # 0
    BY <1>3, <1>4, SubSeqProperties
<1>7. Len(<<>>) = 0
    OBVIOUS
<1>8. QED
    BY <1>5, <1>6, <1>7

\* A queue kept in two parts, s before t.
LEMMA TwoPartQueue ==
    ASSUME NEW S, NEW s \in Seq(S), NEW t \in Seq(S)
    PROVE  /\ \A x \in S : s \o Append(t, x) = Append(s \o t, x)
           /\ s # <<>> => /\ Head(s \o t) = Head(s)
                          /\ Tail(s \o t) = Tail(s) \o t
                          /\ s \o t # <<>>
           /\ s \o <<>> = s
           /\ <<>> \o s = s
<1>1. ASSUME NEW x \in S PROVE s \o Append(t, x) = Append(s \o t, x)
    OBVIOUS
<1>2. ASSUME s # <<>>
      PROVE  /\ Head(s \o t) = Head(s)
             /\ Tail(s \o t) = Tail(s) \o t
             /\ s \o t # <<>>
    BY <1>2
<1>3. s \o <<>> = s /\ <<>> \o s = s
    OBVIOUS
<1>4. QED
    BY <1>1, <1>2, <1>3

\* A piece of a sequence.
LEMMA PieceType ==
    ASSUME NEW S, NEW s \in Seq(S), NEW m \in Nat, NEW n \in Nat, 1 <= m, n <= Len(s)
    PROVE  /\ SubSeq(s, m, n) \in Seq(S)
           /\ SubSeq(s, m, n) = <<>> <=> n < m
<1>1. \A i \in m .. n : s[i] \in S
    OBVIOUS
<1>2. m \in Int /\ n \in Int
    OBVIOUS
<1>3. /\ SubSeq(s, m, n) \in Seq(S)
      /\ Len(SubSeq(s, m, n)) = IF m <= n THEN n - m + 1 ELSE 0
    BY <1>1, <1>2, SubSeqProperties
<1>4. QED
    BY <1>3

\* Two sequences, one after the other.
LEMMA Joined ==
    ASSUME NEW S, NEW s \in Seq(S), NEW t \in Seq(S)
    PROVE  /\ s \o t \in Seq(S) /\ Len(s \o t) = Len(s) + Len(t)
           /\ Len(s) \in Nat /\ Len(t) \in Nat
           /\ \A i \in 1 .. Len(s) : (s \o t)[i] = s[i]
           /\ \A i \in 1 .. Len(t) : (s \o t)[Len(s) + i] = t[i]
  OBVIOUS

\* Three sequences, one after the other.
LEMMA Regrouped ==
    ASSUME NEW S, NEW s \in Seq(S), NEW t \in Seq(S), NEW u \in Seq(S)
    PROVE  (s \o t) \o u = s \o (t \o u)
  OBVIOUS

\* The first element alone.
LEMMA FirstAlone ==
    ASSUME NEW S, NEW s \in Seq(S), 1 <= Len(s)
    PROVE  SubSeq(s, 1, 1) = <<s[1]>>
<1>1. \A i \in 1 .. 1 : s[i] \in S
    OBVIOUS
<1>2. 1 \in Int
    OBVIOUS
<1>3. /\ SubSeq(s, 1, 1) \in Seq(S) /\ Len(SubSeq(s, 1, 1)) = 1
      /\ SubSeq(s, 1, 1)[1] = s[1]
    BY <1>1, <1>2, SubSeqProperties
<1>4. \A t \in Seq(S) : Len(t) = 1 => t = <<t[1]>>
    OBVIOUS
<1>5. QED
    BY <1>3, <1>4

\* A sequence after another is cut in two.
LEMMA SplitAt ==
    ASSUME NEW S, NEW b \in Seq(S), NEW w \in Seq(S), NEW n \in 1 .. Len(w)
    PROVE  /\ b \o SubSeq(w, 1, n) \in Seq(S)
           /\ SubSeq(w, n + 1, Len(w)) \in Seq(S)
           /\ (b \o SubSeq(w, 1, n)) \o SubSeq(w, n + 1, Len(w)) = b \o w
<1>1. n \in Nat /\ 1 <= n /\ n <= Len(w) /\ Len(w) \in Nat
    OBVIOUS
<1>2. PICK r \in Seq(S) : r = SubSeq(w, 1, n) /\ Len(r) = n /\ \A i \in 1 .. n : r[i] = w[i]
  <2>1. \A i \in 1 .. n : w[i] \in S
      BY <1>1
  <2> DEFINE r == SubSeq(w, 1, n)
  <2>2. r \in Seq(S) /\ Len(r) = n /\ \A i \in 1 .. n : r[i] = w[i]
      BY <1>1, <2>1, SubSeqProperties
  <2> HIDE DEF r
  <2>3. QED
      BY <2>2 DEF r
<1>3. PICK t \in Seq(S) : /\ t = SubSeq(w, n + 1, Len(w)) /\ Len(t) = Len(w) - n
                          /\ \A i \in 1 .. Len(w) - n : t[i] = w[n + i]
  <2>1. \A i \in n + 1 .. Len(w) : w[i] \in S
      BY <1>1
  <2>2. n + 1 \in Int /\ Len(w) \in Int
      BY <1>1
  <2> DEFINE t == SubSeq(w, n + 1, Len(w))
  <2>3. t \in Seq(S) /\ Len(t) = Len(w) - n
      BY <1>1, <2>1, <2>2, SubSeqProperties
  <2>4. ASSUME NEW i \in 1 .. Len(w) - n PROVE t[i] = w[n + i]
    <3>1. t[i] = w[n + 1 + i - 1]
        BY <1>1, <2>1, <2>2, <2>3, SubSeqProperties
    <3>2. n + 1 + i - 1 = n + i
        BY <1>1
    <3>3. QED
        BY <3>1, <3>2
  <2> HIDE DEF t
  <2>5. QED
      BY <2>3, <2>4 DEF t
<1>4. r \o t = w
  <2>1. /\ r \o t \in Seq(S) /\ Len(r \o t) = Len(w)
        /\ \A i \in 1 .. n : (r \o t)[i] = w[i]
        /\ \A i \in 1 .. Len(w) - n : (r \o t)[n + i] = w[n + i]
      BY <1>1, <1>2, <1>3, Joined
  <2>2. ASSUME NEW i \in 1 .. Len(w) PROVE (r \o t)[i] = w[i]
    <3>1. CASE i \in 1 .. n
        BY <2>1, <3>1
    <3>2. CASE i \notin 1 .. n
      <4>1. i - n \in 1 .. Len(w) - n /\ n + (i - n) = i
          BY <1>1, <3>2
      <4>2. QED
          BY <2>1, <4>1
    <3>3. QED
        BY <3>1, <3>2
  <2>3. QED
      BY <1>1, <2>1, <2>2, SeqEqual
<1>5. (b \o r) \o t = b \o (r \o t) /\ b \o r \in Seq(S)
    OBVIOUS
<1>6. QED
    BY <1>2, <1>3, <1>4, <1>5

-------------------------------------------------------------------------------

\* Naturals, some of which have a property, have a least one with it.
LEMMA LeastNatural ==
    ASSUME NEW T \in SUBSET Nat, T # {}
    PROVE  \E n \in T : \A m \in T : n <= m
<1> DEFINE R == {ss \in Nat \X Nat : ss[1] < ss[2]}
<1>1. IsWellFoundedOn(R, Nat)
    BY NatLessThanWellFounded DEF OpToRel
<1>2. \A x, y \in Nat : y < x => <<y, x>> \in R
    OBVIOUS
<1> HIDE DEF R
<1>3. PICK x \in T : \A y \in T : ~ (<<y, x>> \in R)
    BY <1>1, WFMin
<1>4. ASSUME NEW m \in T PROVE x <= m
  <2>1. x \in Nat /\ m \in Nat /\ ~(m < x)
      BY <1>2, <1>3
  <2>2. QED
      BY <2>1
<1>5. QED
    BY <1>4
===============================================================================
