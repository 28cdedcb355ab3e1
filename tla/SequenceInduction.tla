-------------------------- MODULE SequenceInduction --------------------------
(***************************************************************************)
(* Induction over the natural numbers for what holds on a set of them, and *)
(* what it gives for the recursive functions that go through a sequence.   *)
(***************************************************************************)
EXTENDS Naturals, Integers, Sequences, SequencesExt, WellFoundedInduction, TLAPS

\* A set of numbers that has 0 and, with a number, the next one, has them all:
\* otherwise take the least that it lacks.
LEMMA NatSetInduction ==
  ASSUME NEW T, 0 \in T, \A n \in Nat : n \in T => n + 1 \in T
  PROVE  Nat \subseteq T
<1> DEFINE Bad == Nat \ T
<1>1. SUFFICES ASSUME Bad # {} PROVE FALSE
  OBVIOUS
<1> DEFINE Smaller == {pair \in Nat \X Nat : pair[1] < pair[2]}
<1>2. IsWellFoundedOn(Smaller, Nat)
  BY NatLessThanWellFounded DEF OpToRel
<1>3. PICK x \in Bad : \A y \in Bad : ~ (<<y, x>> \in Smaller)
  <2>1. Bad \subseteq Nat
    OBVIOUS
  <2> HIDE DEF Bad, Smaller
  <2> QED  BY <1>1, <1>2, <2>1, WFMin
<1>4. x \in Nat /\ x \notin T /\ x # 0
  BY <1>3
<1>5. x - 1 \in Nat /\ (x - 1) + 1 = x /\ x - 1 < x
  BY <1>4
<1>6. x - 1 \notin Bad
  BY <1>3, <1>5, <1>4
<1> QED  BY <1>4, <1>5, <1>6

-----------------------------------------------------------------------------
(* FlattenSeq, the concatenation of a sequence of sequences. *)

IsFlattening(seqs, n, g) ==
  g = [i \in 1 .. n |-> IF i = 1 THEN seqs[i] ELSE g[i - 1] \o seqs[i]]

LEMMA FlatteningExists ==
  ASSUME NEW seqs, NEW n \in Nat
  PROVE  \E g : IsFlattening(seqs, n, g)
<1> DEFINE T == {k \in Nat : \E g : IsFlattening(seqs, k, g)}
<1>1. 0 \in T
  <2>1. IsFlattening(seqs, 0, [i \in 1 .. 0 |-> 0])
    BY DEF IsFlattening
  <2> QED  BY <2>1
<1>2. ASSUME NEW k \in Nat, k \in T PROVE k + 1 \in T
  <2>1. PICK g : IsFlattening(seqs, k, g)
    BY <1>2
  <2> DEFINE more == IF k + 1 = 1 THEN seqs[k + 1] ELSE g[k] \o seqs[k + 1]
             longer == [i \in 1 .. k + 1 |-> IF i = k + 1 THEN more ELSE g[i]]
             next == [i \in 1 .. k + 1 |-> IF i = 1 THEN seqs[i] ELSE longer[i - 1] \o seqs[i]]
  <2>2. ASSUME NEW i \in 1 .. k + 1 PROVE longer[i] = next[i]
    <3>1. CASE i = k + 1
      <4>1. k # 0 => longer[k] = g[k]
        OBVIOUS
      <4> QED  BY <3>1, <4>1
    <3>2. CASE i # k + 1
      <4>1. i \in 1 .. k /\ longer[i] = g[i]
        BY <3>2
      <4>2. i # 1 => longer[i - 1] = g[i - 1]
        BY <4>1
      <4>3. g[i] = IF i = 1 THEN seqs[i] ELSE g[i - 1] \o seqs[i]
        BY <2>1, <4>1 DEF IsFlattening
      <4> QED  BY <4>1, <4>2, <4>3
    <3> QED  BY <3>1, <3>2
  <2>3. longer = next
    BY <2>2
  <2>4. IsFlattening(seqs, k + 1, longer)
    BY <2>3 DEF IsFlattening
  <2> QED  BY <2>4
<1> HIDE DEF T
<1>3. Nat \subseteq T
  BY <1>1, <1>2, NatSetInduction
<1> QED  BY <1>3 DEF T

\* The last entry of such a function is the concatenation.
LEMMA FlattenSeqIs ==
  ASSUME NEW seqs, Len(seqs) \in Nat \ {0}
  PROVE  \E g : IsFlattening(seqs, Len(seqs), g) /\ FlattenSeq(seqs) = g[Len(seqs)]
<1> DEFINE f == CHOOSE g : g = [i \in 1 .. Len(seqs) |->
                                  IF i = 1 THEN seqs[i] ELSE g[i - 1] \o seqs[i]]
<1>1. FlattenSeq(seqs) = f[Len(seqs)]
  BY DEF FlattenSeq
<1>2. \E g : g = [i \in 1 .. Len(seqs) |-> IF i = 1 THEN seqs[i] ELSE g[i - 1] \o seqs[i]]
  BY FlatteningExists DEF IsFlattening
<1>3. IsFlattening(seqs, Len(seqs), f)
  BY <1>2 DEF IsFlattening
<1> QED  BY <1>1, <1>3

\* What holds of one part and survives what the other parts put before and
\* behind it holds of the whole.
LEMMA FlattenSpecial ==
  ASSUME NEW T, NEW U, NEW seqs, Len(seqs) \in Nat, NEW special \in 1 .. Len(seqs),
         seqs[special] \in U,
         \A i \in 1 .. Len(seqs) : i # special => seqs[i] \in T,
         \A a, b \in T : a \o b \in T,
         \A a \in T, b \in U : a \o b \in U /\ b \o a \in U
  PROVE  FlattenSeq(seqs) \in U
<1>1. PICK g : IsFlattening(seqs, Len(seqs), g) /\ FlattenSeq(seqs) = g[Len(seqs)]
  BY FlattenSeqIs
<1> DEFINE Fine(k) == g[k] \in (IF k < special THEN T ELSE U)
           S == {k \in Nat : k \in 1 .. Len(seqs) => Fine(k)}
<1>2. 0 \in S
  OBVIOUS
<1>3. ASSUME NEW k \in Nat, k \in S PROVE k + 1 \in S
  <2>1. SUFFICES ASSUME k + 1 \in 1 .. Len(seqs) PROVE Fine(k + 1)
    OBVIOUS
  <2>2. CASE k = 0
    <3>1. g[1] = seqs[1]
      BY <1>1, <2>1, <2>2 DEF IsFlattening
    <3> QED  BY <2>2, <3>1
  <2>3. CASE k # 0
    <3>1. k \in 1 .. Len(seqs) /\ Fine(k)
      BY <1>3, <2>1, <2>3
    <3>2. g[k + 1] = g[k] \o seqs[k + 1]
      <4>1. g[k + 1] = IF k + 1 = 1 THEN seqs[k + 1] ELSE g[(k + 1) - 1] \o seqs[k + 1]
        BY <1>1, <2>1 DEF IsFlattening
      <4>2. (k + 1) - 1 = k /\ k + 1 # 1
        BY <2>3
      <4> QED  BY <4>1, <4>2
    <3>3. CASE k + 1 < special
      BY <3>1, <3>2, <3>3, <2>1
    <3>4. CASE k + 1 = special
      BY <3>1, <3>2, <3>4, <2>1
    <3>5. CASE k + 1 > special
      BY <3>1, <3>2, <3>5, <2>1
    <3> QED  BY <3>3, <3>4, <3>5
  <2> QED  BY <2>2, <2>3
<1> HIDE DEF S
<1>4. Len(seqs) \in S
  BY <1>2, <1>3, NatSetInduction
<1> QED  BY <1>1, <1>4 DEF S

\* What holds of the empty sequence, of each part, and of what two such parts
\* make, holds of the whole.
LEMMA FlattenClosed ==
  ASSUME NEW T, NEW seqs \in Seq(T), << >> \in T, \A a, b \in T : a \o b \in T
  PROVE  FlattenSeq(seqs) \in T
<1>1. CASE Len(seqs) = 0
  <2>1. seqs = << >>
    BY <1>1
  <2> QED  BY <1>1, <2>1 DEF FlattenSeq
<1>2. CASE Len(seqs) # 0
  <2>1. Len(seqs) \in Nat /\ 1 \in 1 .. Len(seqs) /\ \A i \in 1 .. Len(seqs) : seqs[i] \in T
    BY <1>2
  <2> QED  BY <2>1, FlattenSpecial
<1> QED  BY <1>1, <1>2
=============================================================================
