--------------------------- MODULE ConversationProofs ---------------------------
(***************************************************************************)
(* Proofs about Conversation, for any bound on the turns, any words, any   *)
(* replies with any number of calls, any results, styles and strays.       *)
(*                                                                         *)
(* What the conversion makes of a conversation is a flattening over the    *)
(* messages and over the blocks of each, so most of it is induction over   *)
(* sequences.  A set that holds zero, and with each number the next, holds *)
(* all numbers, for there is no least one outside (Induction); a set that  *)
(* holds the empty sequence, and with each sequence every longer one, is   *)
(* all sequences (SeqInduction).                                           *)
(***************************************************************************)
EXTENDS Conversation, SequenceTheorems, WellFoundedInduction, TLAPS

-----------------------------------------------------------------------------
(* Induction and flattening.                                               *)

\* Induction, for a set of numbers.
LEMMA Induction ==
  ASSUME NEW S, 0 \in S, \A n \in Nat : n \in S => n + 1 \in S
  PROVE  \A n \in Nat : n \in S
<1> DEFINE Rest == Nat \ S
<1>1. SUFFICES ASSUME Rest # {} PROVE FALSE
  OBVIOUS
<1>2. PICK m \in Rest : \A k \in Rest : <<k, m>> \notin OpToRel(<, Nat)
  BY <1>1, WFMin, NatLessThanWellFounded
<1>3. m \in Nat /\ m # 0 /\ m - 1 \in Nat /\ m - 1 < m /\ (m - 1) + 1 = m
  <2>1. m \in Nat /\ m \notin S
    OBVIOUS
  <2>2. m # 0
    BY <2>1
  <2> QED
    BY <2>1, <2>2
<1>4. m - 1 \in Rest
  BY <1>2, <1>3
<1> QED
  BY <1>2, <1>3, <1>4 DEF OpToRel

\* FlattenSeq is a recursive function: f is the one of the first n sequences of s.
Flattens(f, s, n) == f = [i \in 1 .. n |-> IF i = 1 THEN s[i] ELSE f[i - 1] \o s[i]]

LEMMA FlattensAt ==
  ASSUME NEW f, NEW s, NEW n \in Nat, Flattens(f, s, n), NEW i \in 1 .. n
  PROVE  f[i] = IF i = 1 THEN s[1] ELSE f[i - 1] \o s[i]
BY DEF Flattens

LEMMA FlattensExists ==
  ASSUME NEW s
  PROVE  \A n \in Nat : \E f : Flattens(f, s, n)
<1> DEFINE S == {n \in Nat : \E f : Flattens(f, s, n)}
<1>1. 0 \in S
  <2>1. Flattens([i \in 1 .. 0 |-> 0], s, 0)
    BY DEF Flattens
  <2> QED
    BY <2>1
<1>2. ASSUME NEW n \in Nat, n \in S PROVE n + 1 \in S
  <2>1. PICK f : Flattens(f, s, n)
    BY <1>2
  <2> DEFINE g == [i \in 1 .. n + 1 |->
                     IF i = 1 THEN s[1] ELSE IF i = n + 1 THEN f[n] \o s[i] ELSE f[i]]
  <2>2. ASSUME NEW i \in 1 .. n + 1
        PROVE  g[i] = IF i = 1 THEN s[i] ELSE g[i - 1] \o s[i]
    <3>1. CASE i = 1
      BY <3>1
    <3>2. CASE i # 1
      <4>1. i \in Nat /\ i - 1 \in 1 .. n /\ i - 1 \in 1 .. n + 1 /\ i - 1 # n + 1
        BY <3>2
      <4>2. g[i - 1] = f[i - 1]
        BY <4>1, <2>1, FlattensAt
      <4>3. CASE i = n + 1
        <5>0. i - 1 = n
          BY <4>3
        <5>1. g[i] = f[n] \o s[i]
          BY <3>2, <4>3
        <5> QED
          BY <3>2, <4>2, <5>0, <5>1
      <4>4. CASE i # n + 1
        <5> HIDE DEF g
        <5>1. i \in 1 .. n
          BY <4>1, <4>4
        <5> USE DEF g
        <5>2. f[i] = f[i - 1] \o s[i]
          BY <2>1, <3>2, <5>1, FlattensAt
        <5>3. g[i] = f[i]
          BY <3>2, <4>4
        <5> HIDE DEF g
        <5> QED
          BY <3>2, <4>2, <5>2, <5>3
      <4> QED
        BY <4>3, <4>4
    <3> QED
      BY <3>1, <3>2
  <2>3. Flattens(g, s, n + 1)
    <3>1. g = [i \in 1 .. n + 1 |-> g[i]]
      OBVIOUS
    <3> HIDE DEF g
    <3> QED
      BY <2>2, <3>1 DEF Flattens
  <2> QED
    BY <2>3
<1> HIDE DEF S
<1>3. \A n \in Nat : n \in S
  BY <1>1, <1>2, Induction
<1> QED
  BY <1>3 DEF S

LEMMA FlattenIs ==
  ASSUME NEW S, NEW s \in Seq(S), s # <<>>
  PROVE  \E f : Flattens(f, s, Len(s)) /\ FlattenSeq(s) = f[Len(s)]
<1>1. Len(s) \in Nat \ {0}
  BY EmptySeq
<1> DEFINE flatten == CHOOSE f : f = [i \in 1 .. Len(s) |-> IF i = 1 THEN s[i] ELSE f[i - 1] \o s[i]]
<1>2. \E f : f = [i \in 1 .. Len(s) |-> IF i = 1 THEN s[i] ELSE f[i - 1] \o s[i]]
  BY <1>1, FlattensExists DEF Flattens
<1>3. Flattens(flatten, s, Len(s))
  BY <1>2 DEF Flattens
<1>4. FlattenSeq(s) = flatten[Len(s)]
  BY <1>1 DEF FlattenSeq
<1> QED
  BY <1>3, <1>4

\* Flattening goes on from the flattening of the beginning.
LEMMA FlattenAppend ==
  ASSUME NEW T, NEW s \in Seq(Seq(T)), NEW x \in Seq(T)
  PROVE  FlattenSeq(Append(s, x)) = FlattenSeq(s) \o x
<1> DEFINE t == Append(s, x)
<1>1. /\ t \in Seq(Seq(T)) /\ t # <<>> /\ Len(s) \in Nat /\ Len(t) = Len(s) + 1
      /\ t[Len(s) + 1] = x /\ \A i \in 1 .. Len(s) : t[i] = s[i]
  BY AppendProperties, EmptySeq, LenProperties
<1> HIDE DEF t
<1>2. PICK g : Flattens(g, t, Len(t)) /\ FlattenSeq(t) = g[Len(t)]
  BY <1>1, FlattenIs
<1>3. CASE s = <<>>
  <2>1. Len(s) = 0 /\ FlattenSeq(s) = <<>>
    BY <1>3 DEF FlattenSeq
  <2>2. FlattenSeq(t) = x
    BY <1>1, <1>2, <2>1, FlattensAt
  <2> QED
    BY <2>1, <2>2, ConcatEmptySeq DEF t
<1>4. CASE s # <<>>
  <2>1. PICK f : Flattens(f, s, Len(s)) /\ FlattenSeq(s) = f[Len(s)]
    BY <1>4, FlattenIs
  <2> DEFINE S == {n \in Nat : n \in 1 .. Len(s) => f[n] = g[n]}
  <2>2. ASSUME NEW n \in Nat, n \in S PROVE n + 1 \in S
    <3>1. SUFFICES ASSUME n + 1 \in 1 .. Len(s) PROVE f[n + 1] = g[n + 1]
      OBVIOUS
    <3>2. n + 1 \in 1 .. Len(t) /\ t[n + 1] = s[n + 1] /\ t[1] = s[1]
      BY <1>1, <3>1
    <3>2a. Len(t) \in Nat
      BY <1>1
    <3>3. f[n + 1] = IF n + 1 = 1 THEN s[1] ELSE f[(n + 1) - 1] \o s[n + 1]
      BY <1>1, <2>1, <3>1, FlattensAt
    <3>4. g[n + 1] = IF n + 1 = 1 THEN t[1] ELSE g[(n + 1) - 1] \o t[n + 1]
      BY <1>2, <3>2, <3>2a, FlattensAt
    <3>5. CASE n = 0
      BY <3>2, <3>3, <3>4, <3>5
    <3>6. CASE n # 0
      <4>1. f[n] = g[n]
        BY <2>2, <3>1, <3>6, <1>1
      <4> QED
        BY <3>2, <3>3, <3>4, <3>6, <4>1
    <3> QED
      BY <3>5, <3>6
  <2>3. 0 \in S
    OBVIOUS
  <2> HIDE DEF S
  <2>4. \A n \in Nat : n \in S
    BY <2>2, <2>3, Induction
  <2>5. Len(s) \in 1 .. Len(s) /\ Len(s) # 0
    BY <1>1, <1>4, EmptySeq
  <2>6. f[Len(s)] = g[Len(s)]
    BY <2>4, <2>5 DEF S
  <2>7. g[Len(t)] = g[Len(s)] \o x
    <3>1. Len(t) \in Nat /\ Len(t) \in 1 .. Len(t) /\ Len(t) # 1 /\ Len(t) - 1 = Len(s) /\ t[Len(t)] = x
      BY <1>1, <2>5
    <3>2. g[Len(t)] = IF Len(t) = 1 THEN t[1] ELSE g[Len(t) - 1] \o t[Len(t)]
      BY <1>2, <3>1, FlattensAt
    <3> QED
      BY <3>1, <3>2
  <2> QED
    BY <1>2, <2>1, <2>6, <2>7 DEF t
<1> QED
  BY <1>3, <1>4

\* Induction, for a set of sequences.
LEMMA SeqInduction ==
  ASSUME NEW T, NEW S, <<>> \in S,
         \A s \in Seq(T) : \A x \in T : s \in S => Append(s, x) \in S
  PROVE  \A s \in Seq(T) : s \in S
<1> DEFINE N == {n \in Nat : \A s \in Seq(T) : Len(s) = n => s \in S}
<1>1. 0 \in N
  BY EmptySeq
<1>2. ASSUME NEW n \in Nat, n \in N PROVE n + 1 \in N
  <2>1. SUFFICES ASSUME NEW s \in Seq(T), Len(s) = n + 1 PROVE s \in S
    OBVIOUS
  <2>2. s # <<>>
    BY <2>1, EmptySeq
  <2>3. PICK r \in Seq(T), x \in T : s = Append(r, x)
    BY <2>2, SequenceEmptyOrAppend
  <2>4. Len(r) \in Nat /\ Len(s) = Len(r) + 1
    BY <2>3, AppendProperties, LenProperties
  <2>5. Len(r) = n
    BY <2>1, <2>4
  <2>6. r \in S
    BY <1>2, <2>5
  <2> QED
    BY <2>3, <2>6
<1> HIDE DEF N
<1>3. \A n \in Nat : n \in N
  BY <1>1, <1>2, Induction
<1> QED
  BY <1>3, LenProperties DEF N

LEMMA FlattenEmpty == FlattenSeq(<<>>) = <<>>
BY DEF FlattenSeq

LEMMA FlattenType ==
  ASSUME NEW T
  PROVE  \A s \in Seq(Seq(T)) : FlattenSeq(s) \in Seq(T)
<1> DEFINE S == {s \in Seq(Seq(T)) : FlattenSeq(s) \in Seq(T)}
<1>1. <<>> \in S
  BY FlattenEmpty, EmptySeq
<1>2. ASSUME NEW s \in Seq(Seq(T)), NEW x \in Seq(T), s \in S PROVE Append(s, x) \in S
  <2>1. FlattenSeq(Append(s, x)) = FlattenSeq(s) \o x
    BY FlattenAppend
  <2> QED
    BY <1>2, <2>1, AppendProperties, ConcatProperties
<1> HIDE DEF S
<1>3. \A s \in Seq(Seq(T)) : s \in S
  BY <1>1, <1>2, SeqInduction
<1> QED
  BY <1>3 DEF S

Maps(F, A, B) == F \in [A -> B]

\* The values of F along a sequence.
Along(F, s) == [k \in DOMAIN s |-> F[s[k]]]

LEMMA AlongType ==
  ASSUME NEW A, NEW B, NEW F, Maps(F, A, B), NEW s \in Seq(A)
  PROVE  Along(F, s) \in Seq(B) /\ Len(Along(F, s)) = Len(s)
<1>1. Len(s) \in Nat /\ DOMAIN s = 1 .. Len(s) /\ \A k \in 1 .. Len(s) : s[k] \in A
  BY LenProperties, ElementOfSeq
<1> QED
  BY <1>1 DEF Along, Maps

LEMMA AlongAppend ==
  ASSUME NEW A, NEW B, NEW F, Maps(F, A, B), NEW s \in Seq(A), NEW x \in A
  PROVE  Along(F, Append(s, x)) = Append(Along(F, s), F[x])
<1> DEFINE t == Append(s, x)
<1>1. /\ t \in Seq(A) /\ Len(t) = Len(s) + 1 /\ Len(s) \in Nat
      /\ \A i \in 1 .. Len(s) : t[i] = s[i]
      /\ t[Len(s) + 1] = x
  BY AppendProperties, LenProperties
<1> HIDE DEF t
<1>2. Along(F, t) \in Seq(B) /\ Len(Along(F, t)) = Len(s) + 1
  BY <1>1, AlongType
<1>3. /\ Along(F, s) \in Seq(B) /\ Len(Along(F, s)) = Len(s)
      /\ F[x] \in B
  <2>1. F[x] \in B
    BY DEF Maps
  <2> QED
    BY <2>1, AlongType
<1>4. /\ Append(Along(F, s), F[x]) \in Seq(B)
      /\ Len(Append(Along(F, s), F[x])) = Len(s) + 1
      /\ \A i \in 1 .. Len(s) : Append(Along(F, s), F[x])[i] = Along(F, s)[i]
      /\ Append(Along(F, s), F[x])[Len(s) + 1] = F[x]
  BY <1>3, AppendProperties
<1>5. ASSUME NEW i \in 1 .. Len(s) + 1
      PROVE  Along(F, t)[i] = Append(Along(F, s), F[x])[i]
  <2>1. DOMAIN s = 1 .. Len(s) /\ DOMAIN t = 1 .. Len(s) + 1
    BY <1>1, LenProperties
  <2>2. Along(F, t)[i] = F[t[i]]
    BY <2>1 DEF Along
  <2>3. CASE i = Len(s) + 1
    BY <2>2, <2>3, <1>1, <1>4
  <2>4. CASE i # Len(s) + 1
    <3>1. i \in 1 .. Len(s)
      BY <2>4, <1>1
    <3>2. Along(F, s)[i] = F[s[i]]
      BY <2>1, <3>1 DEF Along
    <3> QED
      BY <2>2, <3>1, <3>2, <1>1, <1>4
  <2> QED
    BY <2>3, <2>4
<1>6. Along(F, t) = Append(Along(F, s), F[x])
  BY <1>2, <1>4, <1>5, SeqEqual
<1> QED
  BY <1>6 DEF t

\* Flattening along a sequence goes on from its beginning.
LEMMA FlattenAlong ==
  ASSUME NEW A, NEW B, NEW F, Maps(F, A, Seq(B))
  PROVE  /\ FlattenSeq(Along(F, <<>>)) = <<>>
         /\ \A s \in Seq(A) : FlattenSeq(Along(F, s)) \in Seq(B)
         /\ \A s \in Seq(A) : \A x \in A :
              FlattenSeq(Along(F, Append(s, x))) = FlattenSeq(Along(F, s)) \o F[x]
<1>3. Along(F, <<>>) = <<>>
  BY DEF Along
<1>4. \A s \in Seq(A) : FlattenSeq(Along(F, s)) \in Seq(B)
  BY AlongType, FlattenType
<1>5. ASSUME NEW s \in Seq(A), NEW x \in A
      PROVE  FlattenSeq(Along(F, Append(s, x))) = FlattenSeq(Along(F, s)) \o F[x]
  <2>1. Along(F, Append(s, x)) = Append(Along(F, s), F[x])
    BY AlongAppend
  <2>2. Along(F, s) \in Seq(Seq(B)) /\ F[x] \in Seq(B)
    BY AlongType DEF Maps
  <2> QED
    BY <2>1, <2>2, FlattenAppend
<1> QED
  BY <1>3, <1>4, <1>5, FlattenEmpty

\* The flattening along a concatenation is that of its parts.
LEMMA FlattenAlongConcat ==
  ASSUME NEW A, NEW B, NEW F, Maps(F, A, Seq(B)), NEW s \in Seq(A)
  PROVE  \A t \in Seq(A) :
           FlattenSeq(Along(F, s \o t)) = FlattenSeq(Along(F, s)) \o FlattenSeq(Along(F, t))
<1> DEFINE flat(t) == FlattenSeq(Along(F, t))
           S == {t \in Seq(A) : flat(s \o t) = flat(s) \o flat(t)}
<1>0. /\ flat(<<>>) = <<>>
      /\ \A t \in Seq(A) : flat(t) \in Seq(B)
      /\ \A t \in Seq(A) : \A x \in A : flat(Append(t, x)) = flat(t) \o F[x]
  BY FlattenAlong
<1> HIDE DEF flat
<1>1. <<>> \in S
  BY <1>0, EmptySeq, ConcatEmptySeq
<1>2. ASSUME NEW t \in Seq(A), NEW x \in A, t \in S PROVE Append(t, x) \in S
  <2>1. s \o t \in Seq(A) /\ <<x>> \in Seq(A) /\ Append(t, x) \in Seq(A) /\ F[x] \in Seq(B)
    BY ConcatProperties, AppendProperties DEF Maps
  <2>2. s \o Append(t, x) = Append(s \o t, x)
    BY <2>1, AppendIsConcat, ConcatAssociative
  <2>3. flat(s \o Append(t, x)) = (flat(s) \o flat(t)) \o F[x]
    BY <1>0, <1>2, <2>1, <2>2
  <2>4. flat(s) \in Seq(B) /\ flat(t) \in Seq(B)
    BY <1>0
  <2>5. (flat(s) \o flat(t)) \o F[x] = flat(s) \o (flat(t) \o F[x])
    <3>1. \A a, b, c \in Seq(B) : (a \o b) \o c = a \o (b \o c)
      BY ConcatAssociative
    <3> QED
      BY ONLY <2>1, <2>4, <3>1
  <2> QED
    BY <1>0, <2>1, <2>3, <2>5
<1> HIDE DEF S
<1>3. \A t \in Seq(A) : t \in S
  BY <1>1, <1>2, SeqInduction
<1> QED
  BY <1>3 DEF S, flat

\* Where F is the one-element sequences, nothing is changed by flattening.
LEMMA FlattenAlongSame ==
  ASSUME NEW A, NEW F, Maps(F, A, Seq(A)), NEW C \in SUBSET A,
         \A x \in C : F[x] = <<x>>
  PROVE  \A s \in Seq(C) : FlattenSeq(Along(F, s)) = s
<1> DEFINE S == {s \in Seq(C) : FlattenSeq(Along(F, s)) = s}
<1>1. <<>> \in S
  BY FlattenAlong, EmptySeq
<1>2. ASSUME NEW s \in Seq(C), NEW x \in C, s \in S PROVE Append(s, x) \in S
  <2>1. s \in Seq(A) /\ x \in A
    BY SeqMonotonic
  <2>2. FlattenSeq(Along(F, Append(s, x))) = FlattenSeq(Along(F, s)) \o F[x]
    BY <2>1, FlattenAlong
  <2>3. FlattenSeq(Along(F, s)) = s /\ F[x] = <<x>>
    BY <1>2
  <2>4. Append(s, x) = s \o <<x>> /\ Append(s, x) \in Seq(C)
    BY AppendIsConcat, AppendProperties
  <2> QED
    BY <2>2, <2>3, <2>4
<1> HIDE DEF S
<1>3. \A s \in Seq(C) : s \in S
  BY <1>1, <1>2, SeqInduction
<1> QED
  BY <1>3 DEF S

\* Where F is the empty sequence, nothing is left.
LEMMA FlattenAlongNothing ==
  ASSUME NEW A, NEW B, NEW F, Maps(F, A, Seq(B)), NEW C \in SUBSET A,
         \A x \in C : F[x] = <<>>
  PROVE  \A s \in Seq(C) : FlattenSeq(Along(F, s)) = <<>>
<1> DEFINE S == {s \in Seq(C) : FlattenSeq(Along(F, s)) = <<>>}
<1>1. <<>> \in S
  BY FlattenAlong, EmptySeq
<1>2. ASSUME NEW s \in Seq(C), NEW x \in C, s \in S PROVE Append(s, x) \in S
  <2>1. s \in Seq(A) /\ x \in A
    BY SeqMonotonic
  <2>2. FlattenSeq(Along(F, Append(s, x))) = FlattenSeq(Along(F, s)) \o F[x]
    BY <2>1, FlattenAlong
  <2>3. <<>> \in Seq(B)
    BY EmptySeq
  <2> QED
    BY <1>2, <2>2, <2>3, AppendProperties, ConcatEmptySeq
<1> HIDE DEF S
<1>3. \A s \in Seq(C) : s \in S
  BY <1>1, <1>2, SeqInduction
<1> QED
  BY <1>3 DEF S
\* A sequence is one of whatever its elements are.
LEMMA Narrowed ==
  ASSUME NEW T, NEW s \in Seq(T), NEW U, \A k \in 1 .. Len(s) : s[k] \in U
  PROVE  s \in Seq(U)
<1>1. s = [k \in 1 .. Len(s) |-> s[k]] /\ Len(s) \in Nat
  BY LenProperties
<1> QED
  BY <1>1

LEMMA GrowsByOne ==
  ASSUME NEW B, NEW n \in Nat, NEW f \in Seq(B), NEW g \in Seq(B),
         Len(f) = n, Len(g) = n + 1, \A i \in 1 .. n : g[i] = f[i]
  PROVE  g = Append(f, g[n + 1])
<1>1. g[n + 1] \in B
  BY ElementOfSeq
<1>2. /\ Append(f, g[n + 1]) \in Seq(B)
      /\ Len(Append(f, g[n + 1])) = n + 1
      /\ \A i \in 1 .. n : Append(f, g[n + 1])[i] = f[i]
      /\ Append(f, g[n + 1])[n + 1] = g[n + 1]
  BY <1>1, AppendProperties
<1>3. \A i \in 1 .. n + 1 : g[i] = Append(f, g[n + 1])[i]
  BY <1>2
<1> QED
  BY <1>2, <1>3, SeqEqual

-----------------------------------------------------------------------------
(* Prefixes.                                                               *)

LEMMA PrefixIs ==
  ASSUME NEW T, NEW s \in Seq(T), NEW t \in Seq(T)
  PROVE  IsPrefix(s, t) <=> (Len(s) =< Len(t) /\ \A i \in 1 .. Len(s) : s[i] = t[i])
<1>1. SUFFICES ASSUME Len(s) =< Len(t)
               PROVE  SubSeq(s, 1, Len(s)) = SubSeq(t, 1, Len(s))
                        <=> \A i \in 1 .. Len(s) : s[i] = t[i]
  BY DEF IsPrefix
<1>2. Len(s) \in Nat /\ Len(t) \in Nat /\ Len(s) \in Int /\ 1 \in Int
  BY LenProperties
<1>3. \A i \in 1 .. Len(s) : s[i] \in T /\ t[i] \in T
  BY <1>1, <1>2, ElementOfSeq
<1>4. SubSeq(s, 1, Len(s)) = s
  BY SubSeqFull
<1> DEFINE u == SubSeq(t, 1, Len(s))
<1>5. /\ u \in Seq(T) /\ Len(u) = Len(s)
      /\ \A i \in 1 .. Len(s) : u[i] = t[i]
  <2>1. /\ u \in Seq(T) /\ Len(u) = IF 1 =< Len(s) THEN Len(s) - 1 + 1 ELSE 0
        /\ \A i \in 1 .. Len(s) - 1 + 1 : u[i] = t[1 + i - 1]
    BY <1>2, <1>3, SubSeqProperties
  <2> QED
    BY <1>2, <2>1
<1> HIDE DEF u
<1>6. s = u <=> \A i \in 1 .. Len(s) : s[i] = t[i]
  <2>1. ASSUME s = u PROVE \A i \in 1 .. Len(s) : s[i] = t[i]
    BY <1>5, <2>1
  <2>2. ASSUME \A i \in 1 .. Len(s) : s[i] = t[i] PROVE s = u
    BY <1>5, <2>2, SeqEqual
  <2> QED
    BY <2>1, <2>2
<1> QED
  BY <1>4, <1>6 DEF u

LEMMA PrefixConcat ==
  ASSUME NEW T, NEW s \in Seq(T), NEW t \in Seq(T)
  PROVE  IsPrefix(s, s \o t)
<1>1. /\ s \o t \in Seq(T) /\ Len(s \o t) = Len(s) + Len(t)
      /\ \A i \in 1 .. Len(s) + Len(t) : (s \o t)[i] = IF i =< Len(s) THEN s[i] ELSE t[i - Len(s)]
      /\ Len(s) \in Nat /\ Len(t) \in Nat
  BY ConcatProperties, LenProperties
<1>2. Len(s) =< Len(s \o t) /\ \A i \in 1 .. Len(s) : s[i] = (s \o t)[i]
  BY <1>1
<1> QED
  BY <1>1, <1>2, PrefixIs

LEMMA PrefixSelf ==
  ASSUME NEW T, NEW s \in Seq(T)
  PROVE  IsPrefix(s, s)
BY PrefixIs, LenProperties

LEMMA PrefixTransitive ==
  ASSUME NEW T, NEW s \in Seq(T), NEW t \in Seq(T), NEW u \in Seq(T),
         IsPrefix(s, t), IsPrefix(t, u)
  PROVE  IsPrefix(s, u)
<1>1. Len(s) \in Nat /\ Len(t) \in Nat /\ Len(u) \in Nat
  BY LenProperties
<1>2. /\ Len(s) =< Len(t) /\ \A i \in 1 .. Len(s) : s[i] = t[i]
      /\ Len(t) =< Len(u) /\ \A i \in 1 .. Len(t) : t[i] = u[i]
  BY PrefixIs
<1>3. Len(s) =< Len(u) /\ \A i \in 1 .. Len(s) : s[i] = u[i]
  BY <1>1, <1>2
<1> QED
  BY <1>3, PrefixIs

-----------------------------------------------------------------------------
(* The blocks of a kind, and their tokens.                                 *)

Picked(kinds) == [b \in BlockType |-> IF b.kind \in kinds THEN <<b>> ELSE <<>>]
Those(kinds)  == {b \in BlockType : b.kind \in kinds}

LEMMA PickedMaps ==
  ASSUME NEW kinds
  PROVE  Maps(Picked(kinds), BlockType, Seq(BlockType))
<1>1. \A b \in BlockType : <<b>> \in Seq(BlockType) /\ <<>> \in Seq(BlockType)
  BY EmptySeq
<1> QED
  BY <1>1 DEF Maps, Picked

LEMMA OfKindIs ==
  ASSUME NEW kinds, NEW blocks \in Seq(BlockType)
  PROVE  OfKind(blocks, kinds) = FlattenSeq(Along(Picked(kinds), blocks))
<1>1. \A k \in DOMAIN blocks : blocks[k] \in BlockType
  BY LenProperties, ElementOfSeq
<1>2. Along(Picked(kinds), blocks)
        = [k \in DOMAIN blocks |-> IF blocks[k].kind \in kinds THEN <<blocks[k]>> ELSE <<>>]
  BY <1>1 DEF Along, Picked
<1> QED
  BY <1>2 DEF OfKind

LEMMA OfKindType ==
  ASSUME NEW kinds, NEW blocks \in Seq(BlockType)
  PROVE  OfKind(blocks, kinds) \in Seq(BlockType)
BY OfKindIs, PickedMaps, FlattenAlong

LEMMA OfKindAppend ==
  ASSUME NEW kinds, NEW blocks \in Seq(BlockType), NEW b \in BlockType
  PROVE  OfKind(Append(blocks, b), kinds)
           = OfKind(blocks, kinds) \o (IF b.kind \in kinds THEN <<b>> ELSE <<>>)
<1>1. FlattenSeq(Along(Picked(kinds), Append(blocks, b)))
        = FlattenSeq(Along(Picked(kinds), blocks)) \o Picked(kinds)[b]
  BY PickedMaps, FlattenAlong
<1>2. Picked(kinds)[b] = IF b.kind \in kinds THEN <<b>> ELSE <<>>
  BY DEF Picked
<1>3. Append(blocks, b) \in Seq(BlockType)
  BY AppendProperties
<1> QED
  BY <1>1, <1>2, <1>3, OfKindIs

LEMMA OfKindConcat ==
  ASSUME NEW kinds, NEW s \in Seq(BlockType), NEW t \in Seq(BlockType)
  PROVE  OfKind(s \o t, kinds) = OfKind(s, kinds) \o OfKind(t, kinds)
<1>1. FlattenSeq(Along(Picked(kinds), s \o t))
        = FlattenSeq(Along(Picked(kinds), s)) \o FlattenSeq(Along(Picked(kinds), t))
  BY PickedMaps, FlattenAlongConcat
<1>2. s \o t \in Seq(BlockType)
  BY ConcatProperties
<1> QED
  BY <1>1, <1>2, OfKindIs

LEMMA OfKindAll ==
  ASSUME NEW kinds, NEW blocks \in Seq(Those(kinds))
  PROVE  OfKind(blocks, kinds) = blocks
<1>1. Those(kinds) \in SUBSET BlockType /\ \A b \in Those(kinds) : Picked(kinds)[b] = <<b>>
  BY DEF Those, Picked
<1>2. blocks \in Seq(BlockType)
  BY <1>1, SeqMonotonic
<1>3. FlattenSeq(Along(Picked(kinds), blocks)) = blocks
  BY <1>1, PickedMaps, FlattenAlongSame
<1> QED
  BY <1>2, <1>3, OfKindIs

LEMMA OfKindNone ==
  ASSUME NEW kinds, NEW blocks \in Seq(BlockType \ Those(kinds))
  PROVE  OfKind(blocks, kinds) = <<>>
<1> DEFINE C == BlockType \ Those(kinds)
<1>1. C \in SUBSET BlockType /\ \A b \in C : Picked(kinds)[b] = <<>>
  BY DEF Those, Picked
<1>2. blocks \in Seq(C)
  OBVIOUS
<1> HIDE DEF C
<1>3. blocks \in Seq(BlockType)
  BY <1>1, <1>2, SeqMonotonic
<1>4. FlattenSeq(Along(Picked(kinds), blocks)) = <<>>
  BY <1>1, <1>2, PickedMaps, FlattenAlongNothing
<1> QED
  BY <1>3, <1>4, OfKindIs

\* What is of a kind is found, and nothing else.
LEMMA OfKindMembers ==
  ASSUME NEW kinds
  PROVE  \A blocks \in Seq(BlockType) :
           Range(OfKind(blocks, kinds)) = {b \in Range(blocks) : b.kind \in kinds}
<1> DEFINE found(s) == {b \in Range(s) : b.kind \in kinds}
           S == {s \in Seq(BlockType) : Range(OfKind(s, kinds)) = found(s)}
<1>1. <<>> \in S
  <2>1. OfKind(<<>>, kinds) = <<>>
    <3>1. <<>> \in Seq(BlockType \ Those(kinds))
      BY EmptySeq
    <3> QED
      BY <3>1, OfKindNone
  <2>2. Range(<<>>) = {}
    BY DEF Range
  <2>3. <<>> \in Seq(BlockType)
    BY EmptySeq
  <2> QED
    BY <2>1, <2>2, <2>3
<1>2. ASSUME NEW s \in Seq(BlockType), NEW b \in BlockType, s \in S PROVE Append(s, b) \in S
  <2> DEFINE one == IF b.kind \in kinds THEN <<b>> ELSE <<>>
  <2>1. OfKind(Append(s, b), kinds) = OfKind(s, kinds) \o one
    BY OfKindAppend
  <2>2. <<b>> \in Seq(BlockType) /\ one \in Seq(BlockType) /\ OfKind(s, kinds) \in Seq(BlockType)
    BY OfKindType, EmptySeq
  <2>3. Range(<<b>>) = {b} /\ Range(one) = IF b.kind \in kinds THEN {b} ELSE {}
    BY DEF Range
  <2>4. Append(s, b) = s \o <<b>> /\ Append(s, b) \in Seq(BlockType)
    BY AppendIsConcat, AppendProperties
  <2> HIDE DEF one
  <2>5. Range(Append(s, b)) = Range(s) \cup {b}
    <3>1. Range(s \o <<b>>) = Range(s) \cup Range(<<b>>)
      BY <2>2, RangeConcatenation
    <3>2. Range(Append(s, b)) = Range(s) \cup Range(<<b>>)
      BY <2>4, <3>1
    <3> HIDE DEF found
    <3> QED
      BY <2>3, <3>2
  <2>6. Range(OfKind(Append(s, b), kinds)) = Range(OfKind(s, kinds)) \cup Range(one)
    BY <2>1, <2>2, RangeConcatenation
  <2>7. Range(OfKind(s, kinds)) = found(s)
    BY <1>2
  <2>8. found(Append(s, b)) = found(s) \cup (IF b.kind \in kinds THEN {b} ELSE {})
    BY <2>5
  <2> QED
    BY <2>3, <2>4, <2>6, <2>7, <2>8
<1> HIDE DEF S
<1>3. \A s \in Seq(BlockType) : s \in S
  BY <1>1, <1>2, SeqInduction
<1> QED
  BY <1>3 DEF S

LEMMA TokensAssociate ==
  \A a, b, c \in Seq(TokenType) : (a \o b) \o c = a \o (b \o c)
BY ConcatAssociative

LEMMA TokensType ==
  ASSUME NEW s \in Seq(BlockType)
  PROVE  Tokens(s) \in Seq(TokenType) /\ Len(Tokens(s)) = Len(s)
<1>1. Len(s) \in Nat /\ DOMAIN s = 1 .. Len(s)
  BY LenProperties
<1>2. \A k \in 1 .. Len(s) : s[k] \in BlockType
  BY ElementOfSeq
<1>3. \A k \in 1 .. Len(s) : s[k].token \in TokenType
  BY <1>2 DEF BlockType
<1> QED
  BY <1>1, <1>3 DEF Tokens

LEMMA TokensAppend ==
  ASSUME NEW s \in Seq(BlockType), NEW b \in BlockType
  PROVE  Tokens(Append(s, b)) = Append(Tokens(s), b.token)
<1> DEFINE t == Append(s, b)
           n == Len(s)
<1>1. /\ n \in Nat /\ DOMAIN s = 1 .. n
      /\ t \in Seq(BlockType) /\ Len(t) = n + 1 /\ DOMAIN t = 1 .. n + 1
      /\ t[n + 1] = b /\ \A i \in 1 .. n : t[i] = s[i]
  <2>1. n \in Nat /\ DOMAIN s = 1 .. n
    BY LenProperties
  <2>2. /\ t \in Seq(BlockType) /\ Len(t) = n + 1
        /\ t[n + 1] = b /\ \A i \in 1 .. n : t[i] = s[i]
    BY AppendProperties
  <2>3. DOMAIN t = 1 .. Len(t)
    BY <2>2, LenProperties
  <2> QED
    BY <2>1, <2>2, <2>3
<1> HIDE DEF t
<1>2. /\ Tokens(s) \in Seq(TokenType) /\ Len(Tokens(s)) = n
      /\ Tokens(t) \in Seq(TokenType) /\ Len(Tokens(t)) = n + 1
  BY <1>1, TokensType
<1>3. /\ \A i \in 1 .. n : Tokens(t)[i] = Tokens(s)[i]
      /\ Tokens(t)[n + 1] = b.token
  BY <1>1 DEF Tokens
<1> HIDE DEF n
<1>4. Tokens(t) = Append(Tokens(s), Tokens(t)[n + 1])
  BY <1>1, <1>2, <1>3, GrowsByOne
<1> QED
  BY <1>3, <1>4 DEF t
-----------------------------------------------------------------------------
(* What the conversion makes of a message is a list of messages.           *)

LEMMA BlockTyped ==
  ASSUME NEW kind \in Word \cup {"thinking", "call", "result"}, NEW token \in TokenType
  PROVE  Block(kind, token) \in BlockType
<1>1. <<>> \in IdType
  BY EmptySeq DEF IdType
<1> QED
  BY <1>1 DEF Block, BlockType

\* The token of the image of a result.
Shown == [b \in BlockType |->
            IF b.picture = "picture" THEN <<<<b.token[1], "picture", b.token[3]>>>> ELSE <<>>]

LEMMA ShownMaps == Maps(Shown, BlockType, Seq(TokenType))
<1>1. ASSUME NEW b \in BlockType
      PROVE  <<<<b.token[1], "picture", b.token[3]>>>> \in Seq(TokenType)
  <2>1. b.token \in TokenType
    BY DEF BlockType
  <2>2. b.token[1] \in Nat /\ b.token[3] \in Nat
    BY <2>1 DEF TokenType
  <2>3. <<b.token[1], "picture", b.token[3]>> \in TokenType
    BY <2>2 DEF TokenType
  <2> QED
    BY <2>3
<1>2. <<>> \in Seq(TokenType)
  BY EmptySeq
<1> QED
  BY <1>1, <1>2 DEF Maps, Shown

LEMMA PicturesIs ==
  ASSUME NEW m \in MessageType
  PROVE  Pictures(m) = FlattenSeq(Along(Shown, OfKind(m.blocks, {"result"})))
<1> DEFINE results == OfKind(m.blocks, {"result"})
<1>1. results \in Seq(BlockType)
  BY OfKindType DEF MessageType
<1>2. \A k \in DOMAIN results : results[k] \in BlockType
  BY <1>1, LenProperties, ElementOfSeq
<1> HIDE DEF results
<1>3. Along(Shown, results)
        = [k \in DOMAIN results |->
             IF results[k].picture = "picture"
             THEN <<<<results[k].token[1], "picture", results[k].token[3]>>>>
             ELSE <<>>]
  BY <1>2 DEF Along, Shown
<1> QED
  BY <1>3 DEF Pictures, results

LEMMA PartsTyped ==
  ASSUME NEW m \in MessageType
  PROVE  Pictures(m) \in Seq(TokenType) /\ UserParts(m) \in Seq(TokenType)
<1>1. m.blocks \in Seq(BlockType)
  BY DEF MessageType
<1>2. /\ OfKind(m.blocks, {"result"}) \in Seq(BlockType)
      /\ OfKind(m.blocks, {"text", "image"}) \in Seq(BlockType)
  BY <1>1, OfKindType
<1>3. FlattenSeq(Along(Shown, OfKind(m.blocks, {"result"}))) \in Seq(TokenType)
  BY <1>2, ShownMaps, FlattenAlong
<1> QED
  BY <1>2, <1>3, PicturesIs, TokensType DEF UserParts

LEMMA OutTyped ==
  ASSUME NEW role \in {"user", "system", "tool"}, NEW parts \in Seq(TokenType)
  PROVE  Out(role, parts) \in OutType
<1>1. <<>> \in Seq([token : TokenType, id : IdType]) /\ <<>> \in Seq(IdType)
  BY EmptySeq
<1> QED
  BY <1>1 DEF Out, OutType

LEMMA AssistantOutTyped ==
  ASSUME NEW m \in MessageType
  PROVE  AssistantOut(m) \in OutType
<1> DEFINE calls == OfKind(m.blocks, {"call"})
           kept  == [k \in DOMAIN calls |-> [token |-> calls[k].token, id |-> calls[k].id]]
           parts == Tokens(OfKind(m.blocks, {"thinking"})) \o Tokens(OfKind(m.blocks, {"text"}))
<1>1. m.blocks \in Seq(BlockType)
  BY DEF MessageType
<1>2. kept \in Seq([token : TokenType, id : IdType])
  <2>1. calls \in Seq(BlockType)
    BY <1>1, OfKindType
  <2> HIDE DEF calls
  <2>2. DOMAIN calls = 1 .. Len(calls) /\ Len(calls) \in Nat
        /\ \A k \in 1 .. Len(calls) : calls[k] \in BlockType
    BY <2>1, LenProperties, ElementOfSeq
  <2>3. \A k \in 1 .. Len(calls) :
          [token |-> calls[k].token, id |-> calls[k].id] \in [token : TokenType, id : IdType]
    BY <2>2 DEF BlockType
  <2> QED
    BY <2>2, <2>3
<1>3. parts \in Seq(TokenType)
  <2>1. /\ OfKind(m.blocks, {"thinking"}) \in Seq(BlockType)
        /\ OfKind(m.blocks, {"text"}) \in Seq(BlockType)
    BY <1>1, OfKindType
  <2>2. /\ Tokens(OfKind(m.blocks, {"thinking"})) \in Seq(TokenType)
        /\ Tokens(OfKind(m.blocks, {"text"})) \in Seq(TokenType)
    BY <2>1, TokensType
  <2> QED
    BY <2>2, ConcatProperties
<1>4. <<>> \in Seq(IdType)
  BY EmptySeq
<1>5. AssistantOut(m) = [role |-> "assistant", parts |-> parts, calls |-> kept, answers |-> <<>>]
  BY DEF AssistantOut
<1> HIDE DEF kept, parts
<1> QED
  BY <1>2, <1>3, <1>4, <1>5 DEF OutType

\* One tool message for each result, with its id.
LEMMA ToolsOutTyped ==
  ASSUME NEW m \in MessageType
  PROVE  /\ ToolsOut(m) \in Seq(OutType)
         /\ Len(ToolsOut(m)) = Len(OfKind(m.blocks, {"result"}))
         /\ \A k \in 1 .. Len(ToolsOut(m)) :
              /\ ToolsOut(m)[k].role = "tool"
              /\ ToolsOut(m)[k].parts = <<OfKind(m.blocks, {"result"})[k].token>>
              /\ ToolsOut(m)[k].calls = <<>>
              /\ ToolsOut(m)[k].answers = <<OfKind(m.blocks, {"result"})[k].id>>
<1> DEFINE results == OfKind(m.blocks, {"result"})
           tool(b) == [Out("tool", <<b.token>>) EXCEPT !.answers = <<b.id>>]
<1>1. results \in Seq(BlockType)
  BY OfKindType DEF MessageType
<1>2. ToolsOut(m) = [k \in DOMAIN results |-> tool(results[k])]
  BY DEF ToolsOut
<1> HIDE DEF results
<1>3. DOMAIN results = 1 .. Len(results) /\ Len(results) \in Nat
      /\ \A k \in 1 .. Len(results) : results[k] \in BlockType
  BY <1>1, LenProperties, ElementOfSeq
<1>4. ASSUME NEW b \in BlockType
      PROVE  /\ tool(b) \in OutType /\ tool(b).role = "tool" /\ tool(b).parts = <<b.token>>
             /\ tool(b).calls = <<>> /\ tool(b).answers = <<b.id>>
  <2>1. b.token \in TokenType /\ b.id \in IdType
    BY DEF BlockType
  <2>2. <<b.token>> \in Seq(TokenType) /\ <<b.id>> \in Seq(IdType)
    BY <2>1
  <2>3. <<>> \in Seq([token : TokenType, id : IdType])
    BY EmptySeq
  <2>4. tool(b) = [role |-> "tool", parts |-> <<b.token>>, calls |-> <<>>, answers |-> <<b.id>>]
    BY DEF Out
  <2> QED
    BY <2>2, <2>3, <2>4 DEF OutType
<1> HIDE DEF tool
<1>5. ToolsOut(m) \in Seq(OutType) /\ Len(ToolsOut(m)) = Len(results)
  BY <1>2, <1>3, <1>4
<1>6. \A k \in 1 .. Len(results) : ToolsOut(m)[k] = tool(results[k])
  BY <1>2, <1>3
<1> QED
  BY <1>3, <1>4, <1>5, <1>6 DEF results

\* What does not answer calls, nor makes any: messages of the user's or the system's.
Prose(outs) ==
  /\ outs \in Seq(OutType)
  /\ \A i \in 1 .. Len(outs) : outs[i].role \notin {"tool", "assistant"}

LEMMA AfterToolsProse ==
  ASSUME NEW m \in MessageType
  PROVE  Prose(AfterTools(m))
<1> DEFINE parts == Pictures(m) \o UserParts(m)
<1>1. parts \in Seq(TokenType)
  BY PartsTyped, ConcatProperties
<1>2. AfterTools(m) = IF parts = <<>> THEN <<>> ELSE <<Out("user", parts)>>
  BY DEF AfterTools
<1> HIDE DEF parts
<1>3. Out("user", parts) \in OutType /\ Out("user", parts).role = "user"
  BY <1>1, OutTyped DEF Out
<1>4. <<>> \in Seq(OutType) /\ Len(<<>>) = 0
  BY EmptySeq
<1> QED
  BY <1>2, <1>3, <1>4 DEF Prose

LEMMA SingleOutProse ==
  ASSUME NEW m \in MessageType
  PROVE  Prose(SingleOut(m))
<1> DEFINE role == IF m.role = "system" /\ ~m.plain THEN "system" ELSE "user"
<1>1. SingleOut(m) = IF UserParts(m) = <<>> THEN <<>> ELSE <<Out(role, UserParts(m))>>
  BY DEF SingleOut
<1>2. role \in {"user", "system"}
  OBVIOUS
<1> HIDE DEF role
<1>3. Out(role, UserParts(m)) \in OutType /\ Out(role, UserParts(m)).role = role
  BY <1>2, PartsTyped, OutTyped DEF Out
<1>4. <<>> \in Seq(OutType) /\ Len(<<>>) = 0
  BY EmptySeq
<1> QED
  BY <1>1, <1>2, <1>3, <1>4 DEF Prose

LEMMA OutOfCases ==
  ASSUME NEW h, NEW i
  PROVE  /\ h[i].role = "assistant" => OutOf(h, i) = <<AssistantOut(h[i])>>
         /\ FollowsUp(h, i) => OutOf(h, i) = ToolsOut(h[i]) \o AfterTools(h[i])
         /\ (h[i].role # "assistant" /\ ~FollowsUp(h, i)) => OutOf(h, i) = SingleOut(h[i])
<1>1. FollowsUp(h, i) => h[i].role # "assistant"
  BY DEF FollowsUp
<1> QED
  BY <1>1 DEF OutOf

LEMMA OutOfTyped ==
  ASSUME NEW h \in Seq(MessageType), NEW i \in 1 .. Len(h)
  PROVE  OutOf(h, i) \in Seq(OutType)
<1>1. h[i] \in MessageType
  BY ElementOfSeq
<1>2. CASE h[i].role = "assistant"
  BY <1>1, <1>2, OutOfCases, AssistantOutTyped
<1>3. CASE FollowsUp(h, i)
  <2>1. ToolsOut(h[i]) \in Seq(OutType) /\ AfterTools(h[i]) \in Seq(OutType)
    BY <1>1, ToolsOutTyped, AfterToolsProse DEF Prose
  <2>2. ToolsOut(h[i]) \o AfterTools(h[i]) \in Seq(OutType)
    BY <2>1, ConcatProperties
  <2>3. OutOf(h, i) = ToolsOut(h[i]) \o AfterTools(h[i])
    BY <1>3, OutOfCases
  <2> QED
    BY <2>2, <2>3
<1>4. CASE h[i].role # "assistant" /\ ~FollowsUp(h, i)
  BY <1>1, <1>4, OutOfCases, SingleOutProse DEF Prose
<1> QED
  BY <1>2, <1>3, <1>4

-----------------------------------------------------------------------------
(* A conversation is converted message by message.                         *)

\* What a message becomes does not depend on those after it.
LEMMA OutOfSame ==
  ASSUME NEW h, NEW g, NEW i \in Nat, g[i] = h[i], i > 1 => g[i - 1] = h[i - 1]
  PROVE  OutOf(g, i) = OutOf(h, i)
<1>1. FollowsUp(g, i) <=> FollowsUp(h, i)
  BY DEF FollowsUp
<1> QED
  BY <1>1, OutOfCases

Outs(h) == [i \in DOMAIN h |-> OutOf(h, i)]

LEMMA OutsTyped ==
  ASSUME NEW h \in Seq(MessageType)
  PROVE  Outs(h) \in Seq(Seq(OutType)) /\ Len(Outs(h)) = Len(h)
<1>1. Len(h) \in Nat /\ DOMAIN h = 1 .. Len(h)
  BY LenProperties
<1>2. \A i \in 1 .. Len(h) : OutOf(h, i) \in Seq(OutType)
  BY OutOfTyped
<1> QED
  BY <1>1, <1>2 DEF Outs

LEMMA ConvertedTyped ==
  ASSUME NEW h \in Seq(MessageType)
  PROVE  Converted(h) \in Seq(OutType)
<1>1. FlattenSeq(Outs(h)) \in Seq(OutType)
  BY OutsTyped, FlattenType
<1> QED
  BY <1>1 DEF Converted, Outs

LEMMA ConvertedEmpty == Converted(<<>>) = <<>>
<1>1. Outs(<<>>) = <<>>
  BY DEF Outs
<1> QED
  BY <1>1, FlattenEmpty DEF Converted, Outs

LEMMA ConvertedAppend ==
  ASSUME NEW h \in Seq(MessageType), NEW m \in MessageType
  PROVE  Converted(Append(h, m)) = Converted(h) \o OutOf(Append(h, m), Len(h) + 1)
<1> DEFINE g == Append(h, m)
           n == Len(h)
<1>1. /\ n \in Nat /\ DOMAIN h = 1 .. n
      /\ g \in Seq(MessageType) /\ Len(g) = n + 1 /\ DOMAIN g = 1 .. n + 1
      /\ \A i \in 1 .. n : g[i] = h[i]
  <2>1. n \in Nat /\ DOMAIN h = 1 .. n
    BY LenProperties
  <2>2. g \in Seq(MessageType) /\ Len(g) = n + 1 /\ \A i \in 1 .. n : g[i] = h[i]
    BY AppendProperties
  <2>3. DOMAIN g = 1 .. Len(g)
    BY <2>2, LenProperties
  <2> QED
    BY <2>1, <2>2, <2>3
<1> HIDE DEF g
<1>2. /\ Outs(h) \in Seq(Seq(OutType)) /\ Len(Outs(h)) = n
      /\ Outs(g) \in Seq(Seq(OutType)) /\ Len(Outs(g)) = n + 1
  BY <1>1, OutsTyped
<1>3. ASSUME NEW i \in 1 .. n PROVE Outs(g)[i] = Outs(h)[i]
  <2>1. i \in Nat /\ g[i] = h[i] /\ (i > 1 => g[i - 1] = h[i - 1])
    BY <1>1
  <2>2. OutOf(g, i) = OutOf(h, i)
    BY <2>1, OutOfSame
  <2> QED
    BY <1>1, <2>2 DEF Outs
<1>4. Outs(g)[n + 1] = OutOf(g, n + 1) /\ OutOf(g, n + 1) \in Seq(OutType)
  <2>1. n + 1 \in 1 .. n + 1
    BY <1>1
  <2>2. OutOf(g, n + 1) \in Seq(OutType)
    BY <1>1, <2>1, OutOfTyped
  <2> QED
    BY <1>1, <2>1, <2>2 DEF Outs
<1> HIDE DEF n
<1>5. Outs(g) = Append(Outs(h), OutOf(g, n + 1))
  BY <1>1, <1>2, <1>3, <1>4, GrowsByOne
<1>6. FlattenSeq(Outs(g)) = FlattenSeq(Outs(h)) \o OutOf(g, n + 1)
  BY <1>2, <1>4, <1>5, FlattenAppend
<1> QED
  BY <1>6 DEF Converted, Outs, g, n

\* A conversation that goes on is converted to a request that goes on.
LEMMA ConvertedGrows ==
  ASSUME NEW h \in Seq(MessageType)
  PROVE  \A more \in Seq(MessageType) : IsPrefix(Converted(h), Converted(h \o more))
<1> DEFINE S == {more \in Seq(MessageType) : IsPrefix(Converted(h), Converted(h \o more))}
<1>1. <<>> \in S
  <2>1. h \o <<>> = h /\ <<>> \in Seq(MessageType)
    BY ConcatEmptySeq, EmptySeq
  <2> QED
    BY <2>1, ConvertedTyped, PrefixSelf
<1>2. ASSUME NEW more \in Seq(MessageType), NEW m \in MessageType, more \in S
      PROVE  Append(more, m) \in S
  <2> DEFINE g == h \o more
  <2>1. g \in Seq(MessageType) /\ Append(more, m) \in Seq(MessageType)
    BY ConcatProperties, AppendProperties
  <2>2. h \o Append(more, m) = Append(g, m)
    <3>1. <<m>> \in Seq(MessageType)
      OBVIOUS
    <3> QED
      BY <2>1, <3>1, AppendIsConcat, ConcatAssociative
  <2>3. IsPrefix(Converted(h), Converted(g))
    BY <1>2
  <2> HIDE DEF g
  <2>4. Append(g, m) \in Seq(MessageType) /\ Len(g) + 1 \in 1 .. Len(Append(g, m))
    <3>1. Append(g, m) \in Seq(MessageType) /\ Len(Append(g, m)) = Len(g) + 1 /\ Len(g) \in Nat
      BY <2>1, AppendProperties, LenProperties
    <3> QED
      BY <3>1
  <2>5. OutOf(Append(g, m), Len(g) + 1) \in Seq(OutType)
    BY <2>4, OutOfTyped
  <2>6. /\ Converted(h) \in Seq(OutType) /\ Converted(g) \in Seq(OutType)
        /\ Converted(Append(g, m)) \in Seq(OutType)
    BY <2>1, <2>4, ConvertedTyped
  <2>7. Converted(Append(g, m)) = Converted(g) \o OutOf(Append(g, m), Len(g) + 1)
    BY <2>1, ConvertedAppend
  <2>8. IsPrefix(Converted(g), Converted(Append(g, m)))
    BY <2>5, <2>6, <2>7, PrefixConcat
  <2>9. IsPrefix(Converted(h), Converted(Append(g, m)))
    BY <2>3, <2>6, <2>8, PrefixTransitive
  <2> QED
    BY <2>1, <2>2, <2>9
<1> HIDE DEF S
<1>3. \A more \in Seq(MessageType) : more \in S
  BY <1>1, <1>2, SeqInduction
<1> QED
  BY <1>3 DEF S
-----------------------------------------------------------------------------
(* Tool messages stand behind an assistant's.                              *)

\* Messages that are no tool's may follow.
LEMMA BehindOthers ==
  ASSUME NEW w \in Seq(OutType), NEW x \in Seq(OutType), Behind(w),
         \A i \in 1 .. Len(x) : x[i].role # "tool"
  PROVE  Behind(w \o x)
<1> DEFINE v == w \o x
<1>1. /\ v \in Seq(OutType) /\ Len(v) = Len(w) + Len(x) /\ Len(w) \in Nat /\ Len(x) \in Nat
      /\ \A i \in 1 .. Len(w) + Len(x) : v[i] = IF i =< Len(w) THEN w[i] ELSE x[i - Len(w)]
      /\ DOMAIN v = 1 .. Len(v) /\ DOMAIN w = 1 .. Len(w)
      /\ \A i \in 1 .. Len(x) : x[i].role # "tool"
  <2>1. v \in Seq(OutType) /\ Len(v) = Len(w) + Len(x)
        /\ \A i \in 1 .. Len(w) + Len(x) : v[i] = IF i =< Len(w) THEN w[i] ELSE x[i - Len(w)]
    BY ConcatProperties
  <2> QED
    BY <2>1, LenProperties
<1> HIDE DEF v
<1>2. SUFFICES ASSUME NEW i \in 1 .. Len(v), v[i].role = "tool"
               PROVE  \E j \in 1 .. i - 1 : /\ v[j].role = "assistant"
                                            /\ \A k \in j + 1 .. i : v[k].role = "tool"
  BY <1>1 DEF Behind, v
<1>3. i \in 1 .. Len(w) /\ v[i] = w[i]
  <2>1. CASE i =< Len(w)
    BY <1>1, <2>1
  <2>2. CASE i > Len(w)
    <3>1. i - Len(w) \in 1 .. Len(x) /\ v[i] = x[i - Len(w)]
      BY <1>1, <2>2
    <3> QED
      BY <1>1, <1>2, <3>1
  <2> QED
    BY <1>1, <2>1, <2>2
<1>4. PICK j \in 1 .. i - 1 : /\ w[j].role = "assistant"
                              /\ \A k \in j + 1 .. i : w[k].role = "tool"
  BY <1>1, <1>2, <1>3 DEF Behind
<1>5. v[j] = w[j] /\ \A k \in j + 1 .. i : v[k] = w[k]
  BY <1>1, <1>3
<1> QED
  BY <1>3, <1>4, <1>5

\* Tool messages may follow an assistant's message.
LEMMA BehindTools ==
  ASSUME NEW w \in Seq(OutType), NEW x \in Seq(OutType), w # <<>>, Behind(w),
         w[Len(w)].role = "assistant", \A k \in 1 .. Len(x) : x[k].role = "tool"
  PROVE  Behind(w \o x)
<1> DEFINE v == w \o x
<1>1. /\ v \in Seq(OutType) /\ Len(v) = Len(w) + Len(x) /\ Len(w) \in Nat \ {0} /\ Len(x) \in Nat
      /\ \A i \in 1 .. Len(w) + Len(x) : v[i] = IF i =< Len(w) THEN w[i] ELSE x[i - Len(w)]
      /\ DOMAIN v = 1 .. Len(v) /\ DOMAIN w = 1 .. Len(w)
  <2>1. v \in Seq(OutType) /\ Len(v) = Len(w) + Len(x)
        /\ \A i \in 1 .. Len(w) + Len(x) : v[i] = IF i =< Len(w) THEN w[i] ELSE x[i - Len(w)]
    BY ConcatProperties
  <2>2. Len(w) \in Nat \ {0} /\ Len(x) \in Nat
    BY EmptySeq, LenProperties
  <2>3. DOMAIN v = 1 .. Len(v) /\ DOMAIN w = 1 .. Len(w)
    BY <2>1, LenProperties
  <2> QED
    BY <2>1, <2>2, <2>3
<1> HIDE DEF v
<1>2. SUFFICES ASSUME NEW i \in 1 .. Len(v), v[i].role = "tool"
               PROVE  \E j \in 1 .. i - 1 : /\ v[j].role = "assistant"
                                            /\ \A k \in j + 1 .. i : v[k].role = "tool"
  BY <1>1 DEF Behind, v
<1>3. CASE i =< Len(w)
  <2>1. i \in 1 .. Len(w) /\ v[i] = w[i]
    BY <1>1, <1>3
  <2>2. PICK j \in 1 .. i - 1 : /\ w[j].role = "assistant"
                                /\ \A k \in j + 1 .. i : w[k].role = "tool"
    BY <1>1, <1>2, <2>1 DEF Behind
  <2>3. v[j] = w[j] /\ \A k \in j + 1 .. i : v[k] = w[k]
    BY <1>1, <2>1
  <2> QED
    BY <2>1, <2>2, <2>3
<1>4. CASE i > Len(w)
  <2>1. Len(w) \in 1 .. i - 1 /\ v[Len(w)] = w[Len(w)]
    BY <1>1, <1>4
  <2>2. ASSUME NEW k \in Len(w) + 1 .. i PROVE v[k].role = "tool"
    <3>1. k - Len(w) \in 1 .. Len(x) /\ v[k] = x[k - Len(w)]
      BY <1>1
    <3> QED
      BY <3>1
  <2> QED
    BY <2>1, <2>2
<1> QED
  BY <1>1, <1>3, <1>4

\* Whatever the client's messages are; and a reply is the last message it becomes.
LEMMA ConvertedBehind ==
  \A h \in Seq(MessageType) :
    /\ Behind(Converted(h))
    /\ Replied(h) => /\ Converted(h) # <<>>
                     /\ Converted(h)[Len(Converted(h))] = AssistantOut(h[Len(h)])
<1> DEFINE Good(h) ==
             /\ Behind(Converted(h))
             /\ Replied(h) => /\ Converted(h) # <<>>
                              /\ Converted(h)[Len(Converted(h))] = AssistantOut(h[Len(h)])
           S == {h \in Seq(MessageType) : Good(h)}
<1>1. <<>> \in S
  <2>1. Behind(<<>>) /\ ~Replied(<<>>)
    BY DEF Behind, Replied
  <2> QED
    BY <2>1, ConvertedEmpty, EmptySeq
<1>2. ASSUME NEW h \in Seq(MessageType), NEW m \in MessageType, h \in S PROVE Append(h, m) \in S
  <2> DEFINE g == Append(h, m)
             n == Len(h)
             w == Converted(h)
             o == OutOf(g, n + 1)
  <2>1. /\ n \in Nat /\ g \in Seq(MessageType) /\ g # <<>> /\ Len(g) = n + 1
        /\ g[n + 1] = m /\ \A i \in 1 .. n : g[i] = h[i]
    BY AppendProperties, LenProperties
  <2>2. SUFFICES Good(g)
    BY <2>1
  <2>3. Good(h)
    BY <1>2
  <2>4. w \in Seq(OutType) /\ Behind(w)
    BY <2>3, ConvertedTyped
  <2>5. Converted(g) = w \o o
    BY ConvertedAppend
  <2>6. CASE m.role = "assistant"
    <3>1. o = <<AssistantOut(m)>>
      BY <2>1, <2>6, OutOfCases
    <3>2. AssistantOut(m) \in OutType /\ AssistantOut(m).role = "assistant"
      BY AssistantOutTyped DEF AssistantOut
    <3>3. <<AssistantOut(m)>> \in Seq(OutType)
          /\ \A i \in 1 .. Len(<<AssistantOut(m)>>) : <<AssistantOut(m)>>[i].role # "tool"
      BY <3>2
    <3>4. Behind(w \o <<AssistantOut(m)>>)
      BY <2>4, <3>3, BehindOthers
    <3>5. /\ w \o <<AssistantOut(m)>> # <<>>
          /\ (w \o <<AssistantOut(m)>>)[Len(w \o <<AssistantOut(m)>>)] = AssistantOut(m)
      <4>1. w \o <<AssistantOut(m)>> = Append(w, AssistantOut(m)) /\ Len(w) \in Nat
        BY <2>4, <3>2, AppendIsConcat, LenProperties
      <4> QED
        BY <2>4, <3>2, <4>1, AppendProperties
    <3> QED
      BY <2>1, <2>5, <3>1, <3>4, <3>5
  <2>7. CASE FollowsUp(g, n + 1)
    <3>1. n + 1 > 1 /\ g[n + 1 - 1].role = "assistant" /\ m.role = "user"
      BY <2>1, <2>7 DEF FollowsUp
    <3>2. n \in 1 .. n /\ n + 1 - 1 = n /\ h[n].role = "assistant" /\ h # <<>>
      BY <2>1, <3>1, EmptySeq
    <3>3. w # <<>> /\ w[Len(w)].role = "assistant"
      BY <2>3, <3>2 DEF Replied, AssistantOut
    <3> DEFINE tools == ToolsOut(m)
    <3>4. tools \in Seq(OutType) /\ \A k \in 1 .. Len(tools) : tools[k].role = "tool"
      BY ToolsOutTyped
    <3> HIDE DEF tools
    <3>5. Behind(w \o tools) /\ w \o tools \in Seq(OutType)
      BY <2>4, <3>3, <3>4, BehindTools, ConcatProperties
    <3>6. /\ AfterTools(m) \in Seq(OutType)
          /\ \A k \in 1 .. Len(AfterTools(m)) : AfterTools(m)[k].role # "tool"
      BY AfterToolsProse DEF Prose
    <3>7. Behind((w \o tools) \o AfterTools(m))
      BY <3>5, <3>6, BehindOthers
    <3>8. (w \o tools) \o AfterTools(m) = w \o (tools \o AfterTools(m))
      BY <2>4, <3>4, <3>6, ConcatAssociative
    <3>9. o = tools \o AfterTools(m)
      BY <2>1, <2>7, OutOfCases DEF tools
    <3>10. ~Replied(g)
      BY <2>1, <3>1 DEF Replied
    <3> QED
      BY <2>5, <3>7, <3>8, <3>9, <3>10
  <2>8. CASE m.role # "assistant" /\ ~FollowsUp(g, n + 1)
    <3>1. o = SingleOut(m)
      BY <2>1, <2>8, OutOfCases
    <3>2. /\ SingleOut(m) \in Seq(OutType)
          /\ \A k \in 1 .. Len(SingleOut(m)) : SingleOut(m)[k].role # "tool"
      BY SingleOutProse DEF Prose
    <3>3. Behind(w \o SingleOut(m))
      BY <2>4, <3>2, BehindOthers
    <3>4. ~Replied(g)
      BY <2>1, <2>8 DEF Replied
    <3> QED
      BY <2>5, <3>1, <3>3, <3>4
  <2> QED
    BY <2>6, <2>7, <2>8
<1> HIDE DEF S
<1>3. \A h \in Seq(MessageType) : h \in S
  BY <1>1, <1>2, SeqInduction
<1> QED
  BY <1>3 DEF S

-----------------------------------------------------------------------------
(* Calls are answered.                                                     *)

\* The answers to a call are not undone by what follows them.
LEMMA AnsweredKeeps ==
  ASSUME NEW w \in Seq(OutType), NEW x \in Seq(OutType), NEW i \in 1 .. Len(w), AnsweredAt(w, i),
         \/ x # <<>> => x[1].role # "tool"
         \/ i < Len(w) /\ w[Len(w)].role # "tool"
  PROVE  AnsweredAt(w \o x, i)
<1> DEFINE v == w \o x
           l == Len(w[i].calls)
<1>1. /\ v \in Seq(OutType) /\ Len(v) = Len(w) + Len(x) /\ Len(w) \in Nat /\ Len(x) \in Nat
      /\ \A j \in 1 .. Len(w) + Len(x) : v[j] = IF j =< Len(w) THEN w[j] ELSE x[j - Len(w)]
      /\ DOMAIN v = 1 .. Len(v) /\ DOMAIN w = 1 .. Len(w)
  <2>1. v \in Seq(OutType) /\ Len(v) = Len(w) + Len(x)
        /\ \A j \in 1 .. Len(w) + Len(x) : v[j] = IF j =< Len(w) THEN w[j] ELSE x[j - Len(w)]
    BY ConcatProperties
  <2> QED
    BY <2>1, LenProperties
<1> HIDE DEF v
<1>2. l \in Nat /\ DOMAIN w[i].calls = 1 .. l
  <2>1. w[i] \in OutType
    BY ElementOfSeq
  <2>2. w[i].calls \in Seq([token : TokenType, id : IdType])
    BY <2>1 DEF OutType
  <2> QED
    BY <2>2, LenProperties
<1>3. v[i] = w[i]
  BY <1>1
<1>4. /\ \A k \in 1 .. l : /\ i + k \in 1 .. Len(w)
                           /\ w[i + k].role = "tool" /\ w[i + k].answers = <<w[i].calls[k].id>>
      /\ i + l + 1 \in 1 .. Len(w) => w[i + l + 1].role # "tool"
  BY <1>1, <1>2 DEF AnsweredAt
<1> HIDE DEF l
<1>5. ASSUME NEW k \in 1 .. l
      PROVE  /\ i + k \in 1 .. Len(v)
             /\ v[i + k].role = "tool" /\ v[i + k].answers = <<w[i].calls[k].id>>
  <2>1. i + k \in 1 .. Len(w) /\ w[i + k].role = "tool" /\ w[i + k].answers = <<w[i].calls[k].id>>
    BY <1>4
  <2>2. i + k \in 1 .. Len(v) /\ v[i + k] = w[i + k]
    BY <1>1, <2>1
  <2> QED
    BY <2>1, <2>2
<1>6. ASSUME i + l + 1 \in 1 .. Len(v) PROVE v[i + l + 1].role # "tool"
  <2>1. i + l \in 1 .. Len(w)
    <3>1. CASE l = 0
      BY <3>1
    <3>2. CASE l # 0
      BY <1>2, <1>4, <3>2
    <3> QED
      BY <3>1, <3>2
  <2>2. CASE i + l < Len(w)
    <3>1. i + l + 1 \in 1 .. Len(w) /\ v[i + l + 1] = w[i + l + 1]
      BY <1>1, <1>2, <2>1, <2>2
    <3> QED
      BY <1>4, <3>1
  <2>3. CASE i + l = Len(w)
    <3>1. Len(x) \in Nat \ {0} /\ v[i + l + 1] = x[1] /\ x # <<>>
      BY <1>1, <1>6, <2>3, EmptySeq
    <3>2. CASE i < Len(w) /\ w[Len(w)].role # "tool"
      <4>1. l \in 1 .. l /\ w[i + l].role = "tool"
        BY <1>1, <1>2, <1>4, <2>3, <3>2
      <4> QED
        BY <2>3, <3>2, <4>1
    <3> QED
      BY <3>1, <3>2
  <2>4. i + l < Len(w) \/ i + l = Len(w)
    <3>1. Len(w) \in Nat /\ i + l \in 1 .. Len(w)
      BY <1>1, <2>1
    <3> QED
      BY ONLY <3>1
  <2> QED
    BY ONLY <2>2, <2>3, <2>4
<1>7. AnsweredAt(v, i)
  <2>1. v[i].calls = w[i].calls /\ Len(v[i].calls) = l
    BY <1>3 DEF l
  <2> QED
    BY <1>1, <1>2, <1>5, <1>6, <2>1 DEF AnsweredAt
<1> QED
  BY <1>7 DEF v

\* The user's words may follow.
LEMMA AnsweredProse ==
  ASSUME NEW w \in Seq(OutType), NEW x, Prose(x), AllAnswered(w)
  PROVE  AllAnswered(w \o x)
<1> DEFINE v == w \o x
<1>0. x \in Seq(OutType) /\ \A i \in 1 .. Len(x) : x[i].role \notin {"tool", "assistant"}
  BY DEF Prose
<1>1. /\ Len(v) = Len(w) + Len(x) /\ Len(w) \in Nat /\ Len(x) \in Nat
      /\ \A j \in 1 .. Len(w) + Len(x) : v[j] = IF j =< Len(w) THEN w[j] ELSE x[j - Len(w)]
      /\ DOMAIN v = 1 .. Len(v) /\ DOMAIN w = 1 .. Len(w)
  <2>1. v \in Seq(OutType) /\ Len(v) = Len(w) + Len(x)
        /\ \A j \in 1 .. Len(w) + Len(x) : v[j] = IF j =< Len(w) THEN w[j] ELSE x[j - Len(w)]
    BY <1>0, ConcatProperties
  <2> QED
    BY <1>0, <2>1, LenProperties
<1>2. x # <<>> => x[1].role # "tool"
  BY <1>0, <1>1, EmptySeq
<1> HIDE DEF v
<1>3. SUFFICES ASSUME NEW i \in 1 .. Len(v), v[i].role = "assistant" PROVE AnsweredAt(v, i)
  BY <1>1 DEF AllAnswered, v
<1>4. i =< Len(w)
  <2>1. SUFFICES ASSUME i > Len(w) PROVE FALSE
    BY <1>1
  <2>2. i - Len(w) \in 1 .. Len(x) /\ v[i] = x[i - Len(w)]
    BY <1>1, <2>1
  <2> QED
    BY <1>0, <1>3, <2>2
<1>5. i \in 1 .. Len(w) /\ v[i] = w[i]
  BY <1>1, <1>4
<1>6. AnsweredAt(w, i)
  BY <1>1, <1>3, <1>5 DEF AllAnswered
<1>7. AnsweredAt(w \o x, i)
  BY <1>0, <1>2, <1>5, <1>6, AnsweredKeeps
<1> QED
  BY <1>7 DEF v

\* A reply may follow.
LEMMA AnsweredReply ==
  ASSUME NEW w \in Seq(OutType), NEW a \in OutType, a.role = "assistant", AllAnswered(w)
  PROVE  AllAnsweredButTo(w \o <<a>>)
<1> DEFINE v == w \o <<a>>
<1>1. /\ Len(v) = Len(w) + 1 /\ Len(w) \in Nat /\ \A j \in 1 .. Len(w) : v[j] = w[j]
      /\ DOMAIN v = 1 .. Len(v) /\ DOMAIN w = 1 .. Len(w)
  <2>1. v = Append(w, a)
    BY AppendIsConcat
  <2>2. v \in Seq(OutType) /\ Len(v) = Len(w) + 1 /\ \A j \in 1 .. Len(w) : v[j] = w[j]
    BY <2>1, AppendProperties
  <2> QED
    BY <2>2, LenProperties
<1> HIDE DEF v
<1>2. SUFFICES ASSUME NEW i \in 1 .. Len(v), v[i].role = "assistant", i # Len(v)
               PROVE  AnsweredAt(v, i)
  BY <1>1 DEF AllAnsweredButTo, v
<1>3. i \in 1 .. Len(w) /\ v[i] = w[i]
  BY <1>1, <1>2
<1>4. AnsweredAt(w, i)
  BY <1>1, <1>2, <1>3 DEF AllAnswered
<1>5. <<a>> \in Seq(OutType) /\ <<a>>[1].role # "tool"
  OBVIOUS
<1>6. AnsweredAt(w \o <<a>>, i)
  BY <1>3, <1>4, <1>5, AnsweredKeeps
<1> QED
  BY <1>6 DEF v

\* The answers to its calls may follow the last reply, and the user's words.
LEMMA AnsweredTools ==
  ASSUME NEW w \in Seq(OutType), NEW tools \in Seq(OutType), NEW x, Prose(x),
         w # <<>>, w[Len(w)].role = "assistant", AllAnsweredButTo(w),
         Len(tools) = Len(w[Len(w)].calls),
         \A k \in 1 .. Len(tools) :
           tools[k].role = "tool" /\ tools[k].answers = <<w[Len(w)].calls[k].id>>
  PROVE  AllAnswered(w \o (tools \o x))
<1> DEFINE y == tools \o x
           v == w \o y
           n == Len(w)
           l == Len(tools)
<1>0. x \in Seq(OutType) /\ \A i \in 1 .. Len(x) : x[i].role \notin {"tool", "assistant"}
  BY DEF Prose
<1>1. /\ y \in Seq(OutType) /\ Len(y) = l + Len(x) /\ l \in Nat /\ Len(x) \in Nat
      /\ \A j \in 1 .. l + Len(x) : y[j] = IF j =< l THEN tools[j] ELSE x[j - l]
  <2>1. Len(tools) \in Nat /\ Len(x) \in Nat
    BY <1>0, LenProperties
  <2>2. /\ tools \o x \in Seq(OutType) /\ Len(tools \o x) = Len(tools) + Len(x)
        /\ \A j \in 1 .. Len(tools) + Len(x) :
             (tools \o x)[j] = IF j =< Len(tools) THEN tools[j] ELSE x[j - Len(tools)]
    BY ONLY <1>0, ConcatProperties, tools \in Seq(OutType)
  <2> QED
    BY <2>1, <2>2
<1> HIDE DEF y
<1>2. /\ v \in Seq(OutType) /\ Len(v) = n + Len(y) /\ n \in Nat \ {0}
      /\ \A j \in 1 .. n + Len(y) : v[j] = IF j =< n THEN w[j] ELSE y[j - n]
      /\ DOMAIN v = 1 .. Len(v) /\ DOMAIN w = 1 .. n
  <2>0. y \in Seq(OutType)
    BY <1>1
  <2>1. /\ w \o y \in Seq(OutType) /\ Len(w \o y) = Len(w) + Len(y)
        /\ \A j \in 1 .. Len(w) + Len(y) : (w \o y)[j] = IF j =< Len(w) THEN w[j] ELSE y[j - Len(w)]
    BY ONLY <2>0, ConcatProperties, w \in Seq(OutType)
  <2>2. Len(w) \in Nat \ {0} /\ DOMAIN w = 1 .. Len(w) /\ DOMAIN (w \o y) = 1 .. Len(w \o y)
    BY <2>1, LenProperties, EmptySeq
  <2> QED
    BY <2>1, <2>2
<1>2a. /\ n = Len(w) /\ l = Len(tools) /\ w[n].role = "assistant" /\ l = Len(w[n].calls)
       /\ \A k \in 1 .. l : tools[k].role = "tool" /\ tools[k].answers = <<w[n].calls[k].id>>
  OBVIOUS
<1> HIDE DEF v, n, l
<1>3. ASSUME NEW i \in 1 .. Len(v), v[i].role = "assistant", i < n PROVE AnsweredAt(v, i)
  <2>1. i \in 1 .. n /\ v[i] = w[i] /\ i # n
    BY <1>2, <1>3
  <2>2. AnsweredAt(w, i)
    BY <1>2, <1>2a, <1>3, <2>1 DEF AllAnsweredButTo
  <2>3. AnsweredAt(w \o y, i)
    BY <1>1, <1>2a, <1>3, <2>1, <2>2, AnsweredKeeps
  <2> QED
    BY <2>3 DEF v
<1>4. AnsweredAt(v, n)
  <2>1. v[n] = w[n]
    BY <1>1, <1>2
  <2>2. w[n].calls \in Seq([token : TokenType, id : IdType])
    <3>1. n \in 1 .. Len(w)
      BY <1>2, <1>2a
    <3>2. w[n] \in OutType
      BY <3>1, ElementOfSeq
    <3> QED
      BY <3>2 DEF OutType
  <2>3. DOMAIN w[n].calls = 1 .. l /\ Len(w[n].calls) = l
    BY <1>2a, <2>2, LenProperties
  <2>4. ASSUME NEW k \in 1 .. l
        PROVE  /\ n + k \in 1 .. Len(v)
               /\ v[n + k].role = "tool" /\ v[n + k].answers = <<w[n].calls[k].id>>
    <3>0. k \in 1 .. l + Len(x) /\ n + k \in 1 .. n + Len(y) /\ n + k - n = k /\ n + k > n
      BY <1>1, <1>2
    <3>1. n + k \in 1 .. Len(v) /\ v[n + k] = tools[k]
      BY <1>1, <1>2, <3>0
    <3> QED
      BY <1>2a, <3>1
  <2>5. ASSUME n + l + 1 \in 1 .. Len(v) PROVE v[n + l + 1].role # "tool"
    <3>0. l + 1 \in 1 .. l + Len(x) /\ n + l + 1 \in 1 .. n + Len(y)
      BY <1>1, <1>2, <2>5
    <3>1. 1 \in 1 .. Len(x) /\ v[n + l + 1] = y[l + 1] /\ y[l + 1] = x[1]
      BY <1>1, <1>2, <3>0
    <3> QED
      BY <1>0, <3>1
  <2> QED
    BY <1>2, <2>1, <2>3, <2>4, <2>5 DEF AnsweredAt
<1>5. ASSUME NEW i \in 1 .. Len(v), i > n PROVE v[i].role # "assistant"
  <2>1. i - n \in 1 .. Len(y) /\ v[i] = y[i - n]
    BY <1>1, <1>2, <1>5
  <2>2. CASE i - n =< l
    <3>1. i - n \in 1 .. l /\ v[i] = tools[i - n]
      BY <1>1, <1>2, <2>1, <2>2
    <3> QED
      BY <1>2a, <3>1
  <2>3. CASE i - n > l
    <3>0. i - n \in Nat /\ i - n - l \in 1 .. Len(x)
      BY <1>1, <1>2, <2>1, <2>3
    <3>1. v[i] = x[i - n - l]
      BY <1>1, <2>1, <2>3, <3>0
    <3> QED
      BY <1>0, <3>0, <3>1
  <2> QED
    BY <1>1, <1>2, <2>1, <2>2, <2>3
<1>6. AllAnswered(v)
  BY <1>2, <1>3, <1>4, <1>5 DEF AllAnswered
<1> QED
  BY <1>6 DEF v, y

LEMMA OpenCallsTyped ==
  ASSUME NEW h \in Seq(MessageType)
  PROVE  OpenCalls(h) \in Seq(BlockType)
<1>1. CASE h = <<>> \/ Last(h).role # "assistant"
  BY <1>1, EmptySeq DEF OpenCalls
<1>2. CASE ~(h = <<>> \/ Last(h).role # "assistant")
  <2>1. Len(h) \in 1 .. Len(h)
    BY <1>2, EmptySeq
  <2>2. Last(h) \in MessageType
    BY <2>1, ElementOfSeq DEF Last
  <2>3. Last(h).blocks \in Seq(BlockType)
    BY <2>2 DEF MessageType
  <2> QED
    BY <1>2, <2>3, OfKindType DEF OpenCalls
<1> QED
  BY <1>1, <1>2

\* The calls of a message go out with their ids.
LEMMA CallsGoOut ==
  ASSUME NEW h \in Seq(MessageType), Replied(h)
  PROVE  /\ Len(AssistantOut(h[Len(h)]).calls) = Len(OpenIds(h))
         /\ \A k \in 1 .. Len(OpenIds(h)) : AssistantOut(h[Len(h)]).calls[k].id = OpenIds(h)[k]
<1> DEFINE calls == OpenCalls(h)
<1>1. calls = OfKind(h[Len(h)].blocks, {"call"})
  BY DEF Replied, OpenCalls, Last
<1>2. calls \in Seq(BlockType) /\ Len(calls) \in Nat /\ DOMAIN calls = 1 .. Len(calls)
  BY OpenCallsTyped, LenProperties
<1>3. /\ OpenIds(h) = [k \in DOMAIN calls |-> calls[k].id]
      /\ AssistantOut(h[Len(h)]).calls = [k \in DOMAIN calls |-> [token |-> calls[k].token, id |-> calls[k].id]]
  BY <1>1 DEF OpenIds, AssistantOut
<1> HIDE DEF calls
<1> QED
  BY <1>2, <1>3
-----------------------------------------------------------------------------
(* What the client adds.                                                   *)

LEMMA SaidTyped ==
  ASSUME NEW n \in Nat, NEW words \in Seq(Word)
  PROVE  /\ Said(n, words) \in Seq(BlockType) /\ Len(Said(n, words)) = Len(words)
         /\ \A k \in 1 .. Len(words) : Said(n, words)[k] = Block(words[k], <<n, "say", k>>)
<1>1. Len(words) \in Nat /\ DOMAIN words = 1 .. Len(words)
  BY LenProperties
<1>2. ASSUME NEW k \in 1 .. Len(words) PROVE Block(words[k], <<n, "say", k>>) \in BlockType
  <2>1. words[k] \in Word \cup {"thinking", "call", "result"}
    BY ElementOfSeq
  <2>2. <<n, "say", k>> \in TokenType
    BY <1>1 DEF TokenType
  <2> QED
    BY <2>1, <2>2, BlockTyped
<1> QED
  BY <1>1, <1>2 DEF Said

\* Nothing that is said is a result.
LEMMA SaidIsWords ==
  ASSUME NEW n \in Nat, NEW words \in Seq(Word)
  PROVE  \A k \in 1 .. Len(words) : Said(n, words)[k].kind \in Word
<1>1. SUFFICES ASSUME NEW k \in 1 .. Len(words) PROVE Said(n, words)[k].kind \in Word
  OBVIOUS
<1>2. words[k] \in Word
  BY ElementOfSeq
<1>3. Said(n, words)[k] = Block(words[k], <<n, "say", k>>)
  BY SaidTyped
<1>4. Block(words[k], <<n, "say", k>>).kind = words[k]
  BY DEF Block
<1> QED
  BY <1>2, <1>3, <1>4

LEMMA ResultBlocksTyped ==
  ASSUME NEW n \in Nat, NEW ids \in Seq(IdType), NEW result \in Result
  PROVE  /\ ResultBlocks(n, ids, result) \in Seq(BlockType)
         /\ Len(ResultBlocks(n, ids, result)) = Len(ids)
         /\ \A k \in 1 .. Len(ids) :
              /\ ResultBlocks(n, ids, result)[k].kind = "result"
              /\ ResultBlocks(n, ids, result)[k].token = <<n, "result", k>>
              /\ ResultBlocks(n, ids, result)[k].id = ids[k]
              /\ ResultBlocks(n, ids, result)[k].picture = IF result = "text" THEN "none" ELSE result
<1> DEFINE block(k) == [kind |-> "result", token |-> <<n, "result", k>>, id |-> ids[k],
                        picture |-> IF result = "text" THEN "none" ELSE result]
<1>1. Len(ids) \in Nat /\ DOMAIN ids = 1 .. Len(ids)
  BY LenProperties
<1>2. ASSUME NEW k \in 1 .. Len(ids) PROVE block(k) \in BlockType
  <2>1. ids[k] \in IdType
    BY ElementOfSeq
  <2>2. <<n, "result", k>> \in TokenType
    BY <1>1 DEF TokenType
  <2>3. (IF result = "text" THEN "none" ELSE result) \in {"none", "picture", "unusable"}
    BY DEF Result
  <2> QED
    BY <2>1, <2>2, <2>3 DEF BlockType
<1>3. ResultBlocks(n, ids, result) = [k \in 1 .. Len(ids) |-> block(k)]
  BY <1>1 DEF ResultBlocks
<1>4. ResultBlocks(n, ids, result) \in Seq(BlockType) /\ Len(ResultBlocks(n, ids, result)) = Len(ids)
  <2> HIDE DEF block
  <2> QED
    BY <1>1, <1>2, <1>3
<1> QED
  BY <1>3, <1>4

LEMMA OpenIdsTyped ==
  ASSUME NEW h \in Seq(MessageType)
  PROVE  /\ OpenIds(h) \in Seq(IdType)
         /\ OpenIds(h) # <<>> => Replied(h)
<1> DEFINE calls == OpenCalls(h)
<1>1. calls \in Seq(BlockType) /\ Len(calls) \in Nat /\ DOMAIN calls = 1 .. Len(calls)
  BY OpenCallsTyped, LenProperties
<1>2. OpenIds(h) = [k \in DOMAIN calls |-> calls[k].id]
  BY DEF OpenIds
<1>3. ~Replied(h) => calls = <<>>
  BY DEF Replied, OpenCalls, Last
<1> HIDE DEF calls
<1>4. \A k \in 1 .. Len(calls) : calls[k].id \in IdType
  <2>1. \A k \in 1 .. Len(calls) : calls[k] \in BlockType
    BY <1>1, ElementOfSeq
  <2> QED
    BY <2>1 DEF BlockType
<1>5. OpenIds(h) \in Seq(IdType) /\ Len(OpenIds(h)) = Len(calls)
  BY <1>1, <1>2, <1>4
<1> QED
  BY <1>3, <1>5, EmptySeq

\* The client goes on with messages, of which the last is the user's.
LEMMA ContinuationTyped ==
  ASSUME NEW n \in Nat, NEW results \in Seq(BlockType), NEW said \in Seq(BlockType), NEW style \in Style
  PROVE  LET next == Continuation(n, style, results, said)
         IN  next \in Seq(MessageType) /\ next # <<>> /\ next[Len(next)].role = "user"
<1> DEFINE user(blocks) == Message("user", blocks)
           note == Message("system", <<Block("text", <<n, "note", 0>>)>>)
           each == [k \in DOMAIN results |-> user(<<results[k]>>)]
<1>1. ASSUME NEW blocks \in Seq(BlockType)
      PROVE  user(blocks) \in MessageType /\ user(blocks).role = "user"
  BY DEF Message, MessageType
<1>2. note \in MessageType
  <2>1. <<n, "note", 0>> \in TokenType
    BY DEF TokenType
  <2>2. Block("text", <<n, "note", 0>>) \in BlockType
    BY <2>1, BlockTyped DEF Word
  <2> QED
    BY <2>2 DEF Message, MessageType
<1>3. /\ user(said) \in MessageType /\ user(said).role = "user"
      /\ user(results \o said) \in MessageType /\ user(results \o said).role = "user"
  BY <1>1, ConcatProperties
<1>4. each \in Seq(MessageType)
  <2>1. DOMAIN results = 1 .. Len(results) /\ Len(results) \in Nat
    BY LenProperties
  <2>2. \A k \in 1 .. Len(results) : <<results[k]>> \in Seq(BlockType)
    BY ElementOfSeq
  <2>3. \A k \in 1 .. Len(results) : user(<<results[k]>>) \in MessageType
    BY <1>1, <2>2
  <2> HIDE DEF user
  <2> QED
    BY <2>1, <2>3
<1>5. \/ Continuation(n, style, results, said) = <<user(said)>>
      \/ Continuation(n, style, results, said) = <<user(results \o said)>>
      \/ Continuation(n, style, results, said) = each \o <<user(said)>>
      \/ Continuation(n, style, results, said) = <<note, user(results \o said)>>
  BY DEF Continuation, Style
<1> HIDE DEF user, note, each
<1>6. LET next == each \o <<user(said)>>
      IN  next \in Seq(MessageType) /\ next # <<>> /\ next[Len(next)] = user(said)
  <2>1. each \o <<user(said)>> = Append(each, user(said))
    BY <1>3, <1>4, AppendIsConcat
  <2>2. /\ Append(each, user(said)) \in Seq(MessageType) /\ Append(each, user(said)) # <<>>
        /\ Append(each, user(said))[Len(Append(each, user(said)))] = user(said)
    BY <1>3, <1>4, AppendProperties
  <2> QED
    BY <2>1, <2>2
<1> DEFINE Good(next) ==
             next \in Seq(MessageType) /\ next # <<>> /\ next[Len(next)].role = "user"
<1>7. Good(<<user(said)>>) /\ Good(<<user(results \o said)>>)
  BY <1>3
<1>8. Good(<<note, user(results \o said)>>)
  BY <1>2, <1>3
<1>9. Good(each \o <<user(said)>>)
  BY <1>3, <1>6
<1> HIDE DEF Good
<1>10. Good(Continuation(n, style, results, said))
  BY <1>5, <1>7, <1>8, <1>9
<1> QED
  BY <1>10 DEF Good
-----------------------------------------------------------------------------
(* What the gateway hears.                                                 *)

Heed == [o \in OutType |-> Sound(o)]
One  == [t \in TokenType |-> <<t>>]

LEMMA SoundTyped ==
  ASSUME NEW o \in OutType
  PROVE  Sound(o) \in Seq(TokenType)
<1>1. o.parts \in Seq(TokenType) /\ o.calls \in Seq([token : TokenType, id : IdType])
  BY DEF OutType
<1>2. DOMAIN o.calls = 1 .. Len(o.calls) /\ Len(o.calls) \in Nat
      /\ \A k \in 1 .. Len(o.calls) : o.calls[k] \in [token : TokenType, id : IdType]
  BY <1>1, LenProperties, ElementOfSeq
<1>3. [k \in DOMAIN o.calls |-> o.calls[k].token] \in Seq(TokenType)
  BY <1>2
<1> QED
  BY <1>1, <1>3, ConcatProperties DEF Sound

LEMMA HeedMaps == Maps(Heed, OutType, Seq(TokenType))
BY SoundTyped DEF Maps, Heed

LEMMA OneMaps == Maps(One, TokenType, Seq(TokenType)) /\ \A t \in TokenType : One[t] = <<t>>
BY DEF Maps, One

LEMMA HeardIs ==
  ASSUME NEW outs \in Seq(OutType)
  PROVE  Heard(outs) = FlattenSeq(Along(Heed, outs))
<1>1. \A i \in DOMAIN outs : outs[i] \in OutType
  BY LenProperties, ElementOfSeq
<1>2. Along(Heed, outs) = [i \in DOMAIN outs |-> Sound(outs[i])]
  BY <1>1 DEF Along, Heed
<1> QED
  BY <1>2 DEF Heard

LEMMA HeardTyped ==
  ASSUME NEW outs \in Seq(OutType)
  PROVE  Heard(outs) \in Seq(TokenType)
BY HeardIs, HeedMaps, FlattenAlong

LEMMA HeardConcat ==
  ASSUME NEW s \in Seq(OutType), NEW t \in Seq(OutType)
  PROVE  Heard(s \o t) = Heard(s) \o Heard(t)
<1>1. FlattenSeq(Along(Heed, s \o t))
        = FlattenSeq(Along(Heed, s)) \o FlattenSeq(Along(Heed, t))
  BY HeedMaps, FlattenAlongConcat
<1>2. s \o t \in Seq(OutType)
  BY ConcatProperties
<1> QED
  BY <1>1, <1>2, HeardIs

LEMMA HeardNothing == Heard(<<>>) = <<>>
<1>1. <<>> \in Seq(OutType)
  BY EmptySeq
<1> QED
  BY <1>1, HeardIs, HeedMaps, FlattenAlong

LEMMA HeardOne ==
  ASSUME NEW o \in OutType
  PROVE  Heard(<<o>>) = Sound(o)
<1>1. Heed[o] = Sound(o)
  BY DEF Heed
<1>2. <<>> \in Seq(OutType) /\ Append(<<>>, o) = <<o>> /\ <<o>> \in Seq(OutType)
  BY EmptySeq
<1>3. FlattenSeq(Along(Heed, Append(<<>>, o))) = FlattenSeq(Along(Heed, <<>>)) \o Heed[o]
  <2>1. \A s \in Seq(OutType) : \A x \in OutType :
          FlattenSeq(Along(Heed, Append(s, x))) = FlattenSeq(Along(Heed, s)) \o Heed[x]
    BY HeedMaps, FlattenAlong
  <2> QED
    BY <1>2, <2>1, Zenon
<1>4. FlattenSeq(Along(Heed, <<>>)) = <<>>
  BY HeedMaps, FlattenAlong
<1>5. <<>> \o Sound(o) = Sound(o)
  BY SoundTyped, ConcatEmptySeq
<1> QED
  BY <1>1, <1>2, <1>3, <1>4, <1>5, HeardIs

LEMMA SoundOfOut ==
  ASSUME NEW role, NEW parts \in Seq(TokenType)
  PROVE  Sound(Out(role, parts)) = parts
<1>1. Out(role, parts).parts = parts /\ Out(role, parts).calls = <<>>
  BY DEF Out
<1>2. [k \in DOMAIN <<>> |-> <<>>[k].token] = <<>>
  OBVIOUS
<1>3. Sound(Out(role, parts)) = parts \o <<>>
  BY <1>1, <1>2 DEF Sound
<1> QED
  BY <1>3, ConcatEmptySeq

LEMMA FlattenOnes ==
  ASSUME NEW s \in Seq(TokenType)
  PROVE  FlattenSeq(Along(One, s)) = s
<1>1. TokenType \in SUBSET TokenType
  OBVIOUS
<1> QED
  BY <1>1, OneMaps, FlattenAlongSame

\* Messages that say a token each.
LEMMA HeardOneEach ==
  ASSUME NEW outs \in Seq(OutType), NEW s \in Seq(TokenType), Len(outs) = Len(s),
         \A k \in 1 .. Len(s) : outs[k].parts = <<s[k]>> /\ outs[k].calls = <<>>
  PROVE  Heard(outs) = s
<1>1. /\ DOMAIN outs = 1 .. Len(s) /\ DOMAIN s = 1 .. Len(s) /\ Len(s) \in Nat
      /\ \A k \in 1 .. Len(s) : s[k] \in TokenType
  BY LenProperties, ElementOfSeq
<1>2. ASSUME NEW k \in 1 .. Len(s) PROVE Sound(outs[k]) = <<s[k]>>
  <2>1. [i \in DOMAIN <<>> |-> <<>>[i].token] = <<>>
    OBVIOUS
  <2>2. Sound(outs[k]) = <<s[k]>> \o <<>>
    BY <2>1 DEF Sound
  <2>3. <<s[k]>> \in Seq(TokenType)
    BY <1>1
  <2> QED
    BY <2>2, <2>3, ConcatEmptySeq
<1>3. [i \in DOMAIN outs |-> Sound(outs[i])] = Along(One, s)
  BY <1>1, <1>2, OneMaps DEF Along
<1> QED
  BY <1>3, FlattenOnes DEF Heard

-----------------------------------------------------------------------------
(* What the user says.                                                     *)

SpokenTokens(n, words) ==
  FlattenSeq([k \in DOMAIN words |->
    IF words[k] \in {"text", "image"} THEN <<<<n, "say", k>>>> ELSE <<>>])

LEMMA SpokenParts ==
  ASSUME NEW n \in Nat
  PROVE  \A words \in Seq(Word) :
           /\ SpokenTokens(n, words) \in Seq(TokenType)
           /\ Tokens(OfKind(Said(n, words), {"text", "image"})) = SpokenTokens(n, words)
<1> DEFINE K == {"text", "image"}
           each(words) == [k \in DOMAIN words |->
                             IF words[k] \in K THEN <<<<n, "say", k>>>> ELSE <<>>]
           S == {words \in Seq(Word) :
                   Tokens(OfKind(Said(n, words), K)) = FlattenSeq(each(words))}
<1>0. ASSUME NEW words \in Seq(Word)
      PROVE  each(words) \in Seq(Seq(TokenType)) /\ Len(each(words)) = Len(words)
  <2>1. Len(words) \in Nat /\ DOMAIN words = 1 .. Len(words)
    BY LenProperties
  <2>2. \A k \in 1 .. Len(words) : <<n, "say", k>> \in TokenType
    BY <2>1 DEF TokenType
  <2>3. \A k \in 1 .. Len(words) : <<<<n, "say", k>>>> \in Seq(TokenType)
    BY <2>2
  <2>4. <<>> \in Seq(TokenType)
    BY EmptySeq
  <2> QED
    BY <2>1, <2>3, <2>4
<1>1. <<>> \in S
  <2>1. each(<<>>) = <<>> /\ Said(n, <<>>) = <<>>
    BY DEF Said
  <2>2. <<>> \in Seq(BlockType \ Those(K)) /\ <<>> \in Seq(Word)
    BY EmptySeq
  <2>3. OfKind(<<>>, K) = <<>>
    BY <2>2, OfKindNone
  <2>4. Tokens(<<>>) = <<>>
    BY DEF Tokens
  <2> QED
    BY <2>1, <2>2, <2>3, <2>4, FlattenEmpty
<1>2. ASSUME NEW words \in Seq(Word), NEW word \in Word, words \in S
      PROVE  Append(words, word) \in S
  <2> DEFINE more == Append(words, word)
             l == Len(words)
             token == <<n, "say", l + 1>>
             b == Block(word, token)
             new == IF word \in K THEN <<token>> ELSE <<>>
  <2>1. /\ l \in Nat /\ DOMAIN words = 1 .. l
        /\ more \in Seq(Word) /\ Len(more) = l + 1 /\ DOMAIN more = 1 .. l + 1
        /\ more[l + 1] = word /\ \A k \in 1 .. l : more[k] = words[k]
    <3>1. l \in Nat /\ DOMAIN words = 1 .. l
      BY LenProperties
    <3>2. /\ more \in Seq(Word) /\ Len(more) = l + 1
          /\ more[l + 1] = word /\ \A k \in 1 .. l : more[k] = words[k]
      BY AppendProperties
    <3>3. DOMAIN more = 1 .. Len(more)
      BY <3>2, LenProperties
    <3> QED
      BY <3>1, <3>2, <3>3
  <2> HIDE DEF more
  <2>2. token \in TokenType /\ word \in Word \cup {"thinking", "call", "result"}
    BY <2>1 DEF TokenType
  <2>3. b \in BlockType /\ b.kind = word /\ b.token = token
    BY <2>2, BlockTyped DEF Block
  <2> HIDE DEF token
  <2>4. Said(n, more) = Append(Said(n, words), b)
    <3>1. /\ Said(n, words) \in Seq(BlockType) /\ Len(Said(n, words)) = l
          /\ Said(n, more) \in Seq(BlockType) /\ Len(Said(n, more)) = l + 1
      BY <2>1, SaidTyped
    <3>2. ASSUME NEW k \in 1 .. l PROVE Said(n, more)[k] = Said(n, words)[k]
      <4>1. k \in 1 .. l + 1
        BY <2>1
      <4> QED
        BY <2>1, <4>1 DEF Said
    <3>3. Said(n, more)[l + 1] = b
      <4>1. l + 1 \in 1 .. l + 1
        BY <2>1
      <4> QED
        BY <2>1, <4>1 DEF Said, token
    <3> HIDE DEF l, b
    <3>4. Said(n, more) = Append(Said(n, words), Said(n, more)[l + 1])
      BY <2>1, <3>1, <3>2, GrowsByOne
    <3> QED
      BY <3>3, <3>4
  <2>5. each(more) = Append(each(words), new)
    <3>1. /\ each(words) \in Seq(Seq(TokenType)) /\ Len(each(words)) = l
          /\ each(more) \in Seq(Seq(TokenType)) /\ Len(each(more)) = l + 1
      BY <1>0, <2>1
    <3>2. ASSUME NEW k \in 1 .. l PROVE each(more)[k] = each(words)[k]
      <4>1. k \in 1 .. l + 1
        BY <2>1
      <4> QED
        BY <2>1, <4>1
    <3>3. each(more)[l + 1] = new
      <4>1. l + 1 \in 1 .. l + 1
        BY <2>1
      <4> QED
        BY <2>1, <4>1 DEF token
    <3> HIDE DEF l, each, new
    <3>4. each(more) = Append(each(words), each(more)[l + 1])
      BY <2>1, <3>1, <3>2, GrowsByOne
    <3> QED
      BY <3>3, <3>4
  <2>6. new \in Seq(TokenType)
    <3>1. <<token>> \in Seq(TokenType) /\ <<>> \in Seq(TokenType)
      BY <2>2, EmptySeq
    <3> QED
      BY <3>1
  <2>7. FlattenSeq(each(more)) = FlattenSeq(each(words)) \o new
    <3>1. each(words) \in Seq(Seq(TokenType))
      BY <1>0
    <3> HIDE DEF each, new
    <3> QED
      BY <2>5, <2>6, <3>1, FlattenAppend
  <2> DEFINE old == OfKind(Said(n, words), K)
  <2>8. Said(n, words) \in Seq(BlockType) /\ old \in Seq(BlockType)
    BY SaidTyped, OfKindType
  <2>9. OfKind(Said(n, more), K) = old \o (IF word \in K THEN <<b>> ELSE <<>>)
    BY <2>3, <2>4, <2>8, OfKindAppend
  <2> HIDE DEF K, b, old
  <2>10. Tokens(OfKind(Said(n, more), K)) = Tokens(old) \o new
    <3>1. CASE word \in K
      <4>1. OfKind(Said(n, more), K) = Append(old, b)
        BY <2>3, <2>8, <2>9, <3>1, AppendIsConcat
      <4>2. Tokens(OfKind(Said(n, more), K)) = Append(Tokens(old), token)
        BY <2>3, <2>8, <4>1, TokensAppend
      <4>3. Append(Tokens(old), token) = Tokens(old) \o <<token>>
        BY <2>2, <2>8, TokensType, AppendIsConcat
      <4> QED
        BY <3>1, <4>2, <4>3
    <3>2. CASE word \notin K
      <4>1. OfKind(Said(n, more), K) = old
        BY <2>8, <2>9, <3>2, ConcatEmptySeq
      <4>2. Tokens(old) \o <<>> = Tokens(old)
        BY <2>8, TokensType, ConcatEmptySeq
      <4> QED
        BY <3>2, <4>1, <4>2
    <3> QED
      BY <3>1, <3>2
  <2>11. Tokens(old) = FlattenSeq(each(words))
    BY <1>2 DEF old
  <2>12. Tokens(OfKind(Said(n, more), K)) = FlattenSeq(each(more))
    BY <2>7, <2>10, <2>11
  <2> QED
    BY <2>1, <2>12 DEF more
<1> HIDE DEF S
<1>3. \A words \in Seq(Word) : words \in S
  BY <1>1, <1>2, SeqInduction
<1>4. ASSUME NEW words \in Seq(Word)
      PROVE  /\ SpokenTokens(n, words) = FlattenSeq(each(words))
             /\ FlattenSeq(each(words)) \in Seq(TokenType)
  <2>1. SpokenTokens(n, words) = FlattenSeq(each(words))
    BY DEF SpokenTokens
  <2> HIDE DEF each
  <2> QED
    BY <1>0, <2>1, FlattenType
<1> QED
  BY <1>3, <1>4 DEF S
-----------------------------------------------------------------------------
(* A turn of the user's is heard as it is told.                            *)

\* The blocks of the user's message: results, and what is said.
LEMMA BlocksOfATurn ==
  ASSUME NEW n \in Nat, NEW words \in Seq(Word), NEW results \in Seq(BlockType),
         \A k \in 1 .. Len(results) : results[k].kind = "result"
  PROVE  /\ OfKind(results \o Said(n, words), {"result"}) = results
         /\ OfKind(results \o Said(n, words), {"text", "image"})
              = OfKind(Said(n, words), {"text", "image"})
<1> DEFINE said == Said(n, words)
<1>1. said \in Seq(BlockType) /\ DOMAIN said = 1 .. Len(said)
      /\ Len(said) \in Nat /\ DOMAIN results = 1 .. Len(results) /\ Len(results) \in Nat
  BY SaidTyped, LenProperties
<1>2. ASSUME NEW k \in 1 .. Len(results)
      PROVE  results[k] \in Those({"result"}) /\ results[k] \in BlockType \ Those({"text", "image"})
  <2>1. results[k] \in BlockType
    BY ElementOfSeq
  <2> QED
    BY <2>1 DEF Those
<1>3. results \in Seq(Those({"result"})) /\ results \in Seq(BlockType \ Those({"text", "image"}))
  BY <1>2, Narrowed
<1>4. ASSUME NEW k \in 1 .. Len(said)
      PROVE  said[k] \in BlockType \ Those({"result"})
  <2>1. said[k] \in BlockType
    BY <1>1, ElementOfSeq
  <2>2. said[k].kind \in Word
    BY SaidTyped, SaidIsWords
  <2> QED
    BY <2>1, <2>2 DEF Those, Word
<1> HIDE DEF said
<1>5. said \in Seq(BlockType \ Those({"result"}))
  BY <1>1, <1>4, Narrowed
<1>6. /\ OfKind(results, {"result"}) = results
      /\ OfKind(results, {"text", "image"}) = <<>>
      /\ OfKind(said, {"result"}) = <<>>
  BY <1>3, <1>5, OfKindAll, OfKindNone
<1>7. /\ OfKind(results \o said, {"result"}) = OfKind(results, {"result"}) \o OfKind(said, {"result"})
      /\ OfKind(results \o said, {"text", "image"})
           = OfKind(results, {"text", "image"}) \o OfKind(said, {"text", "image"})
  BY <1>1, OfKindConcat
<1>8. /\ results \o <<>> = results
      /\ <<>> \o OfKind(said, {"text", "image"}) = OfKind(said, {"text", "image"})
  BY <1>1, OfKindType, ConcatEmptySeq
<1> QED
  BY <1>6, <1>7, <1>8 DEF said

ResultTokens(n, l)  == [k \in 1 .. l |-> <<n, "result", k>>]
PictureTokens(n, l) == [k \in 1 .. l |-> <<n, "picture", k>>]

LEMMA TokenListsTyped ==
  ASSUME NEW n \in Nat, NEW l \in Nat
  PROVE  /\ ResultTokens(n, l) \in Seq(TokenType) /\ Len(ResultTokens(n, l)) = l
         /\ PictureTokens(n, l) \in Seq(TokenType) /\ Len(PictureTokens(n, l)) = l
<1>1. \A k \in 1 .. l : <<n, "result", k>> \in TokenType /\ <<n, "picture", k>> \in TokenType
  BY DEF TokenType
<1> DEFINE r(k) == <<n, "result", k>>
           p(k) == <<n, "picture", k>>
<1>2. ResultTokens(n, l) \in Seq(TokenType) /\ Len(ResultTokens(n, l)) = l
  <2>1. ResultTokens(n, l) = [k \in 1 .. l |-> r(k)] /\ \A k \in 1 .. l : r(k) \in TokenType
    BY <1>1 DEF ResultTokens
  <2> HIDE DEF r
  <2> QED
    BY <2>1
<1>3. PictureTokens(n, l) \in Seq(TokenType) /\ Len(PictureTokens(n, l)) = l
  <2>1. PictureTokens(n, l) = [k \in 1 .. l |-> p(k)] /\ \A k \in 1 .. l : p(k) \in TokenType
    BY <1>1 DEF PictureTokens
  <2> HIDE DEF p
  <2> QED
    BY <2>1
<1> QED
  BY <1>2, <1>3

LEMMA PicturesOfATurn ==
  ASSUME NEW n \in Nat, NEW m \in MessageType, NEW results \in Seq(BlockType),
         NEW result \in Result, OfKind(m.blocks, {"result"}) = results,
         \A k \in 1 .. Len(results) :
           /\ results[k].token = <<n, "result", k>>
           /\ results[k].picture = IF result = "text" THEN "none" ELSE result
  PROVE  Pictures(m) = IF result = "picture" THEN PictureTokens(n, Len(results)) ELSE <<>>
<1> DEFINE l == Len(results)
           pics == PictureTokens(n, l)
<1>1. /\ l \in Nat /\ DOMAIN results = 1 .. l
      /\ \A k \in 1 .. l : results[k] \in BlockType
  BY LenProperties, ElementOfSeq
<1>2. Pictures(m) = FlattenSeq(Along(Shown, results))
  BY PicturesIs
<1>3. CASE result = "picture"
  <2>1. pics \in Seq(TokenType) /\ Len(pics) = l
    BY <1>1, TokenListsTyped
  <2>2. DOMAIN pics = 1 .. l /\ \A k \in 1 .. l : pics[k] = <<n, "picture", k>>
    BY DEF PictureTokens
  <2>3. \A k \in 1 .. l : pics[k] \in TokenType
    BY <2>1, ElementOfSeq
  <2>4. ASSUME NEW k \in 1 .. l PROVE Shown[results[k]] = One[pics[k]]
    <3>1. results[k].picture = "picture" /\ results[k].token = <<n, "result", k>>
      BY <1>3
    <3>2. results[k].token[1] = n /\ results[k].token[3] = k
      BY <3>1
    <3>3. Shown[results[k]] = <<<<results[k].token[1], "picture", results[k].token[3]>>>>
      BY <1>1, <3>1 DEF Shown
    <3>4. One[pics[k]] = <<pics[k]>>
      BY <2>3, OneMaps
    <3> QED
      BY <2>2, <3>2, <3>3, <3>4
  <2> HIDE DEF pics, l
  <2>5. Along(Shown, results) = Along(One, pics)
    BY <1>1, <2>2, <2>4 DEF Along
  <2>6. FlattenSeq(Along(One, pics)) = pics
    BY <2>1, FlattenOnes
  <2> QED
    BY <1>2, <1>3, <2>5, <2>6 DEF pics, l
<1>4. CASE result # "picture"
  <2> DEFINE C == {b \in BlockType : b.picture # "picture"}
  <2>1. \A k \in 1 .. l : results[k] \in C
    BY <1>1, <1>4
  <2>2. C \in SUBSET BlockType /\ \A b \in C : Shown[b] = <<>>
    BY DEF Shown
  <2> HIDE DEF C
  <2>3. results \in Seq(C)
    BY <2>1, Narrowed
  <2>4. FlattenSeq(Along(Shown, results)) = <<>>
    BY <2>2, <2>3, ShownMaps, FlattenAlongNothing
  <2> QED
    BY <1>2, <1>4, <2>4
<1> QED
  BY <1>3, <1>4

\* A message of the user's that is not empty, or nothing: it says its parts.
LEMMA PartsHeard ==
  ASSUME NEW m \in MessageType
  PROVE  /\ Heard(AfterTools(m)) = Pictures(m) \o UserParts(m)
         /\ Heard(SingleOut(m)) = UserParts(m)
<1>1. Pictures(m) \o UserParts(m) \in Seq(TokenType) /\ UserParts(m) \in Seq(TokenType)
  BY PartsTyped, ConcatProperties
<1>2. ASSUME NEW parts \in Seq(TokenType), NEW role \in {"user", "system"}
      PROVE  Heard(IF parts = <<>> THEN <<>> ELSE <<Out(role, parts)>>) = parts
  <2>1. Heard(<<Out(role, parts)>>) = parts
    BY OutTyped, HeardOne, SoundOfOut
  <2> QED
    BY <2>1, HeardNothing
<1>3. Heard(AfterTools(m)) = Pictures(m) \o UserParts(m)
  <2> DEFINE parts == Pictures(m) \o UserParts(m)
  <2>1. AfterTools(m) = IF parts = <<>> THEN <<>> ELSE <<Out("user", parts)>>
    BY DEF AfterTools
  <2> HIDE DEF parts
  <2>2. parts \in Seq(TokenType)
    BY <1>1 DEF parts
  <2>3. Heard(AfterTools(m)) = parts
    BY <1>2, <2>1, <2>2
  <2> QED
    BY <2>3 DEF parts
<1>4. Heard(SingleOut(m)) = UserParts(m)
  <2> DEFINE role == IF m.role = "system" /\ ~m.plain THEN "system" ELSE "user"
  <2>1. SingleOut(m) = IF UserParts(m) = <<>> THEN <<>> ELSE <<Out(role, UserParts(m))>>
    BY DEF SingleOut
  <2>2. role \in {"user", "system"}
    OBVIOUS
  <2> HIDE DEF role
  <2> QED
    BY <1>1, <1>2, <2>1, <2>2
<1> QED
  BY <1>3, <1>4

\* The message of a turn that answers the calls of the last reply, all in one.
TurnMessage(h, n, words, result, m) ==
  /\ m \in MessageType /\ m.role = "user"
  /\ OpenIds(h) # <<>> => ~m.plain
  /\ m.blocks = ResultBlocks(n, OpenIds(h), result) \o Said(n, words)

\* The turn as it is told, before its reply.
NewTurn(h, words, result) ==
  [words |-> words, results |-> Len(OpenIds(h)), result |-> result, reply |-> NoReply]

\* What it becomes: a tool message for each result, or only what is said.
LEMMA TurnOut ==
  ASSUME NEW h \in Seq(MessageType), NEW m, NEW n \in Nat,
         NEW words \in Seq(Word), NEW result \in Result,
         TurnMessage(h, n, words, result, m)
  PROVE  /\ OfKind(m.blocks, {"result"}) = ResultBlocks(n, OpenIds(h), result)
         /\ OfKind(m.blocks, {"text", "image"}) = OfKind(Said(n, words), {"text", "image"})
         /\ OpenIds(h) # <<>> => /\ Replied(h)
                                 /\ OutOf(Append(h, m), Len(h) + 1) = ToolsOut(m) \o AfterTools(m)
         /\ OpenIds(h) = <<>> => OutOf(Append(h, m), Len(h) + 1) = SingleOut(m)
<1>0. /\ m \in MessageType /\ m.role = "user" /\ (OpenIds(h) # <<>> => ~m.plain)
      /\ m.blocks = ResultBlocks(n, OpenIds(h), result) \o Said(n, words)
  BY DEF TurnMessage
<1> DEFINE ids == OpenIds(h)
           results == ResultBlocks(n, ids, result)
           g == Append(h, m)
<1>1. ids \in Seq(IdType) /\ Len(ids) \in Nat /\ (ids # <<>> => Replied(h))
  BY OpenIdsTyped, LenProperties
<1> HIDE DEF ids
<1>2. /\ results \in Seq(BlockType) /\ Len(results) = Len(ids)
      /\ \A k \in 1 .. Len(ids) : results[k].kind = "result"
  BY <1>1, ResultBlocksTyped
<1>3. m.blocks = results \o Said(n, words)
  BY <1>0 DEF ids
<1>4. g[Len(h) + 1] = m /\ Len(h) \in Nat /\ \A i \in 1 .. Len(h) : g[i] = h[i]
  BY <1>0, AppendProperties, LenProperties
<1>5. ids # <<>> => ~m.plain
  BY <1>0 DEF ids
<1> HIDE DEF results, g
<1>6. /\ OfKind(m.blocks, {"result"}) = results
      /\ OfKind(m.blocks, {"text", "image"}) = OfKind(Said(n, words), {"text", "image"})
  BY <1>2, <1>3, BlocksOfATurn
<1>7. ASSUME ids # <<>> PROVE OutOf(g, Len(h) + 1) = ToolsOut(m) \o AfterTools(m)
  <2>1. Has(m, "result")
    <3>1. Range(results) = {b \in Range(m.blocks) : b.kind \in {"result"}}
      <4>1. m.blocks \in Seq(BlockType)
        BY <1>0 DEF MessageType
      <4> QED
        BY <1>6, <4>1, OfKindMembers
    <3>2. 1 \in DOMAIN results
      BY <1>1, <1>2, <1>7, EmptySeq, LenProperties
    <3>3. results[1] \in Range(results)
      BY <3>2 DEF Range
    <3>4. results[1] \in Range(m.blocks) /\ results[1].kind = "result"
      BY <3>1, <3>3
    <3>5. PICK k \in DOMAIN m.blocks : m.blocks[k] = results[1]
      BY <3>4 DEF Range
    <3> QED
      BY <3>4, <3>5 DEF Has
  <2>2. h # <<>> /\ h[Len(h)].role = "assistant"
    BY <1>1, <1>7 DEF Replied
  <2>3. Len(h) \in 1 .. Len(h) /\ Len(h) + 1 - 1 = Len(h) /\ Len(h) + 1 > 1
    BY <1>4, <2>2, EmptySeq
  <2>4. FollowsUp(g, Len(h) + 1)
    BY <1>0, <1>4, <1>5, <1>7, <2>1, <2>2, <2>3 DEF FollowsUp
  <2> QED
    BY <1>4, <2>4, OutOfCases
<1>8. ASSUME ids = <<>> PROVE OutOf(g, Len(h) + 1) = SingleOut(m)
  <2>1. ~Has(m, "result")
    <3>1. SUFFICES ASSUME NEW k \in DOMAIN m.blocks, m.blocks[k].kind = "result" PROVE FALSE
      BY DEF Has
    <3>2. results = <<>>
      BY <1>2, <1>8, EmptySeq
    <3>3. m.blocks = Said(n, words) /\ DOMAIN m.blocks = 1 .. Len(words)
      BY <1>3, <3>2, SaidTyped, ConcatEmptySeq, LenProperties
    <3>4. m.blocks[k].kind \in Word
      BY <3>3, SaidIsWords
    <3> QED
      BY <3>1, <3>4 DEF Word
  <2> QED
    BY <1>0, <1>4, <2>1, OutOfCases DEF FollowsUp
<1> QED
  BY <1>1, <1>6, <1>7, <1>8 DEF g, results, ids

LEMMA TurnHeard ==
  ASSUME NEW h \in Seq(MessageType), NEW m, NEW n \in Nat,
         NEW words \in Seq(Word), NEW result \in Result,
         OpenIds(h) = <<>> => result = "text",
         TurnMessage(h, n, words, result, m)
  PROVE  Heard(OutOf(Append(h, m), Len(h) + 1)) = ToldByUser(NewTurn(h, words, result), n)
<1>0. m \in MessageType
  BY DEF TurnMessage
<1> DEFINE t == NewTurn(h, words, result)
           ids == OpenIds(h)
           l == Len(ids)
           results == ResultBlocks(n, ids, result)
           o == OutOf(Append(h, m), Len(h) + 1)
           spoken == SpokenTokens(n, words)
           shown == IF result = "picture" THEN PictureTokens(n, l) ELSE <<>>
<1>1. ids \in Seq(IdType) /\ l \in Nat
  BY OpenIdsTyped, LenProperties
<1>5. ToldByUser(t, n) = (ResultTokens(n, l) \o shown) \o spoken
  BY DEF ToldByUser, ResultTokens, PictureTokens, SpokenTokens, NewTurn
<1>6. ids = <<>> => (l = 0 /\ result = "text")
  BY EmptySeq
<1>7. /\ ids # <<>> => o = ToolsOut(m) \o AfterTools(m)
      /\ ids = <<>> => o = SingleOut(m)
  BY TurnOut
<1>8. /\ OfKind(m.blocks, {"result"}) = results
      /\ OfKind(m.blocks, {"text", "image"}) = OfKind(Said(n, words), {"text", "image"})
  BY TurnOut
<1> HIDE DEF ids, t, o
<1>2. /\ results \in Seq(BlockType) /\ Len(results) = l
      /\ \A k \in 1 .. l : /\ results[k].kind = "result"
                           /\ results[k].token = <<n, "result", k>>
                           /\ results[k].picture = IF result = "text" THEN "none" ELSE result
  BY <1>1, ResultBlocksTyped
<1> HIDE DEF results
<1>9. UserParts(m) = spoken /\ spoken \in Seq(TokenType)
  BY <1>8, SpokenParts DEF UserParts
<1>10. Pictures(m) = shown
  <2>1. \A k \in 1 .. Len(results) :
          /\ results[k].token = <<n, "result", k>>
          /\ results[k].picture = IF result = "text" THEN "none" ELSE result
    BY <1>2
  <2>2. Pictures(m) = IF result = "picture" THEN PictureTokens(n, Len(results)) ELSE <<>>
    BY ONLY <1>0, <1>2, <1>8, <2>1, PicturesOfATurn, n \in Nat, result \in Result
  <2> QED
    BY <1>2, <2>2
<1> HIDE DEF spoken, shown
<1>11. shown \in Seq(TokenType)
  BY <1>0, <1>10, PartsTyped
<1>12. ResultTokens(n, l) \in Seq(TokenType) /\ Len(ResultTokens(n, l)) = l
       /\ \A k \in 1 .. l : ResultTokens(n, l)[k] = <<n, "result", k>>
  BY <1>1, TokenListsTyped DEF ResultTokens
<1>13. CASE ids # <<>>
  <2>3. ToolsOut(m) \in Seq(OutType) /\ AfterTools(m) \in Seq(OutType)
    BY <1>0, ToolsOutTyped, AfterToolsProse DEF Prose
  <2>4. Heard(ToolsOut(m)) = ResultTokens(n, l)
    <3>1. Len(ToolsOut(m)) = l
      BY <1>0, <1>2, <1>8, ToolsOutTyped
    <3>2. ASSUME NEW k \in 1 .. l
          PROVE  ToolsOut(m)[k].parts = <<ResultTokens(n, l)[k]>> /\ ToolsOut(m)[k].calls = <<>>
      <4>1. ToolsOut(m)[k].parts = <<results[k].token>> /\ ToolsOut(m)[k].calls = <<>>
        BY <1>0, <1>8, <3>1, ToolsOutTyped
      <4> QED
        BY <1>2, <1>12, <4>1
    <3> HIDE DEF l
    <3> QED
      BY <1>12, <2>3, <3>1, <3>2, HeardOneEach
  <2>5. Heard(AfterTools(m)) = shown \o spoken
    BY <1>9, <1>10, <1>0, PartsHeard
  <2>6. Heard(o) = ResultTokens(n, l) \o (shown \o spoken)
    BY <1>7, <1>13, <2>3, <2>4, <2>5, HeardConcat
  <2>7. (ResultTokens(n, l) \o shown) \o spoken = ResultTokens(n, l) \o (shown \o spoken)
    BY ONLY <1>9, <1>11, <1>12, TokensAssociate
  <2> QED
    BY <1>5, <2>6, <2>7 DEF o, t
<1>14. CASE ids = <<>>
  <2>3. Heard(o) = spoken
    BY <1>0, <1>7, <1>9, <1>14, PartsHeard
  <2>4. ResultTokens(n, l) = <<>>
    BY <1>6, <1>12, <1>14, EmptySeq
  <2>5. shown = <<>>
    BY <1>6, <1>14 DEF shown
  <2>6. (<<>> \o <<>>) \o spoken = spoken
    BY <1>9, ConcatEmptySeq
  <2> QED
    BY <1>5, <2>3, <2>4, <2>5, <2>6 DEF o, t
<1> QED
  BY <1>13, <1>14

\* After it no call is left open, and none is answered twice.
LEMMA TurnAnswered ==
  ASSUME NEW h \in Seq(MessageType), NEW m, NEW n \in Nat,
         NEW words \in Seq(Word), NEW result \in Result,
         TurnMessage(h, n, words, result, m),
         IF Replied(h) THEN AllAnsweredButTo(Converted(h)) ELSE AllAnswered(Converted(h))
  PROVE  AllAnswered(Converted(Append(h, m)))
<1>0. m \in MessageType
  BY DEF TurnMessage
<1> DEFINE ids == OpenIds(h)
           w == Converted(h)
           o == OutOf(Append(h, m), Len(h) + 1)
           tools == IF ids # <<>> THEN ToolsOut(m) ELSE <<>>
           x == IF ids # <<>> THEN AfterTools(m) ELSE SingleOut(m)
<1>1. ids \in Seq(IdType) /\ Len(ids) \in Nat /\ (ids # <<>> => Replied(h))
  BY OpenIdsTyped, LenProperties
<1>2. /\ ids # <<>> => o = ToolsOut(m) \o AfterTools(m)
      /\ ids = <<>> => o = SingleOut(m)
  BY TurnOut
<1>3. OfKind(m.blocks, {"result"}) = ResultBlocks(n, ids, result)
  BY TurnOut
<1>4. Converted(Append(h, m)) = w \o o
  BY <1>0, ConvertedAppend
<1>5. w \in Seq(OutType)
  BY ConvertedTyped
<1>6. Replied(h) => /\ w # <<>> /\ w[Len(w)] = AssistantOut(h[Len(h)])
                    /\ Len(w[Len(w)].calls) = Len(ids)
                    /\ \A k \in 1 .. Len(ids) : w[Len(w)].calls[k].id = ids[k]
  BY ConvertedBehind, CallsGoOut
<1>7. IF Replied(h) THEN AllAnsweredButTo(w) ELSE AllAnswered(w)
  OBVIOUS
<1> HIDE DEF ids, w, o
<1>8. Prose(x)
  BY <1>0, AfterToolsProse, SingleOutProse
<1>9. /\ tools \in Seq(OutType) /\ Len(tools) = Len(ids)
      /\ \A k \in 1 .. Len(tools) : tools[k].role = "tool" /\ tools[k].answers = <<ids[k]>>
  <2>1. CASE ids # <<>>
    <3>1. /\ Len(ResultBlocks(n, ids, result)) = Len(ids)
          /\ \A k \in 1 .. Len(ids) : ResultBlocks(n, ids, result)[k].id = ids[k]
      BY <1>1, ResultBlocksTyped
    <3>2. /\ ToolsOut(m) \in Seq(OutType) /\ Len(ToolsOut(m)) = Len(ids)
          /\ \A k \in 1 .. Len(ids) :
               /\ ToolsOut(m)[k].role = "tool"
               /\ ToolsOut(m)[k].answers = <<ResultBlocks(n, ids, result)[k].id>>
      BY <1>0, <1>3, <3>1, ToolsOutTyped
    <3> QED
      BY <2>1, <3>1, <3>2
  <2>2. CASE ids = <<>>
    BY <2>2, EmptySeq
  <2> QED
    BY <2>1, <2>2
<1>10. o = tools \o x
  <2>1. x \in Seq(OutType)
    BY <1>8 DEF Prose
  <2>2. <<>> \o x = x
    BY <2>1, ConcatEmptySeq
  <2> QED
    BY <1>2, <2>2
<1> HIDE DEF tools, x
<1>11. CASE Replied(h)
  <2>1. w[Len(w)].role = "assistant"
    BY <1>6, <1>11 DEF AssistantOut
  <2>2. Len(tools) = Len(w[Len(w)].calls)
    BY <1>6, <1>9, <1>11
  <2>3. \A k \in 1 .. Len(tools) :
          tools[k].role = "tool" /\ tools[k].answers = <<w[Len(w)].calls[k].id>>
    BY <1>6, <1>9, <1>11
  <2>4. AllAnswered(w \o (tools \o x))
    BY <1>5, <1>6, <1>7, <1>8, <1>9, <1>11, <2>1, <2>2, <2>3, AnsweredTools
  <2> QED
    BY <1>4, <1>10, <2>4
<1>12. CASE ~Replied(h)
  <2>1. o = x
    BY <1>1, <1>2, <1>12 DEF x
  <2>2. AllAnswered(w \o x)
    BY <1>5, <1>7, <1>8, <1>12, AnsweredProse
  <2> QED
    BY <1>4, <2>1, <2>2
<1> QED
  BY <1>11, <1>12

-----------------------------------------------------------------------------
(* A reply is heard, when the client sends it back, as it is told.         *)

CallBlocks(n, reply) ==
  [k \in 1 .. reply.calls |->
     [Block("call", <<n, "call", k>>) EXCEPT !.id = CallId(n, reply, k)]]

LEMMA CallBlocksTyped ==
  ASSUME NEW n \in Nat, NEW reply \in Replies
  PROVE  /\ CallBlocks(n, reply) \in Seq(BlockType)
         /\ Len(CallBlocks(n, reply)) = reply.calls /\ reply.calls \in Nat
         /\ \A k \in 1 .. reply.calls :
              /\ CallBlocks(n, reply)[k].kind = "call"
              /\ CallBlocks(n, reply)[k].token = <<n, "call", k>>
<1> DEFINE block(k) == [Block("call", <<n, "call", k>>) EXCEPT !.id = CallId(n, reply, k)]
<1>1. reply.calls \in Nat
  BY RepliesAssumption
<1>2. ASSUME NEW k \in 1 .. reply.calls
      PROVE  /\ block(k) \in BlockType /\ block(k).kind = "call"
             /\ block(k).token = <<n, "call", k>>
  <2>1. k \in Nat /\ <<n, "call", k>> \in TokenType
    BY <1>1 DEF TokenType
  <2>2. CallId(n, reply, k) \in IdType
    <3>1. <<n, k>> \in IdType /\ <<>> \in IdType
      BY <2>1, EmptySeq DEF IdType
    <3> QED
      BY <3>1 DEF CallId
  <2>3. block(k) = [kind |-> "call", token |-> <<n, "call", k>>, id |-> CallId(n, reply, k),
                    picture |-> "none"]
    BY DEF Block
  <2> QED
    BY <2>1, <2>2, <2>3 DEF BlockType
<1>3. CallBlocks(n, reply) = [k \in 1 .. reply.calls |-> block(k)]
  BY DEF CallBlocks
<1> HIDE DEF block
<1> QED
  BY <1>1, <1>2, <1>3

ThoughtBlocks(n, reply) == IF reply.think THEN <<Block("thinking", <<n, "think", 0>>)>> ELSE <<>>
TextBlocks(n, reply)    == IF reply.text THEN <<Block("text", <<n, "text", 0>>)>> ELSE <<>>

\* The blocks of a kind.
LEMMA ProseBlocks ==
  ASSUME NEW n \in Nat, NEW reply
  PROVE  /\ ThoughtBlocks(n, reply) \in Seq(Those({"thinking"}))
         /\ ThoughtBlocks(n, reply) \in Seq(BlockType \ Those({"text"}))
         /\ ThoughtBlocks(n, reply) \in Seq(BlockType \ Those({"call"}))
         /\ TextBlocks(n, reply) \in Seq(Those({"text"}))
         /\ TextBlocks(n, reply) \in Seq(BlockType \ Those({"thinking"}))
         /\ TextBlocks(n, reply) \in Seq(BlockType \ Those({"call"}))
         /\ Tokens(ThoughtBlocks(n, reply))
              = IF reply.think THEN <<<<n, "think", 0>>>> ELSE <<>>
         /\ Tokens(TextBlocks(n, reply))
              = IF reply.text THEN <<<<n, "text", 0>>>> ELSE <<>>
<1> DEFINE a == Block("thinking", <<n, "think", 0>>)
           b == Block("text", <<n, "text", 0>>)
<1>1. <<n, "think", 0>> \in TokenType /\ <<n, "text", 0>> \in TokenType
  BY DEF TokenType
<1>2. a \in BlockType /\ b \in BlockType
  BY <1>1, BlockTyped DEF Word
<1>3. /\ a.kind = "thinking" /\ a.token = <<n, "think", 0>>
      /\ b.kind = "text" /\ b.token = <<n, "text", 0>>
  BY DEF Block
<1>4. ThoughtBlocks(n, reply) = (IF reply.think THEN <<a>> ELSE <<>>)
      /\ TextBlocks(n, reply) = (IF reply.text THEN <<b>> ELSE <<>>)
  BY DEF ThoughtBlocks, TextBlocks
<1> HIDE DEF a, b
<1>5. /\ a \in Those({"thinking"}) /\ a \in BlockType \ Those({"text"})
      /\ a \in BlockType \ Those({"call"})
      /\ b \in Those({"text"}) /\ b \in BlockType \ Those({"thinking"})
      /\ b \in BlockType \ Those({"call"})
  BY <1>2, <1>3 DEF Those
<1>6. \A S : <<>> \in Seq(S) /\ \A x \in S : <<x>> \in Seq(S)
  BY EmptySeq
<1>7. Tokens(<<a>>) = <<<<n, "think", 0>>>> /\ Tokens(<<b>>) = <<<<n, "text", 0>>>>
      /\ Tokens(<<>>) = <<>>
  BY <1>3 DEF Tokens
<1>8. /\ ThoughtBlocks(n, reply) \in Seq(Those({"thinking"}))
      /\ ThoughtBlocks(n, reply) \in Seq(BlockType \ Those({"text"}))
      /\ ThoughtBlocks(n, reply) \in Seq(BlockType \ Those({"call"}))
  BY <1>4, <1>5, <1>6
<1>9. /\ TextBlocks(n, reply) \in Seq(Those({"text"}))
      /\ TextBlocks(n, reply) \in Seq(BlockType \ Those({"thinking"}))
      /\ TextBlocks(n, reply) \in Seq(BlockType \ Those({"call"}))
  BY <1>4, <1>5, <1>6
<1>10. /\ Tokens(ThoughtBlocks(n, reply)) = IF reply.think THEN <<<<n, "think", 0>>>> ELSE <<>>
       /\ Tokens(TextBlocks(n, reply)) = IF reply.text THEN <<<<n, "text", 0>>>> ELSE <<>>
  BY <1>4, <1>7
<1> QED
  BY <1>8, <1>9, <1>10

LEMMA ToAnthropicTyped ==
  ASSUME NEW n \in Nat, NEW reply \in Replies
  PROVE  /\ ToAnthropic(n, reply) \in MessageType
         /\ ToAnthropic(n, reply).role = "assistant"
         /\ ToAnthropic(n, reply).blocks
              = (ThoughtBlocks(n, reply) \o TextBlocks(n, reply)) \o CallBlocks(n, reply)
<1>1. ToAnthropic(n, reply)
        = Message("assistant", (ThoughtBlocks(n, reply) \o TextBlocks(n, reply)) \o CallBlocks(n, reply))
  BY DEF ToAnthropic, ThoughtBlocks, TextBlocks, CallBlocks
<1>2. Those({"thinking"}) \subseteq BlockType /\ Those({"text"}) \subseteq BlockType
  BY DEF Those
<1>3. ThoughtBlocks(n, reply) \in Seq(BlockType) /\ TextBlocks(n, reply) \in Seq(BlockType)
  BY <1>2, ProseBlocks, SeqMonotonic
<1>4. (ThoughtBlocks(n, reply) \o TextBlocks(n, reply)) \o CallBlocks(n, reply) \in Seq(BlockType)
  <2>1. ThoughtBlocks(n, reply) \o TextBlocks(n, reply) \in Seq(BlockType)
    BY <1>3, ConcatProperties
  <2> QED
    BY <2>1, CallBlocksTyped, ConcatProperties
<1> QED
  BY <1>1, <1>4 DEF Message, MessageType

LEMMA ReplyHeard ==
  ASSUME NEW n \in Nat, NEW reply \in Replies
  PROVE  Sound(AssistantOut(ToAnthropic(n, reply))) = ToldByModel(reply, n)
<1> DEFINE A == ThoughtBlocks(n, reply)
           B == TextBlocks(n, reply)
           C == CallBlocks(n, reply)
           m == ToAnthropic(n, reply)
<1>1. m.blocks = (A \o B) \o C
  BY ToAnthropicTyped
<1>2. /\ A \in Seq(BlockType) /\ B \in Seq(BlockType) /\ C \in Seq(BlockType)
  <2>1. Those({"thinking"}) \subseteq BlockType /\ Those({"text"}) \subseteq BlockType
    BY DEF Those
  <2> QED
    BY <2>1, ProseBlocks, SeqMonotonic, CallBlocksTyped
<1>3. /\ Len(C) = reply.calls /\ reply.calls \in Nat /\ DOMAIN C = 1 .. reply.calls
      /\ \A k \in 1 .. reply.calls : C[k].kind = "call" /\ C[k].token = <<n, "call", k>>
  <2>1. /\ Len(C) = reply.calls /\ reply.calls \in Nat
        /\ \A k \in 1 .. reply.calls : C[k].kind = "call" /\ C[k].token = <<n, "call", k>>
    BY CallBlocksTyped
  <2> QED
    BY <1>2, <2>1, LenProperties
<1>4. /\ OfKind(A, {"thinking"}) = A /\ OfKind(A, {"text"}) = <<>> /\ OfKind(A, {"call"}) = <<>>
      /\ OfKind(B, {"thinking"}) = <<>> /\ OfKind(B, {"text"}) = B /\ OfKind(B, {"call"}) = <<>>
  BY ProseBlocks, OfKindAll, OfKindNone
<1>5. /\ Tokens(A) = IF reply.think THEN <<<<n, "think", 0>>>> ELSE <<>>
      /\ Tokens(B) = IF reply.text THEN <<<<n, "text", 0>>>> ELSE <<>>
  BY ProseBlocks
<1> HIDE DEF A, B, C, m
<1>6. /\ OfKind(C, {"thinking"}) = <<>> /\ OfKind(C, {"text"}) = <<>> /\ OfKind(C, {"call"}) = C
  <2>1. \A k \in 1 .. reply.calls :
          /\ C[k] \in Those({"call"})
          /\ C[k] \in BlockType \ Those({"thinking"})
          /\ C[k] \in BlockType \ Those({"text"})
    <3>1. SUFFICES ASSUME NEW k \in 1 .. reply.calls
                   PROVE  /\ C[k] \in Those({"call"})
                          /\ C[k] \in BlockType \ Those({"thinking"})
                          /\ C[k] \in BlockType \ Those({"text"})
      OBVIOUS
    <3>2. C[k] \in BlockType
      BY <1>2, <1>3, ElementOfSeq
    <3> QED
      BY <1>3, <3>2 DEF Those
  <2>2. /\ C \in Seq(Those({"call"}))
        /\ C \in Seq(BlockType \ Those({"thinking"}))
        /\ C \in Seq(BlockType \ Those({"text"}))
    BY <1>2, <1>3, <2>1, Narrowed
  <2> QED
    BY <2>2, OfKindAll, OfKindNone
<1>7. ASSUME NEW kinds
      PROVE  OfKind(m.blocks, kinds) = (OfKind(A, kinds) \o OfKind(B, kinds)) \o OfKind(C, kinds)
  <2>1. A \o B \in Seq(BlockType)
    BY <1>2, ConcatProperties
  <2>2. OfKind(A \o B, kinds) = OfKind(A, kinds) \o OfKind(B, kinds)
    BY <1>2, OfKindConcat
  <2>3. OfKind((A \o B) \o C, kinds) = OfKind(A \o B, kinds) \o OfKind(C, kinds)
    BY <1>2, <2>1, OfKindConcat
  <2> QED
    BY <1>1, <2>2, <2>3
<1>8. \A s \in Seq(BlockType) : s \o <<>> = s /\ <<>> \o s = s
  BY ConcatEmptySeq
<1>9. <<>> \in Seq(BlockType)
  BY EmptySeq
<1>10. OfKind(m.blocks, {"thinking"}) = A
  <2>1. OfKind(m.blocks, {"thinking"}) = (A \o <<>>) \o <<>>
    BY <1>4, <1>6, <1>7
  <2> QED
    BY <1>2, <1>8, <2>1
<1>11. OfKind(m.blocks, {"text"}) = B
  <2>1. OfKind(m.blocks, {"text"}) = (<<>> \o B) \o <<>>
    BY <1>4, <1>6, <1>7
  <2> QED
    BY <1>2, <1>8, <2>1
<1>12. OfKind(m.blocks, {"call"}) = C
  <2>1. OfKind(m.blocks, {"call"}) = (<<>> \o <<>>) \o C
    BY <1>4, <1>6, <1>7
  <2>2. <<>> \o <<>> = <<>>
    BY <1>8, <1>9
  <2> QED
    BY <1>2, <1>8, <2>1, <2>2
<1>13. /\ AssistantOut(m).parts = Tokens(A) \o Tokens(B)
       /\ AssistantOut(m).calls = [k \in DOMAIN C |-> [token |-> C[k].token, id |-> C[k].id]]
  BY <1>10, <1>11, <1>12 DEF AssistantOut
<1>14. [k \in DOMAIN AssistantOut(m).calls |-> AssistantOut(m).calls[k].token]
         = [k \in 1 .. reply.calls |-> <<n, "call", k>>]
  <2> DEFINE calls == AssistantOut(m).calls
  <2>1. DOMAIN calls = 1 .. reply.calls
    BY <1>3, <1>13
  <2>2. \A k \in 1 .. reply.calls : calls[k].token = <<n, "call", k>>
    BY <1>3, <1>13
  <2> HIDE DEF calls
  <2>3. [k \in DOMAIN calls |-> calls[k].token] = [k \in 1 .. reply.calls |-> <<n, "call", k>>]
    BY <2>1, <2>2
  <2> QED
    BY <2>3 DEF calls
<1>15. Sound(AssistantOut(m))
         = (Tokens(A) \o Tokens(B)) \o [k \in 1 .. reply.calls |-> <<n, "call", k>>]
  BY <1>13, <1>14 DEF Sound
<1> QED
  BY <1>5, <1>15 DEF ToldByModel, m
-----------------------------------------------------------------------------
(* What is told, turn by turn.                                             *)

LEMMA ToldTyped ==
  ASSUME NEW n \in Nat, NEW t \in TurnType
  PROVE  Told(t, n) \in Seq(TokenType) /\ ToldByUser(t, n) \in Seq(TokenType)
<1>1. /\ t.words \in Seq(Word) /\ t.results \in Nat
      /\ t.reply = NoReply \/ t.reply \in Replies
  BY DEF TurnType
<1>2. <<>> \in Seq(TokenType)
  BY EmptySeq
<1>3. ToldByUser(t, n) \in Seq(TokenType)
  <2> DEFINE r == ResultTokens(n, t.results)
             p == IF t.result = "picture" THEN PictureTokens(n, t.results) ELSE <<>>
             w == SpokenTokens(n, t.words)
  <2>1. r \in Seq(TokenType) /\ p \in Seq(TokenType) /\ w \in Seq(TokenType)
    BY <1>1, <1>2, TokenListsTyped, SpokenParts
  <2>2. ToldByUser(t, n) = (r \o p) \o w
    BY DEF ToldByUser, ResultTokens, PictureTokens, SpokenTokens
  <2> HIDE DEF r, p, w
  <2> QED
    BY <2>1, <2>2, ConcatProperties
<1>4. ASSUME NEW reply \in Replies PROVE ToldByModel(reply, n) \in Seq(TokenType)
  <2> DEFINE a == IF reply.think THEN <<<<n, "think", 0>>>> ELSE <<>>
             b == IF reply.text THEN <<<<n, "text", 0>>>> ELSE <<>>
             call(k) == <<n, "call", k>>
             c == [k \in 1 .. reply.calls |-> call(k)]
  <2>1. reply.calls \in Nat
    BY RepliesAssumption
  <2>2. <<n, "think", 0>> \in TokenType /\ <<n, "text", 0>> \in TokenType
        /\ \A k \in 1 .. reply.calls : call(k) \in TokenType
    BY <2>1 DEF TokenType
  <2>3. a \in Seq(TokenType)
    <3>1. <<<<n, "think", 0>>>> \in Seq(TokenType)
      BY <2>2
    <3> QED
      BY <1>2, <3>1
  <2>4. b \in Seq(TokenType)
    <3>1. <<<<n, "text", 0>>>> \in Seq(TokenType)
      BY <2>2
    <3> QED
      BY <1>2, <3>1
  <2>5. ToldByModel(reply, n) = (a \o b) \o c
    BY DEF ToldByModel
  <2> HIDE DEF call
  <2>6. c \in Seq(TokenType)
    BY <2>1, <2>2
  <2> HIDE DEF a, b, c
  <2> QED
    BY <2>3, <2>4, <2>5, <2>6, ConcatProperties
<1>5. Told(t, n) \in Seq(TokenType)
  <2>1. CASE t.reply = NoReply
    BY <1>3, <2>1, ConcatEmptySeq DEF Told
  <2>2. CASE t.reply # NoReply
    <3>1. ToldByModel(t.reply, n) \in Seq(TokenType)
      BY <1>1, <1>4, <2>2
    <3>2. Told(t, n) = ToldByUser(t, n) \o ToldByModel(t.reply, n)
      BY <2>2 DEF Told
    <3> QED
      BY <1>3, <3>1, <3>2, ConcatProperties
  <2> QED
    BY <2>1, <2>2
<1> QED
  BY <1>3, <1>5

LEMMA AllToldEmpty == AllTold(<<>>) = <<>>
<1>1. [n \in DOMAIN <<>> |-> Told(<<>>[n], n)] = <<>>
  OBVIOUS
<1> QED
  BY <1>1, FlattenEmpty DEF AllTold

ToldList(ts) == [n \in DOMAIN ts |-> Told(ts[n], n)]

LEMMA AllToldAppend ==
  ASSUME NEW ts \in Seq(TurnType), NEW t \in TurnType
  PROVE  /\ AllTold(ts) \in Seq(TokenType)
         /\ AllTold(Append(ts, t)) = AllTold(ts) \o Told(t, Len(ts) + 1)
<1>1. ASSUME NEW s \in Seq(TurnType)
      PROVE  ToldList(s) \in Seq(Seq(TokenType)) /\ Len(ToldList(s)) = Len(s)
  <2>1. Len(s) \in Nat /\ DOMAIN s = 1 .. Len(s)
    BY LenProperties
  <2>2. \A n \in 1 .. Len(s) : n \in Nat /\ s[n] \in TurnType
    BY <2>1, ElementOfSeq
  <2>3. \A n \in 1 .. Len(s) : Told(s[n], n) \in Seq(TokenType)
    BY <2>2, ToldTyped
  <2> QED
    BY <2>1, <2>3 DEF ToldList
<1> DEFINE more == Append(ts, t)
           l == Len(ts)
<1>2. /\ l \in Nat /\ DOMAIN ts = 1 .. l
      /\ more \in Seq(TurnType) /\ Len(more) = l + 1 /\ DOMAIN more = 1 .. l + 1
      /\ more[l + 1] = t /\ \A n \in 1 .. l : more[n] = ts[n]
  <2>1. l \in Nat /\ DOMAIN ts = 1 .. l
    BY LenProperties
  <2>2. /\ more \in Seq(TurnType) /\ Len(more) = l + 1
        /\ more[l + 1] = t /\ \A n \in 1 .. l : more[n] = ts[n]
    BY AppendProperties
  <2>3. DOMAIN more = 1 .. Len(more)
    BY <2>2, LenProperties
  <2> QED
    BY <2>1, <2>2, <2>3
<1> HIDE DEF more
<1>3. /\ ToldList(ts) \in Seq(Seq(TokenType)) /\ Len(ToldList(ts)) = l
      /\ ToldList(more) \in Seq(Seq(TokenType)) /\ Len(ToldList(more)) = l + 1
  BY <1>1, <1>2
<1>4. \A n \in 1 .. l : ToldList(more)[n] = ToldList(ts)[n]
  <2>1. SUFFICES ASSUME NEW n \in 1 .. l PROVE ToldList(more)[n] = ToldList(ts)[n]
    OBVIOUS
  <2>2. n \in 1 .. l + 1
    BY <1>2
  <2> QED
    BY <1>2, <2>2 DEF ToldList
<1>5. ToldList(more)[l + 1] = Told(t, l + 1) /\ Told(t, l + 1) \in Seq(TokenType)
  <2>1. l + 1 \in 1 .. l + 1 /\ l + 1 \in Nat
    BY <1>2
  <2> QED
    BY <1>2, <2>1, ToldTyped DEF ToldList
<1> HIDE DEF l
<1>6. ToldList(more) = Append(ToldList(ts), Told(t, l + 1))
  BY <1>2, <1>3, <1>4, <1>5, GrowsByOne
<1>7. FlattenSeq(ToldList(more)) = FlattenSeq(ToldList(ts)) \o Told(t, l + 1)
  BY <1>3, <1>5, <1>6, FlattenAppend
<1>8. FlattenSeq(ToldList(ts)) \in Seq(TokenType)
  BY <1>3, FlattenType
<1> QED
  BY <1>7, <1>8 DEF AllTold, ToldList, more, l

\* A reply adds to the last turn what the model says.
LEMMA AllToldReply ==
  ASSUME NEW ts \in Seq(TurnType), ts # <<>>, ts[Len(ts)].reply = NoReply, NEW reply \in Replies
  PROVE  /\ [ts EXCEPT ![Len(ts)].reply = reply] \in Seq(TurnType)
         /\ AllTold([ts EXCEPT ![Len(ts)].reply = reply])
              = AllTold(ts) \o ToldByModel(reply, Len(ts))
<1>1. PICK front \in Seq(TurnType), t \in TurnType : ts = Append(front, t)
  BY SequenceEmptyOrAppend
<1> DEFINE l == Len(ts)
           u == [t EXCEPT !.reply = reply]
           new == [ts EXCEPT ![l].reply = reply]
<1>2. /\ Len(front) \in Nat /\ l = Len(front) + 1 /\ ts[l] = t
      /\ \A i \in 1 .. Len(front) : ts[i] = front[i]
  BY <1>1, AppendProperties, LenProperties
<1>3. u \in TurnType /\ u.words = t.words /\ u.results = t.results /\ u.result = t.result
      /\ u.reply = reply
  BY DEF TurnType
<1>4. t.reply = NoReply /\ reply # NoReply
  BY <1>2, NoReplyAssumption
<1>5. DOMAIN ts = 1 .. l /\ l \in 1 .. l
  BY <1>2, LenProperties
<1>6. new = [ts EXCEPT ![l] = u]
  BY <1>2, <1>5
<1> HIDE DEF u
<1>7. /\ [ts EXCEPT ![l] = u] \in Seq(TurnType) /\ Len([ts EXCEPT ![l] = u]) = l
      /\ \A j \in 1 .. l : [ts EXCEPT ![l] = u][j] = IF j = l THEN u ELSE ts[j]
  BY <1>3, <1>5, ExceptSeq
<1>8. new \in Seq(TurnType) /\ Len(new) = l /\ new[l] = u
      /\ \A i \in 1 .. Len(front) : new[i] = front[i]
  BY <1>2, <1>5, <1>6, <1>7
<1> HIDE DEF new, l
<1>9. new = Append(front, u)
  BY <1>2, <1>8, GrowsByOne
<1>10. /\ AllTold(new) = AllTold(front) \o Told(u, l)
       /\ AllTold(ts) = AllTold(front) \o Told(t, l)
       /\ AllTold(front) \in Seq(TokenType)
  BY <1>1, <1>2, <1>3, <1>9, AllToldAppend
<1>11. l \in Nat
  BY <1>2
<1>12. Told(t, l) = ToldByUser(t, l) /\ Told(t, l) \in Seq(TokenType)
  <2>1. Told(t, l) = ToldByUser(t, l) \o <<>>
    BY <1>4 DEF Told
  <2> QED
    BY <1>11, <2>1, ToldTyped, ConcatEmptySeq
<1>13. Told(u, l) = Told(t, l) \o ToldByModel(reply, l)
  <2>1. ToldByUser(u, l) = ToldByUser(t, l)
    BY <1>3 DEF ToldByUser
  <2>2. Told(u, l) = ToldByUser(u, l) \o ToldByModel(reply, l)
    BY <1>3, <1>4 DEF Told
  <2> QED
    BY <1>12, <2>1, <2>2
<1>14. ToldByModel(reply, l) \in Seq(TokenType)
  <2>1. Sound(AssistantOut(ToAnthropic(l, reply))) = ToldByModel(reply, l)
    BY <1>11, ReplyHeard
  <2>2. AssistantOut(ToAnthropic(l, reply)) \in OutType
    BY <1>11, ToAnthropicTyped, AssistantOutTyped
  <2> QED
    BY <2>1, <2>2, SoundTyped
<1>15. AllTold(new) = AllTold(ts) \o ToldByModel(reply, l)
  <2>1. AllTold(front) \o (Told(t, l) \o ToldByModel(reply, l))
          = (AllTold(front) \o Told(t, l)) \o ToldByModel(reply, l)
    BY ONLY <1>10, <1>12, <1>14, TokensAssociate
  <2> QED
    BY <1>10, <1>13, <2>1
<1> QED
  BY <1>8, <1>15 DEF new, l
-----------------------------------------------------------------------------
(* The inductive invariant.                                                *)

LEMMA UserMessages ==
  ASSUME NEW h \in Seq(MessageType), NEW n \in Nat, NEW words \in Seq(Word), NEW result \in Result
  PROVE  \A style \in Style :
           (style = "one" \/ OpenIds(h) = <<>>) =>
             \E m : /\ TurnMessage(h, n, words, result, m)
                    /\ Continuation(n, style, ResultBlocks(n, OpenIds(h), result), Said(n, words))
                         = <<m>>
<1> DEFINE ids == OpenIds(h)
           results == ResultBlocks(n, ids, result)
           said == Said(n, words)
           m == Message("user", results \o said)
<1>1. SUFFICES ASSUME NEW style \in Style, style = "one" \/ ids = <<>>
               PROVE  /\ TurnMessage(h, n, words, result, m)
                      /\ Continuation(n, style, results, said) = <<m>>
  OBVIOUS
<1>2. ids \in Seq(IdType) /\ said \in Seq(BlockType)
  BY OpenIdsTyped, SaidTyped
<1>3. results \in Seq(BlockType) /\ Len(results) = Len(ids)
  <2> HIDE DEF ids
  <2> QED
    BY ONLY <1>2, ResultBlocksTyped, n \in Nat, result \in Result
<1>4. TurnMessage(h, n, words, result, m)
  <2>1. results \o said \in Seq(BlockType)
    BY <1>2, <1>3, ConcatProperties
  <2>2. m.role = "user" /\ ~m.plain /\ m.blocks = results \o said
    BY DEF Message
  <2>3. m \in MessageType
    BY <2>1 DEF Message, MessageType
  <2> HIDE DEF m
  <2> QED
    BY <2>2, <2>3 DEF TurnMessage
<1>5. Continuation(n, style, results, said) = <<m>>
  <2>1. CASE results = <<>>
    <3>1. results \o said = said
      BY <1>2, <2>1, ConcatEmptySeq
    <3>2. Continuation(n, style, results, said) = <<Message("user", said)>>
      BY <2>1 DEF Continuation
    <3> QED
      BY <3>1, <3>2
  <2>2. CASE results # <<>>
    <3>1. ids # <<>>
      BY <1>2, <1>3, <2>2, EmptySeq
    <3>2. style = "one"
      BY <1>1, <3>1
    <3> HIDE DEF results, said
    <3> QED
      BY <2>2, <3>2 DEF Continuation
  <2> QED
    BY <2>1, <2>2
<1> QED
  BY <1>4, <1>5

LEMMA PlainMessage ==
  ASSUME NEW h \in Seq(MessageType), NEW n \in Nat, NEW words \in Seq(Word), NEW result \in Result,
         Len(words) = 1
  PROVE  LET m == Plain("user", words[1], <<n, "say", 1>>)
         IN  /\ m \in MessageType /\ m.role = "user"
             /\ OpenIds(h) = <<>> => TurnMessage(h, n, words, result, m)
<1> DEFINE m == Plain("user", words[1], <<n, "say", 1>>)
           b == Block(words[1], <<n, "say", 1>>)
<1>1. words[1] \in Word
  <2>1. 1 \in 1 .. Len(words)
    OBVIOUS
  <2> HIDE DEF m, b
  <2> QED
    BY <2>1, ElementOfSeq
<1>2. b \in BlockType
  <2>1. <<n, "say", 1>> \in TokenType
    BY DEF TokenType
  <2> QED
    BY <1>1, <2>1, BlockTyped
<1>4. Said(n, words) = <<b>>
  <2>1. /\ Said(n, words) \in Seq(BlockType) /\ Len(Said(n, words)) = 1
        /\ Said(n, words)[1] = b
    <3>1. 1 \in 1 .. Len(words)
      OBVIOUS
    <3>2. Said(n, words)[1] = Block(words[1], <<n, "say", 1>>)
      BY <3>1, SaidTyped
    <3>3. Said(n, words) \in Seq(BlockType) /\ Len(Said(n, words)) = Len(words)
      BY SaidTyped
    <3> QED
      BY <3>2, <3>3
  <2> HIDE DEF b
  <2>2. <<b>> \in Seq(BlockType) /\ Len(<<b>>) = 1 /\ <<b>>[1] = b
    BY <1>2
  <2>3. \A i \in 1 .. 1 : Said(n, words)[i] = <<b>>[i]
    BY <2>1, <2>2
  <2> QED
    BY <2>1, <2>2, <2>3, SeqEqual
<1>5. ResultBlocks(n, <<>>, result) = <<>>
  BY DEF ResultBlocks
<1>6. m = [role |-> "user", plain |-> TRUE, blocks |-> <<b>>]
  BY DEF Plain
<1> HIDE DEF b, m
<1>7. m \in MessageType /\ m.role = "user"
  BY <1>2, <1>6 DEF MessageType
<1>8. <<>> \o <<b>> = <<b>>
  BY <1>2, ConcatEmptySeq
<1>9. OpenIds(h) = <<>> => TurnMessage(h, n, words, result, m)
  BY <1>4, <1>5, <1>6, <1>7, <1>8 DEF TurnMessage
<1> QED
  BY <1>7, <1>9 DEF m

\* A conversation to which messages are added of which the last is the user's.
LEMMA UserLast ==
  ASSUME NEW h \in Seq(MessageType), NEW more \in Seq(MessageType),
         more # <<>>, more[Len(more)].role = "user"
  PROVE  /\ h \o more \in Seq(MessageType) /\ h \o more # <<>>
         /\ (h \o more)[Len(h \o more)].role = "user"
<1>1. /\ h \o more \in Seq(MessageType) /\ Len(h \o more) = Len(h) + Len(more)
      /\ \A i \in 1 .. Len(h) + Len(more) :
           (h \o more)[i] = IF i =< Len(h) THEN h[i] ELSE more[i - Len(h)]
  BY ConcatProperties
<1>2. Len(h) \in Nat /\ Len(more) \in Nat \ {0}
  BY LenProperties, EmptySeq
<1>3. Len(h) + Len(more) \in 1 .. Len(h) + Len(more) /\ Len(h) + Len(more) > Len(h)
      /\ Len(h) + Len(more) - Len(h) = Len(more)
  BY <1>2
<1> QED
  BY <1>1, <1>2, <1>3, EmptySeq

LEMMA InitInv == Init => IInv
<1> SUFFICES ASSUME Init PROVE IInv
  OBVIOUS
<1>1. history = <<>> /\ phase = "user" /\ wire = <<>> /\ turns = <<>> /\ orderly = TRUE
  BY DEF Init
<1>2. TypeOK
  BY <1>1, EmptySeq DEF TypeOK
<1>3. Unreplied
  BY <1>1 DEF Unreplied
<1>4. Sent
  <2>1. Converted(history) = <<>> /\ <<>> \in Seq(OutType)
    BY <1>1, ConvertedEmpty, EmptySeq
  <2>2. IsPrefix(<<>>, <<>>)
    BY <2>1, PrefixSelf
  <2> QED
    BY <1>1, <2>1, <2>2 DEF Sent
<1>5. Behind(wire) /\ HistoryAnswered
  <2>1. Converted(history) = <<>> /\ ~Replied(history)
    BY <1>1, ConvertedEmpty DEF Replied
  <2>2. AllAnswered(<<>>) /\ Behind(<<>>)
    BY DEF AllAnswered, Behind
  <2> QED
    BY <1>1, <2>1, <2>2 DEF HistoryAnswered
<1>6. HistoryAsTold
  <2>1. Heard(Converted(<<>>)) = <<>> /\ AllTold(<<>>) = <<>>
    BY ConvertedEmpty, HeardNothing, AllToldEmpty
  <2> QED
    BY <1>1, <2>1 DEF HistoryAsTold
<1> QED
  BY <1>2, <1>3, <1>4, <1>5, <1>6 DEF IInv

\* The user's turn.
LEMMA SayInv == ASSUME IInv, Say PROVE IInv'
<1> DEFINE n == Turn
<1>1. /\ history \in Seq(MessageType) /\ wire \in Seq(OutType) /\ turns \in Seq(TurnType)
      /\ orderly \in BOOLEAN /\ Len(turns) \in Nat /\ n = Len(turns) + 1 /\ n \in Nat
  BY LenProperties DEF IInv, TypeOK, Turn
<1>2. phase = "user" /\ phase' = "ready" /\ wire' = wire
  BY DEF Say
<1>3. PICK words \in Words, result \in Results, style \in Styles,
           ids \in Strays \cup {OpenIds(history)} :
        LET results == ResultBlocks(n, ids, result) IN
          /\ ids = <<>> => (result = "text" /\ style = "one")
          /\ \/ history' = history \o Continuation(n, style, results, Said(n, words))
             \/ /\ ids = <<>> /\ Len(words) = 1 /\ words[1] \in {"text", "blank"}
                /\ history' = history \o <<Plain("user", words[1], <<n, "say", 1>>)>>
          /\ turns' = Append(turns, [words |-> words, results |-> Len(ids),
                                     result |-> result, reply |-> NoReply])
          /\ orderly' = (orderly /\ style = "one" /\ ids = OpenIds(history))
  BY Zenon DEF Say
<1> DEFINE results == ResultBlocks(n, ids, result)
           t == [words |-> words, results |-> Len(ids), result |-> result, reply |-> NoReply]
           next == Continuation(n, style, results, Said(n, words))
           plain == Plain("user", words[1], <<n, "say", 1>>)
<1>4. /\ words \in Seq(Word) /\ result \in Result /\ style \in Style
  BY WordsAssumption, ChoicesAssumption
<1>5. /\ ids = <<>> => (result = "text" /\ style = "one")
      /\ \/ history' = history \o next
         \/ ids = <<>> /\ Len(words) = 1 /\ history' = history \o <<plain>>
      /\ turns' = Append(turns, t)
      /\ orderly' = (orderly /\ style = "one" /\ ids = OpenIds(history))
  BY <1>3
<1>6. ids \in Seq(IdType) /\ Len(ids) \in Nat
  <2>1. Strays \subseteq Seq(IdType)
    BY StraysAssumption DEF IdType
  <2>2. ids \in Seq(IdType)
    BY <1>1, <2>1, OpenIdsTyped
  <2> QED
    BY <2>2, LenProperties
<1>7. next \in Seq(MessageType) /\ next # <<>> /\ next[Len(next)].role = "user"
  <2>1. results \in Seq(BlockType) /\ Said(n, words) \in Seq(BlockType)
    BY <1>1, <1>4, <1>6, ResultBlocksTyped, SaidTyped
  <2> HIDE DEF results, n
  <2> QED
    BY <1>1, <1>4, <2>1, ContinuationTyped
<1>8. Len(words) = 1 =>
        /\ plain \in MessageType /\ plain.role = "user"
        /\ OpenIds(history) = <<>> => TurnMessage(history, n, words, result, plain)
  BY <1>1, <1>4, PlainMessage
<1>9. style = "one" /\ ids = OpenIds(history) =>
        \E m : TurnMessage(history, n, words, result, m) /\ next = <<m>>
  BY <1>1, <1>4, UserMessages
<1>10. t \in TurnType /\ t.words = words /\ t.results = Len(ids) /\ t.result = result
       /\ t.reply = NoReply
  BY <1>4, <1>6 DEF TurnType
<1> HIDE DEF next, plain, t, n
<1>11. PICK more \in Seq(MessageType) :
         more # <<>> /\ more[Len(more)].role = "user" /\ history' = history \o more
  <2>1. CASE history' = history \o next
    BY <1>7, <2>1
  <2>2. CASE ids = <<>> /\ Len(words) = 1 /\ history' = history \o <<plain>>
    <3>1. /\ <<plain>> \in Seq(MessageType) /\ <<plain>> # <<>> /\ Len(<<plain>>) = 1
          /\ <<plain>>[1] = plain /\ plain.role = "user"
      BY <1>8, <2>2
    <3> QED
      BY <2>2, <3>1
  <2> QED
    BY <1>5, <2>1, <2>2
<1>12. /\ history' \in Seq(MessageType) /\ history' # <<>>
       /\ history'[Len(history')].role = "user"
  BY <1>1, <1>11, UserLast
<1>13. turns' \in Seq(TurnType) /\ turns' # <<>> /\ turns'[Len(turns')] = t
  <2>1. turns \in Seq(TurnType) /\ t \in TurnType
    BY <1>1, <1>10
  <2>2. /\ Append(turns, t) \in Seq(TurnType) /\ Append(turns, t) # <<>>
        /\ Len(Append(turns, t)) = Len(turns) + 1 /\ Append(turns, t)[Len(turns) + 1] = t
    BY <2>1, AppendProperties
  <2> QED
    BY <1>5, <2>2
<1>14. TypeOK'
  BY <1>1, <1>2, <1>5, <1>12, <1>13 DEF TypeOK
<1>15. Unreplied'
  BY <1>10, <1>12, <1>13 DEF Unreplied
<1>16. Sent'
  <2>1. IsPrefix(wire, Converted(history))
    BY DEF IInv, Sent
  <2>2. IsPrefix(Converted(history), Converted(history'))
    BY <1>1, <1>11, <1>12, ConvertedGrows
  <2>3. IsPrefix(wire, Converted(history'))
    BY <1>1, <1>12, <2>1, <2>2, ConvertedTyped, PrefixTransitive
  <2> QED
    BY <1>2, <2>3 DEF Sent
<1>17. Behind(wire)'
  BY <1>2 DEF IInv, Behind
<1>18. ASSUME orderly'
       PROVE  \E m : TurnMessage(history, n, words, result, m) /\ history' = Append(history, m)
  <2>1. orderly /\ style = "one" /\ ids = OpenIds(history)
    BY <1>5, <1>18
  <2>2. PICK m : TurnMessage(history, n, words, result, m) /\ history' = history \o <<m>>
    <3>1. CASE history' = history \o next
      BY <1>9, <2>1, <3>1
    <3>2. CASE ids = <<>> /\ Len(words) = 1 /\ history' = history \o <<plain>>
      BY <1>8, <2>1, <3>2
    <3> QED
      BY <1>5, <3>1, <3>2
  <2>3. m \in MessageType
    BY <2>2 DEF TurnMessage
  <2> QED
    BY <1>1, <2>2, <2>3, AppendIsConcat
<1>19. HistoryAnswered'
  <2>1. SUFFICES ASSUME orderly' PROVE AllAnswered(Converted(history'))
    BY <1>12 DEF HistoryAnswered, Replied
  <2>2. PICK m : TurnMessage(history, n, words, result, m) /\ history' = Append(history, m)
    BY <1>18, <2>1
  <2>3. IF Replied(history) THEN AllAnsweredButTo(Converted(history))
                            ELSE AllAnswered(Converted(history))
    BY <1>5, <2>1 DEF IInv, HistoryAnswered
  <2>4. AllAnswered(Converted(Append(history, m)))
    BY <1>1, <1>4, <2>2, <2>3, TurnAnswered
  <2> QED
    BY <2>2, <2>4
<1>20. HistoryAsTold'
  <2>1. SUFFICES ASSUME orderly' PROVE Heard(Converted(history')) = AllTold(turns')
    BY DEF HistoryAsTold
  <2>2. orderly /\ ids = OpenIds(history)
    BY <1>5, <2>1
  <2>3. PICK m : TurnMessage(history, n, words, result, m) /\ history' = Append(history, m)
    BY <1>18, <2>1
  <2>4. m \in MessageType
    BY <2>3 DEF TurnMessage
  <2> DEFINE o == OutOf(Append(history, m), Len(history) + 1)
  <2>5. Heard(o) = ToldByUser(t, n)
    <3>1. OpenIds(history) = <<>> => result = "text"
      BY <1>5, <2>2
    <3>2. t = NewTurn(history, words, result)
      BY <2>2 DEF t, NewTurn
    <3> QED
      BY <1>1, <1>4, <2>3, <3>1, <3>2, TurnHeard
  <2>6. Converted(history') = Converted(history) \o o
    BY <1>1, <2>3, <2>4, ConvertedAppend
  <2>7. o \in Seq(OutType)
    <3>1. Append(history, m) \in Seq(MessageType) /\ Len(Append(history, m)) = Len(history) + 1
          /\ Len(history) \in Nat
      BY <1>1, <2>4, AppendProperties, LenProperties
    <3>2. Len(history) + 1 \in 1 .. Len(Append(history, m))
      BY <3>1
    <3> QED
      BY <3>1, <3>2, OutOfTyped
  <2> HIDE DEF o
  <2>8. Heard(Converted(history')) = Heard(Converted(history)) \o ToldByUser(t, n)
    BY <1>1, <2>5, <2>6, <2>7, ConvertedTyped, HeardConcat
  <2>9. Heard(Converted(history)) = AllTold(turns)
    BY <2>2 DEF IInv, HistoryAsTold
  <2>10. AllTold(turns') = AllTold(turns) \o Told(t, n)
    BY <1>1, <1>5, <1>10, AllToldAppend
  <2>11. Told(t, n) = ToldByUser(t, n)
    <3>1. Told(t, n) = ToldByUser(t, n) \o <<>>
      BY <1>10 DEF Told
    <3> QED
      BY <1>1, <1>10, <3>1, ToldTyped, ConcatEmptySeq
  <2> QED
    BY <2>8, <2>9, <2>10, <2>11
<1> QED
  BY <1>14, <1>15, <1>16, <1>17, <1>19, <1>20 DEF IInv

LEMMA SendInv == ASSUME IInv, Send PROVE IInv' /\ IsPrefix(wire, wire')
<1>1. /\ history \in Seq(MessageType) /\ wire \in Seq(OutType) /\ phase = "ready"
      /\ history' = history /\ turns' = turns /\ orderly' = orderly
  BY DEF IInv, TypeOK, Send
<1>2. \/ phase' = "refused" /\ wire' = wire
      \/ phase' = "sent" /\ wire' = Converted(history)
  BY DEF Send
<1>3. Converted(history) \in Seq(OutType)
  BY <1>1, ConvertedTyped
<1>4. IsPrefix(wire, Converted(history)) /\ IsPrefix(wire, wire)
      /\ IsPrefix(Converted(history), Converted(history))
  BY <1>1, <1>3, PrefixSelf DEF IInv, Sent
<1>5. TypeOK'
  BY <1>1, <1>2, <1>3 DEF IInv, TypeOK
<1>6. Unreplied'
  BY <1>1 DEF IInv, Unreplied
<1>7. Sent'
  BY <1>1, <1>2, <1>4 DEF Sent
<1>8. Behind(wire)'
  <2>1. Behind(wire) /\ Behind(Converted(history))
    BY <1>1, ConvertedBehind DEF IInv
  <2>2. Behind(wire')
    BY <1>2, <2>1
  <2> QED
    BY <2>2 DEF Behind
<1>9. HistoryAnswered'
  BY <1>1 DEF IInv, HistoryAnswered
<1>10. HistoryAsTold'
  BY <1>1 DEF IInv, HistoryAsTold
<1> QED
  BY <1>2, <1>4, <1>5, <1>6, <1>7, <1>8, <1>9, <1>10 DEF IInv

LEMMA ReplyInv == ASSUME IInv, Reply PROVE IInv'
<1> DEFINE n == Len(turns)
<1>1. /\ history \in Seq(MessageType) /\ wire \in Seq(OutType) /\ turns \in Seq(TurnType)
      /\ orderly \in BOOLEAN /\ n \in Nat
  BY LenProperties DEF IInv, TypeOK
<1>2. phase = "sent" /\ phase' = "user" /\ wire' = wire /\ orderly' = orderly
  BY DEF Reply
<1>3. PICK reply \in Replies : /\ history' = Append(history, ToAnthropic(n, reply))
                               /\ turns' = [turns EXCEPT ![n].reply = reply]
  BY DEF Reply
<1>4. turns # <<>> /\ turns[n].reply = NoReply
  BY <1>2 DEF IInv, Unreplied
<1> DEFINE m == ToAnthropic(n, reply)
<1>5. m \in MessageType /\ m.role = "assistant"
  BY <1>1, ToAnthropicTyped
<1>6. /\ turns' \in Seq(TurnType)
      /\ AllTold(turns') = AllTold(turns) \o ToldByModel(reply, n)
  BY <1>1, <1>3, <1>4, AllToldReply
<1>7. Sound(AssistantOut(m)) = ToldByModel(reply, n)
  BY <1>1, ReplyHeard
<1>8. history' = Append(history, m)
  BY <1>3
<1> HIDE DEF m, n
<1>9. /\ Append(history, m) \in Seq(MessageType) /\ Append(history, m)[Len(history) + 1] = m
      /\ Append(history, m) = history \o <<m>> /\ <<m>> \in Seq(MessageType)
  BY <1>1, <1>5, AppendProperties, AppendIsConcat
<1>10. TypeOK'
  BY <1>1, <1>2, <1>6, <1>8, <1>9 DEF TypeOK
<1>11. Unreplied'
  BY <1>2 DEF Unreplied
<1>12. Sent'
  <2>1. IsPrefix(wire, Converted(history))
    BY DEF IInv, Sent
  <2>2. IsPrefix(Converted(history), Converted(history'))
    BY <1>1, <1>8, <1>9, ConvertedGrows
  <2>3. history' \in Seq(MessageType)
    BY <1>8, <1>9
  <2>4. IsPrefix(wire, Converted(history'))
    BY <1>1, <2>1, <2>2, <2>3, ConvertedTyped, PrefixTransitive
  <2> QED
    BY <1>2, <2>4 DEF Sent
<1>13. Behind(wire)'
  BY <1>2 DEF IInv, Behind
<1>14. HistoryAnswered'
  <2>1. SUFFICES ASSUME orderly PROVE AllAnsweredButTo(Converted(history'))
    <3>1. history' # <<>> /\ history'[Len(history')].role = "assistant"
      BY <1>1, <1>5, <1>8, <1>9, AppendProperties, EmptySeq
    <3> QED
      BY <1>2, <3>1 DEF HistoryAnswered, Replied
  <2>2. ~Replied(history)
    BY <1>2 DEF IInv, Unreplied, Replied
  <2>3. AllAnswered(Converted(history))
    BY <2>1, <2>2 DEF IInv, HistoryAnswered
  <2>4. OutOf(Append(history, m), Len(history) + 1) = <<AssistantOut(m)>>
    BY <1>5, <1>9, OutOfCases
  <2>5. Converted(history') = Converted(history) \o <<AssistantOut(m)>>
    BY <1>1, <1>5, <1>8, <2>4, ConvertedAppend
  <2>6. AssistantOut(m) \in OutType /\ AssistantOut(m).role = "assistant"
    BY <1>5, AssistantOutTyped DEF AssistantOut
  <2> QED
    BY <1>1, <2>3, <2>5, <2>6, ConvertedTyped, AnsweredReply
<1>15. HistoryAsTold'
  <2>1. SUFFICES ASSUME orderly PROVE Heard(Converted(history')) = AllTold(turns')
    BY <1>2 DEF HistoryAsTold
  <2>2. Heard(Converted(history)) = AllTold(turns)
    BY <2>1 DEF IInv, HistoryAsTold
  <2>3. Converted(history') = Converted(history) \o <<AssistantOut(m)>>
    <3>1. OutOf(Append(history, m), Len(history) + 1) = <<AssistantOut(m)>>
      BY <1>5, <1>9, OutOfCases
    <3> QED
      BY <1>1, <1>5, <1>8, <3>1, ConvertedAppend
  <2>4. AssistantOut(m) \in OutType /\ <<AssistantOut(m)>> \in Seq(OutType)
    BY <1>5, AssistantOutTyped
  <2>5. Heard(Converted(history')) = Heard(Converted(history)) \o ToldByModel(reply, n)
    BY <1>1, <1>7, <2>3, <2>4, ConvertedTyped, HeardConcat, HeardOne
  <2> QED
    BY <1>6, <2>2, <2>5
<1> QED
  BY <1>10, <1>11, <1>12, <1>13, <1>14, <1>15 DEF IInv

LEMMA AgainInv == ASSUME IInv, GoOn \/ Resend PROVE IInv'
<1>1. /\ history' = history /\ wire' = wire /\ turns' = turns /\ orderly' = orderly
      /\ phase # "user" /\ phase' \in {"user", "ready"}
  BY DEF GoOn, Resend
<1>2. TypeOK'
  BY <1>1 DEF IInv, TypeOK
<1>3. Unreplied' /\ Sent'
  BY <1>1 DEF IInv, Unreplied, Sent
<1>4. Behind(wire)' /\ HistoryAnswered' /\ HistoryAsTold'
  BY <1>1 DEF IInv, Behind, HistoryAnswered, HistoryAsTold
<1> QED
  BY <1>2, <1>3, <1>4 DEF IInv

LEMMA StutterInv == ASSUME IInv, UNCHANGED vars PROVE IInv'
<1>1. /\ history' = history /\ wire' = wire /\ turns' = turns /\ orderly' = orderly
      /\ phase' = phase
  BY DEF vars
<1> QED
  BY <1>1 DEF IInv, TypeOK, Unreplied, Sent, Behind, HistoryAnswered, HistoryAsTold

\* The inductive invariant: the messages the client keeps become what was sent and
\* more, and a client that answers its calls in one message has what they become
\* say what was told, and answer every call but those of the last reply.
THEOREM InvCorrect == Spec => []IInv
<1>1. ASSUME IInv, [Next]_vars PROVE IInv'
  <2>1. CASE Say
    BY <1>1, <2>1, SayInv
  <2>2. CASE Send
    BY <1>1, <2>2, SendInv
  <2>3. CASE Reply
    BY <1>1, <2>3, ReplyInv
  <2>4. CASE GoOn \/ Resend
    BY <1>1, <2>4, AgainInv
  <2>5. CASE UNCHANGED vars
    BY <1>1, <2>5, StutterInv
  <2> QED
    BY <1>1, <2>1, <2>2, <2>3, <2>4, <2>5 DEF Next
<1> QED
  BY <1>1, InitInv, PTL DEF Spec

\* Every variable keeps its type, and every message sent is a message.
THEOREM TypeCorrect == Spec => []TypeOK
<1>1. IInv => TypeOK
  BY DEF IInv
<1> QED
  BY <1>1, InvCorrect, PTL

\* The tool messages that reach the gateway stand right behind an assistant's
\* message (try_handle_tool_followup), whatever results the client sends and for
\* whatever ids; and if it has answered the calls of each reply in one message,
\* there is one for each call, in order, and no other, in however many turns.
THEOREM CallsAreAnsweredSafe == Spec => []CallsAreAnswered
<1>1. IInv => CallsAreAnswered
  <2>1. SUFFICES ASSUME IInv
                 PROVE  /\ Behind(wire)
                        /\ phase = "sent" /\ orderly => AllAnswered(wire)
    BY DEF CallsAreAnswered, AllAnswered
  <2>2. Behind(wire)
    BY <2>1 DEF IInv
  <2>3. ASSUME phase = "sent", orderly PROVE AllAnswered(wire)
    <3>1. wire = Converted(history)
      BY <2>1, <2>3 DEF IInv, Sent
    <3>2. ~Replied(history)
      BY <2>1, <2>3 DEF IInv, Unreplied, Replied
    <3> QED
      BY <2>1, <2>3, <3>1, <3>2 DEF IInv, HistoryAnswered
  <2> QED
    BY <2>2, <2>3
<1> QED
  BY <1>1, InvCorrect, PTL

\* What the gateway hears is the conversation, once and in order, whatever is said,
\* called and replied (convert_claude_messages, openai_to_anthropic_response).
THEOREM HeardAsToldSafe == Spec => []HeardAsTold
<1>1. IInv => HeardAsTold
  BY DEF IInv, Sent, HistoryAsTold, HeardAsTold
<1> QED
  BY <1>1, InvCorrect, PTL

\* What a message becomes does not depend on those after it, so each request
\* begins with the one before (convert_claude_messages).
THEOREM OnlyGrowsSafe == Spec => OnlyGrows
<1>1. ASSUME IInv, [Next]_vars PROVE IsPrefix(wire, wire')
  <2>1. CASE Send
    BY <1>1, <2>1, SendInv
  <2>2. CASE ~Send
    <3>1. wire' = wire
      BY <1>1, <2>2 DEF Next, Say, Reply, GoOn, Resend, vars
    <3>2. wire \in Seq(OutType)
      BY <1>1 DEF IInv, TypeOK
    <3> QED
      BY <3>1, <3>2, PrefixSelf
  <2> QED
    BY <2>1, <2>2
<1> QED
  BY <1>1, InvCorrect, PTL DEF Spec, OnlyGrows
=============================================================================
