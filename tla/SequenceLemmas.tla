----------------------------- MODULE SequenceLemmas -----------------------------
(***************************************************************************)
(* Facts about sequences that the proofs about the relays need: induction  *)
(* over the naturals for a set, and what FlattenSeq of the community       *)
(* modules does with a sequence that grows at either end.                  *)
(***************************************************************************)
EXTENDS SequencesExt, SequenceTheorems, WellFoundedInduction, TLAPS

\* A set that holds 0 and the successor of each of its naturals holds them all.
LEMMA NatSetInduction ==
  ASSUME NEW S, 0 \in S, \A n \in Nat : n \in S => n + 1 \in S
  PROVE  Nat \subseteq S
  <1> DEFINE R == OpToRel(<, Nat)
             T == Nat \ S
  <1>1. ASSUME T # {} PROVE FALSE
    <2>1. PICK x \in T : \A y \in T : ~(<<y, x>> \in R)
      <3> HIDE DEF R
      <3>1. IsWellFoundedOn(R, Nat)
        BY NatLessThanWellFounded DEF R
      <3>2. T \subseteq Nat
        OBVIOUS
      <3> HIDE DEF T
      <3> QED
        BY <1>1, <3>1, <3>2, WFMin
    <2>2. \A y \in T : ~(y < x)
      BY <2>1 DEF OpToRel
    <2>3. x # 0 /\ x - 1 \in Nat /\ x - 1 < x /\ x = (x - 1) + 1
      OBVIOUS
    <2> QED
      BY <2>2, <2>3
  <1> QED
    BY <1>1

\* Of some places of a sequence one is the last.
LEMMA LastOfPlaces ==
  ASSUME NEW n \in Nat, NEW T \in SUBSET (1..n), T # {}
  PROVE  \E k \in T : \A j \in T : j <= k
  <1> DEFINE S == {m \in Nat : \A U \in SUBSET (1..m) : U # {} => \E k \in U : \A j \in U : j <= k}
  <1>1. 0 \in S
    <2>1. 1..0 = {}
      OBVIOUS
    <2>2. \A U \in SUBSET (1..0) : U = {}
      BY <2>1
    <2> QED
      BY Zenon, <2>2
  <1>2. ASSUME NEW m \in Nat, m \in S PROVE m + 1 \in S
    <2> SUFFICES ASSUME NEW U \in SUBSET (1..(m + 1)), U # {}
                 PROVE  \E k \in U : \A j \in U : j <= k
      OBVIOUS
    <2>1. CASE m + 1 \in U
      BY <2>1
    <2>2. CASE m + 1 \notin U
      <3>1. U \in SUBSET (1..m)
        BY <2>2
      <3> QED
        BY <1>2, <3>1
    <2> QED
      BY <2>1, <2>2
  <1> HIDE DEF S
  <1>3. n \in S
    BY <1>1, <1>2, NatSetInduction
  <1> QED
    BY <1>3 DEF S

\* A sequence that is not empty has a last element.
LEMMA LastElement ==
  ASSUME NEW T, NEW ss \in Seq(T), NEW n \in Nat, Len(ss) = n + 1
  PROVE  \E s \in Seq(T), e \in T : ss = Append(s, e) /\ Len(s) = n
  <1>1. ss # <<>>
    BY EmptySeq
  <1>2. PICK s \in Seq(T), e \in T : ss = Append(s, e)
    BY <1>1, SequenceEmptyOrAppend
  <1>3. Len(s) = n
    BY <1>2, AppendProperties, LenProperties
  <1> QED
    BY <1>2, <1>3

\* What the recursive function inside FlattenSeq is: the i-th value joins the
\* first i sequences.
Flattens(f, ss) ==
  f = [i \in 1..Len(ss) |-> IF i = 1 THEN ss[i] ELSE f[i - 1] \o ss[i]]

LEMMA FlattensExtends ==
  ASSUME NEW T, NEW ss \in Seq(T), NEW s \in T, NEW f, Flattens(f, ss)
  PROVE  LET t == Append(ss, s)
             g == [i \in 1..Len(t) |->
                     IF i # Len(t) THEN f[i]
                     ELSE IF Len(ss) = 0 THEN s ELSE f[Len(ss)] \o s]
         IN  Flattens(g, t)
  <1> DEFINE t == Append(ss, s)
             m == Len(ss)
             g == [i \in 1..Len(t) |->
                     IF i # Len(t) THEN f[i]
                     ELSE IF Len(ss) = 0 THEN s ELSE f[Len(ss)] \o s]
  <1>1. m \in Nat /\ Len(t) = m + 1 /\ t[m + 1] = s /\ \A i \in 1..m : t[i] = ss[i]
    BY AppendProperties, LenProperties
  <1>2. \A i \in 1..m : f[i] = IF i = 1 THEN ss[i] ELSE f[i - 1] \o ss[i]
    BY <1>1 DEF Flattens
  <1> HIDE DEF t, m
  <1>3. ASSUME NEW i \in 1..m + 1
        PROVE  g[i] = IF i = 1 THEN t[i] ELSE g[i - 1] \o t[i]
    <2>1. CASE i # m + 1
      <3>1. i \in 1..m /\ (i # 1 => i - 1 \in 1..m)
        BY <2>1, <1>1
      <3> QED
        BY <3>1, <1>1, <1>2
    <2>2. CASE i = m + 1 /\ m = 0
      BY <2>2, <1>1 DEF m
    <2>3. CASE i = m + 1 /\ m # 0
      <3>1. m \in 1..m + 1 /\ i # 1 /\ i - 1 = m
        BY <2>3, <1>1
      <3>2. g[m] = f[m]
        BY <3>1, <1>1
      <3>3. g[i] = f[m] \o s
        BY <2>3, <3>1, <1>1 DEF m
      <3> QED
        BY <2>3, <3>1, <3>2, <3>3, <1>1
    <2> QED
      BY <2>1, <2>2, <2>3
  <1> HIDE DEF g
  <1>4. g = [i \in 1..m + 1 |-> g[i]]
    BY <1>1 DEF g
  <1>5. g = [i \in 1..m + 1 |-> IF i = 1 THEN t[i] ELSE g[i - 1] \o t[i]]
    BY <1>3, <1>4
  <1> QED
    BY <1>1, <1>5 DEF Flattens, g, t

LEMMA FlattensExists ==
  ASSUME NEW T
  PROVE  \A ss \in Seq(T) : \E f : Flattens(f, ss)
  <1> DEFINE S == {n \in Nat : \A ss \in Seq(T) : Len(ss) = n => \E f : Flattens(f, ss)}
  <1>1. 0 \in S
    <2> SUFFICES ASSUME NEW ss \in Seq(T), Len(ss) = 0 PROVE \E f : Flattens(f, ss)
      OBVIOUS
    <2>1. Flattens([i \in 1..0 |-> 0], ss)
      BY DEF Flattens
    <2> QED
      BY <2>1
  <1>2. ASSUME NEW n \in Nat, n \in S PROVE n + 1 \in S
    <2> SUFFICES ASSUME NEW ss \in Seq(T), Len(ss) = n + 1 PROVE \E f : Flattens(f, ss)
      OBVIOUS
    <2>1. PICK s \in Seq(T), e \in T : ss = Append(s, e) /\ Len(s) = n
      BY LastElement
    <2>2. PICK f : Flattens(f, s)
      BY <1>2, <2>1
    <2> QED
      BY <2>1, <2>2, FlattensExtends
  <1> HIDE DEF S
  <1>3. Nat \subseteq S
    BY <1>1, <1>2, NatSetInduction
  <1> QED
    BY <1>3, LenProperties DEF S

LEMMA FlattensUnique ==
  ASSUME NEW T, NEW ss \in Seq(T), NEW f, NEW g, Flattens(f, ss), Flattens(g, ss)
  PROVE  f = g
  <1> DEFINE m == Len(ss)
             S == {n \in Nat : n \in 1..m => f[n] = g[n]}
  <1>0. m \in Nat
    BY LenProperties
  <1>1. \A i \in 1..m : f[i] = IF i = 1 THEN ss[i] ELSE f[i - 1] \o ss[i]
    BY DEF Flattens
  <1>2. \A i \in 1..m : g[i] = IF i = 1 THEN ss[i] ELSE g[i - 1] \o ss[i]
    BY DEF Flattens
  <1>3. f = [i \in 1..m |-> f[i]] /\ g = [i \in 1..m |-> g[i]]
    BY DEF Flattens
  <1> HIDE DEF m
  <1>4. 0 \in S
    OBVIOUS
  <1>5. ASSUME NEW n \in Nat, n \in S PROVE n + 1 \in S
    <2> SUFFICES ASSUME n + 1 \in 1..m PROVE f[n + 1] = g[n + 1]
      OBVIOUS
    <2>1. /\ f[n + 1] = IF n + 1 = 1 THEN ss[n + 1] ELSE f[(n + 1) - 1] \o ss[n + 1]
          /\ g[n + 1] = IF n + 1 = 1 THEN ss[n + 1] ELSE g[(n + 1) - 1] \o ss[n + 1]
      BY <1>1, <1>2
    <2>2. (n + 1) - 1 = n /\ (n + 1 # 1 => f[n] = g[n])
      BY <1>5, <1>0
    <2> QED
      BY ONLY <2>1, <2>2
  <1> HIDE DEF S
  <1>6. Nat \subseteq S
    BY <1>4, <1>5, NatSetInduction
  <1>7. \A i \in 1..m : f[i] = g[i]
    BY <1>6, <1>0 DEF S
  <1>8. [i \in 1..m |-> f[i]] = [i \in 1..m |-> g[i]]
    BY ONLY <1>7
  <1> QED
    BY ONLY <1>3, <1>8

\* FlattenSeq is what the joining function has at its end.
LEMMA FlattenIs ==
  ASSUME NEW T, NEW ss \in Seq(T), NEW f, Flattens(f, ss), ss # <<>>
  PROVE  FlattenSeq(ss) = f[Len(ss)]
  <1> DEFINE h == CHOOSE g : g = [i \in 1..Len(ss) |->
                                   IF i = 1 THEN ss[i] ELSE g[i - 1] \o ss[i]]
  <1>1. Len(ss) # 0
    BY EmptySeq
  <1>2. Flattens(h, ss)
    BY ZenonT(60) DEF Flattens
  <1>3. h = f
    <2> HIDE DEF h
    <2> QED
      BY <1>2, FlattensUnique
  <1>4. FlattenSeq(ss) = h[Len(ss)]
    BY <1>1 DEF FlattenSeq
  <1> QED
    BY ZenonT(60), <1>3, <1>4

LEMMA FlattenEmpty == FlattenSeq(<<>>) = <<>>
  BY DEF FlattenSeq

\* A sequence added at the end is joined at the end.
LEMMA FlattenAppend ==
  ASSUME NEW T, NEW ss \in Seq(Seq(T)), NEW s \in Seq(T)
  PROVE  FlattenSeq(Append(ss, s)) = FlattenSeq(ss) \o s
  <1> DEFINE t == Append(ss, s)
             m == Len(ss)
  <1>1. PICK f : Flattens(f, ss)
    BY FlattensExists
  <1> DEFINE g == [i \in 1..Len(t) |->
                     IF i # Len(t) THEN f[i]
                     ELSE IF Len(ss) = 0 THEN s ELSE f[Len(ss)] \o s]
  <1>2. Flattens(g, t)
    BY <1>1, FlattensExtends
  <1>3. t \in Seq(Seq(T)) /\ t # <<>> /\ Len(t) = m + 1 /\ m \in Nat
    BY AppendProperties, LenProperties
  <1>4. FlattenSeq(t) = g[Len(t)]
    <2> HIDE DEF g, t
    <2> QED
      BY <1>2, <1>3, FlattenIs
  <1>5. g[Len(t)] = IF m = 0 THEN s ELSE f[m] \o s
    BY <1>3
  <1>6. CASE m = 0
    <2>1. ss = <<>>
      BY <1>6, EmptySeq
    <2>2. FlattenSeq(ss) \o s = s
      BY <2>1, FlattenEmpty, ConcatEmptySeq
    <2> QED
      BY <1>4, <1>5, <1>6, <2>2
  <1>7. CASE m # 0
    <2>1. ss # <<>>
      BY <1>7, EmptySeq
    <2>2. FlattenSeq(ss) = f[m]
      BY <2>1, <1>1, FlattenIs
    <2> QED
      BY <1>4, <1>5, <1>7, <2>2
  <1> QED
    BY <1>6, <1>7

LEMMA FlattenType ==
  ASSUME NEW T
  PROVE  \A ss \in Seq(Seq(T)) : FlattenSeq(ss) \in Seq(T)
  <1> DEFINE S == {n \in Nat : \A ss \in Seq(Seq(T)) : Len(ss) = n => FlattenSeq(ss) \in Seq(T)}
  <1>1. 0 \in S
    BY FlattenEmpty, EmptySeq
  <1>2. ASSUME NEW n \in Nat, n \in S PROVE n + 1 \in S
    <2> SUFFICES ASSUME NEW ss \in Seq(Seq(T)), Len(ss) = n + 1
                 PROVE  FlattenSeq(ss) \in Seq(T)
      OBVIOUS
    <2>1. PICK s \in Seq(Seq(T)), e \in Seq(T) : ss = Append(s, e) /\ Len(s) = n
      BY LastElement
    <2>2. Len(s) = n
      BY <2>1
    <2>3. FlattenSeq(s) \in Seq(T)
      BY <1>2, <2>2
    <2>4. FlattenSeq(ss) = FlattenSeq(s) \o e
      BY <2>1, FlattenAppend
    <2> QED
      BY <2>3, <2>4, ConcatProperties
  <1> HIDE DEF S
  <1>3. Nat \subseteq S
    BY <1>1, <1>2, NatSetInduction
  <1> QED
    BY <1>3, LenProperties DEF S

\* Two sequences of sequences joined one after the other.
LEMMA FlattenConcat ==
  ASSUME NEW T, NEW rr \in Seq(Seq(T))
  PROVE  \A ss \in Seq(Seq(T)) : FlattenSeq(rr \o ss) = FlattenSeq(rr) \o FlattenSeq(ss)
  <1> DEFINE S == {n \in Nat : \A ss \in Seq(Seq(T)) : Len(ss) = n =>
                     FlattenSeq(rr \o ss) = FlattenSeq(rr) \o FlattenSeq(ss)}
  <1>1. 0 \in S
    <2> SUFFICES ASSUME NEW ss \in Seq(Seq(T)), Len(ss) = 0
                 PROVE  FlattenSeq(rr \o ss) = FlattenSeq(rr) \o FlattenSeq(ss)
      OBVIOUS
    <2>1. ss = <<>> /\ rr \o ss = rr
      BY EmptySeq, ConcatEmptySeq
    <2>2. FlattenSeq(rr) \o <<>> = FlattenSeq(rr)
      BY FlattenType, ConcatEmptySeq
    <2> QED
      BY <2>1, <2>2, FlattenEmpty
  <1>2. ASSUME NEW n \in Nat, n \in S PROVE n + 1 \in S
    <2> SUFFICES ASSUME NEW ss \in Seq(Seq(T)), Len(ss) = n + 1
                 PROVE  FlattenSeq(rr \o ss) = FlattenSeq(rr) \o FlattenSeq(ss)
      OBVIOUS
    <2>1. PICK s \in Seq(Seq(T)), e \in Seq(T) : ss = Append(s, e) /\ Len(s) = n
      BY ZenonT(60), LastElement
    <2>2. Len(s) = n
      BY <2>1
    <2>3. FlattenSeq(rr \o s) = FlattenSeq(rr) \o FlattenSeq(s)
      BY <1>2, <2>2
    <2>4. rr \o s \in Seq(Seq(T)) /\ rr \o Append(s, e) = Append(rr \o s, e)
      <3>1. rr \o s \in Seq(Seq(T)) /\ <<e>> \in Seq(Seq(T))
        BY ConcatProperties
      <3>2. Append(s, e) = s \o <<e>> /\ Append(rr \o s, e) = (rr \o s) \o <<e>>
        BY <3>1, AppendIsConcat
      <3>3. (rr \o s) \o <<e>> = rr \o (s \o <<e>>)
        BY SMTT(30), <3>1, ConcatAssociative
      <3> QED
        BY <3>1, <3>2, <3>3
    <2>5. FlattenSeq(rr \o ss) = (FlattenSeq(rr) \o FlattenSeq(s)) \o e
      BY <2>1, <2>3, <2>4, FlattenAppend
    <2>6. FlattenSeq(ss) = FlattenSeq(s) \o e
      BY <2>1, FlattenAppend
    <2>7. (FlattenSeq(rr) \o FlattenSeq(s)) \o e = FlattenSeq(rr) \o (FlattenSeq(s) \o e)
      <3>1. FlattenSeq(rr) \in Seq(T) /\ FlattenSeq(s) \in Seq(T)
        BY FlattenType
      <3> QED
        BY ONLY SMTT(30), <3>1, e \in Seq(T), ConcatAssociative
    <2> QED
      BY <2>5, <2>6, <2>7
  <1> HIDE DEF S
  <1>3. Nat \subseteq S
    BY <1>1, <1>2, NatSetInduction
  <1> QED
    BY <1>3, LenProperties DEF S

LEMMA FlattenOne ==
  ASSUME NEW T, NEW s \in Seq(T)
  PROVE  FlattenSeq(<<s>>) = s
  <1>1. <<>> \in Seq(Seq(T)) /\ Append(<<>>, s) = <<s>>
    BY EmptySeq
  <1>2. FlattenSeq(Append(<<>>, s)) = <<>> \o s
    BY <1>1, FlattenAppend, FlattenEmpty
  <1> QED
    BY <1>1, <1>2, ConcatEmptySeq

\* The first sequence, and what is left.
LEMMA FlattenHead ==
  ASSUME NEW T, NEW ss \in Seq(Seq(T)), ss # <<>>
  PROVE  FlattenSeq(ss) = Head(ss) \o FlattenSeq(Tail(ss))
  <1>1. Head(ss) \in Seq(T) /\ Tail(ss) \in Seq(Seq(T))
    BY HeadTailProperties
  <1>2. ss = <<Head(ss)>> \o Tail(ss)
    OBVIOUS
  <1>3. <<Head(ss)>> \in Seq(Seq(T))
    BY <1>1
  <1>4. FlattenSeq(<<Head(ss)>> \o Tail(ss)) = FlattenSeq(<<Head(ss)>>) \o FlattenSeq(Tail(ss))
    BY <1>1, <1>3, FlattenConcat
  <1>5. FlattenSeq(<<Head(ss)>>) = Head(ss)
    BY <1>1, FlattenOne
  <1> QED
    BY <1>2, <1>4, <1>5

\* Nothing joined to nothing is nothing.
LEMMA FlattenNothing ==
  ASSUME NEW T
  PROVE  \A ss \in Seq(Seq(T)) : (\A k \in 1..Len(ss) : ss[k] = <<>>) => FlattenSeq(ss) = <<>>
  <1> DEFINE S == {n \in Nat : \A ss \in Seq(Seq(T)) :
                     Len(ss) = n /\ (\A k \in 1..Len(ss) : ss[k] = <<>>) => FlattenSeq(ss) = <<>>}
  <1>1. 0 \in S
    BY FlattenEmpty, EmptySeq
  <1>2. ASSUME NEW n \in Nat, n \in S PROVE n + 1 \in S
    <2> SUFFICES ASSUME NEW ss \in Seq(Seq(T)), Len(ss) = n + 1,
                        \A k \in 1..Len(ss) : ss[k] = <<>>
                 PROVE  FlattenSeq(ss) = <<>>
      OBVIOUS
    <2>1. PICK s \in Seq(Seq(T)), e \in Seq(T) : ss = Append(s, e) /\ Len(s) = n
      BY ZenonT(60), LastElement
    <2>2. /\ Len(s) = n /\ n + 1 \in 1..Len(ss) /\ ss[n + 1] = e
          /\ \A k \in 1..Len(s) : s[k] = ss[k] /\ k \in 1..Len(ss)
      BY <2>1, AppendProperties, LenProperties
    <2>3. FlattenSeq(s) = <<>> /\ e = <<>>
      BY <1>2, <2>2
    <2>4. FlattenSeq(ss) = <<>> \o <<>>
      BY <2>1, <2>3, FlattenAppend
    <2> QED
      BY <2>4
  <1> HIDE DEF S
  <1>3. Nat \subseteq S
    BY <1>1, <1>2, NatSetInduction
  <1> QED
    BY <1>3, LenProperties DEF S

\* Two elements at the end are a sequence of two.
LEMMA TwoAppended ==
  ASSUME NEW T, NEW s \in Seq(T), NEW e \in T, NEW f \in T
  PROVE  (s \o <<e>>) \o <<f>> = s \o <<e, f>>
  <1>1. <<e>> \in Seq(T) /\ <<f>> \in Seq(T)
    OBVIOUS
  <1>2. <<e>> \o <<f>> = <<e, f>>
    <2>1. (<<e>> \o <<f>>) \in Seq(T) /\ Len(<<e>> \o <<f>>) = 2
          /\ (<<e>> \o <<f>>)[1] = e /\ (<<e>> \o <<f>>)[2] = f
      BY <1>1, ConcatProperties
    <2>2. <<e, f>> \in Seq(T) /\ Len(<<e, f>>) = 2 /\ <<e, f>>[1] = e /\ <<e, f>>[2] = f
      OBVIOUS
    <2>3. \A i \in 1..2 : (<<e>> \o <<f>>)[i] = <<e, f>>[i]
      BY <2>1, <2>2
    <2> QED
      BY <2>1, <2>2, <2>3, SeqEqual
  <1>3. (s \o <<e>>) \o <<f>> = s \o (<<e>> \o <<f>>)
    BY <1>1, ConcatAssociative
  <1> QED
    BY <1>2, <1>3

\* What a function makes of each element, joined in their order.
Mapped(s, f) == FlattenSeq([k \in DOMAIN s |-> f[s[k]]])

LEMMA MappedParts ==
  ASSUME NEW T, NEW U, NEW f \in [T -> Seq(U)], NEW s \in Seq(T)
  PROVE  /\ [k \in DOMAIN s |-> f[s[k]]] \in Seq(Seq(U))
         /\ Len([k \in DOMAIN s |-> f[s[k]]]) = Len(s)
  <1>1. DOMAIN s = 1..Len(s) /\ Len(s) \in Nat /\ \A k \in 1..Len(s) : s[k] \in T
    BY LenProperties, ElementOfSeq
  <1>2. [k \in DOMAIN s |-> f[s[k]]] \in [1..Len(s) -> Seq(U)]
    BY <1>1
  <1> QED
    BY <1>1, <1>2

LEMMA MappedType ==
  ASSUME NEW T, NEW U, NEW f \in [T -> Seq(U)], NEW s \in Seq(T)
  PROVE  Mapped(s, f) \in Seq(U)
  <1>1. [k \in DOMAIN s |-> f[s[k]]] \in Seq(Seq(U))
    BY ZenonT(60), MappedParts
  <1>2. FlattenSeq([k \in DOMAIN s |-> f[s[k]]]) \in Seq(U)
    BY ZenonT(60), <1>1, FlattenType
  <1> QED
    BY <1>2 DEF Mapped

LEMMA MappedEmpty ==
  ASSUME NEW f
  PROVE  Mapped(<<>>, f) = <<>>
  <1>1. [k \in DOMAIN <<>> |-> f[<<>>[k]]] = <<>>
    OBVIOUS
  <1> QED
    BY <1>1, FlattenEmpty DEF Mapped

LEMMA MappedAppend ==
  ASSUME NEW T, NEW U, NEW f \in [T -> Seq(U)], NEW s \in Seq(T), NEW e \in T
  PROVE  Mapped(Append(s, e), f) = Mapped(s, f) \o f[e]
  <1> DEFINE t == Append(s, e)
             ms == [k \in DOMAIN s |-> f[s[k]]]
             mt == [k \in DOMAIN t |-> f[t[k]]]
  <1>1. /\ t \in Seq(T) /\ Len(t) = Len(s) + 1 /\ t[Len(s) + 1] = e /\ Len(s) \in Nat
        /\ \A k \in 1..Len(s) : t[k] = s[k]
        /\ DOMAIN s = 1..Len(s) /\ DOMAIN t = 1..(Len(s) + 1)
    BY AppendProperties, LenProperties
  <1>2. ms \in Seq(Seq(U)) /\ Len(ms) = Len(s) /\ mt \in Seq(Seq(U)) /\ Len(mt) = Len(s) + 1
    <2> HIDE DEF t
    <2> QED
      BY <1>1, MappedParts
  <1>3. f[e] \in Seq(U)
    OBVIOUS
  <1>4. mt = Append(ms, f[e])
    <2>1. /\ Append(ms, f[e]) \in Seq(Seq(U)) /\ Len(Append(ms, f[e])) = Len(s) + 1
          /\ \A k \in 1..Len(s) : Append(ms, f[e])[k] = ms[k]
          /\ Append(ms, f[e])[Len(s) + 1] = f[e]
      <3> HIDE DEF ms
      <3> QED
        BY <1>2, <1>3, AppendProperties
    <2>2. ASSUME NEW k \in 1..(Len(s) + 1) PROVE mt[k] = Append(ms, f[e])[k]
      <3> HIDE DEF t
      <3>1. CASE k \in 1..Len(s)
        BY <1>1, <2>1, <3>1
      <3>2. CASE k = Len(s) + 1
        BY <1>1, <2>1, <3>2
      <3> QED
        BY <1>1, <3>1, <3>2
    <2> HIDE DEF mt, ms
    <2> QED
      BY <1>2, <2>1, <2>2, SeqEqual
  <1>5. FlattenSeq(Append(ms, f[e])) = FlattenSeq(ms) \o f[e]
    <2> HIDE DEF ms
    <2> QED
      BY <1>2, <1>3, FlattenAppend
  <1> QED
    BY <1>4, <1>5 DEF Mapped

\* What is mapped to nothing at the end of a sequence counts for nothing.
LEMMA MappedTail ==
  ASSUME NEW T, NEW U, NEW f \in [T -> Seq(U)], NEW s \in Seq(T)
  PROVE  \A n \in 0..Len(s) : (\A k \in (n + 1)..Len(s) : f[s[k]] = <<>>)
           => Mapped(SubSeq(s, 1, n), f) = Mapped(s, f)
  <1> DEFINE S == {d \in Nat : \A n \in 0..Len(s) : Len(s) - n = d
                     /\ (\A k \in (n + 1)..Len(s) : f[s[k]] = <<>>)
                     => Mapped(SubSeq(s, 1, n), f) = Mapped(s, f)}
  <1>0. Len(s) \in Nat
    BY LenProperties
  <1>1. 0 \in S
    <2>1. SubSeq(s, 1, Len(s)) = s
      OBVIOUS
    <2>2. \A n \in 0..Len(s) : Len(s) - n = 0 => n = Len(s)
      BY <1>0
    <2> QED
      BY ZenonT(60), <2>1, <2>2
  <1>2. ASSUME NEW d \in Nat, d \in S PROVE d + 1 \in S
    <2> SUFFICES ASSUME NEW n \in 0..Len(s), Len(s) - n = d + 1,
                        \A k \in (n + 1)..Len(s) : f[s[k]] = <<>>
                 PROVE  Mapped(SubSeq(s, 1, n), f) = Mapped(s, f)
      OBVIOUS
    <2>1. /\ n \in Nat /\ n + 1 \in 0..Len(s) /\ Len(s) - (n + 1) = d
          /\ n + 1 \in (n + 1)..Len(s) /\ n + 1 \in 1..Len(s)
          /\ \A k \in ((n + 1) + 1)..Len(s) : k \in (n + 1)..Len(s)
      BY <1>0
    <2>2. Mapped(SubSeq(s, 1, n + 1), f) = Mapped(s, f)
      BY <1>2, <2>1
    <2>3. /\ SubSeq(s, 1, n) \in Seq(T) /\ s[n + 1] \in T
          /\ SubSeq(s, 1, n + 1) = Append(SubSeq(s, 1, n), s[n + 1])
      <3>1. SubSeq(s, 1, n) \in Seq(T)
        BY <1>0, <2>1
      <3>2. s[n + 1] \in T
        BY <2>1, ElementOfSeq
      <3>3. SubSeq(s, 1, n + 1) = Append(SubSeq(s, 1, n), s[n + 1])
        BY SMTT(30), <1>0, <2>1, <3>2
      <3> QED
        BY <3>1, <3>2, <3>3
    <2>4. Mapped(SubSeq(s, 1, n + 1), f) = Mapped(SubSeq(s, 1, n), f) \o <<>>
      <3>1. f[s[n + 1]] = <<>>
        BY <2>1
      <3>2. ASSUME NEW r \in Seq(T), NEW e \in T
            PROVE  Mapped(Append(r, e), f) = Mapped(r, f) \o f[e]
        BY ONLY f \in [T -> Seq(U)], r \in Seq(T), e \in T, MappedAppend
      <3> QED
        BY <2>3, <3>1, <3>2
    <2>5. Mapped(SubSeq(s, 1, n), f) \o <<>> = Mapped(SubSeq(s, 1, n), f)
      BY <2>3, MappedType, ConcatEmptySeq
    <2> QED
      BY <2>2, <2>4, <2>5
  <1> HIDE DEF S
  <1>3. Nat \subseteq S
    BY <1>1, <1>2, NatSetInduction
  <1>4. ASSUME NEW n \in 0..Len(s), \A k \in (n + 1)..Len(s) : f[s[k]] = <<>>
        PROVE  Mapped(SubSeq(s, 1, n), f) = Mapped(s, f)
    <2>1. Len(s) - n \in Nat
      BY <1>0
    <2>2. Len(s) - n \in S
      BY <1>3, <2>1
    <2> QED
      BY <1>4, <2>2 DEF S
  <1> QED
    BY <1>4

\* A sequence that is not empty is its front and its last element.
LEMMA FrontAndLast ==
  ASSUME NEW T, NEW s \in Seq(T), s # <<>>
  PROVE  Front(s) \in Seq(T) /\ Last(s) \in T /\ s = Append(Front(s), Last(s)) /\ Len(s) # 0
         /\ Len(Front(s)) = Len(s) - 1
  <1>1. PICK f \in Seq(T), e \in T : s = Append(f, e)
    BY SequenceEmptyOrAppend
  <1>2. Len(f) \in Nat /\ Len(s) = Len(f) + 1 /\ s[Len(f) + 1] = e
    BY <1>1, AppendProperties, LenProperties
  <1>3. Last(s) = e
    BY <1>2 DEF Last
  <1>4. SubSeq(s, 1, Len(f)) = f
    BY <1>1, <1>2
  <1>5. Front(s) = f
    BY <1>2, <1>4 DEF Front
  <1> QED
    BY <1>1, <1>2, <1>3, <1>5

LEMMA FrontOfAppend ==
  ASSUME NEW T, NEW s \in Seq(T), NEW e \in T
  PROVE  Front(Append(s, e)) = s /\ Last(Append(s, e)) = e /\ Append(s, e) # <<>>
  <1>1. /\ Len(s) \in Nat /\ Append(s, e) \in Seq(T) /\ Len(Append(s, e)) = Len(s) + 1
        /\ Append(s, e)[Len(s) + 1] = e
    BY AppendProperties, LenProperties
  <1>2. SubSeq(Append(s, e), 1, Len(s)) = s
    OBVIOUS
  <1> QED
    BY <1>1, <1>2 DEF Front, Last

\* And three.
LEMMA ThreeAppended ==
  ASSUME NEW T, NEW s \in Seq(T), NEW d \in T, NEW e \in T, NEW f \in T
  PROVE  s \o <<d, e, f>> = Append(Append(Append(s, d), e), f)
  <1> DEFINE u == <<d, e>>
  <1>1. u \in Seq(T) /\ <<d>> \in Seq(T) /\ <<e>> \in Seq(T) /\ <<f>> \in Seq(T) /\ Len(u) = 2
        /\ u[1] = d /\ u[2] = e
    OBVIOUS
  <1>2. u \o <<f>> = <<d, e, f>>
    <2>1. /\ (u \o <<f>>) \in Seq(T) /\ Len(u \o <<f>>) = 3
          /\ (u \o <<f>>)[1] = d /\ (u \o <<f>>)[2] = e /\ (u \o <<f>>)[3] = f
      <3> DEFINE v == <<f>>
      <3>1. v \in Seq(T) /\ Len(v) = 1 /\ v[1] = f
        OBVIOUS
      <3> HIDE DEF u, v
      <3>2. /\ (u \o v) \in Seq(T) /\ Len(u \o v) = Len(u) + Len(v)
            /\ \A i \in 1..(Len(u) + Len(v)) :
                  (u \o v)[i] = IF i <= Len(u) THEN u[i] ELSE v[i - Len(u)]
        BY ONLY <1>1, <3>1, ConcatProperties
      <3>3. (u \o v)[1] = u[1] /\ (u \o v)[2] = u[2] /\ (u \o v)[3] = v[3 - 2]
        BY <1>1, <3>1, <3>2
      <3> QED
        BY <1>1, <3>1, <3>2, <3>3 DEF v
    <2>2. /\ <<d, e, f>> \in Seq(T) /\ Len(<<d, e, f>>) = 3
          /\ <<d, e, f>>[1] = d /\ <<d, e, f>>[2] = e /\ <<d, e, f>>[3] = f
      OBVIOUS
    <2> HIDE DEF u
    <2>3. \A i \in 1..3 : (u \o <<f>>)[i] = <<d, e, f>>[i]
      BY <2>1, <2>2
    <2> QED
      BY <2>1, <2>2, <2>3, SeqEqual
  <1>3. s \o u = (s \o <<d>>) \o <<e>>
    BY TwoAppended
  <1> HIDE DEF u
  <1>4. s \o (u \o <<f>>) = (s \o u) \o <<f>>
    BY <1>1, ConcatAssociative
  <1>5. s \o <<d>> = Append(s, d) /\ Append(s, d) \in Seq(T)
    BY <1>1, AppendIsConcat, AppendProperties
  <1>6. Append(s, d) \o <<e>> = Append(Append(s, d), e) /\ Append(Append(s, d), e) \in Seq(T)
    BY <1>5, AppendIsConcat, AppendProperties
  <1>7. Append(Append(s, d), e) \o <<f>> = Append(Append(Append(s, d), e), f)
    BY <1>6, AppendIsConcat
  <1> QED
    BY Zenon, <1>2, <1>3, <1>4, <1>5, <1>6, <1>7
================================================================================
