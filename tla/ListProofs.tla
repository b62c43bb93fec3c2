----------------------------- MODULE ListProofs -----------------------------
(***************************************************************************)
(* What Only keeps of a list, of two lists one after the other and of a    *)
(* list whose elements are converted, for every list.  Each fact is proved *)
(* along the list, from the least list, or natural, that is no member of   *)
(* the set of those for which it holds.                                    *)
(***************************************************************************)
EXTENDS Lists, SequencesExt, TLAPS, SequenceTheorems, FiniteSetTheorems, WellFoundedInduction

\* Elementary facts about membership and the types of sequences.
LEMMA InIsBoolean == \A x, S : (x \in S) \in BOOLEAN
OBVIOUS

LEMMA SeqOfFunction ==
    ASSUME NEW T, NEW n \in Nat, NEW s \in [1 .. n -> T]
    PROVE  s \in Seq(T)
OBVIOUS

LEMMA LeastNatural ==
    ASSUME NEW S \in SUBSET Nat, S # {}
    PROVE  \E x \in S : \A y \in S : x <= y
<1>1. PICK x \in S : \A y \in S : <<y, x>> \notin OpToRel(<, Nat)
    BY NatLessThanWellFounded, WFMin, Zenon
<1>2. OpToRel(<, Nat) = {ss \in Nat \X Nat : ss[1] < ss[2]}
    BY DEF OpToRel
<1>3. ASSUME NEW y \in S PROVE x <= y
    <2>1. x \in Nat /\ y \in Nat /\ <<y, x>> \in Nat \X Nat
        OBVIOUS
    <2>2. ~(y < x)
        BY <1>1, <1>2, <2>1
    <2> QED
        BY <2>1, <2>2
<1> QED
    BY <1>3

LEMMA NaturalInduction ==
    ASSUME NEW P, 0 \in P, \A n \in Nat : n \in P => n + 1 \in P
    PROVE  Nat \subseteq P
<1> SUFFICES ASSUME Nat \ P # {} PROVE FALSE
    OBVIOUS
<1>1. PICK x \in Nat \ P : \A y \in Nat \ P : x <= y
    <2>1. Nat \ P \in SUBSET Nat
        OBVIOUS
    <2> QED
        BY <2>1, LeastNatural
<1>2. x # 0
    BY <1>1
<1>3. x - 1 \in Nat /\ (x - 1) + 1 = x /\ ~(x <= x - 1)
    BY <1>1, <1>2
<1>4. x - 1 \in P
    BY <1>1, <1>3
<1> QED
    BY <1>1, <1>3, <1>4

\* Whole numbers have a least and, if they are bounded, a greatest.
LEMMA MinIs ==
    ASSUME NEW S \in SUBSET Nat, S # {}
    PROVE  Min(S) \in S /\ \A y \in S : Min(S) <= y
<1>1. \E x \in S : \A y \in S : x <= y
    BY LeastNatural
<1> QED
    BY <1>1 DEF Min

LEMMA GreatestNatural ==
    ASSUME NEW n \in Nat, NEW S \in SUBSET (0 .. n), S # {}
    PROVE  \E x \in S : \A y \in S : y <= x
<1> DEFINE T == {n - y : y \in S}
<1>1. T \in SUBSET Nat /\ T # {}
    <2>1. ASSUME NEW y \in S PROVE n - y \in Nat
        <3>1. y \in 0 .. n
            OBVIOUS
        <3> QED
            BY <3>1
    <2> QED
        BY <2>1
<1>2. PICK z \in T : \A y \in T : z <= y
    BY <1>1, LeastNatural
<1>3. PICK x \in S : z = n - x
    OBVIOUS
<1>4. ASSUME NEW y \in S PROVE y <= x
    <2>1. n - y \in T
        OBVIOUS
    <2>2. z <= n - y
        BY <1>2, <2>1
    <2>3. x \in 0 .. n /\ y \in 0 .. n
        OBVIOUS
    <2> QED
        BY <1>3, <2>2, <2>3
<1> QED
    BY <1>4

LEMMA MaxIs ==
    ASSUME NEW n \in Nat, NEW S \in SUBSET (0 .. n), S # {}
    PROVE  Max(S) \in S /\ \A y \in S : y <= Max(S)
<1>1. \E x \in S : \A y \in S : y <= x
    BY GreatestNatural
<1> QED
    BY <1>1 DEF Max

LEMMA ListInduction ==
    ASSUME NEW T, NEW P, <<>> \in P,
           \A s \in Seq(T), x \in T : s \in P => Append(s, x) \in P
    PROVE  Seq(T) \subseteq P
<1> DEFINE N == {n \in Nat : \A s \in Seq(T) : Len(s) = n => s \in P}
<1>1. 0 \in N
    BY EmptySeq
<1>2. ASSUME NEW n \in Nat, n \in N PROVE n + 1 \in N
    <2> SUFFICES ASSUME NEW s \in Seq(T), Len(s) = n + 1 PROVE s \in P
        OBVIOUS
    <2>1. s # <<>>
        OBVIOUS
    <2>2. PICK t \in Seq(T), x \in T : s = Append(t, x)
        BY <2>1, SequenceEmptyOrAppend
    <2>3. Len(t) = n
        BY <2>2
    <2> QED
        BY <1>2, <2>2, <2>3
<1>3. Nat \subseteq N
    <2> HIDE DEF N
    <2> QED
        BY <1>1, <1>2, NaturalInduction
<1> QED
    <2> SUFFICES ASSUME NEW s \in Seq(T) PROVE s \in P
        OBVIOUS
    <2>1. Len(s) \in Nat
        OBVIOUS
    <2> QED
        BY <1>3, <2>1

-----------------------------------------------------------------------------
(* The recursion of Only has a solution, so its function is one.           *)
Step(f, s, S, i) ==
    IF i = 0 THEN <<>>
    ELSE IF s[i] \in S THEN Append(f[i - 1], s[i]) ELSE f[i - 1]

UpTo(s, S) == CHOOSE f : f = [i \in 0 .. Len(s) |-> Step(f, s, S, i)]

LEMMA OnlyIsUpTo ==
    ASSUME NEW s, NEW S
    PROVE  Only(s, S) = UpTo(s, S)[Len(s)]
BY DEF Only, UpTo, Step

LEMMA UpToExists ==
    ASSUME NEW s, NEW S, NEW n \in Nat
    PROVE  \E f : f = [i \in 0 .. n |-> Step(f, s, S, i)]
<1> DEFINE N == {k \in Nat : \E f : f = [i \in 0 .. k |-> Step(f, s, S, i)]}
<1>1. 0 \in N
    <2> DEFINE f == [i \in 0 .. 0 |-> <<>>]
    <2>1. f = [i \in 0 .. 0 |-> Step(f, s, S, i)]
        BY DEF Step
    <2> HIDE DEF f
    <2> QED
        BY <2>1
<1>2. ASSUME NEW k \in Nat, k \in N PROVE k + 1 \in N
    <2>1. PICK f : f = [i \in 0 .. k |-> Step(f, s, S, i)]
        BY <1>2
    <2> DEFINE g == [i \in 0 .. k + 1 |-> IF i <= k THEN f[i] ELSE Step(f, s, S, i)]
    <2>2. ASSUME NEW i \in 0 .. k + 1 PROVE g[i] = Step(g, s, S, i)
        <3>1. i - 1 \in 0 .. k \/ i = 0
            OBVIOUS
        <3>2. i # 0 => g[i - 1] = f[i - 1]
            BY <3>1
        <3>3. Step(g, s, S, i) = Step(f, s, S, i)
            BY <3>2 DEF Step
        <3>4. i <= k => f[i] = Step(f, s, S, i)
            <4> SUFFICES ASSUME i <= k PROVE f[i] = Step(f, s, S, i)
                OBVIOUS
            <4>1. i \in 0 .. k
                OBVIOUS
            <4> QED
                BY <2>1, <4>1
        <3> QED
            BY <3>3, <3>4
    <2>3. g = [i \in 0 .. k + 1 |-> Step(g, s, S, i)]
        BY <2>2
    <2> HIDE DEF g
    <2> QED
        BY <2>3
<1> HIDE DEF N
<1>3. n \in N
    BY <1>1, <1>2, NaturalInduction
<1> QED
    BY <1>3 DEF N

LEMMA UpToSteps ==
    ASSUME NEW s, NEW S, Len(s) \in Nat
    PROVE  /\ UpTo(s, S)[0] = <<>>
           /\ \A i \in 1 .. Len(s) :
                UpTo(s, S)[i] = IF s[i] \in S THEN Append(UpTo(s, S)[i - 1], s[i]) ELSE UpTo(s, S)[i - 1]
<1>1. \E f : f = [i \in 0 .. Len(s) |-> Step(f, s, S, i)]
    BY UpToExists
<1>2. PICK u : u = UpTo(s, S)
    OBVIOUS
<1>3. u = [i \in 0 .. Len(s) |-> Step(u, s, S, i)]
    BY <1>1, <1>2, Zenon DEF UpTo
<1>4. u[0] = <<>>
    <2>1. 0 \in 0 .. Len(s)
        OBVIOUS
    <2> QED
        BY <1>3, <2>1 DEF Step
<1>5. ASSUME NEW i \in 1 .. Len(s)
      PROVE  u[i] = IF s[i] \in S THEN Append(u[i - 1], s[i]) ELSE u[i - 1]
    <2>1. i \in 0 .. Len(s) /\ i # 0
        OBVIOUS
    <2>2. u[i] = Step(u, s, S, i)
        BY <1>3, <2>1
    <2> QED
        BY <2>1, <2>2 DEF Step
<1> QED
    BY <1>2, <1>4, <1>5

LEMMA OnlyEmpty == ASSUME NEW S PROVE Only(<<>>, S) = <<>>
BY OnlyIsUpTo, UpToSteps

LEMMA OnlyAppend ==
    ASSUME NEW T, NEW s \in Seq(T), NEW x \in T, NEW S
    PROVE  Only(Append(s, x), S) = IF x \in S THEN Append(Only(s, S), x) ELSE Only(s, S)
<1> DEFINE t == Append(s, x)
<1>1. /\ t \in Seq(T) /\ Len(t) = Len(s) + 1 /\ Len(s) \in Nat
      /\ t[Len(s) + 1] = x /\ \A i \in 1 .. Len(s) : t[i] = s[i]
    OBVIOUS
<1>2. PICK u : u = UpTo(s, S)
    OBVIOUS
<1>3. PICK v : v = UpTo(t, S)
    OBVIOUS
<1>4. /\ u[0] = <<>>
      /\ \A i \in 1 .. Len(s) : u[i] = IF s[i] \in S THEN Append(u[i - 1], s[i]) ELSE u[i - 1]
    BY <1>1, <1>2, UpToSteps
<1> HIDE DEF t
<1>5. /\ v[0] = <<>>
      /\ \A i \in 1 .. Len(t) : v[i] = IF t[i] \in S THEN Append(v[i - 1], t[i]) ELSE v[i - 1]
    BY <1>1, <1>3, UpToSteps
<1> DEFINE N == {i \in Nat : i <= Len(s) => v[i] = u[i]}
<1>6. 0 \in N
    BY <1>4, <1>5
<1>7. ASSUME NEW i \in Nat, i \in N PROVE i + 1 \in N
    <2> SUFFICES ASSUME i + 1 <= Len(s) PROVE v[i + 1] = u[i + 1]
        OBVIOUS
    <2>1. i + 1 \in 1 .. Len(s) /\ i + 1 \in 1 .. Len(t) /\ (i + 1) - 1 = i
        BY <1>1
    <2>2. v[i] = u[i] /\ t[i + 1] = s[i + 1]
        BY <1>1, <1>7, <2>1
    <2>3. v[i + 1] = IF t[i + 1] \in S THEN Append(v[i], t[i + 1]) ELSE v[i]
        BY <1>5, <2>1
    <2>4. u[i + 1] = IF s[i + 1] \in S THEN Append(u[i], s[i + 1]) ELSE u[i]
        BY <1>4, <2>1
    <2> QED
        BY <2>2, <2>3, <2>4
<1> HIDE DEF N
<1>8. Len(s) \in N
    BY <1>1, <1>6, <1>7, NaturalInduction
<1>9. v[Len(s)] = u[Len(s)]
    BY <1>1, <1>8 DEF N
<1>10. v[Len(t)] = IF x \in S THEN Append(u[Len(s)], x) ELSE u[Len(s)]
    <2>1. Len(t) \in 1 .. Len(t) /\ Len(t) - 1 = Len(s) /\ t[Len(t)] = x
        BY <1>1
    <2>2. v[Len(t)] = IF t[Len(t)] \in S THEN Append(v[Len(t) - 1], t[Len(t)]) ELSE v[Len(t) - 1]
        BY <1>5, <2>1
    <2> QED
        BY <1>9, <2>1, <2>2
<1>11. Only(s, S) = u[Len(s)] /\ Only(t, S) = v[Len(t)]
    BY <1>2, <1>3, OnlyIsUpTo
<1> QED
    BY <1>10, <1>11 DEF t

-----------------------------------------------------------------------------
(* Append and \o as the provers take them best, by their laws only.        *)
Plus(s, x) == Append(s, x)
Joined(s, t) == s \o t

LEMMA AppendConcat ==
    ASSUME NEW T, NEW s \in Seq(T), NEW t \in Seq(T), NEW x \in T
    PROVE  Append(s \o t, x) = s \o Append(t, x)
<1>1. Append(s \o t, x) \in Seq(T) /\ s \o Append(t, x) \in Seq(T)
    OBVIOUS
<1>2. Len(Append(s \o t, x)) = Len(s \o Append(t, x))
    OBVIOUS
<1>3. \A i \in 1 .. Len(Append(s \o t, x)) : Append(s \o t, x)[i] = (s \o Append(t, x))[i]
    OBVIOUS
<1> QED
    BY <1>1, <1>2, <1>3, SeqEqual

LEMMA PlusJoined ==
    \A T : \A s, t \in Seq(T), x \in T : Plus(Joined(s, t), x) = Joined(s, Plus(t, x))
BY AppendConcat DEF Plus, Joined

\* Only elements that are in S are kept.
LEMMA OnlyTyped ==
    ASSUME NEW T, NEW s \in Seq(T), NEW S
    PROVE  Only(s, S) \in Seq(T \cap S)
<1> DEFINE P == {t \in Seq(T) : Only(t, S) \in Seq(T \cap S)}
<1>1. <<>> \in P
    BY EmptySeq, OnlyEmpty
<1>2. ASSUME NEW t \in Seq(T), NEW x \in T, t \in P PROVE Append(t, x) \in P
    <2>1. Only(t, S) \in Seq(T \cap S)
        BY <1>2
    <2>2. x \in S => Append(Only(t, S), x) \in Seq(T \cap S)
        BY <2>1
    <2>3. Append(t, x) \in Seq(T)
        OBVIOUS
    <2>4. Only(Append(t, x), S) = IF x \in S THEN Append(Only(t, S), x) ELSE Only(t, S)
        BY OnlyAppend
    <2>5. Only(Append(t, x), S) \in Seq(T \cap S)
        BY <2>1, <2>2, <2>4
    <2> QED
        BY <2>3, <2>5
<1> HIDE DEF P
<1>3. s \in P
    BY <1>1, <1>2, ListInduction
<1> QED
    BY <1>3 DEF P

\* Elements outside of the list decide nothing.
LEMMA OnlyOfElements ==
    ASSUME NEW T, NEW s \in Seq(T), NEW S, NEW R, T \cap S = T \cap R
    PROVE  Only(s, S) = Only(s, R)
<1> DEFINE P == {t \in Seq(T) : Only(t, S) = Only(t, R)}
<1>1. <<>> \in P
    BY EmptySeq, OnlyEmpty
<1>2. ASSUME NEW t \in Seq(T), NEW x \in T, t \in P PROVE Append(t, x) \in P
    <2>1. x \in S <=> x \in R
        OBVIOUS
    <2>2. Only(t, S) = Only(t, R)
        BY <1>2
    <2>3. Only(Append(t, x), S) = IF x \in S THEN Append(Only(t, S), x) ELSE Only(t, S)
        BY OnlyAppend
    <2>4. Only(Append(t, x), R) = IF x \in R THEN Append(Only(t, R), x) ELSE Only(t, R)
        BY OnlyAppend
    <2>5. Only(Append(t, x), S) = Only(Append(t, x), R)
        BY <2>1, <2>2, <2>3, <2>4
    <2> QED
        BY <2>5
<1> HIDE DEF P
<1>3. s \in P
    BY <1>1, <1>2, ListInduction
<1> QED
    BY <1>3 DEF P

LEMMA OnlyAll ==
    ASSUME NEW T, NEW s \in Seq(T), NEW S, T \subseteq S
    PROVE  Only(s, S) = s
<1> DEFINE P == {t \in Seq(T) : Only(t, S) = t}
<1>1. <<>> \in P
    BY EmptySeq, OnlyEmpty
<1>2. ASSUME NEW t \in Seq(T), NEW x \in T, t \in P PROVE Append(t, x) \in P
    BY <1>2, OnlyAppend
<1> HIDE DEF P
<1>3. s \in P
    BY <1>1, <1>2, ListInduction
<1> QED
    BY <1>3 DEF P

LEMMA OnlyNone ==
    ASSUME NEW T, NEW s \in Seq(T), NEW S, T \cap S = {}
    PROVE  Only(s, S) = <<>>
<1> DEFINE P == {t \in Seq(T) : Only(t, S) = <<>>}
<1>1. <<>> \in P
    BY EmptySeq, OnlyEmpty
<1>2. ASSUME NEW t \in Seq(T), NEW x \in T, t \in P PROVE Append(t, x) \in P
    <2>1. x \notin S
        OBVIOUS
    <2> QED
        BY <1>2, <2>1, OnlyAppend
<1> HIDE DEF P
<1>3. s \in P
    BY <1>1, <1>2, ListInduction
<1> QED
    BY <1>3 DEF P

\* What is kept of two lists is what is kept of each.
LEMMA OnlyConcat ==
    ASSUME NEW T, NEW s \in Seq(T), NEW r \in Seq(T), NEW S
    PROVE  Only(s \o r, S) = Only(s, S) \o Only(r, S)
<1> DEFINE P == {t \in Seq(T) : Only(s \o t, S) = Only(s, S) \o Only(t, S)}
<1>1. <<>> \in P
    <2>1. s \o <<>> = s
        OBVIOUS
    <2>2. Only(s, S) \in Seq(T \cap S)
        BY OnlyTyped
    <2>3. Only(s, S) \o <<>> = Only(s, S)
        BY <2>2, ConcatEmptySeq
    <2> QED
        BY <2>1, <2>3, OnlyEmpty, EmptySeq
<1>2. ASSUME NEW t \in Seq(T), NEW x \in T, t \in P PROVE Append(t, x) \in P
    <2>1. s \o t \in Seq(T) /\ s \o Append(t, x) = Append(s \o t, x)
        OBVIOUS
    <2>2. Only(s, S) \in Seq(T) /\ Only(t, S) \in Seq(T)
        <3>1. Only(s, S) \in Seq(T \cap S) /\ Only(t, S) \in Seq(T \cap S)
            BY OnlyTyped
        <3> QED
            BY <3>1
    <2>3. Only(s \o t, S) = Only(s, S) \o Only(t, S)
        BY <1>2
    <2>4. CASE x \in S
        <3>0. Only(Append(s \o t, x), S) = Append(Only(s \o t, S), x)
            BY <2>1, <2>4, OnlyAppend
        <3>1. Only(s \o Append(t, x), S) = Append(Only(s, S) \o Only(t, S), x)
            BY <2>1, <2>3, <3>0
        <3>2. Only(Append(t, x), S) = Append(Only(t, S), x)
            BY <2>4, OnlyAppend
        <3>3. Append(Only(s, S) \o Only(t, S), x) = Only(s, S) \o Append(Only(t, S), x)
            <4>1. Plus(Joined(Only(s, S), Only(t, S)), x) = Joined(Only(s, S), Plus(Only(t, S), x))
                BY <2>2, PlusJoined
            <4> QED
                BY <4>1 DEF Plus, Joined
        <3>4. Only(s \o Append(t, x), S) = Only(s, S) \o Only(Append(t, x), S)
            BY <3>1, <3>2, <3>3
        <3> QED
            BY <3>4
    <2>5. CASE x \notin S
        <3>0. Only(Append(s \o t, x), S) = Only(s \o t, S)
            BY <2>1, <2>5, OnlyAppend
        <3>1. Only(s \o Append(t, x), S) = Only(s, S) \o Only(t, S)
            BY <2>1, <2>3, <3>0
        <3>2. Only(Append(t, x), S) = Only(t, S)
            BY <2>5, OnlyAppend
        <3> QED
            BY <3>1, <3>2
    <2> QED
        BY <2>4, <2>5
<1> HIDE DEF P
<1>3. r \in P
    BY <1>1, <1>2, ListInduction
<1> QED
    BY <1>3 DEF P

LEMMA OnlyTwice ==
    ASSUME NEW T, NEW s \in Seq(T), NEW S, NEW R
    PROVE  Only(Only(s, S), R) = Only(s, S \cap R)
<1> DEFINE P == {t \in Seq(T) : Only(Only(t, S), R) = Only(t, S \cap R)}
<1>1. <<>> \in P
    BY EmptySeq, OnlyEmpty
<1>2. ASSUME NEW t \in Seq(T), NEW x \in T, t \in P PROVE Append(t, x) \in P
    <2>1. Only(t, S) \in Seq(T)
        <3>1. Only(t, S) \in Seq(T \cap S)
            BY OnlyTyped
        <3> QED
            BY <3>1
    <2>2. Only(Only(t, S), R) = Only(t, S \cap R)
        BY <1>2
    <2>3. CASE x \in S
        <3>1. Only(Append(t, x), S) = Append(Only(t, S), x)
            BY <2>3, OnlyAppend
        <3>2. Only(Append(Only(t, S), x), R)
                = IF x \in R THEN Append(Only(Only(t, S), R), x) ELSE Only(Only(t, S), R)
            BY <2>1, OnlyAppend
        <3>3. Only(Append(t, x), S \cap R)
                = IF x \in R THEN Append(Only(t, S \cap R), x) ELSE Only(t, S \cap R)
            BY <2>3, OnlyAppend
        <3>4. Only(Only(Append(t, x), S), R) = Only(Append(t, x), S \cap R)
            BY <2>2, <3>1, <3>2, <3>3
        <3> QED
            BY <3>4
    <2>4. CASE x \notin S
        <3>1. Only(Append(t, x), S) = Only(t, S)
            BY <2>4, OnlyAppend
        <3>2. Only(Append(t, x), S \cap R) = Only(t, S \cap R)
            BY <2>4, OnlyAppend
        <3> QED
            BY <2>2, <3>1, <3>2
    <2> QED
        BY <2>3, <2>4
<1> HIDE DEF P
<1>3. s \in P
    BY <1>1, <1>2, ListInduction
<1> QED
    BY <1>3 DEF P

\* A list whose elements are converted by f.
Mapped(s, f) == [i \in DOMAIN s |-> f[s[i]]]

Image(f, T) == {f[y] : y \in T}

LEMMA MappedTyped ==
    ASSUME NEW T, NEW s \in Seq(T), NEW f
    PROVE  Mapped(s, f) \in Seq(Image(f, T)) /\ Len(Mapped(s, f)) = Len(s)
BY DEF Mapped, Image

LEMMA MappedAppend ==
    ASSUME NEW T, NEW s \in Seq(T), NEW x \in T, NEW f
    PROVE  Mapped(Append(s, x), f) = Append(Mapped(s, f), f[x])
<1> DEFINE U == Image(f, T)
           a == Mapped(Append(s, x), f)
           b == Append(Mapped(s, f), f[x])
<1>1. a \in Seq(U) /\ b \in Seq(U) /\ Len(a) = Len(s) + 1 /\ Len(b) = Len(s) + 1
    <2>0. f[x] \in U
        BY DEF Image
    <2> HIDE DEF U
    <2>4. Mapped(s, f) \in Seq(U) /\ Len(Mapped(s, f)) = Len(s)
        BY MappedTyped DEF U
    <2>1. /\ Append(s, x) \in Seq(T) /\ Len(Append(s, x)) = Len(s) + 1
          /\ Mapped(s, f) \in Seq(U) /\ Len(Mapped(s, f)) = Len(s) /\ f[x] \in U
        BY <2>0, <2>4
    <2>2. Mapped(Append(s, x), f) \in Seq(U) /\ Len(Mapped(Append(s, x), f)) = Len(s) + 1
        <3>1. \A u \in Seq(T) : Mapped(u, f) \in Seq(U) /\ Len(Mapped(u, f)) = Len(u)
            BY MappedTyped DEF U
        <3> QED
            BY <2>1, <3>1
    <2>3. Append(Mapped(s, f), f[x]) \in Seq(U) /\ Len(Append(Mapped(s, f), f[x])) = Len(s) + 1
        BY <2>1
    <2> QED
        BY <2>2, <2>3
<1>2. \A i \in 1 .. Len(a) : a[i] = b[i]
    <2> SUFFICES ASSUME NEW i \in 1 .. Len(s) + 1 PROVE a[i] = b[i]
        BY <1>1
    <2>1. a[i] = f[Append(s, x)[i]]
        BY DEF Mapped
    <2>2. CASE i = Len(s) + 1
        BY <2>1, <2>2, MappedTyped
    <2>3. CASE i # Len(s) + 1
        <3>1. i \in DOMAIN s /\ Append(s, x)[i] = s[i] /\ Mapped(s, f)[i] = f[s[i]]
            BY <2>3 DEF Mapped
        <3>2. b[i] = Mapped(s, f)[i]
            BY <3>1, MappedTyped
        <3> QED
            BY <2>1, <3>1, <3>2
    <2> QED
        BY <2>2, <2>3
<1> QED
    BY <1>1, <1>2, SeqEqual

LEMMA MappedPlus ==
    ASSUME NEW T, NEW s \in Seq(T), NEW x \in T, NEW f
    PROVE  Mapped(Plus(s, x), f) = Plus(Mapped(s, f), f[x])
BY MappedAppend DEF Plus

\* A conversion that keeps elements in S in R and the others out of it may be
\* done before or after.
LEMMA OnlyMapped ==
    ASSUME NEW T, NEW s \in Seq(T), NEW f, NEW S, NEW R,
           \A x \in T : x \in S <=> f[x] \in R
    PROVE  Only(Mapped(s, f), R) = Mapped(Only(s, S), f)
<1> DEFINE P == {t \in Seq(T) : Only(Mapped(t, f), R) = Mapped(Only(t, S), f)}
<1>1. <<>> \in P
    <2>1. Mapped(<<>>, f) = <<>>
        BY DEF Mapped
    <2> QED
        BY <2>1, OnlyEmpty
<1>2. ASSUME NEW t \in Seq(T), NEW x \in T, t \in P PROVE Append(t, x) \in P
    <2>1. /\ Mapped(Append(t, x), f) = Append(Mapped(t, f), f[x])
          /\ Mapped(t, f) \in Seq(Image(f, T)) /\ f[x] \in Image(f, T)
        <3>1. f[x] \in Image(f, T)
            BY DEF Image
        <3>2. Mapped(t, f) \in Seq(Image(f, T))
            BY MappedTyped
        <3>3. Mapped(Append(t, x), f) = Append(Mapped(t, f), f[x])
            BY MappedAppend
        <3> QED
            BY <3>1, <3>2, <3>3
    <2>2. Only(t, S) \in Seq(T)
        <3>1. Only(t, S) \in Seq(T \cap S)
            BY OnlyTyped
        <3> QED
            BY <3>1, SeqMonotonic
    <2>3. Only(Mapped(t, f), R) = Mapped(Only(t, S), f)
        BY <1>2
    <2>4. Only(Append(Mapped(t, f), f[x]), R)
            = IF f[x] \in R THEN Append(Only(Mapped(t, f), R), f[x]) ELSE Only(Mapped(t, f), R)
        <3>1. PICK y \in Image(f, T) : y = f[x]
            BY <2>1
        <3>2. PICK u \in Seq(Image(f, T)) : u = Mapped(t, f)
            BY <2>1
        <3>3. Only(Append(u, y), R) = IF y \in R THEN Append(Only(u, R), y) ELSE Only(u, R)
            BY OnlyAppend
        <3> QED
            BY <3>1, <3>2, <3>3
    <2>5. CASE x \in S
        <3>1. Only(Append(t, x), S) = Append(Only(t, S), x)
            BY <2>5, OnlyAppend
        <3>2. Mapped(Append(Only(t, S), x), f) = Append(Mapped(Only(t, S), f), f[x])
            <4>1. Mapped(Plus(Only(t, S), x), f) = Plus(Mapped(Only(t, S), f), f[x])
                BY <2>2, MappedPlus
            <4> QED
                BY <4>1 DEF Plus
        <3>3. Only(Mapped(Append(t, x), f), R) = Mapped(Only(Append(t, x), S), f)
            BY <2>1, <2>3, <2>4, <2>5, <3>1, <3>2
        <3> QED
            BY <3>3
    <2>6. CASE x \notin S
        <3>1. Only(Append(t, x), S) = Only(t, S)
            BY <2>6, OnlyAppend
        <3>2. Only(Mapped(Append(t, x), f), R) = Mapped(Only(Append(t, x), S), f)
            BY <2>1, <2>3, <2>4, <2>6, <3>1
        <3> QED
            BY <3>2
    <2> QED
        BY <2>5, <2>6
<1> HIDE DEF P
<1>3. s \in P
    BY <1>1, <1>2, ListInduction
<1> QED
    BY <1>3 DEF P
-----------------------------------------------------------------------------
(* Where the elements that Only keeps come from.                           *)
Places(s, S, kept, f) ==
    /\ \A k \in 1 .. Len(kept) : f[k] \in 1 .. Len(s) /\ kept[k] = s[f[k]] /\ s[f[k]] \in S
    /\ \A j, k \in 1 .. Len(kept) : j < k => f[j] < f[k]
    /\ \A i \in 1 .. Len(s) : s[i] \in S => \E k \in 1 .. Len(kept) : f[k] = i

LEMMA OnlyEmbeds ==
    ASSUME NEW T, NEW s \in Seq(T), NEW S
    PROVE  \E f : Places(s, S, Only(s, S), f)
<1> DEFINE P == {r \in Seq(T) : \E f : Places(r, S, Only(r, S), f)}
<1>1. <<>> \in P
    <2>1. Only(<<>>, S) = <<>>
        BY OnlyEmpty
    <2>2. Places(<<>>, S, <<>>, <<>>)
        BY DEF Places
    <2> QED
        BY <2>1, <2>2, EmptySeq
<1>2. ASSUME NEW r \in Seq(T), NEW x \in T, r \in P PROVE Append(r, x) \in P
    <2>1. PICK f : Places(r, S, Only(r, S), f)
        BY <1>2
    <2>2. PICK a : a = Append(r, x)
        OBVIOUS
    <2>3. a \in Seq(T) /\ Len(a) = Len(r) + 1 /\ Len(r) \in Nat
          /\ a[Len(r) + 1] = x /\ \A i \in 1 .. Len(r) : a[i] = r[i]
        BY <2>2
    <2>4. PICK kept : kept = Only(r, S)
        OBVIOUS
    <2>5. kept \in Seq(T \cap S) /\ Len(kept) \in Nat
        BY <2>4, OnlyTyped
    <2>6. Places(r, S, kept, f)
        BY <2>1, <2>4
    <2>7. CASE x \notin S
        <3>1. Only(a, S) = kept
            BY <2>2, <2>4, <2>7, OnlyAppend
        <3>2. Places(a, S, kept, f)
            <4>1. ASSUME NEW k \in 1 .. Len(kept)
                  PROVE  f[k] \in 1 .. Len(a) /\ kept[k] = a[f[k]] /\ a[f[k]] \in S
                <5>1. f[k] \in 1 .. Len(r) /\ kept[k] = r[f[k]] /\ r[f[k]] \in S
                    BY <2>6 DEF Places
                <5> QED
                    BY <2>3, <5>1
            <4>2. ASSUME NEW i \in 1 .. Len(a), a[i] \in S
                  PROVE  \E k \in 1 .. Len(kept) : f[k] = i
                <5>1. i \in 1 .. Len(r) /\ r[i] \in S
                    BY <2>3, <2>7, <4>2
                <5> QED
                    BY <2>6, <5>1 DEF Places
            <4> QED
                BY <2>6, <4>1, <4>2 DEF Places
        <3> QED
            BY <2>2, <2>3, <3>1, <3>2
    <2>8. CASE x \in S
        <3>1. PICK more : more = Append(kept, x)
            OBVIOUS
        <3>2. Only(a, S) = more
            BY <2>2, <2>4, <2>8, <3>1, OnlyAppend
        <3>3. Len(more) = Len(kept) + 1 /\ more[Len(kept) + 1] = x
              /\ \A k \in 1 .. Len(kept) : more[k] = kept[k]
            BY <2>5, <2>8, <3>1
        <3> DEFINE g == [k \in 1 .. Len(kept) + 1 |-> IF k <= Len(kept) THEN f[k] ELSE Len(r) + 1]
        <3>4. /\ \A k \in 1 .. Len(kept) : g[k] = f[k]
              /\ g[Len(kept) + 1] = Len(r) + 1
            BY <2>5
        <3> HIDE DEF g
        <3>5. ASSUME NEW k \in 1 .. Len(more)
              PROVE  g[k] \in 1 .. Len(a) /\ more[k] = a[g[k]] /\ a[g[k]] \in S
            <4>1. CASE k \in 1 .. Len(kept)
                <5>1. f[k] \in 1 .. Len(r) /\ kept[k] = r[f[k]] /\ r[f[k]] \in S
                    BY <2>6, <4>1 DEF Places
                <5> QED
                    BY <2>3, <3>3, <3>4, <4>1, <5>1
            <4>2. CASE k = Len(kept) + 1
                BY <2>3, <2>8, <3>3, <3>4, <4>2
            <4> QED
                BY <2>5, <3>3, <4>1, <4>2
        <3>6. ASSUME NEW j \in 1 .. Len(more), NEW k \in 1 .. Len(more), j < k PROVE g[j] < g[k]
            <4>1. j \in 1 .. Len(kept) /\ (k \in 1 .. Len(kept) \/ k = Len(kept) + 1)
                BY <2>5, <3>3, <3>6
            <4>2. f[j] \in 1 .. Len(r) /\ g[j] = f[j]
                BY <2>6, <3>4, <4>1 DEF Places
            <4>3. CASE k \in 1 .. Len(kept)
                BY <2>6, <3>4, <3>6, <4>1, <4>3 DEF Places
            <4>4. CASE k = Len(kept) + 1
                BY <2>3, <3>4, <4>2, <4>4
            <4> QED
                BY <4>1, <4>3, <4>4
        <3>7. ASSUME NEW i \in 1 .. Len(a), a[i] \in S PROVE \E k \in 1 .. Len(more) : g[k] = i
            <4>1. CASE i = Len(r) + 1
                <5>1. Len(kept) + 1 \in 1 .. Len(more)
                    BY <2>5, <3>3
                <5> QED
                    BY <3>4, <4>1, <5>1
            <4>2. CASE i \in 1 .. Len(r)
                <5>1. PICK k \in 1 .. Len(kept) : f[k] = i
                    BY <2>3, <2>6, <3>7, <4>2 DEF Places
                <5>2. k \in 1 .. Len(more)
                    BY <2>5, <3>3
                <5> QED
                    BY <3>4, <5>1, <5>2
            <4> QED
                BY <2>3, <4>1, <4>2
        <3>8. Places(a, S, more, g)
            BY <3>5, <3>6, <3>7 DEF Places
        <3> QED
            BY <2>2, <2>3, <3>2, <3>8
    <2> QED
        BY <2>7, <2>8
<1> QED
    <2> HIDE DEF P
    <2>1. Seq(T) \subseteq P
        BY <1>1, <1>2, ListInduction
    <2>2. s \in P
        BY <2>1
    <2> QED
        BY <2>2 DEF P

-----------------------------------------------------------------------------
(* Sorting: every element has a place of its own, in order.                *)
StrictOrder(S, R) ==
    /\ \A x \in S : <<x, x>> \notin R
    /\ \A x, y \in S : x # y => <<x, y>> \in R \/ <<y, x>> \in R
    /\ \A x, y, z \in S : <<x, y>> \in R /\ <<y, z>> \in R => <<x, z>> \in R

Below(S, R, x) == {y \in S : <<y, x>> \in R}

LEMMA BelowGrows ==
    ASSUME NEW S, IsFiniteSet(S), NEW R, StrictOrder(S, R)
    PROVE  /\ \A x \in S : Cardinality(Below(S, R, x)) \in 0 .. Cardinality(S) - 1
           /\ \A x, y \in S : <<x, y>> \in R =>
                Cardinality(Below(S, R, x)) < Cardinality(Below(S, R, y))
<1>1. ASSUME NEW x \in S
      PROVE  /\ IsFiniteSet(Below(S, R, x) \cup {x})
             /\ Cardinality(Below(S, R, x)) \in Nat
             /\ Cardinality(Below(S, R, x) \cup {x}) = Cardinality(Below(S, R, x)) + 1
    <2>1. Below(S, R, x) \in SUBSET S /\ x \notin Below(S, R, x)
        BY DEF Below, StrictOrder
    <2>2. IsFiniteSet(Below(S, R, x))
        BY <2>1, FS_Subset
    <2> QED
        BY <2>1, <2>2, FS_AddElement, FS_CardinalityType
<1>2. ASSUME NEW x \in S PROVE Cardinality(Below(S, R, x)) \in 0 .. Cardinality(S) - 1
    <2>1. Below(S, R, x) \cup {x} \in SUBSET S
        BY DEF Below
    <2>2. Cardinality(Below(S, R, x) \cup {x}) <= Cardinality(S)
        BY <2>1, FS_Subset
    <2>3. Cardinality(S) \in Nat
        BY FS_CardinalityType
    <2>4. /\ Cardinality(Below(S, R, x)) \in Nat
          /\ Cardinality(Below(S, R, x) \cup {x}) = Cardinality(Below(S, R, x)) + 1
        BY <1>1
    <2> QED
        BY <2>2, <2>3, <2>4
<1>3. ASSUME NEW x \in S, NEW y \in S, <<x, y>> \in R
      PROVE  Cardinality(Below(S, R, x)) < Cardinality(Below(S, R, y))
    <2>1. Below(S, R, x) \cup {x} \in SUBSET Below(S, R, y)
        BY <1>3 DEF Below, StrictOrder
    <2>2. IsFiniteSet(Below(S, R, y))
        <3>1. Below(S, R, y) \in SUBSET S
            BY DEF Below
        <3> QED
            BY <3>1, FS_Subset
    <2>3. Cardinality(Below(S, R, x) \cup {x}) <= Cardinality(Below(S, R, y))
        BY <2>1, <2>2, FS_Subset
    <2>4. /\ Cardinality(Below(S, R, x)) \in Nat
          /\ Cardinality(Below(S, R, y)) \in Nat
          /\ Cardinality(Below(S, R, x) \cup {x}) = Cardinality(Below(S, R, x)) + 1
        BY <1>1
    <2> QED
        BY <2>3, <2>4
<1> QED
    BY <1>2, <1>3

Arranged(S, R, s) ==
    /\ s \in [1 .. Cardinality(S) -> S]
    /\ \A j, k \in 1 .. Cardinality(S) : j < k => <<s[j], s[k]>> \in R
    /\ \A x \in S : \E k \in 1 .. Cardinality(S) : s[k] = x

LEMMA SortedArranges ==
    ASSUME NEW S, IsFiniteSet(S), NEW R, StrictOrder(S, R)
    PROVE  Arranged(S, R, Sorted(S, R))
<1> DEFINE n == Cardinality(S)
           rank == [x \in S |-> Cardinality(Below(S, R, x)) + 1]
<1>1. n \in Nat
    BY FS_CardinalityType
<1>2. ASSUME NEW x \in S, NEW y \in S, rank[x] = rank[y] PROVE x = y
    <2>1. /\ Cardinality(Below(S, R, x)) = Cardinality(Below(S, R, y))
          /\ Cardinality(Below(S, R, x)) \in Int
        BY <1>2, BelowGrows, <1>1
    <2>2. <<x, y>> \notin R /\ <<y, x>> \notin R
        BY <2>1, BelowGrows
    <2> QED
        BY <2>2 DEF StrictOrder
<1>3. rank \in Injection(S, 1 .. n)
    <2>1. rank \in [S -> 1 .. n]
        BY <1>1, BelowGrows
    <2> QED
        BY <1>2, <2>1 DEF Injection, IsInjective
<1>4. rank \in Surjection(S, 1 .. n)
    <2>1. IsFiniteSet(1 .. n) /\ Cardinality(1 .. n) = n
        BY <1>1, FS_Interval
    <2> HIDE DEF rank
    <2> QED
        BY <1>3, <2>1, FS_Injection
<1>5. \A k \in 1 .. n : \E x \in S : Cardinality(Below(S, R, x)) = k - 1
    <2> TAKE k \in 1 .. n
    <2>1. PICK x \in S : rank[x] = k
        BY <1>4 DEF Surjection
    <2>2. Cardinality(Below(S, R, x)) \in Int
        BY <1>1, BelowGrows
    <2> QED
        BY <1>1, <2>1, <2>2
<1> DEFINE s == Sorted(S, R)
<1>6. \A k \in 1 .. n : s[k] \in S /\ Cardinality(Below(S, R, s[k])) = k - 1
    <2> TAKE k \in 1 .. n
    <2>1. s[k] = CHOOSE x \in S : Cardinality(Below(S, R, x)) = k - 1
        BY DEF Sorted, Below
    <2> HIDE DEF s
    <2> QED
        BY <1>5, <2>1
<1>7. s \in [1 .. n -> S]
    <2>1. s = [k \in 1 .. n |-> CHOOSE x \in S : Cardinality({y \in S : <<y, x>> \in R}) = k - 1]
        BY DEF Sorted
    <2> HIDE DEF s
    <2> QED
        BY <1>6, <2>1
<1> HIDE DEF s
<1>8. ASSUME NEW j \in 1 .. n, NEW k \in 1 .. n, j < k PROVE <<s[j], s[k]>> \in R
    <2>1. Cardinality(Below(S, R, s[j])) = j - 1 /\ Cardinality(Below(S, R, s[k])) = k - 1
        BY <1>6
    <2>2. ~(Cardinality(Below(S, R, s[k])) < Cardinality(Below(S, R, s[j])))
          /\ s[j] # s[k]
        BY <1>1, <1>8, <2>1
    <2>3. <<s[k], s[j]>> \notin R
        BY <1>6, <2>2, BelowGrows
    <2> QED
        BY <1>6, <2>2, <2>3 DEF StrictOrder
<1>9. ASSUME NEW x \in S PROVE \E k \in 1 .. n : s[k] = x
    <2> DEFINE k == Cardinality(Below(S, R, x)) + 1
    <2>1. k \in 1 .. n /\ Cardinality(Below(S, R, x)) \in Int
        BY <1>1, BelowGrows
    <2>2. Cardinality(Below(S, R, s[k])) = k - 1 /\ s[k] \in S
        BY <1>6, <2>1
    <2>3. rank[s[k]] = rank[x]
        BY <2>1, <2>2
    <2>4. s[k] = x
        BY <1>2, <2>2, <2>3
    <2> QED
        BY <2>1, <2>4
<1>10. /\ Sorted(S, R) \in [1 .. Cardinality(S) -> S]
       /\ \A j, k \in 1 .. Cardinality(S) : j < k => <<Sorted(S, R)[j], Sorted(S, R)[k]>> \in R
       /\ \A x \in S : \E k \in 1 .. Cardinality(S) : Sorted(S, R)[k] = x
    BY <1>7, <1>8, <1>9 DEF s
<1> QED
    BY <1>10 DEF Arranged

-----------------------------------------------------------------------------
(* From neighbours to all pairs, and pairs that are kept.                  *)
LEMMA StepsAscend ==
    ASSUME NEW n \in Nat, NEW x \in [1 .. n -> Nat], \A i \in 2 .. n : x[i - 1] <= x[i]
    PROVE  \A i, j \in 1 .. n : i <= j => x[i] <= x[j]
<1> DEFINE P == {m \in Nat : \A i \in 1 .. n : i + m \in 1 .. n => x[i] <= x[i + m]}
<1>1. 0 \in P
    OBVIOUS
<1>2. ASSUME NEW m \in Nat, m \in P PROVE m + 1 \in P
    <2>1. ASSUME NEW i \in 1 .. n, i + (m + 1) \in 1 .. n PROVE x[i] <= x[i + (m + 1)]
        <3> DEFINE k == i + m
        <3>1. k \in 1 .. n /\ k + 1 \in 2 .. n /\ (k + 1) - 1 = k /\ i + (m + 1) = k + 1
              /\ k + 1 \in 1 .. n
            BY <2>1
        <3>2. x[i] <= x[k]
            BY <1>2, <3>1
        <3> HIDE DEF k
        <3>3. x[k] <= x[k + 1]
            BY <3>1
        <3>4. x[i] \in Nat /\ x[k] \in Nat /\ x[k + 1] \in Nat
            BY <3>1
        <3>5. x[i] <= x[k + 1]
            BY <3>2, <3>3, <3>4
        <3> QED
            BY <3>1, <3>5
    <2> QED
        BY <2>1
<1> HIDE DEF P
<1>3. Nat \subseteq P
    BY <1>1, <1>2, NaturalInduction
<1>4. ASSUME NEW i \in 1 .. n, NEW j \in 1 .. n, i <= j PROVE x[i] <= x[j]
    <2>1. j - i \in Nat /\ i + (j - i) = j
        BY <1>4
    <2>2. j - i \in P
        BY <1>3, <2>1
    <2> QED
        BY <2>1, <2>2 DEF P
<1> QED
    BY <1>4

LEMMA OnlyPairs ==
    ASSUME NEW T, NEW s \in Seq(T), NEW S, NEW R,
           \A i, j \in 1 .. Len(s) : i < j => <<s[i], s[j]>> \in R
    PROVE  \A i, j \in 1 .. Len(Only(s, S)) : i < j => <<Only(s, S)[i], Only(s, S)[j]>> \in R
<1>1. PICK f : Places(s, S, Only(s, S), f)
    BY OnlyEmbeds
<1> DEFINE kept == Only(s, S)
<1> HIDE DEF kept
<1>2. ASSUME NEW i \in 1 .. Len(kept), NEW j \in 1 .. Len(kept), i < j PROVE <<kept[i], kept[j]>> \in R
    <2>1. /\ f[i] \in 1 .. Len(s) /\ f[j] \in 1 .. Len(s) /\ f[i] < f[j]
          /\ kept[i] = s[f[i]] /\ kept[j] = s[f[j]]
        BY <1>1, <1>2 DEF Places, kept
    <2> QED
        BY <2>1
<1> QED
    BY <1>2 DEF kept

LEMMA OnlyMembers ==
    ASSUME NEW T, NEW s \in Seq(T), NEW S
    PROVE  \A k \in 1 .. Len(Only(s, S)) :
              Only(s, S)[k] \in S /\ \E i \in 1 .. Len(s) : Only(s, S)[k] = s[i]
<1>1. PICK f : Places(s, S, Only(s, S), f)
    BY OnlyEmbeds
<1> QED
    BY <1>1 DEF Places

\* An element after one that is kept, if it is to be kept too, is next.
LEMMA NextKept ==
    ASSUME NEW T, NEW s \in Seq(T), NEW S, NEW f, Places(s, S, Only(s, S), f),
           NEW k \in 2 .. Len(Only(s, S)), f[k - 1] + 1 \in 1 .. Len(s), s[f[k - 1] + 1] \in S
    PROVE  f[k] = f[k - 1] + 1
<1> DEFINE kept == Only(s, S)
<1>1. Len(kept) \in Nat /\ Len(s) \in Nat
    BY OnlyTyped
<1> HIDE DEF kept
<1>2. /\ \A l \in 1 .. Len(kept) : f[l] \in 1 .. Len(s)
      /\ \A i, j \in 1 .. Len(kept) : i < j => f[i] < f[j]
    BY DEF Places, kept
<1>3. PICK l \in 1 .. Len(kept) : f[l] = f[k - 1] + 1
    BY DEF Places, kept
<1>4. k \in 1 .. Len(kept) /\ k - 1 \in 1 .. Len(kept) /\ k - 1 < k
    BY <1>1 DEF kept
<1>5. f[k - 1] < f[k] /\ f[k] \in Int /\ f[k - 1] \in Int
    BY <1>2, <1>4
<1>6. ~(l < k)
    <2>1. ASSUME l < k PROVE FALSE
        <3>1. l = k - 1 \/ l < k - 1
            BY <1>1, <1>4, <2>1
        <3>2. l < k - 1 => f[l] < f[k - 1]
            BY <1>2, <1>4
        <3> QED
            BY <1>3, <1>5, <3>1, <3>2
    <2> QED
        BY <2>1
<1>7. l = k \/ k < l
    BY <1>1, <1>4, <1>6
<1>8. k < l => f[k] < f[l]
    BY <1>2, <1>4
<1> QED
    BY <1>3, <1>5, <1>7, <1>8

-----------------------------------------------------------------------------
(* Lists built from the element before.                                    *)
Recurs(f, n, T, base, G) ==
    /\ f \in [1 .. n -> T]
    /\ \A i \in 1 .. n : f[i] = IF i = 1 THEN base ELSE G[<<i, f[i - 1]>>]

LEMMA RecursionExists ==
    ASSUME NEW n \in Nat, NEW T, NEW base \in T, NEW G \in [(1 .. n) \X T -> T]
    PROVE  \E f : Recurs(f, n, T, base, G)
<1> DEFINE P == {m \in Nat : m <= n => \E f \in [1 .. m -> T] :
                    \A i \in 1 .. m : f[i] = IF i = 1 THEN base ELSE G[<<i, f[i - 1]>>]}
<1>1. 0 \in P
    <2> DEFINE e == [i \in 1 .. 0 |-> base]
    <2>1. e \in [1 .. 0 -> T] /\ \A i \in 1 .. 0 : e[i] = IF i = 1 THEN base ELSE G[<<i, e[i - 1]>>]
        OBVIOUS
    <2> QED
        BY <2>1
<1>2. ASSUME NEW m \in Nat, m \in P PROVE m + 1 \in P
    <2> SUFFICES ASSUME m + 1 <= n
                 PROVE  \E f \in [1 .. m + 1 -> T] :
                           \A i \in 1 .. m + 1 : f[i] = IF i = 1 THEN base ELSE G[<<i, f[i - 1]>>]
        OBVIOUS
    <2>1. PICK f \in [1 .. m -> T] :
            \A i \in 1 .. m : f[i] = IF i = 1 THEN base ELSE G[<<i, f[i - 1]>>]
        BY <1>2
    <2> DEFINE x == IF m + 1 = 1 THEN base ELSE G[<<m + 1, f[m]>>]
               g == [i \in 1 .. m + 1 |-> IF i = m + 1 THEN x ELSE f[i]]
    <2>2. x \in T
        <3>1. m + 1 # 1 => m \in 1 .. m /\ m + 1 \in 1 .. n
            OBVIOUS
        <3>2. m + 1 # 1 => <<m + 1, f[m]>> \in (1 .. n) \X T
            BY <3>1
        <3> QED
            BY <3>2
    <2> HIDE DEF x
    <2>3. g \in [1 .. m + 1 -> T] /\ g[m + 1] = x /\ \A i \in 1 .. m : g[i] = f[i]
        BY <2>2
    <2> HIDE DEF g
    <2>4. ASSUME NEW i \in 1 .. m + 1
          PROVE  g[i] = IF i = 1 THEN base ELSE G[<<i, g[i - 1]>>]
        <3>1. CASE i = m + 1
            <4>1. i # 1 => i - 1 \in 1 .. m /\ i - 1 = m
                BY <3>1
            <4> QED
                BY <2>3, <3>1, <4>1 DEF x
        <3>2. CASE i \in 1 .. m
            <4>1. i # 1 => i - 1 \in 1 .. m
                BY <3>2
            <4> QED
                BY <2>1, <2>3, <3>2, <4>1
        <3> QED
            BY <3>1, <3>2
    <2> QED
        BY <2>3, <2>4
<1> HIDE DEF P
<1>3. Nat \subseteq P
    BY <1>1, <1>2, NaturalInduction
<1>4. n \in P
    BY <1>3
<1> QED
    BY <1>4 DEF P, Recurs

\* Where the elements of a list of lists are once it is flattened.
Flattens(parts, flat) ==
    \A i \in 1 .. Len(parts) :
        flat[i] = IF i = 1 THEN parts[i] ELSE flat[i - 1] \o parts[i]

LEMMA FlattenIs ==
    ASSUME NEW T, NEW parts \in Seq(Seq(T)), parts # <<>>
    PROVE  \E flat \in [1 .. Len(parts) -> Seq(T)] :
              Flattens(parts, flat) /\ FlattenSeq(parts) = flat[Len(parts)]
<1> DEFINE n == Len(parts)
           G == [p \in (1 .. n) \X Seq(T) |-> p[2] \o parts[p[1]]]
           Body(f) == [i \in 1 .. n |-> IF i = 1 THEN parts[i] ELSE f[i - 1] \o parts[i]]
           chosen == CHOOSE f : f = Body(f)
<1>1. n \in Nat \ {0} /\ \A i \in 1 .. n : parts[i] \in Seq(T)
    BY EmptySeq
<1>2. FlattenSeq(parts) = chosen[n]
    BY <1>1 DEF FlattenSeq
<1>3. G \in [(1 .. n) \X Seq(T) -> Seq(T)]
    <2>1. ASSUME NEW p \in (1 .. n) \X Seq(T) PROVE p[2] \o parts[p[1]] \in Seq(T)
        <3>1. p[2] \in Seq(T) /\ parts[p[1]] \in Seq(T)
            BY <1>1
        <3> QED
            BY <3>1
    <2> QED
        BY <2>1
<1>4. parts[1] \in Seq(T)
    BY <1>1
<1>5. PICK f \in [1 .. n -> Seq(T)] :
        \A i \in 1 .. n : f[i] = IF i = 1 THEN parts[1] ELSE G[<<i, f[i - 1]>>]
    <2>1. PICK b : b = parts[1]
        OBVIOUS
    <2>2. PICK S : S = Seq(T)
        OBVIOUS
    <2>3. n \in Nat
        BY <1>1
    <2> HIDE DEF G, n
    <2>4. b \in S /\ G \in [(1 .. n) \X S -> S]
        BY <1>3, <1>4, <2>1, <2>2
    <2>5. \E f : Recurs(f, n, S, b, G)
        BY <2>3, <2>4, RecursionExists
    <2> QED
        BY <2>1, <2>2, <2>5 DEF Recurs
<1>6. ASSUME NEW i \in 1 .. n
      PROVE  f[i] = IF i = 1 THEN parts[i] ELSE f[i - 1] \o parts[i]
    <2>1. i # 1 => <<i, f[i - 1]>> \in (1 .. n) \X Seq(T)
        <3>1. i # 1 => i - 1 \in 1 .. n
            BY <1>1
        <3> QED
            BY <3>1
    <2>2. i # 1 => G[<<i, f[i - 1]>>] = f[i - 1] \o parts[i]
        BY <2>1
    <2> QED
        BY <1>5, <2>2
<1>7. f = Body(f)
    BY <1>6
<1> HIDE DEF Body
<1>8. chosen = Body(chosen)
    BY <1>7
<1> HIDE DEF chosen
<1>9. \A i \in 1 .. n : chosen[i] = IF i = 1 THEN parts[i] ELSE chosen[i - 1] \o parts[i]
    <2> TAKE i \in 1 .. n
    <2>1. Body(chosen)[i] = IF i = 1 THEN parts[i] ELSE chosen[i - 1] \o parts[i]
        BY DEF Body
    <2>2. chosen[i] = Body(chosen)[i]
        BY <1>8, Zenon
    <2> QED
        BY <2>1, <2>2, Zenon
<1> DEFINE P == {m \in Nat : m + 1 \in 1 .. n => chosen[m + 1] \in Seq(T)}
<1>10. 0 \in P
    BY <1>1, <1>9
<1>11. ASSUME NEW m \in Nat, m \in P PROVE m + 1 \in P
    <2>1. ASSUME (m + 1) + 1 \in 1 .. n PROVE chosen[(m + 1) + 1] \in Seq(T)
        <3>1. m + 1 \in 1 .. n /\ ((m + 1) + 1) - 1 = m + 1 /\ (m + 1) + 1 # 1
            BY <1>1, <2>1
        <3>2. chosen[(m + 1) + 1] = chosen[m + 1] \o parts[(m + 1) + 1]
            BY <1>9, <2>1, <3>1
        <3>3. chosen[m + 1] \in Seq(T) /\ parts[(m + 1) + 1] \in Seq(T)
            BY <1>1, <1>11, <2>1, <3>1
        <3> QED
            BY <3>2, <3>3
    <2> QED
        BY <2>1
<1> HIDE DEF P
<1>12. Nat \subseteq P
    BY <1>10, <1>11, NaturalInduction
<1>13. ASSUME NEW i \in 1 .. n PROVE chosen[i] \in Seq(T)
    <2>1. i - 1 \in P /\ (i - 1) + 1 = i
        BY <1>12
    <2> QED
        BY <2>1 DEF P
<1>14. chosen = [i \in 1 .. n |-> chosen[i]]
    <2>1. Body(chosen) = [i \in 1 .. n |-> Body(chosen)[i]]
        BY DEF Body
    <2> QED
        BY <1>8, <2>1
<1>15. chosen \in [1 .. n -> Seq(T)]
    BY <1>13, <1>14
<1> QED
    BY <1>2, <1>9, <1>15 DEF Flattens

\* The k-th element of the first m parts is the col[k]-th of part row[k]; its
\* neighbours are its neighbours there, or the ends of the parts next to it.
Addressed(parts, m, flat, row, col) ==
    /\ \A k \in 1 .. Len(flat) : /\ row[k] \in 1 .. m /\ col[k] \in 1 .. Len(parts[row[k]])
                                 /\ flat[k] = parts[row[k]][col[k]]
    /\ \A k \in 2 .. Len(flat) :
          \/ row[k] = row[k - 1] /\ col[k] = col[k - 1] + 1
          \/ row[k] = row[k - 1] + 1 /\ col[k] = 1 /\ col[k - 1] = Len(parts[row[k - 1]])
    /\ \A i \in 1 .. m : \A j \in 1 .. Len(parts[i]) :
          \E k \in 1 .. Len(flat) : row[k] = i /\ col[k] = j
    /\ Len(flat) > 0 /\ row[Len(flat)] = m /\ col[Len(flat)] = Len(parts[m])

LEMMA AddressOne ==
    ASSUME NEW T, NEW parts, NEW p \in Seq(T), parts[1] = p, Len(p) > 0
    PROVE  \E row, col : Addressed(parts, 1, p, row, col)
<1> DEFINE n == Len(p)
           row == [k \in 1 .. n |-> 1]
           col == [k \in 1 .. n |-> k]
<1>1. n \in Nat \ {0}
    OBVIOUS
<1>2. /\ \A k \in 1 .. n : row[k] = 1 /\ col[k] = k
      /\ row[n] = 1 /\ col[n] = n
    BY <1>1
<1> HIDE DEF row, col
<1>3. Addressed(parts, 1, p, row, col)
    BY <1>1, <1>2 DEF Addressed
<1> QED
    BY <1>3

LEMMA AddressMore ==
    ASSUME NEW T, NEW parts, NEW m \in Nat \ {0}, NEW flat \in Seq(T), NEW p \in Seq(T),
           NEW row, NEW col, Addressed(parts, m, flat, row, col), parts[m + 1] = p, Len(p) > 0
    PROVE  \E r, c : Addressed(parts, m + 1, flat \o p, r, c)
<1> PICK more : more = flat \o p
    OBVIOUS
<1> DEFINE n == Len(flat)
           r == [k \in 1 .. n + Len(p) |-> IF k <= n THEN row[k] ELSE m + 1]
           c == [k \in 1 .. n + Len(p) |-> IF k <= n THEN col[k] ELSE k - n]
<1>1. n \in Nat \ {0} /\ Len(p) \in Nat \ {0}
    BY DEF Addressed
<1>2. /\ Len(more) = n + Len(p)
      /\ \A k \in 1 .. n : more[k] = flat[k]
      /\ \A k \in 1 .. Len(p) : more[n + k] = p[k]
    BY ConcatProperties
<1>3. /\ \A k \in 1 .. n : r[k] = row[k] /\ c[k] = col[k]
      /\ \A k \in 1 .. Len(p) : r[n + k] = m + 1 /\ c[n + k] = k
    BY <1>1
<1> HIDE DEF r, c, n
<1>4. \A k \in 1 .. n : row[k] \in 1 .. m /\ col[k] \in 1 .. Len(parts[row[k]])
                        /\ flat[k] = parts[row[k]][col[k]]
    BY DEF Addressed, n
<1>5. ASSUME NEW k \in 1 .. Len(more)
      PROVE  k \in 1 .. n \/ (k - n \in 1 .. Len(p) /\ n + (k - n) = k)
    BY <1>1, <1>2
<1>6. ASSUME NEW k \in 1 .. Len(more)
      PROVE  /\ r[k] \in 1 .. m + 1 /\ c[k] \in 1 .. Len(parts[r[k]])
             /\ more[k] = parts[r[k]][c[k]]
    <2>1. CASE k \in 1 .. n
        <3>1. r[k] = row[k] /\ c[k] = col[k] /\ more[k] = flat[k]
            BY <1>2, <1>3, <2>1
        <3>2. row[k] \in 1 .. m /\ col[k] \in 1 .. Len(parts[row[k]])
              /\ flat[k] = parts[row[k]][col[k]]
            BY <1>4, <2>1
        <3>3. r[k] \in 1 .. m + 1
            BY <3>1, <3>2
        <3> QED
            BY <3>1, <3>2, <3>3
    <2>2. CASE k - n \in 1 .. Len(p) /\ n + (k - n) = k
        <3> PICK j \in 1 .. Len(p) : j = k - n /\ n + j = k
            BY <2>2
        <3>1. r[k] = m + 1 /\ c[k] = k - n /\ more[k] = p[k - n]
            <4>1. r[n + j] = m + 1 /\ c[n + j] = j /\ more[n + j] = p[j]
                BY <1>2, <1>3, Zenon
            <4> QED
                BY <4>1, Zenon
        <3> QED
            BY <2>2, <3>1
    <2> QED
        BY <1>5, <2>1, <2>2
<1>7. ASSUME NEW k \in 2 .. Len(more)
      PROVE  \/ r[k] = r[k - 1] /\ c[k] = c[k - 1] + 1
             \/ r[k] = r[k - 1] + 1 /\ c[k] = 1 /\ c[k - 1] = Len(parts[r[k - 1]])
    <2>1. CASE k <= n
        <3>1. k \in 1 .. n /\ k - 1 \in 1 .. n /\ k \in 2 .. n
            BY <1>1, <2>1
        <3>2. \/ row[k] = row[k - 1] /\ col[k] = col[k - 1] + 1
              \/ row[k] = row[k - 1] + 1 /\ col[k] = 1 /\ col[k - 1] = Len(parts[row[k - 1]])
            BY <3>1 DEF Addressed, n
        <3> QED
            BY <1>3, <3>1, <3>2
    <2>2. CASE k = n + 1
        <3>1. r[n + 1] = m + 1 /\ c[n + 1] = 1 /\ n \in 1 .. n /\ k - 1 = n
            BY <1>1, <1>3, <2>2
        <3>2. row[n] = m /\ col[n] = Len(parts[m])
            BY DEF Addressed, n
        <3> QED
            BY <1>3, <2>2, <3>1, <3>2
    <2>3. CASE k > n + 1
        <3> DEFINE j == (k - n) - 1
        <3>1. j \in 1 .. Len(p) /\ j + 1 \in 1 .. Len(p) /\ n + j = k - 1 /\ n + (j + 1) = k
            BY <1>1, <1>2, <2>3
        <3> HIDE DEF j
        <3>2. r[n + j] = m + 1 /\ c[n + j] = j /\ r[n + (j + 1)] = m + 1 /\ c[n + (j + 1)] = j + 1
            BY <1>3, <3>1
        <3> QED
            BY <3>1, <3>2
    <2> QED
        BY <1>1, <1>2, <2>1, <2>2, <2>3
<1>8. ASSUME NEW i \in 1 .. m + 1, NEW j \in 1 .. Len(parts[i])
      PROVE  \E k \in 1 .. Len(more) : r[k] = i /\ c[k] = j
    <2>1. CASE i \in 1 .. m
        <3>1. PICK k \in 1 .. n : row[k] = i /\ col[k] = j
            BY <2>1 DEF Addressed, n
        <3>2. k \in 1 .. Len(more)
            BY <1>1, <1>2
        <3> QED
            BY <1>3, <3>1, <3>2
    <2>2. CASE i = m + 1
        <3>1. j \in 1 .. Len(p) /\ n + j \in 1 .. Len(more)
            BY <1>1, <1>2, <2>2
        <3>2. r[n + j] = i /\ c[n + j] = j
            BY <1>3, <2>2, <3>1
        <3> QED
            BY <3>1, <3>2
    <2> QED
        BY <2>1, <2>2
<1>9. Len(more) > 0 /\ r[Len(more)] = m + 1 /\ c[Len(more)] = Len(parts[m + 1])
    <2>1. Len(p) \in 1 .. Len(p)
        BY <1>1
    <2>2. r[n + Len(p)] = m + 1 /\ c[n + Len(p)] = Len(p)
        BY <1>3, <2>1
    <2> QED
        BY <1>1, <1>2, <2>2
<1>10. Addressed(parts, m + 1, more, r, c)
    BY <1>6, <1>7, <1>8, <1>9 DEF Addressed
<1> QED
    BY <1>10

LEMMA FlattenAddresses ==
    ASSUME NEW T, NEW parts \in Seq(Seq(T)), parts # <<>>,
           \A i \in 1 .. Len(parts) : Len(parts[i]) > 0
    PROVE  /\ FlattenSeq(parts) \in Seq(T)
           /\ \E row, col : Addressed(parts, Len(parts), FlattenSeq(parts), row, col)
<1>1. Len(parts) \in Nat \ {0} /\ \A i \in 1 .. Len(parts) : parts[i] \in Seq(T)
    BY EmptySeq
<1>2. PICK flat \in [1 .. Len(parts) -> Seq(T)] :
            Flattens(parts, flat) /\ FlattenSeq(parts) = flat[Len(parts)]
    BY FlattenIs
<1> DEFINE P == {m \in Nat : m + 1 \in 1 .. Len(parts) =>
                    \E row, col : Addressed(parts, m + 1, flat[m + 1], row, col)}
<1>3. 0 \in P
    <2>1. 1 \in 1 .. Len(parts) /\ flat[1] = parts[1]
        <3>1. 1 \in 1 .. Len(parts)
            BY <1>1
        <3> QED
            BY <1>2, <3>1, Zenon DEF Flattens
    <2>2. parts[1] \in Seq(T) /\ Len(parts[1]) > 0
        BY <1>1, <2>1
    <2>3. \E row, col : Addressed(parts, 1, parts[1], row, col)
        BY <2>2, AddressOne
    <2> QED
        BY <2>1, <2>3
<1>4. ASSUME NEW m \in Nat, m \in P PROVE m + 1 \in P
    <2> SUFFICES ASSUME (m + 1) + 1 \in 1 .. Len(parts)
                 PROVE  \E row, col : Addressed(parts, (m + 1) + 1, flat[(m + 1) + 1], row, col)
        OBVIOUS
    <2> PICK n \in Nat \ {0} : n = m + 1
        OBVIOUS
    <2>1. n \in 1 .. Len(parts) /\ n + 1 \in 1 .. Len(parts) /\ (n + 1) - 1 = n /\ n + 1 # 1
        BY <1>1
    <2>2. flat[n + 1] = flat[n] \o parts[n + 1]
        BY <1>2, <2>1 DEF Flattens
    <2>3. PICK row, col : Addressed(parts, n, flat[n], row, col)
        BY <1>4, <2>1
    <2>4. flat[n] \in Seq(T) /\ parts[n + 1] \in Seq(T) /\ Len(parts[n + 1]) > 0
        BY <1>1, <1>2, <2>1
    <2>5. \E r, c : Addressed(parts, n + 1, flat[n] \o parts[n + 1], r, c)
        BY <2>3, <2>4, AddressMore
    <2> QED
        BY <2>2, <2>5
<1> HIDE DEF P
<1>5. Nat \subseteq P
    BY <1>3, <1>4, NaturalInduction
<1>6. Len(parts) - 1 \in P /\ (Len(parts) - 1) + 1 = Len(parts) /\ Len(parts) \in 1 .. Len(parts)
    BY <1>1, <1>5
<1>7. \E row, col : Addressed(parts, Len(parts), flat[Len(parts)], row, col)
    BY <1>6 DEF P
<1> QED
    BY <1>2, <1>6, <1>7

=============================================================================
