-------------------------- MODULE SpSignatureProofs --------------------------
(***************************************************************************)
(* sp_split_target_signature computes the reference decomposition for     *)
(* every target, of any length.  The argument is about cut points, not an *)
(* induction over strings: the index the code finds with find_last_of,    *)
(* find_last_not_of and find_first_not_of are the cut points of the one   *)
(* decomposition of the target, and every decomposition has those cut     *)
(* points.  The only fact about numbers it needs beyond arithmetic is     *)
(* that a non-empty set of indices has a largest and a smallest element,  *)
(* which follows from the well-foundedness of < on Nat.                   *)
(***************************************************************************)
EXTENDS MC_SpCatalog, WellFoundedInduction, SequenceTheorems, TLAPS

-----------------------------------------------------------------------------
(* Largest and smallest indices *)

\* a non-empty set of naturals has a least element
LEMMA NatSetHasMin ==
  ASSUME NEW T, T \subseteq Nat, T # {}
  PROVE  \E x \in T : \A y \in T : x <= y
  <1>1. PICK x \in T : \A y \in T : ~(<<y, x>> \in OpToRel(<, Nat))
    BY NatLessThanWellFounded, WFMin
  <1>2. \A y \in T : y < x => <<y, x>> \in OpToRel(<, Nat)
    BY Zenon DEF OpToRel
  <1>3. \A y \in T : ~(y < x)
    BY <1>1, <1>2
  <1>. QED  BY <1>3

\* a non-empty set of indices below n has a greatest element
LEMMA IndexSetHasMax ==
  ASSUME NEW n \in Nat, NEW T, T \subseteq 1..n, T # {}
  PROVE  \E x \in T : \A y \in T : y <= x
  <1> DEFINE U == {n - i : i \in T}
  <1>1. \A i \in T : n - i \in Nat
    OBVIOUS
  <1>2. U \subseteq Nat /\ U # {}
    BY <1>1
  <1>3. PICK m \in U : \A y \in U : m <= y
    BY <1>2, NatSetHasMin
  <1>4. PICK x \in T : m = n - x
    BY <1>3
  <1>5. \A y \in T : n - x <= n - y
    BY <1>3, <1>4
  <1>. QED  BY <1>5

\* LastOf of a set of indices is 0 for the empty set and its largest
\* element otherwise
LEMMA LastOfSpec ==
  ASSUME NEW n \in Nat, NEW I, I \subseteq 1..n
  PROVE  /\ I = {} => LastOf(I) = 0
         /\ I # {} => LastOf(I) \in I /\ \A j \in I : j <= LastOf(I)
  <1>1. I # {} => \E x \in I : \A j \in I : j <= x
    BY IndexSetHasMax
  <1>. QED  BY <1>1 DEF LastOf

\* FirstOf of a set of indices is 0 for the empty set and its smallest
\* element otherwise
LEMMA FirstOfSpec ==
  ASSUME NEW n \in Nat, NEW I, I \subseteq 1..n
  PROVE  /\ I = {} => FirstOf(I) = 0
         /\ I # {} => FirstOf(I) \in I /\ \A j \in I : FirstOf(I) <= j
  <1>0. I \subseteq Nat
    OBVIOUS
  <1>1. I # {} => \E x \in I : \A j \in I : x <= j
    BY <1>0, NatSetHasMin
  <1>. QED  BY <1>1 DEF FirstOf

-----------------------------------------------------------------------------
(* Substrings *)

\* two substrings that agree index for index, shifted by k, are equal
LEMMA SubSeqShift ==
  ASSUME NEW S, NEW s, NEW t, NEW a \in Int, NEW b \in Int, NEW k \in Int,
         \A i \in a..b : s[i] \in S /\ t[i + k] = s[i]
  PROVE  SubSeq(s, a, b) = SubSeq(t, a + k, b + k)
  <1>1. \A i \in (a + k)..(b + k) : t[i] \in S
    <2> SUFFICES ASSUME NEW i \in (a + k)..(b + k) PROVE t[i] \in S
      OBVIOUS
    <2>1. i - k \in a..b /\ i - k + k = i
      OBVIOUS
    <2>. QED  BY <2>1
  <1>2. /\ SubSeq(s, a, b) \in Seq(S)
        /\ Len(SubSeq(s, a, b)) = IF a <= b THEN b - a + 1 ELSE 0
        /\ \A i \in 1..(b - a + 1) : SubSeq(s, a, b)[i] = s[a + i - 1]
    BY SubSeqProperties
  <1>3. /\ SubSeq(t, a + k, b + k) \in Seq(S)
        /\ Len(SubSeq(t, a + k, b + k)) = IF a <= b THEN b - a + 1 ELSE 0
        /\ \A i \in 1..(b - a + 1) : SubSeq(t, a + k, b + k)[i] = t[a + k + i - 1]
    BY <1>1, SubSeqProperties
  <1>4. \A i \in 1..(b - a + 1) : t[a + k + i - 1] = s[a + i - 1]
    <2> SUFFICES ASSUME NEW i \in 1..(b - a + 1) PROVE t[a + k + i - 1] = s[a + i - 1]
      OBVIOUS
    <2>1. a + i - 1 \in a..b /\ a + i - 1 + k = a + k + i - 1
      OBVIOUS
    <2>. QED  BY <2>1
  <1>. QED  BY <1>2, <1>3, <1>4, SeqEqual

\* a substring of a sequence within its bounds
LEMMA SubSeqOfSeq ==
  ASSUME NEW S, NEW t \in Seq(S), NEW a \in 1..Len(t) + 1, NEW b \in a - 1..Len(t)
  PROVE  /\ SubSeq(t, a, b) \in Seq(S)
         /\ Len(SubSeq(t, a, b)) = b - a + 1
         /\ \A i \in 1..(b - a + 1) : SubSeq(t, a, b)[i] = t[a + i - 1]
  <1>1. \A i \in a..b : t[i] \in S
    OBVIOUS
  <1>. QED  BY <1>1, SubSeqProperties

-----------------------------------------------------------------------------
(* The two trims *)

\* the positions 1..e of s that hold no space
NonSpace(s, e) == {i \in 1..e : s[i] # Space}

\* the last position of 1..e of s that holds no space, 0 if none does
REnd(s, e) == LastOf(NonSpace(s, e))

\* the part of s before its last "(", with both trims applied
Tmp(s, e) == LTrim(RTrim(SubSeq(s, 1, e)))

\* after both trims, the part before the cut e is empty when it is all
\* spaces, and otherwise runs from its first to its last non-space
LEMMA TrimFacts ==
  ASSUME NEW s \in Seq(Alphabet), NEW e \in 0..Len(s)
  PROVE  /\ NonSpace(s, e) = {} => Tmp(s, e) = << >>
         /\ NonSpace(s, e) # {} =>
              LET f == FirstOf(NonSpace(s, e))
                  r == LastOf(NonSpace(s, e))
              IN  /\ f \in NonSpace(s, e) /\ r \in NonSpace(s, e)
                  /\ \A j \in NonSpace(s, e) : f <= j /\ j <= r
                  /\ Tmp(s, e) \in Seq(Alphabet)
                  /\ Len(Tmp(s, e)) = r - f + 1
                  /\ \A i \in 1..Len(Tmp(s, e)) : Tmp(s, e)[i] = s[f + i - 1]
  <1> DEFINE u == SubSeq(s, 1, e)
             N == NonSpace(s, e)
             r == REnd(s, e)
             v == SubSeq(u, 1, r)
  <1>1. /\ u \in Seq(Alphabet) /\ Len(u) = e
        /\ \A i \in 1..e : u[i] = s[i]
    BY SubSeqProperties
  <1>2. {i \in 1..Len(u) : u[i] # Space} = N
    BY <1>1 DEF NonSpace
  <1>3. RTrim(u) = v
    BY <1>2 DEF RTrim, REnd
  <1>0. e \in Nat /\ N \subseteq 1..e
    <2>1. e \in Nat
      OBVIOUS
    <2>2. N \subseteq 1..e
      BY DEF NonSpace
    <2>. QED  BY <2>1, <2>2
  <1>4. /\ N = {} => r = 0
        /\ N # {} => r \in N /\ \A j \in N : j <= r
    BY <1>0, LastOfSpec DEF REnd
  <1>5. r \in 0..e
    BY <1>0, <1>4
  <1>6. /\ v \in Seq(Alphabet) /\ Len(v) = r
        /\ \A i \in 1..r : v[i] = s[i]
    BY <1>1, <1>5, SubSeqProperties
  <1>7. {i \in 1..Len(v) : v[i] # Space} = NonSpace(s, r)
    BY <1>6 DEF NonSpace
  <1>8. CASE N = {}
    <2>1. r = 0 /\ NonSpace(s, r) = {}
      BY <1>4, <1>8 DEF NonSpace
    <2>2. FirstOf({i \in 1..Len(v) : v[i] # Space}) = 0
      BY <1>7, <2>1 DEF FirstOf
    <2>3. LTrim(v) = << >>
      BY <2>2 DEF LTrim, Empty
    <2>. QED  BY <1>3, <1>8, <2>3 DEF Tmp
  <1>9. CASE N # {}
    <2> DEFINE fst == FirstOf(N)
    <2>1. NonSpace(s, r) = N
      <3> SUFFICES ASSUME NEW x PROVE x \in NonSpace(s, r) <=> x \in N
        OBVIOUS
      <3>1. x \in N => x <= r
        BY <1>4, <1>9
      <3>. QED  BY <1>0, <1>5, <3>1 DEF NonSpace
    <2>2. fst \in N /\ \A j \in N : fst <= j
      BY <1>0, <1>9, FirstOfSpec
    <2>3. fst \in 1..r
      BY <1>0, <1>4, <1>9, <2>2
    <2>4. LTrim(v) = SubSeq(v, fst, r)
      <3>1. FirstOf({i \in 1..Len(v) : v[i] # Space}) = fst
        BY <1>7, <2>1
      <3>2. LTrim(v) = IF fst = 0 THEN Empty ELSE SubSeq(v, fst, Len(v))
        BY <3>1 DEF LTrim
      <3>3. fst # 0 /\ Len(v) = r
        BY <1>6, <2>3
      <3>. QED  BY <3>2, <3>3, Zenon
    <2>5. /\ SubSeq(v, fst, r) \in Seq(Alphabet)
          /\ Len(SubSeq(v, fst, r)) = r - fst + 1
          /\ \A i \in 1..(r - fst + 1) : SubSeq(v, fst, r)[i] = v[fst + i - 1]
      <3>1. fst \in 1..Len(v) + 1 /\ r \in fst - 1..Len(v)
        BY <1>0, <1>5, <1>6, <2>3
      <3>. QED  BY <1>6, <3>1, SubSeqOfSeq
    <2>6. \A i \in 1..(r - fst + 1) : v[fst + i - 1] = s[fst + i - 1]
      <3> SUFFICES ASSUME NEW i \in 1..(r - fst + 1) PROVE v[fst + i - 1] = s[fst + i - 1]
        OBVIOUS
      <3>1. fst + i - 1 \in 1..r
        BY <1>0, <1>5, <2>3
      <3>. QED  BY <1>6, <3>1
    <2>7. Tmp(s, e) = SubSeq(v, fst, r)
      BY <1>3, <2>4 DEF Tmp
    <2>. QED  BY <1>4, <1>9, <2>2, <2>5, <2>6, <2>7 DEF REnd
  <1>. QED  BY <1>8, <1>9

-----------------------------------------------------------------------------
(* The positions the code computes, and the cut points they give *)

\* the three characters the function looks for are different characters
LEMMA CharsDistinct == Space # Dot /\ Space # Paren /\ Dot # Paren
  BY Zenon DEF Space, Dot, Paren

Parens(s) == {i \in 1..Len(s) : s[i] = Paren}
Dots(t) == {i \in 1..Len(t) : t[i] = Dot}

\* pos1, tmp and pos2 of sp_split_target_signature
Pos1(s) == LastOf(Parens(s))
TmpOf(s) == Tmp(s, Pos1(s) - 1)
Pos2(s) == LastOf(Dots(TmpOf(s)))

\* the first non-space of tmp, as an index of s
FStart(s) == FirstOf(NonSpace(s, Pos1(s) - 1))

\* the cut points the code's positions stand for
Witness(s) ==
  << FStart(s) - 1, FStart(s) + Pos2(s) - 2, REnd(s, Pos1(s) - 1), Pos1(s) >>

\* the conditions of Cuts on the four cut points
IsCut(s, k1, k2, k3, p) ==
  /\ k1 <= k2 /\ k2 + 1 <= k3 /\ k3 < p
  /\ s[p] = Paren /\ NoneIs(s, p + 1, Len(s), Paren)
  /\ AllSpaces(s, 1, k1) /\ (k1 < k2 => s[k1 + 1] # Space)
  /\ s[k2 + 1] = Dot
  /\ NoneIs(s, k2 + 2, k3, Dot) /\ (k2 + 1 < k3 => s[k3] # Space)
  /\ AllSpaces(s, k3 + 1, p - 1)

\* a cut is a 4-tuple of indices that satisfies IsCut
LEMMA CutsMem ==
  ASSUME NEW s, NEW c
  PROVE  c \in Cuts(s) <=>
           \E k1, k2, k3 \in 0..Len(s), p \in 1..Len(s) :
             c = <<k1, k2, k3, p>> /\ IsCut(s, k1, k2, k3, p)
  <1> DEFINE X == (0..Len(s)) \X (0..Len(s)) \X (0..Len(s)) \X (1..Len(s))
  <1>1. c \in Cuts(s) <=> c \in X /\ IsCut(s, c[1], c[2], c[3], c[4])
    BY Zenon DEF Cuts, IsCut
  <1>2. c \in X <=> \E k1, k2, k3 \in 0..Len(s), p \in 1..Len(s) : c = <<k1, k2, k3, p>>
    OBVIOUS
  <1>. QED  BY <1>1, <1>2

\* the code's split, written with the positions above
LEMMA SplitUnfold ==
  ASSUME NEW s
  PROVE  SplitTargetSignature(s) =
           IF Pos1(s) = 0 \/ Pos2(s) = 0
             THEN <<Empty, Empty>>
             ELSE << SubSeq(TmpOf(s), 1, Pos2(s) - 1),
                     SubSeq(TmpOf(s), Pos2(s) + 1, Len(TmpOf(s)))
                       \o SubSeq(s, Pos1(s), Len(s)) >>
  BY DEF SplitTargetSignature, FindLastOf, Pos1, Pos2, TmpOf, Tmp, Parens, Dots

\* pos1 is 0 when s holds no "(" and the index of its last "(" otherwise
LEMMA Pos1Facts ==
  ASSUME NEW s \in Seq(Alphabet)
  PROVE  /\ Pos1(s) \in 0..Len(s)
         /\ Pos1(s) = 0 => \A j \in 1..Len(s) : s[j] # Paren
         /\ Pos1(s) # 0 => /\ Pos1(s) \in 1..Len(s) /\ s[Pos1(s)] = Paren
                           /\ \A j \in 1..Len(s) : s[j] = Paren => j <= Pos1(s)
  <1>1. Len(s) \in Nat /\ Parens(s) \subseteq 1..Len(s)
    BY DEF Parens
  <1>2. /\ Parens(s) = {} => Pos1(s) = 0
        /\ Parens(s) # {} => Pos1(s) \in Parens(s) /\ \A j \in Parens(s) : j <= Pos1(s)
    BY <1>1, LastOfSpec DEF Pos1
  <1>. QED  BY <1>2 DEF Parens

\* every decomposition of s has the cut points the code's positions give:
\* its "(" is the last one, its first and last non-spaces before the "("
\* are where the trims cut, and its dot is the last dot of tmp
LEMMA CutForced ==
  ASSUME NEW s \in Seq(Alphabet),
         NEW k1 \in 0..Len(s), NEW k2 \in 0..Len(s), NEW k3 \in 0..Len(s),
         NEW p \in 1..Len(s), IsCut(s, k1, k2, k3, p)
  PROVE  /\ Pos1(s) # 0 /\ Pos2(s) # 0
         /\ <<k1, k2, k3, p>> = Witness(s)
  <1>1. /\ k1 <= k2 /\ k2 + 1 <= k3 /\ k3 < p
        /\ s[p] = Paren /\ \A j \in p + 1..Len(s) : s[j] # Paren
        /\ \A j \in 1..k1 : s[j] = Space
        /\ k1 < k2 => s[k1 + 1] # Space
        /\ s[k2 + 1] = Dot
        /\ \A j \in k2 + 2..k3 : s[j] # Dot
        /\ k2 + 1 < k3 => s[k3] # Space
        /\ \A j \in k3 + 1..p - 1 : s[j] = Space
    BY DEF IsCut, NoneIs, AllSpaces
  <1>2. Pos1(s) = p
    <2>1. Pos1(s) # 0
      BY <1>1, Pos1Facts
    <2>. QED  BY <1>1, <2>1, Pos1Facts
  <1> DEFINE e == p - 1
             N == NonSpace(s, e)
             T == TmpOf(s)
  <1>3. e \in 0..Len(s) /\ N \subseteq 1..e
    BY DEF NonSpace
  <1>4. k1 + 1 \in N /\ k2 + 1 \in N /\ k3 \in N
    <2>1. s[k2 + 1] # Space
      BY <1>1, CharsDistinct
    <2>2. k1 + 1 \in N
      BY <1>1, <2>1 DEF NonSpace
    <2>3. k3 \in N
      BY <1>1, <2>1 DEF NonSpace
    <2>. QED  BY <1>1, <2>1, <2>2, <2>3 DEF NonSpace
  <1>5. \A j \in N : k1 + 1 <= j /\ j <= k3
    BY <1>1 DEF NonSpace
  <1>6. FStart(s) = k1 + 1 /\ REnd(s, e) = k3
    <2>1. FirstOf(N) \in N /\ \A j \in N : FirstOf(N) <= j
      BY <1>3, <1>4, FirstOfSpec
    <2>2. LastOf(N) \in N /\ \A j \in N : j <= LastOf(N)
      BY <1>3, <1>4, LastOfSpec
    <2>. QED  BY <1>2, <1>3, <1>4, <1>5, <2>1, <2>2 DEF FStart, REnd
  <1>7. /\ T \in Seq(Alphabet) /\ Len(T) = k3 - k1
        /\ \A i \in 1..Len(T) : T[i] = s[k1 + i]
    <2>1. T = Tmp(s, e)
      BY <1>2 DEF TmpOf
    <2>2. /\ Tmp(s, e) \in Seq(Alphabet)
          /\ Len(Tmp(s, e)) = LastOf(N) - FirstOf(N) + 1
          /\ \A i \in 1..Len(Tmp(s, e)) : Tmp(s, e)[i] = s[FirstOf(N) + i - 1]
      BY <1>3, <1>4, TrimFacts
    <2>3. FirstOf(N) = k1 + 1 /\ LastOf(N) = k3
      BY <1>2, <1>6 DEF FStart, REnd
    <2>4. /\ Tmp(s, e) \in Seq(Alphabet)
          /\ Len(Tmp(s, e)) = k3 - (k1 + 1) + 1
          /\ \A i \in 1..Len(Tmp(s, e)) : Tmp(s, e)[i] = s[(k1 + 1) + i - 1]
      BY <2>2, <2>3, Zenon
    <2>5. k3 - (k1 + 1) + 1 = k3 - k1 /\ \A i \in Int : (k1 + 1) + i - 1 = k1 + i
      OBVIOUS
    <2>6. Len(T) = k3 - k1
      BY <2>1, <2>4, <2>5
    <2>7. \A i \in 1..Len(T) : T[i] = s[k1 + i]
      <3> SUFFICES ASSUME NEW i \in 1..Len(T) PROVE T[i] = s[k1 + i]
        OBVIOUS
      <3>1. T[i] = s[(k1 + 1) + i - 1] /\ i \in Int
        BY <2>1, <2>4
      <3>. QED  BY <2>5, <3>1
    <2>. QED  BY <2>1, <2>4, <2>6, <2>7
  <1>8. Pos2(s) = k2 - k1 + 1
    <2>1. Dots(T) \subseteq 1..Len(T) /\ Len(T) \in Nat
      BY <1>7 DEF Dots
    <2>2. k2 - k1 + 1 \in Dots(T)
      <3>1. k2 - k1 + 1 \in 1..Len(T)
        BY <1>1, <1>7
      <3>2. T[k2 - k1 + 1] = s[k2 + 1]
        BY <1>7, <3>1
      <3>3. s[k2 + 1] = Dot
        BY <1>1
      <3>. QED  BY <3>1, <3>2, <3>3 DEF Dots
    <2>3. \A i \in Dots(T) : i <= k2 - k1 + 1
      <3> SUFFICES ASSUME NEW i \in Dots(T), i > k2 - k1 + 1 PROVE FALSE
        BY <2>1
      <3>1. i \in 1..Len(T) /\ T[i] = Dot
        BY DEF Dots
      <3>2. k1 + i \in k2 + 2..k3 /\ s[k1 + i] = Dot
        BY <1>1, <1>7, <3>1
      <3>3. \A j \in k2 + 2..k3 : s[j] # Dot
        BY <1>1
      <3>. QED  BY <3>2, <3>3
    <2>4. LastOf(Dots(T)) \in Dots(T) /\ \A j \in Dots(T) : j <= LastOf(Dots(T))
      BY <2>1, <2>2, LastOfSpec
    <2>. QED  BY <2>1, <2>2, <2>3, <2>4 DEF Pos2
  <1>. QED  BY <1>1, <1>2, <1>6, <1>8 DEF Witness

\* when the code finds a "(" and a dot in tmp, tmp runs from the first to
\* the last non-space before the "(", and pos2 is its last dot
LEMMA TmpShape ==
  ASSUME NEW s \in Seq(Alphabet), Pos1(s) # 0, Pos2(s) # 0
  PROVE  LET p == Pos1(s)
             N == NonSpace(s, p - 1)
             T == TmpOf(s)
             f == FStart(s)
             r == REnd(s, p - 1)
             d == Pos2(s)
         IN  /\ p \in 1..Len(s) /\ s[p] = Paren
             /\ \A j \in 1..Len(s) : s[j] = Paren => j <= p
             /\ N \subseteq 1..(p - 1)
             /\ f \in N /\ r \in N /\ \A j \in N : f <= j /\ j <= r
             /\ T \in Seq(Alphabet) /\ Len(T) = r - f + 1
             /\ \A i \in 1..Len(T) : T[i] = s[f + i - 1]
             /\ d \in Dots(T) /\ \A i \in Dots(T) : i <= d
  <1> DEFINE p == Pos1(s)
             e == p - 1
             N == NonSpace(s, e)
             T == TmpOf(s)
             f == FStart(s)
             r == REnd(s, e)
             d == Pos2(s)
  <1>1. /\ p \in 1..Len(s) /\ s[p] = Paren
        /\ \A j \in 1..Len(s) : s[j] = Paren => j <= p
    BY Pos1Facts
  <1>2. e \in 0..Len(s) /\ N \subseteq 1..e /\ T = Tmp(s, e)
    BY <1>1 DEF NonSpace, TmpOf
  <1>3. N # {}
    <2> SUFFICES ASSUME N = {} PROVE FALSE
      OBVIOUS
    <2>1. T = << >>
      BY <1>2, TrimFacts
    <2>2. Dots(T) = {}
      BY <2>1 DEF Dots
    <2>. QED  BY <2>2, LastOfSpec DEF Pos2
  <1>4. /\ f \in N /\ r \in N /\ \A j \in N : f <= j /\ j <= r
        /\ T \in Seq(Alphabet) /\ Len(T) = r - f + 1
        /\ \A i \in 1..Len(T) : T[i] = s[f + i - 1]
    <2>1. f = FirstOf(N) /\ r = LastOf(N)
      BY DEF FStart, REnd
    <2>. QED  BY <1>2, <1>3, <2>1, TrimFacts
  <1>5. d \in Dots(T) /\ \A i \in Dots(T) : i <= d
    <2>1. Dots(T) \subseteq 1..Len(T) /\ Len(T) \in Nat
      BY <1>4 DEF Dots
    <2>2. Dots(T) # {}
      BY <2>1, LastOfSpec DEF Pos2
    <2>. QED  BY <2>1, <2>2, LastOfSpec DEF Pos2
  <1>. QED  BY <1>1, <1>2, <1>4, <1>5

\* when the code finds a "(" and a dot in tmp, its positions are the cut
\* points of a decomposition of s
LEMMA CutExists ==
  ASSUME NEW s \in Seq(Alphabet), Pos1(s) # 0, Pos2(s) # 0
  PROVE  Witness(s) \in Cuts(s)
  <1> DEFINE p == Pos1(s)
             e == p - 1
             N == NonSpace(s, e)
             T == TmpOf(s)
             f == FStart(s)
             r == REnd(s, e)
             d == Pos2(s)
  <1>1. /\ p \in 1..Len(s) /\ s[p] = Paren
        /\ \A j \in 1..Len(s) : s[j] = Paren => j <= p
        /\ N \subseteq 1..e
        /\ f \in N /\ r \in N /\ \A j \in N : f <= j /\ j <= r
        /\ T \in Seq(Alphabet) /\ Len(T) = r - f + 1
        /\ \A i \in 1..Len(T) : T[i] = s[f + i - 1]
        /\ d \in Dots(T) /\ \A i \in Dots(T) : i <= d
    BY TmpShape
  <1>2. p \in 1..Len(s) /\ s[p] = Paren
    BY <1>1
  <1>3. \A j \in 1..Len(s) : s[j] = Paren => j <= p
    BY <1>1
  <1>4. N \subseteq 1..e /\ f \in N /\ r \in N
    BY <1>1
  <1>5. \A j \in N : f <= j /\ j <= r
    BY <1>1
  <1>6. Len(T) = r - f + 1 /\ \A i \in 1..Len(T) : T[i] = s[f + i - 1]
    BY <1>1
  <1>7. d \in Dots(T) /\ \A i \in Dots(T) : i <= d
    BY <1>1
  <1>8. f \in 1..e /\ r \in 1..e /\ f <= r
    BY <1>4, <1>5
  <1>9. d \in 1..(r - f + 1) /\ s[f + d - 1] = Dot
    <2>1. d \in 1..Len(T) /\ T[d] = Dot
      BY <1>7 DEF Dots
    <2>. QED  BY <1>6, <2>1
  <1>10. \A j \in 1..(f - 1) : s[j] = Space
    <2> SUFFICES ASSUME NEW j \in 1..(f - 1), s[j] # Space PROVE FALSE
      OBVIOUS
    <2>1. j \in N
      BY <1>2, <1>8 DEF NonSpace
    <2>. QED  BY <1>5, <1>8, <2>1
  <1>11. \A j \in (r + 1)..(p - 1) : s[j] = Space
    <2> SUFFICES ASSUME NEW j \in (r + 1)..(p - 1), s[j] # Space PROVE FALSE
      OBVIOUS
    <2>1. j \in N
      BY <1>2, <1>8 DEF NonSpace
    <2>. QED  BY <1>5, <1>8, <2>1
  <1>12. \A j \in (f + d)..r : s[j] # Dot
    <2> SUFFICES ASSUME NEW j \in (f + d)..r, s[j] = Dot PROVE FALSE
      OBVIOUS
    <2>1. j - f + 1 \in 1..Len(T)
      BY <1>6, <1>8, <1>9
    <2>2. T[j - f + 1] = s[j]
      BY <1>6, <1>8, <2>1
    <2>3. j - f + 1 \in Dots(T)
      BY <2>1, <2>2 DEF Dots
    <2>. QED  BY <1>7, <1>8, <1>9, <2>3
  <1>13. s[f] # Space /\ s[r] # Space
    BY <1>4 DEF NonSpace
  <1>14. \A j \in p + 1..Len(s) : s[j] # Paren
    BY <1>2, <1>3
  <1>15. IsCut(s, f - 1, f + d - 2, r, p)
    <2>1. f - 1 + 1 = f /\ f + d - 2 + 1 = f + d - 1 /\ f + d - 2 + 2 = f + d
      BY <1>8, <1>9
    <2>2. f - 1 <= f + d - 2 /\ f + d - 2 + 1 <= r /\ r < p
      BY <1>2, <1>8, <1>9
    <2>3. /\ s[p] = Paren /\ NoneIs(s, p + 1, Len(s), Paren)
          /\ AllSpaces(s, 1, f - 1) /\ s[f - 1 + 1] # Space
          /\ s[f + d - 2 + 1] = Dot
          /\ NoneIs(s, f + d - 2 + 2, r, Dot) /\ s[r] # Space
          /\ AllSpaces(s, r + 1, p - 1)
      BY <1>2, <1>9, <1>10, <1>11, <1>12, <1>13, <1>14, <2>1
         DEF NoneIs, AllSpaces
    <2>. QED  BY <2>2, <2>3, Zenon DEF IsCut
  <1>16. /\ f - 1 \in 0..Len(s) /\ f + d - 2 \in 0..Len(s)
         /\ r \in 0..Len(s) /\ p \in 1..Len(s)
    <2>1. e \in 0..Len(s) /\ p \in 1..Len(s)
      BY <1>2
    <2>2. f - 1 \in 0..e /\ r \in 0..e
      BY <1>8, <2>1
    <2>3. f + d - 2 \in 0..e
      <3>1. d \in 1..(r - f + 1)
        BY <1>9
      <3>. QED  BY <1>8, <2>1, <3>1
    <2>. QED  BY <2>1, <2>2, <2>3
  <1>. QED  BY <1>15, <1>16, CutsMem DEF Witness

\* tmp agrees with s shifted by k on a..b, so their substrings are equal
LEMMA TmpShift ==
  ASSUME NEW s \in Seq(Alphabet), NEW a \in Int, NEW b \in Int, NEW k \in Int,
         \A i \in a..b : TmpOf(s)[i] \in Alphabet /\ s[i + k] = TmpOf(s)[i]
  PROVE  SubSeq(TmpOf(s), a, b) = SubSeq(s, a + k, b + k)
  BY SubSeqShift

-----------------------------------------------------------------------------
(* The split is the reference split *)

(***************************************************************************)
(* For every string s over the alphabet, of any length,                    *)
(* sp_split_target_signature returns the class and method parts of the     *)
(* unique decomposition of s, and two empty parts when s has none.  When    *)
(* the code finds a "(" and a dot, its positions are the cut points of a   *)
(* decomposition (CutExists), and every decomposition has those cut points *)
(* (CutForced), so the reference's CHOOSE picks exactly them; the two     *)
(* parts then agree index for index (SubSeqShift).  When it finds no "("  *)
(* or no dot, no decomposition exists, since one would make it find both. *)
(***************************************************************************)
THEOREM SplitCorrect ==
  ASSUME NEW s \in Seq(Alphabet)
  PROVE  SplitTargetSignature(s) = ReferenceSplit(s)
  <1>1. \A c \in Cuts(s) : Pos1(s) # 0 /\ Pos2(s) # 0 /\ c = Witness(s)
    <2> SUFFICES ASSUME NEW c \in Cuts(s)
                 PROVE  Pos1(s) # 0 /\ Pos2(s) # 0 /\ c = Witness(s)
      OBVIOUS
    <2>1. PICK k1, k2, k3 \in 0..Len(s), p \in 1..Len(s) :
                 c = <<k1, k2, k3, p>> /\ IsCut(s, k1, k2, k3, p)
      BY CutsMem
    <2>. QED  BY <2>1, CutForced
  <1>2. CASE Pos1(s) # 0 /\ Pos2(s) # 0
    <2> DEFINE T == TmpOf(s)
               f == FStart(s)
               r == REnd(s, Pos1(s) - 1)
               d == Pos2(s)
    <2>1. Cuts(s) = {Witness(s)}
      BY <1>1, <1>2, CutExists
    <2>2. /\ f \in Nat /\ r \in Nat
          /\ T \in Seq(Alphabet) /\ Len(T) = r - f + 1
          /\ \A i \in 1..Len(T) : T[i] = s[f + i - 1]
          /\ d \in 1..Len(T)
      <3>1. /\ Pos1(s) \in 1..Len(s)
            /\ NonSpace(s, Pos1(s) - 1) \subseteq 1..(Pos1(s) - 1)
            /\ f \in NonSpace(s, Pos1(s) - 1) /\ r \in NonSpace(s, Pos1(s) - 1)
            /\ T \in Seq(Alphabet) /\ Len(T) = r - f + 1
            /\ \A i \in 1..Len(T) : T[i] = s[f + i - 1]
            /\ d \in Dots(T)
        BY <1>2, TmpShape
      <3>. QED  BY <3>1 DEF Dots
    <2>3. ReferenceSplit(s) =
            << SubSeq(s, f, f + d - 2),
               SubSeq(s, f + d, r) \o SubSeq(s, Pos1(s), Len(s)) >>
      <3>1. Cuts(s) # {} /\ (CHOOSE c \in Cuts(s) : TRUE) = Witness(s)
        BY <2>1
      <3>2. ReferenceSplit(s) =
              << SubSeq(s, Witness(s)[1] + 1, Witness(s)[2]),
                 SubSeq(s, Witness(s)[2] + 2, Witness(s)[3])
                   \o SubSeq(s, Witness(s)[4], Len(s)) >>
        BY <3>1 DEF ReferenceSplit
      <3>3. /\ Witness(s)[1] + 1 = f /\ Witness(s)[2] = f + d - 2
            /\ Witness(s)[2] + 2 = f + d /\ Witness(s)[3] = r
            /\ Witness(s)[4] = Pos1(s)
        BY <2>2 DEF Witness
      <3>. QED  BY <3>2, <3>3
    <2>4. SubSeq(T, 1, d - 1) = SubSeq(s, 1 + (f - 1), (d - 1) + (f - 1))
      <3>1. \A i \in 1..(d - 1) : T[i] \in Alphabet /\ s[i + (f - 1)] = T[i]
        BY <2>2
      <3>2. 1 \in Int /\ d - 1 \in Int /\ f - 1 \in Int
        BY <2>2
      <3>. QED  BY <3>1, <3>2, TmpShift
    <2>5. SubSeq(T, d + 1, Len(T)) = SubSeq(s, (d + 1) + (f - 1), Len(T) + (f - 1))
      <3>1. \A i \in (d + 1)..Len(T) : T[i] \in Alphabet /\ s[i + (f - 1)] = T[i]
        BY <2>2
      <3>2. d + 1 \in Int /\ Len(T) \in Int /\ f - 1 \in Int
        BY <2>2
      <3>. QED  BY <3>1, <3>2, TmpShift
    <2>6. /\ 1 + (f - 1) = f /\ (d - 1) + (f - 1) = f + d - 2
          /\ (d + 1) + (f - 1) = f + d /\ Len(T) + (f - 1) = r
      BY <2>2
    <2>. QED  BY <1>2, <2>3, <2>4, <2>5, <2>6, SplitUnfold
  <1>3. CASE ~(Pos1(s) # 0 /\ Pos2(s) # 0)
    <2>1. Cuts(s) = {}
      BY <1>1, <1>3
    <2>. QED  BY <1>3, <2>1, SplitUnfold DEF ReferenceSplit
  <1>. QED  BY <1>2, <1>3

(***************************************************************************)
(* The invariant SplitAgrees of the catalog run, for every alphabet and   *)
(* every bound on the length of the targets.                               *)
(***************************************************************************)
THEOREM SplitAgreesHolds == SplitAgrees
  <1>1. Inputs \subseteq Seq(Alphabet)
    BY DEF Inputs
  <1>. QED  BY <1>1, SplitCorrect DEF SplitAgrees


(***************************************************************************)
(* The invariant SplitMatchesReference of the catalog run: in every       *)
(* reachable state, sp_split_target_signature agrees with the reference   *)
(* split on every target, for every value of the constants.               *)
(***************************************************************************)
THEOREM SplitReferenceInvariant == Spec => []SplitMatchesReference
  <1>1. SplitMatchesReference
    BY SplitAgreesHolds DEF SplitMatchesReference
  <1>. QED  BY <1>1, PTL

=============================================================================
