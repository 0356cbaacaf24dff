---------------------------- MODULE SpSignature ----------------------------
(***************************************************************************)
(* sp_split_target_signature (src/src/sp/sp_catalog.cpp) splits a Java    *)
(* target such as "pkg.Cls.method(int)" into its class part "pkg.Cls" and *)
(* its method part "method(int)".  A string is a sequence of characters   *)
(* drawn from a small Alphabet; the algorithm is translated index for     *)
(* index (find_last_of, the two trims, substr), and checked against a     *)
(* reference definition that describes the result by the decomposition   *)
(* of the input instead of by index arithmetic.  The check is a constant  *)
(* formula, which TLC evaluates once; MC_SpCatalog states it as an        *)
(* invariant of the catalog run.                                           *)
(***************************************************************************)
EXTENDS Integers, Sequences

CONSTANTS Alphabet,     \* the characters an input may contain
          MaxLen        \* inputs are all strings up to this length

(* The three characters the function looks for.                           *)
Space == " "
Dot == "."
Paren == "("

ASSUME SignatureAssumption ==
  /\ {Space, Dot, Paren} \subseteq Alphabet
  /\ MaxLen \in Nat

Inputs == UNION {[1..n -> Alphabet] : n \in 0..MaxLen}

Empty == << >>

(* The largest and the smallest of a set of indices, 0 (npos) if the set *)
(* is empty: the positions the std::string searches return.               *)
LastOf(I) == IF I = {} THEN 0 ELSE CHOOSE i \in I : \A j \in I : j <= i
FirstOf(I) == IF I = {} THEN 0 ELSE CHOOSE i \in I : \A j \in I : i <= j

(* s.find_last_of(ch): the last index holding ch, 0 for npos.             *)
FindLastOf(s, ch) == LastOf({i \in 1..Len(s) : s[i] = ch})

(* Mutant: the right trim forgotten, so spaces before "(" stay in the    *)
(* method part.                                                           *)
RTrimKeep(t) == t

(* tmp.erase(tmp.find_last_not_of(" ") + 1): drops trailing spaces; an    *)
(* all-space string becomes empty since npos + 1 = 0.                     *)
RTrim(t) == SubSeq(t, 1, LastOf({i \in 1..Len(t) : t[i] # Space}))

(* tmp.erase(0, tmp.find_first_not_of(" ")): drops leading spaces; for   *)
(* npos the whole string is erased.                                       *)
LTrim(t) ==
  LET f == FirstOf({i \in 1..Len(t) : t[i] # Space})
  IN  IF f = 0 THEN Empty ELSE SubSeq(t, f, Len(t))

(* The whole function: <<target_cls, target_mth>>.                        *)
SplitTargetSignature(s) ==
  LET pos1 == FindLastOf(s, Paren)
      tmp  == LTrim(RTrim(SubSeq(s, 1, pos1 - 1)))
      pos2 == FindLastOf(tmp, Dot)
  IN  IF pos1 = 0 \/ pos2 = 0
        THEN <<Empty, Empty>>
        ELSE << SubSeq(tmp, 1, pos2 - 1),
                SubSeq(tmp, pos2 + 1, Len(tmp)) \o SubSeq(s, pos1, Len(s)) >>

----------------------------------------------------------------------------
(***************************************************************************)
(* Reference.  A target that names a method reads                         *)
(*     spaces . cls "." mth spaces "(" rest                                *)
(* where the "(" is the last one of s, mth holds no "." and does not end  *)
(* in a space, cls does not start with a space, and the two space runs    *)
(* are spaces only.  The cut points are k1 (end of the leading spaces),   *)
(* k2 (end of cls; the dot is at k2 + 1), k3 (end of mth) and the paren   *)
(* at p.  The intended result is cls and mth \o "(" \o rest.              *)
(***************************************************************************)
AllSpaces(s, lo, hi) == \A j \in lo..hi : s[j] = Space
NoneIs(s, lo, hi, ch) == \A j \in lo..hi : s[j] # ch

Cuts(s) ==
  { c \in (0..Len(s)) \X (0..Len(s)) \X (0..Len(s)) \X (1..Len(s)) :
      LET k1 == c[1]  k2 == c[2]  k3 == c[3]  p == c[4] IN
      /\ k1 <= k2 /\ k2 + 1 <= k3 /\ k3 < p
      /\ s[p] = Paren /\ NoneIs(s, p + 1, Len(s), Paren)
      /\ AllSpaces(s, 1, k1) /\ (k1 < k2 => s[k1 + 1] # Space)
      /\ s[k2 + 1] = Dot
      /\ NoneIs(s, k2 + 2, k3, Dot) /\ (k2 + 1 < k3 => s[k3] # Space)
      /\ AllSpaces(s, k3 + 1, p - 1) }

ReferenceSplit(s) ==
  IF Cuts(s) = {}
    THEN <<Empty, Empty>>
    ELSE LET c == CHOOSE c \in Cuts(s) : TRUE
         IN  << SubSeq(s, c[1] + 1, c[2]),
                SubSeq(s, c[2] + 2, c[3]) \o SubSeq(s, c[4], Len(s)) >>

----------------------------------------------------------------------------
(* For every target of up to MaxLen characters, the class and method parts *)
(* that sp_split_target_signature returns are those of the target's unique *)
(* decomposition: the last "(" starts the argument list, the spaces        *)
(* between the method name and it are dropped, and a target without a "(" *)
(* or without a "." before it yields two empty parts.                      *)
SplitAgrees ==
  \A s \in Inputs : SplitTargetSignature(s) = ReferenceSplit(s)

=============================================================================
