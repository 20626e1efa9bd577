---------------------------- MODULE StackLemmas ----------------------------
(***************************************************************************)
(* Sequences used as stacks, the top element first.                        *)
(***************************************************************************)
EXTENDS Naturals, Sequences, TLAPS

\* An element on top of others
LEMMA Pushed ==
  ASSUME NEW S, NEW f \in S, NEW r \in Seq(S)
  PROVE  /\ << f >> \o r \in Seq(S) /\ << f >> \o r # << >>
         /\ Len(<< f >> \o r) = Len(r) + 1
         /\ \A i \in 1 .. Len(r) + 1 : (<< f >> \o r)[i] = IF i = 1 THEN f ELSE r[i - 1]
  OBVIOUS

\* The elements below the top one
LEMMA Popped ==
  ASSUME NEW S, NEW s \in Seq(S), s # << >>
  PROVE  /\ Head(s) \in S /\ Head(s) = s[1] /\ Len(s) \in Nat \ {0}
         /\ Tail(s) \in Seq(S) /\ Len(Tail(s)) = Len(s) - 1
         /\ \A i \in 1 .. Len(s) - 1 : Tail(s)[i] = s[i + 1]
         /\ Tail(s) = << >> <=> Len(s) = 1
<1>1. Head(s) \in S /\ Head(s) = s[1] /\ Len(s) \in Nat \ {0}
  OBVIOUS
<1>2. Tail(s) \in Seq(S) /\ Len(Tail(s)) = Len(s) - 1
  OBVIOUS
<1>3. \A i \in 1 .. Len(s) - 1 : Tail(s)[i] = s[i + 1]
  OBVIOUS
<1>4. \A t \in Seq(S) : t = << >> <=> Len(t) = 0
  OBVIOUS
<1> QED
  BY <1>1, <1>2, <1>3, <1>4

\* The top element is changed.
LEMMA Replaced ==
  ASSUME NEW S, NEW s \in Seq(S), s # << >>, NEW f \in S
  PROVE  LET r == << f >> \o Tail(s)
         IN  /\ r \in Seq(S) /\ r # << >> /\ Len(r) = Len(s)
             /\ \A i \in 1 .. Len(s) : r[i] = IF i = 1 THEN f ELSE s[i]
<1>1. /\ Tail(s) \in Seq(S) /\ Len(Tail(s)) = Len(s) - 1 /\ Len(s) \in Nat \ {0}
      /\ \A i \in 1 .. Len(s) - 1 : Tail(s)[i] = s[i + 1]
  BY Popped
<1> DEFINE t == Tail(s)
<1>2. /\ << f >> \o t \in Seq(S) /\ << f >> \o t # << >>
      /\ Len(<< f >> \o t) = Len(t) + 1
      /\ \A i \in 1 .. Len(t) + 1 : (<< f >> \o t)[i] = IF i = 1 THEN f ELSE t[i - 1]
  BY <1>1, Pushed
<1>3. ASSUME NEW i \in 1 .. Len(s), i # 1
      PROVE  t[i - 1] = s[i]
  BY <1>1, <1>3
<1> HIDE DEF t
<1>4. Len(t) + 1 = Len(s)
  BY <1>1 DEF t
<1>5. \A i \in 1 .. Len(s) : (<< f >> \o t)[i] = IF i = 1 THEN f ELSE s[i]
  BY <1>2, <1>3, <1>4
<1> QED
  BY <1>2, <1>4, <1>5 DEF t

-----------------------------------------------------------------------------
\* The elements of a stack
Elems(s) == { s[i] : i \in 1 .. Len(s) }

LEMMA ConcatElems ==
  ASSUME NEW S, NEW u \in Seq(S), NEW v \in Seq(S)
  PROVE  Elems(u \o v) = Elems(u) \cup Elems(v)
<1>1. Len(u \o v) = Len(u) + Len(v) /\ Len(u) \in Nat /\ Len(v) \in Nat
  OBVIOUS
<1>2. \A i \in 1 .. Len(u) + Len(v) :
        (u \o v)[i] = IF i <= Len(u) THEN u[i] ELSE v[i - Len(u)]
  OBVIOUS
<1>3. ASSUME NEW i \in 1 .. Len(v) PROVE i + Len(u) \in 1 .. Len(u) + Len(v) /\ (u \o v)[i + Len(u)] = v[i]
  <2>1. i + Len(u) \in 1 .. Len(u) + Len(v) /\ ~ (i + Len(u) <= Len(u)) /\ (i + Len(u)) - Len(u) = i
    BY <1>1
  <2> QED
    BY <1>2, <2>1
<1>4. Elems(u) \subseteq Elems(u \o v)
  BY <1>1, <1>2 DEF Elems
<1>5. Elems(v) \subseteq Elems(u \o v)
  BY <1>1, <1>3 DEF Elems
<1>6. Elems(u \o v) \subseteq Elems(u) \cup Elems(v)
  BY <1>1, <1>2 DEF Elems
<1> QED
  BY <1>4, <1>5, <1>6

LEMMA TopOrBelow ==
  ASSUME NEW S, NEW s \in Seq(S), s # << >>
  PROVE  Elems(s) = {Head(s)} \cup Elems(Tail(s))
<1>1. /\ Head(s) = s[1] /\ Len(s) \in Nat \ {0} /\ Len(Tail(s)) = Len(s) - 1
      /\ \A i \in 1 .. Len(s) - 1 : Tail(s)[i] = s[i + 1]
  OBVIOUS
<1>2. \A i \in 1 .. Len(s) : i = 1 \/ i - 1 \in 1 .. Len(s) - 1
  BY <1>1
<1>3. \A i \in 1 .. Len(s) : s[i] = Head(s) \/ s[i] \in Elems(Tail(s))
  BY <1>1, <1>2 DEF Elems
<1>4. \A i \in 1 .. Len(s) - 1 : Tail(s)[i] \in Elems(s)
  BY <1>1 DEF Elems
<1>5. Head(s) \in Elems(s)
  BY <1>1 DEF Elems
<1> QED
  BY <1>1, <1>3, <1>4, <1>5 DEF Elems
=============================================================================
