--------------------- MODULE TransitionFunctionsProofs ---------------------
(***************************************************************************)
(* For every set of typestates, the transition functions that mention all  *)
(* of them are a weight domain as PostStar assumes one, so its theorems    *)
(* hold of them; for functions that leave out a typestate, a combination   *)
(* of three depends on its order.                                          *)
(***************************************************************************)
EXTENDS TransitionFunctions, TLAPS

Relation == SUBSET (TypeState \X TypeState)
TotalRelation == { R \in Relation : \A x \in TypeState : \E t \in R : t[1] = x }
Id == { << x, x >> : x \in TypeState }
Leq(u, v) == CombineWith(v, u) = v

-----------------------------------------------------------------------------
(* Relations *)

LEMMA JoinedTotal ==
  ASSUME NEW R \in TotalRelation, NEW S \in TotalRelation
  PROVE  Joined(R, S) \in TotalRelation /\ R \cup S \in TotalRelation
<1>1. Joined(R, S) \in Relation
  BY DEF Joined, TotalRelation, Relation
<1>2. ASSUME NEW x \in TypeState
      PROVE  \E t \in Joined(R, S) : t[1] = x
  <2>1. PICK f \in R : f[1] = x
    BY DEF TotalRelation
  <2>2. f[2] \in TypeState
    BY DEF TotalRelation, Relation
  <2>3. PICK g \in S : g[1] = f[2]
    BY <2>2 DEF TotalRelation
  <2>4. << f, g >> \in { y \in R \X S : y[1][2] = y[2][1] }
    BY <2>3
  <2>5. << f[1], g[2] >> \in Joined(R, S)
    BY <2>4 DEF Joined
  <2> QED BY <2>1, <2>5
<1> QED
  BY <1>1, <1>2 DEF TotalRelation, Relation

LEMMA StaysIsId == ASSUME NEW R \in TotalRelation PROVE Stays(R) = Id
  BY DEF Stays, Id, TotalRelation, Relation

LEMMA IdTotal == Id \in TotalRelation
<1>1. \A x \in TypeState : << x, x >> \in Id /\ << x, x >>[1] = x
  BY DEF Id
<1>2. Id \in Relation
  BY DEF Id, Relation
<1> QED
  BY <1>1, <1>2 DEF TotalRelation

LEMMA JoinedMonotone ==
  ASSUME NEW R \in Relation, NEW S \in Relation, NEW W \in Relation, R \subseteq S
  PROVE  Joined(R, W) \subseteq Joined(S, W) /\ Joined(W, R) \subseteq Joined(W, S)
  BY DEF Joined

LEMMA JoinedId ==
  ASSUME NEW W \in Relation
  PROVE  Joined(Id, W) = W /\ Joined(W, Id) = W
<1>1. W \subseteq Joined(Id, W)
  <2> SUFFICES ASSUME NEW t \in W PROVE t \in Joined(Id, W)
    OBVIOUS
  <2>1. t = << t[1], t[2] >> /\ << t[1], t[1] >> \in Id
    BY DEF Relation, Id
  <2>2. << << t[1], t[1] >>, t >> \in { y \in Id \X W : y[1][2] = y[2][1] }
    BY <2>1
  <2> QED BY <2>1, <2>2 DEF Joined
<1>2. W \subseteq Joined(W, Id)
  <2> SUFFICES ASSUME NEW t \in W PROVE t \in Joined(W, Id)
    OBVIOUS
  <2>1. t = << t[1], t[2] >> /\ << t[2], t[2] >> \in Id
    BY DEF Relation, Id
  <2>2. << t, << t[2], t[2] >> >> \in { y \in W \X Id : y[1][2] = y[2][1] }
    BY <2>1
  <2> QED BY <2>1, <2>2 DEF Joined
<1>3. ASSUME NEW t \in Joined(Id, W) PROVE t \in W
  <2>1. PICK f \in Id, g \in W : f[2] = g[1] /\ t = << f[1], g[2] >>
    BY DEF Joined
  <2>2. f[1] = f[2] /\ g = << g[1], g[2] >>
    BY DEF Id, Relation
  <2> QED BY <2>1, <2>2
<1>4. ASSUME NEW t \in Joined(W, Id) PROVE t \in W
  <2>1. PICK f \in W, g \in Id : f[2] = g[1] /\ t = << f[1], g[2] >>
    BY DEF Joined
  <2>2. g[1] = g[2] /\ f = << f[1], f[2] >>
    BY DEF Id, Relation
  <2> QED BY <2>1, <2>2
<1> QED
  BY <1>1, <1>2, <1>3, <1>4

-----------------------------------------------------------------------------
(* The operations on total functions, by cases *)

LEMMA Values ==
  /\ one # zero
  /\ \A R : Fun(R) # one /\ Fun(R) # zero /\ Fun(R).value = R
  /\ \A R, S : Fun(R) = Fun(S) <=> R = S
  /\ one.value = {}
  BY DEF one, zero, Fun

LEMMA TotalCases ==
  /\ \A u \in Total : u = one \/ u = zero \/ \E R \in TotalRelation : u = Fun(R)
  /\ one \in Total /\ zero \in Total
  /\ \A R \in TotalRelation : Fun(R) \in Total
  BY Values DEF Total, TransitionFunction, TotalRelation, Relation

LEMMA CombineCases ==
  /\ \A u \in Total : CombineWith(u, zero) = u /\ CombineWith(zero, u) = u
  /\ CombineWith(one, one) = one
  /\ \A R \in TotalRelation : /\ CombineWith(Fun(R), one) = Fun(R \cup Id)
                              /\ CombineWith(one, Fun(R)) = Fun(R \cup Id)
  /\ \A R, S \in TotalRelation : CombineWith(Fun(R), Fun(S)) = Fun(R \cup S)
<1>1. \A u \in Total : CombineWith(u, zero) = u /\ CombineWith(zero, u) = u
  BY DEF CombineWith
<1>2. CombineWith(one, one) = one
  BY Values DEF CombineWith
<1>3. ASSUME NEW R \in TotalRelation
      PROVE  CombineWith(Fun(R), one) = Fun(R \cup Id) /\ CombineWith(one, Fun(R)) = Fun(R \cup Id)
  <2>1. Fun(R) # one /\ Fun(R) # zero /\ one # zero /\ Fun(R).value = R /\ one.value = {}
    BY Values
  <2>2. Stays(R) = Id /\ R \cup {} = R /\ {} \cup R = R
    BY StaysIsId
  <2>3. CombineWith(Fun(R), one) = Fun((R \cup {}) \cup Stays(R \cup {}))
    BY <2>1 DEF CombineWith
  <2>4. CombineWith(one, Fun(R)) = Fun(({} \cup R) \cup Stays({} \cup R))
    BY <2>1 DEF CombineWith
  <2> QED BY <2>2, <2>3, <2>4
<1>4. \A R, S \in TotalRelation : CombineWith(Fun(R), Fun(S)) = Fun(R \cup S)
  BY Values DEF CombineWith
<1> QED
  BY <1>1, <1>2, <1>3, <1>4

LEMMA ExtendCases ==
  /\ \A u \in Total : ExtendWith(u, one) = u /\ ExtendWith(one, u) = u
  /\ \A u \in Total : ExtendWith(u, zero) = zero /\ ExtendWith(zero, u) = zero
  /\ \A R, S \in TotalRelation : ExtendWith(Fun(R), Fun(S)) = Fun(Joined(R, S))
<1>1. ASSUME NEW u \in Total
      PROVE  ExtendWith(u, one) = u /\ ExtendWith(one, u) = u
  BY DEF ExtendWith
<1>2. \A u \in Total : ExtendWith(u, zero) = zero /\ ExtendWith(zero, u) = zero
  BY Values DEF ExtendWith
<1>3. \A R, S \in TotalRelation : ExtendWith(Fun(R), Fun(S)) = Fun(Joined(R, S))
  BY Values DEF ExtendWith
<1> QED
  BY <1>1, <1>2, <1>3

LEMMA LeqCases ==
  ASSUME NEW u \in Total, NEW v \in Total
  PROVE  Leq(u, v) <=> \/ u = zero
                       \/ u = one /\ (v = one \/ \E S \in TotalRelation : v = Fun(S) /\ Id \subseteq S)
                       \/ \E R, S \in TotalRelation : u = Fun(R) /\ v = Fun(S) /\ R \subseteq S
<1>1. CASE u = zero
  BY <1>1, CombineCases DEF Leq
<1>2. CASE u # zero /\ v = zero
  BY <1>2, CombineCases, Values DEF Leq
<1>3. CASE u = one /\ v = one
  BY <1>3, CombineCases DEF Leq
<1>4. CASE u = one /\ \E S \in TotalRelation : v = Fun(S)
  <2>1. PICK S \in TotalRelation : v = Fun(S)
    BY <1>4
  <2>2. Leq(u, v) <=> S \cup Id = S
    <3>1. CombineWith(v, u) = Fun(S \cup Id)
      BY <1>4, <2>1, CombineCases
    <3> QED BY <2>1, <3>1, Values DEF Leq
  <2>3. Leq(u, v) <=> Id \subseteq S
    BY <2>2
  <2>4. u # zero /\ \A T : v = Fun(T) => T = S
    BY <1>4, <2>1, Values
  <2>5. v # one /\ \A R : u # Fun(R)
    BY <1>4, <2>1, Values
  <2> QED BY <1>4, <2>1, <2>3, <2>4, <2>5
<1>5. CASE (\E R \in TotalRelation : u = Fun(R)) /\ v = one
  <2>1. PICK R \in TotalRelation : u = Fun(R)
    BY <1>5
  <2>2. CombineWith(v, u) = Fun(R \cup Id)
    BY <1>5, <2>1, CombineCases
  <2> QED BY <1>5, <2>1, <2>2, Values DEF Leq
<1>6. CASE (\E R \in TotalRelation : u = Fun(R)) /\ \E S \in TotalRelation : v = Fun(S)
  <2>1. PICK R \in TotalRelation, S \in TotalRelation : u = Fun(R) /\ v = Fun(S)
    BY <1>6
  <2>2. Leq(u, v) <=> S \cup R = S
    <3>1. CombineWith(v, u) = Fun(S \cup R)
      BY <2>1, CombineCases
    <3> QED BY <2>1, <3>1, Values DEF Leq
  <2>3. Leq(u, v) <=> R \subseteq S
    BY <2>2
  <2>4. u # zero /\ u # one /\ \A P, T : u = Fun(P) /\ v = Fun(T) => P = R /\ T = S
    BY <2>1, Values
  <2> QED BY <2>1, <2>3, <2>4
<1> QED
  BY <1>1, <1>2, <1>3, <1>4, <1>5, <1>6, TotalCases

-----------------------------------------------------------------------------
(* The weight domain *)

\* What a function but zero says of every typestate
Full(u) == IF u = one THEN Id ELSE u.value

LEMMA CombineFull ==
  ASSUME NEW u \in Total \ {zero}, NEW v \in Total \ {zero}
  PROVE  /\ CombineWith(u, v) = IF u = one /\ v = one THEN one ELSE Fun(Full(u) \cup Full(v))
         /\ Full(u) \in TotalRelation
         /\ Full(CombineWith(u, v)) = Full(u) \cup Full(v)
         /\ CombineWith(u, v) \in Total \ {zero}
<1>1. Full(u) \in TotalRelation /\ Full(v) \in TotalRelation
  BY TotalCases, IdTotal, Values DEF Full
<1>2. CombineWith(u, v) = IF u = one /\ v = one THEN one ELSE Fun(Full(u) \cup Full(v))
  <2>1. CASE u = one /\ v = one
    BY <2>1, CombineCases
  <2>2. CASE u = one /\ v # one
    <3>1. PICK R \in TotalRelation : v = Fun(R)
      BY <2>2, TotalCases
    <3>2. Full(u) \cup Full(v) = R \cup Id
      BY <2>2, <3>1, Values DEF Full
    <3>3. CombineWith(u, v) = Fun(R \cup Id)
      BY <2>2, <3>1, CombineCases
    <3> QED BY <2>2, <3>2, <3>3
  <2>3. CASE u # one /\ v = one
    <3>1. PICK R \in TotalRelation : u = Fun(R)
      BY <2>3, TotalCases
    <3>2. Full(u) \cup Full(v) = R \cup Id
      BY <2>3, <3>1, Values DEF Full
    <3>3. CombineWith(u, v) = Fun(R \cup Id)
      BY <2>3, <3>1, CombineCases
    <3> QED BY <2>3, <3>2, <3>3
  <2>4. CASE u # one /\ v # one
    <3>1. PICK R \in TotalRelation : u = Fun(R)
      BY <2>4, TotalCases
    <3>2. PICK S \in TotalRelation : v = Fun(S)
      BY <2>4, TotalCases
    <3>3. Full(u) = R /\ Full(v) = S
      BY <2>4, <3>1, <3>2, Values DEF Full
    <3>4. CombineWith(u, v) = Fun(R \cup S)
      BY <3>1, <3>2, CombineCases
    <3> QED BY <2>4, <3>3, <3>4
  <2> QED BY <2>1, <2>2, <2>3, <2>4
<1>3. Full(one) = Id /\ \A R : Full(Fun(R)) = R
  BY Values DEF Full
<1>4. CASE u = one /\ v = one
  BY <1>1, <1>2, <1>3, <1>4, Values, TotalCases
<1>5. CASE ~ (u = one /\ v = one)
  <2>1. Full(u) \cup Full(v) \in TotalRelation
    BY <1>1, JoinedTotal
  <2>2. CombineWith(u, v) = Fun(Full(u) \cup Full(v))
    BY <1>2, <1>5
  <2> QED BY <1>1, <1>2, <1>3, <2>1, <2>2, Values, TotalCases
<1> QED
  BY <1>4, <1>5

LEMMA Closed2 ==
  ASSUME NEW u \in Total, NEW v \in Total
  PROVE  ExtendWith(u, v) \in Total /\ CombineWith(u, v) \in Total
<1>1. CombineWith(u, v) \in Total
  <2>1. CASE u = zero \/ v = zero
    BY <2>1, CombineCases
  <2>2. CASE u # zero /\ v # zero
    BY <2>2, CombineFull
  <2> QED BY <2>1, <2>2
<1>2. \A R, S \in TotalRelation : Fun(Joined(R, S)) \in Total
  BY JoinedTotal, TotalCases
<1>3. u = one \/ u = zero \/ \E R \in TotalRelation : u = Fun(R)
  BY TotalCases
<1>4. v = one \/ v = zero \/ \E R \in TotalRelation : v = Fun(R)
  BY TotalCases
<1> QED
  BY <1>1, <1>2, <1>3, <1>4, ExtendCases

LEMMA Associative ==
  ASSUME NEW u \in Total, NEW v \in Total, NEW w \in Total
  PROVE  CombineWith(CombineWith(u, v), w) = CombineWith(u, CombineWith(v, w))
<1>1. CASE zero \in {u, v, w}
  BY <1>1, CombineCases, Closed2
<1>2. CASE u = one /\ v = one /\ w = one
  BY <1>2, CombineCases
<1>3. CASE zero \notin {u, v, w} /\ ~ (u = one /\ v = one /\ w = one)
  <2> DEFINE uv == CombineWith(u, v)
             vw == CombineWith(v, w)
  <2>1. /\ uv \in Total \ {zero} /\ Full(uv) = Full(u) \cup Full(v)
        /\ uv = IF u = one /\ v = one THEN one ELSE Fun(Full(u) \cup Full(v))
    BY <1>3, CombineFull
  <2>2. /\ vw \in Total \ {zero} /\ Full(vw) = Full(v) \cup Full(w)
        /\ vw = IF v = one /\ w = one THEN one ELSE Fun(Full(v) \cup Full(w))
    BY <1>3, CombineFull
  <2>3. ~ (uv = one /\ w = one) /\ ~ (u = one /\ vw = one)
    BY <1>3, <2>1, <2>2, Values
  <2> HIDE DEF uv, vw
  <2>4. CombineWith(uv, w) = Fun(Full(uv) \cup Full(w))
    BY <1>3, <2>1, <2>3, CombineFull
  <2>5. CombineWith(u, vw) = Fun(Full(u) \cup Full(vw))
    BY <1>3, <2>2, <2>3, CombineFull
  <2>6. Full(uv) \cup Full(w) = Full(u) \cup Full(vw)
    BY <2>1, <2>2
  <2> QED BY <2>4, <2>5, <2>6 DEF uv, vw
<1> QED
  BY <1>1, <1>2, <1>3

LEMMA Monotone ==
  ASSUME NEW u \in Total, NEW v \in Total, NEW w \in Total, Leq(u, v)
  PROVE  Leq(ExtendWith(u, w), ExtendWith(v, w)) /\ Leq(ExtendWith(w, u), ExtendWith(w, v))
<1>1. /\ ExtendWith(u, w) \in Total /\ ExtendWith(v, w) \in Total
      /\ ExtendWith(w, u) \in Total /\ ExtendWith(w, v) \in Total
  BY Closed2
<1>2. CASE w = one
  BY <1>2, ExtendCases
<1>3. CASE w = zero \/ u = zero
  BY <1>1, <1>3, ExtendCases, LeqCases, TotalCases
<1>4. CASE u = one /\ v = one
  BY <1>1, <1>4, CombineCases, ExtendCases, Values, TotalCases DEF Leq
<1>5. ASSUME NEW W \in TotalRelation, w = Fun(W),
             NEW S \in TotalRelation, v = Fun(S), Id \subseteq S, u = one
      PROVE  Leq(ExtendWith(u, w), ExtendWith(v, w)) /\ Leq(ExtendWith(w, u), ExtendWith(w, v))
  <2>1. /\ ExtendWith(u, w) = Fun(W) /\ ExtendWith(w, u) = Fun(W)
        /\ ExtendWith(v, w) = Fun(Joined(S, W)) /\ ExtendWith(w, v) = Fun(Joined(W, S))
    BY <1>5, ExtendCases
  <2>2. W \subseteq Joined(S, W) /\ W \subseteq Joined(W, S)
    BY <1>5, IdTotal, JoinedId, JoinedMonotone DEF TotalRelation
  <2>3. Joined(S, W) \in TotalRelation /\ Joined(W, S) \in TotalRelation
    BY JoinedTotal
  <2> QED BY <1>1, <2>1, <2>2, <2>3, LeqCases
<1>6. ASSUME NEW W \in TotalRelation, w = Fun(W),
             NEW R \in TotalRelation, u = Fun(R),
             NEW S \in TotalRelation, v = Fun(S), R \subseteq S
      PROVE  Leq(ExtendWith(u, w), ExtendWith(v, w)) /\ Leq(ExtendWith(w, u), ExtendWith(w, v))
  <2>1. /\ ExtendWith(u, w) = Fun(Joined(R, W)) /\ ExtendWith(w, u) = Fun(Joined(W, R))
        /\ ExtendWith(v, w) = Fun(Joined(S, W)) /\ ExtendWith(w, v) = Fun(Joined(W, S))
    BY <1>6, ExtendCases
  <2>2. Joined(R, W) \subseteq Joined(S, W) /\ Joined(W, R) \subseteq Joined(W, S)
    BY <1>6, JoinedMonotone DEF TotalRelation
  <2>3. /\ Joined(S, W) \in TotalRelation /\ Joined(W, S) \in TotalRelation
        /\ Joined(R, W) \in TotalRelation /\ Joined(W, R) \in TotalRelation
    BY JoinedTotal
  <2> QED BY <1>1, <2>1, <2>2, <2>3, LeqCases
<1>7. w = one \/ w = zero \/ \E W \in TotalRelation : w = Fun(W)
  BY TotalCases
<1>8. \/ u = zero
      \/ u = one /\ (v = one \/ \E S \in TotalRelation : v = Fun(S) /\ Id \subseteq S)
      \/ \E R, S \in TotalRelation : u = Fun(R) /\ v = Fun(S) /\ R \subseteq S
  BY LeqCases
<1> QED
  BY <1>2, <1>3, <1>4, <1>5, <1>6, <1>7, <1>8

\* The functions that mention every typestate, with the two constants, satisfy
\* WeightAssumption and OrderAssumption of PostStar, whatever the typestates
\* (TransitionFunction.extendWith, combineWith).
THEOREM TotalIsOrdered ==
  /\ one \in Total
  /\ \A u, v \in Total : ExtendWith(u, v) \in Total /\ CombineWith(u, v) \in Total
  /\ \A u \in Total : CombineWith(u, u) = u
  /\ \A u, v \in Total : CombineWith(u, v) = CombineWith(v, u)
  /\ \A u, v, w \in Total :
       CombineWith(CombineWith(u, v), w) = CombineWith(u, CombineWith(v, w))
  /\ \A u, v, w \in Total :
       Leq(u, v) => /\ Leq(ExtendWith(u, w), ExtendWith(v, w))
                    /\ Leq(ExtendWith(w, u), ExtendWith(w, v))
<1>1. \A u \in Total : CombineWith(u, u) = u
  BY CombineCases, TotalCases
<1>2. ASSUME NEW u \in Total, NEW v \in Total
      PROVE  CombineWith(u, v) = CombineWith(v, u)
  <2>1. CASE u = zero \/ v = zero
    BY <2>1, CombineCases
  <2>2. CASE u # zero /\ v # zero
    <3>1. Full(u) \cup Full(v) = Full(v) \cup Full(u)
      OBVIOUS
    <3>2. CombineWith(u, v) = IF u = one /\ v = one THEN one ELSE Fun(Full(u) \cup Full(v))
      BY <2>2, CombineFull
    <3>3. CombineWith(v, u) = IF v = one /\ u = one THEN one ELSE Fun(Full(v) \cup Full(u))
      BY <2>2, CombineFull
    <3> QED BY <3>1, <3>2, <3>3
  <2> QED BY <2>1, <2>2
<1> QED
  BY <1>1, <1>2, TotalCases, Closed2, Associative, Monotone

\* Where a function leaves a typestate out, what combining with one adds depends on
\* what has been combined before: the identity of y is lost (TransitionFunction:86).
THEOREM PartialDependsOnOrder ==
  ASSUME NEW x \in TypeState, NEW y \in TypeState, x # y
  PROVE  CombineWith(CombineWith(Fun({<< x, y >>}), one), Fun({<< y, x >>}))
           # CombineWith(CombineWith(Fun({<< x, y >>}), Fun({<< y, x >>})), one)
<1> DEFINE R == {<< x, y >>}
           S == {<< y, x >>}
<1>1. \A P : /\ Fun(P) # one /\ Fun(P) # zero /\ Fun(P).value = P
             /\ one.value = {} /\ one # zero
  BY Values
<1>2. \A P : CombineWith(Fun(P), one) = Fun(P \cup Stays(P))
  <2>1. \A P : P \cup {} = P
    OBVIOUS
  <2> QED BY <1>1, <2>1 DEF CombineWith
<1>3. \A P, Q : CombineWith(Fun(P), Fun(Q)) = Fun(P \cup Q)
  BY <1>1 DEF CombineWith
<1>4. /\ CombineWith(CombineWith(Fun(R), one), Fun(S)) = Fun((R \cup Stays(R)) \cup S)
      /\ CombineWith(CombineWith(Fun(R), Fun(S)), one) = Fun((R \cup S) \cup Stays(R \cup S))
  BY <1>2, <1>3
<1>5. << y, y >> \notin (R \cup Stays(R)) \cup S
  BY DEF Stays
<1>6. << y, y >> \in Stays(R \cup S)
  BY DEF Stays
<1>7. (R \cup Stays(R)) \cup S # (R \cup S) \cup Stays(R \cup S)
  BY <1>5, <1>6
<1> HIDE DEF R, S
<1>8. Fun((R \cup Stays(R)) \cup S) # Fun((R \cup S) \cup Stays(R \cup S))
  BY <1>7, Values
<1> QED
  BY <1>4, <1>8 DEF R, S
=============================================================================
