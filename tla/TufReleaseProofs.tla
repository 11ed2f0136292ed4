-------------------------- MODULE TufReleaseProofs --------------------------
(***************************************************************************)
(* The abstract release model keeps its promise against rollback.  The    *)
(* argument: the release trusted, when there is one, is the newest ever   *)
(* trusted, and the newest ever trusted only grows, so once it has        *)
(* reached v it stays at v or above.                                       *)
(***************************************************************************)
EXTENDS TufRelease, TLAPS

RInv ==
    /\ trusted \in Nat
    /\ highest \in Nat
    /\ trusted # 0 => trusted = highest

LEMMA InitRInv == Init => RInv
BY DEF Init, RInv

LEMMA NextRInv == RInv /\ [Next]_relVars => RInv'
<1> SUFFICES ASSUME RInv, [Next]_relVars PROVE RInv'
    OBVIOUS
<1>1. CASE Publish
    BY <1>1 DEF Publish, RInv
<1>2. ASSUME NEW v \in 1..MaxRelease, Adopt(v)
      PROVE  RInv'
    BY <1>2 DEF Adopt, RInv
<1>3. CASE Drop
    BY <1>3 DEF Drop, RInv
<1>4. CASE UNCHANGED relVars
    BY <1>4 DEF relVars, RInv
<1>5. QED
    BY <1>1, <1>2, <1>3, <1>4 DEF Next

\* Adopt only accepts releases no older than the newest ever trusted, so
\* that one never goes down.
LEMMA HighestStable ==
    ASSUME NEW v \in Nat
    PROVE  RInv /\ highest >= v /\ [Next]_relVars => (highest >= v)'
<1> SUFFICES ASSUME RInv, highest >= v, [Next]_relVars PROVE highest' >= v
    OBVIOUS
<1>1. CASE Publish
    BY <1>1 DEF Publish
<1>2. ASSUME NEW w \in 1..MaxRelease, Adopt(w)
      PROVE  highest' >= v
    BY <1>2 DEF Adopt, RInv
<1>3. CASE Drop
    BY <1>3 DEF Drop
<1>4. CASE UNCHANGED relVars
    BY <1>4 DEF relVars
<1>5. QED
    BY <1>1, <1>2, <1>3, <1>4 DEF Next

\* The abstract model never rolls back (Adopt's guard v >= highest).
THEOREM ReleaseNoRollback == Spec => NoRollback
<1>1. Spec => []RInv
    BY InitRInv, NextRInv, PTL DEF Spec
<1>2. ASSUME NEW v \in 1..MaxRelease
      PROVE  Spec => [](trusted = v => [](trusted # 0 => trusted >= v))
    <2>1. RInv /\ trusted = v => highest >= v
        BY DEF RInv
    <2>2. RInv /\ highest >= v /\ [Next]_relVars => (highest >= v)'
        BY HighestStable
    <2>3. RInv /\ highest >= v => (trusted # 0 => trusted >= v)
        BY DEF RInv
    <2>4. QED
        BY <1>1, <2>1, <2>2, <2>3, PTL DEF Spec
<1>3. QED
    BY <1>2 DEF NoRollback
====
