-------------------------------- MODULE Sums --------------------------------
(***************************************************************************)
(* Facts about totals.  The models add up amounts with the community       *)
(* modules' SumFunctionOnSet, a recursive function over the subsets of the *)
(* index set; the money invariants need to know what happens to a total    *)
(* when one summand comes, goes or changes.                                *)
(*                                                                         *)
(* Everything here is induction over finite sets.  It is done by looking   *)
(* at a least counterexample: any non-empty set of naturals has a least    *)
(* element, so a family of finite sets that is not empty has a member none *)
(* of whose proper subsets belongs to the family.                          *)
(***************************************************************************)
EXTENDS Integers, FiniteSets, Functions, FiniteSetTheorems, WellFoundedInduction, TLAPS

(* A non-empty set of naturals has a least element.                        *)
LEMMA LeastNatural ==
    ASSUME NEW T \in SUBSET Nat, T # {}
    PROVE  \E m \in T : \A n \in T : m <= n
<1> DEFINE Less == {ss \in Nat \X Nat : ss[1] < ss[2]}
<1>1. IsWellFoundedOn(Less, Nat)
  BY NatLessThanWellFounded DEF OpToRel
<1>2. PICK m \in T : \A n \in T : <<n, m>> \notin Less
  BY <1>1, WFMin
<1>3. ASSUME NEW n \in T PROVE m <= n
  <2>1. m \in Nat /\ n \in Nat /\ <<n, m>> \in Nat \X Nat
    OBVIOUS
  <2>2. ~(n < m)
    BY <1>2, <2>1
  <2> QED
    BY <2>1, <2>2
<1> QED
  BY <1>3

(* A non-empty set of naturals that is bounded has a greatest element.     *)
LEMMA GreatestNatural ==
    ASSUME NEW T \in SUBSET Nat, T # {}, NEW b \in Nat, \A n \in T : n <= b
    PROVE  \E m \in T : \A n \in T : n <= m
<1> DEFINE U == {k \in Nat : \A n \in T : n <= k}
<1>1. b \in U
  OBVIOUS
<1>2. PICK m \in U : \A k \in U : m <= k
  BY <1>1, LeastNatural
<1>3. m \in T
  <2> SUFFICES ASSUME m \notin T PROVE FALSE
    OBVIOUS
  <2>1. \A n \in T : n <= m - 1 /\ m - 1 \in Nat
    BY <1>2
  <2>2. m - 1 \in U
    BY <2>1
  <2> QED
    BY <1>2, <2>2
<1> QED
  BY <1>2, <1>3

(* A family of finite sets that is not empty has a minimal member.         *)
LEMMA MinimalMember ==
    ASSUME NEW S, IsFiniteSet(S), NEW Bad \in SUBSET SUBSET S, Bad # {}
    PROVE  \E s \in Bad : \A t \in SUBSET s : t # s => t \notin Bad
<1> DEFINE Sizes == {Cardinality(s) : s \in Bad}
<1>1. \A s \in SUBSET S : IsFiniteSet(s) /\ Cardinality(s) \in Nat
  BY FS_Subset, FS_CardinalityType
<1>2. Sizes \in SUBSET Nat /\ Sizes # {}
  BY <1>1
<1>3. PICK m \in Sizes : \A n \in Sizes : m <= n
  BY <1>2, LeastNatural
<1>4. PICK s \in Bad : Cardinality(s) = m
  BY <1>3
<1>5. ASSUME NEW t \in SUBSET s, t # s PROVE t \notin Bad
  <2>1. Cardinality(t) < Cardinality(s)
    BY <1>1, <1>5, FS_Subset
  <2> QED
    BY <1>1, <1>2, <1>3, <1>4, <2>1
<1> QED
  BY <1>4, <1>5

-----------------------------------------------------------------------------
(* The recursive function behind a total. *)

Pick(s) == CHOOSE x \in s : TRUE
Adds(g, f, D) ==
    g = [s \in D |-> IF s = {} THEN 0 ELSE f[Pick(s)] + g[s \ {Pick(s)}]]
Partial(f, S) == CHOOSE g : Adds(g, f, SUBSET S)

(* Pick takes an element of the set.                                       *)
LEMMA PickIn == ASSUME NEW s, s # {} PROVE Pick(s) \in s
  BY DEF Pick

(* The definition of the library, in these terms.                          *)
LEMMA SumIsPartial ==
    ASSUME NEW f, NEW S PROVE SumFunctionOnSet(f, S) = Partial(f, S)[S]
  BY DEF SumFunctionOnSet, FoldFunctionOnSet, MapThenFoldSet, Partial, Adds, Pick

(* Such a function exists: one for the sets of at most n + 1 elements is   *)
(* made from one for those of at most n.                                   *)
LEMMA PartialExists ==
    ASSUME NEW f, NEW S, IsFiniteSet(S)
    PROVE  Adds(Partial(f, S), f, SUBSET S)
<1> DEFINE Small(n) == {s \in SUBSET S : Cardinality(s) <= n}
           Bad == {n \in Nat : ~\E g : Adds(g, f, Small(n))}
<1>1. \A s \in SUBSET S : IsFiniteSet(s) /\ Cardinality(s) \in Nat /\ Cardinality(s) <= Cardinality(S)
  BY FS_Subset, FS_CardinalityType
<1>2. \A s \in SUBSET S : s # {} =>
          /\ s \ {Pick(s)} \in SUBSET S
          /\ Cardinality(s \ {Pick(s)}) = Cardinality(s) - 1
  BY <1>1, PickIn, FS_RemoveElement
<1>3. 0 \notin Bad
  <2> DEFINE g == [s \in Small(0) |-> 0]
  <2>1. \A s \in Small(0) : s = {}
    BY <1>1, FS_EmptySet
  <2>2. Adds(g, f, Small(0))
    BY <2>1 DEF Adds
  <2> QED
    BY <2>2
<1>4. ASSUME NEW n \in Nat, n \notin Bad PROVE n + 1 \notin Bad
  <2>1. PICK g : Adds(g, f, Small(n))
    BY <1>4
  <2> DEFINE h == [s \in Small(n + 1) |-> IF s = {} THEN 0 ELSE f[Pick(s)] + g[s \ {Pick(s)}]]
  <2>2. ASSUME NEW s \in Small(n) PROVE s \in Small(n + 1) /\ h[s] = g[s]
    <3>1. s \in Small(n + 1)
      BY <1>1
    <3> DEFINE body(r) == IF r = {} THEN 0 ELSE f[Pick(r)] + g[r \ {Pick(r)}]
    <3>2. g = [r \in Small(n) |-> body(r)]
      BY <2>1 DEF Adds
    <3>3. g[s] = body(s)
      <4> HIDE DEF body, Small
      <4> QED
        BY <3>2
    <3>4. h[s] = body(s)
      BY <3>1
    <3> QED
      BY <3>1, <3>3, <3>4
  <2>3. \A s \in Small(n + 1) : s # {} => s \ {Pick(s)} \in Small(n)
    BY <1>1, <1>2
  <2>4. Adds(h, f, Small(n + 1))
    BY <2>2, <2>3 DEF Adds
  <2> QED
    BY <2>4
<1>5. Bad = {}
  <2> SUFFICES ASSUME Bad # {} PROVE FALSE
    OBVIOUS
  <2> HIDE DEF Bad
  <2>1. Bad \in SUBSET Nat
    BY DEF Bad
  <2>2. PICK m \in Bad : \A n \in Bad : m <= n
    BY <2>1, LeastNatural
  <2>3. m - 1 \in Nat /\ m - 1 \notin Bad
    BY <2>1, <2>2, <1>3
  <2> QED
    BY <2>1, <2>2, <2>3, <1>4
<1>6. Small(Cardinality(S)) = SUBSET S /\ Cardinality(S) \in Nat
  BY <1>1
<1>7. \E g : Adds(g, f, SUBSET S)
  BY <1>5, <1>6
<1> QED
  BY <1>7 DEF Partial

(* It does not depend on the set it was made for.                          *)
LEMMA PartialUnique ==
    ASSUME NEW f, NEW S, IsFiniteSet(S), NEW T \in SUBSET S, NEW s \in SUBSET T
    PROVE  Partial(f, S)[s] = Partial(f, T)[s]
<1> DEFINE g == Partial(f, S)
           h == Partial(f, T)
           Bad == {r \in SUBSET T : g[r] # h[r]}
<1>1. IsFiniteSet(T) /\ SUBSET T \subseteq SUBSET S
  BY FS_Subset
<1>2. Adds(g, f, SUBSET S) /\ Adds(h, f, SUBSET T)
  BY <1>1, PartialExists
<1> HIDE DEF g, h
<1>3. \A r \in SUBSET T :
          /\ g[r] = IF r = {} THEN 0 ELSE f[Pick(r)] + g[r \ {Pick(r)}]
          /\ h[r] = IF r = {} THEN 0 ELSE f[Pick(r)] + h[r \ {Pick(r)}]
  BY <1>1, <1>2 DEF Adds
<1>4. Bad = {}
  <2> SUFFICES ASSUME Bad # {} PROVE FALSE
    OBVIOUS
  <2>1. PICK r \in Bad : \A u \in SUBSET r : u # r => u \notin Bad
    <3>1. Bad \in SUBSET SUBSET T
      OBVIOUS
    <3> HIDE DEF Bad
    <3> QED
      BY <1>1, <3>1, MinimalMember
  <2>2. r # {}
    BY <1>3
  <2>3. r \ {Pick(r)} \in SUBSET r /\ r \ {Pick(r)} # r
    BY <2>2, PickIn
  <2>4. g[r \ {Pick(r)}] = h[r \ {Pick(r)}]
    BY <2>1, <2>3
  <2> QED
    BY <1>3, <2>1, <2>2, <2>4
<1> QED
  BY <1>4 DEF g, h

-----------------------------------------------------------------------------
(* Totals. *)

(* The total of nothing.                                                   *)
LEMMA SumEmpty == ASSUME NEW f PROVE SumFunctionOnSet(f, {}) = 0
<1>1. IsFiniteSet({})
  BY FS_EmptySet
<1>2. Adds(Partial(f, {}), f, SUBSET {})
  BY <1>1, PartialExists
<1>3. Partial(f, {})[{}] = 0
  BY <1>2 DEF Adds
<1> QED
  BY <1>3, SumIsPartial

(* The library's equation, for the element it happens to take first.       *)
LEMMA SumPick ==
    ASSUME NEW f, NEW S, IsFiniteSet(S), S # {}
    PROVE  SumFunctionOnSet(f, S) = f[Pick(S)] + SumFunctionOnSet(f, S \ {Pick(S)})
<1> DEFINE R == S \ {Pick(S)}
<1>1. Adds(Partial(f, S), f, SUBSET S)
  BY PartialExists
<1>2. Partial(f, S)[S] = f[Pick(S)] + Partial(f, S)[R]
  BY <1>1 DEF Adds
<1>3. Partial(f, S)[R] = Partial(f, R)[R]
  BY PartialUnique
<1> QED
  BY <1>2, <1>3, SumIsPartial

(* A total of integers is an integer.                                      *)
LEMMA SumType ==
    ASSUME NEW f, NEW S, IsFiniteSet(S), \A x \in S : f[x] \in Int
    PROVE  SumFunctionOnSet(f, S) \in Int
<1> DEFINE sum(T) == SumFunctionOnSet(f, T)
           Bad == {T \in SUBSET S : sum(T) \notin Int}
<1> SUFFICES ASSUME Bad # {} PROVE FALSE
  OBVIOUS
<1>1. PICK T \in Bad : \A U \in SUBSET T : U # T => U \notin Bad
  <2>1. Bad \in SUBSET SUBSET S
    OBVIOUS
  <2> HIDE DEF Bad
  <2> QED
    BY <2>1, MinimalMember
<1>2. T # {}
  BY SumEmpty
<1>3. Pick(T) \in T /\ T \ {Pick(T)} \in SUBSET T /\ T \ {Pick(T)} # T /\ IsFiniteSet(T)
  BY <1>2, PickIn, FS_Subset
<1>4. sum(T) = f[Pick(T)] + sum(T \ {Pick(T)})
  BY <1>2, <1>3, SumPick
<1>5. sum(T \ {Pick(T)}) \in Int
  BY <1>1, <1>3
<1> QED
  BY <1>1, <1>3, <1>4, <1>5

(* Any element may be taken out first.                                     *)
LEMMA SumTake ==
    ASSUME NEW f, NEW S, IsFiniteSet(S), \A x \in S : f[x] \in Int, NEW a \in S
    PROVE  SumFunctionOnSet(f, S) = f[a] + SumFunctionOnSet(f, S \ {a})
<1> DEFINE sum(T) == SumFunctionOnSet(f, T)
           Bad == {T \in SUBSET S : \E x \in T : sum(T) # f[x] + sum(T \ {x})}
<1>1. \A T \in SUBSET S : sum(T) \in Int
  BY SumType, FS_Subset
<1>2. \A T \in SUBSET S : T # {} => Pick(T) \in T /\ sum(T) = f[Pick(T)] + sum(T \ {Pick(T)})
  BY SumPick, PickIn, FS_Subset
<1> HIDE DEF sum
<1>3. Bad = {}
  <2> SUFFICES ASSUME Bad # {} PROVE FALSE
    OBVIOUS
  <2>1. PICK T \in Bad : \A U \in SUBSET T : U # T => U \notin Bad
    <3>1. Bad \in SUBSET SUBSET S
      OBVIOUS
    <3> HIDE DEF Bad
    <3> QED
      BY <3>1, MinimalMember
  <2>2. PICK x \in T : sum(T) # f[x] + sum(T \ {x})
    OBVIOUS
  <2> DEFINE p == Pick(T)
             rest == (T \ {x}) \ {p}
  <2>3. p \in T /\ sum(T) = f[p] + sum(T \ {p}) /\ p # x
    BY <1>2, <2>2
  <2>4. T \ {p} \notin Bad /\ T \ {x} \notin Bad
    BY <2>1, <2>2, <2>3
  <2> HIDE DEF p
  <2>5. sum(T \ {p}) = f[x] + sum(rest)
    <3>1. (T \ {p}) \ {x} = rest
      OBVIOUS
    <3> QED
      BY <2>3, <2>4, <3>1
  <2>6. sum(T \ {x}) = f[p] + sum(rest)
    BY <2>3, <2>4
  <2>7. {sum(T), sum(T \ {p}), sum(T \ {x}), sum(rest), f[p], f[x]} \subseteq Int
    BY <1>1, <2>3
  <2> QED
    BY <2>2, <2>3, <2>5, <2>6, <2>7
<1> QED
  BY <1>3 DEF sum

(* Both facts, for the subsets of one set.                                 *)
LEMMA SumSubsets ==
    ASSUME NEW f, NEW S, IsFiniteSet(S), \A x \in S : f[x] \in Int
    PROVE  \A T \in SUBSET S :
             /\ SumFunctionOnSet(f, T) \in Int
             /\ \A x \in T : SumFunctionOnSet(f, T) = f[x] + SumFunctionOnSet(f, T \ {x})
<1> TAKE T \in SUBSET S
<1>1. IsFiniteSet(T) /\ \A x \in T : f[x] \in Int
  BY FS_Subset
<1>2. SumFunctionOnSet(f, T) \in Int
  BY <1>1, SumType
<1>3. ASSUME NEW x \in T PROVE SumFunctionOnSet(f, T) = f[x] + SumFunctionOnSet(f, T \ {x})
  BY <1>1, SumTake
<1> QED
  BY <1>2, <1>3

(* A new element adds its summand.                                         *)
LEMMA SumAdd ==
    ASSUME NEW f, NEW S, IsFiniteSet(S), NEW a, a \notin S, \A x \in S \cup {a} : f[x] \in Int
    PROVE  SumFunctionOnSet(f, S \cup {a}) = f[a] + SumFunctionOnSet(f, S)
<1>1. IsFiniteSet(S \cup {a}) /\ (S \cup {a}) \ {a} = S
  BY FS_AddElement
<1> QED
  BY <1>1, SumTake

(* Smaller summands make no larger total.                                  *)
LEMMA SumPointwise ==
    ASSUME NEW f, NEW h, NEW S, IsFiniteSet(S),
           \A x \in S : f[x] \in Int /\ h[x] \in Int /\ f[x] <= h[x]
    PROVE  SumFunctionOnSet(f, S) <= SumFunctionOnSet(h, S)
<1> DEFINE F(T) == SumFunctionOnSet(f, T)
           H(T) == SumFunctionOnSet(h, T)
           Bad == {T \in SUBSET S : ~(F(T) <= H(T))}
<1>1. \A T \in SUBSET S : F(T) \in Int /\ \A x \in T : F(T) = f[x] + F(T \ {x})
  BY SumSubsets
<1>2. \A T \in SUBSET S : H(T) \in Int /\ \A x \in T : H(T) = h[x] + H(T \ {x})
  BY SumSubsets
<1>3. F({}) = 0 /\ H({}) = 0
  BY SumEmpty
<1>4. Bad \in SUBSET SUBSET S
  OBVIOUS
<1>5. SUFFICES ASSUME Bad # {} PROVE FALSE
  BY <1>1
<1>6. PICK T \in Bad : \A U \in SUBSET T : U # T => U \notin Bad
  <2> HIDE DEF Bad
  <2> QED
    BY <1>4, <1>5, MinimalMember
<1> HIDE DEF F, H
<1>7. PICK x \in T : TRUE
  <2>1. F({}) <= H({})
    BY <1>3
  <2>2. T # {}
    BY <1>6, <2>1
  <2> QED
    BY <2>2
<1>8. F(T \ {x}) <= H(T \ {x})
  BY <1>6, <1>7
<1>9. F(T) = f[x] + F(T \ {x}) /\ H(T) = h[x] + H(T \ {x})
  BY <1>1, <1>2, <1>6, <1>7
<1>10. {f[x], h[x], F(T), H(T), F(T \ {x}), H(T \ {x})} \subseteq Int /\ f[x] <= h[x]
  BY <1>1, <1>2, <1>6, <1>7
<1> QED
  BY <1>6, <1>8, <1>9, <1>10

(* Equal summands make equal totals.                                       *)
LEMMA SumEqual ==
    ASSUME NEW f, NEW h, NEW S, IsFiniteSet(S), \A x \in S : f[x] \in Int /\ f[x] = h[x]
    PROVE  SumFunctionOnSet(f, S) = SumFunctionOnSet(h, S)
<1>1. \A x \in S : f[x] \in Int /\ h[x] \in Int /\ f[x] <= h[x] /\ h[x] <= f[x]
  OBVIOUS
<1>2. SumFunctionOnSet(f, S) \in Int /\ SumFunctionOnSet(h, S) \in Int
  BY <1>1, SumType
<1>3. SumFunctionOnSet(f, S) <= SumFunctionOnSet(h, S) /\ SumFunctionOnSet(h, S) <= SumFunctionOnSet(f, S)
  BY <1>1, SumPointwise
<1> QED
  BY <1>2, <1>3

(* One summand changes.                                                    *)
LEMMA SumChange ==
    ASSUME NEW f, NEW h, NEW S, IsFiniteSet(S), NEW a \in S,
           \A x \in S : f[x] \in Int /\ h[x] \in Int,
           \A x \in S \ {a} : f[x] = h[x]
    PROVE  SumFunctionOnSet(h, S) = SumFunctionOnSet(f, S) + h[a] - f[a]
<1> DEFINE R == S \ {a}
<1>1. IsFiniteSet(R)
  BY FS_Subset
<1>2. SumFunctionOnSet(f, R) = SumFunctionOnSet(h, R) /\ SumFunctionOnSet(f, R) \in Int
  BY <1>1, SumEqual, SumType
<1>3. SumFunctionOnSet(f, S) = f[a] + SumFunctionOnSet(f, R)
  BY SumTake
<1>4. SumFunctionOnSet(h, S) = h[a] + SumFunctionOnSet(h, R)
  BY SumTake
<1> QED
  BY <1>2, <1>3, <1>4

(* Fewer summands make no larger total, if none is negative.               *)
LEMMA SumFewer ==
    ASSUME NEW f, NEW S, IsFiniteSet(S), \A x \in S : f[x] \in Nat, NEW T \in SUBSET S
    PROVE  /\ SumFunctionOnSet(f, T) \in Nat
           /\ SumFunctionOnSet(f, T) <= SumFunctionOnSet(f, S)
<1> DEFINE F(U) == SumFunctionOnSet(f, U)
           Low == {U \in SUBSET S : ~(F(U) >= 0)}
           Bad == {U \in SUBSET S : T \subseteq U /\ ~(F(T) <= F(U))}
<1>1. \A U \in SUBSET S : F(U) \in Int /\ \A x \in U : F(U) = f[x] + F(U \ {x})
  BY SumSubsets
<1>2. F({}) = 0
  BY SumEmpty
<1> HIDE DEF F
<1>3. Low = {}
  <2> SUFFICES ASSUME Low # {} PROVE FALSE
    OBVIOUS
  <2>1. Low \in SUBSET SUBSET S
    OBVIOUS
  <2>2. PICK U \in Low : \A V \in SUBSET U : V # U => V \notin Low
    <3> HIDE DEF Low
    <3> QED
      BY <2>1, MinimalMember
  <2>3. PICK x \in U : TRUE
    <3>1. ~(F(U) >= 0) /\ F({}) >= 0
      BY <1>2, <2>2
    <3>2. U # {}
      BY <3>1
    <3> QED
      BY <3>2
  <2>4. F(U \ {x}) >= 0 /\ F(U \ {x}) \in Int /\ F(U) = f[x] + F(U \ {x}) /\ f[x] \in Nat
    BY <1>1, <2>2, <2>3
  <2> QED
    BY <2>2, <2>4
<1>4. Bad = {}
  <2> SUFFICES ASSUME Bad # {} PROVE FALSE
    OBVIOUS
  <2>1. Bad \in SUBSET SUBSET S
    OBVIOUS
  <2>2. PICK U \in Bad : \A V \in SUBSET U : V # U => V \notin Bad
    <3> HIDE DEF Bad
    <3> QED
      BY <2>1, MinimalMember
  <2>3. PICK x \in U : x \notin T
    <3>1. ~(F(T) <= F(U)) /\ F(T) <= F(T) /\ T \subseteq U
      BY <1>1, <2>2
    <3>2. U # T
      BY <3>1
    <3> QED
      BY <3>1, <3>2
  <2>4. F(T) <= F(U \ {x})
    BY <2>2, <2>3
  <2>5. F(U \ {x}) \in Int /\ F(U) = f[x] + F(U \ {x}) /\ f[x] \in Nat /\ F(T) \in Int
    BY <1>1, <2>2, <2>3
  <2> QED
    BY <2>2, <2>4, <2>5
<1> QED
  BY <1>1, <1>3, <1>4 DEF F

(* A total over a part is the total over the whole with the other summands *)
(* set to zero.                                                            *)
LEMMA SumSelect ==
    ASSUME NEW f, NEW h, NEW S, IsFiniteSet(S), NEW T \in SUBSET S,
           \A x \in T : f[x] \in Int /\ h[x] = f[x],
           \A x \in S \ T : h[x] = 0
    PROVE  SumFunctionOnSet(h, S) = SumFunctionOnSet(f, T)
<1> DEFINE H(U) == SumFunctionOnSet(h, U)
           Bad == {U \in SUBSET S : T \subseteq U /\ H(U) # H(T)}
<1>1. \A U \in SUBSET S : H(U) \in Int /\ \A x \in U : H(U) = h[x] + H(U \ {x})
  BY SumSubsets
<1>2. H(T) = SumFunctionOnSet(f, T)
  BY SumEqual, FS_Subset
<1> HIDE DEF H
<1>3. Bad = {}
  <2> SUFFICES ASSUME Bad # {} PROVE FALSE
    OBVIOUS
  <2>1. Bad \in SUBSET SUBSET S
    OBVIOUS
  <2>2. PICK U \in Bad : \A V \in SUBSET U : V # U => V \notin Bad
    <3> HIDE DEF Bad
    <3> QED
      BY <2>1, MinimalMember
  <2>3. PICK x \in U : x \notin T
    <3>1. H(U) # H(T) /\ T \subseteq U
      BY <2>2
    <3>2. U # T
      BY <3>1
    <3> QED
      BY <3>1, <3>2
  <2>4. H(U \ {x}) = H(T) /\ h[x] = 0
    BY <2>2, <2>3
  <2>5. H(U \ {x}) \in Int /\ H(U) = h[x] + H(U \ {x})
    BY <1>1, <2>2, <2>3
  <2> QED
    BY <2>2, <2>4, <2>5
<1> QED
  BY <1>2, <1>3 DEF H

(* Nothing but zeros.                                                      *)
LEMMA SumNone ==
    ASSUME NEW f, NEW S, IsFiniteSet(S), \A x \in S : f[x] = 0
    PROVE  SumFunctionOnSet(f, S) = 0
<1>1. {} \in SUBSET S /\ S \ {} = S
  OBVIOUS
<1>2. SumFunctionOnSet(f, S) = SumFunctionOnSet(f, {})
  BY <1>1, SumSelect
<1> QED
  BY <1>2, SumEmpty

(* Totals add up pointwise.                                                *)
LEMMA SumPlus ==
    ASSUME NEW f, NEW g, NEW h, NEW S, IsFiniteSet(S),
           \A x \in S : f[x] \in Int /\ g[x] \in Int /\ h[x] = f[x] + g[x]
    PROVE  SumFunctionOnSet(h, S) = SumFunctionOnSet(f, S) + SumFunctionOnSet(g, S)
<1> DEFINE F(U) == SumFunctionOnSet(f, U)
           G(U) == SumFunctionOnSet(g, U)
           H(U) == SumFunctionOnSet(h, U)
           Bad == {U \in SUBSET S : H(U) # F(U) + G(U)}
<1>1. \A U \in SUBSET S : F(U) \in Int /\ \A x \in U : F(U) = f[x] + F(U \ {x})
  BY SumSubsets
<1>2. \A U \in SUBSET S : G(U) \in Int /\ \A x \in U : G(U) = g[x] + G(U \ {x})
  BY SumSubsets
<1>3. \A U \in SUBSET S : H(U) \in Int /\ \A x \in U : H(U) = h[x] + H(U \ {x})
  BY SumSubsets
<1>4. F({}) = 0 /\ G({}) = 0 /\ H({}) = 0
  BY SumEmpty
<1> HIDE DEF F, G, H
<1>5. Bad = {}
  <2> SUFFICES ASSUME Bad # {} PROVE FALSE
    OBVIOUS
  <2>1. Bad \in SUBSET SUBSET S
    OBVIOUS
  <2>2. PICK U \in Bad : \A V \in SUBSET U : V # U => V \notin Bad
    <3> HIDE DEF Bad
    <3> QED
      BY <2>1, MinimalMember
  <2>3. PICK x \in U : TRUE
    <3>1. H(U) # F(U) + G(U) /\ H({}) = F({}) + G({})
      BY <1>4, <2>2
    <3>2. U # {}
      BY <3>1
    <3> QED
      BY <3>2
  <2>4. H(U \ {x}) = F(U \ {x}) + G(U \ {x})
    BY <2>2, <2>3
  <2>5. F(U) = f[x] + F(U \ {x}) /\ G(U) = g[x] + G(U \ {x}) /\ H(U) = h[x] + H(U \ {x})
    BY <1>1, <1>2, <1>3, <2>2, <2>3
  <2>6. {f[x], g[x], F(U \ {x}), G(U \ {x})} \subseteq Int /\ h[x] = f[x] + g[x]
    BY <1>1, <1>2, <2>2, <2>3
  <2> QED
    BY <2>2, <2>4, <2>5, <2>6
<1> QED
  BY <1>5 DEF F, G, H

(* A total over values is at most the total over a list that has every one *)
(* of them somewhere.                                                      *)
LEMMA SumCovered ==
    ASSUME NEW f, NEW S, IsFiniteSet(S), NEW h, NEW I, IsFiniteSet(I), NEW k,
           \A x \in S : f[x] \in Nat /\ \E i \in I : k[i] = x,
           \A i \in I : h[i] \in Nat /\ (k[i] \in S => h[i] = f[k[i]])
    PROVE  SumFunctionOnSet(f, S) <= SumFunctionOnSet(h, I)
<1> DEFINE F(U) == SumFunctionOnSet(f, U)
           H(J) == SumFunctionOnSet(h, J)
           At(U) == {i \in I : k[i] \in U}
           Bad == {U \in SUBSET S : ~(F(U) <= H(At(U)))}
<1>1. \A U \in SUBSET S : F(U) \in Int /\ \A x \in U : F(U) = f[x] + F(U \ {x})
  BY SumSubsets
<1>2. \A J \in SUBSET I : H(J) \in Nat /\ H(J) <= H(I)
  BY SumFewer
<1>3. \A J \in SUBSET I : H(J) \in Int /\ \A i \in J : H(J) = h[i] + H(J \ {i})
  <2>1. \A i \in I : h[i] \in Int
    OBVIOUS
  <2> QED
    BY <2>1, SumSubsets
<1>4. ASSUME NEW J \in SUBSET I, NEW K \in SUBSET J PROVE H(K) <= H(J)
  BY SumFewer, FS_Subset
<1>5. F({}) = 0
  BY SumEmpty
<1> HIDE DEF F, H
<1>6. Bad = {}
  <2> SUFFICES ASSUME Bad # {} PROVE FALSE
    OBVIOUS
  <2>1. Bad \in SUBSET SUBSET S
    OBVIOUS
  <2>2. PICK U \in Bad : \A V \in SUBSET U : V # U => V \notin Bad
    <3> HIDE DEF Bad
    <3> QED
      BY <2>1, MinimalMember
  <2>3. PICK x \in U : TRUE
    <3>1. ~(F(U) <= H(At(U))) /\ H(At(U)) >= 0
      BY <1>2, <2>2
    <3>2. U # {}
      BY <1>5, <3>1
    <3> QED
      BY <3>2
  <2>4. F(U \ {x}) <= H(At(U \ {x}))
    BY <2>2, <2>3
  <2>5. PICK i \in I : k[i] = x
    BY <2>2, <2>3
  <2>6. i \in At(U) /\ At(U) \in SUBSET I /\ At(U \ {x}) \in SUBSET (At(U) \ {i}) /\ At(U) \ {i} \in SUBSET I
    BY <2>3, <2>5
  <2>7. H(At(U \ {x})) <= H(At(U) \ {i})
    BY <1>4, <2>6
  <2>8. H(At(U)) = h[i] + H(At(U) \ {i}) /\ h[i] = f[x] /\ F(U) = f[x] + F(U \ {x})
    BY <1>1, <1>3, <2>2, <2>3, <2>5, <2>6
  <2>9. {H(At(U) \ {i}), H(At(U \ {x})), H(At(U)), F(U), F(U \ {x}), f[x]} \subseteq Int
    BY <1>1, <1>2, <2>2, <2>3, <2>6
  <2>10. ~(F(U) <= H(At(U)))
    BY <2>2
  <2> HIDE DEF At, Bad
  <2> QED
    BY <2>4, <2>7, <2>8, <2>9, <2>10
<1>7. F(S) <= H(At(S)) /\ H(At(S)) <= H(I)
  BY <1>2, <1>6
<1>8. F(S) \in Int /\ H(At(S)) \in Int /\ H(I) \in Int
  BY <1>1, <1>2
<1> HIDE DEF At
<1> QED
  BY <1>7, <1>8 DEF F, H

=============================================================================
