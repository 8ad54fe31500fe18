--------------------------- MODULE QuantityTheorems ---------------------------
(* Quantity(S, q) behaves as a sum should. *)
EXTENDS Quantities, FiniteSetTheorems, TLAPS

LEMMA GroupSize ==
  ASSUME NEW s, NEW n \in Nat
  PROVE  IsFiniteSet(Group(s, n)) /\ Cardinality(Group(s, n)) = n
<1>1. IsFiniteSet({s}) /\ Cardinality({s}) = 1
  BY FS_Singleton
<1>2. IsFiniteSet(1 .. n) /\ Cardinality(1 .. n) = n
  BY FS_Interval
<1>3. /\ IsFiniteSet({s} \X (1 .. n))
      /\ Cardinality({s} \X (1 .. n)) = Cardinality({s}) * Cardinality(1 .. n)
  BY <1>1, <1>2, FS_Product
<1> QED
  BY <1>1, <1>2, <1>3 DEF Group

(* Equal contributions give equal sums. *)
LEMMA QuantityCongruence ==
  ASSUME NEW S, NEW p, NEW q, \A s \in S : p[s] = q[s]
  PROVE  Quantity(S, p) = Quantity(S, q)
BY DEF Quantity, Units

(* A sum over a finite set counts finitely many units: it is a number. *)
LEMMA QuantityType ==
  ASSUME NEW S, NEW q, IsFiniteSet(S), \A s \in S : q[s] \in Nat
  PROVE  IsFiniteSet(Units(S, q)) /\ Quantity(S, q) \in Nat
<1> DEFINE groups == {Group(s, q[s]) : s \in S}
           group == [s \in S |-> Group(s, q[s])]
<1>1. IsFiniteSet(groups)
  <2>1. group \in Surjection(S, groups)
    BY DEF Surjection
  <2> HIDE DEF groups, group
  <2> QED
    BY <2>1, FS_Surjection
<1>2. ASSUME NEW T \in groups
      PROVE  IsFiniteSet(T)
  <2>1. PICK s \in S : T = Group(s, q[s])
    OBVIOUS
  <2> QED
    BY <2>1, GroupSize
<1>3. IsFiniteSet(UNION groups)
  <2> HIDE DEF groups
  <2> QED
    BY <1>1, <1>2, FS_UNION
<1>4. IsFiniteSet(Units(S, q))
  BY <1>3 DEF Units
<1> QED
  BY <1>4, FS_CardinalityType DEF Quantity

(* A sum over nothing is zero. *)
LEMMA QuantityOfNothing ==
  ASSUME NEW q
  PROVE  Quantity({}, q) = 0
<1>1. Units({}, q) = {}
  BY DEF Units
<1> QED
  BY <1>1, FS_EmptySet DEF Quantity

(* A new member adds its contribution to the sum. *)
LEMMA QuantityWithMember ==
  ASSUME NEW S, NEW e, NEW q, IsFiniteSet(S), e \notin S,
         \A s \in S \union {e} : q[s] \in Nat
  PROVE  Quantity(S \union {e}, q) = Quantity(S, q) + q[e]
<1> DEFINE group == Group(e, q[e])
<1>1. Units(S \union {e}, q) = Units(S, q) \union group
  BY DEF Units
<1>2. Units(S, q) \intersect group = {}
  BY DEF Units, Group
<1>3. IsFiniteSet(Units(S, q)) /\ Quantity(S, q) \in Nat
  BY QuantityType
<1>4. IsFiniteSet(group) /\ Cardinality(group) = q[e]
  BY GroupSize
<1>5. Cardinality(Units(S, q) \union group)
        = Cardinality(Units(S, q)) + Cardinality(group) - Cardinality(Units(S, q) \intersect group)
  <2> HIDE DEF group
  <2> QED
    BY <1>3, <1>4, FS_Union
<1>6. Cardinality(Units(S, q) \intersect group) = 0
  BY <1>2, FS_EmptySet
<1> HIDE DEF group
<1>7. Quantity(S \union {e}, q) = Cardinality(Units(S, q) \union group)
  BY <1>1 DEF Quantity
<1>8. Quantity(S, q) = Cardinality(Units(S, q))
  BY DEF Quantity
<1>9. q[e] \in Nat
  OBVIOUS
<1> QED
  BY <1>3, <1>4, <1>5, <1>6, <1>7, <1>8, <1>9

(* A part of a sum is no more than the sum. *)
LEMMA QuantityOfPart ==
  ASSUME NEW S, NEW T, NEW p, NEW q, IsFiniteSet(S), T \subseteq S,
         \A s \in S : p[s] \in Nat, \A s \in T : p[s] = q[s]
  PROVE  Quantity(T, q) <= Quantity(S, p)
<1>1. Units(T, q) \subseteq Units(S, p)
  BY DEF Units
<1>2. IsFiniteSet(Units(S, p))
  BY QuantityType
<1> QED
  BY <1>1, <1>2, FS_Subset DEF Quantity

(* A sum changes by what one member contributed before and contributes now.*)
LEMMA QuantityOfChange ==
  ASSUME NEW S, NEW T, NEW e, NEW p, NEW q, IsFiniteSet(S),
         S \ {e} = T \ {e},
         \A s \in S : p[s] \in Nat, \A s \in T : q[s] \in Nat,
         \A s \in S \ {e} : p[s] = q[s]
  PROVE  Quantity(T, q) = Quantity(S, p) - (IF e \in S THEN p[e] ELSE 0)
                                         + (IF e \in T THEN q[e] ELSE 0)
<1> DEFINE rest == S \ {e}
<1>1. IsFiniteSet(rest)
  BY FS_Subset
<1>2. Quantity(rest, p) = Quantity(rest, q) /\ Quantity(rest, p) \in Nat
  BY <1>1, QuantityCongruence, QuantityType
<1>3. Quantity(S, p) = Quantity(rest, p) + (IF e \in S THEN p[e] ELSE 0)
  <2>1. CASE e \in S
    <3>1. S = rest \union {e} /\ e \notin rest /\ \A s \in rest \union {e} : p[s] \in Nat
      BY <2>1
    <3>2. Quantity(rest \union {e}, p) = Quantity(rest, p) + p[e]
      BY <1>1, <3>1, QuantityWithMember
    <3> QED
      BY <2>1, <3>1, <3>2
  <2>2. CASE e \notin S
    BY <1>2, <2>2
  <2> QED
    BY <2>1, <2>2
<1>4. Quantity(T, q) = Quantity(rest, q) + (IF e \in T THEN q[e] ELSE 0)
  <2>1. CASE e \in T
    <3>1. T = rest \union {e} /\ e \notin rest /\ \A s \in rest \union {e} : q[s] \in Nat
      BY <2>1
    <3>2. Quantity(rest \union {e}, q) = Quantity(rest, q) + q[e]
      BY <1>1, <3>1, QuantityWithMember
    <3> QED
      BY <2>1, <3>1, <3>2
  <2>2. CASE e \notin T
    <3>1. T = rest
      BY <2>2
    <3> QED
      BY <1>2, <2>2, <3>1
  <2> QED
    BY <2>1, <2>2
<1>5. (e \in S => p[e] \in Nat) /\ (e \in T => q[e] \in Nat)
  OBVIOUS
<1> HIDE DEF rest
<1> QED
  BY <1>2, <1>3, <1>4, <1>5

(* Sums over sets without a common member add up. *)
LEMMA QuantityOfUnion ==
  ASSUME NEW S, NEW T, NEW q, IsFiniteSet(S), IsFiniteSet(T), S \intersect T = {},
         \A s \in S \union T : q[s] \in Nat
  PROVE  Quantity(S \union T, q) = Quantity(S, q) + Quantity(T, q)
<1>1. Units(S \union T, q) = Units(S, q) \union Units(T, q)
  BY DEF Units
<1>2. Units(S, q) \intersect Units(T, q) = {}
  BY DEF Units, Group
<1>3. /\ IsFiniteSet(Units(S, q)) /\ Quantity(S, q) \in Nat
      /\ IsFiniteSet(Units(T, q)) /\ Quantity(T, q) \in Nat
  BY QuantityType
<1>4. Cardinality(Units(S, q) \union Units(T, q))
        = Cardinality(Units(S, q)) + Cardinality(Units(T, q))
            - Cardinality(Units(S, q) \intersect Units(T, q))
  BY <1>3, FS_Union
<1>5. Cardinality(Units(S, q) \intersect Units(T, q)) = 0
  BY <1>2, FS_EmptySet
<1>6. Quantity(S \union T, q) = Cardinality(Units(S, q) \union Units(T, q))
  BY <1>1 DEF Quantity
<1>7. Quantity(S, q) = Cardinality(Units(S, q)) /\ Quantity(T, q) = Cardinality(Units(T, q))
  BY DEF Quantity
<1> QED
  BY <1>3, <1>4, <1>5, <1>6, <1>7

(* A sum does not depend on what its members are called. *)
LEMMA QuantityOfRenamed ==
  ASSUME NEW S, NEW T, NEW f \in Bijection(S, T), NEW p, NEW q,
         IsFiniteSet(S), \A s \in S : p[s] \in Nat /\ q[f[s]] = p[s]
  PROVE  Quantity(T, q) = Quantity(S, p)
<1> DEFINE g == [u \in Units(S, p) |-> <<f[u[1]], u[2]>>]
<1>1. /\ \A s \in S : f[s] \in T
      /\ \A s, t \in S : f[s] = f[t] => s = t
      /\ \A t \in T : \E s \in S : f[s] = t
  BY DEF Bijection, Injection, Surjection, IsInjective
<1>2. \A u \in Units(S, p) : u[1] \in S /\ u[2] \in 1 .. p[u[1]] /\ u = <<u[1], u[2]>>
  BY DEF Units, Group
<1>3. \A u \in Units(S, p) : g[u] \in Units(T, q)
  BY <1>1, <1>2 DEF Units, Group
<1>4. \A u, v \in Units(S, p) : g[u] = g[v] => u = v
  BY <1>1, <1>2
<1>5. \A w \in Units(T, q) : \E u \in Units(S, p) : g[u] = w
  <2>1. TAKE w \in Units(T, q)
  <2>2. PICK t \in T : \E n \in 1 .. q[t] : w = <<t, n>>
    BY DEF Units, Group
  <2>3. PICK n \in 1 .. q[t] : w = <<t, n>>
    BY <2>2
  <2>4. PICK s \in S : f[s] = t
    BY <1>1
  <2>5. <<s, n>> \in Units(S, p)
    BY <2>3, <2>4 DEF Units, Group
  <2> QED
    BY <2>3, <2>4, <2>5
<1>6. g \in Bijection(Units(S, p), Units(T, q))
  <2>1. g \in [Units(S, p) -> Units(T, q)]
    BY <1>3
  <2> HIDE DEF g
  <2> QED
    BY <2>1, <1>4, <1>5 DEF Bijection, Injection, Surjection, IsInjective
<1>7. IsFiniteSet(Units(S, p))
  BY QuantityType
<1> HIDE DEF g
<1> QED
  BY <1>6, <1>7, FS_Bijection DEF Quantity, ExistsBijection
===============================================================================
