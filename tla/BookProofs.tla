------------------------------ MODULE BookProofs ------------------------------
(***************************************************************************)
(* Proofs about EnhancedOrderBook: for any number of readers, any ids, any *)
(* prices and quantities, the levels of either side stay what a recount of *)
(* the orders would give, and a reader that is let in sees the orders of   *)
(* one moment.  Only that a change takes part in message_count holds with  *)
(* quantities of 0 among them; MCBookZero shows what these do to the rest. *)
(*                                                                         *)
(* The quantity of a level is a sum over a set of orders, which            *)
(* MapThenSumSet takes through a recursive function it only describes.     *)
(* That there is one such function is an induction on the number of orders *)
(* (SumsExist, SumsAgree); from then on a sum is used by what one order    *)
(* adds to it or takes from it (SumUnfolds, SumWithout, SumSame).          *)
(*                                                                         *)
(* The invariant, BookInv, says of the levels what the code rebuilds       *)
(* nowhere: each side is the copy of the orders by price.  A call changes  *)
(* one order and one level, and AddCopies and RemoveCopies say that the    *)
(* copy of the new orders differs from the old one in just that level.     *)
(***************************************************************************)
EXTENDS EnhancedOrderBook, FiniteSetTheorems, WellFoundedInduction, TLAPS

(* The sum of the quantities of the orders of table o with ids in S.          *)
SumOf(o, S) == MapThenSumSet(LAMBDA id : o[id].quantity, S)

\* How MapThenSumSet goes through a set: F gives the sums of all its subsets.
AnyOf(S) == CHOOSE id \in S : TRUE
StepOf(F, o, s) == IF s = {} THEN 0 ELSE o[AnyOf(s)].quantity + F[s \ {AnyOf(s)}]
Sums(F, o, S) == F = [s \in SUBSET S |-> StepOf(F, o, s)]

\* Every id of S has an order with a quantity.
Weighed(o, S) == \A id \in S : o[id].quantity \in Nat
-------------------------------------------------------------------------------
(* Induction on the number of elements, for the sets of numbers that are      *)
(* given as sets.                                                             *)
LEMMA UpFromZero ==
  ASSUME NEW G, 0 \in G, \A n \in Nat : n \in G => n + 1 \in G
  PROVE  \A n \in Nat : n \in G
<1> SUFFICES ASSUME NEW k \in Nat, k \notin G PROVE FALSE
  OBVIOUS
<1> DEFINE Before == {ss \in Nat \X Nat : ss[1] < ss[2]}
           bad == Nat \ G
<1>1. OpToRel(<, Nat) = Before
  BY Zenon DEF OpToRel
<1>2. IsWellFoundedOn(Before, Nat)
  BY <1>1, NatLessThanWellFounded
<1>3. bad \in SUBSET Nat /\ bad # {}
  OBVIOUS
<1>4. PICK m \in bad : \A y \in bad : ~ (<<y, m>> \in Before)
  BY <1>2, <1>3, WFMin
<1>5. m \in Nat /\ m # 0 /\ m - 1 \in Nat /\ m - 1 < m /\ (m - 1) + 1 = m
  BY <1>4
<1>6. m - 1 \in G
  BY <1>4, <1>5
<1> QED
  BY <1>4, <1>5, <1>6

\* A set with an element is one element and a smaller set.
LEMMA OneLess ==
  ASSUME NEW S, IsFiniteSet(S), NEW x \in S
  PROVE  /\ IsFiniteSet(S \ {x})
         /\ Cardinality(S) \in Nat \ {0}
         /\ Cardinality(S \ {x}) = Cardinality(S) - 1
         /\ Cardinality(S \ {x}) \in Nat
<1>1. IsFiniteSet(S \ {x}) /\ Cardinality(S \ {x}) = Cardinality(S) - 1
  BY FS_RemoveElement
<1>2. Cardinality(S) \in Nat /\ Cardinality(S) # 0
  BY FS_CardinalityType, FS_EmptySet
<1> QED
  BY <1>1, <1>2

LEMMA AnyIsIn ==
  ASSUME NEW S, S # {}
  PROVE  AnyOf(S) \in S
BY DEF AnyOf

\* There is a function that gives the sums of all subsets.
LEMMA SumsExist ==
  ASSUME NEW S, IsFiniteSet(S), NEW o, Weighed(o, S)
  PROVE  \E F : Sums(F, o, S) /\ F \in [SUBSET S -> Nat]
<1> DEFINE G == {n \in Nat : \E F \in [SUBSET S -> Nat] :
                   \A s \in SUBSET S : Cardinality(s) <= n => F[s] = StepOf(F, o, s)}
<1>1. \A s \in SUBSET S : IsFiniteSet(s) /\ Cardinality(s) \in Nat
  BY FS_Subset, FS_CardinalityType
<1>2. \A F \in [SUBSET S -> Nat], s \in SUBSET S : StepOf(F, o, s) \in Nat
  <2> SUFFICES ASSUME NEW F \in [SUBSET S -> Nat], NEW s \in SUBSET S, s # {}
               PROVE  StepOf(F, o, s) \in Nat
    BY DEF StepOf
  <2>1. AnyOf(s) \in S /\ s \ {AnyOf(s)} \in SUBSET S
    BY AnyIsIn
  <2>2. o[AnyOf(s)].quantity \in Nat /\ F[s \ {AnyOf(s)}] \in Nat
    BY <2>1 DEF Weighed
  <2> QED
    BY <2>2 DEF StepOf
<1>3. 0 \in G
  <2> DEFINE F == [s \in SUBSET S |-> 0]
  <2>1. F \in [SUBSET S -> Nat]
    OBVIOUS
  <2>2. ASSUME NEW s \in SUBSET S, Cardinality(s) <= 0 PROVE F[s] = StepOf(F, o, s)
    <3>1. s = {}
      BY <1>1, <2>2, FS_EmptySet
    <3> QED
      BY <3>1 DEF StepOf
  <2> HIDE DEF F
  <2> QED
    BY <2>1, <2>2
<1>4. ASSUME NEW n \in Nat, n \in G PROVE n + 1 \in G
  <2>1. PICK F \in [SUBSET S -> Nat] :
               \A s \in SUBSET S : Cardinality(s) <= n => F[s] = StepOf(F, o, s)
    BY <1>4
  <2> DEFINE E == [s \in SUBSET S |-> IF Cardinality(s) <= n THEN F[s] ELSE StepOf(F, o, s)]
  <2>2. E \in [SUBSET S -> Nat]
    BY <1>2
  <2>3. ASSUME NEW s \in SUBSET S, Cardinality(s) <= n + 1 PROVE E[s] = StepOf(E, o, s)
    <3>1. E[s] = StepOf(F, o, s)
      BY <2>1
    <3>2. CASE s = {}
      BY <3>1, <3>2 DEF StepOf
    <3>3. CASE s # {}
      <4>1. AnyOf(s) \in s /\ s \ {AnyOf(s)} \in SUBSET S
        BY <3>3, AnyIsIn
      <4>2. Cardinality(s \ {AnyOf(s)}) <= n
        BY <1>1, <2>3, <4>1, OneLess
      <4>3. E[s \ {AnyOf(s)}] = F[s \ {AnyOf(s)}]
        BY <4>1, <4>2
      <4> HIDE DEF E
      <4> QED
        BY <3>1, <4>3 DEF StepOf
    <3> QED
      BY <3>2, <3>3
  <2> HIDE DEF E
  <2>4. \A s \in SUBSET S : Cardinality(s) <= n + 1 => E[s] = StepOf(E, o, s)
    BY <2>3
  <2> QED
    BY <2>2, <2>4
<1>5. Cardinality(S) \in G
  <2>1. Cardinality(S) \in Nat
    BY FS_CardinalityType
  <2> HIDE DEF G
  <2> QED
    BY <1>3, <1>4, <2>1, UpFromZero
<1>6. PICK F \in [SUBSET S -> Nat] :
             \A s \in SUBSET S : Cardinality(s) <= Cardinality(S) => F[s] = StepOf(F, o, s)
  BY <1>5
<1>7. \A s \in SUBSET S : F[s] = StepOf(F, o, s)
  BY <1>6, FS_Subset
<1>8. F = [s \in SUBSET S |-> F[s]]
  OBVIOUS
<1>9. Sums(F, o, S)
  <2>1. [s \in SUBSET S |-> F[s]] = [s \in SUBSET S |-> StepOf(F, o, s)]
    BY <1>7
  <2> QED
    BY <1>8, <2>1 DEF Sums
<1> QED
  BY <1>9

\* Such functions agree where both are defined.
LEMMA SumsAgree ==
  ASSUME NEW S, NEW T, IsFiniteSet(S), IsFiniteSet(T), NEW o,
         NEW E, Sums(E, o, S), NEW F, Sums(F, o, T)
  PROVE  \A s \in SUBSET (S \cap T) : E[s] = F[s]
<1> DEFINE G == {n \in Nat : \A s \in SUBSET (S \cap T) : Cardinality(s) = n => E[s] = F[s]}
<1>1. \A s \in SUBSET (S \cap T) : IsFiniteSet(s) /\ Cardinality(s) \in Nat
  BY FS_Subset, FS_CardinalityType
<1>2. \A s \in SUBSET (S \cap T) : E[s] = StepOf(E, o, s) /\ F[s] = StepOf(F, o, s)
  <2>1. \A s \in SUBSET S : E[s] = StepOf(E, o, s)
    BY Zenon DEF Sums
  <2>2. \A s \in SUBSET T : F[s] = StepOf(F, o, s)
    BY Zenon DEF Sums
  <2> QED
    BY <2>1, <2>2
<1>3. 0 \in G
  <2>1. \A s \in SUBSET (S \cap T) : Cardinality(s) = 0 => E[s] = F[s]
    BY <1>1, <1>2, FS_EmptySet DEF StepOf
  <2> QED
    BY <2>1
<1>4. ASSUME NEW n \in Nat, n \in G PROVE n + 1 \in G
  <2> SUFFICES ASSUME NEW s \in SUBSET (S \cap T), Cardinality(s) = n + 1
               PROVE  E[s] = F[s]
    OBVIOUS
  <2>1. s # {}
    BY FS_EmptySet
  <2>2. AnyOf(s) \in s /\ s \ {AnyOf(s)} \in SUBSET (S \cap T)
    BY <2>1, AnyIsIn
  <2>3. Cardinality(s \ {AnyOf(s)}) = n
    BY <1>1, <2>2, OneLess
  <2>4. E[s \ {AnyOf(s)}] = F[s \ {AnyOf(s)}]
    BY <1>4, <2>2, <2>3
  <2> QED
    BY <1>2, <2>4 DEF StepOf
<1> HIDE DEF G
<1>5. \A n \in Nat : n \in G
  BY <1>3, <1>4, UpFromZero
<1> QED
  BY <1>1, <1>5 DEF G

\* The sum is a number, nothing for the empty set, and otherwise the quantity
\* of one order and the sum of the others.
LEMMA SumUnfolds ==
  ASSUME NEW S, IsFiniteSet(S), NEW o, Weighed(o, S)
  PROVE  /\ SumOf(o, S) \in Nat
         /\ S = {} => SumOf(o, S) = 0
         /\ S # {} => SumOf(o, S) = o[AnyOf(S)].quantity + SumOf(o, S \ {AnyOf(S)})
<1>1. ASSUME NEW T, IsFiniteSet(T), Weighed(o, T)
      PROVE  \E F : Sums(F, o, T) /\ SumOf(o, T) = F[T] /\ SumOf(o, T) \in Nat
  <2> DEFINE F == CHOOSE F : Sums(F, o, T)
  <2>1. PICK E : Sums(E, o, T) /\ E \in [SUBSET T -> Nat]
    BY <1>1, SumsExist
  <2>2. Sums(F, o, T)
    BY <2>1
  <2>3. SumOf(o, T) = F[T]
    BY DEF SumOf, MapThenSumSet, MapThenFoldSet, Sums, StepOf, AnyOf
  <2>4. F[T] = E[T]
    <3> HIDE DEF F
    <3> QED
      BY <1>1, <2>1, <2>2, SumsAgree
  <2>5. SumOf(o, T) \in Nat
    BY <2>1, <2>3, <2>4
  <2> HIDE DEF F
  <2> QED
    BY <2>2, <2>3, <2>5
<1>2. PICK F : Sums(F, o, S) /\ SumOf(o, S) = F[S] /\ SumOf(o, S) \in Nat
  BY <1>1
<1>3. F[S] = StepOf(F, o, S)
  BY <1>2, Zenon DEF Sums
<1>4. CASE S = {}
  BY <1>2, <1>3, <1>4 DEF StepOf
<1>5. CASE S # {}
  <2> DEFINE T == S \ {AnyOf(S)}
  <2>1. IsFiniteSet(T) /\ Weighed(o, T) /\ T \in SUBSET (S \cap T)
    BY FS_RemoveElement DEF Weighed
  <2> HIDE DEF T
  <2>2. PICK E : Sums(E, o, T) /\ SumOf(o, T) = E[T]
    BY <1>1, <2>1
  <2>3. F[T] = E[T]
    BY <1>2, <2>1, <2>2, SumsAgree
  <2> QED
    BY <1>2, <1>3, <1>5, <2>2, <2>3 DEF StepOf, T
<1> QED
  BY <1>2, <1>4, <1>5

\* The sum may be taken beginning with any order.
LEMMA SumWithout ==
  ASSUME NEW S, IsFiniteSet(S), NEW o, Weighed(o, S), NEW x \in S
  PROVE  SumOf(o, S) = o[x].quantity + SumOf(o, S \ {x})
<1> DEFINE G == {n \in Nat : \A T \in SUBSET S : Cardinality(T) = n =>
                   \A y \in T : SumOf(o, T) = o[y].quantity + SumOf(o, T \ {y})}
<1>1. \A T \in SUBSET S : IsFiniteSet(T) /\ Cardinality(T) \in Nat /\ Weighed(o, T)
  BY FS_Subset, FS_CardinalityType DEF Weighed
<1>2. 0 \in G
  <2>1. \A T \in SUBSET S : Cardinality(T) = 0 => T = {}
    BY <1>1, FS_EmptySet
  <2> QED
    BY <2>1
<1>3. ASSUME NEW n \in Nat, n \in G PROVE n + 1 \in G
  <2> SUFFICES ASSUME NEW T \in SUBSET S, Cardinality(T) = n + 1, NEW y \in T
               PROVE  SumOf(o, T) = o[y].quantity + SumOf(o, T \ {y})
    OBVIOUS
  <2> DEFINE z == AnyOf(T)
  <2>1. z \in T
    BY AnyIsIn
  <2>2. SumOf(o, T) = o[z].quantity + SumOf(o, T \ {z})
    BY <1>1, SumUnfolds
  <2> HIDE DEF z
  <2>3. CASE y = z
    BY <2>2, <2>3
  <2>4. CASE y # z
    <3>1. /\ T \ {z} \in SUBSET S /\ Cardinality(T \ {z}) = n /\ y \in T \ {z}
          /\ T \ {y} \in SUBSET S /\ Cardinality(T \ {y}) = n /\ z \in T \ {y}
      BY <1>1, <2>1, <2>4, OneLess
    <3>2. SumOf(o, T \ {z}) = o[y].quantity + SumOf(o, (T \ {z}) \ {y})
      BY <1>3, <3>1
    <3>3. SumOf(o, T \ {y}) = o[z].quantity + SumOf(o, (T \ {y}) \ {z})
      BY <1>3, <3>1
    <3>4. (T \ {z}) \ {y} = (T \ {y}) \ {z} /\ (T \ {z}) \ {y} \in SUBSET S
      OBVIOUS
    <3> DEFINE rest == SumOf(o, (T \ {z}) \ {y})
    <3>5. rest \in Nat /\ o[y].quantity \in Nat /\ o[z].quantity \in Nat
      BY <1>1, <2>1, <3>4, SumUnfolds DEF Weighed
    <3>6. SumOf(o, T) = o[z].quantity + (o[y].quantity + rest)
      BY <2>2, <3>2
    <3>7. SumOf(o, T \ {y}) = o[z].quantity + rest
      BY <3>3, <3>4
    <3> HIDE DEF rest
    <3> QED
      BY <3>5, <3>6, <3>7
  <2> QED
    BY <2>3, <2>4
<1> HIDE DEF G
<1>4. Cardinality(S) \in G
  BY <1>2, <1>3, FS_CardinalityType, UpFromZero
<1> QED
  BY <1>4 DEF G

\* It depends on the quantities only.
LEMMA SumSame ==
  ASSUME NEW S, IsFiniteSet(S), NEW o, NEW u, Weighed(o, S),
         \A id \in S : o[id].quantity = u[id].quantity
  PROVE  SumOf(o, S) = SumOf(u, S)
<1> DEFINE G == {n \in Nat : \A T \in SUBSET S : Cardinality(T) = n => SumOf(o, T) = SumOf(u, T)}
<1>1. \A T \in SUBSET S :
        IsFiniteSet(T) /\ Cardinality(T) \in Nat /\ Weighed(o, T) /\ Weighed(u, T)
  BY FS_Subset, FS_CardinalityType DEF Weighed
<1>2. 0 \in G
  <2>1. \A T \in SUBSET S : Cardinality(T) = 0 => T = {}
    BY <1>1, FS_EmptySet
  <2>2. SumOf(o, {}) = 0 /\ SumOf(u, {}) = 0
    BY <1>1, SumUnfolds
  <2> QED
    BY <2>1, <2>2
<1>3. ASSUME NEW n \in Nat, n \in G PROVE n + 1 \in G
  <2> SUFFICES ASSUME NEW T \in SUBSET S, Cardinality(T) = n + 1
               PROVE  SumOf(o, T) = SumOf(u, T)
    OBVIOUS
  <2>1. T # {}
    BY FS_EmptySet
  <2>2. AnyOf(T) \in T /\ T \ {AnyOf(T)} \in SUBSET S
    BY <2>1, AnyIsIn
  <2>3. Cardinality(T \ {AnyOf(T)}) = n
    BY <1>1, <2>2, OneLess
  <2>4. SumOf(o, T \ {AnyOf(T)}) = SumOf(u, T \ {AnyOf(T)})
    BY <1>3, <2>2, <2>3
  <2>5. o[AnyOf(T)].quantity = u[AnyOf(T)].quantity
    BY <2>2
  <2>6. SumOf(o, T) = o[AnyOf(T)].quantity + SumOf(o, T \ {AnyOf(T)})
    BY <1>1, <2>1, SumUnfolds
  <2>7. SumOf(u, T) = u[AnyOf(T)].quantity + SumOf(u, T \ {AnyOf(T)})
    BY <1>1, <2>1, SumUnfolds
  <2> QED
    BY <2>4, <2>5, <2>6, <2>7
<1> HIDE DEF G
<1>4. Cardinality(S) \in G
  BY <1>2, <1>3, FS_CardinalityType, UpFromZero
<1> QED
  BY <1>4 DEF G
-------------------------------------------------------------------------------
(* The second copy of a table of orders: what levels and totals should be.    *)
On(o, s) == {id \in DOMAIN o : o[id].side = s}
At(o, s, p) == {id \in On(o, s) : o[id].price = p}
PricesOn(o, s) == {o[id].price : id \in On(o, s)}
LevelOf(o, s, p) == [size |-> SumOf(o, At(o, s, p)), order_count |-> Cardinality(At(o, s, p))]
LevelsOf(o, s) == [p \in PricesOn(o, s) |-> LevelOf(o, s, p)]
SideOf(o, s) == [levels |-> LevelsOf(o, s), total |-> SumOf(o, On(o, s))]
Copy(o) == [s \in Sides |-> SideOf(o, s)]

\* Orders that rest have something left, and there are finitely many.
Resting == [side : Sides, price : Prices, quantity : Nat \ {0}]
Table(o) == /\ o = [id \in DOMAIN o |-> o[id]]
            /\ IsFiniteSet(DOMAIN o)
            /\ \A id \in DOMAIN o : o[id] \in Resting

BookInv == /\ Table(orders)
           /\ side = Copy(orders)
           /\ message_count \in Nat

LEMMA Parts ==
  ASSUME NEW o, Table(o), NEW T \in SUBSET DOMAIN o
  PROVE  /\ IsFiniteSet(T) /\ Cardinality(T) \in Nat
         /\ Cardinality(T) = 0 <=> T = {}
         /\ Weighed(o, T)
         /\ SumOf(o, T) \in Nat
         /\ SumOf(o, T) = 0 <=> T = {}
<1>1. IsFiniteSet(T) /\ Cardinality(T) \in Nat /\ (Cardinality(T) = 0 <=> T = {})
  BY FS_Subset, FS_CardinalityType, FS_EmptySet DEF Table
<1>2. \A id \in T : o[id].quantity \in Nat \ {0}
  BY DEF Table, Resting
<1>3. Weighed(o, T)
  BY <1>2 DEF Weighed
<1>4. SumOf(o, T) \in Nat /\ (T = {} => SumOf(o, T) = 0)
  BY <1>1, <1>3, SumUnfolds
<1>5. ASSUME NEW x \in T PROVE SumOf(o, T) # 0
  <2>1. SumOf(o, T) = o[x].quantity + SumOf(o, T \ {x})
    BY <1>1, <1>3, SumWithout
  <2>2. IsFiniteSet(T \ {x}) /\ Weighed(o, T \ {x})
    BY <1>1, <1>3, FS_RemoveElement DEF Weighed
  <2>3. SumOf(o, T \ {x}) \in Nat
    BY <2>2, SumUnfolds
  <2> QED
    BY <1>2, <2>1, <2>3
<1> QED
  BY <1>1, <1>3, <1>4, <1>5

\* Table u is table o and one more order.
Grown(u, o, id) == /\ Table(o) /\ Table(u)
                   /\ id \notin DOMAIN o
                   /\ DOMAIN u = DOMAIN o \cup {id}
                   /\ \A x \in DOMAIN o : u[x] = o[x]

LEMMA PutGrows ==
  ASSUME NEW o, Table(o), NEW id, id \notin DOMAIN o, NEW order \in Resting
  PROVE  Grown(Put(o, id, order), o, id) /\ Put(o, id, order)[id] = order
<1> DEFINE u == Put(o, id, order)
<1>1. DOMAIN u = DOMAIN o \cup {id} /\ u[id] = order /\ \A x \in DOMAIN o : u[x] = o[x]
  BY DEF Put
<1>2. u = [x \in DOMAIN u |-> u[x]]
  BY DEF Put
<1> HIDE DEF u
<1>3. IsFiniteSet(DOMAIN u)
  BY <1>1, FS_AddElement DEF Table
<1>4. \A x \in DOMAIN u : u[x] \in Resting
  BY <1>1 DEF Table
<1>5. Table(u)
  BY <1>2, <1>3, <1>4 DEF Table
<1> QED
  BY <1>1, <1>5 DEF Grown, u

\* Then a part of the table has one more order.
LEMMA OneMore ==
  ASSUME NEW o, NEW u, NEW id, Grown(u, o, id), NEW T \in SUBSET DOMAIN o
  PROVE  /\ SumOf(u, T) = SumOf(o, T)
         /\ SumOf(u, T \cup {id}) = SumOf(o, T) + u[id].quantity
         /\ Cardinality(T \cup {id}) = Cardinality(T) + 1
<1>1. Table(o) /\ Table(u) /\ id \in DOMAIN u /\ T \cup {id} \in SUBSET DOMAIN u
  BY DEF Grown
<1>2. SumOf(u, T) = SumOf(o, T)
  <2>1. IsFiniteSet(T) /\ Weighed(o, T)
    BY <1>1, Parts
  <2>2. \A x \in T : o[x].quantity = u[x].quantity
    BY DEF Grown
  <2> QED
    BY <2>1, <2>2, SumSame
<1>3. SumOf(u, T \cup {id}) = SumOf(o, T) + u[id].quantity
  <2>1. id \in T \cup {id} /\ (T \cup {id}) \ {id} = T
    BY DEF Grown
  <2>2. IsFiniteSet(T \cup {id}) /\ Weighed(u, T \cup {id})
    BY <1>1, Parts
  <2>3. SumOf(u, T \cup {id}) = u[id].quantity + SumOf(u, (T \cup {id}) \ {id})
    BY <2>1, <2>2, SumWithout
  <2>4. SumOf(u, T \cup {id}) = u[id].quantity + SumOf(o, T)
    BY <1>2, <2>1, <2>3
  <2>5. u[id].quantity \in Nat /\ SumOf(o, T) \in Nat
    BY <1>1, Parts DEF Table, Resting
  <2> QED
    BY <2>4, <2>5
<1>4. Cardinality(T \cup {id}) = Cardinality(T) + 1
  <2>1. IsFiniteSet(T) /\ id \notin T
    BY <1>1, Parts DEF Grown
  <2> QED
    BY <2>1, FS_AddElement
<1> QED
  BY <1>2, <1>3, <1>4

\* What it makes of the other copy: one level has one order more, or is new.
LEMMA GrownCopy ==
  ASSUME NEW o, NEW u, NEW id, Grown(u, o, id), NEW s, s = u[id].side, NEW p, p = u[id].price
  PROVE  /\ \A r : r # s => SideOf(u, r) = SideOf(o, r)
         /\ PricesOn(u, s) = PricesOn(o, s) \cup {p}
         /\ \A k : k # p => LevelOf(u, s, k) = LevelOf(o, s, k)
         /\ LevelOf(u, s, p) = [size |-> SumOf(o, At(o, s, p)) + u[id].quantity,
                                order_count |-> Cardinality(At(o, s, p)) + 1]
         /\ SumOf(u, On(u, s)) = SumOf(o, On(o, s)) + u[id].quantity
<1> DEFINE q == u[id].quantity
<1>1. DOMAIN u = DOMAIN o \cup {id} /\ \A x \in DOMAIN o : u[x] = o[x]
  BY DEF Grown
<1>2. \A T \in SUBSET DOMAIN o :
        /\ SumOf(u, T) = SumOf(o, T)
        /\ SumOf(u, T \cup {id}) = SumOf(o, T) + q
        /\ Cardinality(T \cup {id}) = Cardinality(T) + 1
  BY OneMore
<1>3. \A r, k : On(o, r) \in SUBSET DOMAIN o /\ At(o, r, k) \in SUBSET DOMAIN o
  BY DEF On, At
<1>4. ASSUME NEW r, r # s PROVE SideOf(u, r) = SideOf(o, r)
  <2>1. On(u, r) = On(o, r)
    BY <1>1, <1>4 DEF On
  <2>2. \A k : At(u, r, k) = At(o, r, k)
    BY <1>1, <2>1 DEF At, On
  <2>3. PricesOn(u, r) = PricesOn(o, r)
    BY <1>1, <2>1 DEF PricesOn, On
  <2>4. SumOf(u, On(u, r)) = SumOf(o, On(o, r))
    BY <1>2, <1>3, <2>1
  <2>5. \A k : LevelOf(u, r, k) = LevelOf(o, r, k)
    BY <1>2, <1>3, <2>2 DEF LevelOf
  <2>6. LevelsOf(u, r) = LevelsOf(o, r)
    BY <2>3, <2>5 DEF LevelsOf
  <2> QED
    BY <2>4, <2>6 DEF SideOf
<1>5. On(u, s) = On(o, s) \cup {id}
  BY <1>1 DEF On
<1>6. PricesOn(u, s) = PricesOn(o, s) \cup {p}
  BY <1>1, <1>5 DEF PricesOn, On
<1>7. At(u, s, p) = At(o, s, p) \cup {id} /\ \A k : k # p => At(u, s, k) = At(o, s, k)
  BY <1>1, <1>5 DEF At, On
<1>8. \A k : k # p => LevelOf(u, s, k) = LevelOf(o, s, k)
  BY <1>2, <1>3, <1>7 DEF LevelOf
<1>9. LevelOf(u, s, p) = [size |-> SumOf(o, At(o, s, p)) + q,
                          order_count |-> Cardinality(At(o, s, p)) + 1]
  BY <1>2, <1>3, <1>7 DEF LevelOf
<1>10. SumOf(u, On(u, s)) = SumOf(o, On(o, s)) + q
  BY <1>2, <1>3, <1>5
<1> QED
  BY <1>4, <1>6, <1>8, <1>9, <1>10

\* What is in a level, or is not there.
LEMMA LevelsAreOrders ==
  ASSUME NEW o, Table(o), NEW s, NEW p
  PROVE  /\ SumOf(o, At(o, s, p)) \in Nat
         /\ Cardinality(At(o, s, p)) \in Nat
         /\ SumOf(o, On(o, s)) \in Nat
         /\ SumOf(o, At(o, s, p)) = 0 <=> p \notin PricesOn(o, s)
         /\ Cardinality(At(o, s, p)) = 0 <=> p \notin PricesOn(o, s)
<1>1. On(o, s) \in SUBSET DOMAIN o /\ At(o, s, p) \in SUBSET DOMAIN o
  BY DEF On, At
<1>2. At(o, s, p) = {} <=> p \notin PricesOn(o, s)
  BY DEF At, PricesOn
<1> QED
  BY <1>1, <1>2, Parts

(* add_to_price_level keeps the two copies alike (lines 279-301).             *)
LEMMA AddCopies ==
  ASSUME NEW o, Table(o), NEW id, id \notin DOMAIN o, NEW order \in Resting
  PROVE  AddToPriceLevel(Copy(o), order) = Copy(Put(o, id, order))
<1> DEFINE u == Put(o, id, order)
           s == order.side
           p == order.price
           q == order.quantity
           levels == LevelsOf(o, s)
           total == SumOf(o, On(o, s))
           level == IF p \in DOMAIN levels THEN levels[p] ELSE [size |-> 0, order_count |-> 0]
           more == [size |-> level.size + q, order_count |-> level.order_count + 1]
           new == [levels |-> Put(levels, p, more), total |-> total + q]
<1>1. s \in Sides
  BY DEF Resting
<1>2. Grown(u, o, id) /\ u[id] = order
  BY PutGrows
<1> HIDE DEF u
<1>3. /\ \A r : r # s => SideOf(u, r) = SideOf(o, r)
      /\ PricesOn(u, s) = PricesOn(o, s) \cup {p}
      /\ \A k : k # p => LevelOf(u, s, k) = LevelOf(o, s, k)
      /\ LevelOf(u, s, p) = [size |-> SumOf(o, At(o, s, p)) + q,
                             order_count |-> Cardinality(At(o, s, p)) + 1]
      /\ SumOf(u, On(u, s)) = total + q
  BY <1>2, GrownCopy
<1>4. DOMAIN levels = PricesOn(o, s) /\ \A k \in PricesOn(o, s) : levels[k] = LevelOf(o, s, k)
  BY DEF LevelsOf
<1>5. level = [size |-> SumOf(o, At(o, s, p)), order_count |-> Cardinality(At(o, s, p))]
  BY <1>4, LevelsAreOrders DEF LevelOf
<1> HIDE DEF level, levels
<1>6. LevelOf(u, s, p) = more
  BY <1>3, <1>5
<1> HIDE DEF more
<1>7. LevelsOf(u, s) = Put(levels, p, more)
  <2>1. LevelsOf(u, s) = [k \in PricesOn(o, s) \cup {p} |-> LevelOf(u, s, k)]
    BY <1>3 DEF LevelsOf
  <2>2. \A k \in PricesOn(o, s) \cup {p} :
           LevelOf(u, s, k) = IF k = p THEN more ELSE levels[k]
    BY <1>3, <1>4, <1>6
  <2>3. Put(levels, p, more) = [k \in PricesOn(o, s) \cup {p} |-> IF k = p THEN more ELSE levels[k]]
    BY <1>4 DEF Put
  <2> QED
    BY <2>1, <2>2, <2>3
<1>8. SideOf(u, s) = new
  BY <1>3, <1>7 DEF SideOf
<1>9. AddToPriceLevel(Copy(o), order) = [Copy(o) EXCEPT ![s] = new]
  <2> DEFINE c == Copy(o)
  <2>1. c[s].levels = levels /\ c[s].total = total
    BY <1>1 DEF Copy, SideOf, levels
  <2> HIDE DEF c, total
  <2>2. AddToPriceLevel(c, order) =
          [c EXCEPT ![s] = [levels |-> Put(c[s].levels, p, more), total |-> c[s].total + q]]
    BY <2>1 DEF AddToPriceLevel, more, level
  <2> QED
    BY <2>1, <2>2 DEF c
<1> HIDE DEF s, new
<1>10. [Copy(o) EXCEPT ![s] = new] = Copy(u)
  <2>1. [Copy(o) EXCEPT ![s] = new] = [r \in Sides |-> IF r = s THEN new ELSE SideOf(o, r)]
    BY <1>1 DEF Copy
  <2>2. \A r \in Sides : SideOf(u, r) = IF r = s THEN new ELSE SideOf(o, r)
    BY <1>3, <1>8
  <2> QED
    BY <2>1, <2>2 DEF Copy
<1> QED
  BY <1>9, <1>10 DEF u

(* So does remove_from_price_level: none of its guards against going below    *)
(* zero is ever needed, and it drops a level when its last order leaves.      *)
LEMMA RemoveCopies ==
  ASSUME NEW u, Table(u), NEW id \in DOMAIN u
  PROVE  /\ Table(Erase(u, id))
         /\ RemoveFromPriceLevel(Copy(u), u[id]) = Copy(Erase(u, id))
<1> DEFINE o == Erase(u, id)
           s == u[id].side
           p == u[id].price
           q == u[id].quantity
           levels == LevelsOf(u, s)
           total == SumOf(u, On(u, s))
           before == [size |-> SumOf(o, At(o, s, p)), order_count |-> Cardinality(At(o, s, p))]
           rest == IF p \in PricesOn(o, s) THEN Put(levels, p, before) ELSE Erase(levels, p)
           new == [levels |-> rest, total |-> total - q]
<1>1. s \in Sides /\ q \in Nat \ {0}
  BY DEF Table, Resting
<1>2. Grown(u, o, id)
  <2>1. DOMAIN o = DOMAIN u \ {id} /\ \A x \in DOMAIN o : o[x] = u[x]
    BY DEF Erase, Restrict
  <2>2. o = [x \in DOMAIN o |-> o[x]]
    BY DEF Erase, Restrict
  <2> HIDE DEF o
  <2>3. IsFiniteSet(DOMAIN o)
    BY <2>1, FS_RemoveElement DEF Table
  <2>4. \A x \in DOMAIN o : o[x] \in Resting
    BY <2>1 DEF Table
  <2>5. Table(o)
    BY <2>2, <2>3, <2>4 DEF Table
  <2> QED
    BY <2>1, <2>5 DEF Grown
<1> HIDE DEF o
<1>3. Table(o)
  BY <1>2 DEF Grown
<1>4. /\ \A r : r # s => SideOf(u, r) = SideOf(o, r)
      /\ PricesOn(u, s) = PricesOn(o, s) \cup {p}
      /\ \A k : k # p => LevelOf(u, s, k) = LevelOf(o, s, k)
      /\ LevelOf(u, s, p) = [size |-> before.size + q, order_count |-> before.order_count + 1]
      /\ total = SumOf(o, On(o, s)) + q
  BY <1>2, GrownCopy
<1>5. /\ before.size \in Nat /\ before.order_count \in Nat /\ SumOf(o, On(o, s)) \in Nat
      /\ before.size = 0 \/ before.order_count = 0 <=> p \notin PricesOn(o, s)
  BY <1>3, LevelsAreOrders
<1>6. LevelOf(o, s, p) = before
  BY DEF LevelOf
<1>7. DOMAIN levels = PricesOn(u, s) /\ \A k \in PricesOn(u, s) : levels[k] = LevelOf(u, s, k)
  BY DEF LevelsOf
<1>8. before = [size |-> before.size, order_count |-> before.order_count]
  OBVIOUS
<1> HIDE DEF levels, before
<1>9. LevelsOf(o, s) = rest
  <2>1. LevelsOf(o, s) = [k \in PricesOn(o, s) |-> LevelOf(o, s, k)]
    BY DEF LevelsOf
  <2>2. CASE p \in PricesOn(o, s)
    <3>1. \A k \in PricesOn(o, s) : LevelOf(o, s, k) = IF k = p THEN before ELSE levels[k]
      BY <1>4, <1>6, <1>7
    <3>2. DOMAIN levels \cup {p} = PricesOn(o, s)
      BY <1>4, <1>7, <2>2
    <3>3. rest = [k \in PricesOn(o, s) |-> IF k = p THEN before ELSE levels[k]]
      BY <2>2, <3>2 DEF Put
    <3> QED
      BY <2>1, <3>1, <3>3
  <2>3. CASE p \notin PricesOn(o, s)
    <3>1. \A k \in PricesOn(o, s) : LevelOf(o, s, k) = levels[k]
      BY <1>4, <1>7, <2>3
    <3>2. DOMAIN levels \ {p} = PricesOn(o, s)
      BY <1>4, <1>7, <2>3
    <3>3. rest = [k \in PricesOn(o, s) |-> levels[k]]
      BY <2>3, <3>2 DEF Erase, Restrict
    <3> QED
      BY <2>1, <3>1, <3>3
  <2> QED
    BY <2>2, <2>3
<1>10. SumOf(o, On(o, s)) = total - q
  BY <1>1, <1>4, <1>5
<1>11. SideOf(o, s) = new
  BY <1>9, <1>10 DEF SideOf
<1>12. RemoveFromPriceLevel(Copy(u), u[id]) = [Copy(u) EXCEPT ![s] = new]
  <2> DEFINE c == Copy(u)
             level == c[s].levels[p]
             taken == IF level.size >= q THEN q ELSE 0
             left == [size |-> level.size - taken,
                      order_count |-> IF level.order_count > 0 THEN level.order_count - 1 ELSE 0]
  <2>1. c[s].levels = levels /\ c[s].total = total
    BY <1>1 DEF Copy, SideOf, levels
  <2>2. p \in DOMAIN levels
    BY <1>4, <1>7
  <2> HIDE DEF c
  <2>3. level.size = before.size + q /\ level.order_count = before.order_count + 1
    BY <1>4, <1>7, <2>1, <2>2
  <2> HIDE DEF level
  <2>4. taken = q
    BY <1>1, <1>5, <2>3
  <2>5. left = before
    <3>1. level.size - q = before.size
      BY <1>1, <1>5, <2>3
    <3>2. level.order_count > 0 /\ level.order_count - 1 = before.order_count
      BY <1>5, <2>3
    <3> QED
      BY <1>8, <2>4, <3>1, <3>2
  <2> HIDE DEF taken, left, total
  <2>6. RemoveFromPriceLevel(c, u[id]) =
          [c EXCEPT ![s] =
             [levels |-> IF left.size = 0 \/ left.order_count = 0
                           THEN Erase(c[s].levels, p) ELSE Put(c[s].levels, p, left),
              total |-> c[s].total - taken]]
    BY <2>1, <2>2 DEF RemoveFromPriceLevel, left, taken, level
  <2>7. (IF left.size = 0 \/ left.order_count = 0
           THEN Erase(c[s].levels, p) ELSE Put(c[s].levels, p, left)) = rest
    BY <1>5, <2>1, <2>5
  <2> HIDE DEF rest
  <2> QED
    BY <2>1, <2>4, <2>6, <2>7 DEF c
<1> HIDE DEF s, new
<1>13. [Copy(u) EXCEPT ![s] = new] = Copy(o)
  <2>1. [Copy(u) EXCEPT ![s] = new] = [r \in Sides |-> IF r = s THEN new ELSE SideOf(u, r)]
    BY <1>1 DEF Copy
  <2>2. \A r \in Sides : SideOf(o, r) = IF r = s THEN new ELSE SideOf(u, r)
    BY <1>4, <1>11
  <2> QED
    BY <2>1, <2>2 DEF Copy
<1> QED
  BY <1>3, <1>12, <1>13 DEF o

\* A function without arguments.
LEMMA EmptyFunction ==
  ASSUME NEW f, f = [x \in {} |-> f[x]]
  PROVE  f = EmptyMap
<1>1. f \in [{} -> {}]
  OBVIOUS
<1>2. EmptyMap \in [{} -> {}]
  BY DEF EmptyMap
<1> QED
  BY <1>1, <1>2

LEMMA EmptyCopy == Table(EmptyMap) /\ Copy(EmptyMap) = [s \in Sides |-> EmptySide]
<1>1. DOMAIN EmptyMap = {} /\ EmptyMap = [id \in DOMAIN EmptyMap |-> EmptyMap[id]]
  BY DEF EmptyMap
<1>2. Table(EmptyMap)
  BY <1>1, FS_EmptySet DEF Table
<1>3. ASSUME NEW s \in Sides PROVE SideOf(EmptyMap, s) = EmptySide
  <2>1. On(EmptyMap, s) = {}
    BY <1>1 DEF On
  <2>2. SumOf(EmptyMap, On(EmptyMap, s)) = 0
    BY <1>2, <2>1, Parts
  <2>3. PricesOn(EmptyMap, s) = {}
    BY <2>1 DEF PricesOn
  <2>4. LevelsOf(EmptyMap, s) = EmptyMap
    BY <2>3, EmptyFunction DEF LevelsOf
  <2> QED
    BY <2>2, <2>4 DEF SideOf, EmptySide
<1> QED
  BY <1>2, <1>3 DEF Copy

\* An operation that takes an order out of its level and may put it back.
LEMMA RequantifyStep ==
  ASSUME BookInv, NEW id \in DOMAIN orders, NEW n \in Nat, Requantify(id, n)
  PROVE  BookInv' /\ message_count' = message_count + 1
<1> DEFINE others == Erase(orders, id)
           changed == [orders[id] EXCEPT !.quantity = n]
<1>1. Table(orders) /\ side = Copy(orders) /\ message_count \in Nat
  BY DEF BookInv
<1>2. Table(others) /\ RemoveFromPriceLevel(side, orders[id]) = Copy(others)
  BY <1>1, RemoveCopies
<1>3. id \notin DOMAIN others
  BY DEF Erase, Restrict
<1>4. message_count' = message_count + 1
  BY DEF Requantify, Accept, Count
<1>5. CASE n > 0
  <2>1. orders' = Put(orders, id, changed) /\ side' = AddToPriceLevel(Copy(others), changed)
    BY <1>2, <1>5 DEF Requantify
  <2>2. Put(orders, id, changed) = Put(others, id, changed)
    BY DEF Put, Erase, Restrict
  <2>3. changed \in Resting
    BY <1>1, <1>5 DEF Table, Resting
  <2> HIDE DEF others, changed
  <2>4. Table(Put(others, id, changed))
    BY <1>2, <1>3, <2>3, PutGrows DEF Grown
  <2>5. side' = Copy(Put(others, id, changed))
    BY <1>2, <1>3, <2>1, <2>3, AddCopies
  <2> QED
    BY <1>1, <1>4, <2>1, <2>2, <2>4, <2>5 DEF BookInv
<1>6. CASE n = 0
  <2>1. orders' = others /\ side' = Copy(others)
    BY <1>2, <1>6 DEF Requantify
  <2> QED
    BY <1>1, <1>2, <1>4, <2>1 DEF BookInv
<1> QED
  BY <1>4, <1>5, <1>6

\* An order is added under a new id.
LEMMA AddStep ==
  ASSUME NEW o, Table(o), NEW id, id \notin DOMAIN o, NEW order \in Resting,
         orders' = Put(o, id, order), side' = AddToPriceLevel(Copy(o), order),
         message_count' \in Nat
  PROVE  BookInv'
<1>1. Table(Put(o, id, order)) /\ AddToPriceLevel(Copy(o), order) = Copy(Put(o, id, order))
  BY PutGrows, AddCopies DEF Grown
<1> QED
  BY <1>1 DEF BookInv

\* An order is forgotten.
LEMMA RemoveStep ==
  ASSUME BookInv, NEW id \in DOMAIN orders,
         orders' = Erase(orders, id), side' = RemoveFromPriceLevel(side, orders[id]),
         message_count' \in Nat
  PROVE  BookInv'
BY RemoveCopies DEF BookInv

LEMMA ReplaceStep ==
  ASSUME BookInv, NEW old, NEW new, NEW q \in Nat \ {0}, NEW p \in Prices, Known(old),
         ReplaceOrder(old, new, q, p)
  PROVE  BookInv' /\ message_count' \in {message_count + 1, message_count + 2}
<1> DEFINE others == Erase(orders, old)
           order == [side |-> orders[old].side, price |-> p, quantity |-> q]
<1>1. Table(orders) /\ side = Copy(orders) /\ message_count \in Nat /\ old \in DOMAIN orders
  BY DEF BookInv, Known
<1>2. Table(others) /\ RemoveFromPriceLevel(side, orders[old]) = Copy(others)
  BY <1>1, RemoveCopies
<1>3. order \in Resting
  BY <1>1 DEF Table, Resting
<1>4. CASE new \in DOMAIN others
  <2>1. /\ orders' = others /\ side' = Copy(others)
        /\ message_count' = message_count + 1
    BY <1>2, <1>4 DEF ReplaceOrder, Known, Count
  <2> QED
    BY <1>1, <1>2, <2>1 DEF BookInv
<1>5. CASE new \notin DOMAIN others
  <2>1. /\ orders' = Put(others, new, order)
        /\ side' = AddToPriceLevel(Copy(others), order)
        /\ message_count' = message_count + 2
    BY <1>2, <1>5 DEF ReplaceOrder, Known, Accept, Count
  <2> HIDE DEF others, order
  <2> QED
    BY <1>1, <1>2, <1>3, <1>5, <2>1, AddStep
<1> QED
  BY <1>4, <1>5

\* Every operation keeps the copies alike.
LEMMA BookStep ==
  ASSUME 0 \notin Quantities, BookInv, [Next]_vars
  PROVE  BookInv'
<1>1. Table(orders) /\ side = Copy(orders) /\ message_count \in Nat
  BY DEF BookInv
<1>2. Quantities \subseteq Nat \ {0} /\ Amounts \subseteq Nat
  BY BookAssumption DEF BookAssumption
<1>3. ASSUME UNCHANGED <<orders, side, message_count>> PROVE BookInv'
  BY <1>1, <1>3 DEF BookInv
<1>4. CASE UNCHANGED vars
  BY <1>3, <1>4 DEF vars
<1>5. ASSUME NEW id \in DOMAIN orders, NEW n \in Nat, Requantify(id, n) PROVE BookInv'
  BY <1>1, <1>5, RequantifyStep
<1>6. ASSUME NEW id, NEW amount \in Nat, Known(id)
      PROVE  Reduced(orders[id].quantity, amount) \in Nat
  <2>1. orders[id].quantity \in Nat
    BY <1>1, <1>6 DEF Known, Table, Resting
  <2> QED
    BY <2>1 DEF Reduced
<1>7. ASSUME NEW id \in Ids, NEW s \in Sides, NEW p \in Prices, NEW q \in Quantities,
             AddOrder(id, [side |-> s, price |-> p, quantity |-> q])
      PROVE  BookInv'
  <2> DEFINE order == [side |-> s, price |-> p, quantity |-> q]
  <2>1. order \in Resting
    BY <1>2 DEF Resting
  <2> HIDE DEF order
  <2>2. CASE Refuse
    BY <1>3, <2>2 DEF Refuse
  <2>3. CASE ~ Refuse
    <3>1. /\ id \notin DOMAIN orders
          /\ orders' = Put(orders, id, order)
          /\ side' = AddToPriceLevel(side, order)
          /\ message_count' = message_count + 1
      BY <1>7, <2>3 DEF AddOrder, Known, Accept, Count, order
    <3> QED
      BY <1>1, <2>1, <3>1, AddStep
  <2> QED
    BY <2>2, <2>3
<1>8. ASSUME NEW id \in Ids, NEW q \in Amounts, ModifyOrder(id, q) PROVE BookInv'
  BY <1>2, <1>3, <1>5, <1>8 DEF ModifyOrder, Known, Refuse
<1>9. ASSUME NEW id \in Ids, NEW q \in Amounts, CancelOrder(id, q) PROVE BookInv'
  BY <1>2, <1>3, <1>5, <1>6, <1>9 DEF CancelOrder, Known, Refuse
<1>10. ASSUME NEW id \in Ids, NEW q \in Amounts, ExecuteOrder(id, q) PROVE BookInv'
  BY <1>2, <1>3, <1>5, <1>6, <1>10 DEF ExecuteOrder, Known, Refuse
<1>11. ASSUME NEW id \in Ids, DeleteOrder(id) PROVE BookInv'
  <2>1. CASE ~ Known(id)
    BY <1>3, <1>11, <2>1 DEF DeleteOrder, Refuse
  <2>2. CASE Known(id)
    <3>1. /\ id \in DOMAIN orders
          /\ orders' = Erase(orders, id)
          /\ side' = RemoveFromPriceLevel(side, orders[id])
          /\ message_count' = message_count + 1
      BY <1>11, <2>2 DEF DeleteOrder, Known, Accept, Count
    <3> QED
      BY <1>1, <3>1, RemoveStep
  <2> QED
    BY <2>1, <2>2
<1>12. ASSUME NEW old \in Ids, NEW new \in Ids, NEW q \in Quantities, NEW p \in Prices,
              ReplaceOrder(old, new, q, p)
       PROVE  BookInv'
  <2>1. CASE ~ Known(old)
    BY <1>3, <1>12, <2>1 DEF ReplaceOrder, Refuse
  <2>2. CASE Known(old)
    <3>1. BookInv' /\ message_count' \in {message_count + 1, message_count + 2}
      BY <1>2, <1>12, <2>2, ReplaceStep
    <3> QED
      BY <1>1, <3>1
  <2> QED
    BY <2>1, <2>2
<1>13. ASSUME Clear PROVE BookInv'
  BY <1>13, EmptyCopy DEF Clear, BookInv
<1> QED
  BY <1>4, <1>7, <1>8, <1>9, <1>10, <1>11, <1>12, <1>13 DEF Next

LEMMA InitBookInv == Init => BookInv
BY EmptyCopy DEF Init, BookInv

LEMMA BookInvariant == ASSUME 0 \notin Quantities PROVE Spec => []BookInv
<1>1. BookInv /\ [Next]_vars => BookInv'
  BY BookStep
<1> QED
  BY <1>1, InitBookInv, PTL DEF Spec
-------------------------------------------------------------------------------
(* In a book of any number of orders and prices, after any sequence of        *)
(* operations, a level is there exactly where orders rest and holds their     *)
(* number and the sum of their quantities, if no order is added with quantity *)
(* 0 (lines 245-301).                                                         *)
THEOREM LevelsAgree == ASSUME 0 \notin Quantities PROVE Spec => []LevelsMatchOrders
<1>1. BookInv => LevelsMatchOrders
  <2> SUFFICES ASSUME BookInv, NEW s \in Sides
               PROVE  /\ LevelPrices(s) = OrderPrices(s)
                      /\ \A p \in LevelPrices(s) :
                           side[s].levels[p] = [size |-> QuantityOf(RestingAt(s, p)),
                                                order_count |-> Cardinality(RestingAt(s, p))]
    BY DEF LevelsMatchOrders
  <2>1. side[s].levels = LevelsOf(orders, s)
    BY DEF BookInv, Copy, SideOf
  <2>2. OnSide(s) = On(orders, s)
    BY DEF OnSide, On
  <2>3. OrderPrices(s) = PricesOn(orders, s) /\ \A p : RestingAt(s, p) = At(orders, s, p)
    BY <2>2 DEF OrderPrices, PricesOn, RestingAt, At
  <2>4. \A T : QuantityOf(T) = SumOf(orders, T)
    BY DEF QuantityOf, SumOf, MapThenSumSet, MapThenFoldSet
  <2> QED
    BY <2>1, <2>3, <2>4 DEF LevelPrices, LevelsOf, LevelOf
<1> QED
  BY <1>1, BookInvariant, PTL

\* Every operation that changes orders_ counts itself, whatever the levels say.
Counting == message_count \in Nat

LEMMA CountStep ==
  ASSUME Counting, [Next]_vars
  PROVE  /\ Counting'
         /\ orders' # orders => message_count' > message_count \/ message_count' = 0
<1> USE DEF Counting
<1> DEFINE Goal == /\ message_count' \in Nat
                   /\ orders' # orders => message_count' > message_count \/ message_count' = 0
<1>1. ASSUME UNCHANGED <<orders, message_count>> PROVE Goal
  BY <1>1
<1>2. ASSUME NEW n \in {1, 2}, Count(n) PROVE Goal
  BY <1>2 DEF Count
<1>3. CASE UNCHANGED vars
  BY <1>1, <1>3 DEF vars
<1>4. ASSUME NEW id \in Ids, NEW s \in Sides, NEW p \in Prices, NEW q \in Quantities,
             AddOrder(id, [side |-> s, price |-> p, quantity |-> q])
      PROVE  Goal
  BY <1>1, <1>2, <1>4 DEF AddOrder, Refuse, Accept
<1>5. ASSUME NEW id, NEW q, Requantify(id, q) PROVE Goal
  BY <1>2, <1>5 DEF Requantify, Accept
<1>6. ASSUME NEW id \in Ids, NEW q \in Amounts, ModifyOrder(id, q) PROVE Goal
  BY <1>1, <1>5, <1>6 DEF ModifyOrder, Refuse
<1>7. ASSUME NEW id \in Ids, NEW q \in Amounts, CancelOrder(id, q) PROVE Goal
  BY <1>1, <1>5, <1>7 DEF CancelOrder, Refuse
<1>8. ASSUME NEW id \in Ids, NEW q \in Amounts, ExecuteOrder(id, q) PROVE Goal
  BY <1>1, <1>5, <1>8 DEF ExecuteOrder, Refuse
<1>9. ASSUME NEW id \in Ids, DeleteOrder(id) PROVE Goal
  BY <1>1, <1>2, <1>9 DEF DeleteOrder, Refuse, Accept
<1>10. ASSUME NEW old \in Ids, NEW new \in Ids, NEW q \in Quantities, NEW p \in Prices,
              ReplaceOrder(old, new, q, p)
       PROVE  Goal
  BY <1>1, <1>2, <1>10 DEF ReplaceOrder, Refuse, Accept
<1>11. ASSUME Clear PROVE Goal
  BY <1>11 DEF Clear
<1> QED
  BY <1>3, <1>4, <1>6, <1>7, <1>8, <1>9, <1>10, <1>11 DEF Next

(* Whoever finds message_count() as it was before has missed no change of the *)
(* orders, the half-done replace included, orders of quantity 0 or not        *)
(* (lines 9-128).                                                             *)
THEOREM NoChangeUncounted == Spec => CountsEveryChange
<1>1. Init => Counting
  BY DEF Init, Counting
<1>2. Counting /\ [Next]_vars => Counting'
  BY CountStep
<1>3. Counting /\ [Next]_vars =>
        [orders' # orders => message_count' > message_count \/ message_count' = 0]_vars
  BY CountStep
<1> QED
  BY <1>1, <1>2, <1>3, PTL DEF Spec, CountsEveryChange
-------------------------------------------------------------------------------
(* Finite sets of prices, in the order of a side's map.                       *)

\* There is a best price.
LEMMA BestExists ==
  ASSUME NEW S \in SUBSET Nat, IsFiniteSet(S), S # {}, NEW s
  PROVE  \E p \in S : \A q \in S \ {p} : Better(s, p, q)
<1> DEFINE G == {n \in Nat : \A T \in SUBSET S : T # {} /\ Cardinality(T) = n =>
                   \E p \in T : \A q \in T \ {p} : Better(s, p, q)}
<1>1. \A T \in SUBSET S : IsFiniteSet(T) /\ Cardinality(T) \in Nat
  BY FS_Subset, FS_CardinalityType
<1>2. 0 \in G
  <2>1. \A T \in SUBSET S : Cardinality(T) = 0 => T = {}
    BY <1>1, FS_EmptySet
  <2> QED
    BY <2>1
<1>3. ASSUME NEW n \in Nat, n \in G PROVE n + 1 \in G
  <2> SUFFICES ASSUME NEW T \in SUBSET S, T # {}, Cardinality(T) = n + 1
               PROVE  \E p \in T : \A q \in T \ {p} : Better(s, p, q)
    OBVIOUS
  <2>1. PICK x \in T : TRUE
    OBVIOUS
  <2>2. T \ {x} \in SUBSET S /\ Cardinality(T \ {x}) = n
    BY <1>1, OneLess
  <2>3. CASE T \ {x} = {}
    BY <2>3
  <2>4. CASE T \ {x} # {}
    <3>1. PICK p \in T \ {x} : \A q \in (T \ {x}) \ {p} : Better(s, p, q)
      BY <1>3, <2>2, <2>4
    <3>2. x \in Nat /\ p \in Nat /\ x # p /\ \A q \in T : q \in Nat
      BY <3>1
    <3>3. CASE Better(s, x, p)
      <4>1. \A q \in T \ {x} : Better(s, x, q)
        BY <3>1, <3>2, <3>3 DEF Better
      <4> QED
        BY <4>1
    <3>4. CASE ~ Better(s, x, p)
      <4>1. Better(s, p, x)
        BY <3>2, <3>4 DEF Better
      <4>2. \A q \in T \ {p} : Better(s, p, q)
        BY <3>1, <4>1
      <4> QED
        BY <4>2
    <3> QED
      BY <3>3, <3>4
  <2> QED
    BY <2>3, <2>4
<1> HIDE DEF G
<1>4. Cardinality(S) \in G
  BY <1>2, <1>3, FS_CardinalityType, UpFromZero
<1> QED
  BY <1>4 DEF G

\* It is the greatest of the bids, the least of the asks, and the only one.
LEMMA BestIsBestOf ==
  ASSUME NEW S \in SUBSET Nat, NEW s, NEW p \in S, \A q \in S \ {p} : Better(s, p, q)
  PROVE  /\ BestOf(s, S) = p
         /\ (CHOOSE b \in S : \A q \in S \ {b} : Better(s, b, q)) = p
<1>1. \A x \in S : x \in Nat
  OBVIOUS
<1>2. BestOf(s, S) = p
  <2>1. CASE s = "B"
    <3>1. \A y \in S : p >= y
      BY <1>1, <2>1 DEF Better
    <3>2. \A x \in S : (\A y \in S : x >= y) => x = p
      BY <1>1, <3>1
    <3>3. Max(S) = p
      BY <3>1, <3>2 DEF Max
    <3> QED
      BY <2>1, <3>3 DEF BestOf
  <2>2. CASE s # "B"
    <3>1. \A y \in S : p <= y
      BY <1>1, <2>2 DEF Better
    <3>2. \A x \in S : (\A y \in S : x <= y) => x = p
      BY <1>1, <3>1
    <3>3. Min(S) = p
      BY <3>1, <3>2 DEF Min
    <3> QED
      BY <2>2, <3>3 DEF BestOf
  <2> QED
    BY <2>1, <2>2
<1>3. \A b \in S : (\A q \in S \ {b} : Better(s, b, q)) => b = p
  <2> SUFFICES ASSUME NEW b \in S, \A q \in S \ {b} : Better(s, b, q), b # p PROVE FALSE
    OBVIOUS
  <2>1. Better(s, p, b) /\ Better(s, b, p) /\ b \in Nat /\ p \in Nat
    BY <1>1
  <2> QED
    BY <2>1 DEF Better
<1> QED
  BY <1>2, <1>3

\* A ranking of a set of prices, best first.
Ranking(r, S, s) == /\ r \in [1 .. Cardinality(S) -> S]
                    /\ \A i, j \in 1 .. Cardinality(S) : i < j => Better(s, r[i], r[j])

LEMMA RankingExists ==
  ASSUME NEW S \in SUBSET Nat, IsFiniteSet(S), NEW s
  PROVE  \E r : Ranking(r, S, s)
<1> DEFINE G == {n \in Nat : \A T \in SUBSET S : Cardinality(T) = n => \E r : Ranking(r, T, s)}
<1>1. \A T \in SUBSET S : IsFiniteSet(T) /\ Cardinality(T) \in Nat
  BY FS_Subset, FS_CardinalityType
<1>2. 0 \in G
  <2> SUFFICES ASSUME NEW T \in SUBSET S, Cardinality(T) = 0 PROVE \E r : Ranking(r, T, s)
    OBVIOUS
  <2>1. 1 .. Cardinality(T) = {}
    OBVIOUS
  <2>2. [i \in 1 .. Cardinality(T) |-> 0] \in [1 .. Cardinality(T) -> T]
    BY <2>1
  <2> QED
    BY <2>1, <2>2 DEF Ranking
<1>3. ASSUME NEW n \in Nat, n \in G PROVE n + 1 \in G
  <2> SUFFICES ASSUME NEW T \in SUBSET S, Cardinality(T) = n + 1 PROVE \E r : Ranking(r, T, s)
    OBVIOUS
  <2>1. T # {} /\ IsFiniteSet(T)
    BY <1>1, FS_EmptySet
  <2>2. PICK b \in T : \A q \in T \ {b} : Better(s, b, q)
    BY <2>1, BestExists
  <2>3. T \ {b} \in SUBSET S /\ Cardinality(T \ {b}) = n
    BY <1>1, <2>2, OneLess
  <2>4. PICK e : Ranking(e, T \ {b}, s)
    BY <1>3, <2>3
  <2>5. e \in [1 .. n -> T \ {b}] /\ \A i, j \in 1 .. n : i < j => Better(s, e[i], e[j])
    BY <2>3, <2>4 DEF Ranking
  <2> DEFINE r == [i \in 1 .. n + 1 |-> IF i = 1 THEN b ELSE e[i - 1]]
  <2>6. \A i \in 1 .. n + 1 : i # 1 => i - 1 \in 1 .. n
    OBVIOUS
  <2>7. r \in [1 .. n + 1 -> T]
    BY <2>2, <2>5, <2>6
  <2>8. ASSUME NEW i \in 1 .. n + 1, NEW j \in 1 .. n + 1, i < j PROVE Better(s, r[i], r[j])
    <3>1. j # 1 /\ r[j] = e[j - 1] /\ j - 1 \in 1 .. n /\ e[j - 1] \in T \ {b}
      BY <2>5, <2>6, <2>8
    <3>2. CASE i = 1
      BY <2>2, <3>1, <3>2
    <3>3. CASE i # 1
      <4>1. i - 1 \in 1 .. n /\ i - 1 < j - 1 /\ r[i] = e[i - 1]
        BY <2>8, <3>3
      <4> QED
        BY <2>5, <3>1, <4>1
    <3> QED
      BY <3>2, <3>3
  <2> HIDE DEF r
  <2> QED
    BY <2>7, <2>8 DEF Ranking
<1> HIDE DEF G
<1>4. Cardinality(S) \in G
  BY <1>2, <1>3, FS_CardinalityType, UpFromZero
<1> QED
  BY <1>4 DEF G

\* It has every price once: the i-th is the best of those not before it.
LEMMA RankingIsBest ==
  ASSUME NEW S \in SUBSET Nat, IsFiniteSet(S), NEW s, NEW r, Ranking(r, S, s)
  PROVE  \A i \in 1 .. Cardinality(S) :
           r[i] \in S /\ BestOf(s, S \ {r[j] : j \in 1 .. i - 1}) = r[i]
<1> SUFFICES ASSUME NEW i \in 1 .. Cardinality(S)
             PROVE  r[i] \in S /\ BestOf(s, S \ {r[j] : j \in 1 .. i - 1}) = r[i]
  OBVIOUS
<1> DEFINE n == Cardinality(S)
           before == {r[j] : j \in 1 .. i - 1}
<1>1. n \in Nat
  BY FS_CardinalityType
<1>2. IsFiniteSet(1 .. n) /\ Cardinality(1 .. n) = n
  BY <1>1, FS_Interval
<1>3. \A j \in 1 .. n : r[j] \in S /\ r[j] \in Nat
  BY DEF Ranking
<1>4. r \in [1 .. n -> S] /\ \A j, k \in 1 .. n : j < k => Better(s, r[j], r[k])
  BY DEF Ranking
<1> HIDE DEF n
<1>5. \A j, k \in 1 .. n : r[j] = r[k] => j = k
  <2> SUFFICES ASSUME NEW j \in 1 .. n, NEW k \in 1 .. n, r[j] = r[k], j < k PROVE FALSE
    BY <1>1
  <2>1. Better(s, r[j], r[k]) /\ r[j] \in Nat /\ r[k] \in Nat
    BY <1>3, <1>4
  <2> QED
    BY <2>1 DEF Better
<1>6. \A p \in S : \E j \in 1 .. n : r[j] = p
  <2>1. r \in Injection(1 .. n, S)
    BY <1>4, <1>5 DEF Injection, IsInjective
  <2>2. r \in Surjection(1 .. n, S)
    BY <1>2, <2>1, FS_Injection DEF n
  <2> QED
    BY <2>2 DEF Surjection
<1>7. i \in 1 .. n
  BY DEF n
<1>8. r[i] \in S \ before
  <2>1. \A j \in 1 .. i - 1 : j \in 1 .. n /\ j # i
    BY <1>1, <1>7
  <2> QED
    BY <1>3, <1>5, <1>7, <2>1
<1>9. \A q \in (S \ before) \ {r[i]} : Better(s, r[i], q)
  <2> SUFFICES ASSUME NEW q \in S, q \notin before, q # r[i] PROVE Better(s, r[i], q)
    OBVIOUS
  <2>1. PICK j \in 1 .. n : r[j] = q
    BY <1>6
  <2>2. j # i /\ ~ (j \in 1 .. i - 1)
    BY <2>1
  <2>3. i < j
    BY <1>1, <1>7, <2>2
  <2> QED
    BY <1>4, <1>7, <2>1, <2>3
<1>10. S \ before \in SUBSET Nat
  OBVIOUS
<1> HIDE DEF before
<1>11. BestOf(s, S \ before) = r[i]
  BY <1>8, <1>9, <1>10, BestIsBestOf
<1> QED
  BY <1>8, <1>11 DEF before
-------------------------------------------------------------------------------
(* The readers.                                                             *)

LEMMA PricesFinite ==
  ASSUME NEW o, Table(o), NEW s
  PROVE  PricesOn(o, s) \in SUBSET Nat /\ IsFiniteSet(PricesOn(o, s))
<1> DEFINE f == [id \in On(o, s) |-> o[id].price]
<1>1. On(o, s) \in SUBSET DOMAIN o /\ IsFiniteSet(On(o, s))
  BY FS_Subset DEF On, Table
<1>2. f \in Surjection(On(o, s), PricesOn(o, s))
  BY DEF Surjection, PricesOn
<1>3. IsFiniteSet(PricesOn(o, s))
  BY <1>1, <1>2, FS_Surjection
<1>4. \A id \in DOMAIN o : o[id].price \in Nat
  BY BookAssumption DEF BookAssumption, Table, Resting
<1> QED
  BY <1>1, <1>3, <1>4 DEF PricesOn

\* What the two copies have in common, side by side.
LEMMA SidesAgree ==
  ASSUME BookInv, NEW s \in Sides
  PROVE  /\ LevelPrices(s) = OrderPrices(s)
         /\ OrderPrices(s) \in SUBSET Nat /\ IsFiniteSet(OrderPrices(s))
         /\ OrderPrices(s) = {} <=> OnSide(s) = {}
         /\ \A p \in OrderPrices(s) :
              side[s].levels[p] = [size |-> QuantityOf(RestingAt(s, p)),
                                   order_count |-> Cardinality(RestingAt(s, p))]
         /\ side[s].total = QuantityOf(OnSide(s))
<1>1. side[s].levels = LevelsOf(orders, s) /\ side[s].total = SumOf(orders, On(orders, s))
  BY DEF BookInv, Copy, SideOf
<1>2. OnSide(s) = On(orders, s)
  BY DEF OnSide, On
<1>3. OrderPrices(s) = PricesOn(orders, s) /\ \A p : RestingAt(s, p) = At(orders, s, p)
  BY <1>2 DEF OrderPrices, PricesOn, RestingAt, At
<1>4. \A T : QuantityOf(T) = SumOf(orders, T)
  BY DEF QuantityOf, SumOf, MapThenSumSet, MapThenFoldSet
<1>5. LevelPrices(s) = OrderPrices(s)
  BY <1>1, <1>3 DEF LevelPrices, LevelsOf
<1>6. OrderPrices(s) \in SUBSET Nat /\ IsFiniteSet(OrderPrices(s))
  BY <1>3, PricesFinite DEF BookInv
<1>7. OrderPrices(s) = {} <=> OnSide(s) = {}
  BY DEF OrderPrices
<1>8. \A p \in OrderPrices(s) :
        side[s].levels[p] = [size |-> QuantityOf(RestingAt(s, p)),
                             order_count |-> Cardinality(RestingAt(s, p))]
  BY <1>1, <1>3, <1>4 DEF LevelsOf, LevelOf
<1>9. side[s].total = QuantityOf(OnSide(s))
  BY <1>1, <1>2, <1>4
<1> QED
  BY <1>5, <1>6, <1>7, <1>8, <1>9

\* begin()->first is the best price of an order.
LEMMA BestAgrees ==
  ASSUME BookInv, NEW s \in Sides, OnSide(s) # {}
  PROVE  /\ Best(s) = BestPrice(s)
         /\ BestPrice(s) \in OrderPrices(s)
         /\ \A id \in OnSide(s) : IF s = "B" THEN orders[id].price <= BestPrice(s)
                                             ELSE orders[id].price >= BestPrice(s)
<1> DEFINE prices == OrderPrices(s)
<1>1. LevelPrices(s) = prices /\ prices \in SUBSET Nat /\ IsFiniteSet(prices) /\ prices # {}
  BY SidesAgree
<1>2. \A id \in OnSide(s) : orders[id].price \in prices
  BY DEF OrderPrices
<1> HIDE DEF prices
<1>3. PICK p \in prices : \A q \in prices \ {p} : Better(s, p, q)
  BY <1>1, BestExists
<1>4. /\ BestOf(s, prices) = p
      /\ (CHOOSE b \in prices : \A q \in prices \ {b} : Better(s, b, q)) = p
  BY <1>1, <1>3, BestIsBestOf
<1>5. Best(s) = p
  BY <1>1, <1>4 DEF Best
<1>6. BestPrice(s) = p
  BY <1>4 DEF BestPrice, prices
<1>7. \A q \in prices : IF s = "B" THEN q <= p ELSE q >= p
  BY <1>1, <1>3 DEF Better
<1> QED
  BY <1>2, <1>3, <1>5, <1>6, <1>7 DEF prices

\* The parts of snapshot() that read one side.
LEMMA SideSnapshot ==
  ASSUME BookInv, NEW s \in Sides
  PROVE  LET empty == OnSide(s) = {} IN
           /\ (IF LevelPrices(s) = {} THEN 0 ELSE Best(s)) = IF empty THEN 0 ELSE BestPrice(s)
           /\ (IF LevelPrices(s) = {} THEN 0 ELSE side[s].levels[Best(s)].size)
                = IF empty THEN 0 ELSE QuantityOf(RestingAt(s, BestPrice(s)))
           /\ Cardinality(LevelPrices(s)) = Cardinality(OrderPrices(s))
           /\ side[s].total = QuantityOf(OnSide(s))
           /\ LevelPrices(s) = {} <=> empty
<1>1. /\ LevelPrices(s) = OrderPrices(s)
      /\ OrderPrices(s) = {} <=> OnSide(s) = {}
      /\ \A p \in OrderPrices(s) :
           side[s].levels[p] = [size |-> QuantityOf(RestingAt(s, p)),
                                order_count |-> Cardinality(RestingAt(s, p))]
      /\ side[s].total = QuantityOf(OnSide(s))
  BY SidesAgree
<1>2. CASE OnSide(s) = {}
  BY <1>1, <1>2
<1>3. CASE OnSide(s) # {}
  <2>1. Best(s) = BestPrice(s) /\ BestPrice(s) \in OrderPrices(s)
    BY <1>3, BestAgrees
  <2>2. side[s].levels[Best(s)].size = QuantityOf(RestingAt(s, BestPrice(s)))
    <3>1. side[s].levels[BestPrice(s)] = [size |-> QuantityOf(RestingAt(s, BestPrice(s))),
                                          order_count |-> Cardinality(RestingAt(s, BestPrice(s)))]
      BY <1>1, <2>1
    <3>2. side[s].levels[BestPrice(s)].size = QuantityOf(RestingAt(s, BestPrice(s)))
      BY <3>1
    <3> QED
      BY <2>1, <3>2
  <2> QED
    BY <1>1, <1>3, <2>1, <2>2
<1> QED
  BY <1>2, <1>3

LEMMA SnapshotAgrees == BookInv => SnapshotMatchesOrders
<1> SUFFICES ASSUME BookInv PROVE SnapshotMatchesOrders
  OBVIOUS
<1> DEFINE empty(s) == OnSide(s) = {}
           both == ~ empty("B") /\ ~ empty("S")
           total(s) == QuantityOf(OnSide(s))
<1>1. "B" \in Sides /\ "S" \in Sides
  BY DEF Sides
<1>2. \A s \in Sides :
        /\ (IF LevelPrices(s) = {} THEN 0 ELSE Best(s)) = IF empty(s) THEN 0 ELSE BestPrice(s)
        /\ (IF LevelPrices(s) = {} THEN 0 ELSE side[s].levels[Best(s)].size)
             = IF empty(s) THEN 0 ELSE QuantityOf(RestingAt(s, BestPrice(s)))
        /\ Cardinality(LevelPrices(s)) = Cardinality(OrderPrices(s))
        /\ side[s].total = total(s)
        /\ LevelPrices(s) = {} <=> empty(s)
  BY SideSnapshot
<1>3. TwoSided <=> both
  BY <1>1, <1>2 DEF TwoSided
<1>4. both => /\ Best("B") = BestPrice("B") /\ Best("S") = BestPrice("S")
              /\ BestPrice("B") \in OrderPrices("B") /\ BestPrice("S") \in OrderPrices("S")
              /\ \A b \in OnSide("B") : orders[b].price <= BestPrice("B")
              /\ \A a \in OnSide("S") : orders[a].price >= BestPrice("S")
  BY <1>1, BestAgrees
<1>5. Spread = IF both THEN BestPrice("S") - BestPrice("B") ELSE 0
  BY <1>3, <1>4 DEF Spread
<1>6. Imbalance = <<total("B") - total("S"), total("B") + total("S")>>
  BY <1>1, <1>2 DEF Imbalance
<1>7. both => DoubledMid = BestPrice("B") + BestPrice("S")
  BY <1>3, <1>4 DEF DoubledMid
<1>8. HasCrossing <=> \E b \in OnSide("B"), a \in OnSide("S") : orders[b].price >= orders[a].price
  <2>1. CASE both
    <3>1. PICK b \in OnSide("B") : orders[b].price = BestPrice("B")
      BY <1>4, <2>1 DEF OrderPrices
    <3>2. PICK a \in OnSide("S") : orders[a].price = BestPrice("S")
      BY <1>4, <2>1 DEF OrderPrices
    <3>3. HasCrossing <=> BestPrice("B") >= BestPrice("S")
      BY <1>3, <1>4, <2>1 DEF HasCrossing
    <3>4. \A s \in Sides : OrderPrices(s) \in SUBSET Nat
      BY SidesAgree
    <3>5. /\ BestPrice("B") \in Nat /\ BestPrice("S") \in Nat
          /\ \A x \in OnSide("B") : orders[x].price \in Nat
          /\ \A x \in OnSide("S") : orders[x].price \in Nat
      BY <1>1, <1>4, <2>1, <3>4 DEF OrderPrices
    <3>6. ASSUME NEW x \in OnSide("B"), NEW y \in OnSide("S"), orders[x].price >= orders[y].price
          PROVE  BestPrice("B") >= BestPrice("S")
      BY <1>4, <2>1, <3>5, <3>6
    <3> QED
      BY <3>1, <3>2, <3>3, <3>6
  <2>2. CASE ~ both
    BY <1>3, <2>2 DEF HasCrossing
  <2> QED
    BY <2>1, <2>2
<1>9. Snapshot =
        [best      |-> [s \in Sides |-> IF empty(s) THEN 0 ELSE BestPrice(s)],
         best_size |-> [s \in Sides |->
                          IF empty(s) THEN 0 ELSE QuantityOf(RestingAt(s, BestPrice(s)))],
         levels    |-> [s \in Sides |-> Cardinality(OrderPrices(s))],
         spread    |-> IF both THEN BestPrice("S") - BestPrice("B") ELSE 0,
         imbalance |-> <<total("B") - total("S"), total("B") + total("S")>>]
  <2>1. [s \in Sides |-> IF LevelPrices(s) = {} THEN 0 ELSE Best(s)]
          = [s \in Sides |-> IF empty(s) THEN 0 ELSE BestPrice(s)]
    BY <1>2
  <2>2. [s \in Sides |-> IF LevelPrices(s) = {} THEN 0 ELSE side[s].levels[Best(s)].size]
          = [s \in Sides |-> IF empty(s) THEN 0 ELSE QuantityOf(RestingAt(s, BestPrice(s)))]
    BY <1>2
  <2>3. [s \in Sides |-> Cardinality(LevelPrices(s))]
          = [s \in Sides |-> Cardinality(OrderPrices(s))]
    BY <1>2
  <2> HIDE DEF empty, both, total
  <2> QED
    BY <1>5, <1>6, <2>1, <2>2, <2>3 DEF Snapshot
<1> QED
  BY <1>7, <1>8, <1>9 DEF SnapshotMatchesOrders

LEMMA DepthAgrees == BookInv => DepthMatchesOrders
<1> SUFFICES ASSUME BookInv, NEW s \in Sides, NEW n \in 0 .. Cardinality(Prices)
             PROVE  LET depth == Depth(s, n)
                        before(i) == {depth[j].price : j \in 1 .. i - 1}
                    IN  /\ Len(depth) = Min({n, Cardinality(OrderPrices(s))})
                        /\ \A i \in DOMAIN depth :
                             LET price == BestOf(s, OrderPrices(s) \ before(i))
                             IN  depth[i] = [price |-> price,
                                             size |-> QuantityOf(RestingAt(s, price)),
                                             order_count |-> Cardinality(RestingAt(s, price))]
  BY DEF DepthMatchesOrders
<1> DEFINE depth == Depth(s, n)
           before(i) == {depth[j].price : j \in 1 .. i - 1}
           prices == OrderPrices(s)
           r == Ranked(s)
           most == Min({n, Cardinality(prices)})
<1>1. /\ LevelPrices(s) = prices
      /\ prices \in SUBSET Nat /\ IsFiniteSet(prices)
      /\ \A p \in prices :
           side[s].levels[p] = [size |-> QuantityOf(RestingAt(s, p)),
                                order_count |-> Cardinality(RestingAt(s, p))]
  BY SidesAgree
<1>2. Cardinality(prices) \in Nat
  BY <1>1, FS_CardinalityType
<1>3. n \in Nat
  OBVIOUS
<1> HIDE DEF prices
<1>4. most \in Nat /\ most <= Cardinality(prices)
  <2> DEFINE m == Cardinality(prices)
  <2> HIDE DEF m
  <2>1. m \in Nat
    BY <1>2 DEF m
  <2>2. \E x \in {n, m} : \A y \in {n, m} : x <= y
    BY <1>3, <2>1
  <2>3. Min({n, m}) \in {n, m} /\ Min({n, m}) <= m
    BY <2>2 DEF Min
  <2> QED
    BY <1>3, <2>1, <2>3 DEF m
<1>5. Ranking(r, prices, s)
  <2>1. \E e : Ranking(e, prices, s)
    BY <1>1, RankingExists
  <2>2. r = CHOOSE e \in [1 .. Cardinality(prices) -> prices] :
              \A i, j \in DOMAIN e : i < j => Better(s, e[i], e[j])
    BY <1>1 DEF Ranked
  <2>3. \E e \in [1 .. Cardinality(prices) -> prices] :
           \A i, j \in DOMAIN e : i < j => Better(s, e[i], e[j])
    BY <2>1 DEF Ranking
  <2>4. /\ r \in [1 .. Cardinality(prices) -> prices]
        /\ \A i, j \in DOMAIN r : i < j => Better(s, r[i], r[j])
    BY <2>2, <2>3
  <2> QED
    BY <2>4 DEF Ranking
<1>6. depth = [i \in 1 .. most |-> [price |-> r[i],
                                   size |-> side[s].levels[r[i]].size,
                                   order_count |-> side[s].levels[r[i]].order_count]]
  BY <1>1 DEF Depth
<1> HIDE DEF depth, r, most
<1>7. Len(depth) = most
  BY <1>4, <1>6
<1>8. ASSUME NEW i \in DOMAIN depth
      PROVE  LET price == BestOf(s, prices \ before(i))
             IN  depth[i] = [price |-> price,
                             size |-> QuantityOf(RestingAt(s, price)),
                             order_count |-> Cardinality(RestingAt(s, price))]
  <2>1. i \in 1 .. most /\ i \in 1 .. Cardinality(prices)
    BY <1>2, <1>4, <1>6
  <2>2. r[i] \in prices /\ BestOf(s, prices \ {r[j] : j \in 1 .. i - 1}) = r[i]
    <3>1. \A k \in 1 .. Cardinality(prices) :
             r[k] \in prices /\ BestOf(s, prices \ {r[j] : j \in 1 .. k - 1}) = r[k]
      BY <1>1, <1>5, RankingIsBest
    <3> QED
      BY <2>1, <3>1
  <2>3. \A j \in 1 .. i - 1 : depth[j].price = r[j]
    BY <1>4, <1>6, <2>1
  <2>4. before(i) = {r[j] : j \in 1 .. i - 1}
    BY <2>3
  <2>5. BestOf(s, prices \ before(i)) = r[i]
    BY <2>2, <2>4
  <2>6. depth[i] = [price |-> r[i], size |-> QuantityOf(RestingAt(s, r[i])),
                    order_count |-> Cardinality(RestingAt(s, r[i]))]
    <3> DEFINE p == r[i]
               level == side[s].levels[p]
    <3>1. level = [size |-> QuantityOf(RestingAt(s, p)), order_count |-> Cardinality(RestingAt(s, p))]
      BY <1>1, <2>2
    <3>2. depth[i] = [price |-> p, size |-> level.size, order_count |-> level.order_count]
      BY <1>6, <2>1
    <3> HIDE DEF level, p
    <3> QED
      BY <3>1, <3>2 DEF p
  <2> HIDE DEF before
  <2> QED
    BY <2>5, <2>6
<1> QED
  BY <1>7, <1>8 DEF depth, prices, most

(* Best prices and sizes, spread, mid price, imbalance, crossing and depth    *)
(* are those of the orders at rest, for any number of orders and prices, if   *)
(* no order is added with quantity 0 (lines 130-233).                         *)
THEOREM ReadersAgree == ASSUME 0 \notin Quantities PROVE Spec => []ReadersMatchOrders
<1>1. BookInv => ReadersMatchOrders
  BY SnapshotAgrees, DepthAgrees DEF ReadersMatchOrders
<1> QED
  BY <1>1, BookInvariant, PTL
===============================================================================
