-------------------------- MODULE OrderPricingProofs --------------------------
(***************************************************************************)
(* Proofs about the arithmetic of OrderPricing.                            *)
(***************************************************************************)
EXTENDS OrderPricing, FiniteSetTheorems, FunctionTheorems, WellFoundedInduction, TLAPS

\* A discount of any amount by any whole percentage is rounded down by less than
\* one minor unit, and is neither negative nor more than the amount.
THEOREM DiscountRoundsDown ==
  ASSUME NEW amount \in Nat, NEW p \in 0..100
  PROVE  /\ Discounted(amount, p) \in 0..amount
         /\ 100 * Discounted(amount, p) <= amount * (100 - p)
         /\ amount * (100 - p) < 100 * (Discounted(amount, p) + 1)
<1> DEFINE product == amount * (100 - p)
<1>1. product \in Nat /\ product <= 100 * amount
  <2>1. amount * p \in Nat
    BY Z3
  <2>2. product = 100 * amount - amount * p
    BY Z3
  <2>3. product >= 0
    BY Z3
  <2>4. QED
    BY <2>1, <2>2, <2>3
<1> HIDE DEF product
<1>2. /\ product \div 100 \in 0..amount
      /\ 100 * (product \div 100) <= product
      /\ product < 100 * ((product \div 100) + 1)
  BY <1>1, Z3
<1>3. Discounted(amount, p) = product \div 100
  BY DEF Discounted, product
<1>4. QED
  BY <1>2, <1>3 DEF product

\* A larger percentage never leaves a larger price, whatever the rounding.
THEOREM DiscountIsMonotonic ==
  ASSUME NEW amount \in Nat, NEW p \in 0..100, NEW q \in 0..100, p <= q
  PROVE  Discounted(amount, q) <= Discounted(amount, p)
<1> DEFINE atP == amount * (100 - p)
           atQ == amount * (100 - q)
<1>1. atP \in Nat /\ atQ \in Nat /\ atQ <= atP
  BY Z3
<1> HIDE DEF atP, atQ
<1>2. atQ \div 100 <= atP \div 100
  BY <1>1, Z3
<1>3. QED
  BY <1>2 DEF Discounted, atP, atQ

-----------------------------------------------------------------------------
(* Totals                                                                  *)

\* What the arithmetic of a total has to be defined on.
Line == [sku : Sku, quantity : Nat]

LEMMA LeastExists ==
  ASSUME NEW T \in SUBSET Nat, T # {}
  PROVE  \E x \in T : \A y \in T : x <= y
<1>1. IsWellFoundedOn(OpToRel(<, Nat), Nat)
  BY NatLessThanWellFounded
<1>2. \A x, y \in Nat : <<x, y>> \in OpToRel(<, Nat) <=> x < y
  BY DEF OpToRel
<1>3. PICK less : IsWellFoundedOn(less, Nat) /\ \A x, y \in Nat : <<x, y>> \in less <=> x < y
  BY <1>1, <1>2
<1>4. PICK x \in T : \A y \in T : ~ (<<y, x>> \in less)
  <2>1. IsWellFoundedOn(less, Nat) /\ T \subseteq Nat /\ T # {}
    BY <1>3
  <2>2. QED
    BY <2>1, WFMin, Zenon
<1>5. \A y \in T : ~ (y < x)
  BY <1>3, <1>4
<1>6. QED
  BY <1>5

\* The running totals of the first n lines.
Sums(items, n, total) ==
    total = [m \in 0..n |->
                IF m = 0 THEN 0
                ELSE total[m - 1] + UnitPrice[items[m].sku] * items[m].quantity]

\* The recursion of TotalAmount defines something.
LEMMA SumsExist ==
  ASSUME NEW items, NEW n \in Nat PROVE \E total : Sums(items, n, total)
<1> DEFINE T == {m \in Nat : ~ \E total : Sums(items, m, total)}
<1>1. SUFFICES ASSUME T # {} PROVE FALSE
  OBVIOUS
<1>2. PICK x \in T : \A y \in T : x <= y
  BY <1>1, LeastExists
<1>3. x # 0
  <2>1. Sums(items, 0, [m \in 0..0 |-> 0])
    BY DEF Sums
  <2>2. QED
    BY <2>1
<1>4. x - 1 \in Nat /\ x - 1 \notin T
  BY <1>2, <1>3
<1>5. PICK f : Sums(items, x - 1, f)
  BY <1>4
<1> DEFINE g == [m \in 0..x |->
                   IF m = 0 THEN 0
                   ELSE f[m - 1] + UnitPrice[items[m].sku] * items[m].quantity]
<1>6. ASSUME NEW m \in 0..x, m # 0 PROVE g[m - 1] = f[m - 1]
  <2>1. m - 1 \in 0..(x - 1) /\ m - 1 \in 0..x
    BY <1>3, <1>6
  <2>2. f[m - 1] = IF m - 1 = 0 THEN 0
                   ELSE f[m - 1 - 1] + UnitPrice[items[m - 1].sku] * items[m - 1].quantity
    BY <1>5, <2>1, Zenon DEF Sums
  <2>3. QED
    BY <2>1, <2>2
<1>7. Sums(items, x, g)
  BY <1>6 DEF Sums
<1>8. QED
  BY <1>7

\* The minor units of the i-th line, each one counted,
UnitsOfLine(items, i) ==
    {<<i, k, u>> : k \in 1..items[i].quantity, u \in 1..UnitPrice[items[i].sku]}

\* and those of the first n lines.
UnitsUpTo(items, n) == UNION {UnitsOfLine(items, i) : i \in 1..n}

LEMMA UnitsOfLineCount ==
  ASSUME NEW items \in Seq(Line), NEW i \in 1..Len(items)
  PROVE  /\ IsFiniteSet(UnitsOfLine(items, i))
         /\ Cardinality(UnitsOfLine(items, i)) = UnitPrice[items[i].sku] * items[i].quantity
<1> DEFINE q == items[i].quantity
           p == UnitPrice[items[i].sku]
           Pairs == (1..p) \X (1..q)
           f == [pair \in Pairs |-> <<i, pair[2], pair[1]>>]
<1>1. q \in Nat /\ p \in Nat
  <2>1. items[i] \in Line
    OBVIOUS
  <2>2. QED
    BY <2>1, PriceAssumption DEF Line
<1>2. UnitsOfLine(items, i) = {<<i, k, u>> : k \in 1..q, u \in 1..p}
  BY DEF UnitsOfLine
<1> HIDE DEF q, p
<1>3. /\ IsFiniteSet(1..p) /\ Cardinality(1..p) = p
      /\ IsFiniteSet(1..q) /\ Cardinality(1..q) = q
  BY <1>1, FS_Interval
<1>4. IsFiniteSet(Pairs) /\ Cardinality(Pairs) = p * q
  <2>1. Cardinality(Pairs) = Cardinality(1..p) * Cardinality(1..q) /\ IsFiniteSet(Pairs)
    BY <1>3, FS_Product
  <2>2. QED
    BY <1>3, <2>1
<1>5. f \in Bijection(Pairs, UnitsOfLine(items, i))
  <2>1. f \in [Pairs -> UnitsOfLine(items, i)]
    BY <1>2
  <2>2. \A a, b \in Pairs : f[a] = f[b] => a = b
    OBVIOUS
  <2>3. ASSUME NEW unit \in UnitsOfLine(items, i) PROVE \E a \in Pairs : f[a] = unit
    <3>1. PICK k \in 1..q, u \in 1..p : unit = <<i, k, u>>
      BY <1>2
    <3>2. <<u, k>> \in Pairs /\ f[<<u, k>>] = unit
      BY <3>1
    <3>3. QED
      BY <3>2
  <2>4. QED
    BY <2>1, <2>2, <2>3 DEF Bijection, Injection, Surjection, IsInjective
<1>6. ExistsBijection(Pairs, UnitsOfLine(items, i))
  BY <1>5 DEF ExistsBijection
<1>7. IsFiniteSet(UnitsOfLine(items, i)) /\ Cardinality(UnitsOfLine(items, i)) = p * q
  BY <1>4, <1>6, FS_Bijection
<1>8. QED
  BY <1>7 DEF p, q

LEMMA SumsCountUnits ==
  ASSUME NEW items \in Seq(Line), NEW total, Sums(items, Len(items), total),
         NEW n \in 0..Len(items)
  PROVE  IsFiniteSet(UnitsUpTo(items, n)) /\ Cardinality(UnitsUpTo(items, n)) = total[n]
<1> DEFINE Right(m) ==
             IsFiniteSet(UnitsUpTo(items, m)) /\ Cardinality(UnitsUpTo(items, m)) = total[m]
           T == {m \in 0..Len(items) : ~Right(m)}
<1>1. SUFFICES ASSUME T # {} PROVE FALSE
  OBVIOUS
<1>2. Len(items) \in Nat /\ T \in SUBSET Nat
  OBVIOUS
<1>3. PICK x \in T : \A y \in T : x <= y
  BY <1>1, <1>2, LeastExists
<1>4. x # 0
  <2>1. UnitsUpTo(items, 0) = {}
    BY DEF UnitsUpTo
  <2>2. total[0] = 0
    BY <1>2 DEF Sums
  <2>3. QED
    BY <2>1, <2>2, FS_EmptySet
<1>5. x \in 1..Len(items) /\ x - 1 \in 0..Len(items) /\ x \in 0..Len(items)
  BY <1>2, <1>4
<1>6. Right(x - 1)
  BY <1>2, <1>3, <1>5
<1>7. total[x] = total[x - 1] + UnitPrice[items[x].sku] * items[x].quantity
  BY <1>4, <1>5 DEF Sums
<1>8. UnitsUpTo(items, x) = UnitsUpTo(items, x - 1) \cup UnitsOfLine(items, x)
  <2>1. 1..x = (1..(x - 1)) \cup {x}
    BY <1>5
  <2>2. QED
    BY <2>1 DEF UnitsUpTo
<1>9. UnitsUpTo(items, x - 1) \cap UnitsOfLine(items, x) = {}
  <2>1. ASSUME NEW i, NEW unit \in UnitsOfLine(items, i) PROVE unit[1] = i
    BY DEF UnitsOfLine
  <2>2. \A unit \in UnitsUpTo(items, x - 1) : unit[1] \in 1..(x - 1)
    BY <2>1 DEF UnitsUpTo
  <2>3. QED
    BY <1>5, <2>1, <2>2
<1>10. Right(x)
  <2>1. /\ IsFiniteSet(UnitsUpTo(items, x))
        /\ Cardinality(UnitsUpTo(items, x)) =
             Cardinality(UnitsUpTo(items, x - 1)) + Cardinality(UnitsOfLine(items, x))
               - Cardinality({})
    BY <1>5, <1>6, <1>8, <1>9, UnitsOfLineCount, FS_Union
  <2>2. Cardinality(UnitsUpTo(items, x - 1)) \in Nat /\ Cardinality(UnitsOfLine(items, x)) \in Nat
    BY <1>5, <1>6, UnitsOfLineCount, FS_CardinalityType
  <2>3. QED
    BY <1>5, <1>6, <1>7, <2>1, <2>2, UnitsOfLineCount, FS_EmptySet
<1>11. QED
  BY <1>10

\* The total of an order counts every minor unit of every line, once each.
THEOREM TotalCountsUnits ==
  ASSUME NEW items \in Seq(Line)
  PROVE  TotalAmount(items) = Cardinality(UnitsUpTo(items, Len(items)))
<1> DEFINE total == CHOOSE f : Sums(items, Len(items), f)
<1>1. Len(items) \in Nat
  OBVIOUS
<1>2. Sums(items, Len(items), total)
  BY <1>1, SumsExist, Zenon
<1>3. TotalAmount(items) = total[Len(items)]
  BY DEF TotalAmount, Sums
<1>4. QED
  BY <1>1, <1>2, <1>3, SumsCountUnits
=============================================================================
