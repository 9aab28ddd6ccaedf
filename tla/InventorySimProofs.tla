------------------------- MODULE InventorySimProofs -------------------------
(***************************************************************************)
(* What holds of the stock and of the orders of InventorySim for every     *)
(* configuration.  NoOrderIsLate is inductive by itself; the books need it:*)
(* two orders of a SKU never arrive on the same day, so that a new one     *)
(* adds to what is on its way.                                             *)
(***************************************************************************)
EXTENDS InventorySim, FoldLemmas

\* What the orders are, as far as their days matter.
OrdersType ==
  /\ day \in Nat
  /\ orders \in [Skus -> SUBSET [qty : Nat, day : Nat]]

IInv == OrdersType /\ NoOrderIsLate

\* No order lies in a day that is over, or further away than its lead time.
Timely(s, O, d) == LeadTime[s] > 0 => \A o \in O : o.day \in d..(d + LeadTime[s] - 1)

-----------------------------------------------------------------------------

\* The first day has no orders.
LEMMA NoOrders ==
  ASSUME orders' = [s \in Skus |-> {}], day' = 0
  PROVE  IInv'
<1>1. OrdersType'
  BY DEF OrdersType
<1>2. NoOrderIsLate'
  BY DEF NoOrderIsLate
<1> QED BY <1>1, <1>2 DEF IInv

LEMMA InitHolds == Init => IInv
<1> SUFFICES ASSUME Init PROVE IInv
  OBVIOUS
<1>1. OrdersType
  BY DEF Init, OrdersType
<1>2. NoOrderIsLate
  BY DEF Init, NoOrderIsLate
<1> QED BY <1>1, <1>2 DEF IInv

\* Neither the trainer nor a step that changes nothing touches orders and days.
LEMMA Untouched ==
  ASSUME IInv, UNCHANGED <<orders, day>>
  PROVE  IInv'
<1>1. OrdersType'
  BY DEF IInv, OrdersType
<1>2. NoOrderIsLate'
  BY DEF IInv, NoOrderIsLate
<1> QED BY <1>1, <1>2 DEF IInv

\* An order that has not arrived today has a day to come, and one that is placed
\* today arrives after its whole lead time: both are in time tomorrow.
LEMMA TimelyTomorrow ==
  ASSUME ConfigAssumption, OrdersType, NEW s \in Skus, Timely(s, orders[s], day),
         NEW new, \A o \in new : o.day = Arrival(s)
  PROVE  Timely(s, Remaining(s) \union new, day + 1)
<1> SUFFICES ASSUME LeadTime[s] > 0, NEW o \in Remaining(s) \union new
             PROVE  o.day \in (day + 1)..(day + 1 + LeadTime[s] - 1)
  BY DEF Timely
<1>1. day \in Nat /\ LeadTime[s] \in Nat
  BY DEF OrdersType, ConfigAssumption
<1>2. CASE o \in Remaining(s)
  <2>1. o.day \in day..(day + LeadTime[s] - 1)
    BY <1>2 DEF Timely, Remaining
  <2>2. o.day # day
    BY <1>2 DEF Remaining, Arriving
  <2> QED BY <1>1, <2>1, <2>2
<1>3. CASE o \in new
  <2>1. o.day = day + LeadTime[s]
    BY <1>3 DEF Arrival
  <2> QED BY <1>1, <2>1
<1> QED BY <1>2, <1>3

LEMMA StepKeeps ==
  ASSUME ConfigAssumption, IInv,
         NEW reorder \in [Skus -> Reorders], NEW demand \in [Skus -> Demands],
         Step(reorder, demand)
  PROVE  IInv'
<1> DEFINE New(s) == IF Accepted(s, reorder[s], demand[s])
                     THEN {Order(reorder[s], Arrival(s))} ELSE {}
<1>1. day \in Nat /\ day' = day + 1
  BY DEF IInv, OrdersType, Step
<1>2. orders' = [s \in Skus |-> Remaining(s) \union New(s)]
  BY DEF Step
<1>3. ASSUME NEW s \in Skus
      PROVE  New(s) \subseteq [qty : Nat, day : Nat] /\ \A o \in New(s) : o.day = Arrival(s)
  <2>1. reorder[s] \in Nat
    <3>1. reorder[s] \in Reorders
      OBVIOUS
    <3> QED BY <3>1 DEF ConfigAssumption
  <2>2. Arrival(s) \in Nat
    <3>1. LeadTime[s] \in Nat
      BY DEF ConfigAssumption
    <3> QED BY <1>1, <3>1 DEF Arrival
  <2> QED BY <2>1, <2>2 DEF Order
<1> HIDE DEF New
<1>4. OrdersType'
  <2>1. \A s \in Skus : Remaining(s) \subseteq [qty : Nat, day : Nat]
    BY DEF IInv, OrdersType, Remaining
  <2>2. orders' \in [Skus -> SUBSET [qty : Nat, day : Nat]]
    BY <1>2, <1>3, <2>1
  <2> QED BY <1>1, <2>2 DEF OrdersType
<1>5. NoOrderIsLate'
  <2>1. ASSUME NEW s \in Skus
        PROVE  Timely(s, Remaining(s) \union New(s), day + 1)
    <3>1. Timely(s, orders[s], day)
      BY DEF IInv, NoOrderIsLate, Timely
    <3>2. \A o \in New(s) : o.day = Arrival(s)
      BY <1>3
    <3> QED BY <3>1, <3>2, TimelyTomorrow DEF IInv
  <2>2. \A s \in Skus : Timely(s, orders'[s], day')
    BY <1>1, <1>2, <2>1
  <2> QED BY <2>2 DEF NoOrderIsLate, Timely
<1> QED BY <1>4, <1>5 DEF IInv

LEMMA NextKeeps == ConfigAssumption /\ IInv /\ [Next]_vars => IInv'
<1> SUFFICES ASSUME ConfigAssumption, IInv, [Next]_vars PROVE IInv'
  OBVIOUS
<1>1. CASE Reset
  BY <1>1, NoOrders DEF Reset
<1>2. CASE EndEpisode
  BY <1>2, Untouched DEF EndEpisode, simVars
<1>3. CASE SaveRaises
  BY <1>3, Untouched DEF SaveRaises, simVars
<1>4. ASSUME NEW reorder \in [Skus -> Reorders], NEW demand \in [Skus -> Demands],
             Step(reorder, demand)
      PROVE  IInv'
  BY <1>4, StepKeeps
<1>5. ASSUME NEW s \in Skus, NEW k \in Kinds, Save(s, k)
      PROVE  IInv'
  BY <1>5, Untouched DEF Save, simVars
<1>6. CASE UNCHANGED vars
  BY <1>6, Untouched DEF vars, simVars
<1> QED BY <1>1, <1>2, <1>3, <1>4, <1>5, <1>6 DEF Next

\* Whatever is ordered and sold, an order is on its way for its lead time and no
\* longer: it never waits for a day that is over (step of marl_environment.py).
THEOREM OrdersArrive ==
  ASSUME ConfigAssumption
  PROVE  Spec => []NoOrderIsLate
<1>1. IInv => NoOrderIsLate
  BY DEF IInv
<1> QED BY InitHolds, NextKeeps, <1>1, PTL DEF Spec

-----------------------------------------------------------------------------
(* The books.                                                              *)

AnyOrder == [qty : Nat, day : Nat]
Quantity == [o \in AnyOrder |-> o.qty]

\* What a SKU's books say: before the first day nothing has happened.
Balanced(s) ==
  /\ IsFiniteSet(orders[s])
  /\ day = 0 => /\ stock[s] = InitialInventory[s] /\ orders[s] = {}
                /\ sold[s] = 0 /\ ordered[s] = 0
  /\ day > 0 =>
       /\ stock[s] + OnOrder(s) + sold[s]
            = Lesser(InitialInventory[s], Capacity[s]) + ordered[s]
       /\ stock[s] + OnOrder(s) =< Capacity[s]

\* The inductive invariant.
BooksInv == TypeOK /\ NoOrderIsLate /\ \A s \in Skus : Balanced(s)

\* The units of a set of orders are a sum.
LEMMA UnitsSum ==
  ASSUME NEW S \in SUBSET AnyOrder, IsFiniteSet(S)
  PROVE  Units(S) = Sum(Quantity, S) /\ Units(S) \in Nat
<1> DEFINE f == [o \in S |-> o.qty]
<1>1. Units(S) = Sum(f, S)
  BY FoldOfFieldIsSum DEF Units
<1>2. \A o \in S : f[o] = Quantity[o] /\ Quantity[o] \in Nat
  BY DEF Quantity, AnyOrder
<1> HIDE DEF f
<1>3. Sum(f, S) = Sum(Quantity, S)
  BY <1>2, SumSame
<1>4. Sum(Quantity, S) \in Nat
  BY <1>2, SumNat
<1> QED
  BY <1>1, <1>3, <1>4

LEMMA UnitsEmpty == Units({}) = 0
BY UnitsSum, SumEmpty, FS_EmptySet

\* What arrives today and what does not.
LEMMA UnitsSplit ==
  ASSUME NEW s \in Skus, orders[s] \in SUBSET AnyOrder, IsFiniteSet(orders[s])
  PROVE  /\ Arriving(s) \in SUBSET AnyOrder /\ IsFiniteSet(Arriving(s))
         /\ Remaining(s) \in SUBSET AnyOrder /\ IsFiniteSet(Remaining(s))
         /\ Units(Arriving(s)) \in Nat /\ Units(Remaining(s)) \in Nat
         /\ OnOrder(s) = Units(Arriving(s)) + Units(Remaining(s))
<1>1. Arriving(s) \in SUBSET orders[s] /\ Remaining(s) \in SUBSET orders[s]
  BY DEF Arriving, Remaining
<1>2. IsFiniteSet(Arriving(s)) /\ IsFiniteSet(Remaining(s))
  BY <1>1, FS_Subset
<1>3. Arriving(s) \in SUBSET AnyOrder /\ Remaining(s) \in SUBSET AnyOrder
  BY <1>1
<1>4. /\ Units(Arriving(s)) = Sum(Quantity, Arriving(s)) /\ Units(Arriving(s)) \in Nat
      /\ Units(Remaining(s)) = Sum(Quantity, Remaining(s)) /\ Units(Remaining(s)) \in Nat
      /\ OnOrder(s) = Sum(Quantity, orders[s])
  BY <1>2, <1>3, UnitsSum DEF OnOrder
<1>5. \A o \in orders[s] : Quantity[o] \in Nat
  BY DEF Quantity, AnyOrder
<1>6. Sum(Quantity, orders[s]) = Sum(Quantity, Arriving(s)) + Sum(Quantity, Remaining(s))
  BY <1>1, <1>5, SumSplit DEF Remaining
<1> QED
  BY <1>2, <1>3, <1>4, <1>6

\* An order that is placed today is not one of those on their way.
LEMMA UnitsPlaced ==
  ASSUME NEW S \in SUBSET AnyOrder, IsFiniteSet(S), NEW o \in AnyOrder, o \notin S
  PROVE  /\ S \union {o} \in SUBSET AnyOrder /\ IsFiniteSet(S \union {o})
         /\ Units(S \union {o}) = Units(S) + o.qty
<1> DEFINE P == S \union {o}
<1>1. P \in SUBSET AnyOrder /\ o \in P /\ P \ {o} = S
  OBVIOUS
<1>2. IsFiniteSet(P)
  BY FS_AddElement
<1>3. \A x \in P : Quantity[x] \in Nat
  BY DEF Quantity, AnyOrder
<1> HIDE DEF P
<1>4. Sum(Quantity, P) = Quantity[o] + Sum(Quantity, P \ {o})
  BY <1>1, <1>2, <1>3, SumRemove
<1>5. Quantity[o] = o.qty /\ o.qty \in Nat
  BY DEF Quantity, AnyOrder
<1>6. Units(P) = Sum(Quantity, P) /\ Units(S) = Sum(Quantity, S) /\ Units(S) \in Nat
  BY <1>1, <1>2, UnitsSum
<1>7. Units(P) = Units(S) + o.qty
  <2>1. Sum(Quantity, P) = o.qty + Sum(Quantity, S)
    BY <1>1, <1>4, <1>5
  <2>2. Sum(Quantity, S) \in Nat
    BY <1>6
  <2> QED
    BY <1>5, <1>6, <2>1, <2>2
<1> QED
  BY <1>1, <1>2, <1>7 DEF P

LEMMA LesserNat ==
  ASSUME NEW a \in Nat, NEW b \in Nat
  PROVE  /\ Lesser(a, b) \in Nat /\ Lesser(a, b) =< a /\ Lesser(a, b) =< b
         /\ a =< b => Lesser(a, b) = a
BY DEF Lesser

\* What is sold leaves the stock, what is ordered is on its way.
LEMMA DayAddsUp ==
  ASSUME NEW g \in Nat, NEW b \in Nat, NEW r \in Nat, NEW u \in Nat,
         NEW sales \in Nat, NEW bought \in Nat, NEW l \in Nat, NEW cap \in Nat,
         b =< g, g + r + sales = l + bought, g + r =< cap, u = 0 \/ g - b + r + u =< cap
  PROVE  /\ (g - b) + (r + u) + (sales + b) = l + (bought + u)
         /\ (g - b) + (r + u) =< cap
OBVIOUS

\* A day keeps the books of each SKU.
LEMMA DayKeepsBooks ==
  ASSUME ConfigAssumption, BooksInv,
         NEW reorder \in [Skus -> Reorders], NEW demand \in [Skus -> Demands],
         Step(reorder, demand), NEW s \in Skus
  PROVE  /\ stock'[s] \in Nat /\ sold'[s] \in Nat /\ ordered'[s] \in Nat
         /\ orders'[s] \in SUBSET AnyOrder
         /\ Balanced(s)'
<1> DEFINE q == reorder[s]
           N == IF Accepted(s, q, demand[s]) THEN {Order(q, Arrival(s))} ELSE {}
           u == IF Accepted(s, q, demand[s]) THEN q ELSE 0
           a == Units(Arriving(s))
           r == Units(Remaining(s))
           g == Received(s)
           b == Sold(s, demand[s])
           init == InitialInventory[s]
           cap == Capacity[s]
<1>1. /\ init \in Nat /\ cap \in Nat /\ LeadTime[s] \in Nat
      /\ q \in Nat /\ demand[s] \in Nat
  <2>1. reorder[s] \in Reorders /\ demand[s] \in Demands
    OBVIOUS
  <2> QED
    BY <2>1 DEF ConfigAssumption
<1>2. /\ stock[s] \in Nat /\ sold[s] \in Nat /\ ordered[s] \in Nat /\ day \in Nat
      /\ orders[s] \in SUBSET AnyOrder /\ IsFiniteSet(orders[s])
  BY DEF BooksInv, TypeOK, Balanced, AnyOrder
<1>3. /\ Remaining(s) \in SUBSET AnyOrder /\ IsFiniteSet(Remaining(s))
      /\ a \in Nat /\ r \in Nat /\ OnOrder(s) = a + r
  BY <1>2, UnitsSplit
<1>4. /\ stock'[s] = g - b /\ sold'[s] = sold[s] + b /\ ordered'[s] = ordered[s] + u
      /\ orders'[s] = Remaining(s) \union N /\ day' = day + 1
  BY DEF Step
<1>5. /\ g = Lesser(stock[s] + a, cap) /\ b = Lesser(g, demand[s])
      /\ Accepted(s, q, demand[s]) => q > 0 /\ g - b + r + q =< cap
  BY DEF Received, Sold, Accepted
<1>6. g \in Nat /\ g =< cap /\ g =< stock[s] + a /\ (stock[s] + a =< cap => g = stock[s] + a)
  <2> HIDE DEF g, a
  <2>1. stock[s] + a \in Nat
    BY <1>2, <1>3
  <2> QED
    BY <1>1, <1>5, <2>1, LesserNat
<1>7. b \in Nat /\ b =< g
  <2> HIDE DEF b, g
  <2> QED
    BY <1>1, <1>5, <1>6, LesserNat
<1>8. u \in Nat
  BY <1>1
<1>9. \A o \in Remaining(s) : o.day # Arrival(s)
  <2>1. ASSUME NEW o \in Remaining(s) PROVE o.day # day + LeadTime[s]
    <3>1. o \in orders[s] /\ o.day # day
      <4>1. o \in orders[s] /\ ~(o \in Arriving(s))
        BY DEF Remaining
      <4> QED
        BY <4>1 DEF Arriving
    <3>2. CASE LeadTime[s] = 0
      BY <1>2, <3>1, <3>2
    <3>3. CASE LeadTime[s] > 0
      <4>1. o.day \in day..(day + LeadTime[s] - 1)
        BY <3>1, <3>3 DEF BooksInv, NoOrderIsLate
      <4> QED
        BY <1>1, <1>2, <4>1
    <3> QED
      BY <1>1, <3>2, <3>3
  <2> QED
    BY <2>1 DEF Arrival
<1>10. /\ orders'[s] \in SUBSET AnyOrder /\ IsFiniteSet(orders'[s])
       /\ Units(orders'[s]) = r + u
  <2>1. CASE Accepted(s, q, demand[s])
    <3> DEFINE o == Order(q, Arrival(s))
    <3>1. o \in AnyOrder /\ o.qty = q /\ o.day = Arrival(s)
      <4>1. Arrival(s) \in Nat
        BY <1>1, <1>2 DEF Arrival
      <4> QED
        BY <1>1, <4>1 DEF Order, AnyOrder
    <3> HIDE DEF o
    <3>2. o \notin Remaining(s)
      BY <1>9, <3>1
    <3>3. /\ Remaining(s) \union {o} \in SUBSET AnyOrder
          /\ IsFiniteSet(Remaining(s) \union {o})
          /\ Units(Remaining(s) \union {o}) = r + q
      BY <1>3, <3>1, <3>2, UnitsPlaced
    <3>4. N = {o} /\ u = q
      BY <2>1 DEF o
    <3> HIDE DEF N, u, r
    <3> QED
      BY <1>4, <3>3, <3>4
  <2>2. CASE ~Accepted(s, q, demand[s])
    <3>1. N = {} /\ u = 0
      BY <2>2
    <3>2. orders'[s] = Remaining(s)
      BY <1>4, <3>1
    <3> HIDE DEF N, u
    <3> QED
      BY <1>3, <3>1, <3>2
  <2> QED
    BY <2>1, <2>2
<1>11. \/ g - b + r + u =< cap
       \/ ~Accepted(s, q, demand[s]) /\ u = 0
  BY <1>5
<1>12. \/ day = 0 /\ stock[s] = init /\ a + r = 0 /\ sold[s] = 0 /\ ordered[s] = 0
       \/ /\ day > 0 /\ stock[s] + a + r + sold[s] = Lesser(init, cap) + ordered[s]
          /\ stock[s] + a + r =< cap
  <2>1. Balanced(s)
    BY DEF BooksInv
  <2>2. CASE day = 0
    <3>1. orders[s] = {}
      BY <2>1, <2>2 DEF Balanced
    <3>2. OnOrder(s) = 0
      BY <3>1, UnitsEmpty DEF OnOrder
    <3> HIDE DEF a, r
    <3> QED
      BY <1>3, <2>1, <2>2, <3>2 DEF Balanced
  <2>3. CASE day > 0
    <3> HIDE DEF a, r
    <3> QED
      BY <1>2, <1>3, <2>1, <2>3 DEF Balanced
  <2> QED
    BY <1>2, <2>2, <2>3
<1> DEFINE l == Lesser(init, cap)
<1>13. l \in Nat /\ l =< cap
  BY <1>1, LesserNat
<1>14. CASE day = 0
  <2>1. a = 0 /\ r = 0 /\ stock[s] = init /\ sold[s] = 0 /\ ordered[s] = 0
    <3> HIDE DEF a, r
    <3> QED
      BY <1>3, <1>12, <1>14
  <2>2. g = l
    <3> HIDE DEF a, g
    <3> QED
      BY <1>1, <1>5, <2>1
  <2>3. /\ stock'[s] + (r + u) + sold'[s] = l + ordered'[s]
        /\ stock'[s] + (r + u) =< cap
    <3>1. /\ g \in Nat /\ b \in Nat /\ r \in Nat /\ u \in Nat /\ l \in Nat /\ cap \in Nat
          /\ sold[s] \in Nat /\ ordered[s] \in Nat /\ b =< g
      BY <1>1, <1>2, <1>3, <1>6, <1>7, <1>8, <1>13
    <3>2. u = 0 \/ g - b + r + u =< cap
      BY <1>11
    <3> HIDE DEF a, r, g, b, u, l, cap
    <3>3. g + r + sold[s] = l + ordered[s] /\ g + r =< cap
      BY <1>13, <2>1, <2>2, <3>1
    <3> DEFINE sales == sold[s]
               bought == ordered[s]
    <3>4. sales \in Nat /\ bought \in Nat /\ g + r + sales = l + bought
      BY <3>1, <3>3
    <3>5. stock'[s] = g - b /\ sold'[s] = sales + b /\ ordered'[s] = bought + u
      BY <1>4
    <3> HIDE DEF sales, bought, q, N, init
    <3>6. /\ g \in Nat /\ b \in Nat /\ r \in Nat /\ u \in Nat /\ l \in Nat /\ cap \in Nat
          /\ b =< g /\ g + r =< cap
      BY <3>1, <3>3
    <3>7. /\ (g - b) + (r + u) + (sales + b) = l + (bought + u)
          /\ (g - b) + (r + u) =< cap
      BY <3>2, <3>4, <3>6, DayAddsUp
    <3> QED
      BY <3>5, <3>7
  <2>4. stock'[s] \in Nat /\ sold'[s] \in Nat /\ ordered'[s] \in Nat
    <3> HIDE DEF g, b, u
    <3> QED
      BY <1>2, <1>4, <1>6, <1>7, <1>8
  <2>5. day' # 0 /\ day' > 0
    BY <1>2, <1>4
  <2> HIDE DEF r, u
  <2>6. Balanced(s)'
    BY <1>10, <2>3, <2>5 DEF Balanced, OnOrder
  <2> QED
    BY <1>10, <2>4, <2>6
<1>15. CASE day # 0
  <2>1. /\ stock[s] + a + r + sold[s] = l + ordered[s]
        /\ stock[s] + a + r =< cap
    BY <1>12, <1>15
  <2>2. g = stock[s] + a
    <3> HIDE DEF a, r, g
    <3> QED
      BY <1>1, <1>2, <1>3, <1>6, <2>1
  <2>3. /\ stock'[s] + (r + u) + sold'[s] = l + ordered'[s]
        /\ stock'[s] + (r + u) =< cap
    <3>1. /\ g \in Nat /\ b \in Nat /\ r \in Nat /\ u \in Nat /\ l \in Nat /\ cap \in Nat
          /\ a \in Nat /\ stock[s] \in Nat /\ sold[s] \in Nat /\ ordered[s] \in Nat /\ b =< g
      BY <1>1, <1>2, <1>3, <1>6, <1>7, <1>8, <1>13
    <3>2. u = 0 \/ g - b + r + u =< cap
      BY <1>11
    <3> HIDE DEF a, r, g, b, u, l, cap
    <3>3. g + r + sold[s] = l + ordered[s] /\ g + r =< cap
      BY <2>1, <2>2, <3>1
    <3> DEFINE sales == sold[s]
               bought == ordered[s]
    <3>4. sales \in Nat /\ bought \in Nat /\ g + r + sales = l + bought
      BY <3>1, <3>3
    <3>5. stock'[s] = g - b /\ sold'[s] = sales + b /\ ordered'[s] = bought + u
      BY <1>4
    <3> HIDE DEF sales, bought, q, N, init
    <3>6. /\ g \in Nat /\ b \in Nat /\ r \in Nat /\ u \in Nat /\ l \in Nat /\ cap \in Nat
          /\ b =< g /\ g + r =< cap
      BY <3>1, <3>3
    <3>7. /\ (g - b) + (r + u) + (sales + b) = l + (bought + u)
          /\ (g - b) + (r + u) =< cap
      BY <3>2, <3>4, <3>6, DayAddsUp
    <3> QED
      BY <3>5, <3>7
  <2>4. stock'[s] \in Nat /\ sold'[s] \in Nat /\ ordered'[s] \in Nat
    <3> HIDE DEF g, b, u
    <3> QED
      BY <1>2, <1>4, <1>6, <1>7, <1>8
  <2>5. day' # 0 /\ day' > 0
    BY <1>2, <1>4
  <2> HIDE DEF r, u
  <2>6. Balanced(s)'
    BY <1>10, <2>3, <2>5 DEF Balanced, OnOrder
  <2> QED
    BY <1>10, <2>4, <2>6
<1> QED
  BY <1>14, <1>15

\* A day keeps the types and the books.
LEMMA DayKeeps ==
  ASSUME ConfigAssumption, BooksInv,
         NEW reorder \in [Skus -> Reorders], NEW demand \in [Skus -> Demands],
         Step(reorder, demand)
  PROVE  BooksInv'
<1>1. ASSUME NEW s \in Skus
      PROVE  /\ stock'[s] \in Nat /\ sold'[s] \in Nat /\ ordered'[s] \in Nat
             /\ orders'[s] \in SUBSET AnyOrder
             /\ Balanced(s)'
  BY DayKeepsBooks
<1>2. /\ stock' \in [Skus -> Nat] /\ sold' \in [Skus -> Nat] /\ ordered' \in [Skus -> Nat]
      /\ orders' \in [Skus -> SUBSET AnyOrder]
  <2>1. /\ DOMAIN stock' = Skus /\ DOMAIN sold' = Skus /\ DOMAIN ordered' = Skus
        /\ DOMAIN orders' = Skus
        /\ stock' = [s \in DOMAIN stock' |-> stock'[s]]
        /\ sold' = [s \in DOMAIN sold' |-> sold'[s]]
        /\ ordered' = [s \in DOMAIN ordered' |-> ordered'[s]]
        /\ orders' = [s \in DOMAIN orders' |-> orders'[s]]
    BY DEF Step
  <2> QED
    BY <1>1, <2>1
<1>3. TypeOK'
  BY <1>2 DEF BooksInv, TypeOK, AnyOrder, Step
<1>4. NoOrderIsLate'
  <2>1. IInv
    BY DEF BooksInv, IInv, OrdersType, TypeOK
  <2> QED
    BY <2>1, StepKeeps DEF IInv
<1>5. \A s \in Skus : Balanced(s)'
  BY <1>1
<1> QED
  BY <1>3, <1>4, <1>5 DEF BooksInv

\* So does a first day, when the stock is what it starts with.
LEMMA FreshBooks ==
  ASSUME ConfigAssumption, TypeOK',
         stock' = InitialInventory, orders' = [s \in Skus |-> {}], day' = 0,
         sold' = [s \in Skus |-> 0], ordered' = [s \in Skus |-> 0]
  PROVE  BooksInv'
<1>1. NoOrderIsLate'
  BY NoOrders DEF IInv
<1>2. ASSUME NEW s \in Skus PROVE Balanced(s)'
  BY FS_EmptySet DEF Balanced
<1> QED
  BY <1>1, <1>2 DEF BooksInv

LEMMA SameBooks ==
  ASSUME BooksInv, TypeOK', UNCHANGED simVars
  PROVE  BooksInv'
<1>1. NoOrderIsLate'
  BY DEF BooksInv, NoOrderIsLate, simVars
<1>2. ASSUME NEW s \in Skus PROVE Balanced(s)'
  BY DEF BooksInv, Balanced, OnOrder, simVars
<1> QED
  BY <1>1, <1>2 DEF BooksInv

LEMMA BooksInit == ConfigAssumption /\ Init => BooksInv
<1> SUFFICES ASSUME ConfigAssumption, Init PROVE BooksInv
  OBVIOUS
<1>1. TypeOK
  BY DEF ConfigAssumption, Init, TypeOK, AfterEpisodes
<1>2. NoOrderIsLate
  BY InitHolds DEF IInv
<1>3. ASSUME NEW s \in Skus PROVE Balanced(s)
  BY FS_EmptySet DEF Init, Balanced
<1> QED
  BY <1>1, <1>2, <1>3 DEF BooksInv

LEMMA BooksNext == ConfigAssumption /\ BooksInv /\ [Next]_vars => BooksInv'
<1> SUFFICES ASSUME ConfigAssumption, BooksInv, [Next]_vars PROVE BooksInv'
  OBVIOUS
<1> USE DEF simVars
<1>1. CASE Reset
  <2>1. TypeOK'
    BY <1>1 DEF ConfigAssumption, BooksInv, TypeOK, Reset
  <2> QED
    BY <1>1, <2>1, FreshBooks DEF Reset
<1>2. CASE EndEpisode
  <2>1. TypeOK'
    BY <1>2 DEF BooksInv, TypeOK, EndEpisode, AfterEpisodes
  <2> QED
    BY <1>2, <2>1, SameBooks DEF EndEpisode
<1>3. CASE SaveRaises
  <2>1. TypeOK'
    BY <1>3 DEF BooksInv, TypeOK, SaveRaises
  <2> QED
    BY <1>3, <2>1, SameBooks DEF SaveRaises
<1>4. ASSUME NEW reorder \in [Skus -> Reorders], NEW demand \in [Skus -> Demands],
             Step(reorder, demand)
      PROVE  BooksInv'
  BY <1>4, DayKeeps
<1>5. ASSUME NEW s \in Skus, NEW k \in Kinds, Save(s, k)
      PROVE  BooksInv'
  <2>1. TypeOK'
    BY <1>5 DEF BooksInv, TypeOK, Save, Policies
  <2> QED
    BY <1>5, <2>1, SameBooks DEF Save
<1>6. CASE UNCHANGED vars
  <2>1. TypeOK'
    BY <1>6 DEF BooksInv, TypeOK, vars
  <2> QED
    BY <1>6, <2>1, SameBooks DEF vars
<1> QED
  BY <1>1, <1>2, <1>3, <1>4, <1>5, <1>6 DEF Next

\* Every variable of the simulation keeps its type.
THEOREM SimTypeCorrect ==
  ASSUME ConfigAssumption
  PROVE  Spec => []TypeOK
<1>1. BooksInv => TypeOK
  BY DEF BooksInv
<1> QED BY BooksInit, BooksNext, <1>1, PTL DEF Spec

\* From the first day on no unit disappears and no order arrives that does not fit,
\* whatever is ordered, sold and on its way (step of marl_environment.py).
THEOREM BooksBalance ==
  ASSUME ConfigAssumption
  PROVE  Spec => []StockBooksBalance
<1>1. BooksInv => StockBooksBalance
  BY DEF BooksInv, StockBooksBalance, NothingLost, Balanced
<1> QED BY BooksInit, BooksNext, <1>1, PTL DEF Spec

=============================================================================
