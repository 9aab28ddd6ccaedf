---------------------------- MODULE InventorySim ----------------------------
(***************************************************************************)
(* The simulated stock of InventoryMarketingSim and the loop that trains   *)
(* the agents of InventoryMarketingMARLTrainer_CTDE on it: episodes of     *)
(* EpisodeLength days, and after the last one a file with the policy of    *)
(* each agent.  What the agents choose is any action they have, as while   *)
(* they explore; a promotion shows in the demand only, which is any of     *)
(* Demands.                                                                *)
(***************************************************************************)
EXTENDS Integers, FiniteSetsExt

CONSTANTS
  Skus,
  InitialInventory, Capacity, LeadTime,  \* of each SKU
  Reorders,       \* action_space_inventory
  Demands,
  EpisodeLength,  \* 200 in the code
  Episodes        \* num_episodes

\* What the proof needs of the configuration.
ConfigAssumption ==
  /\ InitialInventory \in [Skus -> Nat] /\ Capacity \in [Skus -> Nat]
  /\ LeadTime \in [Skus -> Nat]
  /\ Reorders \subseteq Nat /\ Demands \subseteq Nat
  /\ EpisodeLength \in Nat /\ Episodes \in Nat

VARIABLES
  stock,      \* current_inventory
  orders,     \* outstanding_orders: a SKU has at most one for each day of arrival
  day,        \* current_timestep
  episode, pc,
  registry,   \* is there a registry to publish to?
  files,      \* the policies that are in a file
  sold, ordered   \* history: of each SKU, in this episode

simVars == <<stock, orders, day, sold, ordered>>
vars == <<simVars, episode, pc, registry, files>>

Kinds == {"inventory", "marketing"}
Policies == Skus \X Kinds
Order(q, d) == [qty |-> q, day |-> d]
Lesser(a, b) == IF a < b THEN a ELSE b

TypeOK ==
  /\ stock \in [Skus -> Nat]
  /\ orders \in [Skus -> SUBSET [qty : Nat, day : Nat]]
  /\ day \in Nat /\ episode \in Nat
  /\ pc \in {"reset", "step", "over", "save", "done", "raised"}
  /\ registry \in BOOLEAN /\ files \in SUBSET Policies
  /\ sold \in [Skus -> Nat] /\ ordered \in [Skus -> Nat]

\* Training that has no more episodes to go saves the policies.
AfterEpisodes(n) == IF n < Episodes THEN "reset" ELSE "save"

Init ==
  /\ stock = InitialInventory
  /\ orders = [s \in Skus |-> {}]
  /\ day = 0 /\ episode = 0 /\ pc = AfterEpisodes(0)
  /\ registry \in BOOLEAN /\ files = {}
  /\ sold = [s \in Skus |-> 0] /\ ordered = [s \in Skus |-> 0]

-----------------------------------------------------------------------------
(* A day of the simulation.                                                *)

Units(S) == MapThenSumSet(LAMBDA o : o.qty, S)
OnOrder(s) == Units(orders[s])

Arriving(s) == {o \in orders[s] : o.day = day}
Remaining(s) == orders[s] \ Arriving(s)
\* What does not fit is thrown away.
Received(s) == Lesser(stock[s] + Units(Arriving(s)), Capacity[s])
Sold(s, demand) == Lesser(Received(s), demand)

\* Mutant of Accepted: what is on its way takes no room.
AcceptedIfFits(s, q, demand) ==
  q > 0 /\ Received(s) - Sold(s, demand) + q =< Capacity[s]
Accepted(s, q, demand) ==
  q > 0 /\ Received(s) - Sold(s, demand) + Units(Remaining(s)) + q =< Capacity[s]

\* Mutant of Arrival: the day an order is placed counts.
ArrivalSooner(s) == day + LeadTime[s] - 1
Arrival(s) == day + LeadTime[s]

\* The orders are placed when those of the day have arrived.
Step(reorder, demand) ==
  /\ pc = "step"
  /\ stock' = [s \in Skus |-> Received(s) - Sold(s, demand[s])]
  /\ orders' = [s \in Skus |->
       Remaining(s) \union
         (IF Accepted(s, reorder[s], demand[s]) THEN {Order(reorder[s], Arrival(s))} ELSE {})]
  /\ sold' = [s \in Skus |-> sold[s] + Sold(s, demand[s])]
  /\ ordered' = [s \in Skus |->
       ordered[s] + (IF Accepted(s, reorder[s], demand[s]) THEN reorder[s] ELSE 0)]
  /\ day' = day + 1
  /\ pc' = IF day + 1 >= EpisodeLength THEN "over" ELSE "step"
  /\ UNCHANGED <<episode, registry, files>>

-----------------------------------------------------------------------------
(* The trainer.                                                            *)

Reset ==
  /\ pc = "reset" /\ pc' = "step"
  /\ stock' = InitialInventory
  /\ orders' = [s \in Skus |-> {}]
  /\ day' = 0
  /\ sold' = [s \in Skus |-> 0] /\ ordered' = [s \in Skus |-> 0]
  /\ UNCHANGED <<episode, registry, files>>

EndEpisode ==
  /\ pc = "over"
  /\ episode' = episode + 1 /\ pc' = AfterEpisodes(episode + 1)
  /\ UNCHANGED <<simVars, registry, files>>

\* The inventory agent of a SKU comes first, and one SKU after the other.
NextToSave(s, k) ==
  /\ <<s, k>> \notin files
  /\ k = "inventory" => \A r \in Skus : <<r, "inventory">> \in files => <<r, "marketing">> \in files
  /\ k = "marketing" => <<s, "inventory">> \in files

\* With a registry the name SharableLearning is looked up, which the module
\* does not import: NameError, before the try.
Save(s, k) ==
  /\ pc = "save" /\ NextToSave(s, k)
  /\ files' = files \union {<<s, k>>}
  /\ pc' = IF registry THEN "raised" ELSE IF files' = Policies THEN "done" ELSE "save"
  /\ UNCHANGED <<simVars, episode, registry>>

\* open, or a write, raises.
SaveRaises ==
  /\ pc = "save" /\ pc' = "raised"
  /\ UNCHANGED <<simVars, episode, registry, files>>

Next ==
  \/ Reset \/ EndEpisode \/ SaveRaises
  \/ \E reorder \in [Skus -> Reorders], demand \in [Skus -> Demands] : Step(reorder, demand)
  \/ \E s \in Skus, k \in Kinds : Save(s, k)

Spec == Init /\ [][Next]_vars

-----------------------------------------------------------------------------
(* Properties.                                                             *)

\* From the first day on no unit disappears: what was there, as far as it fits,
\* and what was ordered, was sold or is in stock or on its way.  Orders that
\* overlap never bring more than fits, whatever the demand was in between.
NothingLost ==
  day > 0 =>
    \A s \in Skus :
      /\ stock[s] + OnOrder(s) + sold[s] = Lesser(InitialInventory[s], Capacity[s]) + ordered[s]
      /\ stock[s] + OnOrder(s) =< Capacity[s]

\* The day an order arrives is still to come, unless the lead time is zero: the
\* arrivals of a day are over when its orders are placed, and such an order
\* stays on its way for good.
NoOrderIsLate ==
  \A s \in Skus : LeadTime[s] > 0 =>
    \A o \in orders[s] : o.day \in day..(day + LeadTime[s] - 1)

\* What the simulation promises of the stock: both of the above.
StockBooksBalance == NothingLost /\ NoOrderIsLate

=============================================================================
