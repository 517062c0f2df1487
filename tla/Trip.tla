-------------------------------- MODULE Trip --------------------------------
(***************************************************************************)
(* The days of a plan and the order of what is done on them.  A traveller's *)
(* trip has days and items on them; a tour's itinerary has days only.  A   *)
(* position is read (the last one plus one) and written by another         *)
(* statement.  The number of a day is unique by a key; the sort order of an *)
(* item is not.                                                            *)
(***************************************************************************)
EXTENDS Naturals, Sequences, FiniteSetsExt

CONSTANTS
    TripDay,     \* rows of trip_days, or of tour_itineraries
    TripItem     \* rows of trip_items

\* A request takes the first id that no row and no other request has.
ASSUME PlanAssumption ==
    /\ TripDay \cup TripItem \subseteq Nat \ {0} /\ TripDay \cap TripItem = {}
    /\ IsFiniteSet(TripDay \cup TripItem)

VARIABLES
    plan,        \* "TRIP" or "TOUR"
    planOpen,    \* the trip or tour is not deleted
    dayNumber,   \* TripDay.dayNumber; 0: the row is not there
    spent,       \* ids given to days and items so far: an id is never given again
    numbering,   \* the number an addDay has read; 0: no such request
    place,       \* where an item stands: its day and sort order, or Nowhere
    placing,     \* the place an addItem is about to write
    moving,      \* the items of a reorder that has checked them
    removed,     \* history: a day was removed from the plan
    late,        \* history: items to be added whose day has got other items, or another
                 \* order, since their place was chosen
    muddled      \* history: days whose order was written from an outdated list

planVars == <<plan, planOpen, dayNumber, spent, numbering, place, placing, moving,
              removed, late, muddled>>

Nowhere == [day |-> 0, order |-> 0]

PlanInit ==
    /\ plan \in {"TRIP", "TOUR"}
    /\ planOpen = TRUE /\ removed = FALSE
    /\ dayNumber = [d \in TripDay |-> 0]
    /\ spent = {}
    /\ numbering = [d \in TripDay |-> 0]
    /\ place = [i \in TripItem |-> Nowhere]
    /\ placing = [i \in TripItem |-> Nowhere]
    /\ moving = [d \in TripDay |-> <<>>]
    /\ late = {} /\ muddled = {}

\* remove of the trip or the tour; its days and items keep their rows.
RemovePlan ==
    /\ planOpen
    /\ planOpen' = FALSE
    /\ UNCHANGED <<plan, dayNumber, spent, numbering, place, placing, moving, removed, late, muddled>>

-----------------------------------------------------------------------------
(* Days.                                                                   *)

\* Items on a day, and items on their way to it.
ItemsOf(d) == {i \in TripItem : place[i].day = d}
Awaited(d) == {i \in TripItem : placing[i].day = d}

NextDayNumber == Max({0} \cup {dayNumber[d] : d \in TripDay}) + 1

AskAddDay(d) ==
    /\ planOpen
    /\ d \notin spent /\ numbering[d] = 0
    /\ \A e \in TripDay : e < d => e \in spent \/ numbering[e] # 0
    /\ numbering' = [numbering EXCEPT ![d] = NextDayNumber]
    /\ UNCHANGED <<plan, planOpen, dayNumber, spent, place, placing, moving, removed, late, muddled>>

\* The INSERT, refused when another day took the number first.
CreateDay(d) ==
    /\ numbering[d] # 0
    /\ numbering' = [numbering EXCEPT ![d] = 0]
    /\ \/ /\ \A e \in TripDay : dayNumber[e] # numbering[d]
          /\ dayNumber' = [dayNumber EXCEPT ![d] = numbering[d]]
          /\ spent' = spent \cup {d}
       \/ /\ \E e \in TripDay : dayNumber[e] = numbering[d]
          /\ UNCHANGED <<dayNumber, spent>>
    /\ UNCHANGED <<plan, planOpen, place, placing, moving, removed, late, muddled>>

\* DELETE, with the items of the day.  A deleted tour is asked about, a trip is not.
RemoveDay(d) ==
    /\ dayNumber[d] # 0 /\ (planOpen \/ plan = "TRIP")
    /\ dayNumber' = [dayNumber EXCEPT ![d] = 0]
    /\ place' = [i \in TripItem |-> IF place[i].day = d THEN Nowhere ELSE place[i]]
    /\ removed' = TRUE
    /\ late' = late \ Awaited(d) /\ muddled' = muddled \ {d}
    /\ UNCHANGED <<plan, planOpen, spent, numbering, placing, moving>>

-----------------------------------------------------------------------------
(* Items: only a trip has them.  None of these requests asks whether the   *)
(* trip is deleted.                                                        *)

(* Mutant: the number of items instead of the last sort order.             *)
CountedSortOrder(d) == Cardinality(ItemsOf(d)) + 1

NextSortOrder(d) == Max({0} \cup {place[i].order : i \in ItemsOf(d)}) + 1

AskAddItem(i, d) ==
    /\ plan = "TRIP" /\ dayNumber[d] # 0
    /\ i \notin spent /\ placing[i] = Nowhere
    /\ \A j \in TripItem : j < i => j \in spent \/ placing[j] # Nowhere
    /\ placing' = [placing EXCEPT ![i] = [day |-> d, order |-> NextSortOrder(d)]]
    /\ UNCHANGED <<plan, planOpen, dayNumber, spent, numbering, place, moving, removed, late, muddled>>

\* The INSERT: the order is not compared with what was added since.
CreateItem(i) ==
    LET d == placing[i].day
    IN  /\ placing[i] # Nowhere
        /\ placing' = [placing EXCEPT ![i] = Nowhere]
        /\ \/ /\ dayNumber[d] # 0
              /\ place' = [place EXCEPT ![i] = placing[i]]
              /\ spent' = spent \cup {i}
              /\ muddled' = IF i \in late THEN muddled \cup {d} ELSE muddled
              /\ late' = (late \ {i}) \cup (Awaited(d) \ {i})
           \/ /\ dayNumber[d] = 0
              /\ late' = late \ {i}
              /\ UNCHANGED <<place, spent, muddled>>
        /\ UNCHANGED <<plan, planOpen, dayNumber, numbering, moving, removed>>

RemoveItem(i) ==
    /\ place[i] # Nowhere
    /\ place' = [place EXCEPT ![i] = Nowhere]
    /\ UNCHANGED <<plan, planOpen, dayNumber, spent, numbering, placing, moving, removed, late, muddled>>

\* reorderItems: each id is an item of the day, and that is all that is asked.  Bounds
\* of the model: one reorder at a time, of two ids, which may be the same.
AskReorder(d, ids) ==
    /\ dayNumber[d] # 0 /\ \A e \in TripDay : moving[e] = <<>>
    /\ \A k \in DOMAIN ids : ids[k] \in ItemsOf(d)
    /\ moving' = [moving EXCEPT ![d] = ids]
    /\ UNCHANGED <<plan, planOpen, dayNumber, spent, numbering, place, placing, removed, late, muddled>>

Listed(ids) == {ids[k] : k \in DOMAIN ids}
LastIndex(ids, i) == Max({k \in DOMAIN ids : ids[k] = i})

\* One transaction of UPDATEs by id, undone when one of the items is gone.
ReorderItems(d) ==
    LET ids == moving[d]
    IN  /\ ids # <<>>
        /\ moving' = [moving EXCEPT ![d] = <<>>]
        /\ \/ /\ \A i \in Listed(ids) : place[i] # Nowhere
              /\ place' = [i \in TripItem |->
                    IF i \in Listed(ids) THEN [place[i] EXCEPT !.order = LastIndex(ids, i)]
                    ELSE place[i]]
              /\ muddled' = IF ItemsOf(d) \subseteq Listed(ids)
                            THEN muddled \ {d} ELSE muddled \cup {d}
              /\ late' = late \cup Awaited(d)
           \/ /\ \E i \in Listed(ids) : place[i] = Nowhere
              /\ UNCHANGED <<place, late, muddled>>
        /\ UNCHANGED <<plan, planOpen, dayNumber, spent, numbering, placing, removed>>

-----------------------------------------------------------------------------
PlanNext ==
    \/ RemovePlan
    \/ \E d \in TripDay :
         \/ AskAddDay(d) \/ CreateDay(d) \/ RemoveDay(d) \/ ReorderItems(d)
         \/ \E i \in TripItem : AskAddItem(i, d)
         \/ \E i, j \in TripItem : AskReorder(d, <<i, j>>)
    \/ \E i \in TripItem : CreateItem(i) \/ RemoveItem(i)

PlanSpec == PlanInit /\ [][PlanNext]_planVars

-----------------------------------------------------------------------------
(* Properties.                                                             *)

Places == [day : TripDay, order : Nat \ {0}] \cup {Nowhere}

\* Everything is of its kind; two days never share a number, and an item stands
\* on a day that is there.
PlanTypeOK ==
    /\ dayNumber \in [TripDay -> Nat] /\ numbering \in [TripDay -> Nat]
    /\ place \in [TripItem -> Places] /\ placing \in [TripItem -> Places]
    /\ \A d, e \in TripDay : dayNumber[d] = dayNumber[e] /\ dayNumber[d] # 0 => d = e
    /\ \A i \in TripItem : place[i] # Nowhere => dayNumber[place[i].day] # 0

\* The days are 1, 2, ... n as long as none was removed.
DaysConsecutive ==
    LET there == {dayNumber[d] : d \in TripDay} \ {0}
    IN  ~removed => there = 1..Cardinality(there)

\* Two items of a day have different sort orders, so a list sorted by them is the
\* same each time, unless an item was added or moved by an outdated list; a reorder
\* of all the items puts that right.
PositionsDistinct ==
    \A i, j \in TripItem :
      i # j /\ place[i] # Nowhere /\ place[i].day \notin muddled => place[i] # place[j]

PlanInOrder == DaysConsecutive /\ PositionsDistinct
=============================================================================
