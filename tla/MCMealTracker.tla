--------------------------- MODULE MCMealTracker ---------------------------
(* Two meals a day from bowls of their own, or the second past midnight     *)
(* from the same bowl.                                                      *)
EXTENDS MealTracker

CONSTANTS breakfast, dinner, bowl_1, bowl_2

Schedule(dinnerEnd, dinnerBowl) ==
    [m \in Meals |->
        IF m = breakfast THEN [start |-> 2, end |-> 3, bowl |-> bowl_1]
        ELSE [start |-> 4, end |-> dinnerEnd, bowl |-> dinnerBowl]]

MCSchedules == {Schedule(5, bowl_2), Schedule(0, bowl_1)}
=============================================================================
