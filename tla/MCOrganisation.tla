--------------------------- MODULE MCOrganisation ---------------------------
(* Organisation for TLC. *)
EXTENDS Organisation, TLC

\* A tenant that lapsed, and one that pays for two seats.
mc_Subscription ==
    {[known |-> TRUE, plan |-> "growth", status |-> "unpaid", seats |-> 9],
     [known |-> TRUE, plan |-> "unheard_of", status |-> "past_due", seats |-> 2]}

mc_Symmetry == Permutations(Person \ {Founder}) \cup Permutations(Request)
=============================================================================
