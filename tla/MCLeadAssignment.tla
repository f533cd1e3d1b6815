-------------------------- MODULE MCLeadAssignment --------------------------
(* LeadAssignment on small sets; leads and requests are interchangeable.   *)
EXTENDS LeadAssignment, TLC

CONSTANTS l1, l2, r1, r2

TwoLeads   == {l1, l2}
TwoSlots   == {r1, r2}

Symmetry == Permutations(Leads) \cup Permutations(Slots)
=============================================================================
