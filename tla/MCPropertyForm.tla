--------------------------- MODULE MCPropertyForm ---------------------------
(* One tab on a property; the other members of the organisation reach the     *)
(* row through SaveElsewhere and DeleteElsewhere.  Two saves in all.           *)
EXTENDS PropertyForm
=============================================================================
