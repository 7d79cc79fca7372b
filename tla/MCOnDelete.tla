----------------------------- MODULE MCOnDelete -----------------------------
(* Instances of OnDelete for TLC. *)
EXTENDS OnDelete

CONSTANTS rel, oth, tgt

\* Two relationships with one target.  Any of the three may have the pairs, so
\* the references form chains, diamonds and cycles.
TwoPairs == {<<rel, tgt>>, <<oth, tgt>>}
AllOfRel == {<<rel, Star>>, <<rel, tgt>>}

\* Entities go with the target of rel, and with the relationship oth.
WithRelationship == [s \in Slot |-> IF s = oth THEN "Delete" ELSE "none"]
WithTarget == [s \in Slot |-> IF s = rel THEN "Delete" ELSE "none"]
=============================================================================
