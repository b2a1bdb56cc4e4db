------------------------------ MODULE MCFrontend ------------------------------
(* Model-checking instances of Frontend. *)
EXTENDS Frontend

\* Of the attributes of a layer only its visibility is followed.
MCLayerProps == [visible : BOOLEAN]
MCDefaultProps == [visible |-> TRUE]
=============================================================================
