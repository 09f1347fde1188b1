--------------------------- MODULE MCRegistration ---------------------------
(* The instances of Registration that TLC checks. *)
EXTENDS Registration

Plain  == [hook |-> FALSE, formFactor |-> TRUE]
Hooked == [hook |-> TRUE, formFactor |-> TRUE]
Bare   == [hook |-> FALSE, formFactor |-> FALSE]

AllSpecs == {Plain, Hooked, Bare}

(* Every registration names its form factor. *)
WithFormFactor == {Plain, Hooked}
=============================================================================
