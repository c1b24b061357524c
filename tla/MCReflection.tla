------------------------------ MODULE MCReflection ------------------------------
(* The reflection bridge with values for TLC. *)
EXTENDS ReflectionProperties
=============================================================================
