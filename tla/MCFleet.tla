------------------------------- MODULE MCFleet --------------------------------
(***************************************************************************)
(* Constants of module Fleet for the model checker.                        *)
(***************************************************************************)
EXTENDS Fleet

\* A link that bounces goes with the kernel that has fewer states, where
\* fleets open one after the other.
MCMaxBounces == [withLinks \in BOOLEAN |-> IF withLinks THEN 0 ELSE 2]
===============================================================================
