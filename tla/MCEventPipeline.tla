-------------------------- MODULE MCEventPipeline ---------------------------
(***************************************************************************)
(* Instance of EventPipeline for TLC: the first event is for everybody,    *)
(* the second for the first profile of the pair that the cfg names.        *)
(***************************************************************************)
EXTENDS EventPipeline

CONSTANT Favourite

MCWanted == [e \in 1..MaxEvents |-> IF e = 1 THEN Profiles ELSE {Favourite}]
=============================================================================
