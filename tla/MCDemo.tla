------------------------------- MODULE MCDemo -------------------------------
(* DemoPipeline for TLC: a run of two scenes.                              *)
EXTENDS DemoPipeline

CONSTANTS d1, d2   \* the requests of the run

TwoScenes == <<d1, d2>>
=============================================================================
