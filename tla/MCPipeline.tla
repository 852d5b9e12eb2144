----------------------------- MODULE MCPipeline -----------------------------
(* Pipeline for TLC: the sets of requests, replicas and results are model  *)
(* values, given by each configuration.                                    *)
EXTENDS Pipeline, TLC

\* Replicas and results are interchangeable, and so are requests.
Symmetry == Permutations(Worker) \cup Permutations(Result)
                \cup Permutations(Request)
=============================================================================
