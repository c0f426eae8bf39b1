------------------------------- MODULE JobData -------------------------------
(* What the concurrency patterns of ch41 work on. *)
EXTENDS Naturals

CONSTANTS
    Jobs,     \* the inputs
    Workers,  \* the goroutines of the worker pool, or of FanOut and FanIn
    Nothing,  \* a goroutine that holds no job
    Closed    \* a goroutine that has returned and closed its channel

ASSUME JobAssumption ==
    /\ Nothing \notin Jobs /\ Closed \notin Jobs /\ Nothing # Closed
    /\ Closed \notin {"sending", "open"}
    /\ Workers # {}

=============================================================================
