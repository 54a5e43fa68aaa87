--------------------------- MODULE MCBackgroundJobs ---------------------------
(* Two processes; the jobs that react to the bus stand for one job, those *)
(* driven by timers for another. *)
EXTENDS BackgroundJobs
=============================================================================
