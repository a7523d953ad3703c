----------------------------- MODULE MCScheduler -----------------------------
(* Instances of Scheduler for TLC. *)
EXTENDS Scheduler, TLC

CONSTANTS f, g

Created == f :> "manual"

(* Two schedules at once, one of them changed, one switched off and one without its trigger. *)
SomePayloads == {(f :> "cron1" @@ g :> "cron2"), (f :> "cron2"), (f :> "untriggered" @@ g :> "manual")}

Configured ==
    [p \in Plans |-> [retries  |-> IF p = "cron1" THEN 1 ELSE 0,
                      alert    |-> p \in Crons,
                      calendar |-> p = "cron2"]]
=============================================================================
