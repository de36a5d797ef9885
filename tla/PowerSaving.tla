------------------------------ MODULE PowerSaving ------------------------------
(***************************************************************************)
(* CReporterUtils::shouldSavePower(): whether collecting or uploading      *)
(* reports is to wait for a better battery.                                *)
(***************************************************************************)
EXTENDS Naturals

CONSTANT Levels     \* battery levels and thresholds that are told apart

(* What MCE says of the battery; answers is FALSE if one of the three      *)
(* queries fails.                                                          *)
Battery == [answers : BOOLEAN,
            status  : {"unknown", "full", "ok", "low", "empty"},
            level   : Levels,
            charger : {"on", "off", "unknown"}]

Restrictions == [whenLowBattery : BOOLEAN, whenDischarging : BOOLEAN, threshold : Levels]

(* No answer, no restriction.  With the charger off only the threshold     *)
(* counts, else only the status; a full battery is never spared.           *)
ShouldSavePower(b, r) ==
  /\ b.answers
  /\ b.status \notin {"unknown", "full"}
  /\ IF b.charger = "off"
     THEN r.whenDischarging /\ b.level < r.threshold
     ELSE r.whenLowBattery /\ b.status # "ok"
=============================================================================
