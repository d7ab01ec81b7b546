--------------------------- MODULE MCDeviceSchedule ---------------------------
(* Instances of DeviceSchedule for TLC. *)
EXTENDS DeviceSchedule

(***************************************************************************)
(* deviceActuatorScheduler.tools.ts:26, "once = run ONE time only": a once *)
(* job runs a second time only if the process died while it was running.   *)
(***************************************************************************)
OneTimeOnly ==
  \A j \in Once : runs[j] > 1 => "rerun" \in mishaps[j]
=============================================================================
