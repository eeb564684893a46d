-------------------------- MODULE OspPollingMonitor --------------------------
(***************************************************************************)
(* osp/energymon-osp.c built with ENERGYMON_OSP_USE_POLLING: the thread    *)
(* asks the device for its power over HID.  Requests and their retries are *)
(* modelled in OdroidSmartPower; here one either gives a power or fails.   *)
(***************************************************************************)
EXTENDS PollingSession

(* hid_init has succeeded and em->state is set.                            *)
OspInitCall == InitCall("osp_polling", 1, {Library}, TRUE)

(* The device opens, tells its status and is started; a failure on the way *)
(* calls em_osp_finish, with the device open or not.                       *)
OspOpen ==
  \/ Opened("osp_polling", {1}, "creating") \/ Opened("osp_polling", {1}, "stop")
  \/ OpenFails("osp_polling", "stop")

(* poll is still set when a failed pthread_create leads to em_osp_finish.  *)
OspCreate == CreateThread("osp_polling") \/ CreateFails("osp_polling", TRUE, "stop")

OspRead == impl = "osp_polling" /\ ReadTotal

(* hid_close and hid_exit.                                                 *)
OspFinish ==
  impl = "osp_polling" /\ (FinishCall \/ StopThread \/ Release({Library, 1}, FALSE))

(* Cancellation is disabled from the top of the loop to the sleep; and a   *)
(* version without that.  A thread cancelled during a transfer leaves it   *)
(* unfinished, and the device cannot be closed.                            *)
OspCancelledAnywhere == {"sleep", "read"}
OspCancelledWhere == {"sleep"}

OspCancelled ==
  /\ cancelled /\ tpc \in OspCancelledWhere
  /\ tpc' = IF tpc = "read" THEN "abandoned" ELSE "exited"
  /\ UNCHANGED <<call, poll_sensors, total_uj, cancelled, pass, passes, history>>

(* There is no sleep before the first pass, and an interval in which the   *)
(* device does not answer counts as one without power.                     *)
OspPoll ==
  /\ impl = "osp_polling"
  /\ \/ ThreadStart("head") \/ StartPass \/ LeaveLoop
     \/ ReadSensor(FALSE) \/ Account \/ OspCancelled
=============================================================================
