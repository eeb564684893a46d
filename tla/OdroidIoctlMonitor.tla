------------------------- MODULE OdroidIoctlMonitor -------------------------
(***************************************************************************)
(* odroid/energymon-odroid-ioctl.c: INA231 sensors as device files.        *)
(***************************************************************************)
EXTENDS PollingSession

(* em->state is set at the end of init only.                               *)
IoctlInitCall == InitCall("odroid_ioctl", N, {}, FALSE)

(* open_all_sensors: a sensor opens, tells its status and is enabled; or   *)
(* one of these fails, with the file open or not, and init itself closes   *)
(* what is open and frees.                                                 *)
IoctlOpen ==
  \/ \E s \in Sensors \ held :
       /\ \A t \in 1..(s - 1) : t \in held
       /\ \/ Opened("odroid_ioctl", {s}, IF s = N THEN "creating" ELSE "opening")
          \/ Opened("odroid_ioctl", {s}, "release")
  \/ OpenFails("odroid_ioctl", "release")

IoctlCreate ==
  CreateThread("odroid_ioctl") \/ CreateFails("odroid_ioctl", TRUE, "release")

IoctlRead == impl = "odroid_ioctl" /\ ReadTotal

(* close_all_sensors.                                                      *)
IoctlCloseAll == impl = "odroid_ioctl" /\ Release(Sensors, FALSE)

IoctlFinish == impl = "odroid_ioctl" /\ (FinishCall \/ StopThread)

(* An ioctl answers or fails: no answer is empty.                          *)
IoctlPoll ==
  /\ impl = "odroid_ioctl"
  /\ \/ ThreadStart("sleep") \/ StartPass \/ LeaveLoop
     \/ ReadSensor(FALSE) \/ Account \/ ActOnCancel({"sleep"})
=============================================================================
