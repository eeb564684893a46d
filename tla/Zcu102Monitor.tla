---------------------------- MODULE Zcu102Monitor ----------------------------
(***************************************************************************)
(* zcu102/energymon-zcu102.c: a fixed list of INA226 sensors over sysfs.   *)
(***************************************************************************)
EXTENDS PollingSession

(* The list is made and em->state is set before the files are opened.      *)
Zcu102InitCall == InitCall("zcu102", N, {}, TRUE)

(* A file opens, the last one is followed by the look at the update        *)
(* intervals; or it does not and energymon_finish_zcu102 is called, with   *)
(* poll_sensors still clear.                                               *)
Zcu102Open ==
  \/ \E s \in Sensors \ held :
       /\ \A t \in 1..(s - 1) : t \in held
       /\ Opened("zcu102", {s}, IF s = N THEN "creating" ELSE "opening")
  \/ OpenFails("zcu102", "stop")

(* After pthread_create has failed finish is called with poll_sensors set. *)
Zcu102Create == CreateThread("zcu102") \/ CreateFails("zcu102", TRUE, "stop")

Zcu102Read == impl = "zcu102" /\ ReadTotal

(* Every descriptor above 0 is closed; and a version that misses the last. *)
Zcu102ClosesAllButLast == 1..(N - 1)
Zcu102Closes == Sensors

Zcu102Finish ==
  impl = "zcu102" /\ (FinishCall \/ StopThread \/ Release(Zcu102Closes, FALSE))

Zcu102Poll ==
  /\ impl = "zcu102"
  /\ \/ ThreadStart("sleep") \/ StartPass \/ LeaveLoop
     \/ ReadSensor(TRUE) \/ Account \/ ActOnCancel({"sleep", "read"})
=============================================================================
