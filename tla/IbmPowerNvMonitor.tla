-------------------------- MODULE IbmPowerNvMonitor --------------------------
(***************************************************************************)
(* ibmpowernv/energymon-ibmpowernv.c: one sensor read through libsensors.  *)
(* It is built in two ways: ibmpowernv returns what an energy sensor       *)
(* shows, ibmpowernv_power polls a power sensor in a thread.               *)
(***************************************************************************)
EXTENDS PollingSession

PowerNvs == {"ibmpowernv", "ibmpowernv_power"}
IsPowerNv == impl \in PowerNvs

(* init_libsensors has succeeded, or is left to the application (an        *)
(* environment variable says so); if it fails the state is freed.          *)
PowerNvInitCall ==
  \E libs \in {{}, {Library}} : InitCall(impl, 1, libs, impl = "ibmpowernv") /\ IsPowerNv

(* open_sensor finds the labelled input of a chip, or there is none and    *)
(* the library is cleaned up.  em->state is set after it.                  *)
PowerNvOpen ==
  \/ Opened("ibmpowernv", {1}, "idle")
  \/ Opened("ibmpowernv_power", {1}, "creating")
  \/ OpenFails(impl, "release") /\ IsPowerNv

(* A failed pthread_create undoes everything, em->state too.               *)
PowerNvCreate ==
  CreateThread("ibmpowernv_power") \/ CreateFails("ibmpowernv_power", TRUE, "release")

(* fread of the energy sensor; the code knows of no rollover, and a value  *)
(* that cannot be had is 0.                                                *)
PowerNvReadEnergy ==
  /\ impl = "ibmpowernv" /\ pc = "idle" /\ allocated
  /\ reading' \in {0} \cup (Lo..Hi)
  /\ UNCHANGED <<impl, hasCancel, pc, allocated, published, held, count,
                 poll_sensors, total_uj, tpc, cancelled, pass, passes, history>>

PowerNvRead == PowerNvReadEnergy \/ (impl = "ibmpowernv_power" /\ ReadTotal)

(* close_sensor and cleanup_libsensors.                                    *)
PowerNvRelease == IsPowerNv /\ Release({Library, 1}, FALSE)

PowerNvFinish == IsPowerNv /\ (FinishCall \/ StopThread)

PowerNvPoll ==
  /\ impl = "ibmpowernv_power"
  /\ \/ ThreadStart("sleep") \/ StartPass \/ LeaveLoop
     \/ ReadSensor(FALSE) \/ Account \/ ActOnCancel({"sleep", "read"})
=============================================================================
