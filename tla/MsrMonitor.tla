----------------------------- MODULE MsrMonitor -----------------------------
(***************************************************************************)
(* msr/energymon-msr.c: the package energy counters in the registers of    *)
(* one processor per entry of ENERGYMON_MSRS.  A counter has 32 bits: here *)
(* it has Range values and UINT32_MAX is Range - 1.                        *)
(***************************************************************************)
EXTENDS CounterSession

(* em->state is set before the registers are opened.                       *)
MsrInitCall == InitCall("msr", {}, TRUE)

(* msr_info_init for one register: the msr_safe file or else the msr file  *)
(* opens, and the unit is read.                                            *)
MsrOpen ==
  /\ impl = "msr" /\ pc = "opening" /\ i \in Counters
  /\ held' = held \cup {i} /\ i' = i + 1
  /\ UNCHANGED <<counters, impl, pc, allocated, val, reading, entries, sampled, late>>

(* A clean-up that closes the registers up to the last one that was good.  *)
MsrClosesOnlyGood == 1..(i - 1)
(* energymon_finish_msr closes every descriptor above 0.                   *)
MsrCloses == Counters

(* Neither file opens, or the unit cannot be read from an open one: init   *)
(* calls energymon_finish_msr.                                             *)
MsrInitFails ==
  /\ pc = "opening" /\ i \in Counters
  /\ \E opened \in {held, held \cup {i}} :
       /\ impl = "msr" /\ held' = opened \ MsrCloses
       /\ pc' = "idle" /\ allocated' = FALSE
       /\ ClearSession /\ EndHistory /\ UNCHANGED impl

(* Each overflow adds UINT32_MAX, one less than the counter's range.       *)
MsrOverflowTwoFewer == Range - 2
MsrOverflow == Range - 1

MsrReadCounter ==
  /\ impl = "msr" /\ pc = "reading" /\ i \in Counters
  /\ ReadWrapping(i, i, MsrOverflow)

(* A register is read as 8 bytes or not at all.                            *)
MsrRead == impl = "msr" /\ (ReadCall \/ ReadFails \/ ReadReturn)

MsrFinish == pc = "idle" /\ allocated /\ Undo("msr", Counters)

MsrNext ==
  \/ MsrInitCall \/ MsrOpen \/ MsrInitFails \/ (impl = "msr" /\ InitReturn)
  \/ MsrReadCounter \/ MsrRead \/ MsrFinish
=============================================================================
