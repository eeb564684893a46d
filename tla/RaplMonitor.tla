----------------------------- MODULE RaplMonitor -----------------------------
(***************************************************************************)
(* rapl/energymon-rapl.c: the total of the package zones of Linux powercap *)
(* (one counter per zone).  No thread runs between two calls of fread, so  *)
(* every call works out anew whether a zone's counter has started over,    *)
(* from the value it kept of the call before.                              *)
(*                                                                         *)
(* Energy is counted in units of the counter.  What fread adds up is kept  *)
(* apart by zone.                                                          *)
(***************************************************************************)
EXTENDS WrappingCounter

CONSTANT MaxOverflows   \* bound on the overflows of a zone

VARIABLES
  pc, i,                  \* the call in progress and the zone it is at
  allocated,              \* em->state is not NULL
  energy_fd,              \* open descriptors of state->zones
  max_energy_range_uj, energy_last, energy_overflow_count,
  val, reading,           \* of the call in progress; of the last good one
  \* history: zones read in this session, and those read too late or when
  \* the file was empty
  sampled, unreliable

zones == <<max_energy_range_uj, energy_last, energy_overflow_count>>
vars == <<counters, pc, i, allocated, energy_fd, zones, val, reading, sampled, unreliable>>

Zero == [z \in Counters |-> 0]

Init ==
  /\ CounterInit
  /\ pc = "idle" /\ i = 1 /\ allocated = FALSE /\ energy_fd = {}
  /\ max_energy_range_uj = Zero /\ energy_last = Zero /\ energy_overflow_count = Zero
  /\ val = Zero /\ reading = Zero /\ sampled = {} /\ unreliable = {}

-----------------------------------------------------------------------------
(* What calloc clears, and free takes away.                                *)
ClearState ==
  /\ max_energy_range_uj' = Zero /\ energy_last' = Zero /\ energy_overflow_count' = Zero
  /\ val' = Zero /\ reading' = Zero /\ sampled' = {} /\ unreliable' = {}
  /\ i' = 1

(* energymon_init_rapl: the zones are counted and filtered and the state   *)
(* is zeroed by calloc.  Failures up to here return and keep nothing.      *)
InitCall ==
  /\ pc = "idle" /\ ~allocated
  /\ pc' = "opening" /\ ClearState
  /\ UNCHANGED <<counters, allocated, energy_fd>>

(* rapl_zone_init: a maximum of 0 (not set) is accepted.                   *)
OpenZone ==
  /\ pc = "opening" /\ i \in Counters
  /\ energy_fd' = energy_fd \cup {i}
  /\ \E max \in {0, Range} :
       max_energy_range_uj' = [max_energy_range_uj EXCEPT ![i] = max]
  /\ i' = i + 1
  /\ UNCHANGED <<counters, pc, allocated, energy_last, energy_overflow_count,
                 val, reading, sampled, unreliable>>

InitReturn ==
  /\ pc = "opening" /\ i > N
  /\ pc' = "idle" /\ allocated' = TRUE /\ i' = 1
  /\ UNCHANGED <<counters, energy_fd, zones, val, reading, sampled, unreliable>>

(* A clean-up that leaves out the zone that failed.                         *)
FailedZoneLeft(opened) == opened \cap {i}
AfterCleanup(opened) == {}

(* A zone's energy file, or after it the file of its maximum, cannot be    *)
(* read: rapl_cleanup closes what was opened.                              *)
InitFails ==
  /\ pc = "opening" /\ i \in Counters
  /\ \E opened \in {energy_fd, energy_fd \cup {i}} : energy_fd' = AfterCleanup(opened)
  /\ pc' = "idle" /\ ClearState
  /\ UNCHANGED <<counters, allocated>>

-----------------------------------------------------------------------------
(* energymon_read_total_rapl                                               *)

ReadCall ==
  /\ pc = "idle" /\ allocated
  /\ pc' = "reading" /\ i' = 1
  /\ UNCHANGED <<counters, allocated, energy_fd, zones, val, reading, sampled, unreliable>>

(* A test that takes an unchanged counter for one that started over.        *)
StartedOverOrSame(z, now) == now <= energy_last[z]
StartedOver(z, now) == now < energy_last[z]

(* Versions that never count an overflow, and that only remember one.       *)
OverflowsKept(z, now) == energy_overflow_count[z]
OverflowFlag(z, now) == IF StartedOver(z, now) THEN 1 ELSE energy_overflow_count[z]

(* The number of overflows counted after a reading.                         *)
OverflowsAfter(z, now) == energy_overflow_count[z] + IF StartedOver(z, now) THEN 1 ELSE 0

(* A version that keeps the value with the overflows added.                 *)
LastWithOverflows(z, now) == now + OverflowsAfter(z, now) * max_energy_range_uj[z]
LastAfter(z, now) == now

(* The rest of rapl_zone_read after the value has been read.                *)
Record(z, now) ==
  /\ OverflowsAfter(z, now) <= MaxOverflows
  /\ energy_overflow_count' = [energy_overflow_count EXCEPT ![z] = OverflowsAfter(z, now)]
  /\ energy_last' = [energy_last EXCEPT ![z] = LastAfter(z, now)]
  /\ val' = [val EXCEPT ![z] = now + OverflowsAfter(z, now) * max_energy_range_uj[z]]
  /\ sampled' = sampled \cup {z}
  /\ i' = i + 1

ReadZone ==
  /\ pc = "reading" /\ i \in Counters
  /\ Record(i, value[i])
  /\ Sample(i, i \notin sampled)
  /\ unreliable' = IF i \in sampled /\ gap[i] >= Range THEN unreliable \cup {i} ELSE unreliable
  /\ UNCHANGED <<pc, allocated, energy_fd, max_energy_range_uj, reading>>

(* A file that is empty is no error and reads as 0.                        *)
ReadZoneEmpty ==
  /\ pc = "reading" /\ i \in Counters
  /\ Record(i, 0)
  /\ unreliable' = unreliable \cup {i}
  /\ UNCHANGED <<counters, pc, allocated, energy_fd, max_energy_range_uj, reading>>

(* An error ends the call; the zones before it keep what they recorded.    *)
ReadFails ==
  /\ pc = "reading" /\ i \in Counters
  /\ pc' = "idle" /\ i' = 1 /\ val' = Zero
  /\ UNCHANGED <<counters, allocated, energy_fd, zones, reading, sampled, unreliable>>

ReadReturn ==
  /\ pc = "reading" /\ i > N
  /\ pc' = "idle" /\ reading' = val /\ i' = 1 /\ val' = Zero
  /\ UNCHANGED <<counters, allocated, energy_fd, zones, sampled, unreliable>>

-----------------------------------------------------------------------------
(* energymon_finish_rapl                                                   *)
Finish ==
  /\ pc = "idle" /\ allocated
  /\ allocated' = FALSE /\ energy_fd' = {}
  /\ ClearState /\ EndHistory
  /\ UNCHANGED pc

(* The processor uses energy at any time.                                  *)
Consume ==
  /\ \E z \in Counters : Count(z, z \in sampled \ unreliable)
  /\ UNCHANGED <<pc, i, allocated, energy_fd, zones, val, reading, sampled, unreliable>>

-----------------------------------------------------------------------------
Next ==
  \/ InitCall \/ OpenZone \/ InitReturn \/ InitFails
  \/ ReadCall \/ ReadZone \/ ReadZoneEmpty \/ ReadFails \/ ReadReturn
  \/ Finish \/ Consume

Spec == Init /\ [][Next]_vars

-----------------------------------------------------------------------------
(* Every variable has its type.                                            *)
TypeOK ==
  /\ CounterTypeOK
  /\ pc \in {"idle", "opening", "reading"} /\ i \in 1..(N + 1)
  /\ allocated \in BOOLEAN /\ energy_fd \subseteq Counters
  /\ max_energy_range_uj \in [Counters -> {0, Range}]
  /\ energy_last \in [Counters -> 0..(Range - 1)]
  /\ energy_overflow_count \in [Counters -> Nat]
  /\ val \in [Counters -> Nat] /\ reading \in [Counters -> Nat]
  /\ sampled \subseteq Counters /\ unreliable \subseteq Counters

(* An energymon that is not initialised holds no descriptor, whichever     *)
(* zone its initialisation failed at; one that is holds all of them.       *)
AllOrNothing ==
  pc # "opening" => energy_fd = IF allocated THEN Counters ELSE {}

(* A zone whose maximum is known and which is read before its counter has  *)
(* gone all the way round is accounted for exactly, over any number of     *)
(* overflows and through calls that fail at another zone: what the last    *)
(* reading accounts for, and what was used since, is what was measured.    *)
Reliable(z) == z \in sampled \ unreliable /\ max_energy_range_uj[z] = Range

NothingLost ==
  \A z \in Counters : Reliable(z) =>
    energy_last[z] + energy_overflow_count[z] * Range + gap[z] = measured[z]

(* A zone is never reported to have used more than it has.                 *)
NeverAhead == \A z \in Counters : Reliable(z) => reading[z] <= measured[z]

(* In a session the energy of such a zone only grows from one successful   *)
(* call to the next.                                                       *)
ReadingNeverDecreases ==
  [][\A z \in Counters :
       Reliable(z)' /\ pc = "reading" => reading'[z] >= reading[z]]_vars
=============================================================================
