----------------------------- MODULE IpgMonitor -----------------------------
(***************************************************************************)
(* ipg/energymon-ipg.c: Intel Power Gadget.  The library takes samples of  *)
(* a package and tells the energy between two of them, so the code keeps   *)
(* a sample and a sum per package, and must give every sample back.        *)
(***************************************************************************)
EXTENDS CounterSession

CONSTANT MaxSum   \* bound on the energy of one package in a session

ASSUME IpgAssumption == MaxSum \in Nat

VARIABLES
  skip,         \* ENERGYMON_IPG_SKIP_LIFECYCLE is set
  sampleID,     \* the sample kept of each package: what was measured by then
  newID,        \* the sample just taken
  samples,      \* how many samples of each package have not been released
  j_sum

ipgVars == <<skip, sampleID, newID, samples, j_sum>>

IpgInit ==
  /\ skip \in BOOLEAN
  /\ sampleID = Zero /\ newID = 0 /\ samples = Zero /\ j_sum = Zero

IpgTypeOK ==
  /\ skip \in BOOLEAN /\ newID \in Nat
  /\ sampleID \in [Counters -> Nat] /\ samples \in [Counters -> Nat]
  /\ j_sum \in [Counters -> Nat]

(* PG_Initialize has succeeded, or is skipped.                             *)
IpgInitCall ==
  /\ InitCall("ipg", IF skip THEN {} ELSE {Library}, FALSE)
  /\ sampleID' = Zero /\ j_sum' = Zero /\ UNCHANGED <<skip, newID, samples>>

(* The zone is available at package i and its first sample is taken.       *)
IpgFirstSample ==
  /\ impl = "ipg" /\ pc = "opening" /\ i \in Counters
  /\ samples' = [samples EXCEPT ![i] = @ + 1]
  /\ sampleID' = [sampleID EXCEPT ![i] = measured[i]]
  /\ sampled' = sampled \cup {i} /\ i' = i + 1
  /\ UNCHANGED <<counters, impl, pc, allocated, held, val, reading, entries, late,
                 skip, newID, j_sum>>

(* PGSample_Release of the samples the state has for "packages".           *)
Release(packages) ==
  samples' = [c \in Counters |-> samples[c] - IF c \in packages THEN 1 ELSE 0]

(* cleanup_samples(state, pkg): the packages before the one that failed;   *)
(* and a version that takes that one for sampled.                          *)
IpgSampledAndFailed == 1..i
IpgSampledBefore == 1..(i - 1)

(* A call that fails at package i, or, at the first, a package count or a  *)
(* calloc that fails before the loop.                                      *)
IpgInitFails ==
  /\ pc = "opening" /\ i \in Counters
  /\ Undo("ipg", {Library}) /\ Release(IpgSampledBefore)
  /\ UNCHANGED <<skip, sampleID, newID, j_sum>>

IpgReadSample ==
  /\ impl = "ipg" /\ pc = "reading" /\ i \in Counters
  /\ newID' = measured[i] /\ samples' = [samples EXCEPT ![i] = @ + 1]
  /\ Sample(i, FALSE) /\ pc' = "energy"
  /\ UNCHANGED <<impl, i, allocated, held, val, reading, entries, sampled, late,
                 skip, sampleID, j_sum>>

(* The energy between the samples is added and the new one replaces the    *)
(* old, which is released.                                                 *)
IpgAddEnergy ==
  /\ impl = "ipg" /\ pc = "energy"
  /\ j_sum' = [j_sum EXCEPT ![i] = @ + newID - sampleID[i]]
  /\ val' = [val EXCEPT ![i] = j_sum'[i]]
  /\ sampleID' = [sampleID EXCEPT ![i] = newID] /\ Release({i})
  /\ pc' = "reading" /\ i' = i + 1
  /\ UNCHANGED <<counters, impl, allocated, held, reading, entries, sampled, late, skip, newID>>

(* After an error the old sample is kept and the new one released; and a   *)
(* version that keeps the new one.                                         *)
IpgKeptAfterErrorNew == newID
IpgKeptAfterError == sampleID[i]

IpgEnergyFails ==
  /\ impl = "ipg" /\ pc = "energy"
  /\ sampleID' = [sampleID EXCEPT ![i] = IpgKeptAfterError] /\ Release({i})
  /\ pc' = "idle" /\ i' = 1 /\ val' = Zero
  /\ UNCHANGED <<counters, impl, allocated, held, reading, entries, sampled, late,
                 skip, newID, j_sum>>

IpgRead ==
  impl = "ipg" /\ (ReadCall \/ ReadFails \/ ReadReturn) /\ UNCHANGED ipgVars

IpgFinish ==
  /\ pc = "idle" /\ allocated
  /\ Undo("ipg", {Library}) /\ Release(Counters)
  /\ UNCHANGED <<skip, sampleID, newID, j_sum>>

IpgNext ==
  \/ IpgInitCall \/ IpgFirstSample \/ IpgInitFails
  \/ (impl = "ipg" /\ InitReturn /\ UNCHANGED ipgVars)
  \/ IpgRead \/ IpgReadSample \/ IpgAddEnergy \/ IpgEnergyFails \/ IpgFinish
=============================================================================
