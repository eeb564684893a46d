-------------------------- MODULE RaplcapMsrMonitor --------------------------
(***************************************************************************)
(* raplcap-msr/energymon-raplcap-msr.c: one zone of every package and die, *)
(* read through libraplcap.  The counters are numbered as the loops visit  *)
(* them, the dies of a package in a row; what is kept of them is in msrs,  *)
(* at the index the code computes.                                         *)
(***************************************************************************)
EXTENDS CounterSession

VARIABLES
  n_die,      \* dies of each package
  is_active   \* the entries of msrs named by ENERGYMON_RAPLCAP_MSR_INSTANCES

raplcapVars == <<n_die, is_active>>

RaplcapInit == n_die \in {d \in Counters : N % d = 0} /\ is_active = {}

Pkg(c) == (c - 1) \div n_die
Die(c) == (c - 1) % n_die

(* i = pkg * die + die                                                     *)
Entry(c) == Pkg(c) * Die(c) + Die(c) + 1

ActiveAt(c) == c \in Counters /\ Entry(c) \in is_active

(* An entry that no other active counter uses.                             *)
OwnEntry(c) == \A d \in Counters \ {c} : Entry(d) # Entry(c)

(* The library is initialised last before the loop over the counters; what *)
(* fails before that is freed at once.  Any entries may be named.          *)
RaplcapInitCall ==
  /\ InitCall("raplcap_msr", {Library}, FALSE)
  /\ is_active' \in SUBSET Counters
  /\ UNCHANGED n_die

(* The zone is supported and has a maximum, or the entry is not active.    *)
RaplcapCheckZone ==
  /\ impl = "raplcap_msr" /\ pc = "opening" /\ i \in Counters
  /\ i' = i + 1
  /\ UNCHANGED <<counters, impl, pc, allocated, held, val, reading, entries,
                 sampled, late, raplcapVars>>

RaplcapInitFails ==
  /\ pc = "opening" /\ ActiveAt(i)
  /\ Undo("raplcap_msr", {Library}) /\ UNCHANGED raplcapVars

RaplcapReadCounter ==
  /\ impl = "raplcap_msr" /\ pc = "reading" /\ ActiveAt(i)
  /\ ReadWrapping(i, Entry(i), Range)
  /\ UNCHANGED raplcapVars

RaplcapSkipCounter ==
  /\ impl = "raplcap_msr" /\ pc = "reading" /\ i \in Counters /\ ~ActiveAt(i)
  /\ i' = i + 1
  /\ UNCHANGED <<counters, impl, pc, allocated, held, val, reading, entries,
                 sampled, late, raplcapVars>>

RaplcapRead ==
  /\ impl = "raplcap_msr"
  /\ ReadCall \/ (ActiveAt(i) /\ ReadFails) \/ ReadReturn
  /\ UNCHANGED raplcapVars

(* raplcap_destroy may fail, which is returned; the state is freed anyway. *)
RaplcapFinish ==
  /\ pc = "idle" /\ allocated
  /\ Undo("raplcap_msr", {Library}) /\ UNCHANGED raplcapVars

RaplcapNext ==
  \/ RaplcapInitCall \/ RaplcapCheckZone \/ RaplcapInitFails
  \/ (impl = "raplcap_msr" /\ InitReturn /\ UNCHANGED raplcapVars)
  \/ RaplcapReadCounter \/ RaplcapSkipCounter \/ RaplcapRead \/ RaplcapFinish
=============================================================================
