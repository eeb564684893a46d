--------------------------- MODULE CounterMonitors ---------------------------
(***************************************************************************)
(* One energymon of any of the implementations that read energy counters:  *)
(* msr, raplcap-msr, ipg or cray-pm.  impl says which; the variables that  *)
(* only another implementation has stay as they are.                       *)
(***************************************************************************)
EXTENDS MsrMonitor, RaplcapMsrMonitor, IpgMonitor, CrayPmMonitor

vars == <<counters, session, raplcapVars, ipgVars, crayVars>>

Init ==
  /\ SessionInit /\ RaplcapInit /\ IpgInit /\ CrayInit
  /\ impl # "raplcap_msr" => n_die = 1
  /\ impl # "ipg" => ~skip
  /\ impl = "cray_pm" => value = Zero

(* The processor uses energy.                                              *)
Consume ==
  /\ impl # "cray_pm"
  /\ \E c \in Counters :
       /\ impl = "ipg" => measured[c] < MaxSum
       /\ Count(c, Followed(c))
  /\ UNCHANGED <<session, raplcapVars, ipgVars, crayVars>>

Next ==
  \/ MsrNext /\ UNCHANGED <<raplcapVars, ipgVars, crayVars>>
  \/ RaplcapNext /\ UNCHANGED <<ipgVars, crayVars>>
  \/ IpgNext /\ UNCHANGED <<raplcapVars, crayVars>>
  \/ CrayNext /\ UNCHANGED <<raplcapVars, ipgVars>>
  \/ Consume

Spec == Init /\ [][Next]_vars

-----------------------------------------------------------------------------
(* Every variable has its type.                                            *)
TypeOK ==
  /\ SessionTypeOK /\ IpgTypeOK /\ CrayTypeOK
  /\ n_die \in Counters /\ is_active \subseteq Counters

(* What a session opens is open as long as it lasts and no longer: a       *)
(* failed init and a finish leave no register, library, sample or file     *)
(* behind, wherever the failure was, and no call of fread loses or keeps a *)
(* sample.                                                                 *)
NothingLeaked ==
  pc = "idle" =>
    /\ ~allocated => held = {} /\ samples = Zero
    /\ allocated /\ impl = "msr" => held = Counters
    /\ allocated /\ impl \in {"raplcap_msr", "cray_pm"} => Library \in held
    /\ allocated /\ impl = "ipg" =>
         samples = [c \in Counters |-> 1] /\ (Library \in held) = ~skip

(* A counter that is followed, and whose entry no other counter uses.      *)
Reliable(c) == Followed(c) /\ (impl = "raplcap_msr" => OwnEntry(c))

(* The entry that keeps what is known of a counter.                        *)
EntryOf(c) == IF impl = "raplcap_msr" THEN Entry(c) ELSE c

(* Every unit that a counter read in time has measured is accounted for    *)
(* once, over any number of overflows and through calls that fail at       *)
(* another counter or another package: it is in the kept value, in an      *)
(* overflow, or has come since.                                            *)
Accounted ==
  /\ impl \in {"msr", "raplcap_msr"} =>
       \A c \in Counters : Reliable(c) =>
         last[EntryOf(c)] + n_overflow[EntryOf(c)] * Range + gap[c] = measured[c]
  /\ impl = "ipg" => j_sum = sampleID

(* A successful fread reports of such a counter no less than the one       *)
(* before, no more than it has measured, and all it had measured when it   *)
(* was read, but for what msr drops: it adds UINT32_MAX for each round of  *)
(* the counter's 2^32 values, one unit less.                               *)
Dropped(c) == IF impl = "msr" THEN n_overflow[c] ELSE 0

TotalKeepsUp ==
  [][pc = "reading" /\ i > N /\ pc' = "idle" /\ impl # "cray_pm" =>
       \A c \in Counters : Reliable(c) =>
         /\ reading'[c] >= reading[c] /\ reading'[c] <= measured[c]
         /\ reading'[c] >= measured[c] - gap[c] - Dropped(c)]_vars

(* energymon.h: fread returns "the total energy", so never more of a       *)
(* counter than it has measured.  raplcap-msr keeps several counters in    *)
(* one entry (two packages of one die: entry 0 for both), where a smaller  *)
(* value of another counter is taken for an overflow.                      *)
NeverAhead ==
  [][pc = "reading" /\ i > N /\ pc' = "idle" /\ impl = "raplcap_msr" =>
       \A c \in Counters : Followed(c) => reading'[c] <= measured[c]]_vars

(* What cray-pm accepts is the sum of its files at one update, although    *)
(* they are read one by one (a file that came up empty is no sum).         *)
ReadsOneScan ==
  [][pc = "reading" /\ fresh_total' # fresh_total /\ ~empty'
       => joules = Mega * JoulesAt(freshness, Files)]_vars
=============================================================================
