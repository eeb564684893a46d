--------------------------- MODULE CounterSession ---------------------------
(***************************************************************************)
(* One energymon over energy counters, as its user drives it: finit, then  *)
(* calls of fread, then ffinish, again and again.  The implementations     *)
(* extend this module: MsrMonitor, RaplcapMsrMonitor, IpgMonitor and       *)
(* CrayPmMonitor; CounterMonitors puts them together.  None has a thread,  *)
(* so only the counters move while a call is in progress.                  *)
(***************************************************************************)
EXTENDS WrappingCounter

CONSTANT MaxOverflows   \* bound on the overflows one counter is seen to have

ASSUME SessionAssumption == MaxOverflows \in Nat

VARIABLES
  impl,        \* whose functions energymon_get_... has put in the struct
  pc, i,       \* the call in progress and the counter it is at
  allocated,   \* em->state is not NULL
  held,        \* 0: the library or the freshness file; c: what c needs open
  val,         \* what the call in progress has of each counter
  reading,     \* what the last successful fread had
  last, n_overflow,   \* kept of each counter between two calls
  \* history: counters read in this session, and those read too late
  sampled, late

entries == <<last, n_overflow>>
session == <<impl, pc, i, allocated, held, val, reading, entries, sampled, late>>

Impls == {"msr", "raplcap_msr", "ipg", "cray_pm"}
Library == 0

Zero == [c \in Counters |-> 0]

SessionInit ==
  /\ CounterInit
  /\ impl \in Impls
  /\ pc = "idle" /\ i = 1 /\ allocated = FALSE /\ held = {}
  /\ val = Zero /\ reading = Zero /\ last = Zero /\ n_overflow = Zero
  /\ sampled = {} /\ late = {}

SessionTypeOK ==
  /\ CounterTypeOK
  /\ impl \in Impls
  /\ pc \in {"idle", "opening", "reading", "energy", "fresh"} /\ i \in 1..(N + 1)
  /\ allocated \in BOOLEAN /\ held \subseteq {Library} \cup Counters
  /\ val \in [Counters -> Nat] /\ reading \in [Counters -> Nat]
  /\ last \in [Counters -> 0..(Range - 1)] /\ n_overflow \in [Counters -> Nat]
  /\ sampled \subseteq Counters /\ late \subseteq Counters

-----------------------------------------------------------------------------
(* What the implementations have in common.                                *)

(* calloc zeroes the state of a session; free ends it.                     *)
ClearSession ==
  /\ i' = 1 /\ val' = Zero /\ reading' = Zero /\ last' = Zero /\ n_overflow' = Zero
  /\ sampled' = {} /\ late' = {}

(* finit has made its state, holds "first" and turns to the counters; only *)
(* some implementations publish em->state that early.                      *)
InitCall(which, first, publish) ==
  /\ impl = which
  /\ pc = "idle" /\ ~allocated
  /\ pc' = "opening" /\ allocated' = publish
  /\ held' = first /\ ClearSession /\ EndHistory
  /\ UNCHANGED impl

InitReturn ==
  /\ pc = "opening" /\ i > N
  /\ pc' = "idle" /\ i' = 1 /\ allocated' = TRUE
  /\ UNCHANGED <<counters, impl, held, val, reading, entries, sampled, late>>

(* A failing finit, or ffinish, gives back what it undoes and frees.       *)
Undo(which, undone) ==
  /\ impl = which
  /\ pc' = "idle" /\ allocated' = FALSE /\ held' = held \ undone
  /\ ClearSession /\ EndHistory
  /\ UNCHANGED impl

ReadCall ==
  /\ pc = "idle" /\ allocated
  /\ pc' = "reading" /\ i' = 1 /\ val' = Zero
  /\ UNCHANGED <<counters, impl, allocated, held, reading, entries, sampled, late>>

(* An error at one counter ends the call.  What was recorded of those      *)
(* before it stays.                                                        *)
ReadFails ==
  /\ pc = "reading" /\ i \in Counters
  /\ pc' = "idle" /\ i' = 1 /\ val' = Zero
  /\ UNCHANGED <<counters, impl, allocated, held, reading, entries, sampled, late>>

ReadReturn ==
  /\ pc = "reading" /\ i > N
  /\ pc' = "idle" /\ i' = 1 /\ reading' = val /\ val' = Zero
  /\ UNCHANGED <<counters, impl, allocated, held, entries, sampled, late>>

(* Counter c is read into entry e, which was in use before or not; "step"  *)
(* is what an overflow adds.                                               *)
ReadWrapping(c, e, step) ==
  LET overflows == n_overflow[e] + IF value[c] < last[e] THEN 1 ELSE 0
  IN  /\ overflows <= MaxOverflows
      /\ n_overflow' = [n_overflow EXCEPT ![e] = overflows]
      /\ last' = [last EXCEPT ![e] = value[c]]
      /\ val' = [val EXCEPT ![c] = value[c] + overflows * step]
      /\ Sample(c, c \notin sampled)
      /\ late' = IF c \in sampled /\ gap[c] >= Range THEN late \cup {c} ELSE late
      /\ sampled' = sampled \cup {c}
      /\ i' = i + 1
      /\ UNCHANGED <<impl, pc, allocated, held, reading>>

Followed(c) == c \in sampled \ late
=============================================================================
