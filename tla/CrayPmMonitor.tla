---------------------------- MODULE CrayPmMonitor ----------------------------
(***************************************************************************)
(* cray-pm/: the energy files of Cray power management.  Each file has an  *)
(* energymon of its own (energymon-cray-pm-common.c); this one reads those *)
(* named by the environment, again and again until the freshness file says *)
(* the same before and after.  The system updates all files at once.       *)
(***************************************************************************)
EXTENDS CounterSession, Sequences

CONSTANTS
  Mega,       \* microjoules in a joule, 1000000
  MaxScans    \* bound on the updates of the files

ASSUME CrayAssumption == Mega \in Nat \ {0} /\ MaxScans \in Nat \ {0}

VARIABLES
  scans,        \* what the files have shown; the freshness is its length
  fresh_start, joules, fresh_total,   \* locals of fread, and what it returned
  empty         \* history: a file of this call was empty

crayVars == <<scans, fresh_start, joules, fresh_total, empty>>

freshness == Len(scans)

(* The energy of a set of files at one update, in joules.                  *)
Shown(s, files) == [f \in Counters |-> IF f \in files THEN scans[s][f] ELSE 0]
JoulesAt(s, files) == Total(Shown(s, files))

Files == held \ {Library}

CrayInit ==
  /\ scans = <<Zero>>
  /\ fresh_start = 0 /\ joules = 0 /\ fresh_total = 0 /\ empty = FALSE

CrayTypeOK ==
  /\ scans \in Seq([Counters -> Nat]) /\ fresh_start \in 0..freshness
  /\ joules \in Nat /\ fresh_total \in Nat /\ empty \in BOOLEAN

Scan ==
  /\ impl = "cray_pm" /\ freshness < MaxScans
  /\ \E used \in [Counters -> 0..1] :
       scans' = Append(scans, [f \in Counters |-> scans[freshness][f] + used[f]])
  /\ UNCHANGED <<session, counters, fresh_start, joules, fresh_total, empty>>

-----------------------------------------------------------------------------
(* The freshness file is open and em->state is set.                        *)
CrayInitCall ==
  /\ InitCall("cray_pm", {Library}, TRUE)
  /\ fresh_total' = 0 /\ UNCHANGED <<scans, fresh_start, joules, empty>>

(* The environment names files in any order.  One that is named again, or  *)
(* is open already, changes nothing.                                       *)
CrayOpenFile ==
  /\ impl = "cray_pm" /\ pc = "opening"
  /\ \E f \in Counters \ held : held' = held \cup {f}
  /\ UNCHANGED <<counters, impl, pc, i, allocated, val, reading, entries, sampled, late, crayVars>>

CrayInitReturn ==
  /\ impl = "cray_pm" /\ pc = "opening" /\ pc' = "idle"
  /\ UNCHANGED <<counters, impl, i, allocated, held, val, reading, entries, sampled, late, crayVars>>

(* energymon_finish_cray_pm finishes the energymons that has_file marks,   *)
(* then closes the freshness file.                                         *)
CrayFinishes == Files \cup {Library}

(* A file that cannot be opened or a name that is not known.               *)
CrayInitFails ==
  /\ pc = "opening"
  /\ Undo("cray_pm", CrayFinishes) /\ UNCHANGED crayVars

-----------------------------------------------------------------------------
(* energymon_read_total_cray_pm: the loop begins, or begins again.         *)
CrayFresh ==
  /\ impl = "cray_pm" /\ allocated /\ pc \in {"idle", "fresh"}
  /\ fresh_start' = freshness /\ joules' = 0 /\ empty' = FALSE
  /\ pc' = "reading" /\ i' = 1
  /\ UNCHANGED <<counters, impl, allocated, held, val, reading, entries, sampled,
                 late, scans, fresh_total>>

(* energymon_cray_pm_common_read_total: the file's joules in microjoules,  *)
(* or 0 without an error for a file in which there is no number.           *)
CrayReadFile ==
  /\ impl = "cray_pm" /\ pc = "reading" /\ i \in Counters
  /\ IF i \in held
     THEN \/ joules' = joules + Mega * scans[freshness][i] /\ empty' = empty
          \/ joules' = joules /\ empty' = TRUE
     ELSE UNCHANGED <<joules, empty>>
  /\ i' = i + 1
  /\ UNCHANGED <<counters, impl, pc, allocated, held, val, reading, entries,
                 sampled, late, scans, fresh_start, fresh_total>>

(* A comparison left out, and the one there is.                            *)
CrayAlwaysFresh == TRUE
CrayStillFresh == fresh_start = freshness

CrayReturn ==
  /\ impl = "cray_pm" /\ pc = "reading" /\ i > N /\ CrayStillFresh
  /\ pc' = "idle" /\ i' = 1
  /\ fresh_total' = joules * Mega
  /\ UNCHANGED <<counters, impl, allocated, held, val, reading, entries, sampled,
                 late, scans, fresh_start, joules, empty>>

CrayStale ==
  /\ impl = "cray_pm" /\ pc = "reading" /\ i > N /\ ~CrayStillFresh
  /\ pc' = "fresh" /\ i' = 1
  /\ UNCHANGED <<counters, impl, allocated, held, val, reading, entries, sampled,
                 late, crayVars>>

(* No number in the freshness file, before or after the others are read:   *)
(* fread returns 0 with errno still 0, which is a good reading to a caller.*)
CrayNoFreshness ==
  /\ impl = "cray_pm" /\ pc = "reading" /\ (i = 1 \/ i > N)
  /\ pc' = "idle" /\ i' = 1
  /\ fresh_total' = 0 /\ empty' = TRUE
  /\ UNCHANGED <<counters, impl, allocated, held, val, reading, entries, sampled,
                 late, scans, fresh_start, joules>>

(* The freshness or a file cannot be read.                                 *)
CrayReadFails ==
  /\ impl = "cray_pm" /\ pc = "reading"
  /\ pc' = "idle" /\ i' = 1
  /\ UNCHANGED <<counters, impl, allocated, held, val, reading, entries, sampled,
                 late, crayVars>>

CrayFinish ==
  /\ pc = "idle" /\ allocated
  /\ Undo("cray_pm", CrayFinishes) /\ UNCHANGED crayVars

CrayNext ==
  \/ CrayInitCall \/ CrayOpenFile \/ CrayInitReturn \/ CrayInitFails
  \/ CrayFresh \/ CrayReadFile \/ CrayReturn \/ CrayStale
  \/ CrayNoFreshness \/ CrayReadFails
  \/ CrayFinish \/ Scan
=============================================================================
