--------------------------- MODULE PollingSession ---------------------------
(***************************************************************************)
(* One energymon whose power is polled by a thread of its own, as its user *)
(* drives it, again and again.  This module has what the implementations   *)
(* share: the loop of the polling thread and the order in which ffinish    *)
(* stops it, written after zcu102/energymon-zcu102.c; each implementation  *)
(* extends it with its own finit, clean-up and loop, and PollingMonitors   *)
(* puts them together.                                                     *)
(***************************************************************************)
EXTENDS Integers

CONSTANTS
  N,            \* the most sensors an energymon has
  Lo, Hi,       \* the least and the greatest power a sensor reports
  MaxInterval,  \* the longest time between two passes
  MaxPasses     \* bound on the passes of one session

ASSUME PollingAssumption ==
  /\ N \in Nat \ {0} /\ Lo \in Nat /\ Hi \in Nat /\ Lo <= Hi
  /\ MaxInterval \in Nat \ {0} /\ MaxPasses \in Nat

VARIABLES
  impl,         \* whose functions energymon_get_... has put in the struct
  hasCancel,    \* FALSE in the Android build, which has no pthread_cancel
  pc,           \* where the application is in finit or ffinish
  allocated,    \* the state has been allocated and not freed
  published,    \* em->state is not NULL
  held,         \* 0: the library or the device; s: the files of sensor s
  count,        \* how many sensors the loop reads
  poll_sensors, total_uj,
  reading,      \* the last total fread returned in this session
  tpc, cancelled, i, sum_w, failed, passes,     \* the polling thread
  \* history: how the time up to last_us was spent
  last_us, covered, partial, skipped

history == <<last_us, covered, partial, skipped>>
pass == <<i, sum_w, failed>>
call == <<impl, hasCancel, pc, allocated, published, held, count, reading>>
session == <<call, poll_sensors, total_uj, tpc, cancelled, pass, passes, history>>

Impls == {"zcu102", "odroid_ioctl", "ibmpowernv", "ibmpowernv_power", "jetson",
          "osp_polling", "osp3"}
Library == 0
Sensors == 1..N
Live == tpc \in {"start", "head", "sleep", "read", "account"}

SessionInit ==
  /\ impl \in Impls /\ hasCancel \in BOOLEAN
  /\ pc = "idle" /\ allocated = FALSE /\ published = FALSE /\ held = {} /\ count = 0
  /\ poll_sensors = FALSE /\ total_uj = 0 /\ reading = 0
  /\ tpc = "none" /\ cancelled = FALSE
  /\ i = 1 /\ sum_w = 0 /\ failed = "no" /\ passes = 0
  /\ last_us = 0 /\ covered = 0 /\ partial = 0 /\ skipped = 0

SessionTypeOK ==
  /\ impl \in Impls /\ hasCancel \in BOOLEAN
  /\ pc \in {"idle", "opening", "creating", "stop", "cancel", "join", "release", "crashed"}
  /\ allocated \in BOOLEAN /\ published \in BOOLEAN
  /\ held \subseteq {Library} \cup Sensors /\ count \in 0..N
  /\ poll_sensors \in BOOLEAN /\ total_uj \in Nat /\ reading \in Nat
  /\ tpc \in {"none", "start", "head", "sleep", "read", "account", "exited", "abandoned"}
  /\ cancelled \in BOOLEAN
  /\ i \in 1..(N + 1) /\ sum_w \in Nat /\ failed \in {"no", "empty", "error"}
  /\ passes \in Nat
  /\ last_us \in Nat /\ covered \in Nat /\ partial \in Nat /\ skipped \in Nat

-----------------------------------------------------------------------------
(* finit                                                                   *)

ClearTotals ==
  /\ total_uj' = 0 /\ reading' = 0 /\ passes' = 0
  /\ last_us' = 0 /\ covered' = 0 /\ partial' = 0 /\ skipped' = 0

(* The state is zeroed by calloc.  What fails before that returns and      *)
(* keeps nothing, as does a finit of an energymon in use.                  *)
InitCall(which, sensors, first, publish) ==
  /\ impl = which /\ pc = "idle" /\ ~published
  /\ pc' = "opening" /\ allocated' = TRUE /\ published' = publish
  /\ held' = first /\ count' = sensors /\ poll_sensors' = FALSE /\ ClearTotals
  /\ UNCHANGED <<impl, hasCancel, tpc, cancelled, pass>>

Opened(which, files, next) ==
  /\ impl = which /\ pc = "opening"
  /\ held' = held \cup files /\ pc' = next
  /\ UNCHANGED <<impl, hasCancel, allocated, published, count, reading, poll_sensors,
                 total_uj, tpc, cancelled, pass, passes, history>>

(* Something cannot be opened; "next" is where the code goes then.         *)
OpenFails(which, next) ==
  /\ impl = which /\ pc = "opening"
  /\ pc' = next
  /\ UNCHANGED <<impl, hasCancel, allocated, published, held, count, reading,
                 poll_sensors, total_uj, tpc, cancelled, pass, passes, history>>

CreateThread(which) ==
  /\ impl = which /\ pc = "creating"
  /\ poll_sensors' = TRUE /\ tpc' = "start" /\ published' = TRUE /\ pc' = "idle"
  /\ UNCHANGED <<impl, hasCancel, allocated, held, count, reading, total_uj,
                 cancelled, pass, passes, history>>

(* pthread_create fails, after poll_sensors was set.                       *)
CreateFails(which, polling, next) ==
  /\ impl = which /\ pc = "creating"
  /\ poll_sensors' = polling /\ pc' = next
  /\ UNCHANGED <<impl, hasCancel, allocated, published, held, count, reading,
                 total_uj, tpc, cancelled, pass, passes, history>>

-----------------------------------------------------------------------------
(* fread and ffinish                                                       *)

ReadTotal ==
  /\ pc = "idle" /\ allocated
  /\ reading' = total_uj
  /\ UNCHANGED <<impl, hasCancel, pc, allocated, published, held, count,
                 poll_sensors, total_uj, tpc, cancelled, pass, passes, history>>

FinishCall ==
  /\ pc = "idle" /\ allocated
  /\ pc' = "stop"
  /\ UNCHANGED <<impl, hasCancel, allocated, published, held, count, reading,
                 poll_sensors, total_uj, tpc, cancelled, pass, passes, history>>

StopPolling ==
  /\ pc = "stop"
  /\ poll_sensors' = FALSE
  /\ pc' = IF poll_sensors THEN "cancel" ELSE "release"
  /\ UNCHANGED <<impl, hasCancel, allocated, published, held, count, reading,
                 total_uj, tpc, cancelled, pass, passes, history>>

(* pthread_cancel only asks.  For a thread that was never made it may      *)
(* crash, as may pthread_join.                                             *)
CancelThread ==
  /\ pc = "cancel"
  /\ \/ pc' = "join"
     \/ tpc = "none" /\ hasCancel /\ pc' = "crashed"
  /\ cancelled' = (hasCancel /\ tpc # "none")
  /\ UNCHANGED <<impl, hasCancel, allocated, published, held, count, reading,
                 poll_sensors, total_uj, tpc, pass, passes, history>>

(* A finish that does not wait, and one that does.                         *)
JoinAtOnce == TRUE
ThreadEnded == ~Live

JoinThread ==
  /\ pc = "join" /\ ThreadEnded
  /\ \/ tpc' = (IF tpc = "exited" THEN "none" ELSE tpc) /\ pc' = "release"
     \/ tpc = "none" /\ tpc' = tpc /\ pc' = "crashed"
  /\ cancelled' = FALSE
  /\ UNCHANGED <<impl, hasCancel, allocated, published, held, count, reading,
                 poll_sensors, total_uj, pass, passes, history>>

(* "files" are closed and the state is freed; em->state is set to NULL or  *)
(* left as it is.  A device whose transfer was abandoned does not close.   *)
Release(files, pointer) ==
  /\ pc = "release" /\ tpc # "abandoned"
  /\ held' = held \ files /\ allocated' = FALSE /\ published' = pointer
  /\ pc' = "idle" /\ count' = 0 /\ ClearTotals
  /\ UNCHANGED <<impl, hasCancel, poll_sensors, tpc, cancelled, pass>>

StopThread == StopPolling \/ CancelThread \/ JoinThread

-----------------------------------------------------------------------------
(* The polling thread.                                                     *)

(* It takes the time and sleeps first ("sleep") or does not ("head").  It  *)
(* ends at once if there is no monotonic clock.                            *)
ThreadStart(next) ==
  /\ tpc = "start" /\ tpc' \in {next, "exited"}
  /\ UNCHANGED <<call, poll_sensors, total_uj, cancelled, pass, passes, history>>

StartPass ==
  /\ tpc \in {"head", "sleep"} /\ poll_sensors /\ passes < MaxPasses
  /\ tpc' = "read" /\ i' = 1 /\ sum_w' = 0 /\ failed' = "no" /\ passes' = passes + 1
  /\ UNCHANGED <<call, poll_sensors, total_uj, cancelled, history>>

LeaveLoop ==
  /\ tpc \in {"head", "sleep"} /\ ~poll_sensors
  /\ tpc' = "exited"
  /\ UNCHANGED <<call, poll_sensors, total_uj, cancelled, pass, passes, history>>

(* What reading sensor s can give.  A file that is not open is descriptor  *)
(* 0, where anything may be found.                                         *)
PowerOf(s) == IF s \in held THEN Lo..Hi ELSE {0, Hi + 1}

(* One reading.  An error ends the loop; an empty answer adds nothing.     *)
ReadSensor(mayBeEmpty) ==
  /\ tpc = "read"
  /\ \/ \E w \in PowerOf(i) : sum_w' = sum_w + w /\ failed' = failed
     \/ mayBeEmpty /\ failed' = "empty" /\ sum_w' = sum_w
     \/ failed' = "error" /\ sum_w' = sum_w
  /\ i' = i + 1
  /\ tpc' = IF i = count \/ failed' = "error" THEN "account" ELSE "read"
  /\ UNCHANGED <<call, poll_sensors, total_uj, cancelled, passes, history>>

(* What an interval adds: nothing after an error; and a version that adds  *)
(* the sum so far.                                                         *)
EnergyOfPartialPass(exec_us) == sum_w * exec_us
EnergyOf(exec_us) == IF failed = "error" THEN 0 ELSE sum_w * exec_us

Account ==
  /\ tpc = "account"
  /\ \E exec_us \in 1..MaxInterval :
       /\ last_us' = last_us + exec_us
       /\ total_uj' = total_uj + EnergyOf(exec_us)
       /\ covered' = IF failed = "no" THEN covered + exec_us ELSE covered
       /\ partial' = IF failed = "empty" THEN partial + exec_us ELSE partial
       /\ skipped' = IF failed = "error" THEN skipped + exec_us ELSE skipped
  /\ tpc' = IF poll_sensors THEN "sleep" ELSE "exited"
  /\ UNCHANGED <<call, poll_sensors, cancelled, pass, passes>>

(* A request to cancel is acted on at the points where the thread allows   *)
(* it and waits.                                                           *)
ActOnCancel(points) ==
  /\ cancelled /\ tpc \in points
  /\ tpc' = "exited"
  /\ UNCHANGED <<call, poll_sensors, total_uj, cancelled, pass, passes, history>>
=============================================================================
