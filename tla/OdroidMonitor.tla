--------------------------- MODULE OdroidMonitor ---------------------------
(***************************************************************************)
(* odroid/energymon-odroid.c: one energymon over the INA231 power sensors. *)
(* An application thread calls energymon_init_odroid,                      *)
(* energymon_read_total_odroid and energymon_finish_odroid; the polling    *)
(* thread odroid_poll_sensors reads every sensor once per update interval  *)
(* and adds power times elapsed time to total_uj.                          *)
(*                                                                         *)
(* Watts are integers; an interval is a number of time units.  The count   *)
(* of passes of one session is bounded by MaxPasses.                       *)
(***************************************************************************)
EXTENDS Naturals

CONSTANTS
  N,            \* number of sensors found (state->count)
  Lo, Hi,       \* the least and the greatest power a sensor reports
  MaxInterval,  \* the longest time between two passes
  MaxPasses     \* bound on the passes of one session

ASSUME OdroidAssumption ==
  /\ N \in Nat \ {0}
  /\ Lo \in Nat /\ Hi \in Nat /\ Lo <= Hi
  /\ MaxInterval \in Nat \ {0}
  /\ MaxPasses \in Nat

VARIABLES
  hasCancel,    \* FALSE in the Android build, which has no pthread_cancel
  \* the application
  pc,           \* where the application is in finit or ffinish
  k,            \* the sensor the application's loop has reached
  allocated,    \* em->state is not NULL
  reading,      \* the last total fread returned in this session
  \* *state
  fds, poll_sensors, total_uj,
  \* the polling thread
  tpc, cancelled, i, sum_w, failed, last_us, passes,
  \* history: how the time up to last_us was spent
  covered, partial, skipped

appVars == <<hasCancel, pc, k, allocated, reading>>
stateVars == <<fds, poll_sensors, total_uj>>
passVars == <<i, sum_w, failed, passes>>
history == <<last_us, covered, partial, skipped>>
vars == <<appVars, stateVars, tpc, cancelled, passVars, history>>

Sensors == 1..N

(* Descriptors: 0 after calloc, -1 after a failed open, else open or closed *)
FdState == {"zero", "failed", "open", "closed"}
AppPc == {"idle", "opening", "creating", "stop", "cancel", "join", "close", "crashed"}
ThreadPc == {"none", "start", "sleep", "read", "account", "exited"}

Live == tpc \in {"start", "sleep", "read", "account"}

NoSensorOpen == [s \in Sensors |-> "zero"]

Init ==
  /\ hasCancel \in BOOLEAN
  /\ pc = "idle" /\ k = 1 /\ allocated = FALSE /\ reading = 0
  /\ fds = NoSensorOpen /\ poll_sensors = FALSE /\ total_uj = 0
  /\ tpc = "none" /\ cancelled = FALSE
  /\ i = 1 /\ sum_w = 0 /\ failed = "no" /\ passes = 0
  /\ last_us = 0 /\ covered = 0 /\ partial = 0 /\ skipped = 0

-----------------------------------------------------------------------------
(* energymon_init_odroid                                                   *)

(* The sensors are found and enabled, *state is zeroed by calloc and       *)
(* em->state is set.  A call that finds none, or a disabled one, or no     *)
(* memory for *state, returns -1 and changes nothing.                      *)
FindSensors ==
  /\ pc = "idle" /\ ~allocated
  /\ allocated' = TRUE /\ pc' = "opening" /\ k' = 1
  /\ fds' = NoSensorOpen /\ poll_sensors' = FALSE /\ total_uj' = 0
  /\ reading' = 0 /\ passes' = 0
  /\ last_us' = 0 /\ covered' = 0 /\ partial' = 0 /\ skipped' = 0
  /\ UNCHANGED <<hasCancel, tpc, cancelled, i, sum_w, failed>>

(* calloc in get_sensor_directories fails: count stays positive, init does *)
(* not look at the NULL list it got and reads its first entry.             *)
FindSensorsOutOfMemory ==
  /\ pc = "idle" /\ ~allocated
  /\ pc' = "crashed"
  /\ UNCHANGED <<hasCancel, k, allocated, reading, stateVars, tpc, cancelled, passVars, history>>

OpenSensor ==
  /\ pc = "opening" /\ k \in Sensors
  /\ \/ /\ fds' = [fds EXCEPT ![k] = "open"]
        /\ k' = k + 1 /\ pc' = pc
     \/ /\ fds' = [fds EXCEPT ![k] = "failed"]
        /\ pc' = "stop" /\ k' = 1
  /\ UNCHANGED <<hasCancel, allocated, reading, poll_sensors, total_uj,
                 tpc, cancelled, passVars, history>>

AllOpen ==
  /\ pc = "opening" /\ k > N
  /\ pc' = "creating" /\ k' = 1
  /\ UNCHANGED <<hasCancel, allocated, reading, stateVars, tpc, cancelled, passVars, history>>

(* poll_sensors is set before pthread_create, and a failure of             *)
(* pthread_create calls energymon_finish_odroid with it still set.         *)
CreateThread ==
  /\ pc = "creating"
  /\ poll_sensors' = TRUE
  /\ \/ tpc' = "start" /\ pc' = "idle"
     \/ tpc' = tpc /\ pc' = "stop"
  /\ UNCHANGED <<hasCancel, k, allocated, reading, fds, total_uj, cancelled, passVars, history>>

-----------------------------------------------------------------------------
(* energymon_read_total_odroid: an unlocked read of total_uj.              *)

ReadTotal ==
  /\ pc = "idle" /\ allocated
  /\ reading' = total_uj
  /\ UNCHANGED <<hasCancel, pc, k, allocated, stateVars, tpc, cancelled, passVars, history>>

-----------------------------------------------------------------------------
(* energymon_finish_odroid, called by the application or by a failing init *)

FinishCall ==
  /\ pc = "idle" /\ allocated
  /\ pc' = "stop" /\ k' = 1
  /\ UNCHANGED <<hasCancel, allocated, reading, stateVars, tpc, cancelled, passVars, history>>

(* A finish that forgets to clear the flag the polling thread loops on.     *)
StopPollingFlagKept ==
  /\ pc = "stop" /\ pc' = IF poll_sensors THEN "cancel" ELSE "close"
  /\ UNCHANGED <<hasCancel, k, allocated, reading, stateVars, tpc, cancelled,
                 passVars, history>>

StopPolling ==
  /\ pc = "stop"
  /\ poll_sensors' = FALSE
  /\ pc' = IF poll_sensors THEN "cancel" ELSE "close"
  /\ UNCHANGED <<hasCancel, k, allocated, reading, fds, total_uj, tpc, cancelled, passVars, history>>

(* pthread_cancel is deferred: it only asks.  Given a thread that was      *)
(* never created its behaviour is undefined: the C library dereferences    *)
(* the zero pthread_t, or returns an error that is ignored.                *)
CancelThread ==
  /\ pc = "cancel"
  /\ \/ pc' = "join"
     \/ tpc = "none" /\ hasCancel /\ pc' = "crashed"
  /\ cancelled' = (hasCancel /\ tpc # "none")
  /\ UNCHANGED <<hasCancel, k, allocated, reading, stateVars, tpc, passVars, history>>

(* A finish that goes on without waiting for the thread.                    *)
JoinDoesNotWait == TRUE
ThreadEnded == ~Live

(* pthread_join waits for the thread to end; given no thread it crashes or *)
(* returns an error.                                                       *)
JoinThread ==
  /\ pc = "join" /\ ThreadEnded
  /\ \/ tpc' = (IF tpc = "exited" THEN "none" ELSE tpc) /\ pc' = "close"
     \/ tpc = "none" /\ tpc' = tpc /\ pc' = "crashed"
  /\ cancelled' = FALSE
  /\ UNCHANGED <<hasCancel, k, allocated, reading, stateVars, passVars, history>>

(* The code closes descriptors above 0; none is 0 while stdin is open.     *)
CloseSensor ==
  /\ pc = "close" /\ k \in Sensors
  /\ fds' = IF fds[k] = "open" THEN [fds EXCEPT ![k] = "closed"] ELSE fds
  /\ k' = k + 1
  /\ UNCHANGED <<hasCancel, pc, allocated, reading, poll_sensors, total_uj,
                 tpc, cancelled, passVars, history>>

(* An off-by-one in the loop that closes the descriptors.                   *)
LastSensorLeftOpen == k >= N
AllClosed == k > N

FreeState ==
  /\ pc = "close" /\ AllClosed
  /\ allocated' = FALSE /\ pc' = "idle" /\ k' = 1
  /\ total_uj' = 0 /\ reading' = 0
  /\ UNCHANGED <<hasCancel, fds, poll_sensors, tpc, cancelled, passVars, history>>

-----------------------------------------------------------------------------
(* odroid_poll_sensors, the polling thread                                 *)

(* The thread takes the time of its start, and ends at once where the      *)
(* monotonic clock is not supported.                                       *)
ThreadStart ==
  /\ tpc = "start"
  /\ tpc' \in {"sleep", "exited"}
  /\ UNCHANGED <<appVars, stateVars, cancelled, passVars, history>>

(* The sleep ends (or a signal ends it once polling is off) and the while  *)
(* loop looks at poll_sensors.                                             *)
StartPass ==
  /\ tpc = "sleep" /\ poll_sensors /\ passes < MaxPasses
  /\ tpc' = "read"
  /\ i' = 1 /\ sum_w' = 0 /\ failed' = "no" /\ passes' = passes + 1
  /\ UNCHANGED <<appVars, stateVars, cancelled, history>>

LeaveLoop ==
  /\ tpc = "sleep" /\ ~poll_sensors
  /\ tpc' = "exited"
  /\ UNCHANGED <<appVars, stateVars, cancelled, passVars, history>>

(* A loop over the sensors that runs one too far.                           *)
OneSensorTooFar == i > N
LastSensor == i = N

(* One pread.  An empty answer adds nothing and is not an error; an error  *)
(* ends the loop over the sensors.                                         *)
ReadSensor ==
  /\ tpc = "read"
  /\ \/ \E w \in Lo..Hi : sum_w' = sum_w + w /\ failed' = failed
     \/ failed' = "empty" /\ sum_w' = sum_w
     \/ failed' = "error" /\ sum_w' = sum_w
  /\ i' = i + 1
  /\ tpc' = IF LastSensor \/ failed' = "error" THEN "account" ELSE "read"
  /\ UNCHANGED <<appVars, stateVars, cancelled, passes, history>>

(* What an interval adds; the sum of an incomplete pass is not used.        *)
PartialSumUsed(exec_us) == sum_w * exec_us
IntervalEnergy(exec_us) == IF failed = "error" THEN 0 ELSE sum_w * exec_us

(* total_uj += ..., and a version that assigns.                             *)
TotalAssigned(exec_us) == IntervalEnergy(exec_us)
TotalAfter(exec_us) == total_uj + IntervalEnergy(exec_us)

(* last_us moves on whether or not the readings are used; the energy of an *)
(* interval with a failed reading is dropped.                              *)
Account ==
  /\ tpc = "account"
  /\ \E exec_us \in 1..MaxInterval :
       /\ last_us' = last_us + exec_us
       /\ total_uj' = TotalAfter(exec_us)
       /\ covered' = IF failed = "no" THEN covered + exec_us ELSE covered
       /\ partial' = IF failed = "empty" THEN partial + exec_us ELSE partial
       /\ skipped' = IF failed = "error" THEN skipped + exec_us ELSE skipped
  /\ tpc' = IF poll_sensors THEN "sleep" ELSE "exited"
  /\ UNCHANGED <<appVars, fds, poll_sensors, cancelled, passVars>>

(* A cancellation request is acted on in pread and in the sleep.           *)
ActOnCancel ==
  /\ cancelled /\ tpc \in {"sleep", "read"}
  /\ tpc' = "exited"
  /\ UNCHANGED <<appVars, stateVars, cancelled, passVars, history>>

-----------------------------------------------------------------------------
Application ==
  \/ FindSensors \/ FindSensorsOutOfMemory \/ OpenSensor \/ AllOpen \/ CreateThread
  \/ ReadTotal
  \/ FinishCall \/ StopPolling \/ CancelThread \/ JoinThread
  \/ CloseSensor \/ FreeState

PollingThread ==
  ThreadStart \/ StartPass \/ LeaveLoop \/ ReadSensor \/ Account \/ ActOnCancel

(* A crashed process stays crashed.                                        *)
Crashed == pc = "crashed" /\ UNCHANGED vars

Next == Application \/ PollingThread \/ Crashed

(* The kernel runs both threads; a call that was made goes on to its end.  *)
Fairness ==
  /\ WF_vars(PollingThread)
  /\ WF_vars(StopPolling \/ CancelThread \/ JoinThread \/ CloseSensor \/ FreeState)

Spec == Init /\ [][Next]_vars
FairSpec == Spec /\ Fairness

-----------------------------------------------------------------------------
(* Every variable has its type.                                            *)
TypeOK ==
  /\ hasCancel \in BOOLEAN
  /\ pc \in AppPc
  /\ k \in 1..(N + 1)
  /\ allocated \in BOOLEAN
  /\ reading \in Nat
  /\ fds \in [Sensors -> FdState]
  /\ poll_sensors \in BOOLEAN
  /\ total_uj \in Nat
  /\ tpc \in ThreadPc
  /\ cancelled \in BOOLEAN
  /\ i \in 1..(N + 1)
  /\ sum_w \in Nat
  /\ failed \in {"no", "empty", "error"}
  /\ last_us \in Nat /\ passes \in Nat
  /\ covered \in Nat /\ partial \in Nat /\ skipped \in Nat

(* While the polling thread can still run, *state is allocated and every   *)
(* descriptor it reads is open: finish joins before it closes and frees,   *)
(* and init opens everything before it creates the thread.                 *)
ThreadConfined ==
  Live => allocated /\ \A s \in Sensors : fds[s] = "open"

(* Between calls an energymon is either wholly up or wholly down: no       *)
(* descriptor and no thread survives a finish or a failed init, and an     *)
(* initialised one has all its sensors open, polling on and its thread     *)
(* created and not yet joined.                                             *)
AllOrNothing ==
  pc = "idle" =>
    IF allocated
    THEN poll_sensors /\ tpc # "none" /\ \A s \in Sensors : fds[s] = "open"
    ELSE tpc = "none" /\ \A s \in Sensors : fds[s] # "open"

(* Every unit of time up to last_us is counted exactly once: as energy, as *)
(* energy of an incomplete reading, or as skipped after an error.  What is *)
(* in total_uj is what N sensors can have used in the time it covers: a    *)
(* partial sum is not counted after an error, nothing is counted twice.    *)
EnergyEnvelope ==
  /\ last_us = covered + partial + skipped
  /\ N * Lo * covered <= total_uj \/ ~allocated
  /\ total_uj <= N * Hi * (covered + partial)

(* A finish that has reached the join returns: the polling thread leaves   *)
(* its loop, even in a build that cannot cancel it.                        *)
FinishReturns == pc = "join" ~> pc \in {"idle", "crashed"}

(* energymon.h: finit returns "0 on success, failure code otherwise".  The *)
(* clean-up of a failed init must then not cancel or join a thread that    *)
(* pthread_create never made.                                              *)
CancelOnlyCreatedThread == pc \in {"cancel", "join"} => tpc # "none"

-----------------------------------------------------------------------------
(* The energymon this implementation is to its user.                       *)
Phase == CASE pc = "crashed" -> "dead"
           [] pc = "idle" -> IF allocated THEN "open" ELSE "closed"
           [] OTHER -> "busy"

EM == INSTANCE EnergyMonitor WITH phase <- Phase, energy <- total_uj, reading <- reading

(* It behaves as inc/energymon.h promises: the total a session reads only  *)
(* grows, starts at zero and is gone after finish.                         *)
IsEnergyMonitor == EM!EMSpec
=============================================================================
