--------------------------- MODULE WattsUpMonitor ---------------------------
(***************************************************************************)
(* wattsup/energymon-wattsup.c: a Watts Up? PRO meter read over a serial   *)
(* or USB driver.  The polling thread collects data packets and adds the   *)
(* metered power times the elapsed time to total_uj.  When estimates are   *)
(* enabled a read by the application does the same addition itself, under  *)
(* a spin lock.  The thread lets itself be cancelled only while it sleeps. *)
(*                                                                         *)
(* now is the monotonic clock, capped by MaxTime.                          *)
(***************************************************************************)
EXTENDS Naturals, WattsUpDrivers

CONSTANTS
  Lo, Hi,          \* least and greatest power a packet reports, in deciwatts
  Scale,           \* energy units are 1/Scale of power times time (source: 10)
  FlushRetries,    \* WU_INIT_MAX_RETRIES
  PacketRetries,   \* WU_PACKET_MAX_RETRIES
  MaxTime          \* bound on the clock

ASSUME WattsUpAssumption ==
  /\ Lo \in Nat /\ Hi \in Nat /\ Lo <= Hi
  /\ Scale \in Nat \ {0} /\ FlushRetries \in Nat
  /\ PacketRetries \in Nat \ {0} /\ MaxTime \in Nat \ {0}

VARIABLES
  hasCancel,       \* FALSE in the Android build
  estimates,       \* state->use_estimates
  now,             \* the monotonic clock
  \* the application
  pc, tries, allocated, reading,
  ioBusy,          \* a transfer is under way in the driver
  \* *state
  poll, lock, exec_us, last_us, deciwatts, total_uj,
  \* the polling thread; first: the clock value its first gettime returned
  tpc, cancelEnabled, cancelled, retries, first,
  \* history of the session: a first packet was parsed, and last_us then; the
  \* additions made; a read took its time before the thread had set last_us
  sampled, since, adds, early

conf == <<hasCancel, estimates>>
app == <<pc, tries, allocated, reading>>
meter == <<link, ioBusy>>
account == <<exec_us, last_us, total_uj, adds>>
thread == <<tpc, cancelEnabled, cancelled, retries, first>>
sample == <<deciwatts, sampled, since>>
vars == <<conf, now, app, meter, poll, lock, account, thread, sample, early>>

AppPc == {"idle", "connect", "flush", "create", "rLock", "rElapsed", "rAdd", "rUnlock",
          "rReturn", "stop", "cancel", "join", "logStop", "disconnect"}
ThreadPc == {"none", "start", "store", "sleep", "io", "parsed", "packetSleep", "lock",
             "elapsed", "add", "unlock", "exited"}

Init ==
  /\ hasCancel \in BOOLEAN /\ estimates \in BOOLEAN
  /\ now = 1
  /\ pc = "idle" /\ tries = 0 /\ allocated = FALSE /\ reading = 0
  /\ DriverInit /\ ioBusy = FALSE
  /\ poll = FALSE /\ lock = "free"
  /\ exec_us = 0 /\ last_us = 0 /\ deciwatts = 0 /\ total_uj = 0
  /\ tpc = "none" /\ cancelEnabled = TRUE /\ cancelled = FALSE /\ retries = 0 /\ first = 0
  /\ sampled = FALSE /\ since = 0 /\ adds = 0 /\ early = FALSE

Tick == /\ now < MaxTime /\ now' = now + 1
        /\ UNCHANGED <<conf, app, meter, poll, lock, account, thread, sample, early>>

-----------------------------------------------------------------------------
(* energymon_init_wattsup                                                  *)

(* The state is zeroed by calloc, then wattsup_connect is called.          *)
InitCall ==
  /\ pc = "idle" /\ ~allocated
  /\ pc' = "connect" /\ tries' = 0
  /\ exec_us' = 0 /\ last_us' = 0 /\ total_uj' = 0 /\ adds' = 0 /\ lock' = "free"
  /\ deciwatts' = 0 /\ sampled' = FALSE /\ since' = 0 /\ early' = FALSE
  /\ UNCHANGED <<conf, now, allocated, reading, meter, poll, thread>>

Connect ==
  /\ pc = "connect" /\ ConnectStep
  /\ UNCHANGED <<conf, now, app, ioBusy, poll, lock, account, thread, sample, early>>

(* The two writes that clear the memory and start logging have succeeded,  *)
(* or have failed and the driver did not say so: wattsup-driver.h wants a  *)
(* negative value then, libusb's returns how much it transferred.          *)
InitWrites ==
  /\ pc = "connect" /\ Connected /\ pc' = "flush"
  /\ UNCHANGED <<conf, now, tries, allocated, reading, meter, poll, lock, account,
                 thread, sample, early>>

(* A failed init disconnects and frees; the meter is left logging.         *)
InitFails == pc' = "idle" /\ Destroy

(* Something fails in wattsup_connect, or a write does.  (Without a        *)
(* context or file there is nothing to destroy.)                           *)
ConnectFails ==
  /\ pc = "connect" /\ InitFails
  /\ UNCHANGED <<conf, now, tries, allocated, reading, ioBusy, poll, lock, account,
                 thread, sample, early>>

(* wattsup_flush_read.  A read that fails ends it; a full buffer means a   *)
(* backlog and costs one try; a good packet ends it; otherwise it sleeps   *)
(* and tries again.  A backlog on the last try counts as success.          *)
FlushRead ==
  /\ pc = "flush"
  /\ \/ InitFails /\ tries' = 0
     \/ pc' = "create" /\ tries' = 0 /\ UNCHANGED link
     \/ tries < FlushRetries /\ tries' = tries + 1 /\ UNCHANGED <<pc, link>>
  /\ UNCHANGED <<conf, now, allocated, reading, ioBusy, poll, lock, account, thread,
                 sample, early>>

CreateThread ==
  /\ pc = "create"
  /\ \/ /\ poll' = TRUE /\ tpc' = "start" /\ cancelEnabled' = TRUE /\ cancelled' = FALSE
        /\ allocated' = TRUE /\ reading' = 0 /\ pc' = "idle" /\ UNCHANGED link
     \/ InitFails /\ UNCHANGED <<poll, tpc, cancelEnabled, cancelled, allocated, reading>>
  /\ UNCHANGED <<conf, now, tries, ioBusy, lock, account, retries, first, sample, early>>

-----------------------------------------------------------------------------
(* The addition both threads make: energymon_gettime_elapsed_us into the   *)
(* shared exec_us, then total_uj += deciwatts * exec_us / 10.              *)

Elapsed == exec_us' = now - last_us /\ last_us' = now

AddEnergy ==
  /\ total_uj' = total_uj + ((deciwatts * exec_us) \div Scale)
  /\ adds' = IF exec_us > 0 THEN adds + 1 ELSE adds

(* A lock_acquire that does not look at the lock.                           *)
LockIgnored == TRUE
LockFree == lock = "free"

(* energymon_read_total_wattsup                                            *)

ReadCall ==
  /\ pc = "idle" /\ allocated
  /\ pc' = IF estimates THEN "rLock" ELSE "rReturn"
  /\ UNCHANGED <<conf, now, tries, allocated, reading, meter, poll, lock, account,
                 thread, sample, early>>

ReadLock ==
  /\ pc = "rLock" /\ LockFree
  /\ lock' = "reader" /\ pc' = "rElapsed"
  /\ UNCHANGED <<conf, now, tries, allocated, reading, meter, poll, account,
                 thread, sample, early>>

ReadElapsed ==
  /\ pc = "rElapsed"
  /\ Elapsed /\ pc' = "rAdd"
  /\ early' = (early \/ tpc \in {"start", "store"})
  /\ UNCHANGED <<conf, now, tries, allocated, reading, meter, poll, lock,
                 total_uj, adds, thread, sample>>

ReadAdd ==
  /\ pc = "rAdd"
  /\ AddEnergy /\ pc' = "rUnlock"
  /\ UNCHANGED <<conf, now, tries, allocated, reading, meter, poll, lock,
                 exec_us, last_us, thread, sample, early>>

ReadUnlock ==
  /\ pc = "rUnlock"
  /\ lock' = "free" /\ pc' = "rReturn"
  /\ UNCHANGED <<conf, now, tries, allocated, reading, meter, poll, account,
                 thread, sample, early>>

(* total_uj is read again, without the lock.                               *)
ReadReturn ==
  /\ pc = "rReturn"
  /\ reading' = total_uj /\ pc' = "idle"
  /\ UNCHANGED <<conf, now, tries, allocated, meter, poll, lock, account,
                 thread, sample, early>>

-----------------------------------------------------------------------------
(* energymon_finish_wattsup                                                *)

FinishCall ==
  /\ pc = "idle" /\ allocated /\ pc' = "stop"
  /\ UNCHANGED <<conf, now, tries, allocated, reading, meter, poll, lock, account,
                 thread, sample, early>>

(* A finish that forgets to clear the flag the polling thread loops on.     *)
StopPollingFlagKept ==
  /\ pc = "stop" /\ pc' = "cancel"
  /\ UNCHANGED <<conf, now, tries, allocated, reading, meter, poll, lock, account,
                 thread, sample, early>>

StopPolling ==
  /\ pc = "stop" /\ poll' = FALSE /\ pc' = "cancel"
  /\ UNCHANGED <<conf, now, tries, allocated, reading, meter, lock, account,
                 thread, sample, early>>

CancelThread ==
  /\ pc = "cancel" /\ cancelled' = hasCancel /\ pc' = "join"
  /\ UNCHANGED <<conf, now, tries, allocated, reading, meter, poll, lock, account,
                 tpc, cancelEnabled, retries, first, sample, early>>

(* A finish that goes on without waiting for the thread.                    *)
JoinDoesNotWait == TRUE
ThreadEnded == tpc = "exited"

JoinThread ==
  /\ pc = "join" /\ ThreadEnded
  /\ tpc' = IF tpc = "exited" THEN "none" ELSE tpc
  /\ pc' = "logStop"
  /\ UNCHANGED <<conf, now, tries, allocated, reading, meter, poll, lock, account,
                 cancelEnabled, cancelled, retries, first, sample, early>>

(* The write that stops the logging may fail, which is ignored.            *)
StopLogging ==
  /\ pc = "logStop" /\ pc' = "disconnect"
  /\ UNCHANGED <<conf, now, tries, allocated, reading, meter, poll, lock, account,
                 thread, sample, early>>

(* wattsup_disconnect blocks in some drivers when a transfer was abandoned *)
(* half-way; then *state is freed.                                         *)
Disconnect ==
  /\ pc = "disconnect" /\ ~ioBusy
  /\ Destroy /\ allocated' = FALSE /\ pc' = "idle"
  /\ total_uj' = 0 /\ reading' = 0
  /\ UNCHANGED <<conf, now, tries, ioBusy, poll, lock, exec_us, last_us, adds,
                 thread, sample, early>>

-----------------------------------------------------------------------------
(* wattsup_poll_sensors, the polling thread                                *)

(* The time of the start is taken, then stored in *state without the lock. *)
(* (The early return of a platform with no monotonic clock is left out:    *)
(* there the additions of both threads are zero.)                          *)
ThreadStart ==
  /\ tpc = "start"
  /\ deciwatts' = 0 /\ first' = now /\ tpc' = "store"
  /\ UNCHANGED <<conf, now, app, meter, poll, lock, account, cancelEnabled, cancelled,
                 retries, sampled, since, early>>

(* wattsup_thread_sleep_us: cancellation is enabled for the sleep, if      *)
(* there is one; without it the while loop ends at once.                   *)
GoToSleep ==
  /\ tpc' = IF poll THEN "sleep" ELSE "exited"
  /\ cancelEnabled' = (poll \/ cancelEnabled)

ThreadStore ==
  /\ tpc = "store"
  /\ last_us' = first /\ GoToSleep
  /\ UNCHANGED <<conf, now, app, meter, poll, lock, exec_us, total_uj, adds,
                 cancelled, retries, first, sample, early>>

(* A sleep that leaves cancellation enabled.                                *)
CancelLeftEnabled == TRUE
CancelAfterSleep == FALSE

(* The sleep ends; the loop goes on to a transfer while polling is on.     *)
EndSleep ==
  /\ tpc = "sleep"
  /\ cancelEnabled' = CancelAfterSleep
  /\ retries' = 0
  /\ ioBusy' = poll
  /\ tpc' = IF poll THEN "io" ELSE "exited"
  /\ UNCHANGED <<conf, now, app, link, poll, lock, account,
                 cancelled, first, sample, early>>

EndPacketSleep ==
  /\ tpc = "packetSleep"
  /\ cancelEnabled' = CancelAfterSleep
  /\ retries' = IF poll THEN retries + 1 ELSE retries
  /\ ioBusy' = poll
  /\ tpc' = IF poll THEN "io" ELSE "lock"
  /\ UNCHANGED <<conf, now, app, link, poll, lock, account,
                 cancelled, first, sample, early>>

(* An off-by-one in the number of reads a packet may take.                  *)
OneRetryTooMany == retries <= PacketRetries
MoreRetries == retries < PacketRetries

(* wattsup_read returns.  It failed, or there is no packet or a malformed  *)
(* one: deciwatts is kept.  A packet without its end is read on after a    *)
(* short sleep, while retries are left.  A complete one is parsed, unless  *)
(* it took the last retry.  poll is looked at after the first read and     *)
(* before each further one, but not after it.                              *)
EndTransfer ==
  /\ tpc = "io"
  /\ ioBusy' = FALSE
  /\ \/ tpc' = "lock" /\ cancelEnabled' = cancelEnabled
     \/ poll /\ MoreRetries /\ tpc' = "packetSleep" /\ cancelEnabled' = TRUE
     \/ (poll \/ retries > 0) /\ retries < PacketRetries /\ tpc' = "parsed" /\ cancelEnabled' = cancelEnabled
  /\ UNCHANGED <<conf, now, app, link, poll, lock, account,
                 cancelled, retries, first, sample, early>>

(* data_packet_parse writes deciwatts without the lock.                    *)
Parse ==
  /\ tpc = "parsed"
  /\ deciwatts' \in Lo..Hi
  /\ sampled' = TRUE /\ since' = IF sampled THEN since ELSE last_us
  /\ tpc' = "lock"
  /\ UNCHANGED <<conf, now, app, meter, poll, lock, account, cancelEnabled, cancelled,
                 retries, first, early>>

ThreadLock ==
  /\ tpc = "lock"
  /\ IF estimates THEN LockFree /\ lock' = "thread" ELSE lock' = lock
  /\ tpc' = "elapsed"
  /\ UNCHANGED <<conf, now, app, meter, poll, account, cancelEnabled, cancelled,
                 retries, first, sample, early>>

ThreadElapsed ==
  /\ tpc = "elapsed" /\ Elapsed /\ tpc' = "add"
  /\ UNCHANGED <<conf, now, app, meter, poll, lock, total_uj, adds, cancelEnabled,
                 cancelled, retries, first, sample, early>>

ThreadAdd ==
  /\ tpc = "add" /\ AddEnergy /\ tpc' = "unlock"
  /\ UNCHANGED <<conf, now, app, meter, poll, lock, exec_us, last_us, cancelEnabled,
                 cancelled, retries, first, sample, early>>

ThreadUnlock ==
  /\ tpc = "unlock"
  /\ lock' = IF estimates THEN "free" ELSE lock
  /\ GoToSleep
  /\ UNCHANGED <<conf, now, app, meter, poll, account, cancelled, retries, first,
                 sample, early>>

(* Deferred cancellation: acted on in a sleep or a transfer, if enabled.   *)
ActOnCancel ==
  /\ cancelled /\ cancelEnabled /\ tpc \in {"sleep", "packetSleep", "io"}
  /\ tpc' = "exited"
  /\ UNCHANGED <<conf, now, app, meter, poll, lock, account, cancelEnabled, cancelled,
                 retries, first, sample, early>>

-----------------------------------------------------------------------------
Finish == StopPolling \/ CancelThread \/ JoinThread \/ StopLogging \/ Disconnect

Application ==
  \/ InitCall \/ Connect \/ InitWrites \/ ConnectFails \/ FlushRead \/ CreateThread
  \/ ReadCall \/ ReadLock \/ ReadElapsed \/ ReadAdd \/ ReadUnlock \/ ReadReturn
  \/ FinishCall \/ Finish

PollingThread ==
  \/ ThreadStart \/ ThreadStore \/ EndSleep \/ EndPacketSleep \/ EndTransfer \/ Parse
  \/ ThreadLock \/ ThreadElapsed \/ ThreadAdd \/ ThreadUnlock \/ ActOnCancel

Next == Tick \/ Application \/ PollingThread

Spec == Init /\ [][Next]_vars
FairSpec == Spec /\ WF_vars(PollingThread) /\ WF_vars(Finish)

-----------------------------------------------------------------------------
(* Every variable has its type.                                            *)
TypeOK ==
  /\ hasCancel \in BOOLEAN /\ estimates \in BOOLEAN /\ now \in 1..MaxTime
  /\ pc \in AppPc /\ tries \in 0..FlushRetries /\ allocated \in BOOLEAN /\ reading \in Nat
  /\ DriverTypeOK /\ ioBusy \in BOOLEAN
  /\ poll \in BOOLEAN /\ lock \in {"free", "reader", "thread"}
  /\ exec_us \in Nat /\ last_us \in 0..now /\ deciwatts \in 0..Hi /\ total_uj \in Nat
  /\ tpc \in ThreadPc /\ cancelEnabled \in BOOLEAN /\ cancelled \in BOOLEAN
  /\ retries \in 0..PacketRetries /\ first \in 0..now
  /\ sampled \in BOOLEAN /\ since \in 0..now /\ adds \in Nat /\ early \in BOOLEAN

(* The comment in wattsup_thread_sleep_us: a thread that has ended, by     *)
(* itself or by cancellation, leaves no transfer half done in the driver   *)
(* and does not hold the spin lock.                                        *)
NothingAbandoned == tpc \in {"exited", "none"} => ~ioBusy /\ lock # "thread"

(* Reads with estimates and the polling thread share exec_us, last_us and  *)
(* total_uj.  Once the thread has stored its start time, the time up to    *)
(* last_us is never used twice, and none of it is lost from the first      *)
(* packet on: what is missing is the fraction each division drops.         *)
TimeUsedOnce ==
  allocated /\ tpc \notin {"start", "store"} /\ ~early =>
    /\ total_uj * Scale <= Hi * (last_us - first)
    /\ sampled /\ pc # "rAdd" /\ tpc # "add" =>
         Lo * (last_us - since) <= total_uj * Scale + (Scale - 1) * adds

(* In a session the meter is connected and the thread exists.  Without one *)
(* no thread is left and, wherever connect or init failed, whatever driver *)
(* there is has given back all it got: the meter is free for others and    *)
(* the kernel's driver is bound to it if it was before.                    *)
MeterReleased ==
  pc = "idle" =>
    /\ IF allocated THEN Connected ELSE held = {} /\ kernel = bound
    /\ (tpc # "none") = allocated

(* A finish returns: the thread ends and the driver can disconnect.        *)
FinishReturns == pc = "join" ~> pc = "idle"

(* energymon.h: fread gets "the total energy in microjoules".  What a read *)
(* returns is then no more than the meter's greatest power over the time   *)
(* the session has lasted.                                                 *)
ReadingWithinSession == first > 0 => reading * Scale <= Hi * (now - first)

-----------------------------------------------------------------------------
(* The energymon this implementation is to its user.                       *)
Phase == IF allocated
         THEN IF pc \in {"stop", "cancel", "join", "logStop", "disconnect"}
              THEN "busy" ELSE "open"
         ELSE IF pc = "idle" THEN "closed" ELSE "busy"

EM == INSTANCE EnergyMonitor WITH phase <- Phase, energy <- total_uj, reading <- reading

(* It behaves as inc/energymon.h promises: two threads that both add to    *)
(* the total never make it go back, and finish leaves nothing behind.      *)
IsEnergyMonitor == EM!EMSpec
=============================================================================
