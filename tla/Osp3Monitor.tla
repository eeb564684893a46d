----------------------------- MODULE Osp3Monitor -----------------------------
(***************************************************************************)
(* osp3/energymon-osp3.c: the ODROID Smart Power 3 sends a line with its   *)
(* uptime and its power at an interval of its own, which a thread reads.   *)
(***************************************************************************)
EXTENDS PollingSession

CONSTANTS
  OSP3_INTERVAL_MS_DEFAULT,   \* how often the device sends a line
  Timestamps,   \* uptimes of the device that are tried, in milliseconds
  Word          \* unsigned numbers are those below Word (2^64)

ASSUME Osp3Assumption ==
  OSP3_INTERVAL_MS_DEFAULT \in Nat /\ Timestamps \subseteq Nat /\ Word \in Nat \ {0}

VARIABLES
  ms_last, interval_us,
  rolled        \* history: the device has restarted during this session

osp3Vars == <<ms_last, interval_us, rolled>>

Osp3Init == ms_last = 0 /\ interval_us = OSP3_INTERVAL_MS_DEFAULT * 1000 /\ rolled = FALSE
Osp3TypeOK == ms_last \in Timestamps \cup {0} /\ interval_us \in Nat /\ rolled \in BOOLEAN

(* The device opens or not; em->state is set once it has.                  *)
Osp3InitCall == InitCall("osp3", 1, {}, FALSE) /\ UNCHANGED osp3Vars
Osp3Open ==
  /\ Opened("osp3", {1}, "creating") \/ OpenFails("osp3", "release")
  /\ UNCHANGED osp3Vars

(* After a failed pthread_create poll is cleared before finish is called.  *)
Osp3Create ==
  /\ CreateThread("osp3") \/ CreateFails("osp3", FALSE, "stop")
  /\ UNCHANGED osp3Vars

(* finish frees the state, but does not set em->state to NULL ...          *)
Osp3Finish ==
  /\ impl = "osp3"
  /\ \/ FinishCall /\ UNCHANGED osp3Vars
     \/ StopThread /\ UNCHANGED osp3Vars
     \/ /\ Release({1}, 1 \in held)
        /\ ms_last' = 0 /\ interval_us' = OSP3_INTERVAL_MS_DEFAULT * 1000 /\ rolled' = FALSE

(* ... so that a later finit is refused.                                   *)
Osp3InitRefused ==
  /\ impl = "osp3" /\ pc = "idle" /\ ~allocated /\ published
  /\ UNCHANGED <<session, osp3Vars>>

Osp3Read == impl = "osp3" /\ ReadTotal /\ UNCHANGED osp3Vars

(* log_entry_to_uj, for the power mw at uptime ms.                         *)
SinceLast(ms) == IF ms_last = 0 THEN 0 ELSE ms - ms_last
EntrySigned(mw, ms) == total_uj + mw * SinceLast(ms)
EntryTotal(mw, ms) == (total_uj + mw * SinceLast(ms)) % Word

(* log_entry_to_interval_us: the interval of the device closest to diff.   *)
Rounded == << <<8, 5>>, <<25, 10>>, <<75, 50>>, <<250, 100>>, <<750, 500>>, <<1500, 1000>> >>
IntervalFor(ms) ==
  LET fits == {r \in DOMAIN Rounded : SinceLast(ms) <= Rounded[r][1]}
  IN  IF SinceLast(ms) <= 0 \/ fits = {} THEN interval_us
      ELSE Rounded[CHOOSE r \in fits : \A q \in fits : r <= q][2] * 1000

(* A good line.                                                            *)
Osp3Entry ==
  /\ tpc = "read" /\ tpc' = "head"
  /\ \E ms \in Timestamps, mw \in Lo..Hi :
       /\ total_uj' = EntryTotal(mw, ms)
       /\ interval_us' = IntervalFor(ms) /\ ms_last' = ms
       /\ rolled' = (rolled \/ SinceLast(ms) < 0)
       /\ covered' = IF SinceLast(ms) > 0 THEN covered + SinceLast(ms) ELSE covered
       /\ last_us' = covered'
  /\ UNCHANGED <<call, poll_sensors, cancelled, pass, passes, partial, skipped>>

(* An error, a timeout, a first line that is cut off, or a line that is    *)
(* too short or too long, cannot be parsed or has a wrong checksum.        *)
Osp3NoEntry ==
  /\ tpc = "read" /\ tpc' = "head"
  /\ UNCHANGED <<call, poll_sensors, total_uj, cancelled, pass, passes, history, osp3Vars>>

Osp3Poll ==
  /\ impl = "osp3"
  /\ \/ /\ ThreadStart("head") \/ StartPass \/ LeaveLoop \/ ActOnCancel({"read"})
        /\ UNCHANGED osp3Vars
     \/ Osp3Entry \/ Osp3NoEntry
=============================================================================
