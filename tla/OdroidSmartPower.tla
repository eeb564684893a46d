-------------------------- MODULE OdroidSmartPower --------------------------
(***************************************************************************)
(* osp/energymon-osp.c, the build without polling: the watt-hour counter   *)
(* of an ODROID Smart Power, read over USB HID.  A request is written, and *)
(* after a few microseconds one non-blocking read looks for the answer;    *)
(* an answer that comes later stays in the input queue for a later read.   *)
(* When the counter reaches OSP_WATTHOUR_MAX the program keeps its value   *)
(* and restarts the device's counter by a stop and a start request.        *)
(*                                                                         *)
(* The device and hidapi are outside the repository: they are modelled by  *)
(* what the code relies on.  Energy is counted in units of the counter.    *)
(***************************************************************************)
EXTENDS Naturals, Sequences

CONSTANTS
  WattHourMax,     \* OSP_WATTHOUR_MAX
  Retries,         \* ENERGYMON_OSP_RETRIES
  StatusRetries,   \* ENERGYMON_OSP_STATUS_RETRIES
  QueueSize,       \* input reports the HID library keeps
  MaxEnergy,       \* bound on the energy the device measures
  MaxSurplus       \* bound on wh_surplus: no read is started beyond it

ASSUME OspAssumption ==
  /\ WattHourMax \in Nat \ {0} /\ Retries \in Nat /\ StatusRetries \in Nat \ {0}
  /\ QueueSize \in Nat \ {0} /\ MaxEnergy \in Nat \ {0} /\ MaxSurplus \in Nat

VARIABLES
  requestOn,      \* ENERGYMON_OSP_REQUEST_ON is set
  stopOnFinish,   \* ENERGYMON_OSP_STOP_ON_FINISH is set
  \* the program: tries is the loop counter, asked that ON was requested
  pc, tries, asked, allocated, wh_surplus, reading,
  \* the device: the request it has not handled, its state and its counter
  request, on, started, wh,
  \* input reports on their way to the program
  replies,
  \* history: energy the device has measured; restarts were undisturbed; the
  \* device was to be stopped by the last em_osp_finish
  measured, undisturbed, stopAsked

env == <<requestOn, stopOnFinish>>
host == <<pc, tries, asked, allocated, wh_surplus, reading>>
device == <<on, started, wh>>
history == <<measured, undisturbed, stopAsked>>
vars == <<env, host, request, device, replies, history>>

None == "none"
Requests == {"DATA", "ONOFF", "STARTSTOP", "STATUS"}
AppPc == {"idle", "status", "statusRead", "onoff", "start", "dataWrite", "dataRead",
          "restartStop", "restartStart", "finish"}
Reply == [kind : {"DATA"}, wh : 0..MaxEnergy]
           \cup [kind : {"STATUS"}, on : BOOLEAN, started : BOOLEAN]

Init ==
  /\ requestOn \in BOOLEAN /\ stopOnFinish \in BOOLEAN
  /\ pc = "idle" /\ tries = 0 /\ asked = FALSE /\ allocated = FALSE
  /\ wh_surplus = 0 /\ reading = 0
  /\ request = None /\ on \in BOOLEAN /\ started \in BOOLEAN
  /\ wh \in {0, 1} /\ measured = wh
  /\ replies = <<>> /\ undisturbed = TRUE /\ stopAsked = FALSE

-----------------------------------------------------------------------------
(* hid_write: the device accepts a report when it has handled the last one *)
Write(r) == request = None /\ request' = r

(* hid_read takes the oldest input report; without one it reads nothing.   *)
TakeReply == replies # <<>> /\ replies' = Tail(replies)

NoReply == replies = <<>> /\ replies' = replies

-----------------------------------------------------------------------------
(* energymon_init_osp: the handle is opened and made non-blocking.  A      *)
(* failure before the handle is open leaves nothing; one after it goes     *)
(* through em_osp_finish.                                                  *)
InitOpen ==
  /\ pc = "idle" /\ ~allocated
  /\ allocated' = TRUE /\ replies' = <<>> /\ wh_surplus' = 0 /\ reading' = 0
  /\ asked' = FALSE /\ tries' = 0 /\ pc' \in {"status", "finish"}
  /\ undisturbed' = TRUE /\ stopAsked' = FALSE
  /\ UNCHANGED <<env, request, device, measured>>

(* em_osp_request_status writes once and then reads many times.            *)
RequestStatus ==
  /\ pc = "status"
  /\ \/ Write("STATUS") /\ pc' = "statusRead" /\ tries' = StatusRetries
     \/ pc' = "finish" /\ UNCHANGED <<request, tries>>
  /\ UNCHANGED <<env, asked, allocated, wh_surplus, reading, device, replies, history>>

StatusFails ==
  /\ pc = "statusRead"
  /\ pc' = "finish" /\ tries' = 0
  /\ UNCHANGED <<env, asked, allocated, wh_surplus, reading, request, device, replies, history>>

(* A loop that reads once more than it may.                                 *)
OneTryMore == tries = 0
LastTry == tries = 1

StatusMissing ==
  /\ pc = "statusRead"
  /\ NoReply \/ (TakeReply /\ Head(replies).kind # "STATUS")
  /\ tries' = tries - 1
  /\ pc' = IF LastTry THEN "finish" ELSE "statusRead"
  /\ UNCHANGED <<env, asked, allocated, wh_surplus, reading, request, device, history>>

(* A device that is off is turned on if the environment asks for it, and   *)
(* its status asked again; a device that does not record is started.       *)
StatusRead ==
  /\ pc = "statusRead"
  /\ TakeReply /\ Head(replies).kind = "STATUS"
  /\ LET status == Head(replies) IN
       pc' = IF ~status.on /\ requestOn /\ ~asked THEN "onoff"
             ELSE IF ~status.started THEN "start" ELSE "idle"
  /\ tries' = 0
  /\ UNCHANGED <<env, asked, allocated, wh_surplus, reading, request, device, history>>

(* A request fails when its write does, or the sleep after it.             *)
RequestOnOff ==
  /\ pc = "onoff"
  /\ \/ Write("ONOFF") /\ pc' = "status" /\ asked' = TRUE
     \/ pc' = "finish" /\ asked' = asked /\ (Write("ONOFF") \/ UNCHANGED request)
  /\ UNCHANGED <<env, tries, allocated, wh_surplus, reading, device, replies, history>>

RequestStart ==
  /\ pc = "start"
  /\ \/ Write("STARTSTOP") /\ pc' = "idle"
     \/ pc' = "finish" /\ (Write("STARTSTOP") \/ UNCHANGED request)
  /\ UNCHANGED <<env, tries, asked, allocated, wh_surplus, reading, device, replies, history>>

-----------------------------------------------------------------------------
(* energymon_read_total_osp over em_osp_request_data_retry: each try       *)
(* writes a request of its own and reads one report.                       *)

ReadCall ==
  /\ pc = "idle" /\ allocated /\ wh_surplus <= MaxSurplus
  /\ pc' = "dataWrite" /\ tries' = Retries
  /\ UNCHANGED <<env, asked, allocated, wh_surplus, reading, request, device, replies, history>>

RequestData ==
  /\ pc = "dataWrite"
  /\ \/ Write("DATA") /\ pc' = "dataRead"
     \/ pc' = "idle" /\ UNCHANGED request
  /\ UNCHANGED <<env, tries, asked, allocated, wh_surplus, reading, device, replies, history>>

DataFails ==
  /\ pc = "dataRead" /\ pc' = "idle"
  /\ UNCHANGED <<env, tries, asked, allocated, wh_surplus, reading, request, device,
                 replies, history>>

(* A retry loop that does not count its retries.                            *)
TriesNotCounted == tries
TriesLeft == IF tries = 0 THEN 0 ELSE tries - 1

DataMissing ==
  /\ pc = "dataRead"
  /\ NoReply \/ (TakeReply /\ Head(replies).kind # "DATA")
  /\ pc' = IF tries = 0 THEN "idle" ELSE "dataWrite"
  /\ tries' = TriesLeft
  /\ UNCHANGED <<env, asked, allocated, wh_surplus, reading, request, device, history>>

(* wh_surplus += wh, and a version that assigns.                            *)
SurplusAssigned(value) == value
SurplusAfter(value) == wh_surplus + value

(* A value below the maximum is added to the surplus of earlier restarts   *)
(* and returned; at the maximum it becomes part of the surplus and the     *)
(* device's counter is restarted before the call returns.                  *)
DataRead ==
  /\ pc = "dataRead"
  /\ TakeReply /\ Head(replies).kind = "DATA"
  /\ LET value == Head(replies).wh IN
       IF value >= WattHourMax
       THEN /\ wh_surplus' = SurplusAfter(value) /\ pc' = "restartStop"
            /\ reading' = reading
       ELSE /\ reading' = wh_surplus + value /\ pc' = "idle"
            /\ wh_surplus' = wh_surplus
  /\ UNCHANGED <<env, tries, asked, allocated, request, device, history>>

(* Failures to stop and to start are reported and otherwise ignored.       *)
RestartStop ==
  /\ pc = "restartStop" /\ pc' = "restartStart"
  /\ \/ Write("STARTSTOP") /\ undisturbed' = (undisturbed /\ replies = <<>>)
     \/ UNCHANGED request /\ undisturbed' = FALSE
  /\ UNCHANGED <<env, tries, asked, allocated, wh_surplus, reading, device, replies,
                 measured, stopAsked>>

(* A restart that only stops.                                               *)
RestartNeverStarts ==
  /\ pc = "restartStart" /\ pc' = "idle"
  /\ reading' = wh_surplus
  /\ UNCHANGED <<env, tries, asked, allocated, wh_surplus, request, device, replies, history>>

RestartStart ==
  /\ pc = "restartStart" /\ pc' = "idle"
  /\ reading' = wh_surplus
  /\ \/ Write("STARTSTOP") /\ undisturbed' = undisturbed
     \/ UNCHANGED request /\ undisturbed' = FALSE
  /\ UNCHANGED <<env, tries, asked, allocated, wh_surplus, device, replies,
                 measured, stopAsked>>

-----------------------------------------------------------------------------
(* energymon_finish_osp                                                    *)

FinishCall ==
  /\ pc = "idle" /\ allocated /\ pc' = "finish"
  /\ UNCHANGED <<env, tries, asked, allocated, wh_surplus, reading, request, device,
                 replies, history>>

(* em_osp_finish, also the clean-up of a failed init: the same request     *)
(* stops a device that records and starts one that does not.               *)
Finish ==
  /\ pc = "finish"
  /\ \/ stopOnFinish /\ Write("STARTSTOP") /\ stopAsked' = TRUE
     \/ request' = request /\ stopAsked' = FALSE
  /\ allocated' = FALSE /\ pc' = "idle"
  /\ wh_surplus' = 0 /\ reading' = 0 /\ replies' = <<>>
  /\ UNCHANGED <<env, tries, asked, device, measured, undisturbed>>

-----------------------------------------------------------------------------
(* The device and the HID library (external)                               *)

(* An input report is queued, or lost; a full queue drops its oldest.      *)
Queued(reply) ==
  \/ replies' = replies
  \/ replies' = Append(IF Len(replies) = QueueSize THEN Tail(replies) ELSE replies, reply)

HandleRequest ==
  /\ request # None /\ request' = None
  /\ CASE request = "DATA" -> Queued([kind |-> "DATA", wh |-> wh]) /\ UNCHANGED device
       [] request = "STATUS" ->
            Queued([kind |-> "STATUS", on |-> on, started |-> started]) /\ UNCHANGED device
       [] request = "ONOFF" -> on' = ~on /\ UNCHANGED <<started, wh, replies>>
       [] request = "STARTSTOP" ->
            /\ started' = ~started /\ wh' = IF started THEN wh ELSE 0
            /\ UNCHANGED <<on, replies>>
  /\ UNCHANGED <<env, host, history>>

(* A device that records counts the energy its load uses.                  *)
Measure ==
  /\ started /\ measured < MaxEnergy
  /\ wh' = wh + 1 /\ measured' = measured + 1
  /\ UNCHANGED <<env, host, request, on, started, replies, undisturbed, stopAsked>>

-----------------------------------------------------------------------------
InCall ==
  \/ RequestStatus \/ StatusFails \/ StatusMissing \/ StatusRead
  \/ RequestOnOff \/ RequestStart
  \/ RequestData \/ DataFails \/ DataMissing \/ DataRead \/ RestartStop \/ RestartStart
  \/ Finish

Next == InitOpen \/ ReadCall \/ FinishCall \/ InCall \/ HandleRequest \/ Measure

Spec == Init /\ [][Next]_vars
FairSpec == Spec /\ WF_vars(InCall) /\ WF_vars(HandleRequest)

-----------------------------------------------------------------------------
(* Every variable has its type.                                            *)
TypeOK ==
  /\ requestOn \in BOOLEAN /\ stopOnFinish \in BOOLEAN
  /\ pc \in AppPc /\ tries \in Nat /\ asked \in BOOLEAN /\ allocated \in BOOLEAN
  /\ wh_surplus \in Nat /\ reading \in Nat
  /\ request \in Requests \cup {None}
  /\ on \in BOOLEAN /\ started \in BOOLEAN /\ wh \in 0..MaxEnergy
  /\ replies \in Seq(Reply) /\ Len(replies) <= QueueSize
  /\ measured \in Nat /\ undisturbed \in BOOLEAN /\ stopAsked \in BOOLEAN

(* The program never reports more energy than the device has measured, as  *)
(* long as no restart met an answer still under way or a failed write.     *)
NoOverCount == undisturbed => reading <= measured

(* Once init has succeeded the device records, through every restart.      *)
Recording ==
  pc = "idle" /\ allocated /\ undisturbed /\ request = None => started

(* Within a session the energy read never decreases, restarts included, as *)
(* long as no restart met an answer still under way or a failed write.     *)
ReadingNeverDecreases ==
  [][allocated /\ allocated' /\ undisturbed' => reading' >= reading]_vars

(* Every call returns, however the device behaves.                         *)
CallsReturn == pc # "idle" ~> pc = "idle"

(* utils/energymon-file-provider.c: "the interface specifies that energy   *)
(* values are monotonically increasing".                                   *)
ReadingIsMonotone == [][allocated /\ allocated' => reading' >= reading]_vars

(* "Environment variable to stop the device recording on finish": once the *)
(* request that em_osp_finish wrote is handled, the device is stopped.     *)
FinishStopsDevice == stopAsked /\ request = None => ~started
=============================================================================
