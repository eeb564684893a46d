--------------------------- MODULE PollingMonitors ---------------------------
(***************************************************************************)
(* One energymon of any of the implementations that poll power in a thread *)
(* of their own, but for odroid, which OdroidMonitor has in more detail.   *)
(* impl says which; what only another implementation has stays as it is.   *)
(***************************************************************************)
EXTENDS Zcu102Monitor, OdroidIoctlMonitor, IbmPowerNvMonitor, OspPollingMonitor,
        JetsonMonitor, Osp3Monitor

vars == <<session, board, osp3Vars>>

Init ==
  /\ SessionInit /\ JetsonInit /\ Osp3Init
  /\ impl # "jetson" => board = CHOOSE b \in Boards : TRUE

OpenMonitor ==
  \/ Zcu102InitCall \/ Zcu102Open \/ Zcu102Create
  \/ IoctlInitCall \/ IoctlOpen \/ IoctlCreate
  \/ PowerNvInitCall \/ PowerNvOpen \/ PowerNvCreate
  \/ OspInitCall \/ OspOpen \/ OspCreate

FinishMonitor ==
  \/ Zcu102Finish \/ IoctlFinish \/ IoctlCloseAll
  \/ PowerNvFinish \/ PowerNvRelease \/ OspFinish

Read == Zcu102Read \/ IoctlRead \/ PowerNvRead \/ OspRead
Poll == Zcu102Poll \/ IoctlPoll \/ PowerNvPoll \/ OspPoll

Finish ==
  \/ FinishMonitor /\ UNCHANGED <<board, osp3Vars>>
  \/ (JetsonFinish \/ JetsonRelease) /\ UNCHANGED osp3Vars
  \/ Osp3Finish /\ UNCHANGED board

PollingThread ==
  \/ Poll /\ UNCHANGED <<board, osp3Vars>>
  \/ JetsonPoll /\ UNCHANGED osp3Vars
  \/ Osp3Poll /\ UNCHANGED board

(* A crashed process stays crashed, and a device that waits for the end of *)
(* a transfer that nobody will end is never closed.                        *)
Stuck == (pc = "crashed" \/ tpc = "abandoned") /\ UNCHANGED vars

Next ==
  \/ (OpenMonitor \/ Read) /\ UNCHANGED <<board, osp3Vars>>
  \/ (JetsonInitCall \/ JetsonWalkFails \/ JetsonOpen \/ JetsonCreate \/ JetsonRead)
       /\ UNCHANGED osp3Vars
  \/ (Osp3InitCall \/ Osp3Open \/ Osp3Create \/ Osp3InitRefused \/ Osp3Read)
       /\ UNCHANGED board
  \/ Finish \/ PollingThread \/ Stuck

(* The kernel runs both threads, and a ffinish that was called goes on.    *)
Spec == Init /\ [][Next]_vars
FairSpec == Spec /\ WF_vars(PollingThread) /\ WF_vars(pc # "idle" /\ Finish)

-----------------------------------------------------------------------------
(* Every variable has its type.                                            *)
TypeOK == SessionTypeOK /\ JetsonTypeOK /\ Osp3TypeOK

(* The sensors that are read, and the library of those that need it open.  *)
AllOpen ==
  held \ {Library} = 1..count /\ (impl = "osp_polling" => Library \in held)

(* The search for the default rails of a Jetson has ended at a family of   *)
(* which the board has only the first rail.                                *)
RailsLost ==
  impl = "jetson" /\ FamiliesSeen # {} /\ ~Complete(DefaultNames) /\ held = {}

(* While the polling thread can still run, the state it was given is       *)
(* allocated and everything it reads is open: finish joins before it       *)
(* closes and frees, also when the thread was cancelled on its way.        *)
ThreadConfined == Live => allocated /\ (AllOpen \/ RailsLost)

(* Between calls an energymon is either wholly up or wholly down: wherever *)
(* finit failed, no file, device, library or thread is left, and one that  *)
(* is up has its sensors open and polling on.  em->state tells which, but  *)
(* for osp3, whose finish leaves the pointer to what it has freed.         *)
AllOrNothing ==
  pc = "idle" =>
    /\ IF allocated
       THEN /\ AllOpen \/ RailsLost
            /\ IF impl = "ibmpowernv" THEN tpc = "none" ELSE poll_sensors /\ tpc # "none"
       ELSE ~Live /\ held = {}
    /\ published = allocated \/ impl = "osp3"

(* Every unit of time is counted once: as energy, as energy of an          *)
(* incomplete reading, or as skipped after an error; the total is what the *)
(* sensors can have used in it.  (For osp3 it is the time between the      *)
(* lines it got, as long as the device does not restart and what it can    *)
(* have used fits the word of the total, which then wraps.)                *)
EnergyFits == impl = "osp3" => Hi * covered < Word
EnergyEnvelope ==
  ~rolled /\ ~RailsLost /\ EnergyFits =>
    /\ last_us = covered + partial + skipped
    /\ count * Lo * covered <= total_uj
    /\ total_uj <= count * Hi * (covered + partial)

(* A finish that was called returns: the polling thread leaves its loop,   *)
(* even in a build that cannot cancel it, and leaves nothing behind that   *)
(* keeps a device from being closed.                                       *)
FinishReturns == pc = "stop" ~> pc \in {"idle", "crashed"}

(* energymon-jetson.c:81-82: boards of the TX family have VDD_IN and       *)
(* VDD_MUX, a Xavier NX or TX2 NX only VDD_IN.  Once finit has succeeded   *)
(* the rails that are polled are then open.                                *)
RailsOpen == pc = "idle" /\ allocated /\ impl = "jetson" => 1..count \subseteq held
=============================================================================
