---------------------------- MODULE JetsonMonitor ----------------------------
(***************************************************************************)
(* jetson/energymon-jetson.c, ina3221.c and ina3221x.c: the power rails of *)
(* a Jetson board, those the user names or those found by default.  With   *)
(* the driver ina3221 a rail has two files, which are opened and closed    *)
(* together; with ina3221x it has one.                                     *)
(***************************************************************************)
EXTENDS PollingSession, Sequences

CONSTANT Boards   \* each board is the set of the names of its rails

VARIABLE board

(* The default rails of each family of boards, in the order of the search. *)
DEFAULT_RAIL_NAMES ==
  << <<"VDD_IN", "VDD_MUX">>, <<"VDD_IN">>, <<"POM_5V_IN">>,
     <<"GPU", "CPU", "SOC", "CV", "VDDRQ", "SYS5V">>,
     <<"VDD_GPU_SOC", "VDD_CPU_CV", "VIN_SYS_5V0">> >>

(* The walk through the directories of the drivers opens the rails that    *)
(* are asked for and on the board.                                         *)
RailsFound(names) == {s \in 1..Len(names) : names[s] \in board}

(* The search stops at the first family whose first rail is on the board.  *)
(* If another rail of that family is not, everything is closed, and the    *)
(* break that should go on to the next family only leaves the loop over    *)
(* the rails: the search returns success all the same.                     *)
FamiliesSeen == {f \in 1..Len(DEFAULT_RAIL_NAMES) : 1 \in RailsFound(DEFAULT_RAIL_NAMES[f])}
DefaultNames ==
  LET f == CHOOSE g \in FamiliesSeen : \A h \in FamiliesSeen : g <= h
  IN  DEFAULT_RAIL_NAMES[f]
Complete(names) == RailsFound(names) = 1..Len(names)
RailsKept(names) == IF Complete(names) THEN 1..Len(names) ELSE {}

JetsonInit == board \in Boards
JetsonTypeOK == board \in Boards

(* The rails of a list the user gives have all to be found.                *)
JetsonInitCall ==
  /\ \/ \E n \in Sensors : InitCall("jetson", n, 1..n, FALSE)
     \/ /\ FamiliesSeen # {} /\ Len(DefaultNames) <= N
        /\ InitCall("jetson", Len(DefaultNames), RailsKept(DefaultNames), FALSE)
  /\ UNCHANGED board

(* A rail is missing, found twice or cannot be opened on the walk: init     *)
(* closes the others.                                                      *)
JetsonWalkFails == OpenFails("jetson", "release") /\ UNCHANGED board

(* em->state is set, then get_polling_delay_us may fail.                   *)
JetsonOpen ==
  /\ Opened("jetson", {}, "creating") \/ Opened("jetson", {}, "stop")
  /\ UNCHANGED board

(* A failed pthread_create leaves poll_sensors set for finish.             *)
JetsonCreate ==
  /\ CreateThread("jetson") \/ CreateFails("jetson", TRUE, "stop")
  /\ UNCHANGED board

JetsonRead == impl = "jetson" /\ ReadTotal /\ UNCHANGED board

JetsonFinish ==
  /\ impl = "jetson" /\ (FinishCall \/ StopThread)
  /\ UNCHANGED board

(* close_fds on each array, up to count, and the end of a failed init.     *)
JetsonRelease == impl = "jetson" /\ Release(1..count, FALSE) /\ UNCHANGED board

JetsonPoll ==
  /\ impl = "jetson"
  /\ \/ ThreadStart("sleep") \/ StartPass \/ LeaveLoop
     \/ ReadSensor(TRUE) \/ Account \/ ActOnCancel({"sleep", "read"})
  /\ UNCHANGED board
=============================================================================
