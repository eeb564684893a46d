------------------------ MODULE WattsUpMonitorProofs ------------------------
(***************************************************************************)
(* The safety of WattsUpMonitor for every driver, range of powers, number  *)
(* of retries and length of a session.                                     *)
(***************************************************************************)
EXTENDS Integers, WattsUpMonitor, TLAPS

(* What there is of *state and of the thread at each point of a call.      *)
CallShape ==
  /\ pc \in {"connect", "flush", "create"} => ~allocated
  /\ pc \notin {"idle", "connect", "flush", "create"} => allocated
  /\ allocated /\ pc \notin {"logStop", "disconnect"} => tpc # "none"
  /\ ~allocated \/ pc \in {"logStop", "disconnect"} => tpc = "none"
  /\ pc \in {"rLock", "rElapsed", "rAdd", "rUnlock"} => estimates
  /\ ~allocated => total_uj = 0 /\ reading = 0
  /\ pc \in {"flush", "connect", "create"} => adds = 0 /\ ~sampled /\ ~early

(* Who is where in its critical section has the lock.                      *)
LockShape ==
  /\ lock = "reader" <=> pc \in {"rElapsed", "rAdd", "rUnlock"}
  /\ lock = "thread" <=> estimates /\ tpc \in {"elapsed", "add", "unlock"}

(* Cancellation is disabled from the end of a sleep to the next.           *)
CancelShape ==
  /\ ioBusy <=> tpc = "io"
  /\ tpc \in {"io", "parsed", "lock", "elapsed", "add", "unlock"} => ~cancelEnabled
  /\ tpc = "packetSleep" => retries < PacketRetries

(* What each driver holds, and what it owes to the kernel's own.           *)
DriverShape ==
  /\ driver = "dev" => bound /\ kernel /\ held \in {{}, {"file"}} /\ ~reattach_kernel
  /\ driver = "libftdi" =>
       /\ held \in {{}, {"context"}, {"context", "handle"}}
       /\ bound /\ (kernel <=> "handle" \notin held) /\ ~reattach_kernel
  /\ driver = "libusb" =>
       /\ held \in {{}, {"context"}, {"context", "handle"},
                    {"context", "handle", "interface"}}
       /\ IF reattach_kernel THEN bound /\ ~kernel /\ "handle" \in held
                             ELSE kernel <=> bound

(* It is connected in a session, and holds nothing out of one.             *)
LinkShape ==
  /\ DriverShape
  /\ allocated \/ pc \in {"flush", "create"} => Connected
  /\ pc = "idle" /\ ~allocated => held = {}

(* The time a thread in its critical section has taken and not yet added.  *)
Pending == IF pc = "rAdd" \/ tpc = "add" THEN exec_us ELSE 0
Started == tpc \notin {"start", "store"}

(* All the time since the start is either in the total or pending.         *)
Accounts ==
  /\ first <= last_us
  /\ total_uj * Scale + Hi * Pending <= Hi * (last_us - first)
  /\ sampled => /\ since <= last_us /\ Lo <= deciwatts
                /\ Lo * (last_us - since) <=
                     total_uj * Scale + (Scale - 1) * adds + Lo * Pending

TimeShape ==
  /\ ~Started => ~sampled
  /\ allocated /\ ~early =>
       IF Started THEN Accounts ELSE total_uj = 0 /\ adds = 0 /\ pc # "rAdd"

IInv == TypeOK /\ CallShape /\ LockShape /\ CancelShape /\ LinkShape /\ TimeShape
-----------------------------------------------------------------------------
(* What a division with remainder bounds.                                  *)
LEMMA DivisionBounds ==
  ASSUME NEW x \in Nat, NEW d \in Nat \ {0}
  PROVE  /\ x \div d \in Nat
         /\ (x \div d) * d <= x
         /\ x <= (x \div d) * d + (d - 1)
  OBVIOUS

LEMMA AddedEnergyIsNat ==
  ASSUME TypeOK PROVE (deciwatts * exec_us) \div Scale \in Nat
  <1>1. deciwatts * exec_us \in Nat
    BY WattsUpAssumption DEF TypeOK
  <1>2. QED BY <1>1, WattsUpAssumption, DivisionBounds

LEMMA DriverTypeStep ==
  ASSUME DriverTypeOK, ConnectStep \/ Destroy PROVE DriverTypeOK'
  BY DEF DriverTypeOK, ConnectStep, Destroy, OpenFile, NewContext, FtdiOpen, UsbOpen,
         UsbDetachKernel, UsbClaim, Get, Resources, Drivers

(* A step keeps the type of every variable.                                *)
LEMMA TypeCorrectStep == TypeOK /\ CancelShape /\ [Next]_vars => TypeOK'
  <1> SUFFICES ASSUME TypeOK, CancelShape, [Next]_vars PROVE TypeOK'
    OBVIOUS
  <1> USE WattsUpAssumption DEF TypeOK, AppPc, ThreadPc, conf, app, meter, account, thread, sample
  <1>1. CASE InitCall
    <2>1. sampled' \in BOOLEAN /\ early' \in BOOLEAN
      BY <1>1 DEF InitCall
    <2>2. QED BY <1>1, <2>1 DEF InitCall, link, DriverTypeOK
  <1>2. CASE Connect
    BY <1>2, DriverTypeStep DEF Connect
  <1>3. CASE InitWrites
    BY <1>3 DEF InitWrites, link, DriverTypeOK
  <1>4. CASE ConnectFails
    BY <1>4, DriverTypeStep DEF ConnectFails, InitFails
  <1>5. CASE FlushRead
    <2>1. DriverTypeOK'
      BY <1>5, DriverTypeStep DEF FlushRead, InitFails, link, DriverTypeOK
    <2>2. QED BY <1>5, <2>1 DEF FlushRead, InitFails
  <1>6. CASE CreateThread
    <2>1. /\ poll' \in BOOLEAN /\ cancelEnabled' \in BOOLEAN
          /\ cancelled' \in BOOLEAN /\ allocated' \in BOOLEAN
      BY <1>6 DEF CreateThread
    <2>2. DriverTypeOK'
      BY <1>6, DriverTypeStep DEF CreateThread, InitFails, link, DriverTypeOK
    <2>3. pc' \in AppPc /\ tpc' \in ThreadPc /\ reading' \in Nat
      BY <1>6 DEF CreateThread, InitFails
    <2>4. QED BY <1>6, <2>1, <2>2, <2>3 DEF CreateThread
  <1>7. CASE ReadCall
    BY <1>7 DEF ReadCall, link, DriverTypeOK
  <1>8. CASE ReadLock
    BY <1>8 DEF ReadLock, link, DriverTypeOK
  <1>9. CASE ReadElapsed
    BY <1>9 DEF ReadElapsed, Elapsed, link, DriverTypeOK
  <1>10. CASE ReadAdd
    BY <1>10, AddedEnergyIsNat DEF ReadAdd, AddEnergy, link, DriverTypeOK
  <1>11. CASE ReadUnlock
    BY <1>11 DEF ReadUnlock, link, DriverTypeOK
  <1>12. CASE ReadReturn
    BY <1>12 DEF ReadReturn, link, DriverTypeOK
  <1>13. CASE FinishCall
    BY <1>13 DEF FinishCall, link, DriverTypeOK
  <1>14. CASE StopPolling
    <2>1. poll' \in BOOLEAN
      BY <1>14 DEF StopPolling
    <2>2. QED BY <1>14, <2>1 DEF StopPolling, link, DriverTypeOK
  <1>15. CASE CancelThread
    BY <1>15 DEF CancelThread, link, DriverTypeOK
  <1>16. CASE JoinThread
    BY <1>16 DEF JoinThread, link, DriverTypeOK
  <1>17. CASE StopLogging
    BY <1>17 DEF StopLogging, link, DriverTypeOK
  <1>18. CASE Disconnect
    <2>1. allocated' \in BOOLEAN
      BY <1>18 DEF Disconnect
    <2>2. QED BY <1>18, <2>1, DriverTypeStep DEF Disconnect
  <1>19. CASE ThreadStart
    BY <1>19 DEF ThreadStart, link, DriverTypeOK
  <1>20. CASE ThreadStore
    BY <1>20 DEF ThreadStore, GoToSleep, link, DriverTypeOK
  <1>21. CASE EndSleep
    <2>1. cancelEnabled' \in BOOLEAN /\ ioBusy' \in BOOLEAN
      BY <1>21 DEF EndSleep, CancelAfterSleep
    <2>2. QED BY <1>21, <2>1 DEF EndSleep, link, DriverTypeOK
  <1>22. CASE EndPacketSleep
    <2>1. cancelEnabled' \in BOOLEAN /\ ioBusy' \in BOOLEAN
      BY <1>22 DEF EndPacketSleep, CancelAfterSleep
    <2>2. retries' \in 0..PacketRetries
      BY <1>22 DEF EndPacketSleep, CancelShape
    <2>3. QED BY <1>22, <2>1, <2>2 DEF EndPacketSleep, link, DriverTypeOK
  <1>23. CASE EndTransfer
    <2>1. cancelEnabled' \in BOOLEAN /\ ioBusy' \in BOOLEAN
      BY <1>23 DEF EndTransfer
    <2>2. tpc' \in ThreadPc
      BY <1>23 DEF EndTransfer
    <2>3. QED BY <1>23, <2>1, <2>2 DEF EndTransfer, link, DriverTypeOK
  <1>24. CASE Parse
    BY <1>24 DEF Parse, link, DriverTypeOK
  <1>25. CASE ThreadLock
    BY <1>25 DEF ThreadLock, link, DriverTypeOK
  <1>26. CASE ThreadElapsed
    BY <1>26 DEF ThreadElapsed, Elapsed, link, DriverTypeOK
  <1>27. CASE ThreadAdd
    BY <1>27, AddedEnergyIsNat DEF ThreadAdd, AddEnergy, link, DriverTypeOK
  <1>28. CASE ThreadUnlock
    BY <1>28 DEF ThreadUnlock, GoToSleep, link, DriverTypeOK
  <1>29. CASE ActOnCancel
    BY <1>29 DEF ActOnCancel, link, DriverTypeOK
  <1>30. CASE Tick
    BY <1>30 DEF Tick, link, DriverTypeOK
  <1>31. CASE UNCHANGED vars
    BY <1>31 DEF vars, link, DriverTypeOK
  <1>32. QED
    BY <1>1, <1>2, <1>3, <1>4, <1>5, <1>6, <1>7, <1>8, <1>9, <1>10, <1>11, <1>12, <1>13, <1>14, <1>15, <1>16, <1>17, <1>18, <1>19, <1>20, <1>21, <1>22, <1>23, <1>24, <1>25, <1>26, <1>27, <1>28, <1>29, <1>30, <1>31
       DEF Next, Application, Finish, PollingThread

(* Each step leaves the state, the thread and the totals as the call needs. *)
LEMMA CallShapeStep == TypeOK /\ CallShape /\ [Next]_vars => CallShape'
  <1> SUFFICES ASSUME TypeOK, CallShape, [Next]_vars PROVE CallShape'
    OBVIOUS
  <1> USE DEF TypeOK, CallShape, AppPc, ThreadPc, conf, app, account, thread, sample
  <1>1. CASE InitCall
    BY <1>1 DEF InitCall
  <1>2. CASE Connect
    BY <1>2 DEF Connect
  <1>3. CASE InitWrites
    BY <1>3 DEF InitWrites
  <1>4. CASE ConnectFails
    BY <1>4 DEF ConnectFails, InitFails
  <1>5. CASE FlushRead
    BY <1>5 DEF FlushRead, InitFails
  <1>6. CASE CreateThread
    BY <1>6 DEF CreateThread, InitFails
  <1>7. CASE ReadCall
    BY <1>7 DEF ReadCall
  <1>8. CASE ReadLock
    BY <1>8 DEF ReadLock, LockFree
  <1>9. CASE ReadElapsed
    BY <1>9 DEF ReadElapsed
  <1>10. CASE ReadAdd
    BY <1>10 DEF ReadAdd
  <1>11. CASE ReadUnlock
    BY <1>11 DEF ReadUnlock
  <1>12. CASE ReadReturn
    BY <1>12 DEF ReadReturn
  <1>13. CASE FinishCall
    BY <1>13 DEF FinishCall
  <1>14. CASE StopPolling
    BY <1>14 DEF StopPolling
  <1>15. CASE CancelThread
    BY <1>15 DEF CancelThread
  <1>16. CASE JoinThread
    BY <1>16 DEF JoinThread, ThreadEnded
  <1>17. CASE StopLogging
    BY <1>17 DEF StopLogging
  <1>18. CASE Disconnect
    BY <1>18 DEF Disconnect
  <1>19. CASE ThreadStart
    BY <1>19 DEF ThreadStart
  <1>20. CASE ThreadStore
    BY <1>20 DEF ThreadStore, GoToSleep
  <1>21. CASE EndSleep
    BY <1>21 DEF EndSleep, CancelAfterSleep
  <1>22. CASE EndPacketSleep
    BY <1>22 DEF EndPacketSleep, CancelAfterSleep
  <1>23. CASE EndTransfer
    BY <1>23 DEF EndTransfer, MoreRetries
  <1>24. CASE Parse
    BY <1>24 DEF Parse
  <1>25. CASE ThreadLock
    BY <1>25 DEF ThreadLock, LockFree
  <1>26. CASE ThreadElapsed
    BY <1>26 DEF ThreadElapsed
  <1>27. CASE ThreadAdd
    BY <1>27 DEF ThreadAdd
  <1>28. CASE ThreadUnlock
    BY <1>28 DEF ThreadUnlock, GoToSleep
  <1>29. CASE ActOnCancel
    BY <1>29 DEF ActOnCancel
  <1>30. CASE Tick
    BY <1>30 DEF Tick
  <1>31. CASE UNCHANGED vars
    BY <1>31 DEF vars
  <1>32. QED
    BY <1>1, <1>2, <1>3, <1>4, <1>5, <1>6, <1>7, <1>8, <1>9, <1>10, <1>11, <1>12, <1>13, <1>14, <1>15, <1>16, <1>17, <1>18, <1>19, <1>20, <1>21, <1>22, <1>23, <1>24, <1>25, <1>26, <1>27, <1>28, <1>29, <1>30, <1>31
       DEF Next, Application, Finish, PollingThread

(* The lock is held exactly in the critical sections. *)
LEMMA LockShapeStep == TypeOK /\ CallShape /\ LockShape /\ [Next]_vars => LockShape'
  <1> SUFFICES ASSUME TypeOK, CallShape, LockShape, [Next]_vars PROVE LockShape'
    OBVIOUS
  <1> USE DEF TypeOK, CallShape, LockShape, AppPc, ThreadPc, conf, app, thread
  <1>1. CASE InitCall
    BY <1>1 DEF InitCall
  <1>2. CASE Connect
    BY <1>2 DEF Connect
  <1>3. CASE InitWrites
    BY <1>3 DEF InitWrites
  <1>4. CASE ConnectFails
    BY <1>4 DEF ConnectFails, InitFails
  <1>5. CASE FlushRead
    BY <1>5 DEF FlushRead, InitFails
  <1>6. CASE CreateThread
    BY <1>6 DEF CreateThread, InitFails
  <1>7. CASE ReadCall
    BY <1>7 DEF ReadCall
  <1>8. CASE ReadLock
    BY <1>8 DEF ReadLock, LockFree
  <1>9. CASE ReadElapsed
    BY <1>9 DEF ReadElapsed
  <1>10. CASE ReadAdd
    BY <1>10 DEF ReadAdd
  <1>11. CASE ReadUnlock
    BY <1>11 DEF ReadUnlock
  <1>12. CASE ReadReturn
    BY <1>12 DEF ReadReturn
  <1>13. CASE FinishCall
    BY <1>13 DEF FinishCall
  <1>14. CASE StopPolling
    BY <1>14 DEF StopPolling
  <1>15. CASE CancelThread
    BY <1>15 DEF CancelThread
  <1>16. CASE JoinThread
    BY <1>16 DEF JoinThread, ThreadEnded
  <1>17. CASE StopLogging
    BY <1>17 DEF StopLogging
  <1>18. CASE Disconnect
    BY <1>18 DEF Disconnect
  <1>19. CASE ThreadStart
    BY <1>19 DEF ThreadStart
  <1>20. CASE ThreadStore
    BY <1>20 DEF ThreadStore, GoToSleep
  <1>21. CASE EndSleep
    BY <1>21 DEF EndSleep, CancelAfterSleep
  <1>22. CASE EndPacketSleep
    BY <1>22 DEF EndPacketSleep, CancelAfterSleep
  <1>23. CASE EndTransfer
    BY <1>23 DEF EndTransfer, MoreRetries
  <1>24. CASE Parse
    BY <1>24 DEF Parse
  <1>25. CASE ThreadLock
    BY <1>25 DEF ThreadLock, LockFree
  <1>26. CASE ThreadElapsed
    BY <1>26 DEF ThreadElapsed
  <1>27. CASE ThreadAdd
    BY <1>27 DEF ThreadAdd
  <1>28. CASE ThreadUnlock
    BY <1>28 DEF ThreadUnlock, GoToSleep
  <1>29. CASE ActOnCancel
    BY <1>29 DEF ActOnCancel
  <1>30. CASE Tick
    BY <1>30 DEF Tick
  <1>31. CASE UNCHANGED vars
    BY <1>31 DEF vars
  <1>32. QED
    BY <1>1, <1>2, <1>3, <1>4, <1>5, <1>6, <1>7, <1>8, <1>9, <1>10, <1>11, <1>12, <1>13, <1>14, <1>15, <1>16, <1>17, <1>18, <1>19, <1>20, <1>21, <1>22, <1>23, <1>24, <1>25, <1>26, <1>27, <1>28, <1>29, <1>30, <1>31
       DEF Next, Application, Finish, PollingThread

(* Cancellation stays disabled outside the sleeps. *)
LEMMA CancelShapeStep == TypeOK /\ CallShape /\ CancelShape /\ [Next]_vars => CancelShape'
  <1> SUFFICES ASSUME TypeOK, CallShape, CancelShape, [Next]_vars PROVE CancelShape'
    OBVIOUS
  <1> USE DEF TypeOK, CallShape, CancelShape, AppPc, ThreadPc, app, meter, thread
  <1>1. CASE InitCall
    BY <1>1 DEF InitCall
  <1>2. CASE Connect
    BY <1>2 DEF Connect
  <1>3. CASE InitWrites
    BY <1>3 DEF InitWrites
  <1>4. CASE ConnectFails
    BY <1>4 DEF ConnectFails, InitFails
  <1>5. CASE FlushRead
    BY <1>5 DEF FlushRead, InitFails
  <1>6. CASE CreateThread
    BY <1>6 DEF CreateThread, InitFails
  <1>7. CASE ReadCall
    BY <1>7 DEF ReadCall
  <1>8. CASE ReadLock
    BY <1>8 DEF ReadLock, LockFree
  <1>9. CASE ReadElapsed
    BY <1>9 DEF ReadElapsed
  <1>10. CASE ReadAdd
    BY <1>10 DEF ReadAdd
  <1>11. CASE ReadUnlock
    BY <1>11 DEF ReadUnlock
  <1>12. CASE ReadReturn
    BY <1>12 DEF ReadReturn
  <1>13. CASE FinishCall
    BY <1>13 DEF FinishCall
  <1>14. CASE StopPolling
    BY <1>14 DEF StopPolling
  <1>15. CASE CancelThread
    BY <1>15 DEF CancelThread
  <1>16. CASE JoinThread
    BY <1>16 DEF JoinThread, ThreadEnded
  <1>17. CASE StopLogging
    BY <1>17 DEF StopLogging
  <1>18. CASE Disconnect
    BY <1>18 DEF Disconnect
  <1>19. CASE ThreadStart
    BY <1>19 DEF ThreadStart
  <1>20. CASE ThreadStore
    BY <1>20 DEF ThreadStore, GoToSleep
  <1>21. CASE EndSleep
    BY <1>21 DEF EndSleep, CancelAfterSleep
  <1>22. CASE EndPacketSleep
    BY <1>22 DEF EndPacketSleep, CancelAfterSleep
  <1>23. CASE EndTransfer
    BY <1>23 DEF EndTransfer, MoreRetries
  <1>24. CASE Parse
    BY <1>24 DEF Parse
  <1>25. CASE ThreadLock
    BY <1>25 DEF ThreadLock, LockFree
  <1>26. CASE ThreadElapsed
    BY <1>26 DEF ThreadElapsed
  <1>27. CASE ThreadAdd
    BY <1>27 DEF ThreadAdd
  <1>28. CASE ThreadUnlock
    BY <1>28 DEF ThreadUnlock, GoToSleep
  <1>29. CASE ActOnCancel
    BY <1>29 DEF ActOnCancel
  <1>30. CASE Tick
    BY <1>30 DEF Tick
  <1>31. CASE UNCHANGED vars
    BY <1>31 DEF vars
  <1>32. QED
    BY <1>1, <1>2, <1>3, <1>4, <1>5, <1>6, <1>7, <1>8, <1>9, <1>10, <1>11, <1>12, <1>13, <1>14, <1>15, <1>16, <1>17, <1>18, <1>19, <1>20, <1>21, <1>22, <1>23, <1>24, <1>25, <1>26, <1>27, <1>28, <1>29, <1>30, <1>31
       DEF Next, Application, Finish, PollingThread

(* What a driver is connected with.                                        *)
LEMMA ConnectedMeans ==
  ASSUME driver \in Drivers
  PROVE  /\ driver = "dev" => (Connected <=> held = {"file"})
         /\ driver = "libftdi" => (Connected <=> held = {"context", "handle"})
         /\ driver = "libusb" => (Connected <=> held = {"context", "handle", "interface"})
  BY Zenon DEF Connected, Drivers

(* Connecting and disconnecting.                                           *)
LEMMA ConnectKeepsShape ==
  ASSUME DriverTypeOK, DriverShape, ConnectStep PROVE DriverShape'
  BY DEF DriverTypeOK, DriverShape, ConnectStep, OpenFile, NewContext, FtdiOpen, UsbOpen,
         UsbDetachKernel, UsbClaim, Get, Drivers

(* Whatever was got so far is given back, the kernel's driver included.    *)
LEMMA DestroyGivesAllBack ==
  ASSUME DriverTypeOK, DriverShape, Destroy
  PROVE  DriverShape' /\ held' = {} /\ (kernel' <=> bound')
  <1> USE DEF DriverTypeOK, DriverShape, Drivers
  <1>1. held' = {} /\ ~reattach_kernel' /\ UNCHANGED <<driver, bound>>
    BY DEF Destroy
  <1>2. CASE driver = "dev"
    <2>1. kernel' = kernel
      BY <1>2, Zenon DEF Destroy
    <2>2. QED BY <1>1, <1>2, <2>1
  <1>3. CASE driver = "libftdi"
    <2>1. kernel' = (kernel \/ ("handle" \in held /\ bound))
      BY <1>3, Zenon DEF Destroy
    <2>2. kernel' <=> TRUE
      BY <1>3, <2>1
    <2>3. QED BY <1>1, <1>3, <2>2
  <1>4. CASE driver = "libusb"
    <2>1. kernel' = (kernel \/ (reattach_kernel /\ "interface" \notin HeldAtReattach))
      BY <1>4, Zenon DEF Destroy
    <2>2. kernel' <=> bound
      BY <1>4, <2>1 DEF HeldAtReattach
    <2>3. QED BY <1>1, <1>4, <2>2
  <1>5. QED BY <1>2, <1>3, <1>4

(* A step that does not touch the driver leaves it connected or not.       *)
LEMMA LinkStutters ==
  ASSUME UNCHANGED link PROVE (DriverShape' <=> DriverShape) /\ (Connected' <=> Connected)
  <1>1. Connected' <=> Connected
    BY Zenon DEF link, Connected
  <1>2. QED BY <1>1 DEF link, DriverShape

(* The driver is connected in every session, and whatever fails before one *)
(* starts has it give back what it got.                                    *)
LEMMA LinkShapeStep == TypeOK /\ CallShape /\ LinkShape /\ [Next]_vars => LinkShape'
  <1> SUFFICES ASSUME TypeOK, CallShape, LinkShape, [Next]_vars PROVE LinkShape'
    OBVIOUS
  <1> USE DEF LinkShape, app
  <1>1. DriverTypeOK
    BY DEF TypeOK
  <1>2. CASE Connect
    BY <1>1, <1>2, ConnectKeepsShape DEF Connect, CallShape
  <1>3. CASE InitWrites
    BY <1>3, LinkStutters DEF InitWrites, meter
  <1>4. CASE ConnectFails
    BY <1>1, <1>4, DestroyGivesAllBack DEF ConnectFails, InitFails, CallShape
  <1>5. CASE FlushRead
    <2>1. CASE Destroy /\ pc' = "idle"
      BY <1>1, <1>5, <2>1, DestroyGivesAllBack DEF FlushRead, CallShape
    <2>2. CASE UNCHANGED link /\ pc' \in {"flush", "create"}
      BY <1>5, <2>2, LinkStutters DEF FlushRead
    <2>3. QED BY <1>5, <2>1, <2>2 DEF FlushRead, InitFails
  <1>6. CASE CreateThread
    <2>1. CASE Destroy /\ pc' = "idle" /\ allocated' = allocated
      BY <1>1, <1>6, <2>1, DestroyGivesAllBack DEF CreateThread, CallShape
    <2>2. CASE UNCHANGED link /\ pc' = "idle" /\ allocated'
      BY <1>6, <2>2, LinkStutters DEF CreateThread
    <2>3. QED BY <1>6, <2>1, <2>2 DEF CreateThread, InitFails
  <1>7. CASE Disconnect
    BY <1>1, <1>7, DestroyGivesAllBack DEF Disconnect
  <1>8. CASE InitCall \/ ReadCall \/ ReadLock \/ ReadElapsed \/ ReadAdd \/ ReadUnlock \/ ReadReturn
    BY <1>8, LinkStutters
       DEF InitCall, ReadCall, ReadLock, ReadElapsed, ReadAdd, ReadUnlock, ReadReturn, meter, CallShape
  <1>9. CASE FinishCall \/ StopPolling \/ CancelThread \/ JoinThread \/ StopLogging
    BY <1>9, LinkStutters
       DEF FinishCall, StopPolling, CancelThread, JoinThread, StopLogging, meter, CallShape
  <1>10. CASE PollingThread \/ Tick \/ UNCHANGED vars
    <2>1. UNCHANGED <<link, app>>
      BY <1>10 DEF PollingThread, Tick, vars, meter, ThreadStart, ThreadStore, EndSleep,
                   EndPacketSleep, EndTransfer, Parse, ThreadLock, ThreadElapsed, ThreadAdd,
                   ThreadUnlock, ActOnCancel
    <2>2. QED BY <2>1, LinkStutters DEF link
  <1>11. QED
    BY <1>2, <1>3, <1>4, <1>5, <1>6, <1>7, <1>8, <1>9, <1>10 DEF Next, Application, Finish

-----------------------------------------------------------------------------
(* The accounts of energy and time.                                        *)

LEMMA ProductIsNat == \A a, b \in Nat : a * b \in Nat
  OBVIOUS

LEMMA MulMonotone ==
  ASSUME NEW a \in Nat, NEW b \in Nat, NEW e \in Nat, a <= b
  PROVE  a * e <= b * e
  <1>1. PICK d \in Nat : b = a + d
    <2>1. b - a \in Nat /\ b = a + (b - a)
      OBVIOUS
    <2>2. QED BY <2>1
  <1>2. b * e = a * e + d * e
    BY <1>1
  <1>3. d * e \in Nat /\ a * e \in Nat
    OBVIOUS
  <1>4. QED BY <1>2, <1>3

(* A stretch of time is cut in two at the moment in the middle.            *)
LEMMA CutInTwo ==
  ASSUME NEW p \in Nat, NEW from \in Nat, NEW mid \in Nat, NEW to \in Nat,
         from <= mid, mid <= to
  PROVE  /\ p * (to - from) = p * (mid - from) + p * (to - mid)
         /\ p * (mid - from) \in Nat /\ p * (to - mid) \in Nat
  <1>1. PICK d \in Nat : mid = from + d
    <2>1. mid - from \in Nat /\ mid = from + (mid - from)
      OBVIOUS
    <2>2. QED BY <2>1
  <1>2. PICK e \in Nat : to = mid + e
    <2>1. to - mid \in Nat /\ to = mid + (to - mid)
      OBVIOUS
    <2>2. QED BY <2>1
  <1>3. to - from = d + e /\ mid - from = d /\ to - mid = e
    BY <1>1, <1>2
  <1>4. p * (d + e) = p * d + p * e /\ p * d \in Nat /\ p * e \in Nat
    OBVIOUS
  <1>5. QED BY <1>3, <1>4

(* Taking the time moves last_us, and makes what it passes pending.        *)
LEMMA ElapsedKeepsAccounts ==
  ASSUME TypeOK, Accounts, Elapsed, Pending = 0, Pending' = exec_us',
         UNCHANGED <<total_uj, adds, first, sampled, since, deciwatts>>
  PROVE  Accounts'
  <1> USE WattsUpAssumption DEF TypeOK, Accounts, Elapsed
  <1>1. last_us <= now /\ last_us \in Nat /\ now \in Nat /\ first \in Nat /\ since \in Nat
    OBVIOUS
  <1>2. total_uj * Scale \in Nat /\ (Scale - 1) * adds \in Nat /\ Hi * 0 = 0 /\ Lo * 0 = 0
    OBVIOUS
  <1>3. first <= last_us'
    BY <1>1
  <1>4. total_uj' * Scale + Hi * Pending' <= Hi * (last_us' - first')
    <2>1. Hi * (now - first) = Hi * (last_us - first) + Hi * (now - last_us)
          /\ Hi * (last_us - first) \in Nat /\ Hi * (now - last_us) \in Nat
      BY <1>1, CutInTwo
    <2>2. total_uj * Scale <= Hi * (last_us - first)
      BY <1>2, <2>1
    <2>3. QED BY <1>2, <2>1, <2>2
  <1>5. sampled => /\ since <= last_us'
                   /\ Lo * (last_us' - since) <=
                        total_uj * Scale + (Scale - 1) * adds + Lo * Pending'
    <2>1. SUFFICES ASSUME sampled
                   PROVE  /\ since <= now
                          /\ Lo * (now - since) <=
                               total_uj * Scale + (Scale - 1) * adds + Lo * (now - last_us)
      OBVIOUS
    <2>2. since <= now
      BY <1>1, <2>1
    <2>3. Lo * (now - since) = Lo * (last_us - since) + Lo * (now - last_us)
          /\ Lo * (last_us - since) \in Nat /\ Lo * (now - last_us) \in Nat
      BY <1>1, <2>1, CutInTwo
    <2>4. Lo * (last_us - since) <= total_uj * Scale + (Scale - 1) * adds
      BY <1>2, <2>1, <2>3
    <2>5. QED BY <1>2, <2>2, <2>3, <2>4
  <1>6. QED BY <1>3, <1>4, <1>5

(* An addition settles what is pending but for the remainder it drops.     *)
LEMMA AddKeepsAccounts ==
  ASSUME TypeOK, Accounts, AddEnergy, Pending = exec_us, Pending' = 0,
         UNCHANGED <<last_us, first, sampled, since, deciwatts>>
  PROVE  Accounts'
  <1> DEFINE product == deciwatts * exec_us
             added == product \div Scale
  <1> USE WattsUpAssumption DEF TypeOK
  <1>1. product \in Nat /\ deciwatts \in Nat /\ exec_us \in Nat /\ total_uj \in Nat
    OBVIOUS
  <1>2. added \in Nat /\ added * Scale <= product /\ product <= added * Scale + (Scale - 1)
    BY <1>1, DivisionBounds
  <1> HIDE DEF added
  <1>3. total_uj' = total_uj + added
    BY DEF AddEnergy, added
  <1>4. total_uj' * Scale = total_uj * Scale + added * Scale
        /\ total_uj * Scale \in Nat /\ added * Scale \in Nat
    BY <1>1, <1>2, <1>3
  <1>5. product <= Hi * exec_us /\ Hi * exec_us \in Nat
    <2>1. deciwatts <= Hi /\ Hi \in Nat
      OBVIOUS
    <2>2. QED BY <1>1, <2>1, MulMonotone
  <1>6. Lo * 0 = 0 /\ Hi * 0 = 0
    OBVIOUS
  <1>7. total_uj' * Scale + Hi * Pending' <= Hi * (last_us' - first')
    <2>1. total_uj * Scale + Hi * exec_us <= Hi * (last_us - first)
      BY DEF Accounts
    <2>2. total_uj * Scale + added * Scale <= total_uj * Scale + Hi * exec_us
      BY <1>2, <1>4, <1>5, <1>1
    <2>3. last_us - first \in Int /\ Hi * (last_us - first) \in Int
      OBVIOUS
    <2>4. QED BY <1>4, <1>5, <1>6, <2>1, <2>2, <2>3
  <1>8. ASSUME sampled
        PROVE  Lo * (last_us - since) <= total_uj' * Scale + (Scale - 1) * adds'
    <2>1. Lo * exec_us <= product /\ Lo * exec_us \in Nat
      <3>1. Lo <= deciwatts /\ Lo \in Nat
        BY <1>8 DEF Accounts
      <3>2. QED BY <1>1, <3>1, MulMonotone
    <2>2. Lo * (last_us - since) <= total_uj * Scale + (Scale - 1) * adds + Lo * exec_us
      BY <1>8 DEF Accounts
    <2>3. Lo * (last_us - since) \in Int /\ (Scale - 1) * adds \in Nat /\ Scale - 1 \in Nat
      OBVIOUS
    <2>4. CASE exec_us = 0
      <3>1. adds' = adds /\ Lo * exec_us = 0
        BY <2>4 DEF AddEnergy
      <3>2. QED BY <1>4, <2>2, <2>3, <3>1
    <2>5. CASE exec_us > 0
      <3>1. adds' = adds + 1
        BY <2>5 DEF AddEnergy
      <3>2. (Scale - 1) * adds' = (Scale - 1) * adds + (Scale - 1)
        BY <3>1, <2>3
      <3>3. Lo * exec_us <= added * Scale + (Scale - 1)
        BY <1>1, <1>2, <1>4, <2>1
      <3>4. QED BY <1>4, <2>1, <2>2, <2>3, <3>2, <3>3
    <2>6. QED BY <1>1, <2>4, <2>5
  <1>9. ASSUME sampled
        PROVE  Lo * (last_us - since) <=
                 total_uj' * Scale + (Scale - 1) * adds' + Lo * Pending'
    <2>1. adds' \in Nat /\ total_uj' \in Nat /\ Scale - 1 \in Nat /\ Scale \in Nat
      BY <1>1, <1>2, <1>3 DEF AddEnergy
    <2>2. (Scale - 1) * adds' \in Nat /\ total_uj' * Scale \in Nat
      BY <2>1, ProductIsNat
    <2>3. QED BY <1>6, <1>8, <1>9, <2>2
  <1>10. first <= last_us /\ (sampled => since <= last_us /\ Lo <= deciwatts)
    BY DEF Accounts
  <1> HIDE DEF product
  <1>11. QED BY <1>7, <1>9, <1>10 DEF Accounts

LEMMA AccountsStutter ==
  ASSUME Accounts, Pending' = Pending, UNCHANGED <<account, first, sample>> PROVE Accounts'
  BY DEF Accounts, account, sample

(* The lock keeps the two critical sections apart.                         *)
LEMMA OneAtATime ==
  ASSUME CallShape, LockShape
  PROVE  pc \in {"rElapsed", "rAdd", "rUnlock"} => tpc \notin {"elapsed", "add", "unlock"}
  BY DEF CallShape, LockShape

(* The accounts stay in order at every step of either thread.              *)
LEMMA TimeShapeStep ==
  TypeOK /\ CallShape /\ LockShape /\ TimeShape /\ [Next]_vars => TimeShape'
  <1> SUFFICES ASSUME TypeOK, CallShape, LockShape, TimeShape, [Next]_vars PROVE TimeShape'
    OBVIOUS
  <1> USE DEF TimeShape, Started
  <1>1. CASE InitCall \/ Connect \/ InitWrites \/ ConnectFails \/ FlushRead
    <2>1. ~allocated' /\ tpc' = "none"
      BY <1>1 DEF InitCall, Connect, InitWrites, ConnectFails, FlushRead, CallShape, thread, app
    <2>2. QED BY <2>1
  <1>2. CASE CreateThread
    <2>1. /\ UNCHANGED <<total_uj, adds, sampled>> /\ pc' = "idle"
          /\ total_uj = 0 /\ adds = 0 /\ ~sampled
      BY <1>2 DEF CreateThread, InitFails, CallShape, account, sample
    <2>2. tpc' = "start" \/ ~allocated'
      BY <1>2 DEF CreateThread, CallShape
    <2>3. QED BY <2>1, <2>2
  <1>3. CASE ReadElapsed
    <2>1. /\ UNCHANGED <<allocated, tpc, total_uj, adds, first, sampled, since, deciwatts>>
          /\ pc = "rElapsed" /\ pc' = "rAdd" /\ Elapsed
          /\ ~early' => ~early /\ Started
      BY <1>3 DEF ReadElapsed, thread, sample
    <2>2. Pending = 0 /\ Pending' = exec_us'
      BY <2>1, OneAtATime DEF Pending
    <2>3. QED BY <2>1, <2>2, ElapsedKeepsAccounts
  <1>4. CASE ReadAdd
    <2>1. /\ UNCHANGED <<allocated, early, tpc, last_us, first, sampled, since, deciwatts>>
          /\ pc = "rAdd" /\ pc' = "rUnlock" /\ AddEnergy
      BY <1>4 DEF ReadAdd, thread, sample
    <2>2. Pending = exec_us /\ Pending' = 0
      BY <2>1, OneAtATime DEF Pending
    <2>3. QED BY <2>1, <2>2, AddKeepsAccounts
  <1>5. CASE Disconnect
    <2>1. ~allocated' /\ tpc' = "none"
      BY <1>5 DEF Disconnect, CallShape, thread
    <2>2. QED BY <2>1
  <1>6. CASE JoinThread
    <2>1. /\ UNCHANGED <<account, first, sample, early, allocated>>
          /\ tpc = "exited" /\ tpc' = "none" /\ pc = "join" /\ pc' = "logStop"
      BY <1>6 DEF JoinThread, ThreadEnded
    <2>2. Pending' = Pending
      BY <2>1 DEF Pending
    <2>3. QED BY <2>1, <2>2, AccountsStutter
  <1>7. CASE ReadCall \/ ReadLock \/ ReadUnlock \/ ReadReturn \/ FinishCall \/ StopPolling
               \/ CancelThread \/ StopLogging
    <2>1. /\ UNCHANGED <<account, first, sample, early, allocated, tpc>>
          /\ pc # "rAdd" /\ pc' # "rAdd"
      BY <1>7 DEF ReadCall, ReadLock, ReadUnlock, ReadReturn, FinishCall, StopPolling,
                  CancelThread, StopLogging, thread
    <2>2. Pending' = Pending
      BY <2>1 DEF Pending, account
    <2>3. QED BY <2>1, <2>2, AccountsStutter DEF account, sample
  <1>8. CASE ThreadStart
    BY <1>8 DEF ThreadStart, account, app
  <1>9. CASE ThreadStore
    <2>1. /\ UNCHANGED <<allocated, pc, early, total_uj, adds, sampled, first>>
          /\ last_us' = first /\ tpc = "store" /\ tpc' \in {"sleep", "exited"}
      BY <1>9 DEF ThreadStore, GoToSleep, app, sample
    <2>2. ~sampled'
      BY <2>1
    <2>3. ASSUME allocated', ~early' PROVE Accounts'
      <3>1. total_uj' = 0 /\ Pending' = 0 /\ last_us' = first' /\ first' \in Nat
        BY <2>1, <2>3 DEF Pending, TypeOK
      <3>2. Scale \in Nat /\ Hi \in Nat
        BY WattsUpAssumption
      <3>3. 0 * Scale = 0 /\ Hi * 0 = 0
        BY <3>2
      <3>4. first' - first' = 0
        <4>1. \A t \in Nat : t - t = 0
          OBVIOUS
        <4>2. QED BY <3>1, <4>1, Zenon
      <3>5. QED BY <2>2, <3>1, <3>3, <3>4 DEF Accounts
    <2>4. QED BY <2>1, <2>3
  <1>10. CASE Parse
    <2>1. /\ UNCHANGED <<allocated, pc, early, account, first>>
          /\ tpc = "parsed" /\ tpc' = "lock" /\ deciwatts' \in Lo..Hi
          /\ since' = IF sampled THEN since ELSE last_us
      BY <1>10 DEF Parse, app, thread
    <2>2. Pending' = Pending /\ Pending \in Nat
      BY <2>1 DEF Pending, account, TypeOK
    <2>3. ASSUME Accounts PROVE Accounts'
      <3>1. /\ first' <= last_us' /\ Lo <= deciwatts'
            /\ total_uj' * Scale + Hi * Pending' <= Hi * (last_us' - first')
        BY <2>1, <2>2, <2>3, WattsUpAssumption DEF Accounts, account
      <3>2. CASE sampled
        BY <2>1, <2>2, <2>3, <3>1, <3>2 DEF Accounts, account
      <3>3. CASE ~sampled
        <4>1. since' = last_us /\ UNCHANGED <<last_us, total_uj, adds>>
          BY <2>1, <3>3 DEF account
        <4>2. last_us - last_us = 0 /\ Lo * 0 = 0 /\ last_us <= last_us
          BY WattsUpAssumption DEF TypeOK
        <4>3. total_uj * Scale \in Nat /\ (Scale - 1) * adds \in Nat /\ Lo * Pending \in Nat
          <5>1. Scale \in Nat /\ Scale - 1 \in Nat /\ Lo \in Nat /\ adds \in Nat /\ total_uj \in Nat
            BY WattsUpAssumption DEF TypeOK
          <5>2. QED BY <2>2, <5>1, ProductIsNat
        <4>4. 0 <= total_uj * Scale + (Scale - 1) * adds + Lo * Pending
          BY <4>3
        <4>5. QED BY <2>2, <3>1, <4>1, <4>2, <4>4 DEF Accounts
      <3>4. QED BY <3>2, <3>3
    <2>4. QED BY <2>1, <2>3
  <1>11. CASE ThreadElapsed
    <2>1. /\ UNCHANGED <<allocated, early, pc, total_uj, adds, first, sampled, since, deciwatts>>
          /\ tpc = "elapsed" /\ tpc' = "add" /\ Elapsed
      BY <1>11 DEF ThreadElapsed, app, sample
    <2>2. Pending = 0 /\ Pending' = exec_us'
      BY <2>1, OneAtATime DEF Pending
    <2>3. QED BY <2>1, <2>2, ElapsedKeepsAccounts
  <1>12. CASE ThreadAdd
    <2>1. /\ UNCHANGED <<allocated, early, pc, last_us, first, sampled, since, deciwatts>>
          /\ tpc = "add" /\ tpc' = "unlock" /\ AddEnergy
      BY <1>12 DEF ThreadAdd, app, sample
    <2>2. Pending = exec_us /\ Pending' = 0
      BY <2>1, OneAtATime DEF Pending
    <2>3. QED BY <2>1, <2>2, AddKeepsAccounts
  <1>13. CASE EndSleep \/ EndPacketSleep \/ EndTransfer \/ ThreadLock \/ ThreadUnlock
                \/ ActOnCancel
    <2>1. /\ UNCHANGED <<account, first, sample, early, allocated, pc>>
          /\ tpc \notin {"start", "store", "add"} /\ tpc' \notin {"start", "store", "add"}
      BY <1>13 DEF EndSleep, EndPacketSleep, EndTransfer, ThreadLock, ThreadUnlock, GoToSleep,
                   ActOnCancel, app
    <2>2. Pending' = Pending
      BY <2>1 DEF Pending, account
    <2>3. QED BY <2>1, <2>2, AccountsStutter
  <1>14. CASE Tick \/ UNCHANGED vars
    <2>1. UNCHANGED <<account, first, sample, early, allocated, pc, tpc>>
      BY <1>14 DEF Tick, vars, app, thread
    <2>2. Pending' = Pending
      BY <2>1 DEF Pending, account
    <2>3. QED BY <2>1, <2>2, AccountsStutter DEF account, sample
  <1>15. QED
    BY <1>1, <1>2, <1>3, <1>4, <1>5, <1>6, <1>7, <1>8, <1>9, <1>10, <1>11, <1>12, <1>13, <1>14
       DEF Next, Application, Finish, PollingThread

-----------------------------------------------------------------------------
LEMMA InitEstablishes == Init => IInv
  <1> SUFFICES ASSUME Init PROVE IInv
    OBVIOUS
  <1> USE WattsUpAssumption DEF Init
  <1>1. TypeOK
    <2>1. DriverTypeOK
      BY Zenon DEF DriverInit, DriverTypeOK, Drivers
    <2>2. /\ allocated \in BOOLEAN /\ ioBusy \in BOOLEAN /\ poll \in BOOLEAN
          /\ cancelEnabled \in BOOLEAN /\ cancelled \in BOOLEAN
          /\ sampled \in BOOLEAN /\ early \in BOOLEAN
      BY Zenon
    <2>3. now \in 1..MaxTime
      OBVIOUS
    <2>4. pc \in AppPc /\ tpc \in ThreadPc /\ lock \in {"free", "reader", "thread"}
      BY DEF AppPc, ThreadPc
    <2>5. /\ tries \in 0..FlushRetries /\ retries \in 0..PacketRetries
          /\ last_us \in 0..now /\ first \in 0..now /\ since \in 0..now
          /\ deciwatts \in 0..Hi
      OBVIOUS
    <2>6. reading \in Nat /\ exec_us \in Nat /\ total_uj \in Nat /\ adds \in Nat
      OBVIOUS
    <2>7. hasCancel \in BOOLEAN /\ estimates \in BOOLEAN
      OBVIOUS
    <2>8. QED BY <2>1, <2>2, <2>3, <2>4, <2>5, <2>6, <2>7, Zenon DEF TypeOK
  <1>2. CallShape /\ LockShape /\ CancelShape
    BY DEF CallShape, LockShape, CancelShape
  <1>3. LinkShape
    BY DEF LinkShape, DriverShape, DriverInit
  <1>4. TimeShape
    BY DEF TimeShape, Started
  <1>5. QED BY <1>1, <1>2, <1>3, <1>4 DEF IInv

LEMMA StepPreserves == IInv /\ [Next]_vars => IInv'
  BY TypeCorrectStep, CallShapeStep, LockShapeStep, CancelShapeStep, LinkShapeStep,
     TimeShapeStep DEF IInv

(* The inductive invariant holds in every state of every behaviour.        *)
THEOREM Invariance == Spec => []IInv
  BY InitEstablishes, StepPreserves, PTL DEF Spec

(* Every variable keeps its type.                                          *)
THEOREM TypeCorrect == Spec => []TypeOK
  <1>1. IInv => TypeOK
    BY DEF IInv
  <1>2. QED BY <1>1, Invariance, PTL

(* The thread never ends, by itself or cancelled, in the middle of a       *)
(* transfer or with the spin lock.                                         *)
THEOREM ThreadAbandonsNothing == Spec => []NothingAbandoned
  <1>1. IInv => NothingAbandoned
    BY DEF IInv, NothingAbandoned, CancelShape, LockShape
  <1>2. QED BY <1>1, Invariance, PTL

(* Each driver gives back all it got, at every exit of init and in finish, *)
(* and the thread exists exactly in a session.                             *)
THEOREM MeterIsReleased == Spec => []MeterReleased
  <1>1. IInv => MeterReleased
    <2> SUFFICES ASSUME IInv, pc = "idle"
                 PROVE  /\ IF allocated THEN Connected ELSE held = {} /\ kernel = bound
                        /\ (tpc # "none") = allocated
      BY DEF MeterReleased
    <2> USE DEF IInv
    <2>1. allocated => Connected
      BY DEF LinkShape
    <2>2. ASSUME ~allocated PROVE held = {} /\ kernel = bound
      <3>1. held = {}
        BY <2>2 DEF LinkShape
      <3>2. (kernel <=> bound) /\ kernel \in BOOLEAN /\ bound \in BOOLEAN
        BY <3>1 DEF LinkShape, DriverShape, TypeOK, DriverTypeOK, Drivers
      <3>3. QED BY <3>1, <3>2
    <2>3. (tpc # "none") = allocated
      BY DEF CallShape, TypeOK
    <2>4. QED BY <2>1, <2>2, <2>3
  <1>2. QED BY <1>1, Invariance, PTL

(* Two threads that add to one total use no moment twice and lose none but *)
(* the remainders of the divisions, however long the session.              *)
THEOREM TimeIsUsedOnce == Spec => []TimeUsedOnce
  <1>1. IInv => TimeUsedOnce
    <2> SUFFICES ASSUME IInv, allocated, tpc \notin {"start", "store"}, ~early
                 PROVE  /\ total_uj * Scale <= Hi * (last_us - first)
                        /\ sampled /\ pc # "rAdd" /\ tpc # "add" =>
                             Lo * (last_us - since) <= total_uj * Scale + (Scale - 1) * adds
      BY DEF TimeUsedOnce
    <2> USE WattsUpAssumption
    <2>1. Accounts
      BY DEF IInv, TimeShape, Started
    <2>2. Pending \in Nat /\ (pc # "rAdd" /\ tpc # "add" => Pending = 0)
      BY DEF Pending, IInv, TypeOK
    <2>3. Hi * Pending \in Nat /\ Lo * 0 = 0
      BY <2>2, ProductIsNat
    <2>4. /\ total_uj * Scale \in Nat /\ (Scale - 1) * adds \in Nat
          /\ Hi * (last_us - first) \in Int /\ Lo * (last_us - since) \in Int
      <3>1. /\ Scale \in Nat /\ Scale - 1 \in Nat /\ adds \in Nat /\ total_uj \in Nat
            /\ last_us \in Nat /\ first \in Nat /\ since \in Nat
        BY DEF IInv, TypeOK
      <3>2. QED BY <3>1, ProductIsNat
    <2>5. total_uj * Scale <= Hi * (last_us - first)
      BY <2>1, <2>3, <2>4 DEF Accounts
    <2>6. ASSUME sampled, pc # "rAdd", tpc # "add"
          PROVE  Lo * (last_us - since) <= total_uj * Scale + (Scale - 1) * adds
      BY <2>1, <2>2, <2>3, <2>4, <2>6 DEF Accounts
    <2>7. QED BY <2>5, <2>6
  <1>2. QED BY <1>1, Invariance, PTL

-----------------------------------------------------------------------------
(* The refinement of the abstract energymon.                               *)

LEMMA AdditionAccumulates ==
  ASSUME IInv, AddEnergy, UNCHANGED <<allocated, reading>>, allocated, Phase' = Phase
  PROVE  EM!Accumulate
  <1>1. Phase \in {"open", "busy"}
    BY DEF Phase
  <1>2. total_uj' \in Nat /\ total_uj' >= total_uj
    BY AddedEnergyIsNat DEF IInv, TypeOK, AddEnergy
  <1>3. QED BY <1>1, <1>2 DEF EM!Accumulate

LEMMA ApplicationRefines == IInv /\ Application => [EM!EMNext]_EM!emVars
  <1> SUFFICES ASSUME IInv, Application PROVE [EM!EMNext]_EM!emVars
    OBVIOUS
  <1> USE DEF EM!EMNext, EM!emVars, app, account, IInv, CallShape
  <1>1. CASE InitCall
    BY <1>1 DEF InitCall, EM!InitCall, Phase
  <1>2. CASE Connect \/ InitWrites
    BY <1>2 DEF Connect, InitWrites, Phase
  <1>3. CASE ConnectFails
    BY <1>3 DEF ConnectFails, InitFails, EM!Release, Phase
  <1>4. CASE FlushRead
    BY <1>4 DEF FlushRead, InitFails, EM!Release, Phase
  <1>5. CASE CreateThread
    BY <1>5 DEF CreateThread, InitFails, EM!InitReturn, EM!Release, Phase
  <1>6. CASE ReadCall \/ ReadLock \/ ReadElapsed \/ ReadUnlock
    BY <1>6 DEF ReadCall, ReadLock, ReadElapsed, ReadUnlock, Phase
  <1>7. CASE ReadAdd
    <2>1. pc = "rAdd" /\ pc' = "rUnlock" /\ UNCHANGED <<allocated, reading>> /\ AddEnergy
      BY <1>7 DEF ReadAdd
    <2>2. QED BY <2>1, AdditionAccumulates DEF Phase
  <1>8. CASE ReadReturn
    BY <1>8 DEF ReadReturn, EM!FRead, Phase
  <1>9. CASE FinishCall
    BY <1>9 DEF FinishCall, EM!FinishCall, Phase
  <1>10. CASE StopPolling \/ CancelThread \/ JoinThread \/ StopLogging
    BY <1>10 DEF StopPolling, CancelThread, JoinThread, StopLogging, Phase
  <1>11. CASE Disconnect
    BY <1>11 DEF Disconnect, EM!Release, Phase
  <1>12. QED
    BY <1>1, <1>2, <1>3, <1>4, <1>5, <1>6, <1>7, <1>8, <1>9, <1>10, <1>11
       DEF Application, Finish

LEMMA PollingThreadRefines == IInv /\ PollingThread => [EM!EMNext]_EM!emVars
  <1> SUFFICES ASSUME IInv, PollingThread PROVE [EM!EMNext]_EM!emVars
    OBVIOUS
  <1> USE DEF EM!emVars, app, account
  <1>1. CASE ThreadAdd
    <2>1. UNCHANGED <<pc, allocated, reading>> /\ allocated /\ AddEnergy
      BY <1>1 DEF ThreadAdd, IInv, CallShape
    <2>2. QED BY <2>1, AdditionAccumulates DEF Phase, EM!EMNext
  <1>2. CASE ThreadStart \/ ThreadStore \/ EndSleep \/ EndPacketSleep \/ EndTransfer
    BY <1>2 DEF ThreadStart, ThreadStore, EndSleep, EndPacketSleep, EndTransfer, Phase
  <1>3. CASE Parse \/ ThreadLock \/ ThreadElapsed \/ ThreadUnlock \/ ActOnCancel
    BY <1>3 DEF Parse, ThreadLock, ThreadElapsed, ThreadUnlock, ActOnCancel, Phase
  <1>4. QED BY <1>1, <1>2, <1>3 DEF PollingThread

(* The Watts Up? implementation keeps the contract of inc/energymon.h,     *)
(* with either thread adding to the total a read returns.                  *)
THEOREM WattsUpImplementsEnergyMonitor == Spec => IsEnergyMonitor
  <1>1. Init => EM!EMInit
    BY DEF Init, EM!EMInit, Phase
  <1>2. IInv /\ [Next]_vars => [EM!EMNext]_EM!emVars
    <2> SUFFICES ASSUME IInv, [Next]_vars PROVE [EM!EMNext]_EM!emVars
      OBVIOUS
    <2>1. CASE Tick \/ UNCHANGED vars
      BY <2>1 DEF Tick, vars, app, account, EM!emVars, Phase
    <2>2. QED BY <2>1, ApplicationRefines, PollingThreadRefines DEF Next
  <1>3. QED
    BY <1>1, <1>2, Invariance, PTL DEF Spec, IsEnergyMonitor, EM!EMSpec
-----------------------------------------------------------------------------
(* A finish that has cleared poll is short: how far the call, and the      *)
(* thread it waits for, still are from their ends.                         *)
Finishing == pc \in {"cancel", "join", "logStop", "disconnect"}

CallRank == CASE pc = "cancel" -> 4 [] pc = "join" -> 3
              [] pc = "logStop" -> 2 [] pc = "disconnect" -> 1 [] OTHER -> 0

ThreadRank == CASE tpc = "start" -> 2
                [] tpc \in {"store", "sleep", "unlock"} -> 1
                [] tpc = "add" -> 2
                [] tpc = "elapsed" -> 3
                [] tpc = "lock" -> 4
                [] tpc \in {"parsed", "packetSleep"} -> 5
                [] tpc = "io" -> 6
                [] OTHER -> 0

FinishRank == CallRank + ThreadRank

(* Everything but the clock.                                               *)
allButNow == <<conf, app, meter, poll, lock, account, thread, sample, early>>

(* The flag is off by the time the thread is told to end.                  *)
PollingOff == pc \in {"cancel", "join"} => ~poll

LEMMA RanksAreBounded == CallRank \in 0..4 /\ ThreadRank \in 0..6
  BY DEF CallRank, ThreadRank

LEMMA OffOnceStopped == TypeOK /\ PollingOff /\ [Next]_vars => PollingOff'
  <1> SUFFICES ASSUME TypeOK, PollingOff, [Next]_vars PROVE PollingOff'
    OBVIOUS
  <1> USE DEF PollingOff, app
  <1>1. CASE Application
    <2>1. \/ poll' = poll /\ pc \in {"cancel", "join"}
          \/ pc' \notin {"cancel", "join"} \/ StopPolling
      BY <1>1 DEF Application, Finish, InitCall, Connect, InitWrites, ConnectFails, InitFails,
              FlushRead, CreateThread, ReadCall, ReadLock, ReadElapsed, ReadAdd, ReadUnlock,
              ReadReturn, FinishCall, CancelThread, JoinThread, StopLogging, Disconnect
    <2>2. StopPolling => poll' = FALSE
      BY DEF StopPolling
    <2>3. QED BY <2>1, <2>2
  <1>2. CASE PollingThread
    BY <1>2 DEF PollingThread, ThreadStart, ThreadStore, EndSleep, EndPacketSleep, EndTransfer,
            Parse, ThreadLock, ThreadElapsed, ThreadAdd, ThreadUnlock, ActOnCancel
  <1>3. CASE Tick \/ UNCHANGED vars
    BY <1>3 DEF Tick, vars
  <1>4. QED BY <1>1, <1>2, <1>3 DEF Next

LEMMA CallStepsComeCloser ==
  ASSUME IInv, Finishing, Application
  PROVE  CallRank' < CallRank /\ ThreadRank' = ThreadRank
  <1>1. CancelThread \/ JoinThread \/ StopLogging \/ Disconnect
    BY DEF Application, Finish, Finishing, InitCall, Connect, InitWrites, ConnectFails,
           FlushRead, CreateThread, ReadCall, ReadLock, ReadElapsed, ReadAdd, ReadUnlock,
           ReadReturn, FinishCall, StopPolling
  <1>2. CallRank' < CallRank
    BY <1>1 DEF CancelThread, JoinThread, StopLogging, Disconnect, CallRank
  <1>3. ThreadRank' = ThreadRank
    <2>1. CASE CancelThread \/ StopLogging \/ Disconnect
      BY <2>1 DEF CancelThread, StopLogging, Disconnect, thread, ThreadRank
    <2>2. CASE JoinThread
      BY <2>2 DEF JoinThread, ThreadEnded, ThreadRank
    <2>3. QED BY <1>1, <2>1, <2>2
  <1>4. QED BY <1>2, <1>3

LEMMA ThreadStepsComeCloser ==
  ASSUME IInv, PollingOff, Finishing, PollingThread
  PROVE  CallRank' = CallRank /\ ThreadRank' < ThreadRank
  <1> USE DEF PollingThread, ThreadStart, ThreadStore, EndSleep, EndPacketSleep, EndTransfer,
              Parse, ThreadLock, ThreadElapsed, ThreadAdd, ThreadUnlock, ActOnCancel, GoToSleep
  <1>1. pc \in {"cancel", "join"} /\ ~poll
    BY DEF IInv, CallShape, Finishing, PollingOff
  <1>2. ThreadRank' < ThreadRank
    BY <1>1 DEF ThreadRank
  <1>3. UNCHANGED pc
    BY DEF app
  <1>4. QED BY <1>2, <1>3 DEF CallRank

(* Once finish has cleared poll every step but one of the clock brings its *)
(* end closer, so that the application and the thread take no more than    *)
(* ten: a packet that is incomplete is not read on, whatever retries are   *)
(* left, one that is complete may still be parsed, and its time is added   *)
(* before the thread ends.  (How long the driver takes for a transfer is   *)
(* not the program's.)                                                     *)
THEOREM FinishIsShort ==
  Spec => [](FinishRank \in 0..10) /\ [][Finishing => FinishRank' < FinishRank]_allButNow
  <1>1. FinishRank \in 0..10
    BY RanksAreBounded DEF FinishRank
  <1>2. ASSUME IInv, PollingOff, Finishing, Application \/ PollingThread
        PROVE  FinishRank' < FinishRank
    <2>1. CallRank' \in 0..4 /\ ThreadRank' \in 0..6
      BY DEF CallRank, ThreadRank
    <2>2. PICK c \in 0..4, t \in 0..6, d \in 0..4, u \in 0..6 :
            CallRank = c /\ ThreadRank = t /\ CallRank' = d /\ ThreadRank' = u
      BY <2>1, RanksAreBounded
    <2>3. \/ d < c /\ u = t
          \/ d = c /\ u < t
      BY <1>2, <2>2, CallStepsComeCloser, ThreadStepsComeCloser
    <2>4. FinishRank = c + t /\ FinishRank' = d + u
      BY <2>2 DEF FinishRank
    <2>5. QED BY <2>3, <2>4
  <1>3. IInv /\ PollingOff /\ [Next]_vars => [Finishing => FinishRank' < FinishRank]_allButNow
    BY <1>2 DEF Next, Tick, vars, allButNow
  <1>4. Init => PollingOff
    BY DEF Init, PollingOff
  <1>5. IInv => TypeOK
    BY DEF IInv
  <1>6. QED BY <1>1, <1>3, <1>4, <1>5, OffOnceStopped, Invariance, PTL DEF Spec
-----------------------------------------------------------------------------
(* What has been read is part of the total.                                *)
ReadIsCounted == reading <= total_uj

LEMMA ReadIsCountedStep == IInv /\ ReadIsCounted /\ [Next]_vars => ReadIsCounted'
  <1> SUFFICES ASSUME IInv, ReadIsCounted, [Next]_vars PROVE ReadIsCounted'
    OBVIOUS
  <1> USE DEF ReadIsCounted
  <1>1. reading \in Nat /\ total_uj \in Nat
    BY DEF IInv, TypeOK
  <1>2. CASE UNCHANGED <<reading, total_uj>>
    BY <1>2
  <1>3. CASE InitCall
    <2>1. reading = 0 /\ reading' = reading /\ total_uj' = 0
      BY <1>3 DEF InitCall, IInv, CallShape
    <2>2. QED BY <2>1
  <1>4. CASE CreateThread
    BY <1>1, <1>4 DEF CreateThread, app, account
  <1>5. CASE AddEnergy /\ reading' = reading
    <2>1. PICK d \in Nat : total_uj' = total_uj + d
      BY <1>5, AddedEnergyIsNat DEF AddEnergy, IInv, TypeOK
    <2>2. QED BY <1>1, <1>5, <2>1
  <1>6. CASE ReadReturn
    BY <1>1, <1>6 DEF ReadReturn, account
  <1>7. CASE Disconnect
    BY <1>7 DEF Disconnect
  <1>8. \/ UNCHANGED <<reading, total_uj>> \/ InitCall \/ CreateThread
        \/ AddEnergy /\ reading' = reading
        \/ ReadReturn \/ Disconnect
    <2>1. CASE Application
      BY <2>1 DEF Application, Finish, Connect, InitWrites, ConnectFails, FlushRead, ReadCall,
              ReadLock, ReadElapsed, ReadAdd, ReadUnlock, FinishCall, StopPolling,
              CancelThread, JoinThread, StopLogging, app, account
    <2>2. CASE PollingThread
      BY <2>2 DEF PollingThread, ThreadStart, ThreadStore, EndSleep, EndPacketSleep,
              EndTransfer, Parse, ThreadLock, ThreadElapsed, ThreadAdd, ThreadUnlock,
              ActOnCancel, app, account
    <2>3. CASE Tick \/ UNCHANGED vars
      BY <2>3 DEF Tick, vars, app, account
    <2>4. QED BY <2>1, <2>2, <2>3 DEF Next
  <1>9. QED BY <1>2, <1>3, <1>4, <1>5, <1>6, <1>7, <1>8

(* A read returns no more than the meter's greatest power over the time    *)
(* the session has lasted, unless a read with estimates took its time      *)
(* before the thread had stored that of its start: nothing else makes the  *)
(* energy of a session too large.                                          *)
THEOREM OnlyAnEarlyReadExceedsTheSession == Spec => [](~early => ReadingWithinSession)
  <1>1. Init => ReadIsCounted
    BY DEF Init, ReadIsCounted
  <1>2. ASSUME IInv, ReadIsCounted, ~early PROVE ReadingWithinSession
    <2>1. /\ reading \in Nat /\ total_uj \in Nat /\ Scale \in Nat /\ Hi \in Nat
          /\ first \in Nat /\ last_us \in Nat /\ now \in Nat /\ exec_us \in Nat
          /\ first <= now /\ last_us <= now
      BY <1>2, WattsUpAssumption DEF IInv, TypeOK
    <2>2. reading * Scale <= total_uj * Scale
      BY <1>2, <2>1, MulMonotone DEF ReadIsCounted
    <2>3. Hi * (now - first) \in Nat
      BY <2>1, ProductIsNat
    <2>4. CASE ~allocated \/ ~Started
      <3>1. total_uj = 0
        BY <1>2, <2>4 DEF IInv, CallShape, TimeShape
      <3>2. 0 * Scale = 0 /\ reading * Scale \in Nat
        BY <2>1, ProductIsNat
      <3>3. QED BY <2>2, <2>3, <3>1, <3>2 DEF ReadingWithinSession
    <2>5. CASE allocated /\ Started
      <3>1. first <= last_us /\ total_uj * Scale + Hi * Pending <= Hi * (last_us - first)
        BY <1>2, <2>5 DEF IInv, TimeShape, Accounts
      <3>2. Pending \in Nat
        BY <2>1 DEF Pending
      <3>3. PICK a \in Nat, b \in Nat : a = last_us - first /\ b = now - first /\ a <= b
        BY <2>1, <3>1
      <3>4. Hi * a <= Hi * b
        <4>1. a * Hi <= b * Hi
          BY <2>1, <3>3, MulMonotone
        <4>2. QED BY <2>1, <3>3, <4>1
      <3>5. /\ Hi * Pending \in Nat /\ total_uj * Scale \in Nat /\ reading * Scale \in Nat
            /\ Hi * a \in Nat /\ Hi * b \in Nat
        BY <2>1, <3>2, <3>3, ProductIsNat
      <3>6. PICK p \in Nat, t \in Nat, r \in Nat, x \in Nat, y \in Nat :
              /\ p = Hi * Pending /\ t = total_uj * Scale /\ r = reading * Scale
              /\ x = Hi * a /\ y = Hi * b
        BY <3>5
      <3>7. r <= t /\ t + p <= x /\ x <= y
        BY <2>2, <3>1, <3>3, <3>4, <3>6
      <3>8. r <= y
        BY <3>7
      <3>9. QED BY <3>3, <3>6, <3>8 DEF ReadingWithinSession
    <2>6. QED BY <2>4, <2>5
  <1>3. IInv /\ ReadIsCounted => (~early => ReadingWithinSession)
    BY <1>2
  <1>4. QED BY <1>1, <1>3, ReadIsCountedStep, Invariance, PTL DEF Spec
=============================================================================
