----------------------- MODULE OdroidSmartPowerProofs -----------------------
(***************************************************************************)
(* The safety of the watt-hour implementation of the ODROID Smart Power,   *)
(* for every maximum of the counter, number of tries and size of the input *)
(* queue: what the answers still under way say fits what the program has   *)
(* taken over into wh_surplus.                                             *)
(***************************************************************************)
EXTENDS OdroidSmartPower, TLAPS

InInit == pc \in {"status", "statusRead", "onoff", "start"}
InSession == pc \in {"idle", "dataWrite", "dataRead"} /\ allocated
InRestart == pc \in {"restartStop", "restartStart"}

(* The answers that are under way.                                         *)
Reports == 1..Len(replies)
IsData(k) == replies[k].kind = "DATA"
NoData == \A k \in Reports : ~IsData(k)
DataFirst == \A j, k \in Reports : j < k /\ IsData(k) => IsData(j)
StatusIsPresent == \A k \in Reports : ~IsData(k) => replies[k].started = started
DataBetween(low, high) ==
  \A k \in Reports : IsData(k) => low <= wh_surplus + replies[k].wh /\ replies[k].wh <= high
DataInOrder ==
  \A j, k \in Reports : j < k /\ IsData(j) /\ IsData(k) => replies[j].wh <= replies[k].wh

CallShape ==
  /\ pc # "idle" => allocated
  /\ ~allocated \/ InInit => wh_surplus = 0 /\ reading = 0
  /\ pc = "statusRead" => tries > 0
  /\ pc \in {"dataRead", "restartStop"} => request \in {None, "DATA"}

(* The device has not counted more than it measured.                       *)
DeviceShape == wh <= measured /\ measured <= MaxEnergy

(* The answer to a request of an earlier session comes before the status   *)
(* that init waits for, and that status is the present one.                *)
InitShape ==
  InInit =>
    /\ request \in {"DATA", "STARTSTOP"} => replies = <<>>
    /\ pc # "status" => request \in {None, "STATUS"}
    /\ StatusIsPresent /\ DataFirst
    /\ pc \in {"onoff", "start"} => NoData
    /\ pc = "start" => ~started

(* The device records: the answers under way are in order, none is below   *)
(* what has been read or beyond what has been measured.                    *)
Records ==
  /\ started /\ request # "STARTSTOP"
  /\ wh_surplus + wh <= measured /\ reading <= wh_surplus + wh
  /\ DataBetween(reading, wh) /\ DataInOrder

(* The device will start, with a counter of zero.                          *)
WillRecord ==
  /\ ~started /\ request = "STARTSTOP"
  /\ wh_surplus <= measured /\ reading <= wh_surplus /\ NoData

Restarts ==
  /\ wh_surplus <= measured /\ reading <= wh_surplus
  /\ pc = "restartStop" => started
  /\ pc = "restartStart" =>
       /\ replies = <<>>
       /\ (started /\ request = "STARTSTOP") \/ (~started /\ request = None)

SessionShape ==
  undisturbed =>
    /\ reading <= measured
    /\ InSession => Records \/ WillRecord
    /\ InRestart => Restarts

IInv == TypeOK /\ CallShape /\ DeviceShape /\ InitShape /\ SessionShape

-----------------------------------------------------------------------------
(* The input queue.                                                        *)

LEMMA Answers ==
  ASSUME TypeOK
  PROVE  /\ [kind |-> "DATA", wh |-> wh] \in Reply
         /\ [kind |-> "STATUS", on |-> on, started |-> started] \in Reply
  BY DEF TypeOK, Reply

LEMMA Elements ==
  ASSUME replies \in Seq(Reply), NEW k \in Reports
  PROVE  IsData(k) => replies[k].wh \in 0..MaxEnergy
  <1>1. replies[k] \in Reply
    BY DEF Reports
  <1>2. QED BY <1>1 DEF Reply, IsData

(* The queue loses at most its oldest report.                              *)
Shifted(d) == \A k \in Reports' : k + d \in Reports /\ replies'[k] = replies[k + d]

LEMMA TakeShifts ==
  ASSUME replies \in Seq(Reply), TakeReply
  PROVE  /\ replies' \in Seq(Reply) /\ Len(replies') <= Len(replies) /\ Shifted(1)
         /\ 1 \in Reports /\ Head(replies) = replies[1] /\ Head(replies) \in Reply
  <1>1. replies # <<>> /\ replies' = Tail(replies)
    BY DEF TakeReply
  <1>2. Len(replies) \in Nat /\ Len(replies) > 0 /\ Len(replies') = Len(replies) - 1
        /\ replies' \in Seq(Reply)
    BY <1>1
  <1>3. \A k \in 1..Len(replies') : replies'[k] = replies[k + 1]
    BY <1>1
  <1>4. Shifted(1)
    BY <1>2, <1>3 DEF Shifted, Reports
  <1>5. QED BY <1>1, <1>2, <1>4 DEF Reports

LEMMA QueueShifts ==
  ASSUME replies \in Seq(Reply), Len(replies) <= QueueSize, NEW r \in Reply, Queued(r)
  PROVE  /\ replies' \in Seq(Reply) /\ Len(replies') <= QueueSize
         /\ \/ Shifted(0)
            \/ \E d \in {0, 1} :
                 /\ Len(replies') > 0 /\ replies'[Len(replies')] = r
                 /\ \A k \in 1..(Len(replies') - 1) :
                      k + d \in Reports /\ replies'[k] = replies[k + d]
  <1> USE OspAssumption
  <1>1. CASE replies' = replies
    BY <1>1 DEF Shifted, Reports
  <1>2. CASE replies' = Append(IF Len(replies) = QueueSize THEN Tail(replies) ELSE replies, r)
    <2>1. CASE Len(replies) = QueueSize
      <3>1. replies # <<>> /\ replies' = Append(Tail(replies), r)
        BY <1>2, <2>1
      <3>2. /\ Tail(replies) \in Seq(Reply) /\ Len(Tail(replies)) = Len(replies) - 1
            /\ \A k \in 1..(Len(replies) - 1) : Tail(replies)[k] = replies[k + 1]
        BY <3>1
      <3>3. /\ replies' \in Seq(Reply) /\ Len(replies') = Len(replies)
            /\ replies'[Len(replies)] = r
            /\ \A k \in 1..(Len(replies) - 1) : replies'[k] = replies[k + 1]
        BY <3>1, <3>2
      <3>4. QED BY <2>1, <3>3 DEF Reports
    <2>2. CASE Len(replies) # QueueSize
      <3>1. replies' = Append(replies, r)
        BY <1>2, <2>2
      <3>2. /\ replies' \in Seq(Reply) /\ Len(replies') = Len(replies) + 1
            /\ replies'[Len(replies) + 1] = r
            /\ \A k \in 1..Len(replies) : replies'[k] = replies[k]
        BY <3>1
      <3>3. QED BY <2>2, <3>2 DEF Reports
    <2>3. QED BY <2>1, <2>2
  <1>3. QED BY <1>1, <1>2 DEF Queued

(* What holds of all reports holds of those that are left.                 *)
LEMMA ShiftKeeps ==
  ASSUME NEW d \in {0, 1}, Shifted(d), replies \in Seq(Reply), replies' \in Seq(Reply)
  PROVE  /\ NoData => NoData'
         /\ DataFirst => DataFirst'
         /\ StatusIsPresent /\ started' = started => StatusIsPresent'
         /\ DataInOrder => DataInOrder'
         /\ \A low, high : DataBetween(low, high) /\ wh_surplus' = wh_surplus =>
              \A k \in Reports' : IsData(k)' =>
                low <= wh_surplus' + replies'[k].wh /\ replies'[k].wh <= high
  <1>1. \A j, k \in Reports' : j < k => j + d < k + d
    BY DEF Reports
  <1>2. \A k \in Reports' : k + d \in Reports /\ replies'[k] = replies[k + d]
    BY DEF Shifted
  <1>3. \A k \in Reports' : IsData(k)' <=> IsData(k + d)
    BY <1>2 DEF IsData
  <1>4. NoData => NoData'
    BY <1>2, <1>3 DEF NoData
  <1>5. DataFirst => DataFirst'
    BY <1>1, <1>2, <1>3 DEF DataFirst
  <1>6. StatusIsPresent /\ started' = started => StatusIsPresent'
    BY <1>2, <1>3 DEF StatusIsPresent
  <1>7. DataInOrder => DataInOrder'
    BY <1>1, <1>2, <1>3 DEF DataInOrder
  <1>8. ASSUME NEW low, NEW high, DataBetween(low, high), wh_surplus' = wh_surplus,
               NEW k \in Reports', IsData(k)'
        PROVE  low <= wh_surplus' + replies'[k].wh /\ replies'[k].wh <= high
    BY <1>2, <1>3, <1>8 DEF DataBetween
  <1>9. QED BY <1>4, <1>5, <1>6, <1>7, <1>8

-----------------------------------------------------------------------------
(* Types.                                                                  *)

LEMMA HandleCases ==
  ASSUME TypeOK, HandleRequest
  PROVE  /\ request # None /\ request' = None /\ UNCHANGED <<env, host, history>>
         /\ \/ request = "DATA" /\ Queued([kind |-> "DATA", wh |-> wh]) /\ UNCHANGED device
            \/ request = "STATUS" /\ UNCHANGED device
               /\ Queued([kind |-> "STATUS", on |-> on, started |-> started])
            \/ request = "ONOFF" /\ on' = ~on /\ UNCHANGED <<started, wh, replies>>
            \/ /\ request = "STARTSTOP" /\ started' = ~started
               /\ wh' = (IF started THEN wh ELSE 0) /\ UNCHANGED <<on, replies>>
  <1>1. request \in {"DATA", "ONOFF", "STARTSTOP", "STATUS"}
    BY DEF TypeOK, HandleRequest, Requests
  <1>2. CASE request = "DATA"
    BY <1>2 DEF HandleRequest
  <1>3. CASE request = "STATUS"
    BY <1>3 DEF HandleRequest
  <1>4. CASE request = "ONOFF"
    BY <1>4 DEF HandleRequest
  <1>5. CASE request = "STARTSTOP"
    BY <1>5 DEF HandleRequest
  <1>6. QED BY <1>1, <1>2, <1>3, <1>4, <1>5

LEMMA TypeCorrectStep == IInv /\ [Next]_vars => TypeOK'
  <1> SUFFICES ASSUME IInv, [Next]_vars PROVE TypeOK'
    OBVIOUS
  <1> USE OspAssumption DEF env, host, device, history
  <1>1. TypeOK /\ CallShape /\ DeviceShape
    BY DEF IInv
  <1>2. replies \in Seq(Reply) /\ Len(replies) <= QueueSize /\ Len(replies) \in Nat
    BY <1>1 DEF TypeOK
  <1>3. <<>> \in Seq(Reply) /\ Len(<<>>) <= QueueSize
    OBVIOUS
  <1>4. request \in Requests \cup {None} /\ tries \in Nat /\ wh_surplus \in Nat
        /\ reading \in Nat /\ measured \in Nat /\ wh \in 0..MaxEnergy
    BY <1>1 DEF TypeOK
  <1>5. CASE InitOpen \/ Finish
    <2>1. replies' \in Seq(Reply) /\ Len(replies') <= QueueSize
      BY <1>3, <1>5 DEF InitOpen, Finish
    <2>2. request' \in Requests \cup {None}
      BY <1>4, <1>5 DEF InitOpen, Finish, Write, Requests
    <2>3. pc' \in AppPc
      BY <1>5 DEF InitOpen, Finish, AppPc
    <2>4. allocated' \in BOOLEAN
      BY <1>5 DEF InitOpen, Finish
    <2>5. asked' \in BOOLEAN
      BY <1>1, <1>5 DEF InitOpen, Finish, TypeOK
    <2>6. undisturbed' \in BOOLEAN
      BY <1>1, <1>5 DEF InitOpen, Finish, TypeOK
    <2>7. stopAsked' \in BOOLEAN
      BY <1>5 DEF InitOpen, Finish
    <2>8. tries' \in Nat /\ wh_surplus' = 0 /\ reading' = 0 /\ UNCHANGED <<env, device, measured>>
      BY <1>4, <1>5 DEF InitOpen, Finish
    <2>9. QED BY <1>1, <2>1, <2>2, <2>3, <2>4, <2>5, <2>6, <2>7, <2>8 DEF TypeOK
  <1>6. CASE RequestStatus \/ RequestOnOff \/ RequestStart \/ RequestData
    <2>1. request' \in Requests \cup {None}
      BY <1>4, <1>6 DEF RequestStatus, RequestOnOff, RequestStart, RequestData, Write, Requests
    <2>2. pc' \in AppPc
      BY <1>6 DEF RequestStatus, RequestOnOff, RequestStart, RequestData, AppPc
    <2>3. tries' \in Nat
      BY <1>4, <1>6 DEF RequestStatus, RequestOnOff, RequestStart, RequestData
    <2>4. asked' \in BOOLEAN
      BY <1>1, <1>6 DEF RequestStatus, RequestOnOff, RequestStart, RequestData, TypeOK
    <2>5. UNCHANGED <<env, allocated, wh_surplus, reading, device, replies, history>>
      BY <1>6 DEF RequestStatus, RequestOnOff, RequestStart, RequestData
    <2>6. QED BY <1>1, <2>1, <2>2, <2>3, <2>4, <2>5 DEF TypeOK
  <1>7. CASE StatusFails \/ ReadCall \/ DataFails \/ FinishCall
    <2>1. pc' \in AppPc
      BY <1>7 DEF StatusFails, ReadCall, DataFails, FinishCall, AppPc
    <2>2. QED BY <1>1, <1>7, <2>1 DEF StatusFails, ReadCall, DataFails, FinishCall, TypeOK
  <1>8. CASE StatusMissing \/ StatusRead \/ DataMissing \/ DataRead
    <2>1. replies' \in Seq(Reply) /\ Len(replies') <= QueueSize
      <3>1. TakeReply \/ replies' = replies
        BY <1>8 DEF StatusMissing, StatusRead, DataMissing, DataRead, NoReply
      <3>2. TakeReply => replies' \in Seq(Reply) /\ Len(replies') <= Len(replies)
        BY <1>2, TakeShifts
      <3>3. TakeReply => Len(replies') \in Nat
        BY <3>2
      <3>4. QED BY <1>2, <3>1, <3>2, <3>3
    <2>2. pc' \in AppPc
      BY <1>8 DEF StatusMissing, StatusRead, DataMissing, DataRead, AppPc
    <2>3. tries' \in Nat
      BY <1>1, <1>4, <1>8
         DEF StatusMissing, StatusRead, DataMissing, DataRead, TriesLeft, CallShape
    <2>4. wh_surplus' \in Nat /\ reading' \in Nat
      <3>1. CASE DataRead
        <4>1. Head(replies).wh \in Nat
          <5>1. TakeReply /\ Head(replies).kind = "DATA"
            BY <3>1 DEF DataRead
          <5>2. Head(replies) = replies[1] /\ 1 \in Reports
            BY <1>2, <5>1, TakeShifts
          <5>3. QED BY <1>2, <5>1, <5>2, Elements DEF IsData
        <4>2. wh_surplus + Head(replies).wh \in Nat
          BY <1>4, <4>1
        <4>3. QED BY <1>4, <3>1, <4>2 DEF DataRead, SurplusAfter
      <3>2. QED BY <1>4, <1>8, <3>1 DEF StatusMissing, StatusRead, DataMissing
    <2>5. UNCHANGED <<env, asked, allocated, request, device, history>>
      BY <1>8 DEF StatusMissing, StatusRead, DataMissing, DataRead
    <2>6. QED BY <1>1, <2>1, <2>2, <2>3, <2>4, <2>5 DEF TypeOK
  <1>9. CASE RestartStop \/ RestartStart
    <2>1. request' \in Requests \cup {None}
      BY <1>4, <1>9 DEF RestartStop, RestartStart, Write, Requests
    <2>2. pc' \in AppPc
      BY <1>9 DEF RestartStop, RestartStart, AppPc
    <2>3. undisturbed' \in BOOLEAN
      BY <1>1, <1>9 DEF RestartStop, RestartStart, TypeOK
    <2>4. reading' \in Nat
      BY <1>4, <1>9 DEF RestartStop, RestartStart
    <2>5. UNCHANGED <<env, tries, asked, allocated, wh_surplus, device, replies, measured, stopAsked>>
      BY <1>9 DEF RestartStop, RestartStart
    <2>6. QED BY <1>1, <2>1, <2>2, <2>3, <2>4, <2>5 DEF TypeOK
  <1>10. CASE HandleRequest
    <2>1. replies' \in Seq(Reply) /\ Len(replies') <= QueueSize
      BY <1>1, <1>2, <1>10, HandleCases, Answers, QueueShifts
    <2>2. wh' \in 0..MaxEnergy
      BY <1>1, <1>4, <1>10, HandleCases
    <2>3. on' \in BOOLEAN
      BY <1>1, <1>10, HandleCases DEF TypeOK
    <2>4. started' \in BOOLEAN
      BY <1>1, <1>10, HandleCases DEF TypeOK
    <2>5. request' = None /\ UNCHANGED <<env, host, history>>
      BY <1>1, <1>10, HandleCases
    <2>6. QED BY <1>1, <2>1, <2>2, <2>3, <2>4, <2>5 DEF TypeOK
  <1>11. CASE Measure
    <2>1. wh + 1 \in 0..MaxEnergy
      BY <1>1, <1>4, <1>11 DEF Measure, DeviceShape
    <2>2. QED BY <1>1, <1>4, <1>11, <2>1 DEF Measure, TypeOK
  <1>12. CASE UNCHANGED vars
    BY <1>1, <1>12 DEF vars, TypeOK
  <1>13. QED
    BY <1>5, <1>6, <1>7, <1>8, <1>9, <1>10, <1>11, <1>12 DEF Next, InCall

-----------------------------------------------------------------------------
(* The call in progress and the device's counter.                          *)

LEMMA CallStep == IInv /\ [Next]_vars => CallShape'
  <1> SUFFICES ASSUME IInv, [Next]_vars PROVE CallShape'
    OBVIOUS
  <1> USE OspAssumption DEF env, host, device, history, CallShape, InInit
  <1>1. TypeOK /\ CallShape
    BY DEF IInv
  <1>2. CASE InitOpen \/ Finish
    BY <1>2 DEF InitOpen, Finish
  <1>3. CASE RequestStatus \/ RequestOnOff \/ RequestStart \/ StatusFails
    BY <1>1, <1>3 DEF RequestStatus, RequestOnOff, RequestStart, StatusFails
  <1>4. CASE StatusMissing
    <2>1. tries \in Nat /\ tries > 0
      BY <1>1, <1>4 DEF TypeOK, StatusMissing
    <2>2. QED BY <1>1, <1>4, <2>1 DEF StatusMissing, LastTry
  <1>5. CASE StatusRead
    BY <1>1, <1>5 DEF StatusRead
  <1>6. CASE ReadCall \/ DataFails \/ FinishCall \/ DataMissing
    BY <1>1, <1>6 DEF ReadCall, DataFails, FinishCall, DataMissing
  <1>7. CASE RequestData
    BY <1>1, <1>7 DEF RequestData, Write
  <1>8. CASE DataRead
    BY <1>1, <1>8 DEF DataRead
  <1>9. CASE RestartStop \/ RestartStart
    BY <1>1, <1>9 DEF RestartStop, RestartStart
  <1>10. CASE HandleRequest
    BY <1>1, <1>10, HandleCases
  <1>11. CASE Measure
    BY <1>1, <1>11 DEF Measure
  <1>12. CASE UNCHANGED vars
    BY <1>1, <1>12 DEF vars
  <1>13. QED
    BY <1>2, <1>3, <1>4, <1>5, <1>6, <1>7, <1>8, <1>9, <1>10, <1>11, <1>12 DEF Next, InCall

LEMMA DeviceStep == IInv /\ [Next]_vars => DeviceShape'
  <1> SUFFICES ASSUME IInv, [Next]_vars PROVE DeviceShape'
    OBVIOUS
  <1> USE DEF env, host, device, history, DeviceShape
  <1>1. TypeOK /\ DeviceShape /\ wh \in Nat /\ measured \in Nat /\ MaxEnergy \in Nat
    BY OspAssumption DEF IInv, TypeOK
  <1>2. CASE InitOpen \/ ReadCall \/ FinishCall \/ InCall \/ UNCHANGED vars
    <2>1. UNCHANGED <<wh, measured>>
      BY <1>2 DEF InitOpen, ReadCall, FinishCall, InCall, RequestStatus, StatusFails,
                  StatusMissing, StatusRead, RequestOnOff, RequestStart, RequestData,
                  DataFails, DataMissing, DataRead, RestartStop, RestartStart, Finish, vars
    <2>2. QED BY <1>1, <2>1
  <1>3. CASE HandleRequest
    <2>1. wh' \in {wh, 0} /\ measured' = measured
      BY <1>1, <1>3, HandleCases
    <2>2. QED BY <1>1, <2>1
  <1>4. CASE Measure
    BY <1>1, <1>4 DEF Measure
  <1>5. QED BY <1>2, <1>3, <1>4 DEF Next

-----------------------------------------------------------------------------
(* The status that init waits for.                                         *)

LEMMA SameReports ==
  ASSUME replies' = replies
  PROVE  /\ NoData' <=> NoData
         /\ DataFirst' <=> DataFirst
         /\ started' = started => (StatusIsPresent' <=> StatusIsPresent)
         /\ DataInOrder' <=> DataInOrder
  BY DEF NoData, DataFirst, StatusIsPresent, DataInOrder, Reports, IsData

LEMMA NoReports ==
  ASSUME replies = <<>>
  PROVE  Reports = {} /\ NoData /\ DataFirst /\ StatusIsPresent /\ DataInOrder
  BY DEF NoData, DataFirst, StatusIsPresent, DataInOrder, Reports

LEMMA NoReportsLeft ==
  ASSUME replies' = <<>> PROVE NoData' /\ DataFirst' /\ StatusIsPresent'
  BY DEF NoData, DataFirst, StatusIsPresent, Reports

LEMMA InitHandles == IInv /\ HandleRequest => InitShape'
  <1> SUFFICES ASSUME IInv, HandleRequest, InInit' PROVE InitShape'
    BY DEF InitShape
  <1> USE DEF host, device
  <1>1. TypeOK /\ replies \in Seq(Reply) /\ Len(replies) <= QueueSize
    BY DEF IInv, TypeOK
  <1>2. /\ request # None /\ request' = None /\ UNCHANGED <<env, host, history>>
        /\ \/ request = "DATA" /\ Queued([kind |-> "DATA", wh |-> wh]) /\ UNCHANGED device
           \/ request = "STATUS" /\ UNCHANGED device
              /\ Queued([kind |-> "STATUS", on |-> on, started |-> started])
           \/ request = "ONOFF" /\ on' = ~on /\ UNCHANGED <<started, wh, replies>>
           \/ /\ request = "STARTSTOP" /\ started' = ~started
              /\ wh' = (IF started THEN wh ELSE 0) /\ UNCHANGED <<on, replies>>
    BY <1>1, HandleCases
  <1>3. InInit /\ pc' = pc
    BY <1>2 DEF InInit
  <1>4. /\ request \in {"DATA", "STARTSTOP"} => replies = <<>>
        /\ pc # "status" => request \in {None, "STATUS"}
        /\ StatusIsPresent /\ DataFirst
        /\ pc \in {"onoff", "start"} => NoData
        /\ pc = "start" => ~started
    BY <1>3 DEF IInv, InitShape
  <1>5. request' \in {None, "STATUS"} /\ request' \notin {"DATA", "STARTSTOP"}
    BY <1>2 DEF None
  <1>6. CASE request = "DATA"
    <2>1. replies = <<>> /\ pc = "status"
      BY <1>4, <1>6 DEF None
    <2>2. Queued([kind |-> "DATA", wh |-> wh]) /\ [kind |-> "DATA", wh |-> wh] \in Reply
      BY <1>1, <1>2, <1>6, Answers
    <2>3. replies' \in Seq(Reply) /\ \A k \in Reports' : IsData(k)'
      <3>1. Reports = {}
        BY <2>1, NoReports
      <3>2. /\ replies' \in Seq(Reply)
            /\ \/ Shifted(0)
               \/ \E d \in {0, 1} :
                    /\ Len(replies') > 0
                    /\ replies'[Len(replies')] = [kind |-> "DATA", wh |-> wh]
                    /\ \A k \in 1..(Len(replies') - 1) :
                         k + d \in Reports /\ replies'[k] = replies[k + d]
        BY <1>1, <2>2, QueueShifts
      <3>3. CASE Shifted(0)
        BY <3>1, <3>2, <3>3 DEF Shifted
      <3>4. CASE \E d \in {0, 1} :
                   /\ Len(replies') > 0
                   /\ replies'[Len(replies')] = [kind |-> "DATA", wh |-> wh]
                   /\ \A k \in 1..(Len(replies') - 1) :
                        k + d \in Reports /\ replies'[k] = replies[k + d]
        <4>1. \A k \in 1..(Len(replies') - 1) : FALSE
          BY <3>1, <3>4
        <4>2. Len(replies') \in Nat
          BY <3>2
        <4>3. Reports' = {Len(replies')}
          BY <3>4, <4>1, <4>2 DEF Reports
        <4>4. QED BY <3>2, <3>4, <4>3 DEF IsData
      <3>5. QED BY <3>2, <3>3, <3>4
    <2>4. StatusIsPresent' /\ DataFirst'
      BY <2>3 DEF StatusIsPresent, DataFirst, Reports
    <2>5. QED BY <1>2, <1>5, <2>1, <2>4 DEF InitShape
  <1>7. CASE request = "STATUS"
    <2>1. /\ Queued([kind |-> "STATUS", on |-> on, started |-> started])
          /\ [kind |-> "STATUS", on |-> on, started |-> started] \in Reply
          /\ started' = started
      BY <1>1, <1>2, <1>7, Answers
    <2>2. StatusIsPresent' /\ DataFirst' /\ (NoData => NoData')
      <3>1. /\ replies' \in Seq(Reply)
            /\ \/ Shifted(0)
               \/ \E d \in {0, 1} :
                    /\ Len(replies') > 0
                    /\ replies'[Len(replies')] = [kind |-> "STATUS", on |-> on, started |-> started]
                    /\ \A k \in 1..(Len(replies') - 1) :
                         k + d \in Reports /\ replies'[k] = replies[k + d]
        BY <1>1, <2>1, QueueShifts
      <3>2. CASE Shifted(0)
        BY <1>1, <1>4, <2>1, <3>1, <3>2, ShiftKeeps
      <3>3. ASSUME NEW d \in {0, 1}, Len(replies') > 0,
                   replies'[Len(replies')] = [kind |-> "STATUS", on |-> on, started |-> started],
                   \A k \in 1..(Len(replies') - 1) :
                     k + d \in Reports /\ replies'[k] = replies[k + d]
            PROVE  StatusIsPresent' /\ DataFirst' /\ (NoData => NoData')
        <4>0. PICK n \in Nat : n = Len(replies')
          BY <3>1
        <4>1. replies'[n].kind = "STATUS" /\ replies'[n].started = started
          BY <3>3, <4>0
        <4>2. \A k \in Reports' : k = n \/ k \in 1..(n - 1)
          BY <4>0 DEF Reports
        <4>3. ~IsData(n)'
          BY <4>1 DEF IsData
        <4>4. \A k \in 1..(n - 1) : (IsData(k)' <=> IsData(k + d)) /\ k + d \in Reports
                                    /\ replies'[k] = replies[k + d]
          BY <3>3, <4>0 DEF IsData
        <4>5. StatusIsPresent'
          BY <1>4, <2>1, <4>1, <4>2, <4>4 DEF StatusIsPresent
        <4>6. NoData => NoData'
          BY <4>2, <4>3, <4>4 DEF NoData
        <4>7. ASSUME NEW j \in Reports', NEW k \in Reports', j < k, IsData(k)' PROVE IsData(j)'
          <5>1. k \in 1..(n - 1) /\ j \in 1..(n - 1) /\ j + d < k + d
            BY <4>1, <4>2, <4>3, <4>7 DEF Reports
          <5>2. QED BY <1>4, <4>4, <4>7, <5>1 DEF DataFirst
        <4>8. DataFirst'
          BY <4>7 DEF DataFirst
        <4>9. QED BY <4>5, <4>6, <4>8
      <3>4. QED BY <3>1, <3>2, <3>3
    <2>3. QED BY <1>2, <1>3, <1>4, <1>5, <2>1, <2>2 DEF InitShape
  <1>8. CASE request = "ONOFF"
    BY <1>2, <1>3, <1>4, <1>5, <1>8, SameReports DEF InitShape
  <1>9. CASE request = "STARTSTOP"
    <2>1. replies' = <<>> /\ pc = "status"
      BY <1>2, <1>4, <1>9 DEF None
    <2>2. QED BY <1>3, <1>5, <2>1, NoReportsLeft DEF InitShape
  <1>10. QED BY <1>2, <1>6, <1>7, <1>8, <1>9

(* A status report taken as the oldest one leaves no answer to an earlier  *)
(* request, and says what the device does now.                             *)
LEMMA StatusReadFinds ==
  ASSUME IInv, StatusRead
  PROVE  /\ NoData' /\ DataFirst' /\ StatusIsPresent' /\ pc' \in {"onoff", "start", "idle"}
         /\ pc' = "start" => ~started
         /\ pc' = "idle" => started
         /\ request \in {None, "STATUS"} /\ UNCHANGED <<request, started>>
  <1> USE DEF device
  <1>1. /\ pc = "statusRead" /\ TakeReply /\ Head(replies).kind = "STATUS"
        /\ UNCHANGED <<request, started>> /\ pc' \in {"onoff", "start", "idle"}
        /\ pc' = "start" => ~Head(replies).started
        /\ pc' = "idle" => Head(replies).started
    BY DEF StatusRead
  <1>2. replies \in Seq(Reply) /\ started \in BOOLEAN
    BY DEF IInv, TypeOK
  <1>3. StatusIsPresent /\ DataFirst /\ request \in {None, "STATUS"}
    BY <1>1 DEF IInv, InitShape, InInit
  <1>4. /\ replies' \in Seq(Reply) /\ Shifted(1) /\ 1 \in Reports
        /\ Head(replies) = replies[1]
    BY <1>1, <1>2, TakeShifts
  <1>5. ~IsData(1) /\ replies[1].started = started
    BY <1>1, <1>3, <1>4 DEF IsData, StatusIsPresent
  <1>6. NoData
    <2>1. ASSUME NEW k \in Reports PROVE ~IsData(k)
      <3>1. k = 1 \/ 1 < k
        BY DEF Reports
      <3>2. QED BY <1>3, <1>4, <1>5, <3>1 DEF DataFirst
    <2>2. QED BY <2>1 DEF NoData
  <1>7. NoData' /\ DataFirst' /\ StatusIsPresent'
    BY <1>1, <1>2, <1>3, <1>4, <1>6, ShiftKeeps
  <1>8. QED BY <1>1, <1>3, <1>4, <1>5, <1>7

LEMMA InitStep == IInv /\ [Next]_vars => InitShape'
  <1> SUFFICES ASSUME IInv, [Next]_vars, InInit' PROVE InitShape'
    BY DEF InitShape
  <1> USE DEF env, host, device, history, InInit
  <1>1. TypeOK /\ replies \in Seq(Reply) /\ Len(replies) <= QueueSize
    BY DEF IInv, TypeOK
  <1>2. InInit => /\ request \in {"DATA", "STARTSTOP"} => replies = <<>>
                  /\ pc # "status" => request \in {None, "STATUS"}
                  /\ StatusIsPresent /\ DataFirst
                  /\ pc \in {"onoff", "start"} => NoData
                  /\ pc = "start" => ~started
    BY DEF IInv, InitShape
  <1>3. CASE InitOpen
    <2>1. replies' = <<>> /\ pc' \in {"status", "finish"}
      BY <1>3 DEF InitOpen
    <2>2. QED BY <2>1, NoReportsLeft DEF InitShape
  <1>4. CASE RequestStatus
    <2>1. /\ pc = "status" /\ pc' = "statusRead" /\ request' = "STATUS"
          /\ UNCHANGED <<replies, started>>
      BY <1>4 DEF RequestStatus, Write
    <2>2. QED BY <1>2, <2>1, SameReports DEF InitShape, None
  <1>5. CASE StatusMissing
    <2>1. /\ pc = "statusRead" /\ pc' = "statusRead" /\ UNCHANGED <<request, started>>
          /\ replies' = replies \/ TakeReply
      BY <1>5 DEF StatusMissing, NoReply
    <2>2. StatusIsPresent' /\ DataFirst'
      <3>1. CASE replies' = replies
        BY <1>2, <2>1, <3>1, SameReports
      <3>2. CASE TakeReply
        <4>1. replies' \in Seq(Reply) /\ Shifted(1)
          BY <1>1, <3>2, TakeShifts
        <4>2. QED BY <1>1, <1>2, <2>1, <4>1, ShiftKeeps
      <3>3. QED BY <2>1, <3>1, <3>2
    <2>3. QED BY <1>2, <2>1, <2>2 DEF InitShape, None
  <1>6. CASE StatusRead
    BY <1>6, StatusReadFinds DEF InitShape, None
  <1>7. CASE RequestOnOff
    <2>1. /\ pc = "onoff" /\ pc' = "status" /\ request' = "ONOFF"
          /\ UNCHANGED <<replies, started>>
      BY <1>7 DEF RequestOnOff, Write
    <2>2. QED BY <1>2, <2>1, SameReports DEF InitShape
  <1>8. CASE StatusFails \/ RequestStart \/ ReadCall \/ FinishCall \/ RequestData \/ DataFails
             \/ DataMissing \/ DataRead \/ RestartStop \/ RestartStart \/ Finish
    BY <1>8 DEF StatusFails, RequestStart, ReadCall, FinishCall, RequestData, DataFails,
                DataMissing, DataRead, RestartStop, RestartStart, Finish
  <1>9. CASE HandleRequest
    BY <1>9, InitHandles
  <1>10. CASE Measure \/ UNCHANGED vars
    <2>1. UNCHANGED <<pc, request, started, replies>>
      BY <1>10 DEF Measure, vars
    <2>2. QED BY <1>2, <2>1, SameReports DEF InitShape
  <1>11. QED
    BY <1>3, <1>4, <1>5, <1>6, <1>7, <1>8, <1>9, <1>10 DEF Next, InCall

-----------------------------------------------------------------------------
(* What is read and what is under way, in a session and through a restart. *)

LEMMA RecordsShifts ==
  ASSUME TypeOK, TypeOK', Records, replies' = replies \/ TakeReply,
         UNCHANGED <<started, wh_surplus, wh, measured, reading>>, request' # "STARTSTOP"
  PROVE  Records'
  <1> USE DEF Records
  <1>1. replies \in Seq(Reply) /\ replies' \in Seq(Reply)
    BY DEF TypeOK
  <1>2. DataBetween(reading, wh)' /\ DataInOrder'
    <2>1. CASE replies' = replies
      BY <2>1, SameReports DEF DataBetween, Reports, IsData
    <2>2. CASE TakeReply
      <3>1. Shifted(1)
        BY <1>1, <2>2, TakeShifts
      <3>2. DataInOrder'
        BY <1>1, <3>1, ShiftKeeps
      <3>3. \A k \in Reports' : IsData(k)' =>
              reading <= wh_surplus' + replies'[k].wh /\ replies'[k].wh <= wh
        BY <1>1, <3>1, ShiftKeeps
      <3>4. QED BY <3>2, <3>3 DEF DataBetween
    <2>3. QED BY <2>1, <2>2
  <1>3. QED BY <1>2

LEMMA WillRecordShifts ==
  ASSUME TypeOK, TypeOK', WillRecord, replies' = replies \/ TakeReply,
         UNCHANGED <<started, wh_surplus, measured, reading, request>>
  PROVE  WillRecord'
  <1>1. replies \in Seq(Reply) /\ replies' \in Seq(Reply)
    BY DEF TypeOK
  <1>2. NoData'
    <2>1. CASE replies' = replies
      BY <2>1, SameReports DEF WillRecord
    <2>2. CASE TakeReply
      <3>1. Shifted(1)
        BY <1>1, <2>2, TakeShifts
      <3>2. QED BY <1>1, <3>1, ShiftKeeps DEF WillRecord
    <2>3. QED BY <2>1, <2>2
  <1>3. QED BY <1>2 DEF WillRecord

(* An answer is queued behind those that are under way, and says no less.  *)
LEMMA RecordsHandles ==
  ASSUME TypeOK, TypeOK', Records, UNCHANGED <<started, wh_surplus, wh, measured, reading>>,
         request' = None, NEW r \in Reply, Queued(r), r.kind = "DATA" => r.wh = wh
  PROVE  Records'
  <1> USE DEF Records
  <1>1. replies \in Seq(Reply) /\ replies' \in Seq(Reply) /\ Len(replies) <= QueueSize
        /\ wh \in Nat /\ wh_surplus \in Nat /\ reading \in Nat
    BY DEF TypeOK
  <1>2. DataBetween(reading, wh)' /\ DataInOrder'
    <2>1. \/ Shifted(0)
          \/ \E d \in {0, 1} :
               /\ Len(replies') > 0 /\ replies'[Len(replies')] = r
               /\ \A k \in 1..(Len(replies') - 1) :
                    k + d \in Reports /\ replies'[k] = replies[k + d]
      BY <1>1, QueueShifts
    <2>2. CASE Shifted(0)
      <3>1. DataInOrder'
        BY <1>1, <2>2, ShiftKeeps
      <3>2. \A k \in Reports' : IsData(k)' =>
              reading <= wh_surplus' + replies'[k].wh /\ replies'[k].wh <= wh
        BY <1>1, <2>2, ShiftKeeps
      <3>3. QED BY <3>1, <3>2 DEF DataBetween
    <2>3. ASSUME NEW d \in {0, 1}, Len(replies') > 0, replies'[Len(replies')] = r,
                 \A k \in 1..(Len(replies') - 1) :
                   k + d \in Reports /\ replies'[k] = replies[k + d]
          PROVE  DataBetween(reading, wh)' /\ DataInOrder'
      <3>0. PICK n \in Nat : n = Len(replies')
        BY <1>1
      <3>1. replies'[n] = r /\ (IsData(n)' => replies'[n].wh = wh)
        BY <2>3, <3>0 DEF IsData
      <3>2. \A k \in Reports' : k = n \/ k \in 1..(n - 1)
        BY <3>0 DEF Reports
      <3>3. \A k \in 1..(n - 1) : (IsData(k)' <=> IsData(k + d)) /\ k + d \in Reports
                                  /\ replies'[k] = replies[k + d]
        BY <2>3, <3>0 DEF IsData
      <3>4. \A k \in 1..(n - 1) : IsData(k)' =>
              reading <= wh_surplus + replies'[k].wh /\ replies'[k].wh <= wh
        BY <3>3 DEF DataBetween
      <3>5. DataBetween(reading, wh)'
        BY <1>1, <3>1, <3>2, <3>4 DEF DataBetween
      <3>6. ASSUME NEW j \in Reports', NEW k \in Reports', j < k, IsData(j)', IsData(k)'
            PROVE  replies'[j].wh <= replies'[k].wh
        <4>1. j \in 1..(n - 1)
          BY <3>0, <3>6 DEF Reports
        <4>2. CASE k = n
          BY <3>1, <3>4, <3>6, <4>1, <4>2
        <4>3. CASE k # n
          <5>1. k \in 1..(n - 1) /\ j + d < k + d
            BY <3>2, <3>6, <4>1, <4>3
          <5>2. QED BY <3>3, <3>6, <4>1, <5>1 DEF DataInOrder
        <4>4. QED BY <4>2, <4>3
      <3>7. QED BY <3>5, <3>6 DEF DataInOrder
    <2>4. QED BY <2>1, <2>2, <2>3
  <1>3. QED BY <1>2 DEF None

LEMMA SessionHandles == IInv /\ TypeOK' /\ HandleRequest => SessionShape'
  <1> SUFFICES ASSUME IInv, TypeOK', HandleRequest, undisturbed' PROVE SessionShape'
    BY DEF SessionShape
  <1> USE DEF env, host, device, history
  <1>1. TypeOK
    BY DEF IInv
  <1>2. /\ request # None /\ request' = None /\ UNCHANGED <<env, host, history>>
        /\ \/ request = "DATA" /\ Queued([kind |-> "DATA", wh |-> wh]) /\ UNCHANGED device
           \/ request = "STATUS" /\ UNCHANGED device
              /\ Queued([kind |-> "STATUS", on |-> on, started |-> started])
           \/ request = "ONOFF" /\ on' = ~on /\ UNCHANGED <<started, wh, replies>>
           \/ /\ request = "STARTSTOP" /\ started' = ~started
              /\ wh' = (IF started THEN wh ELSE 0) /\ UNCHANGED <<on, replies>>
    BY <1>1, HandleCases
  <1>3. /\ reading <= measured
        /\ InSession => Records \/ WillRecord
        /\ InRestart => Restarts
        /\ InSession' <=> InSession
        /\ InRestart' <=> InRestart
    BY <1>2 DEF IInv, SessionShape, InSession, InRestart
  <1>4. wh_surplus \in Nat /\ reading \in Nat /\ measured \in Nat /\ started \in BOOLEAN
        /\ wh \in Nat
    BY <1>1 DEF TypeOK
  <1>5. ASSUME InSession PROVE Records' \/ WillRecord'
    <2>1. CASE Records
      <3>1. CASE request = "DATA"
        <4>1. PICK r \in Reply : Queued(r) /\ (r.kind = "DATA" => r.wh = wh)
          BY <1>1, <1>2, <3>1, Answers
        <4>2. UNCHANGED <<started, wh_surplus, wh, measured, reading>>
          BY <1>2, <3>1
        <4>3. QED BY <1>1, <1>2, <2>1, <4>1, <4>2, RecordsHandles
      <3>2. CASE request = "STATUS"
        <4>1. PICK r \in Reply : Queued(r) /\ (r.kind = "DATA" => r.wh = wh)
          BY <1>1, <1>2, <3>2, Answers
        <4>2. UNCHANGED <<started, wh_surplus, wh, measured, reading>>
          BY <1>2, <3>2
        <4>3. QED BY <1>1, <1>2, <2>1, <4>1, <4>2, RecordsHandles
      <3>3. CASE request = "ONOFF"
        BY <1>1, <1>2, <2>1, <3>3, RecordsShifts DEF None
      <3>4. QED BY <1>2, <2>1, <3>1, <3>2, <3>3 DEF Records
    <2>2. CASE WillRecord
      <3>1. /\ started' /\ wh' = 0 /\ replies' = replies /\ request' = None
            /\ UNCHANGED <<wh_surplus, reading, measured>>
        BY <1>2, <1>4, <2>2 DEF WillRecord
      <3>2. NoData'
        BY <2>2, <3>1, SameReports DEF WillRecord
      <3>3. DataBetween(reading, wh)' /\ DataInOrder'
        BY <3>2 DEF NoData, DataBetween, DataInOrder
      <3>4. wh_surplus' + wh' = wh_surplus
        BY <1>4, <3>1
      <3>5. QED BY <2>2, <3>1, <3>3, <3>4 DEF WillRecord, Records, None
    <2>3. QED BY <1>3, <1>5, <2>1, <2>2
  <1>6. ASSUME InRestart PROVE Restarts'
    <2>1. Restarts /\ (pc = "restartStop" => request \in {None, "DATA"})
      BY <1>3, <1>6 DEF IInv, CallShape
    <2>2. CASE pc = "restartStop"
      BY <1>2, <2>1, <2>2 DEF Restarts
    <2>3. CASE pc = "restartStart"
      BY <1>2, <2>1, <2>3 DEF Restarts, None
    <2>4. QED BY <1>6, <2>2, <2>3 DEF InRestart
  <1>7. QED BY <1>2, <1>3, <1>5, <1>6 DEF SessionShape

(* The value read is what was read before, or more; at the maximum it is   *)
(* taken over into wh_surplus.                                             *)
LEMMA DataReadKeeps ==
  ASSUME IInv, TypeOK', DataRead, undisturbed
  PROVE  /\ reading' <= measured /\ reading <= reading'
         /\ pc' = "idle" => Records'
         /\ pc' = "restartStop" => Restarts'
  <1> USE DEF device, history
  <1> DEFINE v == Head(replies).wh
  <1>1. /\ pc = "dataRead" /\ TakeReply /\ Head(replies).kind = "DATA"
        /\ UNCHANGED <<request, started, wh, measured>>
        /\ \/ wh_surplus' = wh_surplus + v /\ pc' = "restartStop" /\ reading' = reading
           \/ reading' = wh_surplus + v /\ pc' = "idle" /\ wh_surplus' = wh_surplus
    BY DEF DataRead, SurplusAfter
  <1>2. TypeOK /\ request \in {None, "DATA"} /\ allocated
    BY <1>1 DEF IInv, CallShape
  <1>3. Records
    BY <1>1, <1>2 DEF IInv, SessionShape, InSession, WillRecord, None
  <1>4. replies \in Seq(Reply) /\ replies' \in Seq(Reply) /\ wh \in Nat /\ wh_surplus \in Nat
        /\ reading \in Nat /\ measured \in Nat
    BY <1>2 DEF TypeOK
  <1>5. Shifted(1) /\ 1 \in Reports /\ Head(replies) = replies[1]
    BY <1>1, <1>4, TakeShifts
  <1>6. v \in Nat /\ reading <= wh_surplus + v /\ v <= wh
    <2>1. IsData(1) /\ v = replies[1].wh
      BY <1>1, <1>5 DEF IsData
    <2>2. QED BY <1>3, <1>4, <1>5, <2>1, Elements DEF Records, DataBetween
  <1>7. wh_surplus + wh <= measured /\ reading <= wh_surplus + wh /\ started
        /\ DataBetween(reading, wh) /\ DataInOrder
    BY <1>3 DEF Records
  <1>8. CASE pc' = "restartStop"
    <2>1. wh_surplus' = wh_surplus + v /\ reading' = reading
      BY <1>1, <1>8
    <2>2. wh_surplus' <= measured /\ reading <= wh_surplus' /\ reading <= measured
      BY <1>4, <1>6, <1>7, <2>1
    <2>3. QED BY <1>1, <1>4, <1>7, <1>8, <2>1, <2>2 DEF Restarts
  <1>9. CASE pc' = "idle"
    <2>1. wh_surplus' = wh_surplus /\ reading' = wh_surplus + v
      BY <1>1, <1>9
    <2>2. reading' <= wh_surplus' + wh' /\ reading' <= measured /\ reading <= reading'
      BY <1>1, <1>4, <1>6, <1>7, <2>1
    <2>3. DataInOrder'
      BY <1>4, <1>5, <1>7, ShiftKeeps
    <2>4. ASSUME NEW k \in Reports', IsData(k)'
          PROVE  reading' <= wh_surplus' + replies'[k].wh /\ replies'[k].wh <= wh'
      <3>1. k + 1 \in Reports /\ replies'[k] = replies[k + 1] /\ 1 < k + 1
        BY <1>5 DEF Shifted, Reports
      <3>2. IsData(k + 1) /\ IsData(1)
        BY <1>1, <1>5, <2>4, <3>1 DEF IsData
      <3>3. v <= replies[k + 1].wh /\ replies[k + 1].wh <= wh /\ replies[k + 1].wh \in Nat
        <4>1. v <= replies[k + 1].wh
          BY <1>5, <1>7, <3>1, <3>2 DEF DataInOrder
        <4>2. replies[k + 1].wh <= wh
          BY <1>7, <3>1, <3>2 DEF DataBetween
        <4>3. replies[k + 1].wh \in 0..MaxEnergy
          BY <1>4, <3>1, <3>2, Elements
        <4>4. QED BY <4>1, <4>2, <4>3
      <3>4. QED BY <1>1, <1>4, <1>6, <2>1, <3>1, <3>3
    <2>5. DataBetween(reading, wh)'
      BY <2>4 DEF DataBetween
    <2>6. QED BY <1>1, <1>2, <1>7, <1>9, <2>1, <2>2, <2>3, <2>5 DEF Records, None
  <1>10. QED BY <1>1, <1>8, <1>9

LEMMA SessionStep == IInv /\ TypeOK' /\ [Next]_vars => SessionShape'
  <1> SUFFICES ASSUME IInv, TypeOK', [Next]_vars, undisturbed' PROVE SessionShape'
    BY DEF SessionShape
  <1> USE DEF env, host, device, history, InSession, InRestart
  <1>1. TypeOK /\ CallShape
    BY DEF IInv
  <1>2. undisturbed => /\ reading <= measured
                       /\ InSession => Records \/ WillRecord
                       /\ InRestart => Restarts
    BY DEF IInv, SessionShape
  <1>3. wh_surplus \in Nat /\ reading \in Nat /\ measured \in Nat /\ wh \in Nat
        /\ started \in BOOLEAN
    BY <1>1 DEF TypeOK
  <1>4. CASE InitOpen \/ Finish
    <2>1. reading' = 0 /\ ~InSession' /\ ~InRestart' /\ measured' = measured
      BY <1>4 DEF InitOpen, Finish
    <2>2. QED BY <1>3, <2>1 DEF SessionShape
  <1>5. CASE RequestStatus \/ StatusFails \/ StatusMissing \/ RequestOnOff \/ FinishCall
    <2>1. undisturbed /\ UNCHANGED <<reading, measured>> /\ ~InSession' /\ ~InRestart'
      BY <1>5 DEF RequestStatus, StatusFails, StatusMissing, RequestOnOff, FinishCall
    <2>2. QED BY <1>2, <2>1 DEF SessionShape
  <1>6. CASE StatusRead
    <2>1. /\ wh_surplus = 0 /\ reading = 0 /\ undisturbed /\ pc = "statusRead"
          /\ UNCHANGED <<reading, wh_surplus, wh, measured, undisturbed, request, started>>
      BY <1>1, <1>6 DEF StatusRead, CallShape, InInit
    <2>2. NoData' /\ pc' \in {"onoff", "start", "idle"} /\ (pc' = "idle" => started)
          /\ request \in {None, "STATUS"}
      BY <1>6, StatusReadFinds
    <2>3. DataBetween(reading, wh)' /\ DataInOrder'
      BY <2>2 DEF NoData, DataBetween, DataInOrder
    <2>4. wh <= measured
      BY DEF IInv, DeviceShape
    <2>5. pc' = "idle" => Records'
      BY <1>3, <2>1, <2>2, <2>3, <2>4 DEF Records, None
    <2>6. QED BY <1>3, <2>1, <2>2, <2>5 DEF SessionShape
  <1>7. CASE RequestStart
    <2>1. /\ pc = "start" /\ pc' \in {"idle", "finish"} /\ undisturbed
          /\ UNCHANGED <<reading, wh_surplus, measured, started, replies>>
          /\ pc' = "idle" => request' = "STARTSTOP"
      BY <1>7 DEF RequestStart, Write
    <2>2. wh_surplus = 0 /\ reading = 0 /\ ~started /\ NoData
      BY <2>1 DEF IInv, CallShape, InitShape, InInit
    <2>3. pc' = "idle" => WillRecord'
      BY <1>3, <2>1, <2>2, SameReports DEF WillRecord
    <2>4. QED BY <1>3, <2>1, <2>2, <2>3 DEF SessionShape
  <1>8. CASE ReadCall \/ DataFails \/ DataMissing \/ RequestData
    <2>1. /\ pc \in {"idle", "dataWrite", "dataRead"} /\ ~InRestart' /\ undisturbed
          /\ UNCHANGED <<reading, wh_surplus, measured, wh, started>>
          /\ replies' = replies \/ TakeReply
          /\ request' = request \/ (request = None /\ request' = "DATA")
      BY <1>8 DEF ReadCall, DataFails, DataMissing, RequestData, Write, NoReply
    <2>2. InSession
      BY <1>1, <1>8, <2>1 DEF CallShape, ReadCall, DataFails, DataMissing, RequestData
    <2>3. CASE Records
      <3>1. request' # "STARTSTOP"
        BY <2>1, <2>3 DEF Records
      <3>2. QED BY <1>1, <1>2, <2>1, <2>3, <3>1, RecordsShifts DEF SessionShape
    <2>4. CASE WillRecord
      <3>1. request' = request
        BY <2>1, <2>4 DEF WillRecord, None
      <3>2. QED BY <1>1, <1>2, <2>1, <2>4, <3>1, WillRecordShifts DEF SessionShape
    <2>5. QED BY <1>2, <2>1, <2>2, <2>3, <2>4
  <1>9. CASE DataRead
    <2>1. undisturbed /\ measured' = measured /\ pc' \in {"idle", "restartStop"}
      BY <1>9 DEF DataRead
    <2>2. QED BY <1>9, <2>1, DataReadKeeps DEF SessionShape
  <1>10. CASE RestartStop
    <2>1. /\ pc = "restartStop" /\ pc' = "restartStart" /\ undisturbed /\ replies = <<>>
          /\ request' = "STARTSTOP"
          /\ UNCHANGED <<reading, wh_surplus, measured, started, replies>>
      BY <1>10 DEF RestartStop, Write
    <2>2. Restarts /\ started /\ reading <= measured
      BY <1>2, <2>1 DEF Restarts
    <2>3. QED BY <2>1, <2>2 DEF SessionShape, Restarts
  <1>11. CASE RestartStart
    <2>1. /\ pc = "restartStart" /\ pc' = "idle" /\ undisturbed /\ request = None
          /\ request' = "STARTSTOP" /\ reading' = wh_surplus
          /\ UNCHANGED <<wh_surplus, measured, started, replies>>
      BY <1>11 DEF RestartStart, Write
    <2>2. /\ wh_surplus <= measured /\ replies = <<>>
          /\ (started /\ request = "STARTSTOP") \/ (~started /\ request = None)
      BY <1>2, <2>1 DEF Restarts
    <2>3. ~started /\ NoData'
      BY <2>1, <2>2, NoReportsLeft DEF None
    <2>4. WillRecord'
      BY <1>3, <2>1, <2>2, <2>3 DEF WillRecord
    <2>5. QED BY <1>3, <2>1, <2>2, <2>4 DEF SessionShape
  <1>12. CASE HandleRequest
    BY <1>12, SessionHandles
  <1>13. CASE Measure
    <2>1. /\ undisturbed /\ started /\ wh' = wh + 1 /\ measured' = measured + 1
          /\ UNCHANGED <<pc, allocated, reading, wh_surplus, request, started, replies>>
      BY <1>13 DEF Measure
    <2>2. InSession => Records
      BY <1>2, <2>1 DEF WillRecord
    <2>3. ASSUME Records PROVE Records'
      <3>1. DataInOrder'
        BY <2>1, <2>3, SameReports DEF Records
      <3>2. ASSUME NEW k \in Reports', IsData(k)'
            PROVE  reading' <= wh_surplus' + replies'[k].wh /\ replies'[k].wh <= wh'
        <4>1. k \in Reports /\ IsData(k) /\ replies'[k] = replies[k]
          BY <2>1, <3>2 DEF Reports, IsData
        <4>2. reading <= wh_surplus + replies[k].wh /\ replies[k].wh <= wh
          BY <2>3, <4>1 DEF Records, DataBetween
        <4>3. replies[k].wh \in Nat
          BY <1>1, <4>1, Elements DEF TypeOK
        <4>4. QED BY <1>3, <2>1, <4>1, <4>2, <4>3
      <3>3. DataBetween(reading, wh)'
        BY <3>2 DEF DataBetween
      <3>4. wh_surplus + (wh + 1) <= measured + 1 /\ reading <= wh_surplus + (wh + 1)
        BY <1>3, <2>3 DEF Records
      <3>5. QED BY <2>1, <2>3, <3>1, <3>3, <3>4 DEF Records
    <2>4. Restarts => Restarts'
      BY <1>3, <2>1 DEF Restarts
    <2>5. reading <= measured + 1
      BY <1>2, <1>3, <2>1
    <2>6. QED BY <1>2, <2>1, <2>2, <2>3, <2>4, <2>5 DEF SessionShape
  <1>14. CASE UNCHANGED vars
    <2>1. /\ UNCHANGED <<pc, allocated, reading, wh_surplus, request, started, replies,
                         undisturbed, measured, wh>>
      BY <1>14 DEF vars
    <2>2. Records => Records'
      <3>1. Records => request' # "STARTSTOP"
        BY <2>1 DEF Records
      <3>2. QED BY <1>1, <2>1, <3>1, RecordsShifts
    <2>3. WillRecord => WillRecord'
      BY <1>1, <2>1, WillRecordShifts
    <2>4. Restarts => Restarts'
      BY <2>1 DEF Restarts
    <2>5. QED BY <1>2, <2>1, <2>2, <2>3, <2>4 DEF SessionShape
  <1>15. QED
    BY <1>4, <1>5, <1>6, <1>7, <1>8, <1>9, <1>10, <1>11, <1>12, <1>13, <1>14 DEF Next, InCall

-----------------------------------------------------------------------------
(* IInv is inductive.                                                      *)

LEMMA InitEstablishes == Init => IInv
  <1> SUFFICES ASSUME Init PROVE IInv
    OBVIOUS
  <1> USE OspAssumption DEF Init
  <1>1. replies \in Seq(Reply) /\ Len(replies) = 0
    OBVIOUS
  <1>2. undisturbed \in BOOLEAN /\ stopAsked \in BOOLEAN /\ asked \in BOOLEAN
        /\ allocated \in BOOLEAN
    OBVIOUS
  <1>3. wh \in 0..MaxEnergy /\ measured \in Nat /\ measured <= MaxEnergy /\ wh <= measured
    OBVIOUS
  <1>4. pc \in AppPc /\ request \in Requests \cup {None}
    BY DEF AppPc
  <1>5. TypeOK
    BY <1>1, <1>2, <1>3, <1>4 DEF TypeOK
  <1>6. CallShape /\ DeviceShape /\ InitShape
    BY <1>3 DEF CallShape, DeviceShape, InitShape, InInit
  <1>7. SessionShape
    BY <1>3 DEF SessionShape, InSession, InRestart
  <1>8. QED BY <1>5, <1>6, <1>7 DEF IInv

(* What the answers under way, the device's counter and the surplus say of *)
(* the energy measured fits at every step of every call.                   *)
THEOREM Invariance == Spec => []IInv
  <1>1. IInv /\ [Next]_vars => IInv'
    BY TypeCorrectStep, CallStep, DeviceStep, InitStep, SessionStep DEF IInv
  <1>2. QED BY InitEstablishes, <1>1, PTL DEF Spec

(* Every variable keeps its type: no loop counts its tries below zero and  *)
(* no answer holds more than the device can have measured.                 *)
THEOREM TypeCorrect == Spec => []TypeOK
  <1>1. IInv => TypeOK
    BY DEF IInv
  <1>2. QED BY <1>1, Invariance, PTL

(* The program reports no more than the device has measured, however many  *)
(* restarts there were, unless one met an answer or a failed write.        *)
THEOREM NothingIsCountedTwice == Spec => []NoOverCount
  <1>1. IInv => NoOverCount
    BY DEF IInv, SessionShape, NoOverCount
  <1>2. QED BY <1>1, Invariance, PTL

(* Between calls the device records, or is about to: init starts one that  *)
(* is stopped, and no restart leaves it stopped.                           *)
THEOREM TheDeviceRecords == Spec => []Recording
  <1>1. IInv => Recording
    BY DEF IInv, SessionShape, InSession, Records, WillRecord, Recording, None
  <1>2. QED BY <1>1, Invariance, PTL

(* Within a session no successful read is below the one before it, through *)
(* any number of undisturbed restarts.                                     *)
THEOREM ReadingGrows == Spec => ReadingNeverDecreases
  <1>1. ASSUME IInv, TypeOK', [Next]_vars, allocated, allocated', undisturbed'
        PROVE  reading' >= reading
    <2> USE DEF env, host, device, history
    <2>1. reading \in Nat /\ wh_surplus \in Nat
      BY <1>1 DEF IInv, TypeOK
    <2>2. CASE DataRead
      <3>1. undisturbed
        BY <1>1, <2>2 DEF DataRead
      <3>2. reading <= reading' /\ reading' \in Nat
        BY <1>1, <2>2, <3>1, DataReadKeeps DEF TypeOK
      <3>3. QED BY <2>1, <3>2
    <2>3. CASE RestartStart
      <3>1. undisturbed /\ pc = "restartStart" /\ reading' = wh_surplus
        BY <1>1, <2>3 DEF RestartStart
      <3>2. reading <= wh_surplus
        BY <1>1, <3>1 DEF IInv, SessionShape, InRestart, Restarts
      <3>3. QED BY <2>1, <3>1, <3>2
    <2>4. CASE ~(DataRead \/ RestartStart)
      <3>1. reading' = reading
        BY <1>1, <2>4
           DEF Next, InCall, InitOpen, ReadCall, FinishCall, RequestStatus, StatusFails,
               StatusMissing, StatusRead, RequestOnOff, RequestStart, RequestData, DataFails,
               DataMissing, RestartStop, Finish, HandleRequest, Measure, vars
      <3>2. QED BY <2>1, <3>1
    <2>5. QED BY <2>2, <2>3, <2>4
  <1>2. IInv /\ TypeOK' /\ [Next]_vars =>
          [allocated /\ allocated' /\ undisturbed' => reading' >= reading]_vars
    BY <1>1
  <1>3. QED BY <1>2, Invariance, TypeCorrect, PTL DEF Spec, ReadingNeverDecreases
-----------------------------------------------------------------------------
(* How many steps of its own a call still takes at most, whatever the      *)
(* device answers: a request for data takes two for each try, the status   *)
(* one for each read, and init may ask for the status twice.               *)
CallRank ==
  CASE pc = "dataWrite" -> 2 * tries + 4
    [] pc = "dataRead" -> 2 * tries + 3
    [] pc = "restartStop" -> 2
    [] pc = "restartStart" -> 1
    [] pc = "status" -> (IF asked THEN 0 ELSE StatusRetries + 2) + StatusRetries + 3
    [] pc = "statusRead" -> (IF asked THEN 0 ELSE StatusRetries + 2) + tries + 2
    [] pc = "onoff" -> StatusRetries + 4
    [] pc = "start" -> 2
    [] pc = "finish" -> 1
    [] OTHER -> 0

Longest == IF Retries >= StatusRetries THEN 2 * Retries + 5 ELSE 2 * StatusRetries + 5

(* The tries of a call are counted down from where it set them; the device *)
(* is asked to turn on no more than once.                                  *)
TriesShape ==
  /\ pc \in {"dataWrite", "dataRead"} => tries <= Retries
  /\ pc = "statusRead" => tries \in 1..StatusRetries
  /\ pc = "onoff" => ~asked

LEMMA TriesShapeStep == IInv /\ TriesShape /\ [Next]_vars => TriesShape'
  <1> SUFFICES ASSUME IInv, TriesShape, [Next]_vars PROVE TriesShape'
    OBVIOUS
  <1>1. tries \in Nat /\ Retries \in Nat /\ StatusRetries \in Nat \ {0}
    BY OspAssumption DEF IInv, TypeOK
  <1>2. CASE InitOpen \/ ReadCall \/ FinishCall
    BY <1>1, <1>2 DEF InitOpen, ReadCall, FinishCall, TriesShape
  <1>3. CASE RequestStatus \/ StatusFails \/ StatusMissing \/ StatusRead
    BY <1>1, <1>3 DEF RequestStatus, StatusFails, StatusMissing, LastTry, StatusRead, TriesShape
  <1>4. CASE RequestOnOff \/ RequestStart \/ Finish
    BY <1>1, <1>4 DEF RequestOnOff, RequestStart, Finish, TriesShape
  <1>5. CASE RequestData \/ DataFails \/ DataMissing \/ DataRead
    BY <1>1, <1>5 DEF RequestData, DataFails, DataMissing, TriesLeft, DataRead, TriesShape
  <1>6. CASE RestartStop \/ RestartStart
    BY <1>6 DEF RestartStop, RestartStart, TriesShape
  <1>7. CASE HandleRequest \/ Measure \/ UNCHANGED vars
    <2>1. UNCHANGED host
      BY <1>7, Zenon DEF HandleRequest, Measure, vars
    <2>2. QED BY <2>1 DEF host, TriesShape
  <1>8. QED BY <1>2, <1>3, <1>4, <1>5, <1>6, <1>7 DEF Next, InCall

LEMMA RankIsBounded == IInv /\ TriesShape => CallRank \in 0..Longest
  <1> SUFFICES ASSUME IInv, TriesShape PROVE CallRank \in 0..Longest
    OBVIOUS
  <1>1. tries \in Nat /\ Retries \in Nat /\ StatusRetries \in Nat \ {0} /\ asked \in BOOLEAN
    BY OspAssumption DEF IInv, TypeOK
  <1>2. CASE pc \in {"dataWrite", "dataRead"}
    BY <1>1, <1>2 DEF CallRank, TriesShape, Longest
  <1>3. CASE pc \in {"status", "statusRead"}
    BY <1>1, <1>3 DEF CallRank, TriesShape, Longest
  <1>4. CASE pc \notin {"dataWrite", "dataRead", "status", "statusRead"}
    BY <1>1, <1>4 DEF CallRank, Longest
  <1>5. QED BY <1>2, <1>3, <1>4

(* Every call returns after at most 5 steps of its own, and two for each   *)
(* try it is allowed: the tries go down with each answer that is missing,  *)
(* late or of another kind, and init turns the device on no more than      *)
(* once.  That the steps are taken is CallsReturn.                         *)
THEOREM CallsAreShort ==
  Spec => [](CallRank \in 0..Longest) /\ [][pc # "idle" => CallRank' < CallRank]_host
  <1>1. Init => TriesShape
    BY DEF Init, TriesShape
  <1>2. ASSUME IInv, TriesShape, pc # "idle", InCall
        PROVE  CallRank' < CallRank
    <2>1. tries \in Nat /\ Retries \in Nat /\ StatusRetries \in Nat \ {0} /\ asked \in BOOLEAN
      BY <1>2, OspAssumption DEF IInv, TypeOK
    <2>2. CASE RequestStatus \/ StatusFails
      BY <2>1, <2>2 DEF RequestStatus, StatusFails, CallRank
    <2>3. CASE StatusMissing
      BY <1>2, <2>1, <2>3 DEF StatusMissing, LastTry, TriesShape, CallRank
    <2>4. CASE StatusRead
      BY <1>2, <2>1, <2>4 DEF StatusRead, TriesShape, CallRank
    <2>5. CASE RequestOnOff \/ RequestStart \/ Finish
      BY <1>2, <2>1, <2>5 DEF RequestOnOff, RequestStart, Finish, TriesShape, CallRank
    <2>6. CASE RequestData \/ DataFails \/ DataRead
      BY <2>1, <2>6 DEF RequestData, DataFails, DataRead, CallRank
    <2>7. CASE DataMissing
      BY <2>1, <2>7 DEF DataMissing, TriesLeft, CallRank
    <2>8. CASE RestartStop \/ RestartStart
      BY <2>8 DEF RestartStop, RestartStart, CallRank
    <2>9. QED BY <1>2, <2>2, <2>3, <2>4, <2>5, <2>6, <2>7, <2>8 DEF InCall
  <1>3. IInv /\ TriesShape /\ [Next]_vars => [pc # "idle" => CallRank' < CallRank]_host
    BY <1>2 DEF Next, InitOpen, ReadCall, FinishCall, HandleRequest, Measure, vars
  <1>4. QED BY <1>1, <1>3, TriesShapeStep, RankIsBounded, Invariance, PTL DEF Spec
-----------------------------------------------------------------------------
(* When the request of em_osp_finish stops the device: it is called at the *)
(* end of a session, and no restart has failed or is still under way.      *)
CalledInSession ==
  pc # "finish" /\ pc' = "finish" =>
    pc = "idle" /\ allocated /\ undisturbed /\ request # "STARTSTOP"

WillStop ==
  /\ pc = "finish" => started /\ request # "STARTSTOP" /\ ~stopAsked
  /\ stopAsked => /\ pc = "idle" /\ ~allocated
                  /\ \/ request = "STARTSTOP" /\ started
                     \/ request = None /\ ~started

LEMMA WillStopStep ==
  ASSUME IInv, WillStop, [Next]_vars, CalledInSession PROVE WillStop'
  <1> USE DEF WillStop, CalledInSession
  <1>1. CASE InitOpen
    BY <1>1 DEF InitOpen, device
  <1>2. CASE FinishCall
    BY <1>2 DEF FinishCall, device, history, IInv, SessionShape, InSession, Records, WillRecord
  <1>3. CASE Finish
    BY <1>3 DEF Finish, Write, device
  <1>4. CASE \/ ReadCall \/ RequestStatus \/ StatusFails \/ StatusMissing \/ StatusRead
             \/ RequestOnOff \/ RequestStart \/ RequestData \/ DataFails \/ DataMissing
             \/ DataRead \/ RestartStop \/ RestartStart
    <2>1. ~stopAsked /\ stopAsked' = stopAsked /\ pc' # "finish"
      BY <1>4 DEF ReadCall, RequestStatus, StatusFails, StatusMissing, StatusRead, RequestOnOff,
              RequestStart, RequestData, DataFails, DataMissing, DataRead, RestartStop,
              RestartStart, history
    <2>2. QED BY <2>1
  <1>5. CASE HandleRequest
    <2>1. UNCHANGED <<pc, allocated, stopAsked>> /\ request # None /\ request' = None
      BY <1>5, Zenon DEF HandleRequest, host, history
    <2>2. request # "STARTSTOP" => started' = started
      BY <1>5 DEF HandleRequest, device, IInv, TypeOK, Requests
    <2>3. request = "STARTSTOP" => started' = ~started
      BY <1>5 DEF HandleRequest
    <2>4. QED BY <2>1, <2>2, <2>3 DEF None
  <1>6. CASE Measure \/ UNCHANGED vars
    BY <1>6 DEF Measure, vars, host, device, history
  <1>7. QED BY <1>1, <1>2, <1>3, <1>4, <1>5, <1>6 DEF Next, InCall

(* "Environment variable to stop the device recording on finish": where    *)
(* em_osp_finish is called only at the end of a session, in which no       *)
(* restart failed or is still to be handled, its request stops the device. *)
(* It fails to only as the clean-up of a failed init or after a restart.   *)
THEOREM FinishStopsWhatRecords ==
  Spec /\ [][CalledInSession]_vars => []FinishStopsDevice
  <1>1. Init => WillStop
    BY DEF Init, WillStop
  <1>2. ASSUME IInv, WillStop, [Next]_vars, [CalledInSession]_vars PROVE WillStop'
    <2>1. CASE UNCHANGED vars
      BY <1>2, <2>1 DEF vars, host, device, history, WillStop
    <2>2. CASE CalledInSession
      BY <1>2, <2>2, WillStopStep
    <2>3. QED BY <1>2, <2>1, <2>2
  <1>3. WillStop => FinishStopsDevice
    BY DEF WillStop, FinishStopsDevice, None
  <1>4. QED BY <1>1, <1>2, <1>3, Invariance, PTL DEF Spec
=============================================================================
