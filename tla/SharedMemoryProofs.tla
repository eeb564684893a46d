------------------------- MODULE SharedMemoryProofs -------------------------
(***************************************************************************)
(* The safety of SharedMemory for any set of providers and of clients, and *)
(* any number of segments.                                                 *)
(***************************************************************************)
EXTENDS SharedMemory, TLAPS

(* IPC_EXCL: the segment of a provider that runs is the one the key names, *)
(* so that at most one provider is past shmget.                            *)
Owner(p) ==
  /\ pc[p] # "off" => shm_id[p] = key /\ key # 0
  /\ ems[p] = IF pc[p] \in {"attached", "store", "loop", "sleep", "finish", "detach"}
              THEN shm_id[p] ELSE 0

Owners == \A p \in Providers : Owner(p)
OneRuns == \A p, q \in Providers : pc[p] # "off" /\ pc[q] # "off" => p = q

(* A segment holds no more than its provider has read; one that has not    *)
(* been made holds nothing.                                                *)
Contents ==
  /\ key <= made
  /\ \A s \in Segments : s > made => energy_uj[s] = 0
  /\ \A p \in Providers : pc[p] # "off" => energy_uj[key] <= total[p]

ClientView(c) ==
  /\ cpc[c] # "closed" => found[c] # 0
  /\ cpc[c] = "open" /\ found[c] \notin failed => seen[c] <= energy_uj[found[c]]

ClientViews == \A c \in Clients : ClientView(c)

IInv == TypeOK /\ Owners /\ OneRuns /\ NothingLeaked /\ Contents /\ ClientViews

-----------------------------------------------------------------------------
(* A provider that runs has a segment of its own.                          *)
LEMMA RunningHasSegment ==
  ASSUME IInv, NEW p \in Providers, pc[p] # "off"
  PROVE  shm_id[p] \in Segments /\ shm_id[p] = key
  BY ShmemAssumption DEF IInv, TypeOK, Owners, Owner, Segments

LEMMA OpenHasSegment ==
  ASSUME IInv, NEW c \in Clients, cpc[c] # "closed" PROVE found[c] \in Segments
  BY ShmemAssumption DEF IInv, TypeOK, ClientViews, ClientView, Segments

LEMMA TypeCorrectStep == IInv /\ [Next]_vars => TypeOK'
  <1> SUFFICES ASSUME IInv, [Next]_vars PROVE TypeOK'
    OBVIOUS
  <1> USE ShmemAssumption DEF IInv, TypeOK, ProviderPc, ClientPc, Segments,
             kernel, memory, provider, client
  <1>1. ASSUME NEW p \in Providers, Create(p) PROVE TypeOK'
    <2>1. made' \in 0..MaxSegments /\ key' \in 0..MaxSegments
      BY <1>1 DEF Create
    <2>2. shm_id' \in [Providers -> 0..MaxSegments] /\ running' \in [Providers -> BOOLEAN]
      BY <1>1 DEF Create
    <2>3. total' \in [Providers -> 0..MaxEnergy] /\ pc' \in [Providers -> ProviderPc]
      BY <1>1 DEF Create
    <2>4. QED BY <1>1, <2>1, <2>2, <2>3 DEF Create
  <1>2. ASSUME NEW p \in Providers, Attach(p) PROVE TypeOK'
    BY <1>2 DEF Attach
  <1>3. ASSUME NEW p \in Providers, AttachFails(p) PROVE TypeOK'
    <2>1. shm_id[p] \in Segments
      BY <1>3, RunningHasSegment DEF AttachFails
    <2>2. abandoned' \subseteq Segments
      BY <1>3, <2>1 DEF AttachFails
    <2>3. pc' \in [Providers -> ProviderPc] /\ ems' \in [Providers -> 0..MaxSegments]
      BY <1>3 DEF AttachFails
    <2>4. QED BY <1>3, <2>2, <2>3 DEF AttachFails
  <1>4. ASSUME NEW p \in Providers, InitMonitor(p) PROVE TypeOK'
    BY <1>4 DEF InitMonitor
  <1>5. ASSUME NEW p \in Providers, StoreInterval(p) PROVE TypeOK'
    BY <1>5 DEF StoreInterval
  <1>6. ASSUME NEW p \in Providers, StoreEnergy(p) PROVE TypeOK'
    <2>1. total' \in [Providers -> 0..MaxEnergy] /\ energy_uj' \in [Segments -> 0..MaxEnergy]
      <3>1. CASE \E e \in total[p]..MaxEnergy : total' = [total EXCEPT ![p] = e]
                                            /\ energy_uj' = [energy_uj EXCEPT ![ems[p]] = e]
        <4>1. PICK e \in total[p]..MaxEnergy : total' = [total EXCEPT ![p] = e]
                                            /\ energy_uj' = [energy_uj EXCEPT ![ems[p]] = e]
          BY <3>1
        <4>2. e \in 0..MaxEnergy
          BY <4>1
        <4>3. QED BY <4>1, <4>2
      <3>2. CASE total' = total /\ energy_uj' = [energy_uj EXCEPT ![ems[p]] = 0]
        <4>1. 0 \in 0..MaxEnergy /\ energy_uj \in [Segments -> 0..MaxEnergy]
          OBVIOUS
        <4>2. energy_uj' \in [Segments -> 0..MaxEnergy]
          BY <3>2, <4>1
        <4>3. QED BY <3>2, <4>2
      <3>3. QED BY <1>6, <3>1, <3>2 DEF StoreEnergy
    <2>2. failed' \subseteq Segments
      <3>1. ems[p] \in Segments
        BY <1>6, RunningHasSegment DEF StoreEnergy, Owners, Owner
      <3>2. QED BY <1>6, <3>1 DEF StoreEnergy
    <2>3. pc' \in [Providers -> ProviderPc]
      BY <1>6 DEF StoreEnergy
    <2>4. QED BY <1>6, <2>1, <2>2, <2>3 DEF StoreEnergy
  <1>7. ASSUME NEW p \in Providers, Sleep(p) PROVE TypeOK'
    BY <1>7 DEF Sleep
  <1>8. ASSUME NEW p \in Providers, LeaveLoop(p) PROVE TypeOK'
    BY <1>8 DEF LeaveLoop
  <1>9. ASSUME NEW p \in Providers, FinishMonitor(p) PROVE TypeOK'
    BY <1>9 DEF FinishMonitor
  <1>10. ASSUME NEW p \in Providers, Detach(p) PROVE TypeOK'
    BY <1>10 DEF Detach
  <1>11. ASSUME NEW p \in Providers, Destroy(p) PROVE TypeOK'
    <2>1. shm_id[p] \in Segments
      BY <1>11, RunningHasSegment DEF Destroy
    <2>2. removed' \subseteq Segments
      BY <1>11, <2>1 DEF Destroy
    <2>3. key' \in 0..MaxSegments
      BY <1>11 DEF Destroy
    <2>4. pc' \in [Providers -> ProviderPc]
      BY <1>11 DEF Destroy
    <2>5. QED BY <1>11, <2>2, <2>3, <2>4 DEF Destroy
  <1>12. ASSUME NEW p \in Providers, Interrupt(p) PROVE TypeOK'
    BY <1>12 DEF Interrupt
  <1>13. ASSUME NEW p \in Providers, Kill(p) PROVE TypeOK'
    <2>1. shm_id[p] \in Segments
      BY <1>13, RunningHasSegment DEF Kill
    <2>2. abandoned' \subseteq Segments
      BY <1>13, <2>1 DEF Kill
    <2>3. pc' \in [Providers -> ProviderPc] /\ ems' \in [Providers -> 0..MaxSegments]
      BY <1>13 DEF Kill
    <2>4. QED BY <1>13, <2>2, <2>3 DEF Kill
  <1>14. ASSUME NEW c \in Clients, ClientFind(c) PROVE TypeOK'
    BY <1>14 DEF ClientFind
  <1>15. ASSUME NEW c \in Clients, ClientAttach(c) PROVE TypeOK'
    <2>1. cpc' \in [Clients -> ClientPc]
      BY <1>15 DEF ClientAttach
    <2>2. 0 \in 0..MaxEnergy
      OBVIOUS
    <2>3. seen' \in [Clients -> 0..MaxEnergy]
      BY <1>15, <2>2 DEF ClientAttach
    <2>4. QED BY <1>15, <2>1, <2>3 DEF ClientAttach
  <1>16. ASSUME NEW c \in Clients, ClientRead(c) PROVE TypeOK'
    <2>1. found[c] \in Segments
      BY <1>16, OpenHasSegment DEF ClientRead
    <2>2. energy_uj[found[c]] \in 0..MaxEnergy
      BY <2>1
    <2>3. QED BY <1>16, <2>2 DEF ClientRead
  <1>17. ASSUME NEW c \in Clients, ClientFinish(c) PROVE TypeOK'
    BY <1>17 DEF ClientFinish
  <1>18. CASE UNCHANGED vars
    BY <1>18 DEF vars
  <1>19. QED
    BY <1>1, <1>2, <1>3, <1>4, <1>5, <1>6, <1>7, <1>8, <1>9, <1>10,
       <1>11, <1>12, <1>13, <1>14, <1>15, <1>16, <1>17, <1>18 DEF Next, ProviderStep

(* Who holds which segment.                                                *)
LEMMA OwnersStep == IInv /\ [Next]_vars => Owners' /\ OneRuns'
  <1> SUFFICES ASSUME IInv, [Next]_vars PROVE Owners' /\ OneRuns'
    OBVIOUS
  <1> USE ShmemAssumption DEF IInv, TypeOK, Owners, Owner, OneRuns, kernel, memory, provider, client
  <1>1. ASSUME NEW p \in Providers, Create(p) PROVE Owners' /\ OneRuns'
    BY <1>1 DEF Create
  <1>2. ASSUME NEW p \in Providers, Attach(p) PROVE Owners' /\ OneRuns'
    BY <1>2 DEF Attach
  <1>3. ASSUME NEW p \in Providers, AttachFails(p) PROVE Owners' /\ OneRuns'
    BY <1>3 DEF AttachFails
  <1>4. ASSUME NEW p \in Providers, InitMonitor(p) PROVE Owners' /\ OneRuns'
    BY <1>4 DEF InitMonitor
  <1>5. ASSUME NEW p \in Providers, StoreInterval(p) PROVE Owners' /\ OneRuns'
    BY <1>5 DEF StoreInterval
  <1>6. ASSUME NEW p \in Providers, StoreEnergy(p) PROVE Owners' /\ OneRuns'
    BY <1>6 DEF StoreEnergy
  <1>7. ASSUME NEW p \in Providers, Sleep(p) PROVE Owners' /\ OneRuns'
    BY <1>7 DEF Sleep
  <1>8. ASSUME NEW p \in Providers, LeaveLoop(p) PROVE Owners' /\ OneRuns'
    BY <1>8 DEF LeaveLoop
  <1>9. ASSUME NEW p \in Providers, FinishMonitor(p) PROVE Owners' /\ OneRuns'
    BY <1>9 DEF FinishMonitor
  <1>10. ASSUME NEW p \in Providers, Detach(p) PROVE Owners' /\ OneRuns'
    BY <1>10 DEF Detach
  <1>11. ASSUME NEW p \in Providers, Destroy(p) PROVE Owners' /\ OneRuns'
    BY <1>11 DEF Destroy
  <1>12. ASSUME NEW p \in Providers, Interrupt(p) PROVE Owners' /\ OneRuns'
    BY <1>12 DEF Interrupt
  <1>13. ASSUME NEW p \in Providers, Kill(p) PROVE Owners' /\ OneRuns'
    BY <1>13 DEF Kill
  <1>14. ASSUME NEW c \in Clients, ClientFind(c) PROVE Owners' /\ OneRuns'
    BY <1>14 DEF ClientFind
  <1>15. ASSUME NEW c \in Clients, ClientAttach(c) PROVE Owners' /\ OneRuns'
    BY <1>15 DEF ClientAttach
  <1>16. ASSUME NEW c \in Clients, ClientRead(c) PROVE Owners' /\ OneRuns'
    BY <1>16 DEF ClientRead
  <1>17. ASSUME NEW c \in Clients, ClientFinish(c) PROVE Owners' /\ OneRuns'
    BY <1>17 DEF ClientFinish
  <1>18. CASE UNCHANGED vars
    BY <1>18 DEF vars
  <1>19. QED
    BY <1>1, <1>2, <1>3, <1>4, <1>5, <1>6, <1>7, <1>8, <1>9, <1>10,
       <1>11, <1>12, <1>13, <1>14, <1>15, <1>16, <1>17, <1>18 DEF Next, ProviderStep

(* What keeps the key taken.                                               *)
LEMMA NothingLeakedStep == IInv /\ [Next]_vars => NothingLeaked'
  <1> SUFFICES ASSUME IInv, [Next]_vars PROVE NothingLeaked'
    OBVIOUS
  <1> USE ShmemAssumption DEF IInv, TypeOK, Owners, Owner, OneRuns, NothingLeaked,
             kernel, memory, provider, client
  <1>1. ASSUME NEW p \in Providers, Create(p) PROVE NothingLeaked'
    BY <1>1 DEF Create
  <1>2. ASSUME NEW p \in Providers, Attach(p) PROVE NothingLeaked'
    BY <1>2 DEF Attach
  <1>3. ASSUME NEW p \in Providers, AttachFails(p) PROVE NothingLeaked'
    BY <1>3 DEF AttachFails
  <1>4. ASSUME NEW p \in Providers, InitMonitor(p) PROVE NothingLeaked'
    BY <1>4 DEF InitMonitor
  <1>5. ASSUME NEW p \in Providers, StoreInterval(p) PROVE NothingLeaked'
    BY <1>5 DEF StoreInterval
  <1>6. ASSUME NEW p \in Providers, StoreEnergy(p) PROVE NothingLeaked'
    BY <1>6 DEF StoreEnergy
  <1>7. ASSUME NEW p \in Providers, Sleep(p) PROVE NothingLeaked'
    BY <1>7 DEF Sleep
  <1>8. ASSUME NEW p \in Providers, LeaveLoop(p) PROVE NothingLeaked'
    BY <1>8 DEF LeaveLoop
  <1>9. ASSUME NEW p \in Providers, FinishMonitor(p) PROVE NothingLeaked'
    BY <1>9 DEF FinishMonitor
  <1>10. ASSUME NEW p \in Providers, Detach(p) PROVE NothingLeaked'
    BY <1>10 DEF Detach
  <1>11. ASSUME NEW p \in Providers, Destroy(p) PROVE NothingLeaked'
    BY <1>11 DEF Destroy
  <1>12. ASSUME NEW p \in Providers, Interrupt(p) PROVE NothingLeaked'
    BY <1>12 DEF Interrupt
  <1>13. ASSUME NEW p \in Providers, Kill(p) PROVE NothingLeaked'
    BY <1>13 DEF Kill
  <1>14. ASSUME NEW c \in Clients, ClientFind(c) PROVE NothingLeaked'
    BY <1>14 DEF ClientFind
  <1>15. ASSUME NEW c \in Clients, ClientAttach(c) PROVE NothingLeaked'
    BY <1>15 DEF ClientAttach
  <1>16. ASSUME NEW c \in Clients, ClientRead(c) PROVE NothingLeaked'
    BY <1>16 DEF ClientRead
  <1>17. ASSUME NEW c \in Clients, ClientFinish(c) PROVE NothingLeaked'
    BY <1>17 DEF ClientFinish
  <1>18. CASE UNCHANGED vars
    BY <1>18 DEF vars
  <1>19. QED
    BY <1>1, <1>2, <1>3, <1>4, <1>5, <1>6, <1>7, <1>8, <1>9, <1>10,
       <1>11, <1>12, <1>13, <1>14, <1>15, <1>16, <1>17, <1>18 DEF Next, ProviderStep

(* What is in the segments.                                                *)
LEMMA ContentsStep == IInv /\ [Next]_vars => Contents'
  <1> SUFFICES ASSUME IInv, [Next]_vars PROVE Contents'
    OBVIOUS
  <1> USE ShmemAssumption DEF IInv, TypeOK, Owners, Owner, OneRuns, Contents, Segments,
             kernel, memory, provider, client
  <1>1. ASSUME NEW p \in Providers, Create(p) PROVE Contents'
    BY <1>1 DEF Create
  <1>2. ASSUME NEW p \in Providers, Attach(p) PROVE Contents'
    BY <1>2 DEF Attach
  <1>3. ASSUME NEW p \in Providers, AttachFails(p) PROVE Contents'
    BY <1>3 DEF AttachFails
  <1>4. ASSUME NEW p \in Providers, InitMonitor(p) PROVE Contents'
    BY <1>4 DEF InitMonitor
  <1>5. ASSUME NEW p \in Providers, StoreInterval(p) PROVE Contents'
    BY <1>5 DEF StoreInterval
  <1>6. ASSUME NEW p \in Providers, StoreEnergy(p) PROVE Contents'
    BY <1>6 DEF StoreEnergy
  <1>7. ASSUME NEW p \in Providers, Sleep(p) PROVE Contents'
    BY <1>7 DEF Sleep
  <1>8. ASSUME NEW p \in Providers, LeaveLoop(p) PROVE Contents'
    BY <1>8 DEF LeaveLoop
  <1>9. ASSUME NEW p \in Providers, FinishMonitor(p) PROVE Contents'
    BY <1>9 DEF FinishMonitor
  <1>10. ASSUME NEW p \in Providers, Detach(p) PROVE Contents'
    BY <1>10 DEF Detach
  <1>11. ASSUME NEW p \in Providers, Destroy(p) PROVE Contents'
    BY <1>11 DEF Destroy
  <1>12. ASSUME NEW p \in Providers, Interrupt(p) PROVE Contents'
    BY <1>12 DEF Interrupt
  <1>13. ASSUME NEW p \in Providers, Kill(p) PROVE Contents'
    BY <1>13 DEF Kill
  <1>14. ASSUME NEW c \in Clients, ClientFind(c) PROVE Contents'
    BY <1>14 DEF ClientFind
  <1>15. ASSUME NEW c \in Clients, ClientAttach(c) PROVE Contents'
    BY <1>15 DEF ClientAttach
  <1>16. ASSUME NEW c \in Clients, ClientRead(c) PROVE Contents'
    BY <1>16 DEF ClientRead
  <1>17. ASSUME NEW c \in Clients, ClientFinish(c) PROVE Contents'
    BY <1>17 DEF ClientFinish
  <1>18. CASE UNCHANGED vars
    BY <1>18 DEF vars
  <1>19. QED
    BY <1>1, <1>2, <1>3, <1>4, <1>5, <1>6, <1>7, <1>8, <1>9, <1>10,
       <1>11, <1>12, <1>13, <1>14, <1>15, <1>16, <1>17, <1>18 DEF Next, ProviderStep

(* What the clients have seen.                                             *)
LEMMA ClientViewsStep == IInv /\ [Next]_vars => ClientViews'
  <1> SUFFICES ASSUME IInv, [Next]_vars PROVE ClientViews'
    OBVIOUS
  <1> USE ShmemAssumption DEF IInv, TypeOK, Owners, Owner, Contents, ClientViews, ClientView,
             kernel, memory, provider, client
  <1>1. ASSUME NEW p \in Providers, Create(p) PROVE ClientViews'
    BY <1>1 DEF Create
  <1>2. ASSUME NEW p \in Providers, Attach(p) PROVE ClientViews'
    BY <1>2 DEF Attach
  <1>3. ASSUME NEW p \in Providers, AttachFails(p) PROVE ClientViews'
    BY <1>3 DEF AttachFails
  <1>4. ASSUME NEW p \in Providers, InitMonitor(p) PROVE ClientViews'
    BY <1>4 DEF InitMonitor
  <1>5. ASSUME NEW p \in Providers, StoreInterval(p) PROVE ClientViews'
    BY <1>5 DEF StoreInterval
  <1>6. ASSUME NEW p \in Providers, StoreEnergy(p) PROVE ClientViews'
    <2> SUFFICES ASSUME NEW c \in Clients PROVE ClientView(c)'
      OBVIOUS
    <2>1. ems[p] = key /\ key \in Segments
      BY <1>6, RunningHasSegment DEF StoreEnergy
    <2>2. cpc[c] = "open" => found[c] \in Segments
      BY OpenHasSegment
    <2>3. ASSUME cpc[c] = "open", found[c] \notin failed'
          PROVE  energy_uj'[found[c]] >= energy_uj[found[c]] /\ found[c] \notin failed
      <3>1. energy_uj[key] <= total[p]
        BY <1>6 DEF StoreEnergy
      <3>2. found[c] \notin failed
        BY <1>6, <2>1, <2>2, <2>3 DEF StoreEnergy
      <3>3. CASE found[c] # key
        BY <1>6, <2>1, <2>2, <2>3, <3>2, <3>3 DEF StoreEnergy
      <3>4. CASE found[c] = key
        BY <1>6, <2>1, <2>2, <2>3, <3>1, <3>2, <3>4 DEF StoreEnergy
      <3>5. QED BY <3>3, <3>4
    <2>4. ClientView(c) /\ UNCHANGED client
      BY <1>6 DEF StoreEnergy
    <2>5. cpc[c] = "open" => energy_uj[found[c]] \in Nat /\ energy_uj'[found[c]] \in Nat
                             /\ seen[c] \in Nat
      BY <2>2, TypeCorrectStep
    <2>6. QED BY <2>3, <2>4, <2>5
  <1>7. ASSUME NEW p \in Providers, Sleep(p) PROVE ClientViews'
    BY <1>7 DEF Sleep
  <1>8. ASSUME NEW p \in Providers, LeaveLoop(p) PROVE ClientViews'
    BY <1>8 DEF LeaveLoop
  <1>9. ASSUME NEW p \in Providers, FinishMonitor(p) PROVE ClientViews'
    BY <1>9 DEF FinishMonitor
  <1>10. ASSUME NEW p \in Providers, Detach(p) PROVE ClientViews'
    BY <1>10 DEF Detach
  <1>11. ASSUME NEW p \in Providers, Destroy(p) PROVE ClientViews'
    BY <1>11 DEF Destroy
  <1>12. ASSUME NEW p \in Providers, Interrupt(p) PROVE ClientViews'
    BY <1>12 DEF Interrupt
  <1>13. ASSUME NEW p \in Providers, Kill(p) PROVE ClientViews'
    BY <1>13 DEF Kill
  <1>14. ASSUME NEW c \in Clients, ClientFind(c) PROVE ClientViews'
    BY <1>14 DEF ClientFind
  <1>15. ASSUME NEW c \in Clients, ClientAttach(c) PROVE ClientViews'
    <2> SUFFICES ASSUME NEW d \in Clients PROVE ClientView(d)'
      OBVIOUS
    <2>1. UNCHANGED <<energy_uj, failed, found>> /\ ClientView(d)
      BY <1>15 DEF ClientAttach
    <2>2. CASE d # c
      BY <1>15, <2>1, <2>2 DEF ClientAttach
    <2>3. CASE d = c
      <3>1. seen'[c] = 0 /\ found[c] \in Segments
        BY <1>15, OpenHasSegment DEF ClientAttach
      <3>2. energy_uj[found[c]] \in Nat /\ found[c] # 0
        BY <3>1, ShmemAssumption DEF Segments
      <3>3. QED BY <2>1, <2>3, <3>1, <3>2
    <2>4. QED BY <2>2, <2>3
  <1>16. ASSUME NEW c \in Clients, ClientRead(c) PROVE ClientViews'
    <2> SUFFICES ASSUME NEW d \in Clients PROVE ClientView(d)'
      OBVIOUS
    <2>1. UNCHANGED <<energy_uj, failed, found, cpc>> /\ ClientView(d)
      BY <1>16 DEF ClientRead
    <2>2. CASE d # c
      BY <1>16, <2>1, <2>2 DEF ClientRead
    <2>3. CASE d = c
      <3>1. seen'[c] = energy_uj[found[c]] /\ found[c] \in Segments
        BY <1>16, OpenHasSegment DEF ClientRead
      <3>2. energy_uj[found[c]] \in Nat
        BY <3>1
      <3>3. QED BY <2>1, <2>3, <3>1, <3>2
    <2>4. QED BY <2>2, <2>3
  <1>17. ASSUME NEW c \in Clients, ClientFinish(c) PROVE ClientViews'
    BY <1>17 DEF ClientFinish
  <1>18. CASE UNCHANGED vars
    BY <1>18 DEF vars
  <1>19. QED
    BY <1>1, <1>2, <1>3, <1>4, <1>5, <1>6, <1>7, <1>8, <1>9, <1>10,
       <1>11, <1>12, <1>13, <1>14, <1>15, <1>16, <1>17, <1>18 DEF Next, ProviderStep

-----------------------------------------------------------------------------
(* IInv is inductive.                                                      *)
THEOREM Invariance == Spec => []IInv
  <1>1. Init => IInv
    BY ShmemAssumption
       DEF Init, IInv, TypeOK, Owners, Owner, OneRuns, NothingLeaked, Contents,
           ClientViews, ClientView, ProviderPc, ClientPc, Segments
  <1>2. IInv /\ [Next]_vars => IInv'
    BY TypeCorrectStep, OwnersStep, NothingLeakedStep, ContentsStep, ClientViewsStep DEF IInv
  <1>3. QED BY <1>1, <1>2, PTL DEF Spec

(* Every variable of the shared memory programs has its type.              *)
THEOREM TypeCorrect == Spec => []TypeOK
  BY Invariance, PTL DEF IInv

(* IPC_EXCL keeps two providers from writing one segment, for any number   *)
(* of providers started, interrupted and killed in any order.              *)
THEOREM ProvidersNeverShare == Spec => []SingleWriter
  <1>1. IInv => SingleWriter
    BY DEF IInv, Owners, Owner, OneRuns, SingleWriter
  <1>2. QED BY <1>1, Invariance, PTL

(* Only a killed provider, or one that could not attach, leaves its        *)
(* segment behind to block the next one.                                   *)
THEOREM OnlyAbandonedSegmentsStay == Spec => []NothingLeaked
  BY Invariance, PTL DEF IInv

(* A client sees the total grow as long as its provider can read.          *)
THEOREM ClientsSeeTotalsGrow == Spec => SessionMonotone
  <1> DEFINE Grows == \A c \in Clients :
                        cpc[c] = "open" /\ cpc'[c] = "open" /\ found[c] \notin failed
                          => seen'[c] >= seen[c]
  <1>1. IInv /\ [Next]_vars => Grows
    <2> SUFFICES ASSUME IInv, [Next]_vars, NEW c \in Clients,
                        cpc[c] = "open", cpc'[c] = "open", found[c] \notin failed
                 PROVE  seen'[c] >= seen[c]
      OBVIOUS
    <2>1. seen[c] \in Nat /\ energy_uj[found[c]] \in Nat
      BY OpenHasSegment, ShmemAssumption DEF IInv, TypeOK
    <2>2. seen[c] <= energy_uj[found[c]]
      BY DEF IInv, ClientViews, ClientView
    <2>3. seen'[c] = seen[c] \/ seen'[c] = energy_uj[found[c]]
      <3>1. CASE UNCHANGED seen
        BY <3>1
      <3>2. ASSUME NEW d \in Clients, ClientAttach(d) \/ ClientRead(d)
            PROVE  seen'[c] = seen[c] \/ seen'[c] = energy_uj[found[c]]
        BY <3>2 DEF ClientAttach, ClientRead, IInv, TypeOK
      <3>3. UNCHANGED seen \/ \E d \in Clients : ClientAttach(d) \/ ClientRead(d)
        BY DEF Next, ProviderStep, vars, client, Create, Attach, AttachFails, InitMonitor,
               StoreInterval, StoreEnergy, Sleep, LeaveLoop, FinishMonitor, Detach, Destroy,
               Interrupt, Kill, ClientFind, ClientFinish
      <3>4. QED BY <3>1, <3>2, <3>3
    <2>4. QED BY <2>1, <2>2, <2>3
  <1>2. QED BY <1>1, Invariance, PTL DEF Spec, SessionMonotone
-----------------------------------------------------------------------------
(* The end of a provider.  A step of another process leaves it alone.      *)
ClientStep(c) == ClientFind(c) \/ ClientAttach(c) \/ ClientRead(c) \/ ClientFinish(c)
StepOf(p) == Create(p) \/ ProviderStep(p) \/ Interrupt(p) \/ Kill(p)

LEMMA OthersLeaveItAlone ==
  ASSUME IInv, [Next]_vars, NEW p \in Providers, ~StepOf(p)
  PROVE  UNCHANGED <<pc[p], running[p], shm_id[p], ems[p]>>
  <1> USE DEF provider
  <1>1. ASSUME NEW q \in Providers, q # p, Create(q) \/ Interrupt(q) \/ Kill(q)
        PROVE  UNCHANGED <<pc[p], running[p], shm_id[p], ems[p]>>
    BY <1>1 DEF Create, Interrupt, Kill, IInv, TypeOK
  <1>2. ASSUME NEW q \in Providers, q # p, ProviderStep(q)
        PROVE  UNCHANGED <<pc[p], running[p], shm_id[p], ems[p]>>
    BY <1>2 DEF ProviderStep, Attach, AttachFails, InitMonitor, StoreInterval, StoreEnergy,
            Sleep, LeaveLoop, FinishMonitor, Detach, Destroy, IInv, TypeOK
  <1>3. ASSUME NEW c \in Clients, ClientStep(c)
        PROVE  UNCHANGED <<pc[p], running[p], shm_id[p], ems[p]>>
    BY <1>3 DEF ClientStep, ClientFind, ClientAttach, ClientRead, ClientFinish
  <1>4. CASE UNCHANGED vars
    BY <1>4 DEF vars
  <1>5. QED BY <1>1, <1>2, <1>3, <1>4 DEF Next, StepOf, ClientStep

(* How far a provider that has been interrupted is from its end.           *)
Rank(p) == CASE pc[p] = "created" -> 7
             [] pc[p] = "attached" -> 6
             [] pc[p] \in {"store", "sleep"} -> 5
             [] pc[p] = "loop" -> 4
             [] pc[p] = "finish" -> 3
             [] pc[p] = "detach" -> 2
             [] pc[p] = "destroy" -> 1
             [] OTHER -> 0

InterruptedComesCloser ==
  \A p \in Providers :
    pc[p] # "off" /\ ~running[p] =>
      ~running'[p] /\ (pc'[p] = pc[p] \/ Rank(p)' < Rank(p))

(* A provider that got SIGINT forgets it at no step, and each of its steps *)
(* brings its end closer: it is at most seven away, wherever the signal    *)
(* met it, also before main has reached its loop.  That these steps are    *)
(* taken is the liveness of InterruptEnds.                                 *)
THEOREM InterruptIsNotLost == Spec => [][InterruptedComesCloser]_vars
  <1>1. ASSUME IInv, [Next]_vars, NEW p \in Providers, pc[p] # "off", ~running[p]
        PROVE  ~running'[p] /\ (pc'[p] = pc[p] \/ Rank(p)' < Rank(p))
    <2> USE <1>1
    <2>1. CASE ~StepOf(p)
      BY <2>1, OthersLeaveItAlone
    <2>2. CASE ProviderStep(p)
      <3>1. ~running'[p]
        BY <2>2 DEF ProviderStep, Attach, AttachFails, InitMonitor, StoreInterval, StoreEnergy,
                Sleep, LeaveLoop, FinishMonitor, Detach, Destroy
      <3>2. Rank(p)' < Rank(p)
        BY <2>2 DEF ProviderStep, Attach, AttachFails, InitMonitor, StoreInterval, StoreEnergy,
                KeepRunning, Sleep, LeaveLoop, FinishMonitor, Detach, Destroy, Rank, IInv, TypeOK
      <3>3. QED BY <3>1, <3>2
    <2>3. CASE Interrupt(p)
      BY <2>3 DEF Interrupt, IInv, TypeOK
    <2>4. CASE Kill(p)
      <3>1. pc[p] \in ProviderPc /\ pc'[p] = "off" /\ ~running'[p]
        BY <2>4 DEF Kill, IInv, TypeOK
      <3>2. QED BY <3>1 DEF Rank, ProviderPc
    <2>5. ~Create(p)
      BY DEF Create
    <2>6. QED BY <2>1, <2>2, <2>3, <2>4, <2>5 DEF StepOf
  <1>2. IInv /\ [Next]_vars => InterruptedComesCloser
    BY <1>1 DEF InterruptedComesCloser
  <1>3. QED BY <1>2, Invariance, PTL DEF Spec

(* The key is that of a segment which has been made and not destroyed.     *)
KeyIsFresh == key \notin removed /\ \A s \in removed : s <= made

LEMMA KeyStep == IInv /\ KeyIsFresh /\ [Next]_vars => KeyIsFresh'
  <1> SUFFICES ASSUME IInv, KeyIsFresh, [Next]_vars PROVE KeyIsFresh'
    OBVIOUS
  <1>0. key \in Nat /\ made \in Nat /\ removed \subseteq Nat /\ 0 \notin removed
    BY ShmemAssumption DEF IInv, TypeOK, Segments
  <1>1. ASSUME NEW p \in Providers, Create(p) PROVE KeyIsFresh'
    BY <1>0, <1>1 DEF Create, KeyIsFresh
  <1>2. ASSUME NEW p \in Providers, Destroy(p) PROVE KeyIsFresh'
    <2>1. shm_id[p] = key /\ key <= made
      BY <1>2, RunningHasSegment DEF Destroy, IInv, Contents
    <2>2. key' = 0 /\ removed' = removed \cup {key} /\ made' = made /\ key # 0
      BY <1>2, <2>1, RunningHasSegment DEF Destroy, Segments
    <2>3. QED BY <1>0, <2>1, <2>2 DEF KeyIsFresh
  <1>3. UNCHANGED kernel \/ \E p \in Providers : Create(p) \/ Destroy(p)
    BY DEF Next, ProviderStep, vars, Attach, AttachFails, InitMonitor, StoreInterval,
           StoreEnergy, Sleep, LeaveLoop, FinishMonitor, Detach, Interrupt, Kill,
           ClientFind, ClientAttach, ClientRead, ClientFinish
  <1>4. QED BY <1>1, <1>2, <1>3 DEF kernel, KeyIsFresh

FreesItsKey ==
  \A p \in Providers :
    pc[p] # "off" /\ pc'[p] = "off" =>
      shm_id[p] \in abandoned' \/ (shm_id[p] \in removed' /\ key' = 0)

(* A provider that ends leaves a key that names nothing, so that the next  *)
(* one can start and no client can attach what will not be filled again,   *)
(* or its segment is among the abandoned ones; and no key ever names a     *)
(* segment that was destroyed.                                             *)
THEOREM TheEndFreesTheKey == Spec => [](key \notin removed) /\ [][FreesItsKey]_vars
  <1>1. Init => KeyIsFresh
    BY DEF Init, KeyIsFresh
  <1>2. ASSUME IInv, [Next]_vars, NEW p \in Providers, pc[p] # "off", pc'[p] = "off"
        PROVE  shm_id[p] \in abandoned' \/ (shm_id[p] \in removed' /\ key' = 0)
    <2>1. StepOf(p)
      BY <1>2, OthersLeaveItAlone
    <2>2. CASE AttachFails(p) \/ Kill(p)
      BY <2>2 DEF AttachFails, Kill
    <2>3. CASE Destroy(p)
      BY <1>2, <2>3, RunningHasSegment DEF Destroy
    <2>4. AttachFails(p) \/ Kill(p) \/ Destroy(p)
      BY <1>2, <2>1 DEF StepOf, ProviderStep, Create, Attach, InitMonitor, StoreInterval,
                        StoreEnergy, Sleep, LeaveLoop, FinishMonitor, Detach, Interrupt,
                        IInv, TypeOK
    <2>5. QED BY <2>2, <2>3, <2>4
  <1>3. IInv /\ [Next]_vars => FreesItsKey
    BY <1>2 DEF FreesItsKey
  <1>4. KeyIsFresh => key \notin removed
    BY DEF KeyIsFresh
  <1>5. QED BY <1>1, <1>3, <1>4, KeyStep, Invariance, PTL DEF Spec

-----------------------------------------------------------------------------
(* The interval is in a segment before any energy is.                      *)
IntervalStored ==
  /\ \A p \in Providers : pc[p] \in {"loop", "sleep"} => interval_us[ems[p]] = 1
  /\ \A s \in Segments : energy_uj[s] > 0 => interval_us[s] = 1
  /\ \A c \in Clients : cpc[c] = "open" /\ seen[c] > 0 => interval_us[found[c]] = 1

LEMMA IntervalStep == IInv /\ IntervalStored /\ [Next]_vars => IntervalStored'
  <1> SUFFICES ASSUME IInv, IntervalStored, [Next]_vars PROVE IntervalStored'
    OBVIOUS
  <1>1. \A p \in Providers : pc[p] # "off" => shm_id[p] \in Segments
    BY RunningHasSegment
  <1>2. \A p \in Providers : pc[p] \in {"store", "loop", "sleep"} => ems[p] \in Segments
    BY <1>1 DEF IInv, Owners, Owner
  <1>3. \A s \in Segments : interval_us[s] = 1 => interval_us'[s] = 1
    <2>1. CASE UNCHANGED interval_us
      BY <2>1
    <2>2. ASSUME NEW p \in Providers, StoreInterval(p)
          PROVE  \A s \in Segments : interval_us[s] = 1 => interval_us'[s] = 1
      BY <2>2 DEF StoreInterval, IInv, TypeOK
    <2>3. UNCHANGED interval_us \/ \E p \in Providers : StoreInterval(p)
      BY DEF Next, ProviderStep, vars, memory, Create, Attach, AttachFails, InitMonitor,
             StoreEnergy, Sleep, LeaveLoop, FinishMonitor, Detach, Destroy, Interrupt, Kill,
             ClientFind, ClientAttach, ClientRead, ClientFinish
    <2>4. QED BY <2>1, <2>2, <2>3
  <1>4. ASSUME NEW p \in Providers, pc'[p] \in {"loop", "sleep"} PROVE interval_us'[ems'[p]] = 1
    <2>1. CASE ~StepOf(p)
      BY <1>2, <1>3, <1>4, <2>1, OthersLeaveItAlone DEF IntervalStored
    <2>2. CASE StoreInterval(p)
      BY <1>2, <2>2 DEF StoreInterval, IInv, TypeOK
    <2>3. CASE StoreEnergy(p) \/ Sleep(p) \/ Interrupt(p)
      <3>1. pc[p] \in {"loop", "sleep"} /\ ems' = ems
        BY <1>4, <2>3 DEF StoreEnergy, Sleep, Interrupt, IInv, TypeOK
      <3>2. QED BY <1>2, <1>3, <3>1 DEF IntervalStored
    <2>4. ~Create(p) /\ ~Attach(p) /\ ~AttachFails(p) /\ ~InitMonitor(p) /\ ~LeaveLoop(p)
            /\ ~FinishMonitor(p) /\ ~Detach(p) /\ ~Destroy(p) /\ ~Kill(p)
      BY <1>4 DEF Create, Attach, AttachFails, InitMonitor, LeaveLoop, FinishMonitor, Detach,
                  Destroy, Kill, IInv, TypeOK
    <2>5. QED BY <2>1, <2>2, <2>3, <2>4 DEF StepOf, ProviderStep
  <1>5. ASSUME NEW s \in Segments, energy_uj'[s] > 0 PROVE interval_us'[s] = 1
    <2>1. CASE UNCHANGED energy_uj
      BY <1>3, <1>5, <2>1 DEF IntervalStored
    <2>2. ASSUME NEW p \in Providers, StoreEnergy(p) PROVE interval_us'[s] = 1
      <3>1. CASE s = ems[p]
        BY <1>2, <1>3, <2>2, <3>1 DEF StoreEnergy, IntervalStored
      <3>2. CASE s # ems[p]
        BY <1>2, <1>3, <1>5, <2>2, <3>2 DEF StoreEnergy, IntervalStored, IInv, TypeOK
      <3>3. QED BY <3>1, <3>2
    <2>3. UNCHANGED energy_uj \/ \E p \in Providers : StoreEnergy(p)
      BY DEF Next, ProviderStep, vars, memory, Create, Attach, AttachFails, InitMonitor,
             StoreInterval, Sleep, LeaveLoop, FinishMonitor, Detach, Destroy, Interrupt, Kill,
             ClientFind, ClientAttach, ClientRead, ClientFinish
    <2>4. QED BY <2>1, <2>2, <2>3
  <1>6. ASSUME NEW c \in Clients, cpc'[c] = "open", seen'[c] > 0
        PROVE  interval_us'[found'[c]] = 1
    <2>1. CASE cpc[c] = "open" /\ UNCHANGED <<seen[c], found[c]>>
      BY <1>3, <1>6, <2>1, OpenHasSegment DEF IntervalStored
    <2>2. CASE ClientRead(c)
      BY <1>3, <1>6, <2>2, OpenHasSegment DEF ClientRead, IntervalStored, IInv, TypeOK
    <2>3. ~ClientFind(c) /\ ~ClientAttach(c) /\ ~ClientFinish(c)
      BY <1>6 DEF ClientFind, ClientAttach, ClientFinish, IInv, TypeOK
    <2>4. ClientStep(c) \/ (cpc[c] = "open" /\ UNCHANGED <<seen[c], found[c]>>)
      <3>1. ASSUME NEW d \in Clients, d # c, ClientStep(d)
            PROVE  UNCHANGED <<cpc[c], seen[c], found[c]>>
        BY <3>1 DEF ClientStep, ClientFind, ClientAttach, ClientRead, ClientFinish, IInv, TypeOK
      <3>2. UNCHANGED client \/ \E d \in Clients : ClientStep(d)
        BY DEF Next, ProviderStep, vars, Create, Attach, AttachFails, InitMonitor,
               StoreInterval, StoreEnergy, Sleep, LeaveLoop, FinishMonitor, Detach, Destroy,
               Interrupt, Kill, ClientStep
      <3>3. QED BY <1>6, <3>1, <3>2 DEF client
    <2>5. QED BY <2>1, <2>2, <2>3, <2>4 DEF ClientStep
  <1>7. QED BY <1>4, <1>5, <1>6 DEF IntervalStored

(* energymon.h wants an interval of more than 0.  A client that attaches   *)
(* early finds none, but one that has read any energy does: main stores    *)
(* the interval before the first total.                                    *)
THEOREM IntervalComesBeforeEnergy ==
  Spec => [](\A c \in Clients : cpc[c] = "open" /\ seen[c] > 0 => interval_us[found[c]] > 0)
  <1>1. Init => IntervalStored
    BY DEF Init, IntervalStored
  <1>2. IntervalStored =>
          \A c \in Clients : cpc[c] = "open" /\ seen[c] > 0 => interval_us[found[c]] > 0
    BY DEF IntervalStored
  <1>3. QED BY <1>1, <1>2, IntervalStep, Invariance, PTL DEF Spec
=============================================================================
