---------------------------- MODULE SharedMemory ----------------------------
(***************************************************************************)
(* shmem/: an energymon whose readings travel over System V shared memory. *)
(* Provider processes (energymon-shmem-provider.c) create the segment of   *)
(* the agreed key, fill it from an energymon of their own and destroy it   *)
(* when SIGINT ends them.  Client processes (energymon-shmem.c) attach the *)
(* segment and read it.  Any process may be killed at any time, SIGTERM    *)
(* included: the provider registers its handler for SIGINT alone.          *)
(*                                                                         *)
(* The kernel's segments are modelled as far as the programs use them: a   *)
(* key names at most one segment, IPC_RMID frees the key at once, and the  *)
(* memory lives until the last process detaches.                           *)
(***************************************************************************)
EXTENDS Naturals

CONSTANTS
  Providers, Clients,  \* processes that agree on one key
  MaxSegments,         \* bound on the segments created
  MaxEnergy            \* bound on the energy a provider's energymon reports

ASSUME ShmemAssumption == MaxSegments \in Nat /\ MaxEnergy \in Nat

VARIABLES
  \* the kernel: the segment the key names (0: none), segments made so far,
  \* and those marked for destruction
  key, made, removed,
  \* the struct energymon_shmem of each segment
  interval_us, energy_uj,
  \* the providers: ems and shm_id are the segment they are attached to and
  \* the one they created
  pc, running, shm_id, ems, total,
  \* the clients: the segment found or attached, and the last value read
  cpc, found, seen,
  \* history: segments whose provider was killed or could not attach, and
  \* those that a failed fread of the provider was ever stored in
  abandoned, failed

kernel == <<key, made, removed>>
memory == <<interval_us, energy_uj, failed>>
provider == <<pc, running, shm_id, ems, total>>
client == <<cpc, found, seen>>
vars == <<kernel, memory, provider, client, abandoned>>

Segments == 1..MaxSegments
ProviderPc == {"off", "created", "attached", "store", "loop", "sleep", "finish",
               "detach", "destroy"}
ClientPc == {"closed", "found", "open"}

Init ==
  /\ key = 0 /\ made = 0 /\ removed = {}
  /\ interval_us = [s \in Segments |-> 0] /\ energy_uj = [s \in Segments |-> 0]
  /\ failed = {}
  /\ pc = [p \in Providers |-> "off"] /\ running = [p \in Providers |-> TRUE]
  /\ shm_id = [p \in Providers |-> 0] /\ ems = [p \in Providers |-> 0]
  /\ total = [p \in Providers |-> 0]
  /\ cpc = [c \in Clients |-> "closed"] /\ found = [c \in Clients |-> 0]
  /\ seen = [c \in Clients |-> 0]
  /\ abandoned = {}

(* The memory of a segment: kept while it is named or somebody uses it.    *)
Exists(s) ==
  \/ s \notin removed
  \/ \E p \in Providers : ems[p] = s
  \/ \E c \in Clients : cpc[c] = "open" /\ found[c] = s

-----------------------------------------------------------------------------
(* energymon-shmem-provider.c, main                                        *)

(* shmget without IPC_EXCL: a second provider gets the first one's segment *)
CreateShared(p) ==
  /\ pc[p] = "off" /\ (key = 0 => made < MaxSegments)
  /\ pc' = [pc EXCEPT ![p] = "created"]
  /\ IF key = 0 THEN made' = made + 1 /\ key' = made + 1
                ELSE UNCHANGED <<made, key>>
  /\ shm_id' = [shm_id EXCEPT ![p] = key']
  /\ total' = [total EXCEPT ![p] = 0]
  /\ running' = [running EXCEPT ![p] = TRUE]
  /\ UNCHANGED <<removed, memory, ems, client, abandoned>>

(* shmget with IPC_CREAT and IPC_EXCL fails, and main returns, when the    *)
(* key names a segment already.  An early SIGINT may have been handled.    *)
Create(p) ==
  /\ pc[p] = "off" /\ key = 0 /\ made < MaxSegments
  /\ made' = made + 1 /\ key' = made + 1
  /\ pc' = [pc EXCEPT ![p] = "created"]
  /\ shm_id' = [shm_id EXCEPT ![p] = made + 1]
  /\ \E r \in BOOLEAN : running' = [running EXCEPT ![p] = r]
  /\ total' = [total EXCEPT ![p] = 0]
  /\ UNCHANGED <<removed, memory, ems, client, abandoned>>

Attach(p) ==
  /\ pc[p] = "created"
  /\ pc' = [pc EXCEPT ![p] = "attached"]
  /\ ems' = [ems EXCEPT ![p] = shm_id[p]]
  /\ UNCHANGED <<kernel, memory, running, shm_id, total, client, abandoned>>

(* After a failed shmat, cleanup_shmem detaches the address -1, which      *)
(* fails, and returns before it destroys the segment.                      *)
AttachFails(p) ==
  /\ pc[p] = "created"
  /\ pc' = [pc EXCEPT ![p] = "off"]
  /\ abandoned' = abandoned \cup {shm_id[p]}
  /\ UNCHANGED <<kernel, memory, running, shm_id, ems, total, client>>

(* A failing energymon_get or finit that ends main without cleanup_shmem.  *)
InitMonitorNoCleanup(p) ==
  /\ pc[p] = "attached"
  /\ \/ pc' = [pc EXCEPT ![p] = "store"] /\ ems' = ems
     \/ pc' = [pc EXCEPT ![p] = "off"] /\ ems' = [ems EXCEPT ![p] = 0]
  /\ UNCHANGED <<kernel, memory, running, shm_id, total, client, abandoned>>

(* energymon_get and finit; either may fail.                               *)
InitMonitor(p) ==
  /\ pc[p] = "attached"
  /\ \E next \in {"store", "detach"} : pc' = [pc EXCEPT ![p] = next]
  /\ UNCHANGED <<kernel, memory, running, shm_id, ems, total, client, abandoned>>

(* The interval (and the precision) of the provider's energymon.           *)
StoreInterval(p) ==
  /\ pc[p] = "store"
  /\ pc' = [pc EXCEPT ![p] = "loop"]
  /\ interval_us' = [interval_us EXCEPT ![ems[p]] = 1]
  /\ UNCHANGED <<kernel, energy_uj, failed, running, shm_id, ems, total, client, abandoned>>

(* A loop that does not look at the flag the handler clears.               *)
FlagIgnored(p) == TRUE
KeepRunning(p) == running[p]

(* What fread returns goes to the segment, the 0 of a failure as well.     *)
StoreEnergy(p) ==
  /\ pc[p] = "loop" /\ KeepRunning(p)
  /\ pc' = [pc EXCEPT ![p] = "sleep"]
  /\ \/ \E e \in total[p]..MaxEnergy :
          /\ total' = [total EXCEPT ![p] = e]
          /\ energy_uj' = [energy_uj EXCEPT ![ems[p]] = e]
          /\ failed' = failed
     \/ /\ total' = total
        /\ energy_uj' = [energy_uj EXCEPT ![ems[p]] = 0]
        /\ failed' = failed \cup {ems[p]}
  /\ UNCHANGED <<kernel, interval_us, running, shm_id, ems, client, abandoned>>

(* nanosleep ends by itself or by the signal.                              *)
Sleep(p) ==
  /\ pc[p] = "sleep"
  /\ pc' = [pc EXCEPT ![p] = "loop"]
  /\ UNCHANGED <<kernel, memory, running, shm_id, ems, total, client, abandoned>>

LeaveLoop(p) ==
  /\ pc[p] = "loop" /\ ~KeepRunning(p)
  /\ pc' = [pc EXCEPT ![p] = "finish"]
  /\ UNCHANGED <<kernel, memory, running, shm_id, ems, total, client, abandoned>>

(* Failures of ffinish are reported and otherwise ignored.                 *)
FinishMonitor(p) ==
  /\ pc[p] = "finish"
  /\ pc' = [pc EXCEPT ![p] = "detach"]
  /\ UNCHANGED <<kernel, memory, running, shm_id, ems, total, client, abandoned>>

(* cleanup_shmem: shmdt, then shmctl with IPC_RMID.                        *)
Detach(p) ==
  /\ pc[p] = "detach"
  /\ pc' = [pc EXCEPT ![p] = "destroy"]
  /\ ems' = [ems EXCEPT ![p] = 0]
  /\ UNCHANGED <<kernel, memory, running, shm_id, total, client, abandoned>>

(* A clean-up that takes the address for the identifier.                   *)
DestroyDetached(p) ==
  /\ pc[p] = "destroy"
  /\ pc' = [pc EXCEPT ![p] = "off"]
  /\ removed' = removed \cup {ems[p]}
  /\ key' = IF key = ems[p] THEN 0 ELSE key
  /\ UNCHANGED <<made, memory, running, shm_id, ems, total, client, abandoned>>

Destroy(p) ==
  /\ pc[p] = "destroy"
  /\ pc' = [pc EXCEPT ![p] = "off"]
  /\ removed' = removed \cup {shm_id[p]}
  /\ key' = IF key = shm_id[p] THEN 0 ELSE key
  /\ UNCHANGED <<made, memory, running, shm_id, ems, total, client, abandoned>>

-----------------------------------------------------------------------------
(* Signals to a provider                                                   *)

(* shandle                                                                 *)
Interrupt(p) ==
  /\ pc[p] # "off"
  /\ running' = [running EXCEPT ![p] = FALSE]
  /\ UNCHANGED <<kernel, memory, pc, shm_id, ems, total, client, abandoned>>

(* The kernel detaches what a killed process had attached; the segment and *)
(* its key stay.                                                           *)
Kill(p) ==
  /\ pc[p] # "off"
  /\ pc' = [pc EXCEPT ![p] = "off"]
  /\ ems' = [ems EXCEPT ![p] = 0]
  /\ abandoned' = abandoned \cup {shm_id[p]}
  /\ UNCHANGED <<kernel, memory, running, shm_id, total, client>>

-----------------------------------------------------------------------------
(* energymon-shmem.c                                                       *)

(* energymon_init_shmem looks the key up, and fails if it names nothing.   *)
ClientFind(c) ==
  /\ cpc[c] = "closed" /\ key # 0
  /\ cpc' = [cpc EXCEPT ![c] = "found"]
  /\ found' = [found EXCEPT ![c] = key]
  /\ UNCHANGED <<kernel, memory, provider, seen, abandoned>>

(* The segment may be gone by then, and shmat may fail for other reasons.  *)
ClientAttach(c) ==
  /\ cpc[c] = "found"
  /\ \/ Exists(found[c]) /\ cpc' = [cpc EXCEPT ![c] = "open"]
     \/ cpc' = [cpc EXCEPT ![c] = "closed"]
  /\ seen' = [seen EXCEPT ![c] = 0]
  /\ UNCHANGED <<kernel, memory, provider, found, abandoned>>

(* energymon_read_total_shmem clears errno and returns what is there.      *)
ClientRead(c) ==
  /\ cpc[c] = "open"
  /\ seen' = [seen EXCEPT ![c] = energy_uj[found[c]]]
  /\ UNCHANGED <<kernel, memory, provider, cpc, found, abandoned>>

(* energymon_finish_shmem, or the end of the client's process.             *)
ClientFinish(c) ==
  /\ cpc[c] = "open"
  /\ cpc' = [cpc EXCEPT ![c] = "closed"]
  /\ UNCHANGED <<kernel, memory, provider, found, seen, abandoned>>

-----------------------------------------------------------------------------
ProviderStep(p) ==
  \/ Attach(p) \/ AttachFails(p) \/ InitMonitor(p) \/ StoreInterval(p)
  \/ StoreEnergy(p) \/ Sleep(p) \/ LeaveLoop(p)
  \/ FinishMonitor(p) \/ Detach(p) \/ Destroy(p)

Next ==
  \/ \E p \in Providers : Create(p) \/ ProviderStep(p) \/ Interrupt(p) \/ Kill(p)
  \/ \E c \in Clients : ClientFind(c) \/ ClientAttach(c) \/ ClientRead(c) \/ ClientFinish(c)

Spec == Init /\ [][Next]_vars

(* The kernel runs every provider that was started.                        *)
FairSpec == Spec /\ \A p \in Providers : WF_vars(ProviderStep(p))

-----------------------------------------------------------------------------
(* Every variable has its type.                                            *)
TypeOK ==
  /\ key \in 0..MaxSegments /\ made \in 0..MaxSegments /\ removed \subseteq Segments
  /\ interval_us \in [Segments -> {0, 1}] /\ energy_uj \in [Segments -> 0..MaxEnergy]
  /\ failed \subseteq Segments
  /\ pc \in [Providers -> ProviderPc] /\ running \in [Providers -> BOOLEAN]
  /\ shm_id \in [Providers -> 0..MaxSegments] /\ ems \in [Providers -> 0..MaxSegments]
  /\ total \in [Providers -> 0..MaxEnergy]
  /\ cpc \in [Clients -> ClientPc] /\ found \in [Clients -> 0..MaxSegments]
  /\ seen \in [Clients -> 0..MaxEnergy]
  /\ abandoned \subseteq Segments

(* No two providers write one segment, whatever the order in which they    *)
(* start, end and are killed: clients never see two totals mixed.          *)
SingleWriter ==
  \A p, q \in Providers : p # q /\ ems[p] # 0 => ems[p] # ems[q]

(* A key that is taken was taken by a provider that still runs, or was     *)
(* left over by one that was killed or could not attach: no other way out  *)
(* of main, failed initialisation included, blocks the next provider.      *)
NothingLeaked ==
  \/ key = 0
  \/ key \in abandoned
  \/ \E p \in Providers : pc[p] # "off" /\ shm_id[p] = key

(* What a client reads in one session only grows, across the end of its    *)
(* provider and the start of another, unless the provider's own energymon  *)
(* failed to read.                                                         *)
SessionMonotone ==
  [][\A c \in Clients :
       cpc[c] = "open" /\ cpc'[c] = "open" /\ found[c] \notin failed
         => seen'[c] >= seen[c]]_vars

(* A provider that got SIGINT ends, wherever it is, and its segment is     *)
(* then out of reach of new clients unless it was abandoned.               *)
InterruptEnds ==
  \A p \in Providers : \A s \in Segments :
    pc[p] # "off" /\ ~running[p] /\ shm_id[p] = s
      ~> pc[p] = "off" /\ (key # s \/ s \in abandoned)

(* energymon.h on finterval: "This value should be greater than 0 except   *)
(* in error cases."                                                        *)
IntervalIsSet == \A c \in Clients : cpc[c] = "open" => interval_us[found[c]] > 0
=============================================================================
