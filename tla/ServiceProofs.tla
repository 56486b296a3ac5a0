---------------------------- MODULE ServiceProofs ----------------------------
(***************************************************************************)
(* Proofs about the services MemoryBreaker and GpuRental: for every set of *)
(* writing threads, every threshold and every recovery window; and for any *)
(* number of machines, hosts, provisioning threads and restarts.  The last *)
(* section is about the composition of the four services.                  *)
(***************************************************************************)
EXTENDS MCServices, AccessProofs, ParallelTasksProofs

-----------------------------------------------------------------------------
(* The breaker of the memory.                                              *)

\* The inductive invariant.
BreakerInv == BreakerTypeOK /\ BreakerConsistent

\* The initial state satisfies the invariant.
LEMMA BreakerInvInit == BreakerInit => BreakerInv
BY BreakerConstants DEF BreakerInit, BreakerInv, BreakerTypeOK, BreakerConsistent

\* The invariant is kept by every method of the breaker: a failure of a thread
\* that began to write long ago opens a half-open breaker again, so the age
\* is at the window in every state that is half-open.
LEMMA BreakerInvStep == BreakerInv /\ [BreakerNext]_breakerVars => BreakerInv'
<1> USE BreakerConstants DEF BreakerInv, BreakerTypeOK, BreakerConsistent
<1> SUFFICES ASSUME BreakerInv, [BreakerNext]_breakerVars PROVE BreakerInv'
  OBVIOUS
<1>1. CASE ReadState
  BY <1>1 DEF ReadState, Recovered
<1>2. CASE Tick
  BY <1>2 DEF Tick
<1>3. ASSUME NEW w \in Writers, Allow(w) PROVE BreakerInv'
  BY <1>3 DEF Allow, Recovered
<1>4. ASSUME NEW w \in Writers, CheckState(w) PROVE BreakerInv'
  BY <1>4 DEF CheckState
<1>5. ASSUME NEW w \in Writers, RecordSuccess(w) PROVE BreakerInv'
  BY <1>5 DEF RecordSuccess
<1>6. ASSUME NEW w \in Writers, RecordFailure(w) PROVE BreakerInv'
  BY <1>6 DEF RecordFailure, Counted
<1>7. CASE UNCHANGED breakerVars
  BY <1>7 DEF breakerVars
<1> QED
  BY <1>1, <1>2, <1>3, <1>4, <1>5, <1>6, <1>7 DEF BreakerNext

\* A closed breaker has room for a failure and a half-open one has waited out
\* the window since the last failure recorded by any thread (record_failure
\* and _maybe_recover under their separate locks).
THEOREM BreakerIsConsistent == BreakerSpec => [](BreakerTypeOK /\ BreakerConsistent)
<1>1. BreakerInv => BreakerTypeOK /\ BreakerConsistent
  BY DEF BreakerInv
<1> QED
  BY <1>1, BreakerInvInit, BreakerInvStep, PTL DEF BreakerSpec

\* A write that starts found the breaker not open in the second part of
\* allow(); if it is not closed either, it is half-open.
LEMMA StartedInWindow ==
  ASSUME BreakerInv, [BreakerNext]_breakerVars,
         NEW w \in Writers, writer[w] # "writing", writer'[w] = "writing", breaker # "closed"
  PROVE  age = recovery_window
<1> USE DEF BreakerInv, BreakerTypeOK, BreakerConsistent
<1>1. CASE ReadState \/ Tick \/ UNCHANGED breakerVars
  BY <1>1 DEF ReadState, Tick, breakerVars
<1>2. ASSUME NEW v \in Writers, Allow(v) \/ RecordSuccess(v) \/ RecordFailure(v) PROVE FALSE
  BY <1>2 DEF Allow, RecordSuccess, RecordFailure
<1>3. ASSUME NEW v \in Writers, CheckState(v) PROVE age = recovery_window
  BY <1>3 DEF CheckState
<1> QED
  BY <1>1, <1>2, <1>3 DEF BreakerNext

\* While the breaker is not closed, no thread starts a write within the window
\* after a failure, although allow() takes its lock twice.
THEOREM WindowIsKept == BreakerSpec => WindowKept
<1>1. BreakerInv /\ [BreakerNext]_breakerVars
        => [\A w \in Writers : writer[w] # "writing" /\ writer'[w] = "writing" /\ breaker # "closed"
              => age = recovery_window]_breakerVars
  BY StartedInWindow
<1> QED
  BY <1>1, BreakerInvInit, BreakerInvStep, PTL DEF BreakerSpec, WindowKept

-----------------------------------------------------------------------------
(* Paid machines.                                                          *)

\* The shapes of instance, rentals and callers.
Shapes ==
  /\ instance \in [id : Rentals \cup {0}, status : {"none", "provisioning", "running", "destroyed"}]
  /\ DOMAIN rental = Rentals /\ \A i \in Rentals : DOMAIN rental[i] = {"state", "auto", "host"}
  /\ DOMAIN caller = Callers /\ \A c \in Callers : DOMAIN caller[c] = DOMAIN Idle

\* A call under way that has met no other one began when no machine was
\* tracked, and so far nothing has been rented since.
LoneCalls ==
  /\ \A c \in Callers : InFlight(c) /\ ~caller[c].clash => Billed \subseteq strays
  /\ \A c, d \in Callers : InFlight(c) /\ InFlight(d) /\ c # d => caller[c].clash

\* The inductive invariant.
LeakInv == Shapes /\ LoneCalls /\ LeaksExplained

\* Nothing is rented at the start.
LEMMA LeakInvInit == RentalInit => LeakInv
BY DEF RentalInit, LeakInv, Shapes, LoneCalls, LeaksExplained, Billed, InFlight, NoInstance, Idle

\* A call passes the anti-duplicate gate: with another one under way both know
\* of the clash, else nothing is tracked and what is billed has gone astray.
LEMMA BeginKeeps == ASSUME LeakInv, NEW c \in Callers, BeginProvision(c) PROVE LeakInv'
<1> USE DEF LeakInv, Shapes
<1>1. Billed' = Billed /\ strays' = strays /\ instance' = instance /\ rental' = rental
  BY DEF BeginProvision, Billed
<1>2. LeaksExplained'
  BY <1>1 DEF LeaksExplained
<1>3. Billed \subseteq strays
  BY DEF BeginProvision, AntiDuplicate, LeaksExplained
<1>4. DOMAIN caller' = Callers /\ \A d \in Callers : DOMAIN caller'[d] = DOMAIN Idle
  BY DEF BeginProvision, Idle
<1>5. \A d \in Callers : d # c /\ InFlight(d)' => InFlight(d) /\ caller'[d].clash /\ caller'[c].clash
  BY DEF BeginProvision, InFlight, Idle
<1> QED
  BY <1>1, <1>2, <1>3, <1>4, <1>5 DEF LoneCalls

\* A search leaves machines, instance and clashes alone.
LEMMA SearchKeeps == ASSUME LeakInv, NEW c \in Callers, SearchOffers(c) PROVE LeakInv'
<1> USE DEF LeakInv, Shapes
<1>1. Billed' = Billed /\ strays' = strays /\ instance' = instance /\ rental' = rental
  BY DEF SearchOffers, Billed
<1>2. LeaksExplained'
  BY <1>1 DEF LeaksExplained
<1>3. /\ DOMAIN caller' = Callers /\ \A d \in Callers : DOMAIN caller'[d] = DOMAIN Idle
      /\ \A d \in Callers : InFlight(d)' => InFlight(d) /\ caller'[d].clash = caller[d].clash
  BY DEF SearchOffers, InFlight, Idle
<1> QED
  BY <1>1, <1>2, <1>3 DEF LoneCalls

\* The machine rented is tracked, and the one it replaces is accounted for: by
\* the clash, or because a lone call began with nothing tracked.
LEMMA RentKeeps == ASSUME LeakInv, NEW c \in Callers, Rent(c) PROVE LeakInv'
<1> USE RentalConstants DEF LeakInv, Shapes
<1>1. /\ DOMAIN caller' = Callers /\ \A d \in Callers : DOMAIN caller'[d] = DOMAIN Idle
      /\ \A d \in Callers : InFlight(d)' => d # c /\ InFlight(d) /\ caller'[d] = caller[d]
      /\ InFlight(c)
  BY DEF Rent, InFlight, Idle
<1>2. \A d \in Callers : InFlight(d)' => caller'[d].clash
  BY <1>1 DEF LoneCalls
<1>3. LoneCalls'
  BY <1>2 DEF LoneCalls
<1>4. CASE UNCHANGED <<rental, instance, poller, strays>>
  <2>1. LeaksExplained'
    BY <1>4 DEF LeaksExplained, Billed
  <2> QED
    BY <1>1, <1>3, <1>4, <2>1
<1>5. ASSUME NEW i \in Rentals,
             rental' = [rental EXCEPT ![i] = [state |-> "starting", auto |-> caller[c].auto, host |-> caller[c].host]]
      PROVE  /\ Billed' \subseteq Billed \cup {i}
             /\ DOMAIN rental' = Rentals /\ \A j \in Rentals : DOMAIN rental'[j] = {"state", "auto", "host"}
  BY <1>5 DEF Billed
<1>6. ASSUME NEW i \in Rentals, Billed' \subseteq Billed \cup {i}, instance' = [id |-> i, status |-> "provisioning"],
             strays' = IF caller[c].clash /\ instance.id # 0 THEN strays \cup {instance.id} ELSE strays
      PROVE  LeaksExplained'
  <2>1. Billed \subseteq strays'
    BY <1>1, <1>6 DEF LoneCalls, LeaksExplained, Billed
  <2> QED
    BY <1>6, <2>1 DEF LeaksExplained
<1>7. ASSUME NEW i \in Rentals, Billed' \subseteq Billed \cup {i}, strays' = strays \cup {i}, instance' = instance
      PROVE  LeaksExplained'
  BY <1>7 DEF LeaksExplained
<1>8. ASSUME NEW i \in Rentals,
             rental' = [rental EXCEPT ![i] = [state |-> "starting", auto |-> caller[c].auto, host |-> caller[c].host]],
             \/ /\ instance' = [id |-> i, status |-> "provisioning"]
                /\ strays' = IF caller[c].clash /\ instance.id # 0 THEN strays \cup {instance.id} ELSE strays
             \/ strays' = strays \cup {i} /\ UNCHANGED <<instance, poller>>
      PROVE  LeakInv'
  <2>1. /\ Billed' \subseteq Billed \cup {i}
        /\ DOMAIN rental' = Rentals /\ \A j \in Rentals : DOMAIN rental'[j] = {"state", "auto", "host"}
    BY <1>5, <1>8
  <2>2. LeaksExplained'
    BY Zenon, <1>6, <1>7, <1>8, <2>1
  <2>3. instance' \in [id : Rentals \cup {0}, status : {"none", "provisioning", "running", "destroyed"}]
    BY <1>8
  <2> QED
    BY Zenon, <1>1, <1>3, <2>1, <2>2, <2>3
<1>9. CASE \E i \in Rentals :
             /\ rental' = [rental EXCEPT ![i] = [state |-> "starting", auto |-> caller[c].auto, host |-> caller[c].host]]
             /\ \/ /\ instance' = [id |-> i, status |-> "provisioning"]
                   /\ strays' = IF caller[c].clash /\ instance.id # 0 THEN strays \cup {instance.id} ELSE strays
                \/ strays' = strays \cup {i} /\ UNCHANGED <<instance, poller>>
  BY Zenon, <1>8, <1>9
<1> QED
  <2> HIDE DEF LeakInv
  <2> QED BY Zenon, <1>4, <1>9 DEF Rent

\* Steps that rent nothing and leave the callers alone: it is enough that what
\* they bill stays accounted for.
LEMMA OthersKeep ==
  ASSUME LeakInv, Billed' \subseteq Billed, strays \subseteq strays', caller' = caller,
         Shapes', LeaksExplained'
  PROVE  LeakInv'
BY DEF LeakInv, LoneCalls, InFlight

\* Deleting a machine: it is gone, or nothing has changed.
LEMMA DeleteFacts ==
  ASSUME LeakInv, NEW i \in Rentals, NEW r \in DeleteResults(i), rental' = r.rental
  PROVE  /\ Billed' \subseteq Billed
         /\ r.ok => i \notin Billed'
         /\ DOMAIN rental' = Rentals /\ \A j \in Rentals : DOMAIN rental'[j] = {"state", "auto", "host"}
BY DEF LeakInv, Shapes, DeleteResults, Gone, Billed

\* destroy() has its answer.
LEMMA DestroyKeeps == ASSUME LeakInv, destroyer \in Rentals, EndDestroy PROVE LeakInv'
<1> USE DEF LeakInv, Shapes
<1>1. PICK r \in DeleteResults(destroyer) :
        /\ rental' = r.rental
        /\ IF r.ok
             THEN /\ instance' = [instance EXCEPT !.status = "destroyed"]
                  /\ strays' = IF instance.id # destroyer THEN strays \cup {instance.id} ELSE strays
             ELSE UNCHANGED <<instance, strays>>
  BY DEF EndDestroy
<1>2. /\ Billed' \subseteq Billed /\ (r.ok => destroyer \notin Billed')
      /\ DOMAIN rental' = Rentals /\ \A j \in Rentals : DOMAIN rental'[j] = {"state", "auto", "host"}
  BY <1>1, DeleteFacts
<1>3. caller' = caller
  BY DEF EndDestroy
<1>4. Shapes' /\ strays \subseteq strays'
  BY <1>1, <1>2, <1>3
<1>5. LeaksExplained'
  BY <1>1, <1>2 DEF LeaksExplained
<1> QED
  BY <1>2, <1>3, <1>4, <1>5, OthersKeep

\* The polling thread has deleted its machine, or failed to.
LEMMA PollDeleteKeeps == ASSUME LeakInv, NEW i \in Rentals, PollDelete(i) PROVE LeakInv'
<1> USE DEF LeakInv, Shapes
<1>1. PICK r \in DeleteResults(i) : rental' = r.rental /\ strays' = IF r.ok THEN strays ELSE strays \cup {i}
  BY DEF PollDelete
<1>2. /\ Billed' \subseteq Billed /\ (r.ok => i \notin Billed')
      /\ DOMAIN rental' = Rentals /\ \A j \in Rentals : DOMAIN rental'[j] = {"state", "auto", "host"}
  BY <1>1, DeleteFacts
<1>3. caller' = caller /\ instance' = MarkDestroyed(i)
  BY DEF PollDelete
<1>4. Shapes' /\ strays \subseteq strays'
  BY <1>1, <1>2, <1>3 DEF MarkDestroyed
<1>5. LeaksExplained'
  BY <1>1, <1>2, <1>3 DEF LeaksExplained, MarkDestroyed
<1> QED
  BY <1>2, <1>3, <1>4, <1>5, OthersKeep

\* The clean-up deletes or adopts; it adopts only when nothing is tracked.
LEMMA CleanupKeeps == ASSUME LeakInv, NEW i \in Rentals, CleanupOne(i) PROVE LeakInv'
<1> USE RentalConstants DEF LeakInv, Shapes
<1>1. caller' = caller /\ strays' = strays
  BY DEF CleanupOne
<1>2. CASE UNCHANGED rental /\ instance' = IF instance.id = 0 THEN [id |-> i, status |-> "running"] ELSE instance
  <2>1. Shapes' /\ Billed' = Billed
    BY <1>1, <1>2 DEF Billed
  <2>2. LeaksExplained'
    BY <1>1, <1>2, <2>1 DEF LeaksExplained, Billed
  <2> QED
    BY <1>1, <2>1, <2>2, OthersKeep
<1>3. CASE UNCHANGED instance /\ \E r \in DeleteResults(i) : rental' = r.rental
  <2>1. /\ Billed' \subseteq Billed
        /\ DOMAIN rental' = Rentals /\ \A j \in Rentals : DOMAIN rental'[j] = {"state", "auto", "host"}
    BY <1>3, DeleteFacts
  <2>2. Shapes' /\ LeaksExplained'
    BY <1>1, <1>3, <2>1 DEF LeaksExplained
  <2> QED
    BY <1>1, <2>1, <2>2, OthersKeep
<1>4. CASE UNCHANGED <<instance, rental>>
  <2>1. Shapes' /\ Billed' = Billed /\ LeaksExplained'
    BY <1>1, <1>4 DEF LeaksExplained, Billed
  <2> QED
    BY <1>1, <2>1, OthersKeep
<1> QED
  BY <1>2, <1>3, <1>4 DEF CleanupOne

\* The request of destroy() is for a machine.
LEMMA DestroyerInit == RentalInit => destroyer \in Rentals \cup {0}
BY DEF RentalInit

\* It stays one: the instance of the moment has been rented.
LEMMA DestroyerStep ==
  ASSUME Shapes, destroyer \in Rentals \cup {0}, [RentalNext]_rentalVars PROVE destroyer' \in Rentals \cup {0}
BY DEF Shapes, RentalNext, rentalVars, BeginProvision, SearchOffers, Rent, BeginDestroy, EndDestroy, RestartManager,
       CleanupList, PollReady, PollCondemn, PollDelete, PollTimeout, CleanupOne, MachineChanges

\* Every step keeps the invariant.
LEMMA LeakInvStep ==
  ASSUME LeakInv, destroyer \in Rentals \cup {0}, [RentalNext]_rentalVars PROVE LeakInv'
<1>1. CASE RestartManager
  BY <1>1 DEF RestartManager, LeakInv, Shapes, LoneCalls, LeaksExplained, Billed, InFlight, NoInstance, Idle
<1>2. CASE EndDestroy
  BY <1>2, DestroyKeeps DEF EndDestroy
<1>3. CASE BeginDestroy \/ CleanupList \/ UNCHANGED rentalVars
  <2>1. Shapes' /\ Billed' = Billed /\ LeaksExplained' /\ strays' = strays /\ caller' = caller
    BY <1>3 DEF BeginDestroy, CleanupList, rentalVars, LeakInv, Shapes, LeaksExplained, Billed
  <2> QED
    BY <2>1, OthersKeep
<1>4. ASSUME NEW i \in Rentals, PollCondemn(i) \/ PollTimeout(i) PROVE LeakInv'
  <2>1. Shapes' /\ Billed' = Billed /\ LeaksExplained' /\ strays' = strays /\ caller' = caller
    BY <1>4 DEF PollCondemn, PollTimeout, LeakInv, Shapes, LeaksExplained, Billed
  <2> QED
    BY <2>1, OthersKeep
<1>5. ASSUME NEW i \in Rentals, PollReady(i) PROVE LeakInv'
  <2>1. Shapes' /\ Billed' = Billed /\ LeaksExplained' /\ strays' = strays /\ caller' = caller
    BY <1>5 DEF PollReady, LeakInv, Shapes, LeaksExplained, Billed
  <2> QED
    BY <2>1, OthersKeep
<1>6. ASSUME NEW i \in Rentals, MachineChanges(i) PROVE LeakInv'
  <2>1. Shapes' /\ Billed' = Billed /\ strays' = strays /\ caller' = caller /\ instance' = instance
    BY <1>6 DEF MachineChanges, LeakInv, Shapes, Billed
  <2>2. LeaksExplained'
    BY <2>1 DEF LeakInv, LeaksExplained
  <2> QED
    BY <2>1, <2>2, OthersKeep
<1> QED
  BY <1>1, <1>2, <1>3, <1>4, <1>5, <1>6, BeginKeeps, SearchKeeps, RentKeeps, PollDeleteKeeps, CleanupKeeps DEF RentalNext

\* A machine that is paid for is the one the manager knows as active or was
\* lost in one of the five ways, in every interleaving of provisioning threads,
\* pollers, destroy(), the clean-up and restarts.
THEOREM LeaksAreExplained == RentalSpec => []LeaksExplained
<1>1. LeakInv => LeaksExplained /\ Shapes
  BY DEF LeakInv
<1>2. LeakInv /\ destroyer \in Rentals \cup {0} /\ [RentalNext]_rentalVars
        => LeakInv' /\ (destroyer \in Rentals \cup {0})'
  BY <1>1, LeakInvStep, DestroyerStep
<1> QED
  BY <1>1, <1>2, LeakInvInit, DestroyerInit, PTL DEF RentalSpec

-----------------------------------------------------------------------------
(* Bad hosts.                                                              *)

\* What is on file as bad is blacklisted in memory.
HostInv == badFile \subseteq badHosts /\ DOMAIN caller = Callers /\ \A c \in Callers : DOMAIN caller[c] = DOMAIN Idle

\* No host is bad at the start.
LEMMA HostInvInit == RentalInit => HostInv
BY DEF RentalInit, HostInv

\* A host enters memory before the file, and a restart reads the file.
LEMMA HostInvStep == HostInv /\ [RentalNext]_rentalVars => HostInv'
BY DEF HostInv, Idle, RentalNext, rentalVars, BeginProvision, SearchOffers, Rent, BeginDestroy, EndDestroy,
       RestartManager, LoadBadHosts, CleanupList, PollReady, PollCondemn, PollDelete, PollTimeout, CleanupOne,
       MachineChanges

\* Only a search takes a caller from searching to renting.
LEMMA SearchedHost ==
  ASSUME HostInv, [RentalNext]_rentalVars, NEW c \in Callers, caller[c].at = "searching", caller'[c].at = "renting"
  PROVE  caller'[c].host \notin badFile
<1>1. ASSUME NEW d \in Callers, SearchOffers(d) PROVE caller'[c].host \notin badFile
  BY <1>1 DEF SearchOffers, HostInv, Idle
<1>2. ASSUME NEW d \in Callers, BeginProvision(d) \/ Rent(d) PROVE FALSE
  BY <1>2 DEF BeginProvision, Rent, InFlight, HostInv, Idle
<1>3. CASE RestartManager
  BY <1>3 DEF RestartManager, Idle
<1>4. CASE BeginDestroy \/ EndDestroy \/ CleanupList \/ UNCHANGED rentalVars
  BY <1>4 DEF BeginDestroy, EndDestroy, CleanupList, rentalVars
<1>5. ASSUME NEW i \in Rentals,
             PollReady(i) \/ PollCondemn(i) \/ PollDelete(i) \/ PollTimeout(i) \/ CleanupOne(i) \/ MachineChanges(i)
      PROVE  FALSE
  BY <1>5 DEF PollReady, PollCondemn, PollDelete, PollTimeout, CleanupOne, MachineChanges
<1> QED
  BY <1>1, <1>2, <1>3, <1>4, <1>5 DEF RentalNext

\* A host on file as bad is not rented from again by a search, by any thread and
\* after any number of restarts (search_offers, _load_bad_hosts).
THEOREM BadHostsAreAvoided == RentalSpec => BadHostsAvoided
<1>1. HostInv /\ [RentalNext]_rentalVars
        => [\A c \in Callers : caller[c].at = "searching" /\ caller'[c].at = "renting"
              => caller'[c].host \notin badFile]_rentalVars
  BY SearchedHost
<1> QED
  BY <1>1, HostInvInit, HostInvStep, PTL DEF RentalSpec, BadHostsAvoided

-----------------------------------------------------------------------------
(* The types of the rentals.                                               *)

\* A machine that is paid for has a host, and so has a call that rents one.
MachineType ==
  {r \in [state : {"unused", "starting", "up", "broken", "gone"}, auto : BOOLEAN, host : Hosts \cup {"none"}] :
     r.state \in {"starting", "up", "broken"} => r.host \in Hosts}
CallType ==
  {c \in [at : {"idle", "searching", "renting"}, auto : BOOLEAN, host : Hosts \cup {"none"}, clash : BOOLEAN] :
     c.at = "renting" => c.host \in Hosts}
InstanceType ==
  {x \in [id : Rentals \cup {0}, status : {"none", "provisioning", "running", "destroyed"}] :
     x.status = "none" <=> x.id = 0}

\* destroy() has taken a machine to delete only from an instance there is.
RentalInv ==
  /\ instance \in InstanceType /\ rental \in [Rentals -> MachineType] /\ caller \in [Callers -> CallType]
  /\ poller \in [Rentals -> {"none", "polling", "deleting"}] /\ destroyer \in Rentals \cup {0}
  /\ destroyer # 0 => instance.id # 0
  /\ badHosts \subseteq Hosts /\ badFile \subseteq Hosts /\ strays \subseteq Rentals

\* The invariant says more than the types.
LEMMA RentalTypes == RentalInv => RentalTypeOK
BY DEF RentalInv, RentalTypeOK, InstanceType, MachineType, CallType

\* Nothing is rented at the start.
LEMMA RentalInvInit == RentalInit => RentalInv
<1> SUFFICES ASSUME RentalInit PROVE RentalInv
  OBVIOUS
<1>1. Idle \in CallType /\ NoInstance \in InstanceType
      /\ [state |-> "unused", auto |-> FALSE, host |-> "none"] \in MachineType
  BY DEF Idle, NoInstance, CallType, InstanceType, MachineType
<1> QED
  BY <1>1 DEF RentalInit, RentalInv

\* A request to delete a machine leaves it, or leaves it gone.
LEMMA DeletedType ==
  ASSUME RentalInv, NEW i \in Rentals, NEW r \in DeleteResults(i) PROVE r.rental \in [Rentals -> MachineType]
<1>1. Gone(i) \in [Rentals -> MachineType]
  BY DEF RentalInv, Gone, MachineType
<1> QED
  BY <1>1 DEF DeleteResults, RentalInv

\* Marking an instance keeps its type when there is one.
LEMMA MarkedType ==
  ASSUME instance \in InstanceType, instance.id # 0, NEW st \in {"running", "destroyed"}
  PROVE  [instance EXCEPT !.status = st] \in InstanceType /\ [instance EXCEPT !.status = st].id = instance.id
BY DEF InstanceType

\* A step of a caller keeps the types.
LEMMA CallerTyped ==
  ASSUME RentalInv, NEW c \in Callers, BeginProvision(c) \/ SearchOffers(c) \/ Rent(c) PROVE RentalInv'
<1> USE DEF RentalInv
<1>1. Idle \in CallType
  BY DEF Idle, CallType
<1>2. CASE BeginProvision(c)
  <2>1. PICK auto \in BOOLEAN, host \in Hosts \cup {"none"} :
          caller' = [d \in Callers |->
            IF d = c THEN [at |-> IF host = "none" THEN "searching" ELSE "renting", auto |-> auto, host |-> host,
                           clash |-> \E e \in Callers : InFlight(e)]
            ELSE IF InFlight(d) THEN [caller[d] EXCEPT !.clash = TRUE] ELSE caller[d]]
    BY Zenon, <1>2 DEF BeginProvision
  <2> DEFINE clash == \E e \in Callers : InFlight(e)
             call == [at |-> IF host = "none" THEN "searching" ELSE "renting", auto |-> auto, host |-> host, clash |-> clash]
  <2>2. clash \in BOOLEAN
    BY Zenon
  <2> HIDE DEF clash
  <2>3. call \in CallType
    BY <2>2 DEF CallType
  <2>4. \A d \in Callers : [caller[d] EXCEPT !.clash = TRUE] \in CallType
    BY DEF CallType
  <2>5. caller' = [d \in Callers |-> IF d = c THEN call
                                     ELSE IF InFlight(d) THEN [caller[d] EXCEPT !.clash = TRUE] ELSE caller[d]]
    BY Zenon, <2>1 DEF clash
  <2> HIDE DEF call
  <2>6. caller' \in [Callers -> CallType]
    BY <2>3, <2>4, <2>5
  <2> QED BY <1>2, <2>6 DEF BeginProvision
<1>3. CASE SearchOffers(c)
  <2>1. ASSUME NEW h \in Hosts PROVE [caller EXCEPT ![c].at = "renting", ![c].host = h] \in [Callers -> CallType]
    <3> DEFINE call == [caller[c] EXCEPT !.at = "renting", !.host = h]
    <3>1. call \in CallType
      BY DEF CallType
    <3>2. [caller EXCEPT ![c].at = "renting", ![c].host = h] = [caller EXCEPT ![c] = call]
      OBVIOUS
    <3> HIDE DEF call
    <3> QED BY <3>1, <3>2
  <2>2. [caller EXCEPT ![c] = Idle] \in [Callers -> CallType]
    BY <1>1
  <2>3. caller' \in [Callers -> CallType]
    BY <1>3, <2>1, <2>2 DEF SearchOffers
  <2> QED BY <1>3, <2>3 DEF SearchOffers
<1>4. CASE Rent(c)
  <2>1. caller' \in [Callers -> CallType]
    BY <1>1, <1>4 DEF Rent
  <2>2. /\ destroyer' = destroyer /\ badHosts' = badHosts /\ badFile' = badFile
    BY <1>4 DEF Rent
  <2>3. CASE UNCHANGED <<rental, instance, poller, strays>>
    BY <2>1, <2>2, <2>3
  <2>4. ASSUME NEW i \in Rentals,
               rental' = [rental EXCEPT ![i] = [state |-> "starting", auto |-> caller[c].auto, host |-> caller[c].host]],
               \/ /\ instance' = [id |-> i, status |-> "provisioning"]
                  /\ poller' = IF caller[c].auto THEN [poller EXCEPT ![i] = "polling"] ELSE poller
                  /\ strays' = IF caller[c].clash /\ instance.id # 0 THEN strays \cup {instance.id} ELSE strays
               \/ strays' = strays \cup {i} /\ UNCHANGED <<instance, poller>>
        PROVE  RentalInv'
    <3>0. caller[c].at = "renting" /\ caller[c] \in CallType
      BY <1>4 DEF Rent
    <3>1. [state |-> "starting", auto |-> caller[c].auto, host |-> caller[c].host] \in MachineType
      BY <3>0 DEF MachineType, CallType
    <3>2. rental' \in [Rentals -> MachineType]
      BY <2>4, <3>1
    <3>3. i # 0 /\ [id |-> i, status |-> "provisioning"] \in InstanceType
      BY RentalConstants DEF InstanceType
    <3>4. instance' \in InstanceType /\ (instance.id # 0 => instance'.id # 0)
      BY <2>4, <3>3
    <3>5. instance.id \in Rentals \cup {0}
      BY DEF InstanceType
    <3>6. strays' \subseteq Rentals /\ poller' \in [Rentals -> {"none", "polling", "deleting"}]
      BY <2>4, <3>5
    <3> QED BY <2>1, <2>2, <3>2, <3>4, <3>6
  <2> QED BY <1>4, <2>3, <2>4 DEF Rent
<1> QED
  BY <1>2, <1>3, <1>4

\* Every step keeps the types: destroy() deletes a machine that was the instance,
\* and no machine is condemned without a host.
LEMMA RentalInvStep == RentalInv /\ [RentalNext]_rentalVars => RentalInv'
<1> SUFFICES ASSUME RentalInv, [RentalNext]_rentalVars PROVE RentalInv'
  OBVIOUS
<1> USE DEF RentalInv
<1>1. CASE BeginDestroy
  BY <1>1 DEF BeginDestroy, InstanceType
<1>2. CASE EndDestroy
  <2>1. destroyer \in Rentals /\ destroyer' = 0 /\ instance.id # 0 /\ instance.id \in Rentals
    BY <1>2 DEF EndDestroy, InstanceType
  <2>2. rental' \in [Rentals -> MachineType]
    BY <1>2, <2>1, DeletedType DEF EndDestroy
  <2>3. instance' \in InstanceType /\ strays' \subseteq Rentals
    BY <1>2, <2>1, MarkedType DEF EndDestroy
  <2> QED BY <1>2, <2>1, <2>2, <2>3 DEF EndDestroy
<1>3. CASE RestartManager
  BY <1>3 DEF RestartManager, NoInstance, InstanceType, Idle, CallType, LoadBadHosts, Billed
<1>4. CASE CleanupList \/ UNCHANGED rentalVars
  BY <1>4 DEF CleanupList, rentalVars
<1>5. ASSUME NEW i \in Rentals, PollReady(i) \/ PollTimeout(i) PROVE RentalInv'
  <2>1. i # 0
    BY RentalConstants
  <2>2. instance' \in InstanceType /\ instance'.id = instance.id
    BY <1>5, <2>1, MarkedType DEF PollReady, PollTimeout
  <2> QED BY <1>5, <2>2 DEF PollReady, PollTimeout
<1>6. ASSUME NEW i \in Rentals, PollCondemn(i) PROVE RentalInv'
  <2>1. rental[i].host \in Hosts
    BY <1>6 DEF PollCondemn, MachineType
  <2>2. badHosts' \subseteq Hosts /\ badFile' \subseteq Hosts
    BY <1>6, <2>1 DEF PollCondemn
  <2> QED BY <1>6, <2>2 DEF PollCondemn
<1>7. ASSUME NEW i \in Rentals, PollDelete(i) PROVE RentalInv'
  <2>1. i # 0
    BY RentalConstants
  <2>2. instance' \in InstanceType /\ instance'.id = instance.id
    BY <1>7, <2>1, MarkedType DEF PollDelete, MarkDestroyed
  <2>3. rental' \in [Rentals -> MachineType] /\ strays' \subseteq Rentals
    BY <1>7, DeletedType DEF PollDelete
  <2> QED BY <1>7, <2>2, <2>3 DEF PollDelete
<1>8. ASSUME NEW i \in Rentals, CleanupOne(i) PROVE RentalInv'
  <2>1. i # 0 /\ [id |-> i, status |-> "running"] \in InstanceType
    BY RentalConstants DEF InstanceType
  <2>2. instance' \in InstanceType /\ (instance.id # 0 => instance'.id # 0)
    BY <1>8, <2>1 DEF CleanupOne
  <2>3. rental' \in [Rentals -> MachineType]
    BY <1>8, DeletedType DEF CleanupOne
  <2> QED BY <1>8, <2>2, <2>3 DEF CleanupOne
<1>9. ASSUME NEW i \in Rentals, MachineChanges(i) PROVE RentalInv'
  <2>1. rental' \in [Rentals -> MachineType]
    BY <1>9 DEF MachineChanges, MachineType
  <2> QED BY <1>9, <2>1 DEF MachineChanges
<1> QED
  BY <1>1, <1>2, <1>3, <1>4, <1>5, <1>6, <1>7, <1>8, <1>9, CallerTyped DEF RentalNext

-----------------------------------------------------------------------------
(* The composition of MCServices.                                          *)

\* A step of the composition is a step or a stutter of each service.
LEMMA ServiceSteps ==
  [Next]_vars => /\ [AccessNext]_accessVars /\ [BreakerNext]_breakerVars
                 /\ [ParallelNext]_parallelVars /\ [RentalNext]_rentalVars
<1> SUFFICES ASSUME [Next]_vars
             PROVE  /\ [AccessNext]_accessVars /\ [BreakerNext]_breakerVars
                    /\ [ParallelNext]_parallelVars /\ [RentalNext]_rentalVars
  OBVIOUS
<1>1. CASE InAccess(AccessNext)
  BY Zenon, <1>1 DEF InAccess
<1>2. CASE InBreaker(BreakerNext)
  BY Zenon, <1>2 DEF InBreaker
<1>3. CASE InParallel(ParallelNext)
  BY Zenon, <1>3 DEF InParallel
<1>4. CASE InRental(RentalNext)
  BY Zenon, <1>4 DEF InRental
<1>5. CASE UNCHANGED vars
  BY Zenon, <1>5 DEF vars
<1> QED
  BY Zenon, <1>1, <1>2, <1>3, <1>4, <1>5 DEF Next

\* Whichever service runs, the account files, the breaker, the task runner and the
\* rentals keep their types: no counter passes its limit, no machine without a host
\* is condemned and destroy() never loses the number of its machine.
THEOREM ServicesAreTyped == Spec => []ServicesTypeOK
<1> DEFINE Inv == FilesInv /\ BreakerInv /\ RunnerInv /\ RentalInv
<1>1. Init => Inv
  BY Zenon, FilesInvInit, BreakerInvInit, RunnerInvInit, RentalInvInit DEF Init
<1>2. Inv /\ [Next]_vars => Inv'
  BY Zenon, ServiceSteps, FilesInvStep, BreakerInvStep, RunnerInvStep, RentalInvStep
<1>3. Inv => ServicesTypeOK
  BY Zenon, RentalTypes DEF ServicesTypeOK, FilesInv, BreakerInv, RunnerInv
<1> QED
  <2> HIDE DEF Inv
  <2> QED BY <1>1, <1>2, <1>3, PTL DEF Spec
=============================================================================
