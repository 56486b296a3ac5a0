----------------------------- MODULE GpuRental -----------------------------
(***************************************************************************)
(* Rented GPU machines: VastAIManager, one shared object without a lock.   *)
(* Reasoning threads provision through it (model_orchestrator, on the way  *)
(* to a provider), the web API provisions and destroys, one thread per     *)
(* rental polls until the machine answers, and after a restart a thread    *)
(* cleans up what earlier processes left.  Vast.ai is external: a request  *)
(* can fail, be done, or be done with its reply lost; a machine comes up   *)
(* or breaks by itself, and is paid for until it is deleted.               *)
(***************************************************************************)
EXTENDS Naturals

CONSTANTS
  Rentals,      \* numbers Vast.ai gives, in this order
  Hosts,
  Callers,      \* threads that provision
  MaxRestarts   \* bound

ASSUME RentalConstants == Rentals \subseteq Nat \ {0} /\ MaxRestarts \in Nat

VARIABLES
  instance,     \* _instance: [id, status], id 0 for None
  rental,       \* what Vast.ai has: id -> [state, auto: labelled igris-orchestrator-, host]
  caller,       \* thread -> [at, auto, host, clash: another call was under way]
  poller,       \* rental -> its _poll_until_ready: none | polling | deleting
  destroyer,    \* the rental that destroy() is deleting, or 0
  badHosts,     \* _failed_host_ids
  badFile,      \* vastai_bad_hosts.json
  cleanup,      \* _startup_cleanup: [at, seen: rental -> listed state]
  strays,       \* rentals lost in one of the ways LeaksExplained names
  serverRuns    \* restarts so far

rentalVars == <<instance, rental, caller, poller, destroyer, badHosts, badFile, cleanup, strays, serverRuns>>

NoInstance == [id |-> 0, status |-> "none"]
Idle == [at |-> "idle", auto |-> FALSE, host |-> "none", clash |-> FALSE]
Unseen == [i \in Rentals |-> "unseen"]
Billed == {i \in Rentals : rental[i].state \in {"starting", "up", "broken"}}
InFlight(c) == caller[c].at # "idle"

RentalInit ==
  /\ instance = NoInstance
  /\ rental = [i \in Rentals |-> [state |-> "unused", auto |-> FALSE, host |-> "none"]]
  /\ caller = [c \in Callers |-> Idle]
  /\ poller = [i \in Rentals |-> "none"] /\ destroyer = 0
  /\ badHosts = {} /\ badFile = {}
  /\ cleanup = [at |-> "list", seen |-> Unseen]
  /\ strays = {} /\ serverRuns = 0

-----------------------------------------------------------------------------
(***************************************************************************)
(* provision and auto_provision_for_orchestrator                           *)
(***************************************************************************)
\* The gates on mode, key, approval and budget do not change; the anti-duplicate
\* gate is the one that decides.  Mutant: it forgets a machine still starting.
AntiDuplicate_RunningOnly == instance.status # "running"
AntiDuplicate == instance.status \notin {"running", "provisioning"}

\* A call passes the gates.  The API call may name the offer.
BeginProvision(c) ==
  /\ ~InFlight(c) /\ AntiDuplicate
  /\ \E auto \in BOOLEAN, host \in Hosts \cup {"none"} :
       /\ auto => host = "none"
       /\ caller' = [d \in Callers |->
            IF d = c THEN [at |-> IF host = "none" THEN "searching" ELSE "renting", auto |-> auto, host |-> host,
                           clash |-> \E e \in Callers : InFlight(e)]
            ELSE IF InFlight(d) THEN [caller[d] EXCEPT !.clash = TRUE] ELSE caller[d]]
  /\ UNCHANGED <<instance, rental, poller, destroyer, badHosts, badFile, cleanup, strays, serverRuns>>

\* search_offers: the cheapest offer of a host that is not blacklisted; or none.
SearchOffers(c) ==
  /\ caller[c].at = "searching"
  /\ \/ \E h \in Hosts \ badHosts : caller' = [caller EXCEPT ![c].at = "renting", ![c].host = h]
     \/ caller' = [caller EXCEPT ![c] = Idle]
  /\ UNCHANGED <<instance, rental, poller, destroyer, badHosts, badFile, cleanup, strays, serverRuns>>

\* PUT /asks/<id>/: rented and tracked, with a polling thread if auto; rented
\* and the reply lost; or refused.
NextId(i) == rental[i].state = "unused" /\ \A j \in Rentals : rental[j].state = "unused" => i <= j
Rent(c) ==
  /\ caller[c].at = "renting"
  /\ caller' = [caller EXCEPT ![c] = Idle]
  /\ \/ \E i \in Rentals :
          /\ NextId(i)
          /\ rental' = [rental EXCEPT ![i] = [state |-> "starting", auto |-> caller[c].auto, host |-> caller[c].host]]
          /\ \/ /\ instance' = [id |-> i, status |-> "provisioning"]
                /\ poller' = IF caller[c].auto THEN [poller EXCEPT ![i] = "polling"] ELSE poller
                /\ strays' = IF caller[c].clash /\ instance.id # 0 THEN strays \cup {instance.id} ELSE strays
             \/ strays' = strays \cup {i} /\ UNCHANGED <<instance, poller>>
     \/ UNCHANGED <<rental, instance, poller, strays>>
  /\ UNCHANGED <<destroyer, badHosts, badFile, cleanup, serverRuns>>

-----------------------------------------------------------------------------
\* DELETE /instances/<i>/: whether it is done, and whether the caller knows.
Gone(i) == [rental EXCEPT ![i].state = "gone"]
DeleteResults(i) == {[rental |-> Gone(i), ok |-> TRUE], [rental |-> Gone(i), ok |-> FALSE], [rental |-> rental, ok |-> FALSE]}

\* destroy(): the request is sent for the instance of that moment ...
BeginDestroy ==
  /\ destroyer = 0 /\ instance.status \notin {"none", "destroyed"}
  /\ destroyer' = instance.id
  /\ UNCHANGED <<instance, rental, caller, poller, badHosts, badFile, cleanup, strays, serverRuns>>
\* ... and when it has succeeded whatever is the instance now is marked.
EndDestroy ==
  /\ destroyer # 0 /\ destroyer' = 0
  /\ \E r \in DeleteResults(destroyer) :
       /\ rental' = r.rental
       /\ IF r.ok
            THEN /\ instance' = [instance EXCEPT !.status = "destroyed"]
                 /\ strays' = IF instance.id # destroyer THEN strays \cup {instance.id} ELSE strays
            ELSE UNCHANGED <<instance, strays>>
  /\ UNCHANGED <<caller, poller, badHosts, badFile, cleanup, serverRuns>>

(***************************************************************************)
(* _poll_until_ready                                                       *)
(***************************************************************************)
\* Ollama answers: the endpoint is published, if the rental is still the instance.
PollReady(i) ==
  /\ poller[i] = "polling" /\ rental[i].state = "up"
  /\ poller' = [poller EXCEPT ![i] = "none"]
  /\ instance' = IF instance.id = i THEN [instance EXCEPT !.status = "running"] ELSE instance
  /\ UNCHANGED <<rental, caller, destroyer, badHosts, badFile, cleanup, strays, serverRuns>>

\* A machine in a terminal state, with a fatal Docker message or silent for too
\* many polls (any that is starting may be): its host is blacklisted and saved;
\* the write may fail, or be broken off after the truncation.
PollCondemn(i) ==
  /\ poller[i] = "polling" /\ rental[i].state \in {"broken", "starting"}
  /\ poller' = [poller EXCEPT ![i] = "deleting"]
  /\ badHosts' = badHosts \cup {rental[i].host}
  /\ \/ badFile' = badHosts'
     \/ UNCHANGED badFile
     \/ badFile' = {}
  /\ UNCHANGED <<instance, rental, caller, destroyer, cleanup, strays, serverRuns>>

\* The machine is deleted, or that fails; either way it is marked destroyed.
MarkDestroyed(i) == IF instance.id = i THEN [instance EXCEPT !.status = "destroyed"] ELSE instance
PollDelete(i) ==
  /\ poller[i] = "deleting"
  /\ poller' = [poller EXCEPT ![i] = "none"]
  /\ \E r \in DeleteResults(i) :
       /\ rental' = r.rental
       /\ strays' = IF r.ok THEN strays ELSE strays \cup {i}
  /\ instance' = MarkDestroyed(i)
  /\ UNCHANGED <<caller, destroyer, badHosts, badFile, cleanup, serverRuns>>

\* max_wait is over: the thread ends and nothing else changes.
PollTimeout(i) ==
  /\ poller[i] = "polling"
  /\ poller' = [poller EXCEPT ![i] = "none"]
  /\ UNCHANGED <<instance, rental, caller, destroyer, badHosts, badFile, cleanup, strays, serverRuns>>

(***************************************************************************)
(* Restart and _startup_cleanup                                            *)
(***************************************************************************)
LoadBadHosts_Forgotten == {}   \* mutant
LoadBadHosts == badFile
RestartManager ==
  /\ serverRuns < MaxRestarts /\ serverRuns' = serverRuns + 1
  /\ instance' = NoInstance
  /\ caller' = [c \in Callers |-> Idle] /\ poller' = [i \in Rentals |-> "none"] /\ destroyer' = 0
  /\ badHosts' = LoadBadHosts
  /\ cleanup' = [at |-> "list", seen |-> Unseen]
  /\ strays' = strays \cup Billed
  /\ UNCHANGED <<rental, badFile>>

\* The list of the rentals labelled for the orchestrator, or none.
CleanupList ==
  /\ cleanup.at = "list"
  /\ cleanup' \in {[at |-> "delete", seen |-> [i \in Rentals |-> IF i \in Billed /\ rental[i].auto
                                                                    THEN rental[i].state ELSE "unseen"]],
                   [at |-> "over", seen |-> Unseen]}
  /\ UNCHANGED <<instance, rental, caller, poller, destroyer, badHosts, badFile, strays, serverRuns>>

\* One of them: deleted if it was broken or had no status yet, adopted if it was
\* running and there is no instance, else left alone.
CleanupOne(i) ==
  /\ cleanup.at = "delete" /\ cleanup.seen[i] # "unseen"
  /\ cleanup' = [cleanup EXCEPT !.seen[i] = "unseen"]
  /\ \/ /\ cleanup.seen[i] \in {"broken", "starting"}
        /\ \E r \in DeleteResults(i) : rental' = r.rental
        /\ UNCHANGED instance
     \/ /\ cleanup.seen[i] = "up"
        /\ instance' = IF instance.id = 0 THEN [id |-> i, status |-> "running"] ELSE instance
        /\ UNCHANGED rental
     \/ cleanup.seen[i] = "starting" /\ UNCHANGED <<instance, rental>>
  /\ UNCHANGED <<caller, poller, destroyer, badHosts, badFile, strays, serverRuns>>

\* Machines come up and break by themselves.
MachineChanges(i) ==
  /\ \/ rental[i].state = "starting" /\ rental' = [rental EXCEPT ![i].state = "up"]
     \/ rental[i].state \in {"starting", "up"} /\ rental' = [rental EXCEPT ![i].state = "broken"]
  /\ UNCHANGED <<instance, caller, poller, destroyer, badHosts, badFile, cleanup, strays, serverRuns>>

RentalNext ==
  \/ \E c \in Callers : BeginProvision(c) \/ SearchOffers(c) \/ Rent(c)
  \/ BeginDestroy \/ EndDestroy \/ RestartManager \/ CleanupList
  \/ \E i \in Rentals : \/ PollReady(i) \/ PollCondemn(i) \/ PollDelete(i) \/ PollTimeout(i)
                        \/ CleanupOne(i) \/ MachineChanges(i)

RentalSpec == RentalInit /\ [][RentalNext]_rentalVars

-----------------------------------------------------------------------------
\* Types of the manager's state and of what Vast.ai has.
RentalTypeOK ==
  /\ instance \in [id : Rentals \cup {0}, status : {"none", "provisioning", "running", "destroyed"}]
  /\ rental \in [Rentals -> [state : {"unused", "starting", "up", "broken", "gone"}, auto : BOOLEAN,
                             host : Hosts \cup {"none"}]]
  /\ caller \in [Callers -> [at : {"idle", "searching", "renting"}, auto : BOOLEAN, host : Hosts \cup {"none"},
                             clash : BOOLEAN]]
  /\ poller \in [Rentals -> {"none", "polling", "deleting"}] /\ destroyer \in Rentals \cup {0}
  /\ badHosts \cup badFile \subseteq Hosts /\ strays \subseteq Rentals

\* A machine that is paid for is the one the manager knows as active, unless it
\* was lost in one of five ways: two calls of provision overlapped, the reply
\* to renting it was lost, deleting it failed in the polling thread, destroy()
\* marked it while it was deleting another, or the server was restarted.  The
\* polling of an old rental and the clean-up lose none ("anti-duplicate").
LeaksExplained ==
  Billed \subseteq strays \cup (IF instance.status \in {"provisioning", "running"} THEN {instance.id} ELSE {})

\* "persist to disk so restarts don't re-discover it": a host that
\* is on file as bad is not offered again, by any thread and after any restart.
BadHostsAvoided ==
  [][\A c \in Callers :
       caller[c].at = "searching" /\ caller'[c].at = "renting" => caller'[c].host \notin badFile]_rentalVars
=============================================================================
