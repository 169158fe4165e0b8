------------------------------ MODULE Operator ------------------------------
(***************************************************************************)
(* The whole operator: the object reconcilers and the directory reconciler *)
(* in one process, over one set of informers, with the slapd the directory *)
(* reconciler deploys.                                                     *)
(*                                                                         *)
(* LDAPObject takes from its environment how ready the directory is, and   *)
(* that a request that does not fail reaches slapd.  Here the directory is *)
(* what the directory reconciler has made of it, as the informers show it  *)
(* (the variable directory follows directoryCache), a client is built from *)
(* the admin password the informers show (login), and slapd serves a       *)
(* request when its pod is ready, its service is there, and the password   *)
(* is the one the volume was set up with.                                  *)
(***************************************************************************)
EXTENDS LDAPObject

CONSTANTS DirectorySpecs, AdminPasswords, DirectoryLimits, MaxDirectoryEvents

VARIABLES
    server, directoryCache, directoryQueued, directoryWorker,
    certified, volume, directoryUsed,   \* those of LDAPDirectory
    login                               \* the password of each worker's client

D == INSTANCE LDAPDirectory
    WITH Specs <- DirectorySpecs, Passwords <- AdminPasswords,
         Limits <- DirectoryLimits, MaxEvents <- MaxDirectoryEvents,
         cache <- directoryCache, queued <- directoryQueued,
         worker <- directoryWorker, used <- directoryUsed

directoryVars == <<server, directoryCache, directoryQueued, directoryWorker,
                   certified, volume, directoryUsed>>
operatorVars  == <<vars, directoryVars, login>>

(* What LDAPDirectory assumes of its constants. *)
ASSUME DirectoryAssumption ==
    D!BoundsAssumption /\ D!PasswordsAssumption /\ D!NoneAssumption

NoLogin == [k \in Kinds |-> None]

Seen(d) == IF d = None THEN None
           ELSE [uid |-> d.uid, phase |-> IF d.phase = "Ready" THEN "Ready" ELSE "Pending"]

OperatorInit ==
    /\ Init /\ directory = None
    /\ D!Init
    /\ login = NoLogin

-----------------------------------------------------------------------------
(* The directory reconciler and what surrounds it. *)

(* The informer the object reconcilers read the directory from is the same. *)
ObjectsSee ==
    /\ directory' = Seen(directoryCache'["directory"])
    /\ UNCHANGED <<clientVars, kubernetes, worker, secret, used, history, login>>

DirectoryReconciles == D!Reconcile /\ ObjectsSee
InformersCatchUp    == (\E x \in D!Resources : D!Sync(x)) /\ ObjectsSee
DependentsCollected == (\E x \in D!Dependents : D!GarbageCollect(x)) /\ ObjectsSee
PodStarts           == D!PodReady /\ ObjectsSee
CertificateIssued   == D!CertificateIssued /\ ObjectsSee

(* The failures of the object reconcilers and their clients count like those *)
(* of the directory reconciler.                                              *)
Budget ==
    /\ D!WithinBudget
    /\ FoldFunction(+, 0, directoryUsed) + (MaxFaults - faults) < MaxDirectoryEvents

DirectoryDisturbed  == D!Environment /\ Budget /\ ObjectsSee

-----------------------------------------------------------------------------
(* The object reconcilers, their clients, and slapd. *)

(* The client is closed when Reconcile returns. *)
ClosedWhenDone(k) ==
    login' = [login EXCEPT ![k] = IF worker'[k].pc = "idle" THEN None ELSE @]

ObjectStep(k) ==
    /\ At(k, "getDistinguishedName") => login[k] # None
    /\ Reconcile(k)
    /\ ClosedWhenDone(k)
    /\ UNCHANGED directoryVars

ObjectApiFails(k) ==
    /\ ApiFails(k)
    /\ WithinBudget /\ Budget
    /\ ClosedWhenDone(k)
    /\ UNCHANGED directoryVars

(* LDAPClientBuilder.Build (lines 206-209): an error of it is returned. *)
Build(k) ==
    LET admin == directoryCache["secret"] IN
    /\ At(k, "getDistinguishedName") /\ login[k] = None
    /\ \/ /\ admin # None /\ certified
          /\ login' = [login EXCEPT ![k] = admin.password]
          /\ UNCHANGED <<worker, queue>>
       \/ /\ admin = None \/ ~certified
          /\ Finish(k, TRUE)
          /\ UNCHANGED login
    /\ UNCHANGED <<clientVars, store, cache, watch, environment, history, directoryVars>>

Serving ==
    /\ server["statefulSet"] # None /\ server["statefulSet"].ready
    /\ server["service"] # None

(* Every connection is opened as the administrator (client.go:443-458).  A   *)
(* call keeps one for all its requests, but for the bind that compares the   *)
(* password of a user, which has its own; here each request is served by     *)
(* what a new connection would need.                                         *)
Admitted(k) == Serving /\ login[k] = volume

Served(k) == Admitted(k) /\ ClientRequest(k) /\ UNCHANGED <<directoryVars, login>>

(* A request that slapd would serve gets no answer, or an error. *)
RequestLost(k) ==
    /\ ClientFails(k)
    /\ WithinBudget /\ Budget
    /\ Admitted(k)
    /\ UNCHANGED <<directoryVars, login>>

Refused(k) ==
    /\ call[k].step \notin {"idle", "returned"} /\ ~Admitted(k)
    /\ Fail(k)
    /\ UNCHANGED <<dit, faults, kubernetes, worker, environment, history, directoryVars, login>>

Take(k, o) == Get(k, o) /\ UNCHANGED <<directoryVars, login>>

Receive(o) == Sync(o) /\ UNCHANGED <<directoryVars, login>>

(* The garbage collector knows the directory as it is. *)
Collected(o) ==
    /\ Orphaned(o, Seen(server["directory"])) /\ ~store[o].deleting
    /\ Publish(o, Left(store[o]))
    /\ UNCHANGED <<clientVars, cache, queue, worker, environment, history, directoryVars, login>>

(* Users and the periodic resync of the informers. *)
UserActs(o) == WithinBudget /\ Users(o) /\ UNCHANGED <<directoryVars, login>>

ResyncObject(o) ==
    /\ Settled(o) /\ HandOver(o)
    /\ UNCHANGED <<clientVars, store, cache, watch, worker, environment, history>>
    /\ UNCHANGED <<directoryVars, login>>

ResyncDirectory ==
    /\ D!Settled /\ D!HandOver
    /\ UNCHANGED <<vars, server, directoryCache, directoryWorker, certified, volume,
                   directoryUsed, login>>

-----------------------------------------------------------------------------
(* The process: one crash or panic stops all four controllers. *)

ProcessRestarts ==
    /\ ProcessStarts
    /\ directory' = Seen(directoryCache'["directory"])
    /\ login' = NoLogin
    /\ UNCHANGED <<faults, used>>

OperatorCrash == D!Crash /\ Budget /\ ProcessRestarts

OperatorPanic(k) ==
    /\ Panicking(k)
    /\ D!Restart /\ ProcessRestarts
    /\ UNCHANGED <<server, certified, volume, directoryUsed>>

Runs(k) == ObjectStep(k) \/ Build(k) \/ Served(k) \/ Refused(k) \/ OperatorPanic(k)

Informers == InformersCatchUp \/ \E o \in Objects : Receive(o)
Collector == DependentsCollected \/ \E o \in Objects : Collected(o)

OperatorNext ==
    \/ \E k \in Kinds : Runs(k)
    \/ \E k \in Kinds, o \in Objects : Take(k, o)
    \/ DirectoryReconciles
    \/ Informers \/ Collector \/ PodStarts \/ CertificateIssued
    \/ \E k \in Kinds : ObjectApiFails(k) \/ RequestLost(k)
    \/ \E o \in Objects : ResyncObject(o) \/ UserActs(o)
    \/ ResyncDirectory \/ DirectoryDisturbed \/ OperatorCrash

(* As in the parts, though of informers, garbage collector and pods it is    *)
(* enough that one that can go on does; and every ten hours the informers do *)
(* hand everything over again.                                               *)
OperatorFairness ==
    /\ \A k \in {KindOf[o] : o \in Objects} : WF_operatorVars(Runs(k))
    /\ \A o \in Objects : /\ SF_operatorVars(Take(KindOf[o], o))
                          /\ WF_operatorVars(ResyncObject(o))
    /\ WF_operatorVars(DirectoryReconciles) /\ WF_operatorVars(ResyncDirectory)
    /\ WF_operatorVars(Informers \/ Collector \/ PodStarts)

OperatorSpec ==
    OperatorInit /\ [][OperatorNext]_operatorVars /\ OperatorFairness

-----------------------------------------------------------------------------
(* Properties.                                                             *)

Lost(events) == \E e \in events : directoryUsed[e] > 0

(* Ready can be trusted: a client is built only behind the check that the    *)
(* directory is Ready (line 145), and as long as nothing the directory       *)
(* reconciler made is lost or fails, slapd then serves it and takes its      *)
(* password, however stale the directory and the secret it was built from.   *)
Trusted ==
    ~Lost({"delete", "unready", "secretLoss", "statefulSetLoss", "serviceLoss"})
    => \A k \in Kinds : login[k] # None => Serving /\ login[k] = volume

(* Provisioning and recovery, end to end: an object that stays, of a         *)
(* directory that can start, has its entry in slapd in the end, whichever    *)
(* service, certificate, request or process was lost on the way, unless the  *)
(* admin password was.  A failed upsert is not retried (line 281), so this   *)
(* needs the resync.                                                         *)
Stays(o) == store[o] # None /\ ~store[o].deleting /\ store[o].spec.parent = None

HasEntry(o) ==
    LET d == <<RDNOf(o, store[o])>>
    IN  d \in Entries /\ dit[d].content = store[o].spec.content

Recovers ==
    \A o \in Objects :
        <>[](Stays(o) /\ D!Startable /\ ~Lost({"delete", "secretLoss"}))
        => <>[](Stays(o) /\ HasEntry(o))

(* Tearing down, end to end: where the directory is gone or can start again, *)
(* no object stays that has lost its owner, although its finalizer waits for *)
(* a reconciler that looks up the lost directory first (lines 92-108).       *)
TornDown ==
    <>[](server["directory"] = None \/ D!Startable)
    => <>[](\A o \in Objects : ~Orphaned(o, Seen(server["directory"])))

=============================================================================
