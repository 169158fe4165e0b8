---------------------------- MODULE LDAPDirectory ----------------------------
(***************************************************************************)
(* The reconciler of one LDAPDirectory                                     *)
(* (internal/controller/ldapdirectory_controller.go) with the API server,  *)
(* the informers, the garbage collector and the pod it manages.            *)
(*                                                                         *)
(*   server     what the API server holds: the directory, and the admin    *)
(*              password secret, the statefulset and the service made for  *)
(*              it                                                         *)
(*   cache      the informers' copies, which every Get of the operator     *)
(*              reads                                                      *)
(*   queued     whether the directory is in the workqueue                  *)
(*   worker     the goroutine that runs Reconcile                          *)
(*   certified  whether the certificate secret is there; the pod and the   *)
(*              cache are taken to agree on it, no informer lags here      *)
(*   volume     the admin password in the data volume, which bootstrap.sh  *)
(*              writes once; the volume outlives everything else           *)
(*   used       how often each action of the environment has happened      *)
(*                                                                         *)
(* A directory may be deleted and created again under its name: it has a   *)
(* new uid then, and finds what is left of the former one.                 *)
(* An operator named Bug... is a slip in the next one.                     *)
(***************************************************************************)
EXTENDS Naturals, Functions

CONSTANTS
    None,
    Specs,      \* specs a user may give: an image and volume claim templates
    Passwords,  \* admin passwords
    Limits,     \* bounds on each action of the environment
    MaxEvents   \* and on all of them

Events == {"create", "edit", "delete", "certificate", "unready", "secretLoss",
           "statefulSetLoss", "serviceLoss", "resync", "apiFailure", "crash"}

ASSUME BoundsAssumption ==
    MaxEvents \in Nat /\ Limits \in [Events -> Nat]

(* A generated password differs from the one that is in use, if any. *)
ASSUME PasswordsAssumption ==
    /\ None \notin Passwords
    /\ \A v \in Passwords \cup {None} : \E p \in Passwords : p # v

VARIABLES server, cache, queued, worker, certified, volume, used

vars == <<server, cache, queued, worker, certified, volume, used>>

Phases == {"", "Pending", "Ready", "Failed"}

DirectoryObject ==
    [uid : Nat, generation : Nat, deleting : BOOLEAN, finalizer : BOOLEAN,
     spec : Specs, phase : Phases, observed : Nat]

(* An object made for a directory refers to it by its uid. *)
Owner       == Nat \cup {None}
Secret      == [owner : Owner, password : Passwords]
StatefulSet == [owner : Owner, spec : Specs, ready : BOOLEAN]
Service     == [owner : Owner]

(* None is no object. *)
ASSUME NoneAssumption ==
    /\ None \notin DirectoryObject /\ None \notin Secret
    /\ None \notin StatefulSet /\ None \notin Service

Cluster == [directory : DirectoryObject \cup {None}, secret : Secret \cup {None},
            statefulSet : StatefulSet \cup {None}, service : Service \cup {None}]
Resources  == DOMAIN [directory |-> None, secret |-> None,
                      statefulSet |-> None, service |-> None]
Dependents == Resources \ {"directory"}

(* The controller owns the service.  Its reference in the statefulset is not *)
(* a controller reference, so Owns(&appsv1.StatefulSet{}) watches in vain.   *)
Watched == {"directory", "service"}

Pcs == {"idle", "addFinalizer", "deleted", "resolveReferences", "adminPassword",
        "statefulSet", "service", "isStatefulSetReady", "mark"}

(* The object in memory, the phase to write, and whether the key comes back. *)
Worker == [pc : Pcs, obj : DirectoryObject \cup {None}, phase : Phases, requeue : BOOLEAN]

Idle == [pc |-> "idle", obj |-> None, phase |-> "", requeue |-> FALSE]

Empty == [x \in Resources |-> None]

Init ==
    /\ server = Empty /\ cache = Empty
    /\ queued = FALSE
    /\ worker = Idle
    /\ certified = FALSE
    /\ volume = None
    /\ used = [e \in Events |-> 0]

-----------------------------------------------------------------------------
(* The API server and the informers.                                       *)

Store(x, v) == server' = [server EXCEPT ![x] = v]

(* An informer catches up; a directory whose object changed is enqueued. *)
Sync(x) ==
    /\ cache[x] # server[x]
    /\ cache' = [cache EXCEPT ![x] = server[x]]
    /\ queued' = (queued \/ x \in Watched)
    /\ UNCHANGED <<server, worker, certified, volume, used>>

(* What the last finalizer held back is deleted. *)
Released(d) == IF d.deleting THEN None ELSE [d EXCEPT !.finalizer = FALSE]

-----------------------------------------------------------------------------
(* Reconcile.                                                              *)

At(pc) == worker.pc = pc

Continue(w) == worker' = w /\ UNCHANGED queued

To(pc) == [worker EXCEPT !.pc = pc]

BugFinishKeepsObject(requeue) ==   \* the object outlives its Reconcile
    worker' = To("idle") /\ queued' = (queued \/ requeue)

(* Reconcile returns; with an error or RequeueAfter the key comes back. *)
Finish(requeue) == worker' = Idle /\ queued' = (queued \/ requeue)

Marking(phase, requeue) ==
    [worker EXCEPT !.pc = "mark", !.phase = phase, !.requeue = requeue]

BugFailedIsFinal  == Continue(Marking("Failed", FALSE))

MarkPending == Continue(Marking("Pending", TRUE))
MarkFailed  == Continue(Marking("Failed", TRUE))

Begin(d) == IF d.deleting THEN "deleted" ELSE "resolveReferences"

Get ==
    /\ At("idle") /\ queued
    /\ queued' = FALSE
    /\ LET d == cache["directory"] IN
          \/ d = None /\ UNCHANGED worker
          \/ /\ d # None
             /\ worker' = [Idle EXCEPT !.obj = d,
                  !.pc = IF d.finalizer THEN Begin(d) ELSE "addFinalizer"]
    /\ UNCHANGED <<server, cache, certified, volume, used>>

(* CreateOrPatch patches what the cache shows to lack the change, and cannot *)
(* create again what the cache or the API server has lost.                   *)
Unpatchable == cache["directory"] = None \/ server["directory"] = None

AddFinalizer ==
    LET cached == cache["directory"] IN
    /\ At("addFinalizer")
    /\ \/ /\ cached # None /\ cached.finalizer
          /\ Continue([To(Begin(cached)) EXCEPT !.obj = cached])
          /\ UNCHANGED server
       \/ /\ ~Unpatchable /\ ~cached.finalizer
          /\ LET d == [server["directory"] EXCEPT !.finalizer = TRUE] IN
                /\ Store("directory", d)
                /\ Continue([To(Begin(d)) EXCEPT !.obj = d])
       \/ /\ Unpatchable /\ (cached # None => ~cached.finalizer)
          /\ Finish(TRUE)
          /\ UNCHANGED server
    /\ UNCHANGED <<cache, certified, volume, used>>

RemoveFinalizer ==
    LET cached == cache["directory"] IN
    /\ At("deleted")
    /\ \/ /\ cached # None /\ ~cached.finalizer
          /\ Finish(FALSE)
          /\ UNCHANGED server
       \/ /\ ~Unpatchable /\ cached.finalizer
          /\ Store("directory", Released(server["directory"]))
          /\ Finish(FALSE)
       \/ /\ Unpatchable /\ (cached # None => cached.finalizer)
          /\ Finish(TRUE)
          /\ UNCHANGED server
    /\ UNCHANGED <<cache, certified, volume, used>>

ResolveReferences ==
    /\ At("resolveReferences")
    /\ \/ certified /\ Continue(To("adminPassword"))
       \/ ~certified /\ MarkPending
    /\ UNCHANGED <<server, cache, certified, volume, used>>

(* Which one it is does not matter, but nobody has used it before. *)
GeneratedPassword == CHOOSE p \in Passwords : p # volume

BugSecretUnowned(p) == [owner |-> None, password |-> p]

AdminPasswordSecret(p) == [owner |-> worker.obj.uid, password |-> p]

BugSecretReplaced == FALSE   \* an update instead of a create

SecretExists == server["secret"] # None

(* A password is generated when the cache shows none, and created: the API   *)
(* server refuses a second secret.                                           *)
AdminPassword ==
    /\ At("adminPassword")
    /\ \/ /\ cache["secret"] # None
          /\ Continue(To("statefulSet"))
          /\ UNCHANGED server
       \/ /\ cache["secret"] = None /\ SecretExists
          /\ Finish(TRUE)
          /\ UNCHANGED server
       \/ /\ cache["secret"] = None /\ ~SecretExists
          /\ Store("secret", AdminPasswordSecret(GeneratedPassword))
          /\ Continue(To("statefulSet"))
    /\ UNCHANGED <<cache, certified, volume, used>>

(* A create or an update computed from a stale copy is refused. *)
Stale(x) == cache[x] # server[x]

BugNeverUpdated(old, new) == old # None   \* what exists is left alone

Conforms(old, new) == old # None /\ old.spec = new.spec

(* CreateOrUpdateFromTemplate: what exists already and conforms is left      *)
(* alone, and an update cannot change the volume claims.  Whether what has   *)
(* another owner conforms is the library's choice.                           *)
StatefulSetReconciled ==
    LET old == cache["statefulSet"]
        new == [owner |-> worker.obj.uid, spec |-> worker.obj.spec, ready |-> FALSE]
        conforms == Conforms(old, new) /\ old.owner = new.owner
    IN  /\ At("statefulSet")
        /\ \/ /\ Conforms(old, new)
              /\ Continue(To("service"))
              /\ UNCHANGED server
           \/ /\ Stale("statefulSet") /\ ~conforms
              /\ MarkFailed
              /\ UNCHANGED server
           \/ /\ ~Stale("statefulSet") /\ old = None
              /\ Store("statefulSet", new)
              /\ Continue(To("service"))
           \/ /\ ~Stale("statefulSet") /\ old # None /\ ~conforms
              /\ old.spec.volumes = new.spec.volumes
              /\ Store("statefulSet", [old EXCEPT !.spec = new.spec, !.owner = new.owner])
              /\ Continue(To("service"))
           \/ /\ ~Stale("statefulSet") /\ old # None
              /\ old.spec.volumes # new.spec.volumes
              /\ MarkFailed
              /\ UNCHANGED server
        /\ UNCHANGED <<cache, certified, volume, used>>

ServiceReconciled ==
    LET old == cache["service"]
        new == [owner |-> worker.obj.uid]
    IN  /\ At("service")
        /\ \/ /\ old # None
              /\ Continue(To("isStatefulSetReady"))
              /\ UNCHANGED server
           \/ /\ Stale("service") /\ old # new
              /\ MarkFailed
              /\ UNCHANGED server
           \/ /\ ~Stale("service") /\ old # new
              /\ Store("service", new)
              /\ Continue(To("isStatefulSetReady"))
        /\ UNCHANGED <<cache, certified, volume, used>>

BugRunningTemplate(sts) == FALSE   \* the status of what was sent, which is empty

BugRunningOnceCreated(sts) == TRUE   \* that it is there is enough

Running(sts) == sts.ready

(* A statefulset the cache does not show yet is an error; only a phase other *)
(* than Ready is overwritten with Ready.                                     *)
IsStatefulSetReady ==
    LET sts == cache["statefulSet"] IN
    /\ At("isStatefulSetReady")
    /\ \/ sts = None /\ MarkFailed
       \/ sts # None /\ ~Running(sts) /\ MarkPending
       \/ /\ sts # None /\ Running(sts) /\ worker.obj.phase # "Ready"
          /\ Continue(Marking("Ready", FALSE))
       \/ /\ sts # None /\ Running(sts) /\ worker.obj.phase = "Ready"
          /\ Finish(FALSE)
    /\ UNCHANGED <<server, cache, certified, volume, used>>

Marked(d) == [d EXCEPT !.phase = worker.phase, !.observed = d.generation]

(* markPending, markReady and markFailed: UpdateStatus retries a conflict    *)
(* until the cache has caught up.  An error of it is returned, and           *)
(* markFailed is followed by an error in any case.                           *)
Mark ==
    /\ At("mark")
    /\ \/ /\ ~Unpatchable /\ ~Stale("directory")
          /\ Store("directory", Marked(server["directory"]))
          /\ Finish(worker.requeue)
       \/ /\ Unpatchable
          /\ Finish(TRUE)
          /\ UNCHANGED server
    /\ UNCHANGED <<cache, certified, volume, used>>

(* What the environment does is bounded. *)
WithinBudget == FoldFunction(+, 0, used) < MaxEvents

Happens(e) ==
    /\ used[e] < Limits[e]
    /\ used' = [used EXCEPT ![e] = @ + 1]

(* A request is answered with another error. *)
ApiFails ==
    /\ Happens("apiFailure")
    /\ \/ worker.pc \in {"addFinalizer", "deleted", "adminPassword", "mark"} /\ Finish(TRUE)
       \/ /\ worker.pc \in {"resolveReferences", "statefulSet", "service",
                            "isStatefulSetReady"}
          /\ MarkFailed
    /\ UNCHANGED <<server, cache, certified, volume>>

(* The process dies and another starts, its informers up to date. *)
Restart ==
    /\ worker' = Idle
    /\ cache' = server
    /\ queued' = (server["directory"] # None)

Crash ==
    /\ Happens("crash")
    /\ Restart
    /\ UNCHANGED <<server, certified, volume>>

Reconcile ==
    \/ Get \/ AddFinalizer \/ RemoveFinalizer \/ ResolveReferences
    \/ AdminPassword \/ StatefulSetReconciled \/ ServiceReconciled
    \/ IsStatefulSetReady \/ Mark

-----------------------------------------------------------------------------
(* Users, the garbage collector and the pod.                               *)

NewDirectory(spec) ==
    [uid |-> used["create"], generation |-> 1, deleting |-> FALSE, finalizer |-> FALSE,
     spec |-> spec, phase |-> "", observed |-> 0]

Create ==
    /\ Happens("create")
    /\ server["directory"] = None
    /\ \E spec \in Specs : Store("directory", NewDirectory(spec))
    /\ UNCHANGED <<cache, queued, worker, certified, volume>>

Edit ==
    /\ Happens("edit")
    /\ server["directory"] # None
    /\ \E spec \in Specs \ {server["directory"].spec} :
         Store("directory", [server["directory"] EXCEPT !.spec = spec, !.generation = @ + 1])
    /\ UNCHANGED <<cache, queued, worker, certified, volume>>

Delete ==
    /\ Happens("delete")
    /\ LET d == server["directory"] IN
          /\ d # None /\ ~d.deleting
          /\ Store("directory",
               IF d.finalizer THEN [d EXCEPT !.deleting = TRUE, !.generation = @ + 1]
                              ELSE None)
    /\ UNCHANGED <<cache, queued, worker, certified, volume>>

CertificateLost ==
    /\ Happens("certificate")
    /\ certified
    /\ certified' = FALSE
    /\ UNCHANGED <<server, cache, queued, worker, volume>>

(* The certificate is issued, for the first time or again.  That costs no    *)
(* event, and nobody promises that it happens.                               *)
CertificateIssued ==
    /\ ~certified
    /\ certified' = TRUE
    /\ UNCHANGED <<server, cache, queued, worker, volume, used>>

Lost(x, event) ==
    /\ Happens(event)
    /\ server[x] # None
    /\ Store(x, None)
    /\ UNCHANGED <<cache, queued, worker, certified, volume>>

DependentLost ==
    \/ Lost("secret", "secretLoss")
    \/ Lost("statefulSet", "statefulSetLoss")
    \/ Lost("service", "serviceLoss")

(* By uid: a directory of the same name does not count. *)
Alive(uid) == server["directory"] # None /\ server["directory"].uid = uid

GarbageCollect(x) ==
    /\ server[x] # None
    /\ server[x].owner # None /\ ~Alive(server[x].owner)
    /\ Store(x, None)
    /\ UNCHANGED <<cache, queued, worker, certified, volume, used>>

(* A pod starts with the certificate and the password; bootstrap.sh sets     *)
(* slapd up with that password, unless the volume is marked as bootstrapped. *)
PodReady ==
    /\ server["statefulSet"] # None /\ ~server["statefulSet"].ready
    /\ server["secret"] # None /\ certified
    /\ volume' = IF volume = None THEN server["secret"].password ELSE volume
    /\ Store("statefulSet", [server["statefulSet"] EXCEPT !.ready = TRUE])
    /\ UNCHANGED <<cache, queued, worker, certified, used>>

PodUnready ==
    /\ Happens("unready")
    /\ server["statefulSet"] # None /\ server["statefulSet"].ready
    /\ Store("statefulSet", [server["statefulSet"] EXCEPT !.ready = FALSE])
    /\ UNCHANGED <<cache, queued, worker, certified, volume>>

(* The informers hand over everything they hold every ten hours. *)
HandOver ==
    /\ cache["directory"] # None
    /\ queued' = TRUE

Resync ==
    /\ Happens("resync")
    /\ HandOver
    /\ UNCHANGED <<server, cache, worker, certified, volume>>

Environment ==
    \/ ApiFails
    \/ Create \/ Edit \/ Delete \/ CertificateLost \/ DependentLost
    \/ PodUnready \/ Resync

Progress ==
    \/ Reconcile
    \/ \E x \in Resources : Sync(x)
    \/ \E x \in Dependents : GarbageCollect(x)
    \/ PodReady

Next ==
    \/ Progress \/ CertificateIssued
    \/ WithinBudget /\ (Environment \/ Crash)

(* The worker and the informers keep going, the garbage collector finds what *)
(* has lost its owner, and a pod that can start does.                        *)
Fairness ==
    /\ WF_vars(Reconcile)
    /\ \A x \in Resources : WF_vars(Sync(x))
    /\ \A x \in Dependents : WF_vars(GarbageCollect(x))
    /\ WF_vars(PodReady)

Spec == Init /\ [][Next]_vars
FairSpec == Spec /\ Fairness

-----------------------------------------------------------------------------
(* Properties.                                                             *)

(* Every variable keeps its type, and a worker holds a directory exactly     *)
(* while it is reconciling.                                                  *)
TypeOK ==
    /\ server \in Cluster /\ cache \in Cluster
    /\ queued \in BOOLEAN /\ certified \in BOOLEAN
    /\ worker \in Worker
    /\ worker.pc = "idle" <=> worker.obj = None
    /\ volume \in Passwords \cup {None}
    /\ used \in [Events -> Nat]

(* The operator can log in to slapd: the secret it reads the admin password  *)
(* from holds the one slapd was bootstrapped with, whatever was stale when   *)
(* the password was looked up and generated (lines 159-181), as long as      *)
(* nobody deletes the secret and the directory has not been deleted.         *)
PasswordMatches ==
    (/\ used["secretLoss"] = 0 /\ used["delete"] = 0
     /\ server["secret"] # None /\ volume # None)
    => server["secret"].password = volume

(* The operator has nothing left to do. *)
Settled == ~queued /\ worker = Idle /\ cache = server

(* Nobody is forgotten: the operator comes to rest only on a directory that  *)
(* is Ready, whatever was stale, edited, refused or lost between the event   *)
(* that woke it up and the status it wrote (lines 107-157, 183-260).         *)
RestsReady ==
    (Settled /\ server["directory"] # None) => server["directory"].phase = "Ready"

(* The last word is the spec's: when the operator comes to rest, the         *)
(* statefulset, if it is there, is made from the spec of the directory,      *)
(* whatever was edited, refused or stale on the way (lines 183-260).         *)
NewestSpecWins ==
    (Settled /\ server["directory"] # None /\ server["statefulSet"] # None)
    => server["statefulSet"].spec = server["directory"].spec

Startable ==
    LET d   == server["directory"]
        sts == server["statefulSet"]
    IN  /\ certified
        /\ d # None /\ ~d.deleting
        /\ sts # None => sts.spec.volumes = d.spec.volumes

(* A directory that can start becomes Ready in the end and stays so,         *)
(* although nothing watches the certificate or the statefulset (lines        *)
(* 126-146, 229-260, 265-271).                                               *)
BecomesReady ==
    <>[]Startable
    => <>[](server["directory"] # None /\ server["directory"].phase = "Ready")

(* "Nothing to do here, as the downstream resources will be garbage          *)
(* collected" (lines 107-108): a deleted directory goes, and so does         *)
(* everything in the API server that was made for it, although a Reconcile   *)
(* of it may still be creating things, and another directory may have taken  *)
(* its name.                                                                 *)
CleansUp ==
    []<>(/\ server["directory"] # None => ~server["directory"].deleting
         /\ \A x \in Dependents : server[x] # None => Alive(server[x].owner))

-----------------------------------------------------------------------------
(* What the API says, and the code does not always do.                     *)

(* "Phase is the current state of the LDAP directory"                        *)
(* (ldapdirectory_types.go:82): when the operator has nothing left to do, a  *)
(* directory that is Ready has a statefulset that is.                        *)
PhaseIsCurrent ==
    (Settled /\ server["directory"] # None /\ server["directory"].phase = "Ready")
    => server["statefulSet"] # None /\ server["statefulSet"].ready

=============================================================================
