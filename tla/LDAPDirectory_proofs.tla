------------------------ MODULE LDAPDirectory_proofs ------------------------
(***************************************************************************)
(* What the directory reconciler keeps true, for every set of specs and    *)
(* passwords and any number of events.                                     *)
(***************************************************************************)
EXTENDS LDAPDirectory, TLAPS

LEMMA ResourcesAre ==
    /\ Resources = {"directory", "secret", "statefulSet", "service"}
    /\ Dependents = {"secret", "statefulSet", "service"}
BY DEF Resources, Dependents

LEMMA InitTypes == Init => TypeOK
<1> SUFFICES ASSUME Init PROVE TypeOK
  OBVIOUS
<1>1. Empty \in Cluster
  BY ResourcesAre DEF Empty, Cluster
<1>2. Idle \in Worker /\ Idle.pc = "idle" /\ Idle.obj = None
  BY DEF Idle, Worker, Pcs, Phases
<1> QED
  BY <1>1, <1>2 DEF Init, TypeOK, Events

(* Records of the cluster, by resource. *)
LEMMA ClusterParts ==
    ASSUME NEW c \in Cluster
    PROVE  /\ c["directory"] \in DirectoryObject \cup {None}
           /\ c["secret"] \in Secret \cup {None}
           /\ c["statefulSet"] \in StatefulSet \cup {None}
           /\ c["service"] \in Service \cup {None}
BY DEF Cluster

LEMMA ClusterUpdate ==
    ASSUME NEW c \in Cluster, NEW x \in Resources, NEW v,
           x = "directory" => v \in DirectoryObject \cup {None},
           x = "secret" => v \in Secret \cup {None},
           x = "statefulSet" => v \in StatefulSet \cup {None},
           x = "service" => v \in Service \cup {None}
    PROVE  /\ [c EXCEPT ![x] = v] \in Cluster
           /\ [c EXCEPT ![x] = v][x] = v
           /\ \A y \in Resources \ {x} : [c EXCEPT ![x] = v][y] = c[y]
BY ResourcesAre DEF Cluster

LEMMA GeneratedTypes ==
    ASSUME TypeOK
    PROVE  GeneratedPassword \in Passwords /\ GeneratedPassword # volume
BY PasswordsAssumption DEF TypeOK, GeneratedPassword

(* An action of the environment that is counted. *)
LEMMA HappensTypes ==
    ASSUME TypeOK, NEW e \in Events, Happens(e)
    PROVE  /\ used' \in [Events -> Nat]
           /\ used'[e] = used[e] + 1
           /\ \A f \in Events \ {e} : used'[f] = used[f]
BY DEF TypeOK, Happens

LEMMA SyncTypes ==
    ASSUME TypeOK, NEW x \in Resources, Sync(x)
    PROVE  TypeOK'
<1>1. cache' \in Cluster
  <2>1. cache' = [cache EXCEPT ![x] = server[x]] /\ cache \in Cluster /\ server \in Cluster
    BY DEF Sync, TypeOK
  <2> QED
    BY <2>1, ClusterParts, ClusterUpdate
<1> QED
  BY <1>1 DEF Sync, TypeOK

LEMMA IdleTypes == Idle \in Worker /\ Idle.pc = "idle" /\ Idle.obj = None
BY DEF Idle, Worker, Pcs, Phases

(* What a step of Reconcile may become. *)
LEMMA WorkerTypes ==
    ASSUME TypeOK, worker.obj # None
    PROVE  /\ \A pc \in Pcs \ {"idle"} :
                 /\ To(pc) \in Worker /\ To(pc).pc = pc /\ To(pc).obj = worker.obj
                 /\ \A d \in DirectoryObject :
                      LET w == [To(pc) EXCEPT !.obj = d]
                      IN  w \in Worker /\ w.pc = pc /\ w.obj = d
           /\ \A phase \in Phases, requeue \in BOOLEAN :
                 LET w == Marking(phase, requeue)
                 IN  /\ w \in Worker /\ w.pc = "mark" /\ w.obj = worker.obj
                     /\ w.phase = phase /\ w.requeue = requeue
BY DEF TypeOK, Worker, To, Marking, Pcs

(* A directory is reconciled. *)
LEMMA Busy ==
    ASSUME TypeOK, worker.pc # "idle"
    PROVE  worker.obj \in DirectoryObject /\ worker.obj # None
BY DEF TypeOK, Worker

LEMMA GetTypes == ASSUME TypeOK, Get PROVE TypeOK'
<1> DEFINE d == cache["directory"]
<1>1. d \in DirectoryObject \cup {None}
  BY ClusterParts DEF TypeOK
<1>2. CASE UNCHANGED worker
  BY <1>2 DEF Get, TypeOK
<1>3. CASE d # None /\ worker' = [Idle EXCEPT !.obj = d,
                  !.pc = IF d.finalizer THEN Begin(d) ELSE "addFinalizer"]
  <2>1. worker' \in Worker /\ worker'.obj = d /\ worker'.pc # "idle"
    BY <1>1, <1>3 DEF Idle, Worker, Pcs, Phases, Begin
  <2> QED
    BY <2>1, <1>1, <1>3, NoneAssumption DEF Get, TypeOK
<1> QED
  BY <1>2, <1>3 DEF Get

(* The step ends the call or goes on with the same object; the API server   *)
(* has at most one resource replaced.                                        *)
LEMMA StepTypes ==
    ASSUME TypeOK, worker.obj # None,
           \/ server' = server
           \/ \E v \in DirectoryObject \cup {None} : Store("directory", v)
           \/ \E v \in Secret \cup {None} : Store("secret", v)
           \/ \E v \in StatefulSet \cup {None} : Store("statefulSet", v)
           \/ \E v \in Service \cup {None} : Store("service", v),
           \/ \E requeue \in BOOLEAN : Finish(requeue)
           \/ \E pc \in Pcs \ {"idle"} : Continue(To(pc))
           \/ \E pc \in Pcs \ {"idle"}, d \in DirectoryObject :
                 Continue([To(pc) EXCEPT !.obj = d])
           \/ \E phase \in Phases, requeue \in BOOLEAN : Continue(Marking(phase, requeue)),
           UNCHANGED <<cache, certified, volume>>,
           used' \in [Events -> Nat]
    PROVE  TypeOK'
<1>1. server' \in Cluster
  BY ClusterUpdate, ResourcesAre DEF TypeOK, Store
<1>2. worker' \in Worker /\ (worker'.pc = "idle" <=> worker'.obj = None)
  <2>1. ASSUME NEW requeue \in BOOLEAN, Finish(requeue)
        PROVE  worker' \in Worker /\ worker'.pc = "idle" /\ worker'.obj = None
    BY <2>1, IdleTypes DEF Finish
  <2>2. ASSUME NEW pc \in Pcs \ {"idle"}, Continue(To(pc))
        PROVE  worker' \in Worker /\ worker'.pc # "idle" /\ worker'.obj # None
    BY <2>2, WorkerTypes DEF Continue
  <2>3. ASSUME NEW pc \in Pcs \ {"idle"}, NEW d \in DirectoryObject,
               Continue([To(pc) EXCEPT !.obj = d])
        PROVE  worker' \in Worker /\ worker'.pc # "idle" /\ worker'.obj # None
    BY <2>3, WorkerTypes, NoneAssumption DEF Continue
  <2>4. ASSUME NEW phase \in Phases, NEW requeue \in BOOLEAN, Continue(Marking(phase, requeue))
        PROVE  worker' \in Worker /\ worker'.pc # "idle" /\ worker'.obj # None
    BY <2>4, WorkerTypes DEF Continue
  <2> QED
    BY <2>1, <2>2, <2>3, <2>4
<1>3. queued' \in BOOLEAN
  BY DEF Finish, Continue, TypeOK
<1> QED
  BY <1>1, <1>2, <1>3 DEF TypeOK

LEMMA BeginIsStep == \A d : Begin(d) \in Pcs \ {"idle"}
BY DEF Begin, Pcs

LEMMA AddFinalizerTypes == ASSUME TypeOK, AddFinalizer PROVE TypeOK'
<1>1. worker.obj # None /\ used' \in [Events -> Nat]
  BY DEF AddFinalizer, At, TypeOK
<1>2. /\ cache["directory"] \in DirectoryObject \cup {None}
      /\ server["directory"] \in DirectoryObject \cup {None}
  BY ClusterParts DEF TypeOK
<1>3. ~Unpatchable => [server["directory"] EXCEPT !.finalizer = TRUE] \in DirectoryObject
  BY <1>2 DEF Unpatchable, DirectoryObject
<1> QED
  BY <1>1, <1>2, <1>3, StepTypes, BeginIsStep DEF AddFinalizer

LEMMA RemoveFinalizerTypes == ASSUME TypeOK, RemoveFinalizer PROVE TypeOK'
<1>1. worker.obj # None /\ used' \in [Events -> Nat]
  BY DEF RemoveFinalizer, At, TypeOK
<1>2. ~Unpatchable => Released(server["directory"]) \in DirectoryObject \cup {None}
  BY ClusterParts DEF TypeOK, Unpatchable, Released, DirectoryObject
<1> QED
  BY <1>1, <1>2, StepTypes DEF RemoveFinalizer

LEMMA PhasesAndSteps ==
    /\ {"Pending", "Ready", "Failed"} \subseteq Phases
    /\ {"adminPassword", "statefulSet", "service", "isStatefulSetReady"} \subseteq Pcs \ {"idle"}
BY DEF Phases, Pcs

LEMMA ResolveReferencesTypes == ASSUME TypeOK, ResolveReferences PROVE TypeOK'
<1>1. worker.obj # None /\ used' \in [Events -> Nat]
  BY DEF ResolveReferences, At, TypeOK
<1> QED
  BY <1>1, StepTypes, PhasesAndSteps DEF ResolveReferences, MarkPending

LEMMA AdminPasswordTypes == ASSUME TypeOK, AdminPassword PROVE TypeOK'
<1>1. worker.obj \in DirectoryObject /\ worker.obj # None /\ used' \in [Events -> Nat]
  BY Busy DEF AdminPassword, At, TypeOK
<1>2. AdminPasswordSecret(GeneratedPassword) \in Secret
  BY <1>1, GeneratedTypes DEF AdminPasswordSecret, Secret, Owner, DirectoryObject
<1> QED
  BY <1>1, <1>2, StepTypes, PhasesAndSteps DEF AdminPassword

LEMMA StatefulSetReconciledTypes == ASSUME TypeOK, StatefulSetReconciled PROVE TypeOK'
<1> DEFINE old == cache["statefulSet"]
           new == [owner |-> worker.obj.uid, spec |-> worker.obj.spec, ready |-> FALSE]
<1>1. worker.obj \in DirectoryObject /\ worker.obj # None /\ used' \in [Events -> Nat]
  BY Busy DEF StatefulSetReconciled, At, TypeOK
<1>2. new \in StatefulSet
  BY <1>1 DEF StatefulSet, Owner, DirectoryObject
<1>3. old # None => [old EXCEPT !.spec = new.spec, !.owner = new.owner] \in StatefulSet
  BY <1>2, ClusterParts DEF TypeOK, StatefulSet
<1>4. UNCHANGED <<cache, certified, volume, used>>
  BY DEF StatefulSetReconciled
<1>5. CASE UNCHANGED server /\ (Continue(To("service")) \/ MarkFailed)
  BY <1>1, <1>4, <1>5, StepTypes, PhasesAndSteps DEF MarkFailed
<1>6. CASE Store("statefulSet", new) /\ Continue(To("service"))
  BY <1>1, <1>2, <1>4, <1>6, StepTypes, PhasesAndSteps
<1>7. CASE /\ old # None /\ Continue(To("service"))
           /\ Store("statefulSet", [old EXCEPT !.spec = new.spec, !.owner = new.owner])
  BY <1>1, <1>3, <1>4, <1>7, StepTypes, PhasesAndSteps
<1> QED
  BY <1>5, <1>6, <1>7 DEF StatefulSetReconciled, Conforms

LEMMA ServiceReconciledTypes == ASSUME TypeOK, ServiceReconciled PROVE TypeOK'
<1>1. worker.obj \in DirectoryObject /\ worker.obj # None /\ used' \in [Events -> Nat]
  BY Busy DEF ServiceReconciled, At, TypeOK
<1>2. [owner |-> worker.obj.uid] \in Service
  BY <1>1 DEF Service, Owner, DirectoryObject
<1> QED
  BY <1>1, <1>2, StepTypes, PhasesAndSteps DEF ServiceReconciled, MarkFailed

LEMMA IsStatefulSetReadyTypes == ASSUME TypeOK, IsStatefulSetReady PROVE TypeOK'
<1>1. worker.obj # None /\ used' \in [Events -> Nat]
  BY DEF IsStatefulSetReady, At, TypeOK
<1> QED
  BY <1>1, StepTypes, PhasesAndSteps DEF IsStatefulSetReady, MarkPending, MarkFailed

LEMMA MarkTypes == ASSUME TypeOK, Mark PROVE TypeOK'
<1>1. worker.obj # None /\ used' \in [Events -> Nat]
  BY DEF Mark, At, TypeOK
<1>2. ~Unpatchable => Marked(server["directory"]) \in DirectoryObject
  BY ClusterParts DEF TypeOK, Unpatchable, Marked, DirectoryObject, Worker
<1>3. worker.requeue \in BOOLEAN
  BY DEF TypeOK, Worker
<1> QED
  BY <1>1, <1>2, <1>3, StepTypes DEF Mark

LEMMA ReconcileTypes == ASSUME TypeOK, Reconcile PROVE TypeOK'
BY GetTypes, AddFinalizerTypes, RemoveFinalizerTypes, ResolveReferencesTypes,
   AdminPasswordTypes, StatefulSetReconciledTypes, ServiceReconciledTypes,
   IsStatefulSetReadyTypes, MarkTypes DEF Reconcile

(* The API server has at most one resource replaced, and the worker waits. *)
LEMMA OutsideTypes ==
    ASSUME TypeOK,
           \/ server' = server
           \/ \E v \in DirectoryObject \cup {None} : Store("directory", v)
           \/ \E v \in StatefulSet \cup {None} : Store("statefulSet", v)
           \/ \E x \in Resources : Store(x, None),
           UNCHANGED <<cache, worker>>,
           queued' \in BOOLEAN, certified' \in BOOLEAN,
           volume' \in Passwords \cup {None}, used' \in [Events -> Nat]
    PROVE  TypeOK'
<1>1. server' \in Cluster
  BY ClusterUpdate, ResourcesAre DEF TypeOK, Store
<1> QED
  BY <1>1 DEF TypeOK

LEMMA CrashTypes == ASSUME TypeOK, Crash PROVE TypeOK'
<1>1. used' \in [Events -> Nat]
  BY HappensTypes DEF Crash, Events
<1> QED
  BY <1>1, IdleTypes DEF Crash, Restart, TypeOK

LEMMA ApiFailsTypes == ASSUME TypeOK, ApiFails PROVE TypeOK'
<1>1. used' \in [Events -> Nat]
  BY HappensTypes DEF ApiFails, Events
<1>2. worker.obj # None
  BY DEF ApiFails, TypeOK
<1>3. UNCHANGED <<server, cache, certified, volume>> /\ (Finish(TRUE) \/ MarkFailed)
  BY DEF ApiFails
<1>4. CASE Finish(TRUE)
  BY <1>1, <1>2, <1>3, <1>4, StepTypes
<1>5. CASE MarkFailed
  BY <1>1, <1>2, <1>3, <1>5, StepTypes, PhasesAndSteps DEF MarkFailed
<1> QED
  BY <1>3, <1>4, <1>5

LEMMA NewGeneration ==
    ASSUME NEW d \in DirectoryObject
    PROVE  /\ \A spec \in Specs :
                 [d EXCEPT !.spec = spec, !.generation = @ + 1] \in DirectoryObject
           /\ [d EXCEPT !.deleting = TRUE, !.generation = @ + 1] \in DirectoryObject
<1>1. d.generation + 1 \in Nat
  BY DEF DirectoryObject
<1> QED
  BY <1>1 DEF DirectoryObject

LEMMA NewDirectoryIs ==
    ASSUME NEW spec \in Specs
    PROVE  LET d == NewDirectory(spec)
           IN  /\ used["create"] \in Nat => d \in DirectoryObject
               /\ d.uid = used["create"] /\ ~d.deleting /\ d.phase # "Ready"
<1> QED
  BY DEF NewDirectory, DirectoryObject, Phases

LEMMA UserTypes == ASSUME TypeOK, Create \/ Edit \/ Delete PROVE TypeOK'
<1>1. used' \in [Events -> Nat]
  BY HappensTypes DEF Create, Edit, Delete, Events
<1>2. server["directory"] \in DirectoryObject \cup {None} /\ used \in [Events -> Nat]
  BY ClusterParts DEF TypeOK
<1>3. UNCHANGED <<cache, queued, worker, certified, volume>>
  BY DEF Create, Edit, Delete
<1>4. \E v \in DirectoryObject \cup {None} : Store("directory", v)
  <2>1. CASE Create
    <3>1. PICK spec \in Specs :
            Store("directory", NewDirectory(spec))
      BY <2>1 DEF Create
    <3> QED
      BY <1>2, <3>1, NewDirectoryIs DEF Events
  <2>2. CASE Edit
    <3>1. PICK spec \in Specs : /\ server["directory"] # None
            /\ Store("directory", [server["directory"] EXCEPT !.spec = spec, !.generation = @ + 1])
      BY <2>2 DEF Edit
    <3>2. [server["directory"] EXCEPT !.spec = spec, !.generation = @ + 1] \in DirectoryObject
      BY <1>2, <3>1, NewGeneration
    <3> QED
      BY <3>1, <3>2
  <2>3. CASE Delete
    <3> DEFINE d == server["directory"]
    <3>1. /\ d # None
          /\ Store("directory", IF d.finalizer
               THEN [d EXCEPT !.deleting = TRUE, !.generation = @ + 1] ELSE None)
      BY <2>3 DEF Delete
    <3>2. [d EXCEPT !.deleting = TRUE, !.generation = @ + 1] \in DirectoryObject
      BY <1>2, <3>1, NewGeneration
    <3> QED
      BY <3>1, <3>2
  <2> QED
    BY <2>1, <2>2, <2>3
<1> QED
  BY <1>1, <1>3, <1>4, OutsideTypes DEF TypeOK

LEMMA SurroundingsTypes ==
    ASSUME TypeOK,
           \/ CertificateLost \/ CertificateIssued
           \/ DependentLost \/ PodUnready \/ Resync \/ PodReady
           \/ \E x \in Dependents : GarbageCollect(x)
    PROVE  TypeOK'
<1>0. /\ server["secret"] \in Secret \cup {None}
      /\ server["statefulSet"] \in StatefulSet \cup {None}
  BY ClusterParts DEF TypeOK
<1>1. CASE CertificateLost \/ CertificateIssued \/ Resync
  <2>1. used' \in [Events -> Nat]
    BY <1>1, HappensTypes DEF CertificateLost, CertificateIssued, Resync, Events, TypeOK
  <2> QED
    BY <1>1, <2>1, OutsideTypes
       DEF CertificateLost, CertificateIssued, Resync, HandOver, TypeOK
<1>2. CASE DependentLost
  <2>1. PICK x \in Resources, e \in Events : Lost(x, e)
    BY <1>2, ResourcesAre DEF DependentLost, Events
  <2>2. used' \in [Events -> Nat]
    BY <2>1, HappensTypes DEF Lost
  <2> QED
    BY <2>1, <2>2, OutsideTypes DEF Lost, TypeOK
<1>3. CASE PodUnready
  <2>1. used' \in [Events -> Nat]
    BY <1>3, HappensTypes DEF PodUnready, Events
  <2>2. [server["statefulSet"] EXCEPT !.ready = FALSE] \in StatefulSet
    BY <1>0, <1>3 DEF PodUnready, StatefulSet
  <2> QED
    BY <1>3, <2>1, <2>2, OutsideTypes DEF PodUnready, TypeOK
<1>4. CASE PodReady
  <2>1. [server["statefulSet"] EXCEPT !.ready = TRUE] \in StatefulSet
    BY <1>0, <1>4 DEF PodReady, StatefulSet
  <2>2. volume' \in Passwords \cup {None}
    BY <1>0, <1>4 DEF PodReady, TypeOK, Secret
  <2> QED
    BY <1>4, <2>1, <2>2, OutsideTypes DEF PodReady, TypeOK
<1>5. ASSUME NEW x \in Dependents, GarbageCollect(x)
      PROVE  TypeOK'
  BY <1>5, ResourcesAre, OutsideTypes DEF GarbageCollect, TypeOK
<1> QED
  BY <1>1, <1>2, <1>3, <1>4, <1>5

LEMMA NextTypes == ASSUME TypeOK, [Next]_vars PROVE TypeOK'
<1>1. CASE UNCHANGED vars
  BY <1>1 DEF vars, TypeOK
<1> QED
  BY <1>1, ReconcileTypes, SyncTypes, CrashTypes, ApiFailsTypes, UserTypes, SurroundingsTypes
  DEF Next, Progress, Environment

(* Every variable of the reconciler keeps its type, and a directory is in    *)
(* memory exactly while it is reconciled.                                    *)
THEOREM TypeCorrect == Spec => []TypeOK
<1>1. Init => TypeOK
  BY InitTypes
<1>2. TypeOK /\ [Next]_vars => TypeOK'
  BY NextTypes
<1> QED
  BY <1>1, <1>2, PTL DEF Spec

-----------------------------------------------------------------------------
(* Until a directory is deleted there is one, and everything is its.       *)

Undeleted == used["delete"] = 0

Copies == {server["directory"], cache["directory"], worker.obj} \ {None}

CopiesAlive == \A d \in Copies : Alive(d.uid) /\ ~d.deleting

OwnersAlive == \A x \in Dependents : server[x] # None => Alive(server[x].owner)

OneDirectory == Undeleted => CopiesAlive /\ OwnersAlive

(* Nobody takes the admin password away: the secret that is cached is the    *)
(* one that is there, and the one the volume was set up with.                *)
SecretKept ==
    (Undeleted /\ used["secretLoss"] = 0) =>
        /\ cache["secret"] # None => server["secret"] = cache["secret"]
        /\ volume # None => server["secret"] # None /\ server["secret"].password = volume

Losses == {"delete", "unready", "secretLoss", "statefulSetLoss", "serviceLoss"}

Undisturbed == \A e \in Losses : used[e] = 0

RunningIn(c) == c["statefulSet"] # None /\ c["statefulSet"].ready

Started == RunningIn(server) /\ server["service"] # None

(* What a Ready directory was found to have stays, if nothing is lost. *)
StaysStarted ==
    Undisturbed =>
        /\ RunningIn(server) => volume # None
        /\ RunningIn(cache) => RunningIn(server)
        /\ cache["service"] # None => server["service"] # None
        /\ At("isStatefulSetReady") => server["service"] # None
        /\ At("mark") /\ worker.phase = "Ready" => Started
        /\ \A d \in {server["directory"], cache["directory"]} \ {None} :
              d.phase = "Ready" => Started

(* The API server is never back at what the cache shows once it has left it, *)
(* and what a call that nobody interrupted has in memory is what is cached.  *)
InOrder ==
    LET c == cache["directory"]
        s == server["directory"]
    IN  /\ c # None => c.uid < used["create"]
        /\ s # None => s.uid < used["create"]
        /\ c # None /\ s # None /\ c.uid = s.uid => c.generation <= s.generation

Fresh ==
    /\ worker.pc \notin {"idle", "addFinalizer"} => worker.obj.finalizer
    /\ At("mark") /\ ~worker.requeue => worker.phase = "Ready"
    /\ ~queued /\ worker.pc # "idle" =>
          /\ cache["directory"] # None
          /\ cache["directory"] = server["directory"] => worker.obj = server["directory"]

NotForgotten ==
    LET s == server["directory"] IN
    ~queued /\ worker.pc = "idle" /\ s # None /\ cache["directory"] = s => s.phase = "Ready"

DirectoryInv ==
    TypeOK /\ OneDirectory /\ SecretKept /\ StaysStarted /\ InOrder /\ Fresh /\ NotForgotten

(* Counters only grow, so what has not happened after a step had not before. *)
LEMMA UsedGrows ==
    ASSUME TypeOK, [Next]_vars, NEW e \in Events
    PROVE  used[e] \in Nat /\ used'[e] \in Nat /\ used[e] <= used'[e]
<1>1. used \in [Events -> Nat]
  BY DEF TypeOK
<1>2. \A f \in Events : Happens(f) => used'[e] \in Nat /\ used[e] <= used'[e]
  BY <1>1 DEF Happens
<1>3. used' = used \/ \E f \in Events : Happens(f)
  <2>1. CASE UNCHANGED vars
    BY <2>1 DEF vars
  <2>2. CASE Progress
    <3>1. CASE Reconcile
      BY <3>1 DEF Reconcile, Get, AddFinalizer, RemoveFinalizer, ResolveReferences,
         AdminPassword, StatefulSetReconciled, ServiceReconciled, IsStatefulSetReady, Mark
    <3> QED
      BY <2>2, <3>1 DEF Progress, Sync, GarbageCollect, PodReady
  <2>3. CASE Environment \/ Crash
    BY <2>3 DEF Environment, ApiFails, Create, Edit, Delete, CertificateLost,
       DependentLost, Lost, PodUnready, Resync, Crash, Events
  <2> QED
    BY <2>1, <2>2, <2>3 DEF Next, CertificateIssued
<1> QED
  BY <1>1, <1>2, <1>3

(* A write replaces one resource. *)
LEMMA StoreIs ==
    ASSUME TypeOK, NEW x \in Resources, NEW v, Store(x, v)
    PROVE  server'[x] = v /\ \A y \in Resources \ {x} : server'[y] = server[y]
BY ResourcesAre DEF TypeOK, Cluster, Store

(* What a step can do to the directory in the API server. *)
DirectoryUpdate(s, t) ==
    \/ t = s
    \/ /\ s = None /\ used'["create"] = used["create"] + 1
       /\ \E spec \in Specs : t = NewDirectory(spec)
    \/ /\ s # None
       /\ \E spec \in Specs : t = [s EXCEPT !.spec = spec, !.generation = @ + 1]
    \/ /\ s # None /\ Happens("delete")
       /\ t = None \/ t = [s EXCEPT !.deleting = TRUE, !.generation = @ + 1]
    \/ /\ s # None /\ cache["directory"] # None /\ ~cache["directory"].finalizer
       /\ t = [s EXCEPT !.finalizer = TRUE]
    \/ /\ s # None /\ cache["directory"] # None /\ cache["directory"].finalizer
       /\ t = Released(s)
    \/ /\ s # None /\ cache["directory"] = s /\ At("mark")
       /\ t = Marked(s)

LEMMA DirectoryUpdated ==
    ASSUME TypeOK, [Next]_vars
    PROVE  DirectoryUpdate(server["directory"], server'["directory"])
<1> DEFINE s == server["directory"]
           t == server'["directory"]
<1>1. \A v : Store("directory", v) => t = v
  BY StoreIs, ResourcesAre
<1>2. \A x \in Dependents : \A v : Store(x, v) => t = s
  BY StoreIs, ResourcesAre
<1>3. CASE Create
  <2>1. used'["create"] = used["create"] + 1
    BY <1>3, HappensTypes DEF Create, Events
  <2> QED
    BY <1>1, <1>3, <2>1 DEF Create, DirectoryUpdate
<1>4. CASE Edit
  BY <1>1, <1>4 DEF Edit, DirectoryUpdate
<1>5. CASE Delete
  BY <1>1, <1>5 DEF Delete, DirectoryUpdate
<1>6. CASE AddFinalizer
  BY <1>1, <1>6 DEF AddFinalizer, Unpatchable, DirectoryUpdate
<1>7. CASE RemoveFinalizer
  BY <1>1, <1>7 DEF RemoveFinalizer, Unpatchable, DirectoryUpdate
<1>8. CASE Mark
  BY <1>1, <1>8 DEF Mark, Unpatchable, Stale, DirectoryUpdate
<1>9. CASE AdminPassword \/ StatefulSetReconciled \/ ServiceReconciled \/ DependentLost
           \/ PodReady \/ PodUnready \/ \E x \in Dependents : GarbageCollect(x)
  <2>1. t = s
    BY <1>2, <1>9, ResourcesAre DEF AdminPassword, StatefulSetReconciled, ServiceReconciled,
       DependentLost, Lost, PodReady, PodUnready, GarbageCollect
  <2> QED
    BY <2>1 DEF DirectoryUpdate
<1>10. CASE Get \/ ResolveReferences \/ IsStatefulSetReady \/ ApiFails \/ CertificateLost
            \/ CertificateIssued \/ Resync \/ Crash \/ (\E x \in Resources : Sync(x)) \/ UNCHANGED vars
  BY <1>10 DEF Get, ResolveReferences, IsStatefulSetReady, ApiFails, CertificateLost, CertificateIssued,
     Resync, Crash, Sync, vars, DirectoryUpdate
<1> QED
  BY <1>3, <1>4, <1>5, <1>6, <1>7, <1>8, <1>9, <1>10
  DEF Next, Progress, Environment, Reconcile

(* To what the controller and others have made of it. *)
LEMMA DependentUpdated ==
    ASSUME TypeOK, [Next]_vars, NEW x \in Dependents
    PROVE  \/ server'[x] = server[x]
           \/ server'[x] = None
           \/ worker.obj # None /\ server'[x].owner = worker.obj.uid
           \/ server[x] # None /\ server'[x].owner = server[x].owner
<1>0. x \in Resources /\ x # "directory" /\ server[x] # None =>
         server[x] \in Secret \cup StatefulSet \cup Service
  BY ClusterParts, ResourcesAre DEF TypeOK
<1>1. \A y \in Resources : \A v : Store(y, v) => server'[x] = IF y = x THEN v ELSE server[x]
  BY StoreIs, ResourcesAre
<1>2. CASE AdminPassword
  <2>1. worker.obj # None
    BY <1>2 DEF AdminPassword, At, TypeOK
  <2>2. \A p : AdminPasswordSecret(p).owner = worker.obj.uid
    BY DEF AdminPasswordSecret
  <2>3. \A v : Store("secret", v) => server'[x] = v \/ server'[x] = server[x]
    BY <1>1, ResourcesAre
  <2>4. UNCHANGED server \/ Store("secret", AdminPasswordSecret(GeneratedPassword))
    BY <1>2 DEF AdminPassword
  <2> QED
    BY <2>1, <2>2, <2>3, <2>4
<1>3. CASE StatefulSetReconciled
  <2> DEFINE old == cache["statefulSet"]
             new == [owner |-> worker.obj.uid, spec |-> worker.obj.spec, ready |-> FALSE]
             updated == [old EXCEPT !.spec = new.spec, !.owner = new.owner]
  <2>1. worker.obj # None
    BY <1>3 DEF StatefulSetReconciled, At, TypeOK
  <2>2. old # None => updated.owner = worker.obj.uid
    BY ClusterParts DEF TypeOK, StatefulSet
  <2>3. new.owner = worker.obj.uid
    OBVIOUS
  <2>4. \/ UNCHANGED server
        \/ Store("statefulSet", new)
        \/ old # None /\ Store("statefulSet", updated)
    BY <1>3 DEF StatefulSetReconciled
  <2>5. \A v : Store("statefulSet", v) => server'[x] = v \/ server'[x] = server[x]
    BY <1>1, ResourcesAre
  <2> HIDE DEF new, updated
  <2> QED
    BY <2>1, <2>2, <2>3, <2>4, <2>5
<1>4. CASE ServiceReconciled
  BY <1>1, <1>4, ResourcesAre DEF ServiceReconciled, At, TypeOK
<1>5. CASE PodReady \/ PodUnready
  <2>1. server["statefulSet"] \in StatefulSet \cup {None}
    BY ClusterParts DEF TypeOK
  <2> QED
    BY <1>1, <1>5, <2>1, ResourcesAre DEF PodReady, PodUnready, StatefulSet
<1>6. CASE DependentLost \/ \E y \in Dependents : GarbageCollect(y)
  BY <1>1, <1>6, ResourcesAre DEF DependentLost, Lost, GarbageCollect
<1>7. CASE AddFinalizer \/ RemoveFinalizer \/ Mark \/ Create \/ Edit \/ Delete
  BY <1>1, <1>7, ResourcesAre DEF AddFinalizer, RemoveFinalizer, Mark, Create, Edit, Delete
<1>8. CASE Get \/ ResolveReferences \/ IsStatefulSetReady \/ ApiFails \/ CertificateLost
            \/ CertificateIssued \/ Resync \/ Crash \/ (\E y \in Resources : Sync(y)) \/ UNCHANGED vars
  BY <1>8 DEF Get, ResolveReferences, IsStatefulSetReady, ApiFails, CertificateLost, CertificateIssued,
     Resync, Crash, Sync, vars
<1> QED
  BY <1>2, <1>3, <1>4, <1>5, <1>6, <1>7, <1>8
  DEF Next, Progress, Environment, Reconcile

(* An informer shows what it showed, or what there is. *)
LEMMA CacheUpdated ==
    ASSUME TypeOK, [Next]_vars, NEW x \in Resources
    PROVE  \/ cache'[x] = cache[x]
           \/ cache'[x] = server[x] /\ server' = server /\ worker' \in {worker, Idle}
<1>1. CASE \E y \in Resources : Sync(y)
  BY <1>1, ResourcesAre DEF Sync, TypeOK, Cluster
<1>2. CASE Crash
  BY <1>2 DEF Crash, Restart
<1>3. CASE UNCHANGED cache
  BY <1>3
<1> QED
  BY <1>1, <1>2, <1>3
  DEF Next, Progress, Environment, Reconcile, Get, AddFinalizer, RemoveFinalizer,
      ResolveReferences, AdminPassword, StatefulSetReconciled, ServiceReconciled,
      IsStatefulSetReady, Mark, ApiFails, Create, Edit, Delete, CertificateLost,
      CertificateIssued, DependentLost, Lost, PodReady, PodUnready, GarbageCollect, Resync, vars

(* The object in memory is read from the cache or returned by a patch. *)
LEMMA MemoryUpdated ==
    ASSUME TypeOK, [Next]_vars
    PROVE  worker'.obj \in {None, worker.obj, cache["directory"], server'["directory"]}
<1>1. CASE Get
  BY <1>1 DEF Get, Idle
<1>2. \A requeue : Finish(requeue) => worker'.obj = None
  BY IdleTypes DEF Finish
<1>3. ASSUME worker.obj # None,
             \/ \E pc \in Pcs \ {"idle"} : Continue(To(pc))
             \/ \E phase \in Phases, requeue \in BOOLEAN : Continue(Marking(phase, requeue))
      PROVE  worker'.obj = worker.obj
  BY <1>3, WorkerTypes DEF Continue
<1>4. CASE AddFinalizer
  <2>1. worker.obj # None
    BY <1>4 DEF AddFinalizer, At, TypeOK
  <2>2. CASE worker' = [To(Begin(cache["directory"])) EXCEPT !.obj = cache["directory"]]
    BY <2>2 DEF To, TypeOK, Worker
  <2>3. ASSUME NEW d, Store("directory", d), Continue([To(Begin(d)) EXCEPT !.obj = d])
        PROVE  worker'.obj = server'["directory"]
    BY <2>3, StoreIs, ResourcesAre DEF To, TypeOK, Worker, Continue
  <2> QED
    BY <1>2, <1>4, <2>2, <2>3 DEF AddFinalizer, Continue
<1>5. CASE RemoveFinalizer \/ Mark \/ ResolveReferences \/ AdminPassword
           \/ StatefulSetReconciled \/ ServiceReconciled \/ IsStatefulSetReady \/ ApiFails
  <2>1. worker.obj # None
    BY <1>5 DEF RemoveFinalizer, Mark, ResolveReferences, AdminPassword,
       StatefulSetReconciled, ServiceReconciled, IsStatefulSetReady, ApiFails, At, TypeOK
  <2> QED
    BY <1>2, <1>3, <1>5, <2>1, PhasesAndSteps
    DEF RemoveFinalizer, Mark, ResolveReferences, AdminPassword, StatefulSetReconciled,
        ServiceReconciled, IsStatefulSetReady, ApiFails, MarkPending, MarkFailed
<1>6. CASE Crash
  BY <1>6, IdleTypes DEF Crash, Restart
<1>7. CASE UNCHANGED worker
  BY <1>7
<1> QED
  BY <1>1, <1>4, <1>5, <1>6, <1>7
  DEF Next, Progress, Environment, Reconcile, Create, Edit, Delete, CertificateLost,
      CertificateIssued, DependentLost, Lost, PodReady, PodUnready, GarbageCollect, Resync, Sync, vars

(* Only a deletion makes a directory leave. *)
LEMMA UpdateKeeps ==
    ASSUME TypeOK, NEW s \in DirectoryObject \cup {None}, NEW t, DirectoryUpdate(s, t),
           s # None => ~s.deleting, ~Happens("delete")
    PROVE  /\ s # None => t # None /\ t.uid = s.uid
           /\ t # None => ~t.deleting
<1>1. CASE t = s
  BY <1>1
<1>2. ASSUME s = None, NEW spec \in Specs, t = NewDirectory(spec)
      PROVE  ~t.deleting
  BY <1>2, NewDirectoryIs
<1>3. ASSUME s # None, NEW r \in DirectoryObject, r.uid = s.uid, ~r.deleting, t = r
      PROVE  t # None /\ t.uid = s.uid /\ ~t.deleting
  BY <1>3, NoneAssumption
<1>4. ASSUME s # None, NEW spec \in Specs,
             t = [s EXCEPT !.spec = spec, !.generation = @ + 1]
      PROVE  t # None /\ t.uid = s.uid /\ ~t.deleting
  <2>1. t \in DirectoryObject
    BY <1>4, NewGeneration
  <2>2. t.uid = s.uid /\ ~t.deleting
    BY <1>4 DEF DirectoryObject
  <2> QED
    BY <1>3, <1>4, <2>1, <2>2
<1>5. ASSUME s # None, t = Released(s) \/ t = [s EXCEPT !.finalizer = TRUE] \/ t = Marked(s)
      PROVE  t # None /\ t.uid = s.uid /\ ~t.deleting
  <2>1. t \in DirectoryObject /\ t.uid = s.uid /\ ~t.deleting
    BY ZenonT(60), <1>5 DEF Released, Marked, DirectoryObject, TypeOK, Worker
  <2> QED
    BY <1>3, <1>5, <2>1
<1> QED
  BY <1>1, <1>2, <1>4, <1>5 DEF DirectoryUpdate

LEMMA DirectoryStays ==
    ASSUME TypeOK, OneDirectory, [Next]_vars, Undeleted'
    PROVE  LET s == server["directory"]
               t == server'["directory"]
           IN  /\ Undeleted
               /\ \A d : Alive(d) => Alive(d)'
               /\ t # None => ~t.deleting
<1> DEFINE s == server["directory"]
           t == server'["directory"]
<1>1. used["delete"] = 0
  BY UsedGrows DEF Undeleted, Events
<1>2. ~Happens("delete")
  BY HappensTypes, <1>1 DEF Undeleted, Events
<1>3. s \in DirectoryObject \cup {None} /\ (s # None => ~s.deleting)
  BY <1>1, ClusterParts DEF TypeOK, OneDirectory, CopiesAlive, Copies, Undeleted
<1>4. /\ s # None => t # None /\ t.uid = s.uid
      /\ t # None => ~t.deleting
  BY <1>2, <1>3, DirectoryUpdated, UpdateKeeps
<1> QED
  BY <1>1, <1>4 DEF Undeleted, Alive

LEMMA OneDirectoryKept ==
    ASSUME TypeOK, OneDirectory, [Next]_vars
    PROVE  OneDirectory'
<1> SUFFICES ASSUME Undeleted'
             PROVE  CopiesAlive' /\ OwnersAlive'
  BY DEF OneDirectory
<1>1. CopiesAlive /\ OwnersAlive /\ (\A d : Alive(d) => Alive(d)')
  BY DirectoryStays DEF OneDirectory
<1>2. CopiesAlive'
  <2>1. ASSUME NEW d \in Copies' PROVE Alive(d.uid)' /\ ~d.deleting
    <3>1. CASE d = server'["directory"]
      BY <3>1, <2>1, DirectoryStays DEF Copies, Alive
    <3>2. CASE d \in Copies
      BY <1>1, <3>2 DEF CopiesAlive
    <3> QED
      BY <2>1, <3>1, <3>2, CacheUpdated, MemoryUpdated, ResourcesAre DEF Copies
  <2> QED
    BY <2>1 DEF CopiesAlive
<1>3. OwnersAlive'
  <2>1. ASSUME NEW x \in Dependents, server'[x] # None PROVE Alive(server[x].owner)'
    <3>1. worker.obj # None => Alive(worker.obj.uid)
      BY <1>1 DEF CopiesAlive, Copies
    <3> QED
      BY <1>1, <2>1, <3>1, DependentUpdated DEF OwnersAlive
  <2> QED
    BY <2>1 DEF OwnersAlive
<1> QED
  BY <1>2, <1>3

(* Of what is alive, the garbage collector takes nothing. *)
LEMMA NotCollected ==
    ASSUME TypeOK, OneDirectory, Undeleted, NEW x \in Dependents
    PROVE  ~GarbageCollect(x)
BY DEF OneDirectory, OwnersAlive, GarbageCollect

-----------------------------------------------------------------------------
(* The admin password.                                                     *)

LEMMA SecretUpdated ==
    ASSUME TypeOK, [Next]_vars
    PROVE  \/ server'["secret"] = server["secret"]
           \/ /\ server["secret"] = None /\ cache["secret"] = None
              /\ server'["secret"] \in Secret
           \/ Happens("secretLoss")
           \/ GarbageCollect("secret")
<1>1. \A y \in Resources : \A v : Store(y, v) =>
        server'["secret"] = IF y = "secret" THEN v ELSE server["secret"]
  BY StoreIs, ResourcesAre
<1>2. CASE AdminPassword
  <2>1. AdminPasswordSecret(GeneratedPassword) \in Secret
    BY <1>2, GeneratedTypes, Busy
    DEF AdminPassword, At, AdminPasswordSecret, Secret, Owner, DirectoryObject
  <2>2. \/ UNCHANGED server
        \/ /\ cache["secret"] = None /\ server["secret"] = None
           /\ Store("secret", AdminPasswordSecret(GeneratedPassword))
    BY <1>2 DEF AdminPassword, SecretExists
  <2> QED
    BY <1>1, <2>1, <2>2, ResourcesAre
<1>3. CASE StatefulSetReconciled
  <2>1. UNCHANGED server \/ \E v : Store("statefulSet", v)
    BY <1>3 DEF StatefulSetReconciled
  <2> QED
    BY <1>1, <2>1, ResourcesAre
<1>4. CASE ServiceReconciled \/ AddFinalizer \/ RemoveFinalizer \/ Mark
           \/ Create \/ Edit \/ Delete \/ PodReady \/ PodUnready
  <2>1. UNCHANGED server \/ \E y \in Resources \ {"secret"} : \E v : Store(y, v)
    BY <1>4, ResourcesAre DEF ServiceReconciled, AddFinalizer, RemoveFinalizer, Mark,
       Create, Edit, Delete, PodReady, PodUnready
  <2> QED
    BY <1>1, <2>1
<1>5. CASE DependentLost \/ \E x \in Dependents : GarbageCollect(x)
  BY <1>1, <1>5, ResourcesAre DEF DependentLost, Lost, GarbageCollect
<1>6. CASE UNCHANGED server
  BY <1>6
<1> QED
  BY <1>2, <1>3, <1>4, <1>5, <1>6
  DEF Next, Progress, Environment, Reconcile, Get, ResolveReferences, IsStatefulSetReady,
      ApiFails, CertificateLost, CertificateIssued, Resync, Crash, Sync, vars

LEMMA VolumeUpdated ==
    ASSUME [Next]_vars
    PROVE  volume' = volume \/ PodReady
BY DEF Next, Progress, Environment, Reconcile, Get, AddFinalizer, RemoveFinalizer,
   ResolveReferences, AdminPassword, StatefulSetReconciled, ServiceReconciled,
   IsStatefulSetReady, Mark, ApiFails, Create, Edit, Delete, CertificateLost,
   CertificateIssued, DependentLost, Lost, PodUnready, GarbageCollect, Resync, Sync, Crash, vars

LEMMA SecretKeptOn ==
    ASSUME TypeOK, OneDirectory, SecretKept, [Next]_vars
    PROVE  SecretKept'
<1> SUFFICES ASSUME Undeleted', used'["secretLoss"] = 0
             PROVE  /\ cache'["secret"] # None => server'["secret"] = cache'["secret"]
                    /\ volume' # None => /\ server'["secret"] # None
                                        /\ server'["secret"].password = volume'
  BY DEF SecretKept
<1>1. Undeleted /\ used["secretLoss"] = 0 /\ ~Happens("secretLoss")
  BY DirectoryStays, UsedGrows, HappensTypes DEF Events
<1>2. /\ cache["secret"] # None => server["secret"] = cache["secret"]
      /\ volume # None => server["secret"] # None /\ server["secret"].password = volume
  BY <1>1 DEF SecretKept
<1>3. \/ server'["secret"] = server["secret"]
      \/ /\ server["secret"] = None /\ cache["secret"] = None
         /\ server'["secret"] \in Secret
  BY <1>1, SecretUpdated, NotCollected, ResourcesAre
<1>4. cache'["secret"] # None => server'["secret"] = cache'["secret"]
  BY <1>2, <1>3, CacheUpdated, ResourcesAre
<1>5. CASE PodReady
  <2>1. server'["secret"] = server["secret"]
    BY <1>5, StoreIs, ResourcesAre DEF PodReady
  <2> QED
    BY <1>2, <1>4, <1>5, <2>1 DEF PodReady
<1>6. CASE volume' = volume
  BY <1>2, <1>3, <1>4, <1>6, NoneAssumption
<1> QED
  BY <1>5, <1>6, VolumeUpdated

-----------------------------------------------------------------------------
(* What a Ready directory runs on.                                         *)

LEMMA StatefulSetUpdated ==
    ASSUME TypeOK, [Next]_vars
    PROVE  \/ server'["statefulSet"] = server["statefulSet"]
           \/ server["statefulSet"] = None /\ ~RunningIn(server)'
           \/ RunningIn(server)' <=> RunningIn(server)
           \/ PodReady /\ RunningIn(server)'
           \/ Happens("unready") \/ Happens("statefulSetLoss")
           \/ GarbageCollect("statefulSet")
<1>1. \A y \in Resources : \A v : Store(y, v) =>
        server'["statefulSet"] = IF y = "statefulSet" THEN v ELSE server["statefulSet"]
  BY StoreIs, ResourcesAre
<1>2. server["statefulSet"] \in StatefulSet \cup {None}
  BY ClusterParts DEF TypeOK
<1>3. CASE StatefulSetReconciled
  <2> DEFINE old == cache["statefulSet"]
             new == [owner |-> worker.obj.uid, spec |-> worker.obj.spec, ready |-> FALSE]
             updated == [old EXCEPT !.spec = new.spec, !.owner = new.owner]
  <2>1. \/ UNCHANGED server
        \/ old = None /\ ~Stale("statefulSet") /\ Store("statefulSet", new)
        \/ old # None /\ ~Stale("statefulSet") /\ Store("statefulSet", updated)
    BY <1>3 DEF StatefulSetReconciled
  <2>2. new.ready = FALSE
    OBVIOUS
  <2>3. old \in StatefulSet => updated \in StatefulSet /\ updated.ready = old.ready
    <3>1. worker.obj.spec \in Specs /\ worker.obj.uid \in Owner
      BY <1>3, Busy DEF StatefulSetReconciled, At, DirectoryObject, Owner
    <3> QED
      BY <3>1 DEF StatefulSet
  <2>4. CASE UNCHANGED server
    BY <2>4
  <2>5. CASE old = None /\ ~Stale("statefulSet") /\ Store("statefulSet", new)
    <3>1. server'["statefulSet"] = new
      BY <1>1, <2>5, ResourcesAre
    <3> QED
      BY <2>2, <2>5, <3>1 DEF Stale, RunningIn
  <2>6. CASE old # None /\ ~Stale("statefulSet") /\ Store("statefulSet", updated)
    <3>1. server'["statefulSet"] = updated /\ server["statefulSet"] = old
      BY <1>1, <2>6, ResourcesAre DEF Stale
    <3> HIDE DEF updated
    <3> QED
      BY <1>2, <2>3, <2>6, <3>1, NoneAssumption DEF RunningIn
  <2> QED
    BY <2>1, <2>4, <2>5, <2>6
<1>4. CASE PodReady
  <2>1. server["statefulSet"] \in StatefulSet
    BY <1>2, <1>4 DEF PodReady
  <2>2. LET r == [server["statefulSet"] EXCEPT !.ready = TRUE]
        IN  r \in StatefulSet /\ r.ready /\ server'["statefulSet"] = r
    BY <1>1, <1>4, <2>1, ResourcesAre DEF PodReady, StatefulSet
  <2> QED
    BY <1>4, <2>2, NoneAssumption DEF RunningIn
<1>5. CASE AdminPassword \/ ServiceReconciled \/ AddFinalizer \/ RemoveFinalizer \/ Mark
           \/ Create \/ Edit \/ Delete
  <2>1. UNCHANGED server \/ \E y \in Resources \ {"statefulSet"} : \E v : Store(y, v)
    BY <1>5, ResourcesAre DEF AdminPassword, ServiceReconciled, AddFinalizer,
       RemoveFinalizer, Mark, Create, Edit, Delete
  <2> QED
    BY <1>1, <2>1
<1>6. CASE DependentLost \/ PodUnready \/ \E x \in Dependents : GarbageCollect(x)
  BY <1>1, <1>6, ResourcesAre DEF DependentLost, Lost, PodUnready, GarbageCollect
<1>7. CASE UNCHANGED server
  BY <1>7
<1> QED
  BY <1>3, <1>4, <1>5, <1>6, <1>7
  DEF Next, Progress, Environment, Reconcile, Get, ResolveReferences, IsStatefulSetReady,
      ApiFails, CertificateLost, CertificateIssued, Resync, Crash, Sync, vars

LEMMA ServiceUpdated ==
    ASSUME TypeOK, [Next]_vars
    PROVE  \/ server'["service"] = server["service"]
           \/ ServiceReconciled /\ server'["service"] # None
           \/ Happens("serviceLoss")
           \/ GarbageCollect("service")
<1>1. \A y \in Resources : \A v : Store(y, v) =>
        server'["service"] = IF y = "service" THEN v ELSE server["service"]
  BY StoreIs, ResourcesAre
<1>2. CASE ServiceReconciled
  <2>1. [owner |-> worker.obj.uid] \in Service
    BY <1>2, Busy DEF ServiceReconciled, At, Service, Owner, DirectoryObject
  <2>2. UNCHANGED server \/ Store("service", [owner |-> worker.obj.uid])
    BY <1>2 DEF ServiceReconciled
  <2> QED
    BY <1>1, <1>2, <2>1, <2>2, ResourcesAre, NoneAssumption
<1>3. CASE StatefulSetReconciled
  <2>1. UNCHANGED server \/ \E v : Store("statefulSet", v)
    BY <1>3 DEF StatefulSetReconciled
  <2> QED
    BY <1>1, <2>1, ResourcesAre
<1>4. CASE AdminPassword \/ AddFinalizer \/ RemoveFinalizer \/ Mark
           \/ Create \/ Edit \/ Delete \/ PodReady \/ PodUnready
  <2>1. UNCHANGED server \/ \E y \in Resources \ {"service"} : \E v : Store(y, v)
    BY <1>4, ResourcesAre DEF AdminPassword, AddFinalizer,
       RemoveFinalizer, Mark, Create, Edit, Delete, PodReady, PodUnready
  <2> QED
    BY <1>1, <2>1
<1>5. CASE DependentLost \/ \E x \in Dependents : GarbageCollect(x)
  BY <1>1, <1>5, ResourcesAre DEF DependentLost, Lost, GarbageCollect
<1>6. CASE UNCHANGED server
  BY <1>6
<1> QED
  BY <1>2, <1>3, <1>4, <1>5, <1>6
  DEF Next, Progress, Environment, Reconcile, Get, ResolveReferences, IsStatefulSetReady,
      ApiFails, CertificateLost, CertificateIssued, Resync, Crash, Sync, vars

LEMMA PhaseOfUpdate ==
    ASSUME TypeOK, NEW s \in DirectoryObject \cup {None}, NEW t, DirectoryUpdate(s, t),
           t # None, t.phase = "Ready"
    PROVE  (s # None /\ s.phase = "Ready") \/ (At("mark") /\ worker.phase = "Ready")
<1>1. ASSUME s # None, NEW spec \in Specs, t = [s EXCEPT !.spec = spec, !.generation = @ + 1]
      PROVE  t.phase = s.phase
  BY <1>1 DEF DirectoryObject
<1>2. ASSUME s # None, \/ t = [s EXCEPT !.deleting = TRUE, !.generation = @ + 1]
                       \/ t = [s EXCEPT !.finalizer = TRUE] \/ t = Released(s)
      PROVE  t.phase = s.phase
  BY <1>2 DEF DirectoryObject, Released
<1>3. ASSUME s # None, t = Marked(s) PROVE t.phase = worker.phase
  BY <1>3 DEF DirectoryObject, Marked
<1>4. \A spec \in Specs : NewDirectory(spec).phase # "Ready"
  BY NewDirectoryIs
<1>5. CASE s = None
  BY <1>4, <1>5 DEF DirectoryUpdate
<1>6. CASE s # None
  BY <1>1, <1>2, <1>3, <1>6 DEF DirectoryUpdate
<1> QED
  BY <1>5, <1>6

(* Ready is kept, or written by a call that has found the statefulset so. *)
LEMMA PhaseUpdated ==
    ASSUME TypeOK, [Next]_vars, server'["directory"] # None,
           server'["directory"].phase = "Ready"
    PROVE  \/ server["directory"] # None /\ server["directory"].phase = "Ready"
           \/ At("mark") /\ worker.phase = "Ready"
<1>1. server["directory"] \in DirectoryObject \cup {None}
  BY ClusterParts DEF TypeOK
<1> QED
  BY <1>1, PhaseOfUpdate, DirectoryUpdated

(* A step that goes on, or ends the call. *)
LEMMA Continued ==
    ASSUME TypeOK, worker.obj # None
    PROVE  /\ \A pc \in Pcs \ {"idle"} : Continue(To(pc)) =>
                 worker'.pc = pc /\ worker'.obj = worker.obj /\ queued' = queued
           /\ \A phase \in Phases, requeue \in BOOLEAN : Continue(Marking(phase, requeue)) =>
                 /\ worker'.pc = "mark" /\ worker'.obj = worker.obj /\ queued' = queued
                 /\ worker'.phase = phase /\ worker'.requeue = requeue
           /\ MarkPending \/ MarkFailed =>
                 /\ worker'.pc = "mark" /\ worker'.obj = worker.obj /\ queued' = queued
                 /\ worker'.phase # "Ready" /\ worker'.requeue
<1>1. \A pc \in Pcs \ {"idle"} : Continue(To(pc)) =>
         worker'.pc = pc /\ worker'.obj = worker.obj /\ queued' = queued
  BY WorkerTypes DEF Continue
<1>2. \A phase \in Phases, requeue \in BOOLEAN : Continue(Marking(phase, requeue)) =>
         /\ worker'.pc = "mark" /\ worker'.obj = worker.obj /\ queued' = queued
         /\ worker'.phase = phase /\ worker'.requeue = requeue
  BY WorkerTypes DEF Continue
<1>3. /\ MarkPending => Continue(Marking("Pending", TRUE))
      /\ MarkFailed => Continue(Marking("Failed", TRUE))
      /\ "Pending" \in Phases /\ "Failed" \in Phases
  BY PhasesAndSteps DEF MarkPending, MarkFailed
<1>4. MarkPending \/ MarkFailed =>
         /\ worker'.pc = "mark" /\ worker'.obj = worker.obj /\ queued' = queued
         /\ worker'.phase # "Ready" /\ worker'.requeue
  BY <1>2, <1>3
<1> QED
  BY <1>1, <1>2, <1>4

LEMMA Finished ==
    \A requeue : Finish(requeue) =>
        worker'.pc = "idle" /\ worker'.obj = None /\ queued' = (queued \/ requeue)
BY IdleTypes DEF Finish

(* How a call comes to the readiness of the statefulset, and to Ready. *)
LEMMA WorkerUpdated ==
    ASSUME TypeOK, [Next]_vars
    PROVE  /\ worker'.pc = "isStatefulSetReady" => worker' = worker \/ ServiceReconciled
           /\ worker'.pc = "mark" /\ worker'.phase = "Ready" =>
                 \/ worker' = worker
                 \/ IsStatefulSetReady /\ RunningIn(cache)
<1> DEFINE Goal == /\ worker'.pc = "isStatefulSetReady" => worker' = worker \/ ServiceReconciled
                   /\ worker'.pc = "mark" /\ worker'.phase = "Ready" =>
                         \/ worker' = worker
                         \/ IsStatefulSetReady /\ RunningIn(cache)
<1>1. ASSUME worker' = Idle PROVE Goal
  <2>1. worker'.pc = "idle"
    BY <1>1 DEF Idle
  <2> QED
    BY <2>1
<1>2. \A requeue : Finish(requeue) => worker' = Idle
  BY DEF Finish
<1>3. ASSUME worker.obj # None, MarkPending \/ MarkFailed PROVE Goal
  <2>1. worker'.pc = "mark" /\ worker'.phase # "Ready"
    BY <1>3, Continued
  <2> QED
    BY <2>1
<1>4. \A pc \in Pcs \ {"idle"} : worker.obj # None /\ Continue(To(pc)) => worker'.pc = pc
  BY Continued
<1>5. CASE Get
  <2>1. \A d : Begin(d) \in {"deleted", "resolveReferences"}
    BY DEF Begin
  <2>2. worker' = worker \/ worker'.pc \in {"addFinalizer", "deleted", "resolveReferences"}
    BY <1>5, <2>1 DEF Get, Idle
  <2> QED
    BY <2>2
<1>6. CASE AddFinalizer
  <2>0. worker.obj # None
    BY <1>6 DEF AddFinalizer, At, TypeOK
  <2>1. \A d : Begin(d) \in {"deleted", "resolveReferences"}
    BY DEF Begin
  <2>2. \A d : [To(Begin(d)) EXCEPT !.obj = d].pc = Begin(d)
    BY <2>1 DEF To, TypeOK, Worker
  <2>3. worker' = Idle \/ worker'.pc \in {"deleted", "resolveReferences"}
    BY <1>2, <1>6, <2>1, <2>2 DEF AddFinalizer, Continue
  <2> QED
    BY <1>1, <2>3
<1>7. CASE RemoveFinalizer \/ Mark \/ Crash
  BY <1>1, <1>2, <1>7 DEF RemoveFinalizer, Mark, Crash, Restart
<1>8. CASE ResolveReferences \/ AdminPassword \/ StatefulSetReconciled \/ ServiceReconciled
           \/ ApiFails
  <2>1. worker.obj # None
    BY <1>8 DEF ResolveReferences, AdminPassword, StatefulSetReconciled, ServiceReconciled,
       ApiFails, At, TypeOK
  <2>2. \/ worker' = Idle \/ MarkPending \/ MarkFailed
        \/ Continue(To("adminPassword")) \/ Continue(To("statefulSet"))
        \/ Continue(To("service"))
        \/ ServiceReconciled /\ Continue(To("isStatefulSetReady"))
    BY <1>2, <1>8 DEF ResolveReferences, AdminPassword, StatefulSetReconciled,
       ServiceReconciled, ApiFails
  <2> QED
    BY <1>1, <1>3, <1>4, <2>1, <2>2, PhasesAndSteps
<1>9. CASE IsStatefulSetReady
  <2>1. worker.obj # None
    BY <1>9 DEF IsStatefulSetReady, At, TypeOK
  <2>2. \/ worker' = Idle \/ MarkPending \/ MarkFailed
        \/ RunningIn(cache) /\ Continue(Marking("Ready", FALSE))
    BY <1>2, <1>9 DEF IsStatefulSetReady, Running, RunningIn
  <2>3. Continue(Marking("Ready", FALSE)) => worker'.pc = "mark"
    BY <2>1, Continued, PhasesAndSteps
  <2> QED
    BY <1>1, <1>3, <1>9, <2>1, <2>2, <2>3
<1>10. CASE UNCHANGED worker
  BY <1>10
<1> QED
  BY <1>5, <1>6, <1>7, <1>8, <1>9, <1>10
  DEF Next, Progress, Environment, Reconcile, Create, Edit, Delete, CertificateLost,
      CertificateIssued, DependentLost, Lost, PodReady, PodUnready, GarbageCollect, Resync, Sync, vars

(* What is up stays up, unless something is lost. *)
LEMMA StartedStays ==
    ASSUME TypeOK, OneDirectory, [Next]_vars, Undisturbed'
    PROVE  /\ Undisturbed
           /\ RunningIn(server) => RunningIn(server)'
           /\ RunningIn(server)' => RunningIn(server) \/ PodReady
           /\ server["service"] # None => server'["service"] # None
<1>1. /\ Undisturbed /\ Undeleted
      /\ ~Happens("unready") /\ ~Happens("statefulSetLoss") /\ ~Happens("serviceLoss")
  BY UsedGrows, HappensTypes DEF Undisturbed, Undeleted, Losses, Events
<1>2. ~GarbageCollect("statefulSet") /\ ~GarbageCollect("service")
  BY <1>1, NotCollected, ResourcesAre
<1> QED
  BY <1>1, <1>2, StatefulSetUpdated, ServiceUpdated DEF RunningIn

LEMMA StaysStartedOn ==
    ASSUME TypeOK, OneDirectory, StaysStarted, [Next]_vars
    PROVE  StaysStarted'
<1> SUFFICES ASSUME Undisturbed'
    PROVE /\ RunningIn(server)' => volume' # None
          /\ RunningIn(cache)' => RunningIn(server)'
          /\ cache'["service"] # None => server'["service"] # None
          /\ worker'.pc = "isStatefulSetReady" => server'["service"] # None
          /\ worker'.pc = "mark" /\ worker'.phase = "Ready" => Started'
          /\ \A d \in {server'["directory"], cache'["directory"]} \ {None} :
                d.phase = "Ready" => Started'
  BY DEF StaysStarted, At
<1>1. /\ Undisturbed
      /\ RunningIn(server) => RunningIn(server)'
      /\ RunningIn(server)' => RunningIn(server) \/ PodReady
      /\ server["service"] # None => server'["service"] # None
  BY StartedStays
<1>2. /\ RunningIn(server) => volume # None
      /\ RunningIn(cache) => RunningIn(server)
      /\ cache["service"] # None => server["service"] # None
      /\ At("isStatefulSetReady") => server["service"] # None
      /\ At("mark") /\ worker.phase = "Ready" => Started
      /\ \A d \in {server["directory"], cache["directory"]} \ {None} :
            d.phase = "Ready" => Started
  BY <1>1 DEF StaysStarted
<1>3. Started => Started'
  BY <1>1 DEF Started
<1>4. RunningIn(server)' => volume' # None
  <2>1. PodReady => volume' # None
    BY ClusterParts, PasswordsAssumption DEF PodReady, TypeOK, Secret
  <2> QED
    BY <1>1, <1>2, <2>1, VolumeUpdated
<1>5. RunningIn(cache)' => RunningIn(server)'
  BY <1>1, <1>2, CacheUpdated, ResourcesAre DEF RunningIn
<1>6. cache'["service"] # None => server'["service"] # None
  BY <1>1, <1>2, CacheUpdated, ResourcesAre
<1>7. worker'.pc = "isStatefulSetReady" => server'["service"] # None
  <2>1. ServiceReconciled /\ worker'.pc = "isStatefulSetReady" => server'["service"] # None
    <3> SUFFICES ASSUME ServiceReconciled, worker'.pc = "isStatefulSetReady"
                 PROVE  server'["service"] # None
      OBVIOUS
    <3>1. worker.obj \in DirectoryObject
      BY Busy DEF ServiceReconciled, At
    <3>2. MarkFailed => worker'.pc = "mark"
      BY <3>1, NoneAssumption, WorkerTypes, PhasesAndSteps DEF MarkFailed, Continue
    <3>3. cache["service"] # None \/ Store("service", [owner |-> worker.obj.uid])
      BY <3>2 DEF ServiceReconciled
    <3>4. [owner |-> worker.obj.uid] \in Service
      BY <3>1 DEF Service, Owner, DirectoryObject
    <3> QED
      BY <1>1, <1>2, <3>3, <3>4, StoreIs, ResourcesAre, NoneAssumption
  <2> QED
    BY <1>1, <1>2, <2>1, WorkerUpdated DEF At
<1>8. worker'.pc = "mark" /\ worker'.phase = "Ready" => Started'
  <2>1. IsStatefulSetReady /\ RunningIn(cache) => Started
    BY <1>2 DEF IsStatefulSetReady, Started
  <2> QED
    BY <1>2, <1>3, <2>1, WorkerUpdated DEF At
<1>9. \A d \in {server'["directory"], cache'["directory"]} \ {None} :
         d.phase = "Ready" => Started'
  <2>1. server'["directory"] # None /\ server'["directory"].phase = "Ready" => Started
    BY <1>2, PhaseUpdated
  <2>2. cache'["directory"] # None /\ cache'["directory"].phase = "Ready" => Started
    BY <1>2, CacheUpdated, ResourcesAre
  <2> QED
    BY <1>3, <2>1, <2>2
<1> QED
  BY <1>4, <1>5, <1>6, <1>7, <1>8, <1>9

-----------------------------------------------------------------------------
(* Nobody is forgotten.                                                    *)

(* The fields of the directory that a write replaces. *)
LEMMA UpdateParts ==
    ASSUME TypeOK, NEW s \in DirectoryObject \cup {None}, NEW t, DirectoryUpdate(s, t), t # None
    PROVE  \/ t = s
           \/ /\ s = None /\ t.uid = used["create"]
              /\ used'["create"] = used["create"] + 1
           \/ /\ s # None /\ t.uid = s.uid /\ t.generation > s.generation
           \/ /\ s # None /\ t.uid = s.uid /\ t.generation = s.generation
              /\ \/ /\ cache["directory"] # None
                    /\ t.finalizer = ~cache["directory"].finalizer
                 \/ cache["directory"] = s
<1>1. ASSUME s # None, NEW spec \in Specs, t = [s EXCEPT !.spec = spec, !.generation = @ + 1]
      PROVE  t.uid = s.uid /\ t.generation > s.generation
  BY <1>1 DEF DirectoryObject
<1>2. ASSUME s # None, t = [s EXCEPT !.deleting = TRUE, !.generation = @ + 1]
      PROVE  t.uid = s.uid /\ t.generation > s.generation
  BY <1>2 DEF DirectoryObject
<1>3. ASSUME s # None, t = [s EXCEPT !.finalizer = TRUE]
      PROVE  t.uid = s.uid /\ t.generation = s.generation /\ t.finalizer = TRUE
  BY <1>3 DEF DirectoryObject
<1>4. ASSUME s # None, t = Released(s)
      PROVE  t.uid = s.uid /\ t.generation = s.generation /\ t.finalizer = FALSE
  BY <1>4 DEF DirectoryObject, Released
<1>5. ASSUME s # None, t = Marked(s)
      PROVE  t.uid = s.uid /\ t.generation = s.generation
  BY <1>5 DEF DirectoryObject, Marked
<1>6. \A spec \in Specs : NewDirectory(spec).uid = used["create"]
  BY NewDirectoryIs
<1>7. CASE s = None
  BY <1>6, <1>7 DEF DirectoryUpdate
<1>8. CASE s # None /\ cache["directory"] # None /\ ~cache["directory"].finalizer
           /\ t = [s EXCEPT !.finalizer = TRUE]
  BY <1>3, <1>8
<1>9. CASE s # None /\ cache["directory"] # None /\ cache["directory"].finalizer
           /\ t = Released(s)
  <2>1. cache["directory"].finalizer = TRUE
    BY <1>9, ClusterParts DEF TypeOK, DirectoryObject
  <2> QED
    BY <1>4, <1>9, <2>1
<1> QED
  BY <1>1, <1>2, <1>5, <1>7, <1>8, <1>9 DEF DirectoryUpdate

(* Once the API server has left what the cache shows, it never returns to it. *)
LEMMA NeverBack ==
    ASSUME TypeOK, InOrder, [Next]_vars, cache["directory"] # None,
           server'["directory"] = cache["directory"]
    PROVE  server["directory"] = cache["directory"]
<1> DEFINE s == server["directory"]
           t == server'["directory"]
           c == cache["directory"]
<1>1. s \in DirectoryObject \cup {None} /\ c \in DirectoryObject
  BY ClusterParts DEF TypeOK
<1>2. used["create"] \in Nat
  BY DEF TypeOK, Events
<1>3. /\ c.uid \in Nat /\ c.generation \in Nat /\ c.finalizer \in BOOLEAN
      /\ s # None => s.generation \in Nat
  BY <1>1 DEF DirectoryObject
<1>4. c.uid < used["create"] /\ (s # None /\ c.uid = s.uid => c.generation <= s.generation)
  BY DEF InOrder
<1>5. \/ t = s
      \/ s = None /\ t.uid = used["create"]
      \/ s # None /\ t.uid = s.uid /\ t.generation > s.generation
      \/ s # None /\ c # None /\ t.finalizer = ~c.finalizer
      \/ c = s
  BY <1>1, DirectoryUpdated, UpdateParts
<1> QED
  BY <1>2, <1>3, <1>4, <1>5

LEMMA InOrderKept ==
    ASSUME TypeOK, InOrder, [Next]_vars
    PROVE  InOrder'
<1> DEFINE s == server["directory"]
           t == server'["directory"]
           c == cache["directory"]
           b == cache'["directory"]
<1>1. s \in DirectoryObject \cup {None} /\ c \in DirectoryObject \cup {None}
  BY ClusterParts DEF TypeOK
<1>2. /\ used["create"] \in Nat /\ used'["create"] \in Nat
      /\ used["create"] <= used'["create"]
  BY UsedGrows DEF Events
<1>3. /\ s # None => s.uid \in Nat /\ s.generation \in Nat
      /\ c # None => c.uid \in Nat /\ c.generation \in Nat
  BY <1>1 DEF DirectoryObject
<1>4. /\ c # None => c.uid < used["create"]
      /\ s # None => s.uid < used["create"]
      /\ c # None /\ s # None /\ c.uid = s.uid => c.generation <= s.generation
  BY DEF InOrder
<1>5. TypeOK'
  BY NextTypes
<1>6. t # None => t.uid \in Nat /\ t.generation \in Nat
  BY <1>5, ClusterParts DEF TypeOK, DirectoryObject
<1>7. t # None => \/ t = s
                  \/ /\ s = None /\ t.uid = used["create"]
                     /\ used'["create"] = used["create"] + 1
                  \/ s # None /\ t.uid = s.uid /\ t.generation >= s.generation
  BY <1>1, <1>3, <1>6, DirectoryUpdated, UpdateParts
<1>8. b = c \/ (b = s /\ t = s)
  <2>1. "directory" \in Resources
    BY ResourcesAre
  <2> QED
    BY <2>1, CacheUpdated
<1>9. t # None => t.uid < used'["create"]
  BY <1>2, <1>3, <1>4, <1>6, <1>7
<1>10. b # None => b.uid < used'["create"]
  BY <1>2, <1>3, <1>4, <1>8
<1>11. b # None /\ t # None /\ b.uid = t.uid => b.generation <= t.generation
  BY <1>2, <1>3, <1>4, <1>6, <1>7, <1>8
<1> QED
  BY <1>9, <1>10, <1>11 DEF InOrder

(* What a call has in memory has the finalizer, once it is past that step. *)
LEMMA FinalizerKept ==
    ASSUME TypeOK, Fresh, [Next]_vars
    PROVE  worker'.pc \notin {"idle", "addFinalizer"} => worker'.obj.finalizer
<1> DEFINE Goal == worker'.pc \notin {"idle", "addFinalizer"} => worker'.obj.finalizer
           c == cache["directory"]
<1>0. \A d : Begin(d) \in {"deleted", "resolveReferences"}
  BY DEF Begin
<1>1. CASE Get
  <2>1. CASE UNCHANGED worker
    BY <1>1, <2>1 DEF Get, At
  <2>2. CASE worker' = [Idle EXCEPT !.obj = c,
                          !.pc = IF c.finalizer THEN Begin(c) ELSE "addFinalizer"]
    <3>1. worker'.obj = c /\ (~c.finalizer => worker'.pc = "addFinalizer")
      BY <2>2 DEF Idle
    <3> QED
      BY <3>1
  <2> QED
    BY <1>1, <2>1, <2>2 DEF Get
<1>2. CASE AddFinalizer
  <2>1. \A d : [To(Begin(d)) EXCEPT !.obj = d].obj = d
    BY DEF To, TypeOK, Worker
  <2>2. ~Unpatchable => [server["directory"] EXCEPT !.finalizer = TRUE].finalizer
    BY ClusterParts DEF TypeOK, Unpatchable, DirectoryObject
  <2> QED
    BY <1>2, <2>1, <2>2, Finished DEF AddFinalizer, Continue
<1>3. CASE RemoveFinalizer \/ Mark
  BY <1>3, Finished DEF RemoveFinalizer, Mark
<1>4. CASE ResolveReferences \/ AdminPassword \/ StatefulSetReconciled \/ ServiceReconciled
           \/ IsStatefulSetReady \/ ApiFails
  <2>1. worker.obj # None
    BY <1>4 DEF ResolveReferences, AdminPassword, StatefulSetReconciled, ServiceReconciled,
       IsStatefulSetReady, ApiFails, At, TypeOK
  <2>2. worker'.obj = worker.obj \/ worker'.pc = "idle"
    BY <1>4, <2>1, Continued, Finished, PhasesAndSteps
    DEF ResolveReferences, AdminPassword, StatefulSetReconciled, ServiceReconciled,
        IsStatefulSetReady, ApiFails
  <2>3. worker.pc \notin {"idle", "addFinalizer"} \/ worker'.pc = "idle"
    <3>1. ApiFails /\ worker.pc = "addFinalizer" => worker'.pc = "idle"
      BY Finished DEF ApiFails
    <3> QED
      BY <1>4, <3>1 DEF ResolveReferences, AdminPassword, StatefulSetReconciled,
         ServiceReconciled, IsStatefulSetReady, ApiFails, At
  <2> QED
    BY <2>2, <2>3 DEF Fresh
<1>5. CASE Crash
  BY <1>5, IdleTypes DEF Crash, Restart
<1>6. CASE UNCHANGED worker
  BY <1>6 DEF Fresh
<1> QED
  BY <1>1, <1>2, <1>3, <1>4, <1>5, <1>6
  DEF Next, Progress, Environment, Reconcile, Create, Edit, Delete, CertificateLost,
      CertificateIssued, DependentLost, Lost, PodReady, PodUnready, GarbageCollect, Resync, Sync, vars

(* Only a call that found the directory Ready writes a last word. *)
LEMMA LastWordKept ==
    ASSUME TypeOK, Fresh, [Next]_vars
    PROVE  worker'.pc = "mark" /\ ~worker'.requeue => worker'.phase = "Ready"
<1> DEFINE Goal == worker'.pc = "mark" /\ ~worker'.requeue => worker'.phase = "Ready"
<1>0. \A d : Begin(d) # "mark"
  BY DEF Begin
<1>1. CASE Get
  <2>1. CASE UNCHANGED worker
    BY <1>1, <2>1 DEF Get, At
  <2>2. ASSUME NEW d, worker' = [Idle EXCEPT !.obj = d,
                          !.pc = IF d.finalizer THEN Begin(d) ELSE "addFinalizer"]
        PROVE  Goal
    <3>1. worker'.pc # "mark"
      BY <1>0, <2>2 DEF Idle
    <3> QED
      BY <3>1
  <2> QED
    BY <1>1, <2>1, <2>2 DEF Get
<1>2. CASE AddFinalizer
  <2>1. \A d : [To(Begin(d)) EXCEPT !.obj = d].pc # "mark"
    BY <1>0 DEF To, TypeOK, Worker
  <2> QED
    BY <1>2, <2>1, Finished DEF AddFinalizer, Continue
<1>3. CASE RemoveFinalizer \/ Mark
  BY <1>3, Finished DEF RemoveFinalizer, Mark
<1>4. CASE ResolveReferences \/ AdminPassword \/ StatefulSetReconciled \/ ServiceReconciled
           \/ IsStatefulSetReady \/ ApiFails
  <2>1. worker.obj # None
    BY <1>4 DEF ResolveReferences, AdminPassword, StatefulSetReconciled, ServiceReconciled,
       IsStatefulSetReady, ApiFails, At, TypeOK
  <2> QED
    BY <1>4, <2>1, Continued, Finished, PhasesAndSteps
    DEF ResolveReferences, AdminPassword, StatefulSetReconciled, ServiceReconciled,
        IsStatefulSetReady, ApiFails
<1>5. CASE Crash
  BY <1>5, IdleTypes DEF Crash, Restart
<1>6. CASE UNCHANGED worker
  BY <1>6 DEF Fresh, At
<1> QED
  BY <1>1, <1>2, <1>3, <1>4, <1>5, <1>6
  DEF Next, Progress, Environment, Reconcile, Create, Edit, Delete, CertificateLost,
      CertificateIssued, DependentLost, Lost, PodReady, PodUnready, GarbageCollect, Resync, Sync, vars

(* How a call, and the wish for one, go on. *)
LEMMA WokenUp ==
    ASSUME TypeOK, [Next]_vars, ~queued'
    PROVE  \/ /\ UNCHANGED worker /\ ~queued
              /\ cache'["directory"] = cache["directory"]
           \/ /\ Get /\ cache' = cache /\ server' = server
              /\ worker' = worker \/ worker'.obj = cache["directory"]
              /\ cache["directory"] = None => worker' = worker
           \/ /\ Reconcile \/ ApiFails
              /\ ~queued /\ worker.pc # "idle" /\ cache' = cache
           \/ worker' = Idle /\ server'["directory"] = None /\ server' = server
<1>1. CASE Get
  <2>1. cache["directory"] # None =>
          worker' = [Idle EXCEPT !.obj = cache["directory"],
            !.pc = IF cache["directory"].finalizer THEN Begin(cache["directory"])
                                                   ELSE "addFinalizer"]
    BY <1>1 DEF Get
  <2>2. cache["directory"] # None => worker'.obj = cache["directory"]
    BY <2>1 DEF Idle
  <2> QED
    BY <1>1, <2>2 DEF Get
<1>2. CASE (Reconcile /\ ~Get) \/ ApiFails
  <2>1. worker.pc # "idle" /\ cache' = cache /\ worker.obj # None
    BY <1>2 DEF Reconcile, AddFinalizer, RemoveFinalizer, ResolveReferences, AdminPassword,
       StatefulSetReconciled, ServiceReconciled, IsStatefulSetReady, Mark, ApiFails, At, TypeOK
  <2>2. queued' = queued \/ \E requeue : queued' = (queued \/ requeue)
    BY <1>2 DEF Reconcile, AddFinalizer, RemoveFinalizer, ResolveReferences, AdminPassword,
       StatefulSetReconciled, ServiceReconciled, IsStatefulSetReady, Mark, ApiFails,
       MarkPending, MarkFailed, Finish, Continue
  <2> QED
    BY <1>2, <2>1, <2>2
<1>3. CASE Crash
  BY <1>3 DEF Crash, Restart
<1>4. CASE \E x \in Resources : Sync(x)
  BY <1>4, ResourcesAre DEF Sync, Watched, TypeOK, Cluster
<1>5. CASE UNCHANGED <<worker, queued, cache>>
  BY <1>5
<1>6. CASE Resync
  BY <1>6 DEF Resync, HandOver
<1> QED
  BY <1>1, <1>2, <1>3, <1>4, <1>5, <1>6
  DEF Next, Progress, Environment, Create, Edit, Delete, CertificateLost,
      CertificateIssued, DependentLost, Lost, PodReady, PodUnready, GarbageCollect, vars

(* Each step of a call but the first two leaves the object in memory as it is. *)
LEMMA MemoryKept ==
    ASSUME TypeOK, (Reconcile /\ ~Get /\ ~AddFinalizer) \/ ApiFails
    PROVE  worker'.obj = worker.obj \/ worker'.pc = "idle"
<1>1. worker.obj # None
  BY DEF Reconcile, RemoveFinalizer, ResolveReferences, AdminPassword, StatefulSetReconciled,
     ServiceReconciled, IsStatefulSetReady, Mark, ApiFails, At, TypeOK
<1> QED
  BY <1>1, Continued, Finished, PhasesAndSteps
  DEF Reconcile, RemoveFinalizer, ResolveReferences, AdminPassword, StatefulSetReconciled,
      ServiceReconciled, IsStatefulSetReady, Mark, ApiFails

LEMMA FreshKept ==
    ASSUME TypeOK, InOrder, Fresh, [Next]_vars
    PROVE  Fresh'
<1> DEFINE s == server["directory"]
           t == server'["directory"]
           c == cache["directory"]
<1>1. /\ worker'.pc \notin {"idle", "addFinalizer"} => worker'.obj.finalizer
      /\ worker'.pc = "mark" /\ ~worker'.requeue => worker'.phase = "Ready"
  BY FinalizerKept, LastWordKept
<1>2. ASSUME ~queued', worker'.pc # "idle"
      PROVE  /\ cache'["directory"] # None
             /\ cache'["directory"] = t => worker'.obj = t
  <2>1. ~queued /\ worker.pc # "idle" => c # None /\ (c = s => worker.obj = s)
    BY DEF Fresh
  <2>2. c # None /\ t = c => s = c
    BY NeverBack
  <2>3. CASE UNCHANGED worker /\ ~queued /\ cache'["directory"] = c
    BY <1>2, <2>1, <2>2, <2>3
  <2>4. CASE /\ Get /\ cache' = cache /\ server' = server
             /\ worker' = worker \/ worker'.obj = c
             /\ c = None => worker' = worker
    BY <1>2, <2>4 DEF Get, At
  <2>5. CASE /\ Reconcile \/ ApiFails
             /\ ~queued /\ worker.pc # "idle" /\ cache' = cache
    <3>1. CASE AddFinalizer
      <4>1. \A d : [To(Begin(d)) EXCEPT !.obj = d].obj = d
        BY DEF To, TypeOK, Worker
      <4>2. \A d : Store("directory", d) => t = d
        BY StoreIs, ResourcesAre
      <4>3. \/ worker'.obj = c
            \/ worker'.obj = t
        BY <1>2, <3>1, <4>1, <4>2, Finished DEF AddFinalizer, Continue
      <4> QED
        BY <2>1, <2>5, <4>3
    <3>2. CASE ~AddFinalizer
      <4>1. ~Get
        BY <2>5 DEF Get, At
      <4>2. worker'.obj = worker.obj
        BY <1>2, <2>5, <3>2, <4>1, MemoryKept
      <4> QED
        BY <2>1, <2>2, <2>5, <4>2
    <3> QED
      BY <3>1, <3>2
  <2> QED
    BY <1>2, <2>3, <2>4, <2>5, WokenUp, IdleTypes
<1> QED
  BY <1>1, <1>2 DEF Fresh, At

LEMMA NotForgottenKept ==
    ASSUME TypeOK, InOrder, Fresh, NotForgotten, [Next]_vars
    PROVE  NotForgotten'
<1> DEFINE s == server["directory"]
           t == server'["directory"]
           c == cache["directory"]
<1> SUFFICES ASSUME ~queued', worker'.pc = "idle", t # None, cache'["directory"] = t
             PROVE  t.phase = "Ready"
  BY DEF NotForgotten
<1>1. c # None /\ t = c => s = c
  BY NeverBack
<1>2. CASE UNCHANGED worker /\ ~queued /\ cache'["directory"] = c
  BY <1>1, <1>2 DEF NotForgotten
<1>3. CASE /\ Get /\ cache' = cache /\ server' = server
           /\ worker' = worker \/ worker'.obj = c
           /\ c = None => worker' = worker
  <2>1. c # None
    BY <1>3
  <2>2. worker'.pc # "idle"
    <3>1. worker' = [Idle EXCEPT !.obj = c, !.pc = IF c.finalizer THEN Begin(c) ELSE "addFinalizer"]
      BY <1>3, <2>1 DEF Get
    <3> QED
      BY <3>1 DEF Idle, Begin
  <2> QED
    BY <2>2
<1>4. CASE /\ Reconcile \/ ApiFails
           /\ ~queued /\ worker.pc # "idle" /\ cache' = cache
  <2>1. s = c /\ c = t /\ c # None /\ worker.obj = c
    BY <1>1, <1>4 DEF Fresh
  <2>2. worker.pc # "addFinalizer" => c.finalizer
    BY <1>4, <2>1 DEF Fresh
  <2>3. \A requeue : Finish(requeue) => ~requeue
    BY Finished
  <2>4. CASE Mark
    <3>1. Store("directory", Marked(s)) /\ ~worker.requeue
      BY <2>1, <2>3, <2>4 DEF Mark, Unpatchable
    <3>2. worker.phase = "Ready"
      BY <2>4, <3>1 DEF Mark, Fresh, At
    <3>3. t = Marked(s)
      BY <3>1, StoreIs, ResourcesAre
    <3>4. s \in DirectoryObject
      BY <2>1, ClusterParts DEF TypeOK
    <3> QED
      BY <3>2, <3>3, <3>4 DEF Marked, DirectoryObject
  <2>5. CASE RemoveFinalizer
    <3>1. Store("directory", Released(s))
      BY <2>1, <2>2, <2>3, <2>5 DEF RemoveFinalizer, At
    <3>2. t = Released(s)
      BY <3>1, StoreIs, ResourcesAre
    <3>3. s \in DirectoryObject
      BY <2>1, ClusterParts DEF TypeOK
    <3>4. c.finalizer
      BY <2>2, <2>5 DEF RemoveFinalizer, At
    <3>5. s.deleting \/ ~t.finalizer
      BY <3>2, <3>3 DEF Released, DirectoryObject
    <3> QED
      BY <2>1, <3>2, <3>4, <3>5 DEF Released
  <2>6. CASE IsStatefulSetReady
    <3>1. MarkPending \/ MarkFailed \/ Continue(Marking("Ready", FALSE)) => worker'.pc # "idle"
      BY <2>1, Continued, PhasesAndSteps
    <3>2. worker.obj.phase = "Ready"
      BY <2>6, <3>1 DEF IsStatefulSetReady
    <3> QED
      BY <2>1, <3>2
  <2>7. CASE AddFinalizer \/ ResolveReferences \/ AdminPassword \/ StatefulSetReconciled
             \/ ServiceReconciled \/ ApiFails
    <3>1. \A d : [To(Begin(d)) EXCEPT !.obj = d].pc # "idle"
      BY DEF To, Begin, TypeOK, Worker
    <3>2. MarkPending \/ MarkFailed => worker'.pc # "idle"
      BY <2>1, Continued
    <3>3. \A pc \in Pcs \ {"idle"} : Continue(To(pc)) => worker'.pc # "idle"
      BY <2>1, Continued
    <3> QED
      BY <2>3, <2>7, <3>1, <3>2, <3>3, PhasesAndSteps
      DEF AddFinalizer, ResolveReferences, AdminPassword, StatefulSetReconciled,
          ServiceReconciled, ApiFails, Continue
  <2>8. ~Get
    BY <1>4 DEF Get, At
  <2> QED
    BY <1>4, <2>4, <2>5, <2>6, <2>7, <2>8 DEF Reconcile
<1> QED
  BY <1>2, <1>3, <1>4, WokenUp

-----------------------------------------------------------------------------
(* What follows.                                                           *)

LEMMA InitDirectoryInv == Init => DirectoryInv
<1> SUFFICES ASSUME Init PROVE DirectoryInv
  OBVIOUS
<1>1. TypeOK
  BY InitTypes
<1>2. /\ \A x \in Resources : server[x] = None /\ cache[x] = None
      /\ worker.pc = "idle" /\ worker.obj = None /\ volume = None
  BY IdleTypes DEF Init, Empty
<1>3. OneDirectory /\ SecretKept /\ StaysStarted
  BY <1>2, ResourcesAre DEF OneDirectory, CopiesAlive, OwnersAlive, Copies, SecretKept,
     StaysStarted, RunningIn, At
<1>4. InOrder /\ Fresh /\ NotForgotten
  BY <1>2, ResourcesAre DEF InOrder, Fresh, NotForgotten, At
<1> QED
  BY <1>1, <1>3, <1>4 DEF DirectoryInv

LEMMA NextDirectoryInv == DirectoryInv /\ [Next]_vars => DirectoryInv'
BY NextTypes, OneDirectoryKept, SecretKeptOn, StaysStartedOn, InOrderKept, FreshKept,
   NotForgottenKept DEF DirectoryInv

(* Two more steps the operator as a whole takes: the process is stopped by   *)
(* another of its controllers, and the informers hand everything over.       *)
LEMMA RestartKeeps ==
    ASSUME DirectoryInv, Restart, UNCHANGED <<server, certified, volume, used>>
    PROVE  DirectoryInv'
<1>1. /\ \A x \in Resources : cache'[x] = server[x] /\ server'[x] = server[x]
      /\ worker'.pc = "idle" /\ worker'.obj = None
      /\ queued' = (server["directory"] # None)
      /\ UNCHANGED <<volume, used>>
  BY IdleTypes DEF Restart
<1>2. TypeOK'
  BY IdleTypes DEF DirectoryInv, TypeOK, Restart
<1>3. OneDirectory' /\ SecretKept'
  BY <1>1, ResourcesAre DEF DirectoryInv, OneDirectory, CopiesAlive, OwnersAlive, Copies,
     Alive, Undeleted, SecretKept
<1>4. StaysStarted'
  BY <1>1, ResourcesAre DEF DirectoryInv, StaysStarted, RunningIn, Started, Undisturbed, At
<1>5. InOrder'
  <2>1. server["directory"] # None => server["directory"].generation \in Nat
    BY ClusterParts DEF DirectoryInv, TypeOK, DirectoryObject
  <2> QED
    BY <1>1, <2>1, ResourcesAre DEF DirectoryInv, InOrder
<1>6. Fresh' /\ NotForgotten'
  BY <1>1, ResourcesAre DEF Fresh, NotForgotten, At
<1> QED
  BY <1>2, <1>3, <1>4, <1>5, <1>6 DEF DirectoryInv

LEMMA HandOverKeeps ==
    ASSUME DirectoryInv, HandOver, UNCHANGED <<server, cache, worker, certified, volume, used>>
    PROVE  DirectoryInv'
<1>1. queued'
  BY DEF HandOver
<1>2. TypeOK' /\ OneDirectory' /\ SecretKept' /\ StaysStarted'
  BY <1>1 DEF DirectoryInv, TypeOK, OneDirectory, CopiesAlive, OwnersAlive, Copies, Alive,
     Undeleted, SecretKept, StaysStarted, RunningIn, Started, Undisturbed, At
<1>3. InOrder' /\ Fresh' /\ NotForgotten'
  BY <1>1 DEF DirectoryInv, InOrder, Fresh, NotForgotten, At
<1> QED
  BY <1>2, <1>3 DEF DirectoryInv

LEMMA DirectoryInvHolds == Spec => []DirectoryInv
BY InitDirectoryInv, NextDirectoryInv, PTL DEF Spec

(* The operator can log in: as long as nobody deletes the secret or the      *)
(* directory, the secret holds the password that slapd was set up with,      *)
(* although a password is generated whenever the cache shows no secret       *)
(* (lines 159-181).                                                          *)
THEOREM PasswordStays == Spec => []PasswordMatches
<1>1. DirectoryInv => PasswordMatches
  BY DEF DirectoryInv, SecretKept, Undeleted, PasswordMatches
<1> QED
  BY <1>1, DirectoryInvHolds, PTL

(* The operator never comes to rest on a directory that is not Ready,        *)
(* whatever is stale, refused, lost or interrupted in a Reconcile (lines     *)
(* 107-157, 183-260): a call that nobody has queued another one after has    *)
(* what is cached in memory, and ends with RequeueAfter, an error or Ready.  *)
THEOREM RestsOnReady == Spec => []RestsReady
<1>1. DirectoryInv => RestsReady
  BY ResourcesAre, IdleTypes DEF DirectoryInv, NotForgotten, RestsReady, Settled
<1> QED
  BY <1>1, DirectoryInvHolds, PTL

-----------------------------------------------------------------------------
(* The last word is the spec's.                                            *)

Has(x, spec) == x # None /\ x.spec = spec

Wanted == server["directory"].spec

SpecsAround ==
    {d.spec : d \in {server["directory"], cache["directory"], worker.obj,
                     server["statefulSet"], cache["statefulSet"]} \ {None}}

(* A user gives a spec: of a new directory, or a changed one. *)
SpecGiven ==
    /\ server'["directory"] # None
    /\ server["directory"] # None => server'["directory"].spec # Wanted

(* What is given is new, unless the operator is at rest: an edit is undone   *)
(* only when it has been acted upon, everywhere.                             *)
ReturnsAtRest ==
    SpecGiven /\ server'["directory"].spec \in SpecsAround => Settled

Nowhere ==
    ~Has(server["statefulSet"], Wanted) /\ ~Has(cache["statefulSet"], Wanted)

Past == worker.pc \notin {"idle", "addFinalizer"}

(* Where a statefulset is made from an older spec the wanted one is not      *)
(* cached, so that the next look at it finds something to do.                *)
CacheBehind ==
    Has(cache["statefulSet"], Wanted) /\ server["statefulSet"] # None
    => Has(server["statefulSet"], Wanted)

(* While a call that has an older spec in memory may still write it, or one  *)
(* may start from an older copy, nothing is made from the wanted one yet.    *)
OldInMemory == Past /\ ~Has(worker.obj, Wanted) => Nowhere

OldInCache ==
    LET c == cache["directory"] IN
    c # None /\ c.finalizer /\ ~Has(c, Wanted) => Nowhere /\ ~Has(worker.obj, Wanted)

(* The statefulset still has to be looked at, or the key comes back. *)
ToDo == {"addFinalizer", "deleted", "resolveReferences", "adminPassword", "statefulSet"}

Awaited ==
    (/\ server["statefulSet"] # None /\ ~Has(server["statefulSet"], Wanted)
     /\ ~queued /\ cache["directory"] = server["directory"])
    => worker.pc \in ToDo \/ (worker.pc = "mark" /\ worker.requeue)

SpecInv ==
    server["directory"] # None => CacheBehind /\ OldInMemory /\ OldInCache /\ Awaited

(* A directory keeps its spec but for a creation and an edit. *)
LEMMA SpecGivenBy ==
    ASSUME TypeOK, [Next]_vars, SpecGiven
    PROVE  /\ \A x \in Dependents : server'[x] = server[x]
           /\ UNCHANGED <<cache, queued, worker>>
<1> DEFINE s == server["directory"]
           t == server'["directory"]
<1>1. \A v : Store("directory", v) => t = v /\ \A x \in Dependents : server'[x] = server[x]
  BY StoreIs, ResourcesAre
<1>2. \A x \in Dependents : \A v : Store(x, v) => t = s
  BY StoreIs, ResourcesAre
<1>3. s \in DirectoryObject \cup {None}
  BY ClusterParts DEF TypeOK
<1>4. t # s
  BY DEF SpecGiven, Wanted
<1>5. CASE Create \/ Edit
  BY <1>1, <1>5 DEF Create, Edit
<1>6. CASE AddFinalizer \/ RemoveFinalizer \/ Mark \/ Delete
  <2>1. s # None => \/ t = s \/ t = None \/ t = [s EXCEPT !.finalizer = TRUE]
                    \/ t = Released(s) \/ t = Marked(s)
                    \/ t = [s EXCEPT !.deleting = TRUE, !.generation = @ + 1]
    BY <1>1, <1>6 DEF AddFinalizer, RemoveFinalizer, Mark, Delete
  <2>2. s = None => t = s
    BY <1>1, <1>6 DEF AddFinalizer, RemoveFinalizer, Mark, Delete, Unpatchable
  <2>3. s # None /\ t # None => t.spec = s.spec
    BY <1>3, <2>1 DEF Released, Marked, DirectoryObject
  <2> QED
    BY <2>2, <2>3, <1>4 DEF SpecGiven, Wanted
<1>7. CASE AdminPassword \/ StatefulSetReconciled \/ ServiceReconciled \/ DependentLost
           \/ PodReady \/ PodUnready \/ \E x \in Dependents : GarbageCollect(x)
  BY <1>2, <1>4, <1>7, ResourcesAre DEF AdminPassword, StatefulSetReconciled,
     ServiceReconciled, DependentLost, Lost, PodReady, PodUnready, GarbageCollect
<1>8. CASE UNCHANGED server
  BY <1>4, <1>8
<1> QED
  BY <1>5, <1>6, <1>7, <1>8
  DEF Next, Progress, Environment, Reconcile, Get, ResolveReferences, IsStatefulSetReady,
      ApiFails, CertificateLost, CertificateIssued, Resync, Crash, Sync, vars

(* A statefulset keeps its spec, or gets the one that a call has in memory. *)
LEMMA SpecMade ==
    ASSUME TypeOK, [Next]_vars, server'["statefulSet"] # None
    PROVE  \/ /\ server["statefulSet"] # None
              /\ server'["statefulSet"].spec = server["statefulSet"].spec
           \/ /\ StatefulSetReconciled /\ Past
              /\ server'["statefulSet"].spec = worker.obj.spec
<1> DEFINE s == server["statefulSet"]
           t == server'["statefulSet"]
<1>1. \A y \in Resources : \A v : Store(y, v) => t = IF y = "statefulSet" THEN v ELSE s
  BY StoreIs, ResourcesAre
<1>2. s \in StatefulSet \cup {None} /\ cache["statefulSet"] \in StatefulSet \cup {None}
  BY ClusterParts DEF TypeOK
<1>3. CASE StatefulSetReconciled
  <2> DEFINE old == cache["statefulSet"]
             new == [owner |-> worker.obj.uid, spec |-> worker.obj.spec, ready |-> FALSE]
             updated == [old EXCEPT !.spec = new.spec, !.owner = new.owner]
  <2>1. \/ UNCHANGED server
        \/ Store("statefulSet", new)
        \/ old # None /\ Store("statefulSet", updated)
    BY <1>3 DEF StatefulSetReconciled
  <2>2. new.spec = worker.obj.spec
    OBVIOUS
  <2>3. old # None => updated.spec = worker.obj.spec
    BY <1>2 DEF StatefulSet
  <2>4. \A v : Store("statefulSet", v) => t = v
    BY <1>1, ResourcesAre
  <2> HIDE DEF new, updated
  <2>5. \/ UNCHANGED server
        \/ t.spec = worker.obj.spec
    BY <2>1, <2>2, <2>3, <2>4
  <2>6. Past
    BY <1>3 DEF StatefulSetReconciled, At, Past
  <2> QED
    BY <1>3, <2>5, <2>6
<1>4. CASE PodReady \/ PodUnready
  <2>1. \E r \in BOOLEAN : s # None /\ t = [s EXCEPT !.ready = r]
    BY <1>1, <1>4, ResourcesAre DEF PodReady, PodUnready
  <2> QED
    BY <1>2, <2>1 DEF StatefulSet
<1>5. CASE AdminPassword \/ ServiceReconciled \/ AddFinalizer \/ RemoveFinalizer \/ Mark
           \/ Create \/ Edit \/ Delete
  <2>1. UNCHANGED server \/ \E y \in Resources \ {"statefulSet"} : \E v : Store(y, v)
    BY <1>5, ResourcesAre DEF AdminPassword, ServiceReconciled, AddFinalizer,
       RemoveFinalizer, Mark, Create, Edit, Delete
  <2> QED
    BY <1>1, <2>1
<1>6. CASE DependentLost \/ \E x \in Dependents : GarbageCollect(x)
  BY <1>1, <1>6, ResourcesAre DEF DependentLost, Lost, GarbageCollect
<1>7. CASE UNCHANGED server
  BY <1>7
<1> QED
  BY <1>3, <1>4, <1>5, <1>6, <1>7
  DEF Next, Progress, Environment, Reconcile, Get, ResolveReferences, IsStatefulSetReady,
      ApiFails, CertificateLost, CertificateIssued, Resync, Crash, Sync, vars

(* A call gets past its first two steps with what the cache shows to have    *)
(* the finalizer, or with what the API server returned.                      *)
LEMMA GotPast ==
    ASSUME TypeOK, [Next]_vars
    PROVE  LET c == cache["directory"]
           IN  /\ Past' => \/ Past /\ worker'.obj = worker.obj
                           \/ /\ c # None /\ c.finalizer /\ worker'.obj = c
                              /\ UNCHANGED <<server, cache>>
                           \/ worker'.obj = server'["directory"]
               /\ c # None /\ c.finalizer => worker'.obj \in {None, worker.obj, c}
<1> DEFINE c == cache["directory"]
           Goal == /\ Past' => \/ Past /\ worker'.obj = worker.obj
                               \/ /\ c # None /\ c.finalizer /\ worker'.obj = c
                                  /\ UNCHANGED <<server, cache>>
                               \/ worker'.obj = server'["directory"]
                   /\ c # None /\ c.finalizer => worker'.obj \in {None, worker.obj, c}
<1>1. CASE Get
  <2>1. CASE UNCHANGED worker
    BY <1>1, <2>1 DEF Get, At, Past
  <2>2. CASE c # None /\ worker' = [Idle EXCEPT !.obj = c,
                            !.pc = IF c.finalizer THEN Begin(c) ELSE "addFinalizer"]
    <3>1. worker'.obj = c /\ (~c.finalizer => worker'.pc = "addFinalizer")
      BY <2>2 DEF Idle
    <3> QED
      BY <1>1, <2>2, <3>1 DEF Get, Past
  <2> QED
    BY <1>1, <2>1, <2>2 DEF Get
<1>2. CASE AddFinalizer
  <2>1. \A d : [To(Begin(d)) EXCEPT !.obj = d].obj = d
    BY DEF To, TypeOK, Worker
  <2>2. \A d : Store("directory", d) => server'["directory"] = d
    BY StoreIs, ResourcesAre
  <2>3. \/ c # None /\ c.finalizer /\ worker'.obj = c /\ UNCHANGED <<server, cache>>
        \/ c # None /\ ~c.finalizer /\ worker'.obj = server'["directory"]
        \/ worker'.pc = "idle" /\ worker'.obj = None
    BY <1>2, <2>1, <2>2, Finished DEF AddFinalizer, Continue, Unpatchable
  <2> QED
    BY <2>3 DEF Past
<1>3. CASE (Reconcile /\ ~Get /\ ~AddFinalizer) \/ ApiFails
  <2>1. worker'.obj = worker.obj \/ worker'.pc = "idle"
    BY <1>3, MemoryKept
  <2>2. worker'.pc = "idle" => worker'.obj = None
    BY NextTypes DEF TypeOK
  <2>3. Past \/ worker'.pc = "idle"
    <3>1. ApiFails /\ worker.pc = "addFinalizer" => worker'.pc = "idle"
      BY Finished DEF ApiFails
    <3> QED
      BY <1>3, <3>1 DEF Reconcile, RemoveFinalizer, ResolveReferences, AdminPassword,
         StatefulSetReconciled, ServiceReconciled, IsStatefulSetReady, Mark, ApiFails,
         At, Past
  <2> QED
    BY <2>1, <2>2, <2>3 DEF Past
<1>4. CASE Crash
  BY <1>4, IdleTypes DEF Crash, Restart, Past
<1>5. CASE UNCHANGED worker
  BY <1>5 DEF Past
<1> QED
  BY <1>1, <1>2, <1>3, <1>4, <1>5
  DEF Next, Progress, Environment, Create, Edit, Delete, CertificateLost,
      CertificateIssued, DependentLost, Lost, PodReady, PodUnready, GarbageCollect, Resync, Sync, vars

(* A spec that is given is nowhere yet, but for that of a statefulset which  *)
(* everything agrees upon.                                                   *)
LEMMA SpecGivenKeeps ==
    ASSUME DirectoryInv, SpecInv, [Next]_vars, ReturnsAtRest, SpecGiven
    PROVE  SpecInv'
<1> DEFINE s == server["directory"]
           t == server'["directory"]
           w == t.spec
<1>1. TypeOK /\ InOrder
  BY DEF DirectoryInv
<1>2. /\ server'["statefulSet"] = server["statefulSet"]
      /\ UNCHANGED <<cache, queued, worker>>
  BY <1>1, SpecGivenBy, ResourcesAre
<1>3. t # None /\ (s # None => w # s.spec)
  BY DEF SpecGiven, Wanted
<1>4. Awaited'
  <2>1. t # cache["directory"]
    BY <1>1, <1>3, NeverBack
  <2> QED
    BY <1>2, <2>1 DEF Awaited
<1>5. CASE w \notin SpecsAround
  <2>1. \A d \in {cache["directory"], worker.obj, server["statefulSet"],
                  cache["statefulSet"]} : ~Has(d, w)
    BY <1>5 DEF SpecsAround, Has
  <2>2. Nowhere' /\ ~Has(worker'.obj, w)
    BY <1>2, <2>1 DEF Nowhere, Wanted
  <2> QED
    BY <1>2, <1>4, <2>1, <2>2
    DEF SpecInv, CacheBehind, OldInMemory, OldInCache, Wanted, Nowhere
<1>6. CASE Settled
  <2>1. ~queued /\ worker.pc = "idle" /\ worker.obj = None /\ cache = server
    BY <1>6, IdleTypes DEF Settled
  <2>2. s # None => ~Has(server["statefulSet"], w)
    BY <1>3, <2>1 DEF SpecInv, Awaited, Has, Wanted, ToDo
  <2>3. CacheBehind' /\ OldInMemory'
    BY <1>2, <2>1 DEF CacheBehind, OldInMemory, Past, Has
  <2>4. OldInCache'
    BY <1>2, <2>1, <2>2 DEF OldInCache, Nowhere, Has, Wanted
  <2> QED
    BY <1>4, <2>3, <2>4 DEF SpecInv
<1> QED
  BY <1>5, <1>6 DEF ReturnsAtRest

(* As long as the directory keeps its spec, only a call that has it in       *)
(* memory makes a statefulset from it.                                       *)
LEMMA NowhereKept ==
    ASSUME TypeOK, [Next]_vars, Wanted' = Wanted, Nowhere,
           Past => ~Has(worker.obj, Wanted)
    PROVE  Nowhere'
<1>1. ~Has(server'["statefulSet"], Wanted)
  <2>1. Past => worker.obj # None
    BY DEF Past, TypeOK
  <2> QED
    BY <2>1, SpecMade DEF Nowhere, Has
<1>2. cache'["statefulSet"] \in {cache["statefulSet"], server["statefulSet"]}
  BY CacheUpdated, ResourcesAre
<1> QED
  BY <1>1, <1>2 DEF Nowhere

LEMMA AwaitedKept ==
    ASSUME DirectoryInv, SpecInv, [Next]_vars, server["directory"] # None,
           server'["directory"] # None, Wanted' = Wanted
    PROVE  Awaited'
<1> DEFINE s == server["directory"]
           t == server'["directory"]
           c == cache["directory"]
           sts == server["statefulSet"]
<1> SUFFICES ASSUME server'["statefulSet"] # None, ~Has(server'["statefulSet"], Wanted),
                    ~queued', cache'["directory"] = t
             PROVE  worker'.pc \in ToDo \/ (worker'.pc = "mark" /\ worker'.requeue)
  BY DEF Awaited
<1>1. TypeOK /\ InOrder /\ Fresh /\ Awaited /\ CacheBehind
  BY DEF DirectoryInv, SpecInv
<1>2. c # None /\ t = c => s = c
  BY <1>1, NeverBack
<1>3. CASE UNCHANGED worker /\ ~queued /\ cache'["directory"] = c
  <2>1. s = c
    BY <1>2, <1>3
  <2>2. sts # None /\ ~Has(sts, Wanted)
    <3>1. ~StatefulSetReconciled \/ Has(worker.obj, Wanted)
      BY <1>1, <1>3, <2>1 DEF StatefulSetReconciled, Fresh, At, Has, Wanted
    <3> QED
      BY <1>1, <3>1, SpecMade DEF Has
  <2> QED
    BY <1>1, <1>3, <2>1, <2>2 DEF Awaited
<1>4. CASE /\ Get /\ cache' = cache /\ server' = server
           /\ worker' = worker \/ worker'.obj = c
           /\ c = None => worker' = worker
  <2>1. c # None
    BY <1>4
  <2>2. worker' = [Idle EXCEPT !.obj = c, !.pc = IF c.finalizer THEN Begin(c) ELSE "addFinalizer"]
    BY <1>4, <2>1 DEF Get
  <2> QED
    BY <2>2 DEF Idle, Begin, ToDo
<1>5. CASE /\ Reconcile \/ ApiFails
           /\ ~queued /\ worker.pc # "idle" /\ cache' = cache
  <2>1. s = c /\ c = t /\ c # None /\ worker.obj = c
    BY <1>1, <1>2, <1>5 DEF Fresh
  <2>2. sts # None /\ ~Has(sts, Wanted)
    BY <1>1, <2>1, SpecMade DEF Has, Wanted
  <2>3. worker.pc \in ToDo \/ (worker.pc = "mark" /\ worker.requeue)
    BY <1>1, <1>5, <2>1, <2>2 DEF Awaited
  <2>4. \A requeue : Finish(requeue) => ~requeue
    BY Finished
  <2>5. ~Get
    BY <1>5 DEF Get, At
  <2>6. MarkPending \/ MarkFailed => worker'.pc = "mark" /\ worker'.requeue
    BY <1>1, <2>1, Continued
  <2>7. CASE AddFinalizer
    <3>1. \A d : [To(Begin(d)) EXCEPT !.obj = d].pc \in ToDo
      BY <1>1 DEF To, Begin, ToDo, TypeOK, Worker
    <3> QED
      BY <2>4, <2>7, <3>1 DEF AddFinalizer, Continue
  <2>8. CASE RemoveFinalizer
    <3>1. c.finalizer
      BY <1>1, <2>1, <2>8 DEF Fresh, RemoveFinalizer, At
    <3>2. Store("directory", Released(s))
      BY <2>1, <2>4, <2>8, <3>1 DEF RemoveFinalizer
    <3>3. t = Released(s)
      BY <1>1, <3>2, StoreIs, ResourcesAre
    <3>4. s \in DirectoryObject
      BY <1>1, <2>1, ClusterParts DEF TypeOK
    <3>5. s.deleting \/ ~t.finalizer
      BY <3>3, <3>4 DEF Released, DirectoryObject
    <3> QED
      BY <2>1, <3>1, <3>3, <3>5 DEF Released
  <2>9. CASE ResolveReferences \/ AdminPassword
    <3>1. \A pc \in {"adminPassword", "statefulSet"} : Continue(To(pc)) => worker'.pc \in ToDo
      BY <1>1, <2>1, Continued, PhasesAndSteps DEF ToDo
    <3> QED
      BY <2>4, <2>6, <2>9, <3>1 DEF ResolveReferences, AdminPassword
  <2>10. CASE StatefulSetReconciled
    <3> DEFINE old == cache["statefulSet"]
               new == [owner |-> worker.obj.uid, spec |-> worker.obj.spec, ready |-> FALSE]
               updated == [old EXCEPT !.spec = new.spec, !.owner = new.owner]
    <3>1. \A v : Store("statefulSet", v) => server'["statefulSet"] = v
      BY <1>1, StoreIs, ResourcesAre
    <3>2. worker.obj.spec = Wanted
      BY <2>1 DEF Wanted
    <3>3. ~Conforms(old, new)
      BY <1>1, <2>2, <3>2 DEF CacheBehind, Conforms, Has
    <3>4. ~Store("statefulSet", new)
      BY <3>1, <3>2 DEF Has
    <3>5. old # None => ~Store("statefulSet", updated)
      <4>1. old \in StatefulSet \cup {None}
        BY <1>1, ClusterParts DEF TypeOK
      <4>2. old # None => updated.spec = Wanted
        BY <3>2, <4>1 DEF StatefulSet
      <4> QED
        BY <3>1, <4>2 DEF Has
    <3> QED
      BY <2>6, <2>10, <3>3, <3>4, <3>5 DEF StatefulSetReconciled
  <2>11. CASE ServiceReconciled \/ IsStatefulSetReady
    BY <2>3, <2>11 DEF ServiceReconciled, IsStatefulSetReady, At, ToDo
  <2>12. CASE Mark
    BY <2>3, <2>4, <2>12, Finished DEF Mark, At, ToDo
  <2>13. CASE ApiFails
    BY <2>3, <2>4, <2>6, <2>13 DEF ApiFails
  <2> QED
    BY <1>5, <2>5, <2>7, <2>8, <2>9, <2>10, <2>11, <2>12, <2>13 DEF Reconcile
<1> QED
  BY <1>1, <1>3, <1>4, <1>5, WokenUp

LEMMA SpecKeptOn ==
    ASSUME DirectoryInv, SpecInv, [Next]_vars, server["directory"] # None,
           server'["directory"] # None, Wanted' = Wanted
    PROVE  SpecInv'
<1>1. TypeOK /\ CacheBehind /\ OldInMemory /\ OldInCache
  BY DEF DirectoryInv, SpecInv
<1>2. /\ \/ cache'["statefulSet"] = cache["statefulSet"]
         \/ cache'["statefulSet"] = server["statefulSet"] /\ server' = server
      /\ \/ cache'["directory"] = cache["directory"]
         \/ cache'["directory"] = server["directory"] /\ server' = server
  BY <1>1, CacheUpdated, ResourcesAre
<1>3. Past => worker.obj # None
  BY <1>1 DEF Past, TypeOK
<1>4. CacheBehind'
  <2> SUFFICES ASSUME Has(cache'["statefulSet"], Wanted), server'["statefulSet"] # None
               PROVE  Has(server'["statefulSet"], Wanted)
    BY DEF CacheBehind
  <2>1. CASE cache'["statefulSet"] = cache["statefulSet"]
    <3>1. Past => Has(worker.obj, Wanted)
      BY <1>1, <2>1 DEF OldInMemory, Nowhere
    <3> QED
      BY <1>1, <2>1, <3>1, SpecMade DEF CacheBehind, Has
  <2> QED
    BY <1>2, <2>1
<1>5. OldInMemory'
  <2> SUFFICES ASSUME Past', ~Has(worker'.obj, Wanted)
               PROVE  Nowhere'
    BY DEF OldInMemory
  <2>1. CASE Past /\ worker'.obj = worker.obj
    BY <1>1, <2>1, NowhereKept DEF OldInMemory
  <2>2. CASE /\ cache["directory"] # None /\ cache["directory"].finalizer
             /\ worker'.obj = cache["directory"]
             /\ UNCHANGED <<server, cache>>
    BY <1>1, <2>2 DEF OldInCache, Nowhere, Has
  <2>3. CASE worker'.obj = server'["directory"]
    BY <2>3 DEF Has, Wanted
  <2> QED
    BY <1>1, <2>1, <2>2, <2>3, GotPast
<1>6. OldInCache'
  <2> DEFINE c == cache["directory"]
  <2> SUFFICES ASSUME cache'["directory"] # None, cache'["directory"].finalizer,
                      ~Has(cache'["directory"], Wanted)
               PROVE  Nowhere' /\ ~Has(worker'.obj, Wanted)
    BY DEF OldInCache
  <2>1. cache'["directory"] = c
    BY <1>2 DEF Has, Wanted
  <2>2. Nowhere /\ ~Has(worker.obj, Wanted)
    BY <1>1, <2>1 DEF OldInCache
  <2>3. worker'.obj \in {None, worker.obj, c}
    BY <1>1, <2>1, GotPast
  <2> QED
    BY <1>1, <2>1, <2>2, <2>3, NowhereKept DEF Has
<1>7. Awaited'
  BY AwaitedKept
<1> QED
  BY <1>4, <1>5, <1>6, <1>7 DEF SpecInv

LEMMA SpecInvHolds == Spec /\ [][ReturnsAtRest]_vars => [](DirectoryInv /\ SpecInv)
<1>1. Init => DirectoryInv /\ SpecInv
  <2>1. Init => server["directory"] = None
    BY ResourcesAre DEF Init, Empty
  <2> QED
    BY <2>1, InitDirectoryInv DEF SpecInv
<1>2. DirectoryInv /\ SpecInv /\ [Next]_vars /\ [ReturnsAtRest]_vars
      => DirectoryInv' /\ SpecInv'
  <2> SUFFICES ASSUME DirectoryInv, SpecInv, [Next]_vars, [ReturnsAtRest]_vars
               PROVE  SpecInv'
    BY NextDirectoryInv
  <2>1. CASE UNCHANGED vars
    BY <2>1 DEF SpecInv, CacheBehind, OldInMemory, OldInCache, Awaited, Nowhere, Past,
       Wanted, vars
  <2>2. CASE server'["directory"] = None
    BY <2>2 DEF SpecInv
  <2>3. CASE SpecGiven /\ ReturnsAtRest
    BY <2>3, SpecGivenKeeps
  <2>4. CASE ~SpecGiven /\ server'["directory"] # None
    BY <2>4, SpecKeptOn DEF SpecGiven, Wanted
  <2> QED
    BY <2>1, <2>2, <2>3, <2>4
<1> QED
  BY <1>1, <1>2, PTL DEF Spec

(* The last word is the spec's (lines 183-260): when the operator comes to   *)
(* rest the statefulset is made from the spec of the directory, for any      *)
(* number of edits, losses and directories of the name, as long as a spec    *)
(* that some copy still holds is only returned to when the operator is at    *)
(* rest.  Without that an edit undone in time is taken for done (line 197).  *)
THEOREM NewestSpecMade == Spec /\ [][ReturnsAtRest]_vars => []NewestSpecWins
<1>1. DirectoryInv /\ SpecInv => NewestSpecWins
  BY IdleTypes DEF SpecInv, Awaited, ToDo, Has, Wanted, NewestSpecWins, Settled
<1> QED
  BY <1>1, SpecInvHolds, PTL

=============================================================================
