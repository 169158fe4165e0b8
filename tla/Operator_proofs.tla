-------------------------- MODULE Operator_proofs --------------------------
(***************************************************************************)
(* The operator as a whole keeps what its parts keep: the invariant of the *)
(* object reconcilers holds under the steps they take in the process they  *)
(* share with the directory reconciler, as does that of the directory      *)
(* reconciler; and from the two together, that Ready can be trusted.       *)
(***************************************************************************)
EXTENDS Operator, LDAPReady_proofs

(* What is proved of the directory reconciler, about this one. *)
DP == INSTANCE LDAPDirectory_proofs
    WITH Specs <- DirectorySpecs, Passwords <- AdminPasswords,
         Limits <- DirectoryLimits, MaxEvents <- MaxDirectoryEvents,
         cache <- directoryCache, queued <- directoryQueued,
         worker <- directoryWorker, used <- directoryUsed

-----------------------------------------------------------------------------
(* D and DP are the same module twice.                                     *)

LEMMA SameAssumptions ==
    DP!BoundsAssumption /\ DP!PasswordsAssumption /\ DP!NoneAssumption
BY DirectoryAssumption
   DEF D!BoundsAssumption, DP!BoundsAssumption, D!PasswordsAssumption,
       DP!PasswordsAssumption, D!NoneAssumption, DP!NoneAssumption, D!Events, DP!Events,
       D!DirectoryObject, DP!DirectoryObject, D!Phases, DP!Phases, D!Secret, DP!Secret,
       D!StatefulSet, DP!StatefulSet, D!Service, DP!Service, D!Owner, DP!Owner

LEMMA SameReconcile ==
    D!Reconcile <=> DP!Reconcile
BY DEF D!Reconcile, DP!Reconcile, D!Get, DP!Get, D!AddFinalizer, DP!AddFinalizer,
       D!RemoveFinalizer, DP!RemoveFinalizer, D!ResolveReferences,
       DP!ResolveReferences, D!AdminPassword, DP!AdminPassword,
       D!StatefulSetReconciled, DP!StatefulSetReconciled, D!ServiceReconciled,
       DP!ServiceReconciled, D!IsStatefulSetReady, DP!IsStatefulSetReady, D!Mark,
       DP!Mark, D!At, DP!At, D!Idle, DP!Idle, D!Begin, DP!Begin, D!Continue,
       DP!Continue, D!To, DP!To, D!Unpatchable, DP!Unpatchable, D!Store, DP!Store,
       D!Finish, DP!Finish, D!Released, DP!Released, D!MarkPending, DP!MarkPending,
       D!SecretExists, DP!SecretExists, D!AdminPasswordSecret,
       DP!AdminPasswordSecret, D!GeneratedPassword, DP!GeneratedPassword,
       D!Conforms, DP!Conforms, D!Stale, DP!Stale, D!MarkFailed, DP!MarkFailed,
       D!Running, DP!Running, D!Marking, DP!Marking, D!Marked, DP!Marked

LEMMA SameEnvironment ==
    D!Environment <=> DP!Environment
BY DEF D!Environment, DP!Environment, D!ApiFails, DP!ApiFails, D!Create, DP!Create,
       D!Edit, DP!Edit, D!Delete, DP!Delete, D!CertificateLost,
       DP!CertificateLost, D!DependentLost, DP!DependentLost, D!PodUnready,
       DP!PodUnready, D!Resync, DP!Resync, D!Happens, DP!Happens, D!Finish,
       DP!Finish, D!MarkFailed, DP!MarkFailed, D!Store, DP!Store, D!NewDirectory,
       DP!NewDirectory, D!Lost, DP!Lost, D!HandOver, DP!HandOver, D!Idle, DP!Idle,
       D!Continue, DP!Continue, D!Marking, DP!Marking

LEMMA SameClusterSteps ==
    /\ D!Resources = DP!Resources /\ D!Dependents = DP!Dependents
    /\ \A x : (D!Sync(x) <=> DP!Sync(x)) /\ (D!GarbageCollect(x) <=> DP!GarbageCollect(x))
    /\ D!PodReady <=> DP!PodReady
    /\ D!CertificateIssued <=> DP!CertificateIssued
    /\ D!Crash <=> DP!Crash
    /\ D!Restart <=> DP!Restart
    /\ D!HandOver <=> DP!HandOver
    /\ D!Init <=> DP!Init
BY DEF D!Dependents, DP!Dependents, D!Resources, DP!Resources, D!Sync, DP!Sync,
       D!Watched, DP!Watched, D!GarbageCollect, DP!GarbageCollect, D!Alive,
       DP!Alive, D!Store, DP!Store, D!PodReady, DP!PodReady, D!CertificateIssued,
       DP!CertificateIssued, D!Crash, DP!Crash,
       D!Happens, DP!Happens, D!Restart, DP!Restart, D!Idle, DP!Idle, D!HandOver,
       DP!HandOver, D!Init, DP!Init, D!Empty, DP!Empty, D!Events, DP!Events

LEMMA SameBudget ==
    D!WithinBudget <=> DP!WithinBudget
BY DEF D!WithinBudget, DP!WithinBudget, D!FoldFunction, DP!FoldFunction,
       D!FoldFunctionOnSet, DP!FoldFunctionOnSet,
       D!MapThenFoldSet, DP!MapThenFoldSet

-----------------------------------------------------------------------------
(* The directory.                                                          *)

NothingLost == ~Lost({"delete", "unready", "secretLoss", "statefulSetLoss", "serviceLoss"})

(* What a step of the directory reconciler, or of what surrounds it, leaves. *)
DirectoryKept ==
    /\ DP!DirectoryInv'
    /\ NothingLost' => /\ NothingLost
                       /\ DP!Started => DP!Started'
                       /\ volume # None => volume' = volume

LEMMA CalmIs ==
    ASSUME DP!TypeOK
    PROVE  NothingLost <=> DP!Undisturbed
<1>1. \A e \in DP!Losses : directoryUsed[e] \in Nat
  BY DEF DP!TypeOK, DP!Losses, DP!Events
<1> QED
  BY <1>1 DEF NothingLost, Lost, DP!Undisturbed, DP!Losses

LEMMA NextKept ==
    ASSUME DP!DirectoryInv, [DP!Next]_(DP!vars)
    PROVE  DirectoryKept
<1>1. DP!DirectoryInv'
  BY SameAssumptions, DP!NextDirectoryInv DEF DP!NextDirectoryInv
<1>2. DP!TypeOK /\ DP!TypeOK' /\ DP!OneDirectory
  BY <1>1 DEF DP!DirectoryInv
<1>3. (NothingLost <=> DP!Undisturbed) /\ (NothingLost' <=> DP!Undisturbed')
  <2>1. NothingLost' <=> DP!Undisturbed'
    <3>1. \A e \in DP!Losses : directoryUsed'[e] \in Nat
      BY <1>2 DEF DP!TypeOK, DP!Losses, DP!Events
    <3> QED
      BY <3>1 DEF NothingLost, Lost, DP!Undisturbed, DP!Losses
  <2> QED
    BY <1>2, <2>1, CalmIs
<1>4. ASSUME DP!Undisturbed'
      PROVE  DP!Undisturbed /\ (DP!Started => DP!Started')
  BY <1>2, <1>4, SameAssumptions, DP!StartedStays DEF DP!StartedStays, DP!Started
<1>5. volume # None => volume' = volume
  BY SameAssumptions, DP!VolumeUpdated DEF DP!VolumeUpdated, DP!PodReady
<1> QED
  BY <1>1, <1>3, <1>4, <1>5 DEF DirectoryKept

LEMMA QuietKept ==
    ASSUME DP!DirectoryInv, UNCHANGED directoryVars
    PROVE  DirectoryKept
BY NextKept DEF directoryVars, DP!vars

(* What a Ready directory and the admin password in the informers are worth. *)
LEMMA ReadyIsStarted ==
    ASSUME DP!DirectoryInv, NothingLost
    PROVE  /\ directoryCache["directory"] # None
                /\ directoryCache["directory"].phase = "Ready" => DP!Started
           /\ DP!Started => volume # None
           /\ DP!Started /\ directoryCache["secret"] # None
                => directoryCache["secret"].password = volume
<1>1. DP!Undisturbed /\ DP!TypeOK
  BY CalmIs DEF DP!DirectoryInv
<1>2. DP!StaysStarted /\ DP!SecretKept /\ DP!Undeleted /\ directoryUsed["secretLoss"] = 0
  BY <1>1 DEF DP!DirectoryInv, DP!Undisturbed, DP!Losses, DP!Undeleted
<1> QED
  BY <1>1, <1>2 DEF DP!StaysStarted, DP!SecretKept, DP!Started

(* What the actions of the operator do to the directory. *)
LEMMA DirectoryStepKept ==
    ASSUME DP!DirectoryInv,
           \/ DirectoryReconciles \/ InformersCatchUp \/ DependentsCollected \/ PodStarts
           \/ CertificateIssued \/ DirectoryDisturbed \/ ResyncDirectory \/ OperatorCrash
           \/ \E k \in Kinds : OperatorPanic(k)
    PROVE  DirectoryKept
<1>1. CASE DirectoryReconciles
  BY <1>1, SameReconcile, NextKept DEF DirectoryReconciles, DP!Next, DP!Progress
<1>2. CASE InformersCatchUp
  BY <1>2, SameClusterSteps, NextKept DEF InformersCatchUp, DP!Next, DP!Progress
<1>3. CASE DependentsCollected
  BY <1>3, SameClusterSteps, NextKept DEF DependentsCollected, DP!Next, DP!Progress
<1>4. CASE PodStarts
  BY <1>4, SameClusterSteps, NextKept DEF PodStarts, DP!Next, DP!Progress
<1>5. CASE DirectoryDisturbed
  BY <1>5, SameBudget, SameEnvironment, NextKept DEF DirectoryDisturbed, Budget, DP!Next
<1>6. CASE OperatorCrash
  BY <1>6, SameBudget, SameClusterSteps, NextKept DEF OperatorCrash, Budget, DP!Next
<1>7. CASE ResyncDirectory
  <2>1. /\ DP!HandOver
        /\ UNCHANGED <<server, directoryCache, directoryWorker, certified, volume, directoryUsed>>
    BY <1>7, SameClusterSteps DEF ResyncDirectory
  <2>2. DP!DirectoryInv'
    BY <2>1, SameAssumptions, DP!HandOverKeeps DEF DP!HandOverKeeps
  <2> QED
    BY <2>1, <2>2 DEF DirectoryKept, NothingLost, Lost, DP!Started, DP!RunningIn
<1>8. ASSUME NEW k \in Kinds, OperatorPanic(k)
      PROVE  DirectoryKept
  <2>1. DP!Restart /\ UNCHANGED <<server, certified, volume, directoryUsed>>
    BY <1>8, SameClusterSteps DEF OperatorPanic
  <2>2. DP!DirectoryInv'
    BY <2>1, SameAssumptions, DP!RestartKeeps DEF DP!RestartKeeps
  <2> QED
    BY <2>1, <2>2 DEF DirectoryKept, NothingLost, Lost, DP!Started, DP!RunningIn
<1>9. CASE CertificateIssued
  BY <1>9, SameClusterSteps, NextKept DEF CertificateIssued, DP!Next
<1> QED
  BY <1>1, <1>2, <1>3, <1>4, <1>5, <1>6, <1>7, <1>8, <1>9

-----------------------------------------------------------------------------
(* The objects.                                                            *)

(* What the informers of the object reconcilers show of the directory. *)
Informed == directory = Seen(directoryCache["directory"])

LEMMA SeenTypes ==
    ASSUME NEW d \in DP!DirectoryObject \cup {None}
    PROVE  Seen(d) \in DirectoryVersion \cup {None}
BY DEF Seen, DP!DirectoryObject, DirectoryVersion

LEMMA DirectoryCacheTypes ==
    ASSUME DP!DirectoryInv'
    PROVE  directoryCache'["directory"] \in DP!DirectoryObject \cup {None}
BY DEF DP!DirectoryInv, DP!TypeOK, DP!Cluster

(* The directory reconciler works beside the objects. *)
LEMMA ObjectsSeeKeeps ==
    ASSUME ObjectInv, DP!DirectoryInv', ObjectsSee
    PROVE  ObjectInv'
<1>1. directory' \in DirectoryVersion \cup {None}
  BY DirectoryCacheTypes, SeenTypes DEF ObjectsSee
<1>2. EnvironmentSound'
  BY <1>1 DEF ObjectsSee, ObjectInv, ReconcilerSound, EnvironmentSound
<1>3. Aside
  BY <1>2, EnvironmentAside DEF ObjectsSee, ObjectInv
<1> QED
  BY <1>3, AsideKeeps

LEMMA BuildKeeps ==
    ASSUME ObjectInv, NEW k \in Kinds, Build(k)
    PROVE  ObjectInv'
<1>1. UNCHANGED <<clientVars, store, cache, watch, environment, history>>
  BY DEF Build
<1>2. CASE UNCHANGED <<worker, queue>>
  <2>1. EnvironmentSound'
    BY <1>1 DEF ObjectInv, ReconcilerSound, EnvironmentSound, environment
  <2>2. Aside
    BY <1>1, <1>2, <2>1, EnvironmentAside DEF ObjectInv, kubernetes
  <2> QED
    BY <2>2, AsideKeeps
<1>3. CASE Finish(k, TRUE)
  <2>1. worker[k].pc # "idle" /\ worker[k].pc \notin Calling
    BY DEF Build, At, Calling
  <2>2. Quiet(k)
    BY <1>1, <1>3, <2>1, FinishQuiet DEF ObjectInv, clientVars
  <2>3. faults' \in 0 .. MaxFaults
    BY <1>1 DEF ObjectInv, ClientInv, ClientTypeOK, clientVars
  <2> QED
    BY <1>1, <2>2, <2>3, QuietKeepsAll
<1> QED
  BY <1>2, <1>3 DEF Build

(* slapd refuses a request. *)
LEMMA RefusedKeeps ==
    ASSUME ObjectInv, NEW k \in Kinds, Refused(k)
    PROVE  ObjectInv'
<1>1. /\ ClientInv /\ DeletionInv /\ Fail(k) /\ call[k].step # "idle"
      /\ UNCHANGED <<dit, faults>> /\ UNCHANGED <<kubernetes, worker, environment, history>>
  BY DEF Refused, ObjectInv
<1>2. faults' \in 0 .. MaxFaults
  BY <1>1 DEF ClientInv, ClientTypeOK
<1>3. ClientInv' /\ DeletionInv'
  BY <1>1, <1>2, Unchanged, FailStep, RootedKept, FailDeletes DEF DeletionInv, Entries
<1>4. CallMoves(k) /\ EntriesMove(k)
  BY <1>1, BecomesMoves, UnchangedMoves DEF Fail, Return
<1> QED
  BY <1>1, <1>3, <1>4, ServedKeeps

LEMMA CollectedKeeps ==
    ASSUME ObjectInv, NEW o \in Objects, Collected(o)
    PROVE  ObjectInv'
<1>1. /\ store[o] # None /\ Publish(o, Left(store[o]))
      /\ UNCHANGED <<clientVars, cache, queue, worker, environment, history>>
  BY DEF Collected, Orphaned
<1> QED
  BY <1>1, LeftAside, AsideKeeps DEF ObjectInv

LEMMA ResyncObjectKeeps ==
    ASSUME ObjectInv, NEW o \in Objects, ResyncObject(o)
    PROVE  ObjectInv'
<1>1. /\ queue' = queue \cup {o}
      /\ UNCHANGED <<clientVars, store, cache, watch, worker, environment, history>>
  BY DEF ResyncObject, HandOver
<1>2. Aside
  BY <1>1 DEF Aside, ObjectInv, ReconcilerSound, ApiSound, WorkersSound, Sound,
     EnvironmentSound, environment
<1> QED
  BY <1>2, AsideKeeps

LEMMA RestartsKeeps ==
    ASSUME ObjectInv, DP!DirectoryInv', ProcessRestarts
    PROVE  ObjectInv'
<1>1. directory' \in DirectoryVersion \cup {None} /\ faults' \in 0 .. MaxFaults
  BY DirectoryCacheTypes, SeenTypes DEF ProcessRestarts, ObjectInv, ClientInv, ClientTypeOK
<1> QED
  BY <1>1, ProcessStartsKeeps DEF ProcessRestarts

-----------------------------------------------------------------------------
(* Clients.                                                                *)

LEMMA StepsOf ==
    ASSUME NEW w \in Worker
    PROVE  /\ \A pc : To(w, pc).pc = pc
           /\ \A pc, v : /\ [To(w, pc) EXCEPT !.obj = v].pc = pc
                         /\ [To(w, pc) EXCEPT !.owner = v].pc = pc
                         /\ [To(w, pc) EXCEPT !.failed = v].pc = pc
           /\ \A phase, requeue : Marking(w, phase, requeue).pc = "mark"
           /\ Named(w).pc = "getDistinguishedName"
           /\ \A v : [Named(w) EXCEPT !.owner = v].pc = "getDistinguishedName"
           /\ \A p : Ascended(w, p).pc = w.pc
BY DEF Worker, To, Marking, Named, Ascended

(* Worker k is at pc next, and the others stay where they are. *)
MovesTo(k, pc) == worker'[k].pc = pc /\ \A j \in Kinds \ {k} : worker'[j] = worker[j]

LEMMA WorkerGoes ==
    ASSUME WorkersSound, NEW k \in Kinds
    PROVE  LET w == worker[k] IN
           /\ \A requeue : Finish(k, requeue) => MovesTo(k, "idle")
           /\ MarkPending(k) \/ (\E requeue : MarkFailed(k, requeue)) => MovesTo(k, "mark")
           /\ \A phase, requeue : Continue(k, Marking(w, phase, requeue)) => MovesTo(k, "mark")
           /\ \A pc : Continue(k, To(w, pc)) => MovesTo(k, pc)
           /\ \A pc, v : /\ Continue(k, [To(w, pc) EXCEPT !.obj = v]) => MovesTo(k, pc)
                         /\ Continue(k, [To(w, pc) EXCEPT !.owner = v]) => MovesTo(k, pc)
           /\ Continue(k, Named(w)) => MovesTo(k, "getDistinguishedName")
           /\ \A v : Continue(k, [Named(w) EXCEPT !.owner = v]) => MovesTo(k, "getDistinguishedName")
           /\ \A p : Continue(k, Ascended(w, p)) => MovesTo(k, w.pc)
<1>1. worker[k] \in Worker
  BY DEF WorkersSound
<1>2. \A v : Continue(k, v) => worker'[k] = v /\ \A j \in Kinds \ {k} : worker'[j] = worker[j]
  BY DEF WorkersSound, Continue
<1>3. \A v : Continue(k, v) => MovesTo(k, v.pc)
  BY <1>2 DEF MovesTo
<1>4. \A requeue : Finish(k, requeue) => MovesTo(k, "idle")
  BY IdleSound DEF WorkersSound, Finish, MovesTo
<1>5. \A phase, requeue : Continue(k, Marking(worker[k], phase, requeue)) => MovesTo(k, "mark")
  BY <1>1, <1>3, StepsOf
<1>6. MarkPending(k) \/ (\E requeue : MarkFailed(k, requeue)) => MovesTo(k, "mark")
  BY <1>5 DEF MarkPending, MarkFailed
<1>7. \A pc : Continue(k, To(worker[k], pc)) => MovesTo(k, pc)
  BY <1>1, <1>3, StepsOf
<1>8. ASSUME NEW pc, NEW v
      PROVE  /\ Continue(k, [To(worker[k], pc) EXCEPT !.obj = v]) => MovesTo(k, pc)
             /\ Continue(k, [To(worker[k], pc) EXCEPT !.owner = v]) => MovesTo(k, pc)
  <2>1. PICK n : n = [To(worker[k], pc) EXCEPT !.obj = v]
    OBVIOUS
  <2>2. PICK m : m = [To(worker[k], pc) EXCEPT !.owner = v]
    OBVIOUS
  <2>3. n.pc = pc /\ m.pc = pc
    BY <1>1, <2>1, <2>2, StepsOf
  <2> QED
    BY <1>3, <2>1, <2>2, <2>3
<1>9. /\ Continue(k, Named(worker[k])) => MovesTo(k, "getDistinguishedName")
      /\ \A v : Continue(k, [Named(worker[k]) EXCEPT !.owner = v])
               => MovesTo(k, "getDistinguishedName")
  <2>1. ASSUME NEW v
        PROVE  Continue(k, [Named(worker[k]) EXCEPT !.owner = v])
                 => MovesTo(k, "getDistinguishedName")
    <3>1. PICK n : n = [Named(worker[k]) EXCEPT !.owner = v]
      OBVIOUS
    <3>2. n.pc = "getDistinguishedName"
      BY <1>1, <3>1, StepsOf
    <3> QED
      BY <1>3, <3>1, <3>2
  <2> QED
    BY <1>1, <1>3, <2>1, StepsOf
<1>10. \A p : Continue(k, Ascended(worker[k], p)) => MovesTo(k, worker[k].pc)
  BY <1>1, <1>3, StepsOf
<1> QED
  BY <1>4, <1>5, <1>6, <1>7, <1>8, <1>9, <1>10

(* Between the check that the directory is Ready and the distinguished name  *)
(* there is nothing else (lines 136-160).                                    *)
LEMMA OnlyBehindTheCheck ==
    ASSUME WorkersSound, NEW k \in Kinds, Reconcile(k)
    PROVE  /\ \A j \in Kinds \ {k} : worker'[j] = worker[j]
           /\ worker'[k].pc = "resolveParent" => directory # None /\ directory.phase = "Ready"
           /\ worker'[k].pc = "getDistinguishedName"
                => worker[k].pc \in {"resolveParent", "getDistinguishedName"}
<1> DEFINE w == worker[k]
           Others == Pcs \ {"resolveParent", "getDistinguishedName"}
<1>1. SUFFICES
        \/ \E pc \in Others : MovesTo(k, pc)
        \/ MovesTo(k, "resolveParent") /\ directory # None /\ directory.phase = "Ready"
        \/ /\ MovesTo(k, "getDistinguishedName")
           /\ w.pc \in {"resolveParent", "getDistinguishedName"}
  BY DEF MovesTo
<1>2. {"idle", "resolveReferences", "resolveDirectory", "deleteEntry", "removeFinalizer",
       "setOwner", "mapToEntry", "upsertEntry", "mark"} \subseteq Others
  BY DEF Pcs
<1>3. CASE AddFinalizer(k)
  <2>1. \/ \E requeue : Finish(k, requeue)
        \/ \E v : Continue(k, [To(w, "resolveReferences") EXCEPT !.obj = v])
    BY <1>3 DEF AddFinalizer
  <2> QED
    BY <1>2, <2>1, WorkerGoes
<1>4. CASE ResolveReferences(k)
  <2>1. \/ MarkPending(k)
        \/ \E pc \in {"resolveDirectory", "removeFinalizer"} : Continue(k, To(w, pc))
    BY <1>4 DEF ResolveReferences, Unresolved
  <2> QED
    BY <1>2, <2>1, WorkerGoes
<1>5. CASE ResolveDirectory(k)
  <2>1. \/ MarkPending(k)
        \/ /\ directory # None /\ directory.phase = "Ready"
           /\ \E v : Continue(k, [To(w, "resolveParent") EXCEPT !.owner = v])
    BY <1>5 DEF ResolveDirectory
  <2> QED
    BY <1>2, <2>1, WorkerGoes
<1>6. CASE ResolveParent(k)
  <2>1. \/ MarkPending(k) \/ \E requeue : MarkFailed(k, requeue)
        \/ Continue(k, Named(w)) \/ \E v : Continue(k, [Named(w) EXCEPT !.owner = v])
    BY <1>6 DEF ResolveParent
  <2>2. w.pc = "resolveParent"
    BY <1>6 DEF ResolveParent, At
  <2> QED
    BY <1>2, <2>1, <2>2, WorkerGoes
<1>7. CASE GetDistinguishedName(k)
  <2>1. \/ \E requeue : Finish(k, requeue)
        \/ \E p : Continue(k, Ascended(w, p))
        \/ \E pc \in {"deleteEntry", "setOwner"} : Continue(k, To(w, pc))
    BY <1>7 DEF GetDistinguishedName, OnceNamed
  <2>2. w.pc = "getDistinguishedName"
    BY <1>7 DEF GetDistinguishedName, At
  <2> QED
    BY <1>2, <2>1, <2>2, WorkerGoes
<1>8. CASE DeleteEntry(k)
  <2>1. w.pc = "deleteEntry" /\ w \in Worker
    BY <1>8 DEF DeleteEntry, At, WorkersSound
  <2>2. CASE UNCHANGED worker
    BY <1>2, <2>1, <2>2 DEF MovesTo
  <2>3. CASE worker' = [worker EXCEPT ![k] =
               [To(w, "removeFinalizer") EXCEPT !.failed = ~call[k].ok]]
    <3>1. MovesTo(k, "removeFinalizer")
      BY <2>1, <2>3, StepsOf DEF WorkersSound, MovesTo
    <3> QED
      BY <1>2, <3>1
  <2> QED
    BY <1>8, <2>2, <2>3 DEF DeleteEntry
<1>9. CASE RemoveFinalizer(k) \/ Mark(k)
  <2>1. \E requeue : Finish(k, requeue)
    BY <1>9 DEF RemoveFinalizer, Mark
  <2> QED
    BY <1>2, <2>1, WorkerGoes
<1>10. CASE SetOwner(k)
  <2>1. \/ \E requeue : MarkFailed(k, requeue)
        \/ \E v : Continue(k, [To(w, "mapToEntry") EXCEPT !.obj = v])
    BY <1>10 DEF SetOwner
  <2> QED
    BY <1>2, <2>1, WorkerGoes
<1>11. CASE MapToEntry(k) \/ CreateOrUpdateEntry(k)
  <2>1. \/ \E requeue : MarkFailed(k, requeue) \/ Finish(k, requeue)
        \/ \E phase, requeue : Continue(k, Marking(w, phase, requeue))
        \/ Continue(k, To(w, "upsertEntry"))
    BY <1>11 DEF MapToEntry, CreateOrUpdateEntry
  <2> QED
    BY <1>2, <2>1, WorkerGoes
<1> QED
  BY <1>3, <1>4, <1>5, <1>6, <1>7, <1>8, <1>9, <1>10, <1>11 DEF Reconcile

BehindTheCheck(k) ==
    At(k, "resolveParent") \/ At(k, "getDistinguishedName") \/ login[k] # None

(* Behind the check slapd is set up, and a client has its password. *)
Reached(k) ==
    BehindTheCheck(k) => DP!Started /\ (login[k] # None => login[k] = volume)

OperatorInv ==
    /\ ObjectInv /\ DP!DirectoryInv
    /\ Informed
    /\ login \in [Kinds -> AdminPasswords \cup {None}]
    /\ NothingLost => \A k \in Kinds : Reached(k)

(* A worker that was behind the check before. *)
LEMMA ReachedKept ==
    ASSUME OperatorInv, DirectoryKept, NothingLost', NEW k \in Kinds,
           login'[k] \in {login[k], None},
           worker'[k].pc \in {"resolveParent", "getDistinguishedName"} \/ login'[k] # None
             => BehindTheCheck(k)
    PROVE  Reached(k)'
<1>1. NothingLost /\ (DP!Started => DP!Started') /\ (volume # None => volume' = volume)
  BY DEF DirectoryKept
<1>2. Reached(k) /\ (DP!Started => volume # None)
  BY <1>1, ReadyIsStarted DEF OperatorInv
<1> QED
  BY <1>1, <1>2 DEF Reached, BehindTheCheck, At

(* Neither a worker nor its client moves. *)
LEMMA StillReached ==
    ASSUME OperatorInv, DirectoryKept, UNCHANGED <<worker, login>>
    PROVE  NothingLost' => \A k \in Kinds : Reached(k)'
BY ReachedKept DEF OperatorInv, BehindTheCheck, At

LEMMA ObjectStepReached ==
    ASSUME OperatorInv, NEW k \in Kinds, ObjectStep(k)
    PROVE  NothingLost' => \A j \in Kinds : Reached(j)'
<1>1. /\ Reconcile(k) /\ UNCHANGED directoryVars /\ WorkersSound /\ Informed
      /\ login' = [login EXCEPT ![k] = IF worker'[k].pc = "idle" THEN None ELSE @]
      /\ login \in [Kinds -> AdminPasswords \cup {None}]
  BY DEF ObjectStep, ClosedWhenDone, OperatorInv, ObjectInv, ReconcilerSound
<1>2. DirectoryKept
  BY <1>1, QuietKept DEF OperatorInv
<1>3. /\ login'[k] \in {login[k], None} /\ login' \in [Kinds -> AdminPasswords \cup {None}]
      /\ \A j \in Kinds \ {k} : login'[j] = login[j]
  BY <1>1
<1>4. ASSUME NothingLost', NEW j \in Kinds \ {k}
      PROVE  Reached(j)'
  BY <1>1, <1>2, <1>3, <1>4, OnlyBehindTheCheck, ReachedKept DEF BehindTheCheck, At
<1>5. ASSUME NothingLost'
      PROVE  Reached(k)'
  <2>1. CASE worker'[k].pc = "resolveParent"
    <3>1. directoryCache["directory"] # None /\ directoryCache["directory"].phase = "Ready"
      BY <1>1, <2>1, OnlyBehindTheCheck DEF Informed, Seen
    <3>2. DP!Started' /\ NothingLost /\ DP!Started
      BY <1>2, <1>5, <3>1, ReadyIsStarted DEF DirectoryKept, OperatorInv
    <3>3. login'[k] # None => login'[k] = volume'
      BY <1>1, <1>3, <3>2 DEF OperatorInv, Reached, BehindTheCheck, directoryVars
    <3> QED
      BY <3>2, <3>3 DEF Reached
  <2>2. CASE worker'[k].pc # "resolveParent"
    BY <1>1, <1>2, <1>3, <1>5, <2>2, OnlyBehindTheCheck, ReachedKept DEF BehindTheCheck, At
  <2> QED
    BY <2>1, <2>2
<1> QED
  BY <1>4, <1>5

LEMMA BuildReached ==
    ASSUME OperatorInv, NEW k \in Kinds, Build(k)
    PROVE  NothingLost' => \A j \in Kinds : Reached(j)'
<1> DEFINE admin == directoryCache["secret"]
<1>1. UNCHANGED directoryVars /\ DirectoryKept /\ WorkersSound
  BY QuietKept DEF Build, OperatorInv, ObjectInv, ReconcilerSound
<1>2. At(k, "getDistinguishedName") /\ BehindTheCheck(k)
  BY DEF Build, BehindTheCheck
<1>3. CASE /\ admin # None
           /\ login' = [login EXCEPT ![k] = admin.password]
           /\ UNCHANGED <<worker, queue>>
  <2>1. login'[k] = admin.password /\ \A j \in Kinds \ {k} : login'[j] = login[j]
    BY <1>3 DEF OperatorInv
  <2>2. ASSUME NothingLost', NEW j \in Kinds \ {k}
        PROVE  Reached(j)'
    BY <1>1, <1>3, <2>1, <2>2, ReachedKept DEF BehindTheCheck, At
  <2>3. ASSUME NothingLost'
        PROVE  Reached(k)'
    <3>1. NothingLost /\ DP!Started /\ DP!Started' /\ volume' = volume
      BY <1>1, <1>2, <2>3 DEF DirectoryKept, OperatorInv, Reached, directoryVars
    <3>2. admin.password = volume
      BY <1>3, <3>1, ReadyIsStarted DEF OperatorInv
    <3> QED
      BY <2>1, <3>1, <3>2 DEF Reached
  <2> QED
    BY <2>2, <2>3
<1>4. CASE Finish(k, TRUE) /\ UNCHANGED login
  <2>1. worker'[k].pc = "idle" /\ \A j \in Kinds \ {k} : worker'[j] = worker[j]
    BY <1>1, <1>4, WorkerGoes DEF MovesTo
  <2>2. ASSUME NothingLost', NEW j \in Kinds
        PROVE  Reached(j)'
    BY <1>1, <1>2, <1>4, <2>1, <2>2, ReachedKept DEF BehindTheCheck, At
  <2> QED
    BY <2>2
<1> QED
  BY <1>3, <1>4 DEF Build

(* A failure of the API server ends the Reconcile, or leads to its mark. *)
LEMMA ApiFailsReached ==
    ASSUME OperatorInv, NEW k \in Kinds, ObjectApiFails(k)
    PROVE  NothingLost' => \A j \in Kinds : Reached(j)'
<1>1. /\ ApiFails(k) /\ DirectoryKept /\ WorkersSound
      /\ login' = [login EXCEPT ![k] = IF worker'[k].pc = "idle" THEN None ELSE @]
      /\ login \in [Kinds -> AdminPasswords \cup {None}]
  BY QuietKept DEF ObjectApiFails, ClosedWhenDone, OperatorInv, ObjectInv, ReconcilerSound
<1>2. MovesTo(k, "idle") \/ MovesTo(k, "mark")
  <2>1. \E requeue : Finish(k, requeue) \/ MarkFailed(k, requeue)
    BY <1>1 DEF ApiFails
  <2> QED
    BY <1>1, <2>1, WorkerGoes
<1>3. /\ login'[k] \in {login[k], None}
      /\ \A j \in Kinds \ {k} : login'[j] = login[j] /\ worker'[j] = worker[j]
      /\ worker'[k].pc \in {"idle", "mark"}
  BY <1>1, <1>2 DEF MovesTo
<1>4. ASSUME NothingLost', NEW j \in Kinds
      PROVE  Reached(j)'
  BY <1>1, <1>3, <1>4, ReachedKept DEF BehindTheCheck, At
<1> QED
  BY <1>4

(* A worker takes a key. *)
LEMMA TakeReached ==
    ASSUME OperatorInv, NEW k \in Kinds, NEW o \in Objects, Take(k, o)
    PROVE  NothingLost' => \A j \in Kinds : Reached(j)'
<1>1. DirectoryKept /\ UNCHANGED login /\ WorkersSound /\ Get(k, o)
  BY QuietKept DEF Take, OperatorInv, ObjectInv, ReconcilerSound
<1>2. /\ worker'[k].pc \notin {"resolveParent", "getDistinguishedName"}
      /\ \A j \in Kinds \ {k} : worker'[j] = worker[j]
  <2>1. CASE UNCHANGED worker
    BY <1>1, <2>1 DEF Get, At
  <2>2. CASE worker' = [worker EXCEPT ![k] =
               [Idle EXCEPT !.key = o, !.obj = cache[o], !.pc = FirstStep(cache[o])]]
    BY <1>1, <2>2 DEF WorkersSound, Idle, FirstStep
  <2> QED
    BY <1>1, <2>1, <2>2 DEF Get
<1>3. ASSUME NothingLost', NEW j \in Kinds
      PROVE  Reached(j)'
  BY <1>1, <1>2, <1>3, ReachedKept DEF BehindTheCheck, At
<1> QED
  BY <1>3

(* The process starts with nobody behind the check. *)
LEMMA RestartsReached ==
    ASSUME ProcessRestarts
    PROVE  \A k \in Kinds : Reached(k)'
<1>1. \A k \in Kinds : worker'[k].pc = "idle" /\ login'[k] = None
  BY IdleSound DEF ProcessRestarts, ProcessStarts, NoLogin
<1> QED
  BY <1>1 DEF Reached, BehindTheCheck, At

-----------------------------------------------------------------------------
(* The specification.                                                      *)

LEMMA OperatorInitSound ==
    ASSUME OperatorInit
    PROVE  OperatorInv
<1>1. ObjectInv
  BY ObjectInitSound DEF OperatorInit
<1>2. DP!Init
  BY SameClusterSteps DEF OperatorInit
<1>3. DP!DirectoryInv
  BY <1>2, SameAssumptions, DP!InitDirectoryInv DEF DP!InitDirectoryInv
<1>4. Informed
  BY <1>2 DEF OperatorInit, Informed, Seen, DP!Init, DP!Empty, DP!Resources
<1>5. login \in [Kinds -> AdminPasswords \cup {None}] /\ \A k \in Kinds : login[k] = None
  BY DEF OperatorInit, NoLogin
<1>6. \A k \in Kinds : Reached(k)
  BY <1>5, IdleSound DEF OperatorInit, Init, Reached, BehindTheCheck, At
<1> QED
  BY <1>1, <1>3, <1>4, <1>5, <1>6 DEF OperatorInv

(* Steps of the objects, their clients and slapd. *)
LEMMA RunsKeeps ==
    ASSUME OperatorInv, NEW k \in Kinds, ObjectStep(k) \/ Build(k) \/ Served(k) \/ Refused(k)
    PROVE  OperatorInv'
<1>1. UNCHANGED directoryVars /\ DirectoryKept /\ UNCHANGED directory
  <2>1. UNCHANGED directory
    BY DEF ObjectStep, Build, Served, Refused, ClientRequest, Reconcile, AddFinalizer,
       ResolveReferences, ResolveDirectory, ResolveParent, GetDistinguishedName, DeleteEntry,
       RemoveFinalizer, SetOwner, MapToEntry, CreateOrUpdateEntry, Mark, environment
  <2> QED
    BY <2>1, QuietKept DEF ObjectStep, Build, Served, Refused, OperatorInv
<1>2. ObjectInv'
  BY ReconcileKeeps, BuildKeeps, RefusedKeeps, ObjectNextSound
     DEF ObjectStep, Served, Next, OperatorInv
<1>3. login' \in [Kinds -> AdminPasswords \cup {None}]
  <2>1. CASE ObjectStep(k)
    BY <2>1 DEF ObjectStep, ClosedWhenDone, OperatorInv
  <2>2. CASE Build(k)
    <3>1. directoryCache["secret"] # None => directoryCache["secret"].password \in AdminPasswords
      BY DEF OperatorInv, DP!DirectoryInv, DP!TypeOK, DP!Cluster, DP!Secret
    <3> QED
      BY <2>2, <3>1 DEF Build, OperatorInv
  <2>3. CASE Served(k) \/ Refused(k)
    BY <2>3 DEF Served, Refused, OperatorInv
  <2> QED
    BY <2>1, <2>2, <2>3
<1>4. NothingLost' => \A j \in Kinds : Reached(j)'
  <2>1. CASE Served(k) \/ Refused(k)
    BY <1>1, <2>1, StillReached DEF Served, Refused, ClientRequest
  <2> QED
    BY <2>1, ObjectStepReached, BuildReached
<1> QED
  BY <1>1, <1>2, <1>3, <1>4 DEF OperatorInv, DirectoryKept, Informed, directoryVars

LEMMA FailureKeeps ==
    ASSUME OperatorInv, NEW k \in Kinds, ObjectApiFails(k) \/ RequestLost(k)
    PROVE  OperatorInv'
<1>1. UNCHANGED <<directoryVars, directory>>
  BY DEF ObjectApiFails, ApiFails, RequestLost, ClientFails, environment
<1>2. DirectoryKept
  BY <1>1, QuietKept DEF OperatorInv
<1>3. ObjectInv'
  BY ObjectNextSound DEF ObjectApiFails, RequestLost, Next, Environment, OperatorInv
<1>4. login' \in [Kinds -> AdminPasswords \cup {None}]
  BY DEF ObjectApiFails, ClosedWhenDone, RequestLost, OperatorInv
<1>5. NothingLost' => \A j \in Kinds : Reached(j)'
  <2>1. CASE RequestLost(k)
    BY <1>2, <2>1, StillReached DEF RequestLost, ClientFails
  <2> QED
    BY <2>1, ApiFailsReached
<1> QED
  BY <1>1, <1>2, <1>3, <1>4, <1>5 DEF OperatorInv, DirectoryKept, Informed, directoryVars

LEMMA AsideOfTheDirectoryKeeps ==
    ASSUME OperatorInv, NEW o \in Objects,
           Receive(o) \/ Collected(o) \/ UserActs(o) \/ ResyncObject(o)
    PROVE  OperatorInv'
<1>1. UNCHANGED <<directoryVars, login, worker, directory>>
  BY DEF Receive, Sync, Collected, UserActs, Users, Create, Edit, Delete, ResyncObject, environment
<1>2. DirectoryKept
  BY <1>1, QuietKept DEF OperatorInv
<1>3. ObjectInv'
  BY CollectedKeeps, ResyncObjectKeeps, ObjectNextSound
     DEF Receive, UserActs, Next, Environment, OperatorInv
<1>4. NothingLost' => \A j \in Kinds : Reached(j)'
  BY <1>1, <1>2, StillReached
<1> QED
  BY <1>1, <1>2, <1>3, <1>4 DEF OperatorInv, DirectoryKept, Informed, directoryVars

LEMMA TakeKeeps ==
    ASSUME OperatorInv, NEW k \in Kinds, NEW o \in Objects, Take(k, o)
    PROVE  OperatorInv'
<1>1. UNCHANGED <<directoryVars, login, directory>>
  BY DEF Take, Get, environment
<1>2. DirectoryKept
  BY <1>1, QuietKept DEF OperatorInv
<1>3. ObjectInv'
  BY ObjectNextSound DEF Take, Next, OperatorInv
<1>4. NothingLost' => \A j \in Kinds : Reached(j)'
  BY TakeReached
<1> QED
  BY <1>1, <1>2, <1>3, <1>4 DEF OperatorInv, DirectoryKept, Informed, directoryVars

(* Steps of the directory reconciler and what surrounds it. *)
LEMMA DirectoryStepKeeps ==
    ASSUME OperatorInv,
           \/ DirectoryReconciles \/ InformersCatchUp \/ DependentsCollected \/ PodStarts
           \/ CertificateIssued \/ DirectoryDisturbed
    PROVE  OperatorInv'
<1>1. DirectoryKept
  BY DirectoryStepKept DEF OperatorInv
<1>2. ObjectsSee
  BY DEF DirectoryReconciles, InformersCatchUp, DependentsCollected, PodStarts,
     CertificateIssued, DirectoryDisturbed
<1>3. ObjectInv' /\ Informed'
  BY <1>1, <1>2, ObjectsSeeKeeps DEF OperatorInv, DirectoryKept, ObjectsSee, Informed, Seen
<1>4. NothingLost' => \A j \in Kinds : Reached(j)'
  BY <1>1, <1>2, StillReached DEF ObjectsSee
<1> QED
  BY <1>1, <1>2, <1>3, <1>4 DEF OperatorInv, DirectoryKept, ObjectsSee

LEMMA ResyncDirectoryKeeps ==
    ASSUME OperatorInv, ResyncDirectory
    PROVE  OperatorInv'
<1>1. DirectoryKept
  BY DirectoryStepKept DEF OperatorInv
<1>2. UNCHANGED <<vars, login, directoryCache>>
  BY DEF ResyncDirectory
<1>3. ObjectInv'
  BY <1>2, ObjectNextSound DEF OperatorInv
<1>4. UNCHANGED <<worker, directory>>
  BY <1>2 DEF vars, environment
<1>5. NothingLost' => \A j \in Kinds : Reached(j)'
  BY <1>1, <1>2, <1>4, StillReached
<1> QED
  BY <1>1, <1>2, <1>3, <1>4, <1>5 DEF OperatorInv, DirectoryKept, Informed

LEMMA RestartsKeep ==
    ASSUME OperatorInv, OperatorCrash \/ \E k \in Kinds : OperatorPanic(k)
    PROVE  OperatorInv'
<1>1. DirectoryKept
  BY DirectoryStepKept DEF OperatorInv
<1>2. ProcessRestarts
  BY DEF OperatorCrash, OperatorPanic
<1>3. ObjectInv' /\ Informed'
  BY <1>1, <1>2, RestartsKeeps DEF OperatorInv, DirectoryKept, ProcessRestarts, Informed, Seen
<1>4. login' \in [Kinds -> AdminPasswords \cup {None}]
  BY <1>2 DEF ProcessRestarts, NoLogin
<1> QED
  BY <1>1, <1>2, <1>3, <1>4, RestartsReached DEF OperatorInv, DirectoryKept

LEMMA StutterKeeps ==
    ASSUME OperatorInv, UNCHANGED operatorVars
    PROVE  OperatorInv'
<1>1. UNCHANGED <<vars, directoryVars, login>>
  BY DEF operatorVars
<1>2. UNCHANGED <<worker, directory, directoryCache>>
  BY <1>1 DEF vars, environment, directoryVars
<1>3. DirectoryKept /\ ObjectInv'
  BY <1>1, QuietKept, ObjectNextSound DEF OperatorInv
<1>4. NothingLost' => \A j \in Kinds : Reached(j)'
  BY <1>1, <1>2, <1>3, StillReached
<1> QED
  BY <1>1, <1>2, <1>3, <1>4 DEF OperatorInv, DirectoryKept, Informed

LEMMA OperatorNextSound ==
    ASSUME OperatorInv, [OperatorNext]_operatorVars
    PROVE  OperatorInv'
<1>1. CASE UNCHANGED operatorVars
  BY <1>1, StutterKeeps
<1>2. CASE OperatorNext
  BY <1>2, RunsKeeps, TakeKeeps, AsideOfTheDirectoryKeeps, DirectoryStepKeeps,
     ResyncDirectoryKeeps, RestartsKeep, FailureKeeps
     DEF OperatorNext, Runs, Informers, Collector
<1> QED
  BY <1>1, <1>2

LEMMA OperatorInvHolds == OperatorSpec => []OperatorInv
<1>1. OperatorInit => OperatorInv
  BY OperatorInitSound
<1>2. OperatorInv /\ [OperatorNext]_operatorVars => OperatorInv'
  BY OperatorNextSound
<1> QED
  BY <1>1, <1>2, PTL DEF OperatorSpec

(* Ready can be trusted (lines 136-160, 206-209): wherever the object        *)
(* reconcilers have a client, slapd serves it and takes its password, for    *)
(* any objects, specs and passwords and any number of events, as long as     *)
(* nothing the directory reconciler made was lost, and however stale the     *)
(* directory and the secret are the client was built from.                   *)
THEOREM ReadyCanBeTrusted == OperatorSpec => []Trusted
<1>1. OperatorInv => Trusted
  <2>1. SUFFICES ASSUME OperatorInv, NothingLost, NEW k \in Kinds, login[k] # None
                 PROVE  Serving /\ login[k] = volume
    BY DEF Trusted, NothingLost
  <2>2. DP!Started /\ login[k] = volume
    BY <2>1 DEF OperatorInv, Reached, BehindTheCheck
  <2> QED
    BY <2>2 DEF Serving, DP!Started, DP!RunningIn
<1> QED
  BY <1>1, OperatorInvHolds, PTL

(* Nothing is left behind unnoticed in the operator as a whole either: what  *)
(* is proved of the object reconcilers alone, in an environment that makes   *)
(* the directory ready or not as it likes, holds with the directory          *)
(* reconciler in the same process, a slapd that refuses clients with a stale *)
(* password, builds of clients that fail, and panics that stop all           *)
(* controllers.  An entry without an object was released knowingly (lines    *)
(* 97, 221) or under a name the object used to have.                         *)
THEOREM NothingLeaksAtAll == OperatorSpec => []EntriesTraced
<1>1. OperatorInv => EntriesTraced
  BY DEF OperatorInv, ObjectInv
<1> QED
  BY <1>1, OperatorInvHolds, PTL

-----------------------------------------------------------------------------
(***************************************************************************)
(* What else is proved of the object reconcilers.  Most of what the        *)
(* operator does is a step of theirs, or leaves them alone; but slapd      *)
(* refuses clients, the build of a client fails, the garbage collector     *)
(* knows the directory before the informers do, and resyncs never end.     *)
(***************************************************************************)

Unaffected == UNCHANGED <<dit, call, kubernetes, worker, used, history>>

(* What the operator does beside the steps of the object reconcilers. *)
SlapdRefuses(k) ==
    /\ call[k].step # "idle" /\ Fail(k)
    /\ UNCHANGED <<dit, kubernetes, worker, used, history>>

ReturnsEarly(k) ==
    /\ At(k, "getDistinguishedName") /\ Finish(k, TRUE)
    /\ UNCHANGED <<dit, call, store, cache, watch, used, history>>

Removes(o) ==
    /\ store[o] # None /\ Publish(o, Left(store[o]))
    /\ UNCHANGED <<dit, call, cache, queue, worker, used, history>>

Enqueues(o) ==
    /\ queue' = queue \cup {o}
    /\ UNCHANGED <<dit, call, store, cache, watch, worker, used, history>>

ObjectsStep ==
    \/ Next
    \/ \E k \in Kinds : SlapdRefuses(k) \/ ReturnsEarly(k)
    \/ \E o \in Objects : Removes(o) \/ Enqueues(o)
    \/ ProcessStarts /\ UNCHANGED used
    \/ Unaffected

LEMMA OperatorSteps ==
    ASSUME [OperatorNext]_operatorVars
    PROVE  ObjectsStep
<1>1. ASSUME NEW k \in Kinds, Runs(k)
      PROVE  ObjectsStep
  <2>1. CASE ObjectStep(k) \/ Served(k)
    BY <2>1 DEF ObjectStep, Served, Next, ObjectsStep
  <2>2. CASE Build(k)
    BY <2>2 DEF Build, ObjectsStep, ReturnsEarly, Unaffected, clientVars, kubernetes, environment
  <2>3. CASE Refused(k)
    BY <2>3 DEF Refused, ObjectsStep, SlapdRefuses, environment
  <2>4. CASE OperatorPanic(k)
    BY <2>4 DEF OperatorPanic, ProcessRestarts, ObjectsStep
  <2> QED
    BY <1>1, <2>1, <2>2, <2>3, <2>4 DEF Runs
<1>2. ASSUME NEW k \in Kinds, NEW o \in Objects, Take(k, o)
      PROVE  ObjectsStep
  BY <1>2 DEF Take, Next, ObjectsStep
<1>3. ASSUME NEW o \in Objects, Receive(o) \/ UserActs(o)
      PROVE  ObjectsStep
  BY <1>3 DEF Receive, UserActs, Next, Environment, ObjectsStep
<1>4. ASSUME NEW o \in Objects, Collected(o)
      PROVE  ObjectsStep
  BY <1>4 DEF Collected, Orphaned, Removes, ObjectsStep, clientVars, environment
<1>5. ASSUME NEW o \in Objects, ResyncObject(o)
      PROVE  ObjectsStep
  BY <1>5 DEF ResyncObject, HandOver, Enqueues, ObjectsStep, clientVars, environment
<1>6. CASE \/ DirectoryReconciles \/ InformersCatchUp \/ DependentsCollected \/ PodStarts
           \/ CertificateIssued \/ DirectoryDisturbed
  <2>1. ObjectsSee
    BY <1>6 DEF DirectoryReconciles, InformersCatchUp, DependentsCollected, PodStarts,
       CertificateIssued, DirectoryDisturbed
  <2> QED
    BY <2>1 DEF ObjectsSee, Unaffected, ObjectsStep, clientVars
<1>7. CASE ResyncDirectory \/ UNCHANGED operatorVars
  BY <1>7 DEF ResyncDirectory, operatorVars, vars, Unaffected, ObjectsStep, clientVars, environment
<1>8. CASE OperatorCrash
  BY <1>8 DEF OperatorCrash, ProcessRestarts, ObjectsStep
<1>9. ASSUME NEW k \in Kinds, ObjectApiFails(k) \/ RequestLost(k)
      PROVE  ObjectsStep
  BY <1>9 DEF ObjectApiFails, RequestLost, Next, Environment, ObjectsStep
<1> QED
  BY <1>1, <1>2, <1>3, <1>4, <1>5, <1>6, <1>7, <1>8, <1>9
     DEF OperatorNext, Informers, Collector

(* Names. *)
LEMMA ObjectsStepHome ==
    ASSUME NEW home, StayAt(home), HomeInv(home), ObjectInv, ObjectsStep
    PROVE  HomeInv(home)'
<1>1. CASE Next
  BY <1>1, NextHome
<1>2. ASSUME NEW k \in Kinds, ReturnsEarly(k)
      PROVE  HomeInv(home)'
  BY <1>2, EndHome DEF ReturnsEarly, ObjectInv
<1>3. CASE ProcessStarts
  <2>1. \A k \in Kinds : worker'[k].pc = "idle"
    BY <1>3, IdleSound DEF ProcessStarts
  <2> QED
    BY <1>3, <2>1 DEF HomeInv, NamedFor, ProcessStarts, history
<1>4. CASE UNCHANGED <<worker, history>>
  BY <1>4 DEF HomeInv, history
<1> QED
  BY <1>1, <1>2, <1>3, <1>4 DEF ObjectsStep, SlapdRefuses, Removes, Enqueues, Unaffected

(* And where no object is renamed or moved, every entry in slapd belongs to  *)
(* an object that will still delete it, or was there when its object was     *)
(* released after a failed DeleteEntry or with an unresolvable reference     *)
(* (lines 92-108, 218-236), also with clients refused or not built at all.   *)
THEOREM NothingElseStaysAtAll == NothingMoves => (OperatorSpec => []EntriesClaimed)
<1> SUFFICES ASSUME NEW home, StayAt(home)
             PROVE  OperatorSpec => []EntriesClaimed
  BY DEF NothingMoves
<1>1. OperatorInit => HomeInv(home)
  BY InitHome DEF OperatorInit
<1>2. OperatorInv /\ HomeInv(home) /\ [OperatorNext]_operatorVars => HomeInv(home)'
  BY OperatorSteps, ObjectsStepHome DEF OperatorInv
<1>3. OperatorInv /\ HomeInv(home) => EntriesClaimed
  BY DEF OperatorInv, ObjectInv, HomeInv, EntriesTraced, EntriesClaimed
<1> QED
  BY <1>1, <1>2, <1>3, OperatorInvHolds, PTL DEF OperatorSpec

(* Finalizers. *)
LEMMA ObjectsStepPin ==
    ASSUME ObjectInv, ObjectInv', PinInv, ObjectsStep
    PROVE  PinInv'
<1>1. CASE Next
  BY <1>1, NextPin
<1>2. ASSUME NEW k \in Kinds, ReturnsEarly(k)
      PROVE  PinInv'
  <2>1. UNCHANGED <<store, cache, watch, blind, used, claims>> /\ worker[k].pc # "idle"
    BY <1>2 DEF ReturnsEarly, At, history
  <2>2. Mild
    BY <2>1, StaysMild
  <2> QED
    BY <1>2, <2>1, <2>2, EndPin DEF ReturnsEarly
<1>3. ASSUME NEW o \in Objects, Removes(o)
      PROVE  PinInv'
  <2>1. /\ UNCHANGED <<worker, claims, cache, blind, used>>
        /\ store[o] # None /\ Publish(o, Left(store[o]))
    BY <1>3 DEF Removes, history
  <2>2. used["create"] <= used'["create"]
    BY <2>1 DEF ObjectInv, ReconcilerSound, EnvironmentSound, Events
  <2>3. Mild
    BY <2>1, <2>2, LeftGentle, PublishMild
  <2> QED
    BY <2>1, <2>3, MildPinAside
<1>4. CASE ProcessStarts /\ UNCHANGED used
  BY <1>4, ProcessStartsPin
<1>5. CASE \/ \E k \in Kinds : SlapdRefuses(k)
           \/ \E o \in Objects : Enqueues(o)
           \/ Unaffected
  BY <1>5, UnmovedPin DEF SlapdRefuses, Enqueues, Unaffected, kubernetes, history
<1> QED
  BY <1>1, <1>2, <1>3, <1>4, <1>5 DEF ObjectsStep

(* Statuses. *)
LEMMA SlapdRefusesReady ==
    ASSUME ObjectInv, ReadyInv, NEW k \in Kinds, SlapdRefuses(k)
    PROVE  ReadyInv'
<1>1. UNCHANGED <<dit, store, watch, queue, worker>>
  BY DEF SlapdRefuses, kubernetes
<1>2. /\ call'[k].step = "returned" /\ ~call'[k].ok /\ call'[k].entry = call[k].entry
      /\ \A j \in Kinds \ {k} : call'[j] = call[j]
  BY DEF SlapdRefuses, Fail, Return, Becomes, ObjectInv, ClientInv, ClientTypeOK
<1>3. ASSUME NEW j \in Kinds
      PROVE  Placed(j)' /\ DeletesBelow(j)'
  BY <1>1, <1>2 DEF ReadyInv, Placed, DeletesBelow
<1>4. ASSUME NEW j \in Kinds
      PROVE  InStep(j)'
  <2>1. InStep(j) /\ UNCHANGED dit
    BY <1>1 DEF ReadyInv
  <2>2. \A spec : Asks(j, spec) => Asks(j, spec)'
    BY <1>2 DEF Asks
  <2>3. Found(j) => Found(j)'
    BY <1>1, <1>2 DEF Found, Entries
  <2> QED
    BY <1>1, <2>1, <2>2, <2>3 DEF InStep, Current, Right, Entries
<1>5. \A o \in Objects : ReadyTrue(o)'
  BY <1>1 DEF ReadyInv, ReadyTrue, Current, IsReady, Right, Entries
<1> QED
  BY <1>3, <1>4, <1>5 DEF ReadyInv

LEMMA ObjectsStepReady ==
    ASSUME OwnPlaces, SecretsKept, ObjectInv, ObjectInv', LastIsStored, ReadyInv, ObjectsStep,
           FailuresRecorded \/ Unaffected
    PROVE  ReadyInv'
<1>1. CASE Next /\ FailuresRecorded
  BY <1>1, NextReady
<1>2. ASSUME NEW k \in Kinds, ReturnsEarly(k)
      PROVE  ReadyInv'
  <2>1. worker[k].pc # "idle" /\ UNCHANGED <<dit, call, store, watch>> /\ Finish(k, TRUE)
    BY <1>2 DEF ReturnsEarly, At
  <2> QED
    BY <2>1, ActsUnwritten, RetriedReady
<1>3. ASSUME NEW o \in Objects, Removes(o)
      PROVE  ReadyInv'
  <2>1. \A x \in Objects : Undisturbed(x)
    BY <1>3, PublishUndisturbing DEF Removes
  <2> QED
    BY <1>3, <2>1, AsideReady DEF Removes
<1>4. ASSUME NEW o \in Objects, Enqueues(o)
      PROVE  ReadyInv'
  <2>1. \A x \in Objects : Undisturbed(x)
    BY <1>4 DEF Enqueues, Undisturbed, Current
  <2> QED
    BY <1>4, <2>1, AsideReady DEF Enqueues
<1>5. CASE ProcessStarts
  BY <1>5, ProcessStartsReady
<1>6. CASE Unaffected
  <2>1. UNCHANGED <<dit, call, worker, store, watch, queue>>
    BY <1>6 DEF Unaffected, kubernetes
  <2> QED
    BY <2>1, WriteUndisturbing, AsideReady
<1> QED
  BY <1>1, <1>2, <1>3, <1>4, <1>5, <1>6, SlapdRefusesReady DEF ObjectsStep

(* The ownership of entries. *)
LEMMA ObjectsStepOwns ==
    ASSUME ObjectInv, PinInv, CreatedWithin, blind = {}, ObjectsStep
    PROVE  OwnershipStep
<1>1. ASSUME UNCHANGED <<dit, claims, abandoned, outgrown, store>>
      PROVE  OwnershipStep
  BY <1>1, AsideOwns DEF HoldStays, Holds
<1>2. CASE Next
  BY <1>2, NextOwns
<1>3. ASSUME NEW o \in Objects, Removes(o)
      PROVE  OwnershipStep
  BY <1>3, LeftOwns DEF Removes, history
<1>4. CASE \/ \E k \in Kinds : SlapdRefuses(k) \/ ReturnsEarly(k)
           \/ \E o \in Objects : Enqueues(o)
           \/ ProcessStarts \/ Unaffected
  BY <1>1, <1>4 DEF SlapdRefuses, ReturnsEarly, Enqueues, ProcessStarts, Unaffected,
     kubernetes, history
<1> QED
  BY <1>2, <1>3, <1>4 DEF ObjectsStep

LEMMA ObjectsStepCreates ==
    ASSUME ObjectInv, CreatedWithin, ObjectsStep
    PROVE  CreatedWithin'
<1>1. CASE Next
  BY <1>1, CreatedWithinNext DEF ObjectInv, ReconcilerSound, EnvironmentSound
<1>2. CASE UNCHANGED used
  BY <1>2 DEF CreatedWithin
<1> QED
  BY <1>1, <1>2 DEF ObjectsStep, SlapdRefuses, ReturnsEarly, Removes, Enqueues, Unaffected

(* Informers that are one event of an object behind at most. *)
LEMMA ObjectsStepNear ==
    ASSUME MaxLag <= 1, ObjectInv, ObjectInv', NearInv, ObjectsStep
    PROVE  NearInv'
<1>1. CASE Next
  BY <1>1, NearNext
<1>2. ASSUME NEW k \in Kinds, ReturnsEarly(k)
      PROVE  NearInv'
  <2>1. UNCHANGED <<store, cache, watch>> /\ worker[k].pc # "idle" /\ blind' = {}
    BY <1>2 DEF ReturnsEarly, At, history, NearInv
  <2>2. \A o \in Objects : Follows(o) /\ KeepsLeaving(o)
    BY <2>1, AllStay
  <2> QED
    BY <1>2, <2>1, <2>2, EndNear DEF ReturnsEarly
<1>3. ASSUME NEW o \in Objects, Removes(o)
      PROVE  NearInv'
  <2>1. /\ UNCHANGED <<worker, cache>> /\ blind' = {}
        /\ store[o] # None /\ Publish(o, Left(store[o]))
    BY <1>3 DEF Removes, history, NearInv
  <2>2. /\ Succeeds(store[o], Left(store[o]))
        /\ LeavingOrBare(store[o]) => LeavingOrBare(Left(store[o]))
    BY <2>1, LeftSucceeds DEF NearInv
  <2>3. \A x \in Objects : Follows(x) /\ KeepsLeaving(x)
    BY <2>1, <2>2, PublishFollows
  <2> QED
    BY <2>1, <2>3, NearKeepsAside
<1>4. CASE \/ \E k \in Kinds : SlapdRefuses(k)
           \/ \E o \in Objects : Enqueues(o)
           \/ ProcessStarts \/ Unaffected
  <2>1. blind' = {}
    BY <1>4 DEF SlapdRefuses, Enqueues, ProcessStarts, Unaffected, history, NearInv
  <2>2. UNCHANGED <<store, cache, watch, worker>> \/ ProcessStarts
    BY <1>4 DEF SlapdRefuses, Enqueues, Unaffected, kubernetes
  <2> QED
    BY <2>1, <2>2, AsideNear
<1> QED
  BY <1>1, <1>2, <1>3, <1>4 DEF ObjectsStep

(* A Ready object has its entry. *)
LEMMA SlapdRefusesHas ==
    ASSUME CloseInv, CloseInv', NEW home, HasInv(home), NEW k \in Kinds, SlapdRefuses(k)
    PROVE  HasInv(home)'
<1>1. UNCHANGED <<dit, store, cache, watch, queue, worker, used, claims>> /\ ObjectInv
  BY DEF SlapdRefuses, kubernetes, history, CloseInv
<1>2. /\ call'[k].step = "returned" /\ ~call'[k].ok
      /\ \A j \in Kinds \ {k} : call'[j] = call[j]
  BY <1>1 DEF SlapdRefuses, Fail, Return, Becomes, ObjectInv, ClientInv, ClientTypeOK
<1>3. Passing /\ (\A o \in Objects : Alike(o)) /\ Only(None, home)
  BY <1>1, Silent
<1>4. \A o \in Objects : Kept(o, home) /\ Undisturbed(o)
  BY <1>1, UnwrittenKept DEF Undisturbed, Current
<1>5. ASSUME NEW j \in Kinds \ {k}
      PROVE  DeletesUnder(j)' /\ \E w : worker'[j] = w /\ Trusts(j, w, home)'
  <2>1. worker[j].pc # "idle" => worker[j].key \in Objects
    BY <1>1, AtWork DEF ObjectInv
  <2> QED
    BY <1>1, <1>2, <1>3, <1>4, <2>1, StillHas
<1>6. PICK w : worker[k] = w /\ Trusts(k, w, home)
  BY DEF HasInv
<1>7. w.pc \in Calling
  BY <1>1, <1>6 DEF ObjectInv, Linked, SlapdRefuses
<1>8. Found(k)' /\ DeletesUnder(k)'
  BY <1>2 DEF Found, DeletesUnder
<1>9. Trusts(k, w, home)'
  BY <1>1, <1>6, <1>7, <1>8 DEF Trusts, Calling, AtHome
<1>10. \A o \in Objects : DoneThere(o, home)'
  BY <1>1, <1>3, <1>4, StillDone DEF HasInv
<1>11. Known(home)'
  BY <1>3, KnownStays DEF HasInv, Only
<1> QED
  BY <1>1, <1>5, <1>6, <1>8, <1>9, <1>10, <1>11 DEF HasInv

LEMMA ObjectsStepHas ==
    ASSUME MaxLag <= 1, CloseInv, CloseInv', NEW home, Homes(home), HasInv(home), ObjectsStep,
           FailuresRecorded \/ Unaffected
    PROVE  HasInv(home)'
<1>1. CASE Next /\ FailuresRecorded
  BY <1>1, NextHas
<1>2. ASSUME NEW k \in Kinds, ReturnsEarly(k)
      PROVE  HasInv(home)'
  <2>1. /\ worker[k].pc # "idle" /\ Finish(k, TRUE)
        /\ UNCHANGED <<dit, call, store, cache, watch, used, claims>>
    BY <1>2 DEF ReturnsEarly, At, history
  <2>2. Acts(k)
    BY <2>1, ActsUnwritten DEF CloseInv
  <2> QED
    BY <2>1, <2>2, Silent, RetriedHas
<1>3. ASSUME NEW o \in Objects, Removes(o)
      PROVE  HasInv(home)'
  <2>1. used["create"] <= used'["create"]
    BY <1>3, CloseFacts DEF Removes
  <2> QED
    BY <1>3, <2>1, LeftHas DEF Removes, history
<1>4. CASE Unaffected \/ \E o \in Objects : Enqueues(o)
  <2>1. UNCHANGED <<dit, call, worker, store, cache, watch, used, claims>>
    BY <1>4 DEF Unaffected, Enqueues, kubernetes, history
  <2>2. \A x \in Objects : Undisturbed(x)
    BY <1>4, <2>1 DEF Unaffected, Enqueues, kubernetes, Undisturbed, Current
  <2>3. used["create"] <= used'["create"]
    BY <2>1 DEF CloseInv, ObjectInv, ReconcilerSound, EnvironmentSound, Events
  <2> QED
    BY <2>1, <2>2, <2>3, ElsewhereHas
<1> QED
  BY <1>1, <1>2, <1>3, <1>4, SlapdRefusesHas, ProcessStartsHas DEF ObjectsStep

LEMMA OperatorPinHolds == OperatorSpec => [](ObjectInv /\ PinInv)
<1>1. OperatorInit => PinInv
  BY PinInit DEF OperatorInit
<1>2. (ObjectInv /\ ObjectInv' /\ PinInv /\ [OperatorNext]_operatorVars) => PinInv'
  BY OperatorSteps, ObjectsStepPin
<1>3. OperatorInv => ObjectInv
  BY DEF OperatorInv
<1> QED
  BY <1>1, <1>2, <1>3, OperatorInvHolds, PTL DEF OperatorSpec

(* In the operator as a whole, too, an object that may have an entry in      *)
(* slapd cannot disappear from the API server before its own reconciler has  *)
(* released it (lines 90, 98, 226, 271), although a panic of one controller  *)
(* stops the others between any two of their steps.                          *)
THEOREM FinalizerPinsAll == OperatorSpec => []PinnedByFinalizer
<1>1. PinInv => PinnedByFinalizer
  BY DEF PinInv
<1> QED
  BY <1>1, OperatorPinHolds, PTL

(* The operator implements the ownership of entries, with informers of       *)
(* objects that are one event behind at most: a slapd that is not there, or  *)
(* refuses the password of a former directory, makes requests fail and       *)
(* nothing worse (lines 206-226, 271).                                       *)
THEOREM OperatorOwns == (MaxLag <= 1) => (OperatorSpec => EntriesOwned)
<1>1. SUFFICES ASSUME MaxLag <= 1 PROVE OperatorSpec => EntriesOwned
  OBVIOUS
<1>2. OperatorInit => Ownership!Init /\ CreatedWithin /\ NearInv
  BY OwnershipInit, CreatedWithinInit, NearInit DEF OperatorInit
<1>3. (ObjectInv /\ CreatedWithin /\ [OperatorNext]_operatorVars) => CreatedWithin'
  BY OperatorSteps, ObjectsStepCreates
<1>4. (ObjectInv /\ ObjectInv' /\ NearInv /\ [OperatorNext]_operatorVars) => NearInv'
  BY <1>1, OperatorSteps, ObjectsStepNear
<1>5. (ObjectInv /\ PinInv /\ CreatedWithin /\ NearInv /\ [OperatorNext]_operatorVars)
         => [Ownership!Next]_(Ownership!vars)
  BY OperatorSteps, ObjectsStepOwns DEF OwnershipStep, NearInv
<1> QED
  BY <1>2, <1>3, <1>4, <1>5, OperatorPinHolds, PTL
     DEF OperatorSpec, EntriesOwned, Ownership!Spec

(* A step of nobody leaves the objects alone. *)
LEMMA StutterUnaffected ==
    ASSUME UNCHANGED operatorVars
    PROVE  Unaffected
BY DEF operatorVars, vars, Unaffected, clientVars, environment

(* The status is the truth in the operator as a whole: whenever the operator *)
(* is done with a Ready object at the top of the tree, slapd has its entry   *)
(* as the newest spec wants it, whatever the directory reconciler, its       *)
(* losses and restarts did to the requests in between (lines 206-291, 329).  *)
(* The hypotheses are those of ReadyIsTrue: objects do not share names, a    *)
(* secret keeps its password (no two secrets need have the same), and        *)
(* markFailed is not kept from writing its status by a failure of the API    *)
(* server, for it forgets that error and the failed upsert of a Ready object *)
(* is never told of nor tried again.                                         *)
THEOREM ReadyIsTrueOfAll ==
    OwnPlaces =>
        ((OperatorSpec /\ [][FailuresRecorded]_operatorVars /\ []SecretsKept)
         => []ReadyMeansConverged)
<1> SUFFICES ASSUME OwnPlaces
             PROVE  (OperatorSpec /\ [][FailuresRecorded]_operatorVars /\ []SecretsKept)
                    => []ReadyMeansConverged
  OBVIOUS
<1>1. OperatorInit => ReadyInv
  BY InitReady DEF OperatorInit
<1>2. (/\ ObjectInv /\ ObjectInv' /\ PinInv /\ SecretsKept /\ ReadyInv
       /\ [OperatorNext]_operatorVars /\ [FailuresRecorded]_operatorVars)
      => ReadyInv'
  BY OperatorSteps, StutterUnaffected, ObjectsStepReady DEF PinInv
<1>3. (SecretsKept /\ ObjectInv /\ ReadyInv) => ReadyMeansConverged
  BY ReadyInvConverged
<1> QED
  BY <1>1, <1>2, <1>3, OperatorPinHolds, PTL DEF OperatorSpec

(* And it is true of the children of a top entry: a Ready object that is not *)
(* leaving, nor its owner, has its entry (ldap_object.go:59), although a     *)
(* directory that goes takes parents and children along in any order (line   *)
(* 250), and slapd refuses requests while it is not there or has another     *)
(* password, in the middle of a cascading deletion for one                   *)
(* (client.go:327-354).  The hypotheses are those of ReadyEntryThere.        *)
THEOREM ReadyEntryThereOfAll ==
    (TwoLevels /\ MaxLag <= 1) =>
        ((OperatorSpec /\ [][FailuresRecorded]_operatorVars) => []ReadyHasEntry)
<1> SUFFICES ASSUME MaxLag <= 1, NEW home, Homes(home)
             PROVE  (OperatorSpec /\ [][FailuresRecorded]_operatorVars) => []ReadyHasEntry
  BY DEF TwoLevels
<1>1. OperatorInit => NearInv /\ HasInv(home)
  BY NearInit, InitHas DEF OperatorInit
<1>2. (ObjectInv /\ ObjectInv' /\ NearInv /\ [OperatorNext]_operatorVars) => NearInv'
  BY OperatorSteps, ObjectsStepNear
<1>3. (/\ ObjectInv /\ ObjectInv' /\ PinInv /\ PinInv' /\ NearInv /\ NearInv' /\ HasInv(home)
       /\ [OperatorNext]_operatorVars /\ [FailuresRecorded]_operatorVars)
      => HasInv(home)'
  BY OperatorSteps, StutterUnaffected, ObjectsStepHas DEF CloseInv
<1>4. (ObjectInv /\ PinInv /\ NearInv /\ HasInv(home)) => ReadyHasEntry
  BY HasInvReady DEF CloseInv
<1> QED
  BY <1>1, <1>2, <1>3, <1>4, OperatorPinHolds, PTL DEF OperatorSpec

=============================================================================
