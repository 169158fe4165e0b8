------------------------- MODULE LDAPObject_proofs -------------------------
(***************************************************************************)
(* What the object reconciler keeps true, for all objects, specs, names    *)
(* and passwords, any number of events and failures and any delay of the   *)
(* informers: first its types and claims, then that finalizers pin objects *)
(* and that it implements the ownership of entries.                        *)
(***************************************************************************)
EXTENDS LDAPObject, LDAPClient_proofs

(* The versions there can be of an object. *)
VersionsOf(o) == {v \in Version : v.spec \in Specs[o]}

(* Steps that have the distinguished name, or its beginning. *)
Composed == {"getDistinguishedName", "deleteEntry", "setOwner", "mapToEntry", "upsertEntry"}

(* Steps before the name is composed, from which it is not yet clear that it *)
(* will be.                                                                  *)
Nameless == {"addFinalizer", "resolveReferences"}

(* DeleteEntry has reported success to the worker. *)
Emptied(w) == w.pc = "removeFinalizer" /\ w.dn # <<>> /\ ~w.failed

(* A worker of kind k that can be. *)
Sound(k, w) ==
    /\ w \in Worker
    /\ w.pc = "idle" => w = Idle
    /\ w.pc # "idle" =>
          w.key \in Objects /\ KindOf[w.key] = k /\ w.obj \in VersionsOf(w.key)
    /\ w.pc \in Composed => w.dn \in DN /\ Head(w.dn).kind = k
    /\ w.pc \in Nameless => w.dn = <<>>

WorkersSound == worker \in [Kinds -> Worker] /\ \A k \in Kinds : Sound(k, worker[k])

ApiSound ==
    /\ store \in [Objects -> Version \cup {None}]
    /\ cache \in [Objects -> Version \cup {None}]
    /\ watch \in [Objects -> Seq(Version \cup {None})]
    /\ queue \subseteq Objects
    /\ \A o \in Objects : /\ store[o] \in VersionsOf(o) \cup {None}
                          /\ cache[o] \in VersionsOf(o) \cup {None}
                          /\ watch[o] \in Seq(VersionsOf(o) \cup {None})

EnvironmentSound ==
    /\ directory \in DirectoryVersion \cup {None}
    /\ secret \in [SecretRefs -> Passwords \cup {None}]
    /\ used \in [Events -> Nat]

ReconcilerSound == ApiSound /\ WorkersSound /\ EnvironmentSound

-----------------------------------------------------------------------------
(* The API server.                                                         *)

(* What has a version is no None. *)
LEMMA VersionParts ==
    ASSUME NEW o \in Objects, NEW v \in VersionsOf(o)
    PROVE  /\ v \in Version /\ v # None /\ v.spec \in Specs[o] /\ v.spec \in ObjectSpec
           /\ v.uid \in Nat /\ v.generation \in Nat
           /\ v.deleting \in BOOLEAN /\ v.finalizer \in BOOLEAN
           /\ v.owner \in Owner \cup {None} /\ v.status \in Status
BY NothingAssumption DEF VersionsOf, Version

LEMMA Published ==
    ASSUME ApiSound, NEW o \in Objects, NEW v \in VersionsOf(o) \cup {None}, Publish(o, v)
    PROVE  /\ store' \in [Objects -> Version \cup {None}] /\ store'[o] = v
           /\ watch' \in [Objects -> Seq(Version \cup {None})]
           /\ watch'[o] = Append(watch[o], v)
           /\ \A x \in Objects \ {o} : store'[x] = store[x] /\ watch'[x] = watch[x]
           /\ \A x \in Objects : /\ store'[x] \in VersionsOf(x) \cup {None}
                                 /\ watch'[x] \in Seq(VersionsOf(x) \cup {None})
<1>1. v \in Version \cup {None}
  BY DEF VersionsOf
<1>2. /\ store' = [store EXCEPT ![o] = v]
      /\ watch' = [watch EXCEPT ![o] = Append(watch[o], v)]
  BY DEF Publish
<1>3. /\ Append(watch[o], v) \in Seq(Version \cup {None})
      /\ Append(watch[o], v) \in Seq(VersionsOf(o) \cup {None})
  BY <1>1 DEF ApiSound
<1> QED
  BY <1>1, <1>2, <1>3 DEF ApiSound

(* A write of the API server leaves it sound. *)
LEMMA WrittenSound ==
    ASSUME ApiSound, UNCHANGED cache, queue' \subseteq Objects,
           \/ UNCHANGED <<store, watch>>
           \/ \E o \in Objects : \E v \in VersionsOf(o) \cup {None} : Publish(o, v) \/ Write(o, v)
    PROVE  ApiSound'
<1>1. CASE UNCHANGED <<store, watch>>
  BY <1>1 DEF ApiSound
<1>2. ASSUME NEW o \in Objects, NEW v \in VersionsOf(o) \cup {None}, Publish(o, v)
      PROVE  ApiSound'
  BY <1>2, Published DEF ApiSound
<1> QED
  BY <1>1, <1>2 DEF Write

LEMMA SyncSound ==
    ASSUME ApiSound, NEW o \in Objects, Sync(o)
    PROVE  ApiSound'
<1> DEFINE s == watch[o]
<1>1. /\ s \in Seq(Version \cup {None}) /\ s \in Seq(VersionsOf(o) \cup {None}) /\ s # <<>>
  BY DEF ApiSound, Sync
<1>2. /\ Head(s) \in Version \cup {None} /\ Tail(s) \in Seq(Version \cup {None})
      /\ Head(s) \in VersionsOf(o) \cup {None} /\ Tail(s) \in Seq(VersionsOf(o) \cup {None})
  BY <1>1
<1>3. /\ cache' = [cache EXCEPT ![o] = Head(s)]
      /\ watch' = [watch EXCEPT ![o] = Tail(s)]
      /\ queue' = queue \cup {o} /\ store' = store
  BY DEF Sync, kubernetes
<1> QED
  BY <1>2, <1>3 DEF ApiSound

(* What the API server and the operator make of a version. *)
LEMMA NewVersionSound ==
    ASSUME EnvironmentSound, NEW o \in Objects, NEW spec \in Specs[o]
    PROVE  LET v == NewVersion(spec)
           IN  /\ v \in VersionsOf(o) /\ v.uid = used["create"]
               /\ ~v.deleting /\ ~v.finalizer /\ v.owner = None
<1>1. used["create"] \in Nat /\ spec \in ObjectSpec
  BY ObjectsAssumption DEF EnvironmentSound, Events
<1>2. [phase |-> Unset, observed |-> 0, message |-> Unset] \in Status
  BY DEF Status, Phases
<1> QED
  BY <1>1, <1>2 DEF NewVersion, VersionsOf, Version

LEMMA EditedSound ==
    ASSUME NEW o \in Objects, NEW v \in VersionsOf(o), NEW spec \in Specs[o]
    PROVE  LET n == [v EXCEPT !.spec = spec, !.generation = @ + 1]
           IN  /\ n \in VersionsOf(o) /\ n.uid = v.uid /\ n.deleting = v.deleting
               /\ n.finalizer = v.finalizer /\ n.owner = v.owner
<1>1. v.generation + 1 \in Nat /\ spec \in ObjectSpec /\ v \in Version
  BY ObjectsAssumption DEF VersionsOf, Version
<1> QED
  BY <1>1 DEF VersionsOf, Version

LEMMA LeftSound ==
    ASSUME NEW o \in Objects, NEW v \in VersionsOf(o)
    PROVE  LET n == Left(v)
           IN  IF v.finalizer
               THEN /\ n \in VersionsOf(o) /\ n.uid = v.uid /\ n.deleting
                    /\ n.finalizer /\ n.owner = v.owner
               ELSE n = None
<1>1. v.generation + 1 \in Nat /\ v \in Version
  BY DEF VersionsOf, Version
<1> QED
  BY <1>1 DEF VersionsOf, Version, Left

LEMMA PatchedSound ==
    ASSUME NEW o \in Objects, NEW v \in VersionsOf(o), NEW owner \in Owner, NEW status \in Status
    PROVE  /\ LET n == [v EXCEPT !.finalizer = TRUE]
              IN  /\ n \in VersionsOf(o) /\ n.uid = v.uid /\ n.deleting = v.deleting
                  /\ n.finalizer /\ n.owner = v.owner
           /\ LET n == Unpinned(v)
              IN  IF v.deleting
                  THEN n = None
                  ELSE /\ n \in VersionsOf(o) /\ n.uid = v.uid /\ ~n.deleting
                       /\ ~n.finalizer /\ n.owner = v.owner
           /\ LET n == [v EXCEPT !.owner = owner]
              IN  /\ n \in VersionsOf(o) /\ n.uid = v.uid /\ n.deleting = v.deleting
                  /\ n.finalizer = v.finalizer /\ n.owner = owner
           /\ LET n == [v EXCEPT !.status = status]
              IN  /\ n \in VersionsOf(o) /\ n.uid = v.uid /\ n.deleting = v.deleting
                  /\ n.finalizer = v.finalizer /\ n.owner = v.owner
BY DEF VersionsOf, Version, Unpinned

-----------------------------------------------------------------------------
(* Workers.                                                                *)

LEMMA IdleSound ==
    /\ Idle \in Worker /\ Idle.pc = "idle" /\ Idle.obj = None /\ Idle.key = None
    /\ ~Emptied(Idle) /\ Idle.dn = <<>>
    /\ \A k \in Kinds : Sound(k, Idle)
<1>1. Idle \in Worker
  <2>1. <<>> \in Seq(RDN) /\ "idle" \in Pcs
    BY DEF Pcs
  <2> QED
    BY <2>1 DEF Idle, Worker, Phases
<1>2. /\ Idle.pc = "idle" /\ Idle.obj = None /\ Idle.key = None
      /\ ~Emptied(Idle) /\ Idle.dn = <<>>
  BY DEF Idle, Emptied
<1> QED
  BY <1>1, <1>2 DEF Sound, Composed, Nameless

(* One worker moves. *)
LEMMA WorkerMoves ==
    ASSUME WorkersSound, NEW k \in Kinds, NEW w, Sound(k, w),
           worker' = [worker EXCEPT ![k] = w]
    PROVE  /\ WorkersSound' /\ worker'[k] = w
           /\ \A j \in Kinds \ {k} : worker'[j] = worker[j]
BY DEF WorkersSound, Sound

LEMMA FinishSound ==
    ASSUME WorkersSound, ApiSound, NEW k \in Kinds, worker[k].pc # "idle",
           NEW requeue, Finish(k, requeue)
    PROVE  /\ WorkersSound' /\ worker'[k] = Idle /\ queue' \subseteq Objects
           /\ \A j \in Kinds \ {k} : worker'[j] = worker[j]
<1>1. worker[k].key \in Objects
  BY DEF WorkersSound, Sound
<1>2. queue' \subseteq Objects
  BY <1>1 DEF Finish, ApiSound
<1>3. worker' = [worker EXCEPT ![k] = Idle]
  BY DEF Finish
<1> QED
  BY <1>2, <1>3, WorkerMoves, IdleSound

LEMMA ContinueSound ==
    ASSUME WorkersSound, ApiSound, NEW k \in Kinds, NEW w, Sound(k, w), Continue(k, w)
    PROVE  /\ WorkersSound' /\ worker'[k] = w /\ queue' \subseteq Objects
           /\ \A j \in Kinds \ {k} : worker'[j] = worker[j]
BY WorkerMoves DEF Continue, ApiSound

(* The worker goes on with the same object, or with another version of it. *)
LEMMA ToSound ==
    ASSUME NEW k \in Kinds, NEW w, Sound(k, w), w.pc # "idle",
           NEW pc \in Pcs \ {"idle"}, pc \in Composed => w.pc \in Composed,
           pc \in Nameless \cup {"removeFinalizer"} => w.pc \in Nameless
    PROVE  /\ Sound(k, To(w, pc))
           /\ To(w, pc).pc = pc /\ To(w, pc).obj = w.obj /\ To(w, pc).key = w.key
           /\ To(w, pc).dn = w.dn /\ ~Emptied(To(w, pc))
           /\ \A v \in VersionsOf(w.key) :
                 LET n == [To(w, pc) EXCEPT !.obj = v]
                 IN  /\ Sound(k, n) /\ n.pc = pc /\ n.obj = v /\ n.key = w.key
                     /\ n.dn = w.dn /\ ~Emptied(n)
           /\ \A owner \in Owner \cup {None} :
                 LET n == [To(w, pc) EXCEPT !.owner = owner]
                 IN  /\ Sound(k, n) /\ n.pc = pc /\ n.obj = w.obj /\ n.key = w.key
                     /\ n.dn = w.dn /\ ~Emptied(n)
BY ZenonT(60) DEF Sound, To, Worker, VersionsOf, Emptied

LEMMA MarkingSound ==
    ASSUME NEW k \in Kinds, NEW w, Sound(k, w), w.pc # "idle",
           NEW phase \in Phases, NEW requeue \in BOOLEAN
    PROVE  LET n == Marking(w, phase, requeue)
           IN  /\ Sound(k, n) /\ n.pc = "mark" /\ n.obj = w.obj /\ n.key = w.key /\ n.dn = w.dn
<1>1. "mark" \in Pcs /\ "mark" \notin Composed /\ "mark" \notin Nameless
  BY DEF Pcs, Composed, Nameless
<1>n. PICK n : n = Marking(w, phase, requeue)
  OBVIOUS
<1>2. /\ n \in Worker /\ n.pc = "mark" /\ n.obj = w.obj /\ n.key = w.key
      /\ n.dn = w.dn
  BY <1>n, <1>1 DEF Marking, Sound, Worker
<1>3. Sound(k, n)
  BY <1>1, <1>2 DEF Sound
<1> QED
  BY <1>n, <1>2, <1>3

(* Of what the steps of Reconcile are called. *)
LEMMA StepNames ==
    /\ Pcs \ {"idle"} = {"addFinalizer", "resolveReferences", "resolveDirectory",
          "resolveParent", "getDistinguishedName", "deleteEntry", "removeFinalizer",
          "setOwner", "mapToEntry", "upsertEntry", "mark"}
    /\ {"Pending", "Ready", "Failed"} \subseteq Phases
BY DEF Pcs, Phases

LEMMA MarkFailedSound ==
    ASSUME ReconcilerSound, NEW k \in Kinds, worker[k].pc # "idle",
           \/ MarkPending(k)
           \/ \E requeue \in BOOLEAN : MarkFailed(k, requeue)
           \/ Continue(k, Marking(worker[k], "Ready", FALSE))
    PROVE  /\ WorkersSound' /\ queue' \subseteq Objects
           /\ worker'[k].pc = "mark" /\ worker'[k].obj = worker[k].obj
           /\ worker'[k].key = worker[k].key
           /\ \A j \in Kinds \ {k} : worker'[j] = worker[j]
<1>1. PICK phase \in Phases, requeue \in BOOLEAN :
        Continue(k, Marking(worker[k], phase, requeue))
  BY StepNames DEF MarkPending, MarkFailed
<1>2. Sound(k, worker[k])
  BY DEF ReconcilerSound, WorkersSound
<1> QED
  BY <1>1, <1>2, MarkingSound, ContinueSound DEF ReconcilerSound

-----------------------------------------------------------------------------
(* Steps of Reconcile that send nothing to slapd and collect nothing.      *)

Calling == {"deleteEntry", "upsertEntry"}

Quiet(k) ==
    /\ ReconcilerSound'
    /\ worker[k].pc \notin Calling /\ worker'[k].pc # "upsertEntry" /\ ~Emptied(worker'[k])
    /\ \A j \in Kinds \ {k} : worker'[j] = worker[j]
    /\ UNCHANGED <<dit, call>>

(* Reconcile returns. *)
LEMMA FinishQuiet ==
    ASSUME ReconcilerSound, NEW k \in Kinds, worker[k].pc # "idle", worker[k].pc \notin Calling,
           NEW requeue, Finish(k, requeue),
           UNCHANGED <<dit, call, cache, environment>>,
           UNCHANGED <<store, watch>> \/ Write(worker[k].key, Unpinned(store[worker[k].key]))
           \/ \E status \in Status : Write(worker[k].key, [store[worker[k].key] EXCEPT !.status = status]),
           UNCHANGED <<store, watch>> \/ store[worker[k].key] # None
    PROVE  Quiet(k)
<1> DEFINE o == worker[k].key
<1>1. o \in Objects /\ WorkersSound /\ ApiSound
  BY DEF ReconcilerSound, WorkersSound, Sound
<1>2. /\ WorkersSound' /\ worker'[k] = Idle /\ queue' \subseteq Objects
      /\ \A j \in Kinds \ {k} : worker'[j] = worker[j]
  BY <1>1, FinishSound
<1>3. EnvironmentSound'
  BY DEF ReconcilerSound, EnvironmentSound, environment
<1>4. ApiSound'
  <2>1. CASE UNCHANGED <<store, watch>>
    BY <1>1, <1>2, <2>1, WrittenSound
  <2>2. ASSUME store[o] # None
        PROVE  /\ Unpinned(store[o]) \in VersionsOf(o) \cup {None}
               /\ \A status \in Status :
                     [store[o] EXCEPT !.status = status] \in VersionsOf(o) \cup {None}
    <3>1. store[o] \in VersionsOf(o)
      BY <1>1, <2>2 DEF ApiSound
    <3>3. PICK v : v = store[o]
      OBVIOUS
    <3>4. \A status \in Status : [v EXCEPT !.status = status] \in VersionsOf(o)
      BY <3>1, <3>3 DEF VersionsOf, Version
    <3>5. Unpinned(v) \in VersionsOf(o) \cup {None}
      BY <3>1, <3>3 DEF VersionsOf, Version, Unpinned
    <3> QED
      BY <3>3, <3>4, <3>5
  <2>3. ASSUME NEW v \in VersionsOf(o) \cup {None}, Write(o, v)
        PROVE  ApiSound'
    BY <1>1, <1>2, <2>3, WrittenSound
  <2>4. CASE store[o] # None /\ Write(o, Unpinned(store[o]))
    BY <2>2, <2>3, <2>4
  <2>5. ASSUME NEW status \in Status, store[o] # None,
               Write(o, [store[o] EXCEPT !.status = status])
        PROVE  ApiSound'
    BY <2>2, <2>3, <2>5
  <2> QED
    BY <2>1, <2>4, <2>5
<1>5. Idle.pc # "upsertEntry" /\ ~Emptied(Idle)
  BY IdleSound
<1> QED
  BY <1>2, <1>3, <1>4, <1>5 DEF Quiet, ReconcilerSound

(* Reconcile marks the object, or goes on without a write. *)
LEMMA MarkingQuiet ==
    ASSUME ReconcilerSound, NEW k \in Kinds, worker[k].pc # "idle",
           worker[k].pc \notin Calling, worker[k].pc # "removeFinalizer",
           MarkPending(k) \/ \E requeue \in BOOLEAN : MarkFailed(k, requeue),
           UNCHANGED <<dit, call, store, cache, watch, environment>>
    PROVE  Quiet(k)
<1>1. Sound(k, worker[k])
  BY DEF ReconcilerSound, WorkersSound
<1>2. /\ WorkersSound' /\ queue' \subseteq Objects /\ worker'[k].pc = "mark"
      /\ \A j \in Kinds \ {k} : worker'[j] = worker[j]
  BY <1>1, MarkFailedSound
<1>3. ApiSound' /\ EnvironmentSound' /\ ~Emptied(worker'[k])
  BY <1>2, WrittenSound
     DEF ReconcilerSound, EnvironmentSound, environment, WorkersSound, Emptied
<1> QED
  BY <1>2, <1>3 DEF Quiet, ReconcilerSound

LEMMA ContinueQuiet ==
    ASSUME ReconcilerSound, NEW k \in Kinds, worker[k].pc \notin Calling,
           NEW w, Sound(k, w), w.pc # "upsertEntry", ~Emptied(w), Continue(k, w),
           UNCHANGED <<dit, call, store, cache, watch, environment>>
    PROVE  Quiet(k)
<1>1. /\ WorkersSound' /\ queue' \subseteq Objects /\ worker'[k] = w
      /\ \A j \in Kinds \ {k} : worker'[j] = worker[j]
  BY ContinueSound DEF ReconcilerSound
<1>2. ApiSound' /\ EnvironmentSound'
  BY <1>1, WrittenSound DEF ReconcilerSound, EnvironmentSound, environment
<1> QED
  BY <1>1, <1>2 DEF Quiet, ReconcilerSound

(* A patch of the object whose answer the worker goes on with. *)
LEMMA PatchQuiet ==
    ASSUME ReconcilerSound, NEW k \in Kinds, worker[k].pc \notin Calling, worker[k].pc # "idle",
           NEW new \in VersionsOf(worker[k].key), Write(worker[k].key, new),
           NEW w, Sound(k, w), w.pc # "upsertEntry", ~Emptied(w), Continue(k, w),
           UNCHANGED <<dit, call, cache, environment>>
    PROVE  Quiet(k)
<1>1. /\ WorkersSound' /\ queue' \subseteq Objects /\ worker'[k] = w
      /\ \A j \in Kinds \ {k} : worker'[j] = worker[j]
  BY ContinueSound DEF ReconcilerSound
<1>2. worker[k].key \in Objects
  BY DEF ReconcilerSound, WorkersSound, Sound
<1>3. ApiSound' /\ EnvironmentSound'
  BY <1>1, <1>2, WrittenSound DEF ReconcilerSound, EnvironmentSound, environment
<1> QED
  BY <1>1, <1>3 DEF Quiet, ReconcilerSound

(* What a worker that is at work has. *)
LEMMA AtWork ==
    ASSUME ReconcilerSound, NEW k \in Kinds, worker[k].pc # "idle"
    PROVE  /\ Sound(k, worker[k]) /\ worker[k] \in Worker
           /\ worker[k].key \in Objects /\ KindOf[worker[k].key] = k
           /\ worker[k].obj \in VersionsOf(worker[k].key)
           /\ worker[k].pc # "removeFinalizer" => ~Emptied(worker[k])
           /\ store[worker[k].key] \in VersionsOf(worker[k].key) \cup {None}
           /\ cache[worker[k].key] \in VersionsOf(worker[k].key) \cup {None}
BY DEF ReconcilerSound, WorkersSound, ApiSound, Sound, Emptied

LEMMA AddFinalizerQuiet ==
    ASSUME ReconcilerSound, NEW k \in Kinds, AddFinalizer(k)
    PROVE  Quiet(k)
<1> DEFINE w == worker[k]
           o == w.key
<1>1. /\ w.pc = "addFinalizer" /\ w.pc \notin Calling /\ w.pc # "idle"
      /\ "resolveReferences" \in Pcs \ {"idle"} /\ "resolveReferences" \notin Composed
      /\ UNCHANGED <<dit, call, cache, environment>>
  BY StepNames DEF AddFinalizer, At, Calling, Composed, clientVars
<1>2. /\ Sound(k, w) /\ ~Emptied(w) /\ o \in Objects
      /\ store[o] \in VersionsOf(o) \cup {None} /\ cache[o] \in VersionsOf(o) \cup {None}
  BY <1>1, AtWork
<1>3. ASSUME NEW v \in VersionsOf(o)
      PROVE  LET n == [To(w, "resolveReferences") EXCEPT !.obj = v]
             IN  Sound(k, n) /\ n.pc # "upsertEntry" /\ ~Emptied(n)
  BY SMTT(30), <1>1, <1>2, <1>3, ToSound DEF Nameless
<1>4. CASE /\ cache[o] # None
           /\ Continue(k, [To(w, "resolveReferences") EXCEPT !.obj = cache[o]])
           /\ UNCHANGED <<store, watch>>
  <2>1. cache[o] \in VersionsOf(o)
    BY <1>2, <1>4
  <2> QED
    BY <1>1, <1>3, <1>4, <2>1, ContinueQuiet
<1>5. CASE /\ store[o] # None
           /\ LET new == [store[o] EXCEPT !.finalizer = TRUE]
              IN  /\ Write(o, new)
                  /\ Continue(k, [To(w, "resolveReferences") EXCEPT !.obj = new])
  <2>1. PICK new \in VersionsOf(o) :
          /\ Write(o, new)
          /\ Continue(k, [To(w, "resolveReferences") EXCEPT !.obj = new])
    <3>1. [store[o] EXCEPT !.finalizer = TRUE] \in VersionsOf(o)
      BY <1>2, <1>5 DEF VersionsOf, Version
    <3> QED
      BY <1>5, <3>1
  <2> QED
    BY <1>1, <1>3, <2>1, PatchQuiet
<1>6. CASE Finish(k, TRUE) /\ UNCHANGED <<store, watch>>
  BY <1>1, <1>6, FinishQuiet
<1> QED
  BY <1>4, <1>5, <1>6 DEF AddFinalizer, Unpatchable

LEMMA ResolveReferencesQuiet ==
    ASSUME ReconcilerSound, NEW k \in Kinds, ResolveReferences(k)
    PROVE  Quiet(k)
<1> DEFINE w == worker[k]
<1>1. /\ w.pc = "resolveReferences" /\ w.pc \notin Calling /\ w.pc # "idle"
      /\ {"resolveDirectory", "removeFinalizer"} \subseteq Pcs \ {"idle"}
      /\ "resolveDirectory" \notin Composed /\ "removeFinalizer" \notin Composed
      /\ UNCHANGED <<dit, call, store, cache, watch, environment>>
  BY StepNames DEF ResolveReferences, At, Calling, Composed, clientVars
<1>2. Sound(k, w) /\ ~Emptied(w)
  BY <1>1, AtWork
<1>3. ASSUME NEW pc \in {"resolveDirectory", "removeFinalizer"}, Continue(k, To(w, pc))
      PROVE  Quiet(k)
  <2>1. Sound(k, To(w, pc)) /\ To(w, pc).pc # "upsertEntry" /\ ~Emptied(To(w, pc))
    BY <1>1, <1>2, ToSound DEF Nameless
  <2> QED
    BY <1>1, <1>3, <2>1, ContinueQuiet
<1>4. CASE MarkPending(k)
  BY <1>1, <1>4, MarkingQuiet
<1> QED
  BY <1>3, <1>4 DEF ResolveReferences, Unresolved

LEMMA ResolveDirectoryQuiet ==
    ASSUME ReconcilerSound, NEW k \in Kinds, ResolveDirectory(k)
    PROVE  Quiet(k)
<1> DEFINE w == worker[k]
<1>1. /\ w.pc = "resolveDirectory" /\ w.pc \notin Calling /\ w.pc # "idle"
      /\ "resolveParent" \in Pcs \ {"idle"} /\ "resolveParent" \notin Composed
      /\ UNCHANGED <<dit, call, store, cache, watch, environment>>
  BY StepNames DEF ResolveDirectory, At, Calling, Composed, clientVars
<1>2. Sound(k, w) /\ ~Emptied(w)
  BY <1>1, AtWork
<1>3. ASSUME directory # None
      PROVE  [name |-> Directory, uid |-> directory.uid] \in Owner
  BY <1>3 DEF ReconcilerSound, EnvironmentSound, DirectoryVersion, Owner
<1>4. ASSUME NEW owner \in Owner,
             Continue(k, [To(w, "resolveParent") EXCEPT !.owner = owner])
      PROVE  Quiet(k)
  <2>1. LET n == [To(w, "resolveParent") EXCEPT !.owner = owner]
        IN  Sound(k, n) /\ n.pc # "upsertEntry" /\ ~Emptied(n)
    BY <1>1, <1>2, ToSound DEF Nameless
  <2> QED
    BY <1>1, <1>4, <2>1, ContinueQuiet
<1>5. CASE MarkPending(k)
  BY <1>1, <1>5, MarkingQuiet
<1> QED
  BY <1>3, <1>4, <1>5 DEF ResolveDirectory

(* The name of an object, and what it makes of a distinguished name. *)
LEMMA RDNSound ==
    ASSUME NEW o \in Objects, NEW v \in VersionsOf(o)
    PROVE  /\ RDNOf(o, v) \in RDN /\ RDNOf(o, v).kind = KindOf[o]
           /\ v.spec.parent \in Objects \cup {Foreign, None}
BY ObjectsAssumption DEF RDNOf, RDN, VersionsOf, Version, ObjectSpec

LEMMA AppendSound ==
    ASSUME NEW d \in DN, NEW r \in RDN
    PROVE  Append(d, r) \in DN /\ Head(Append(d, r)) = Head(d)
<1>1. d \in Seq(RDN) /\ d # <<>>
  BY DEF DN
<1>2. /\ Append(d, r) \in Seq(RDN) /\ Len(Append(d, r)) = Len(d) + 1
      /\ Append(d, r)[1] = d[1] /\ Len(d) \in Nat
  BY <1>1, AppendProperties, EmptySeq, LenProperties
<1>3. Append(d, r) # <<>>
  BY <1>2, EmptySeq
<1> QED
  BY <1>1, <1>2, <1>3 DEF DN

LEMMA NamedSound ==
    ASSUME NEW k \in Kinds, NEW w, Sound(k, w), w.pc = "resolveParent", ~Emptied(w),
           NEW owner \in Owner \cup {None}
    PROVE  /\ LET n == Named(w)
              IN  Sound(k, n) /\ n.pc # "upsertEntry" /\ ~Emptied(n)
           /\ LET n == [Named(w) EXCEPT !.owner = owner]
              IN  Sound(k, n) /\ n.pc # "upsertEntry" /\ ~Emptied(n)
<1>1. /\ w \in Worker /\ w.key \in Objects /\ KindOf[w.key] = k /\ w.obj \in VersionsOf(w.key)
      /\ "getDistinguishedName" \in Pcs \ {"idle"}
  BY StepNames DEF Sound
<1>2. PICK d, p : d = <<RDNOf(w.key, w.obj)>> /\ p = w.obj.spec.parent
  OBVIOUS
<1>3. d \in DN /\ Head(d).kind = k /\ p \in Objects \cup {Foreign, None}
  BY <1>1, <1>2, RDNSound DEF DN
<1>4. PICK n, m : n = Named(w) /\ m = [Named(w) EXCEPT !.owner = owner]
  OBVIOUS
<1>5. /\ n \in Worker /\ n.pc = "getDistinguishedName" /\ n.key = w.key /\ n.obj = w.obj
      /\ n.dn = d /\ ~Emptied(n)
      /\ m \in Worker /\ m.pc = "getDistinguishedName" /\ m.key = w.key /\ m.obj = w.obj
      /\ m.dn = d /\ ~Emptied(m)
  BY <1>1, <1>2, <1>3, <1>4 DEF Named, To, Worker, DN, Emptied
<1>6. Sound(k, n) /\ Sound(k, m)
  BY <1>1, <1>3, <1>5 DEF Sound, Nameless
<1> QED
  BY <1>4, <1>5, <1>6

LEMMA ResolveParentQuiet ==
    ASSUME ReconcilerSound, NEW k \in Kinds, ResolveParent(k)
    PROVE  Quiet(k)
<1> DEFINE w == worker[k]
           p == w.obj.spec.parent
<1>1. /\ w.pc = "resolveParent" /\ w.pc \notin Calling /\ w.pc # "idle"
      /\ w.pc # "removeFinalizer"
      /\ UNCHANGED <<dit, call, store, cache, watch, environment>>
  BY DEF ResolveParent, At, Calling, clientVars
<1>2. Sound(k, w) /\ ~Emptied(w)
  BY <1>1, AtWork
<1>3. ASSUME NEW n, Continue(k, n),
             n = Named(w) \/ \E owner \in Owner \cup {None} : n = [Named(w) EXCEPT !.owner = owner]
      PROVE  Quiet(k)
  <2>1. Sound(k, n) /\ n.pc # "upsertEntry" /\ ~Emptied(n)
    <3>1. CASE n = Named(w)
      BY <1>1, <1>2, <3>1, NamedSound
    <3>2. ASSUME NEW owner \in Owner \cup {None}, n = [Named(w) EXCEPT !.owner = owner]
          PROVE  Sound(k, n) /\ n.pc # "upsertEntry" /\ ~Emptied(n)
      BY <1>1, <1>2, <3>2, NamedSound
    <3> QED
      BY <1>3, <3>1, <3>2
  <2> QED
    BY <1>1, <1>3, <2>1, ContinueQuiet
<1>4. CASE MarkPending(k) \/ MarkFailed(k, TRUE)
  BY <1>1, <1>4, MarkingQuiet
<1>5. CASE p \in Objects /\ cache[p] # None /\ Continue(k, [Named(w) EXCEPT !.owner = ParentOwner(p)])
  <2>1. cache[p] \in VersionsOf(p)
    BY <1>5 DEF ReconcilerSound, ApiSound
  <2>2. ParentOwner(p) \in Owner
    BY <1>5, <2>1, VersionParts DEF ParentOwner, Owner
  <2> QED
    BY <1>3, <1>5, <2>2
<1> QED
  BY <1>3, <1>4, <1>5 DEF ResolveParent

LEMMA GetDistinguishedNameQuiet ==
    ASSUME ReconcilerSound, NEW k \in Kinds, GetDistinguishedName(k)
    PROVE  Quiet(k)
<1> DEFINE w == worker[k]
           p == w.climb
<1>1. /\ w.pc = "getDistinguishedName" /\ w.pc \notin Calling /\ w.pc # "idle"
      /\ w.pc \in Composed
      /\ {"deleteEntry", "setOwner"} \subseteq Pcs \ {"idle"}
      /\ UNCHANGED <<dit, call, store, cache, watch, environment>>
  BY StepNames DEF GetDistinguishedName, At, Calling, Composed, clientVars
<1>2. /\ Sound(k, w) /\ w \in Worker /\ ~Emptied(w) /\ w.dn \in DN /\ Head(w.dn).kind = k
      /\ w.key \in Objects /\ KindOf[w.key] = k /\ w.obj \in VersionsOf(w.key)
  BY <1>1, AtWork DEF Sound
<1>3. CASE Finish(k, TRUE)
  BY <1>1, <1>3, FinishQuiet
<1>4. CASE p \in Objects /\ cache[p] # None /\ Continue(k, Ascended(w, p))
  <2>1. cache[p] \in VersionsOf(p)
    BY <1>4 DEF ReconcilerSound, ApiSound
  <2>2. PICK d, q : d = Append(w.dn, RDNOf(p, cache[p])) /\ q = cache[p].spec.parent
    OBVIOUS
  <2>3. d \in DN /\ Head(d).kind = k /\ q \in Objects \cup {Foreign, None}
    BY <1>2, <1>4, <2>1, <2>2, RDNSound, AppendSound
  <2>4. PICK n : n = Ascended(w, p)
    OBVIOUS
  <2>5. /\ n \in Worker /\ n.pc = "getDistinguishedName" /\ n.key = w.key /\ n.obj = w.obj
        /\ n.dn = d /\ ~Emptied(n)
    BY <1>1, <1>2, <2>2, <2>3, <2>4 DEF Ascended, Worker, DN, Emptied
  <2>6. Sound(k, n)
    BY <1>2, <2>3, <2>5 DEF Sound, Nameless
  <2> QED
    BY <1>1, <1>4, <2>4, <2>5, <2>6, ContinueQuiet
<1>5. ASSUME NEW pc \in {"deleteEntry", "setOwner"}, Continue(k, To(w, pc))
      PROVE  Quiet(k)
  <2>1. Sound(k, To(w, pc)) /\ To(w, pc).pc # "upsertEntry" /\ ~Emptied(To(w, pc))
    BY <1>1, <1>2, ToSound DEF Nameless
  <2> QED
    BY <1>1, <1>5, <2>1, ContinueQuiet
<1> QED
  BY <1>3, <1>4, <1>5 DEF GetDistinguishedName, OnceNamed

LEMMA RemoveFinalizerQuiet ==
    ASSUME ReconcilerSound, NEW k \in Kinds, RemoveFinalizer(k)
    PROVE  Quiet(k)
<1>1. /\ worker[k].pc \notin Calling /\ worker[k].pc # "idle"
      /\ UNCHANGED <<dit, call, cache, environment>>
  BY DEF RemoveFinalizer, At, Calling, clientVars
<1>2. PICK requeue : Finish(k, requeue)
  BY DEF RemoveFinalizer
<1>3. \/ UNCHANGED <<store, watch>>
      \/ /\ Write(worker[k].key, Unpinned(store[worker[k].key]))
         /\ store[worker[k].key] # None
  BY DEF RemoveFinalizer, Unpatchable
<1> QED
  BY <1>1, <1>2, <1>3, FinishQuiet

LEMMA SetOwnerQuiet ==
    ASSUME ReconcilerSound, NEW k \in Kinds, SetOwner(k)
    PROVE  Quiet(k)
<1> DEFINE w == worker[k]
           o == w.key
<1>1. /\ w.pc = "setOwner" /\ w.pc \notin Calling /\ w.pc # "idle" /\ w.pc # "removeFinalizer"
      /\ w.pc \in Composed /\ "mapToEntry" \in Pcs \ {"idle"}
      /\ w.owner # None
      /\ UNCHANGED <<dit, call, cache, environment>>
  BY StepNames DEF SetOwner, At, Calling, Composed, clientVars
<1>2. /\ Sound(k, w) /\ ~Emptied(w) /\ o \in Objects /\ w.owner \in Owner
      /\ store[o] \in VersionsOf(o) \cup {None} /\ cache[o] \in VersionsOf(o) \cup {None}
  BY <1>1, AtWork DEF Worker
<1>3. ASSUME NEW v \in VersionsOf(o)
      PROVE  LET n == [To(w, "mapToEntry") EXCEPT !.obj = v]
             IN  Sound(k, n) /\ n.pc # "upsertEntry" /\ ~Emptied(n)
  BY <1>1, <1>2, <1>3, ToSound DEF Nameless
<1>4. CASE /\ cache[o] # None
           /\ Continue(k, [To(w, "mapToEntry") EXCEPT !.obj = cache[o]])
           /\ UNCHANGED <<store, watch>>
  <2>1. cache[o] \in VersionsOf(o)
    BY <1>2, <1>4
  <2> QED
    BY <1>1, <1>3, <1>4, <2>1, ContinueQuiet
<1>5. CASE /\ store[o] # None
           /\ LET new == Owned(o, w.owner)
              IN  /\ Write(o, new)
                  /\ Continue(k, [To(w, "mapToEntry") EXCEPT !.obj = new])
  <2>1. PICK new \in VersionsOf(o) :
          /\ Write(o, new)
          /\ Continue(k, [To(w, "mapToEntry") EXCEPT !.obj = new])
    <3>1. Owned(o, w.owner) \in VersionsOf(o)
      BY <1>2, <1>5 DEF Owned, VersionsOf, Version
    <3> QED
      BY <1>5, <3>1
  <2> QED
    BY <1>1, <1>3, <2>1, PatchQuiet
<1>6. CASE MarkFailed(k, FALSE) /\ UNCHANGED <<store, watch>>
  BY <1>1, <1>6, MarkingQuiet
<1> QED
  BY <1>4, <1>5, <1>6 DEF SetOwner

LEMMA MarkQuiet ==
    ASSUME ReconcilerSound, NEW k \in Kinds, Mark(k)
    PROVE  Quiet(k)
<1> DEFINE w == worker[k]
           o == w.key
<1>1. /\ w.pc = "mark" /\ w.pc \notin Calling /\ w.pc # "idle"
      /\ UNCHANGED <<dit, call, cache, environment>>
  BY DEF Mark, At, Calling, clientVars
<1>2. PICK requeue : Finish(k, requeue)
  BY DEF Mark
<1>3. CASE UNCHANGED <<store, watch>>
  BY <1>1, <1>2, <1>3, FinishQuiet
<1>4. CASE store[o] # None /\ Write(o, [store[o] EXCEPT !.status = StatusOf(w, store[o])])
  <2>1. w \in Worker /\ store[o] \in Version
    BY <1>1, <1>4, AtWork, VersionParts
  <2>2. StatusOf(w, store[o]) \in Status
    BY <2>1 DEF StatusOf, Status, Worker, Version
  <2> QED
    BY <1>1, <1>2, <1>4, <2>2, FinishQuiet
<1> QED
  BY <1>3, <1>4 DEF Mark, Unpatchable

(* The worker takes a key. *)
LEMMA GetQuiet ==
    ASSUME ReconcilerSound, NEW k \in Kinds, NEW o \in Objects, Get(k, o)
    PROVE  Quiet(k)
<1>1. /\ worker[k].pc = "idle" /\ worker[k].pc \notin Calling /\ KindOf[o] = k
      /\ queue' = queue \ {o}
      /\ UNCHANGED <<dit, call, store, cache, watch, environment>>
  BY DEF Get, At, Calling, clientVars
<1>2. ApiSound' /\ EnvironmentSound'
  BY <1>1, WrittenSound DEF ReconcilerSound, ApiSound, EnvironmentSound, environment
<1>3. CASE UNCHANGED worker
  BY <1>1, <1>2, <1>3, IdleSound DEF Quiet, ReconcilerSound, WorkersSound, Sound
<1>4. CASE cache[o] # None /\ worker' = [worker EXCEPT ![k] =
             [Idle EXCEPT !.key = o, !.obj = cache[o], !.pc = FirstStep(cache[o])]]
  <2>1. PICK w : w = [Idle EXCEPT !.key = o, !.obj = cache[o], !.pc = FirstStep(cache[o])]
    OBVIOUS
  <2>2. cache[o] \in VersionsOf(o) /\ cache[o] \in Version
    BY <1>4 DEF ReconcilerSound, ApiSound, VersionsOf
  <2>3. FirstStep(cache[o]) \in (Pcs \ {"idle"}) \ ({"upsertEntry", "removeFinalizer"} \cup Composed)
    BY StepNames DEF FirstStep, Composed
  <2>4. /\ w \in Worker /\ w.pc = FirstStep(cache[o]) /\ w.key = o /\ w.obj = cache[o]
        /\ ~Emptied(w)
    BY <2>1, <2>2, <2>3, IdleSound DEF Worker, Emptied
  <2>5. Sound(k, w)
    BY <1>1, <2>1, <2>2, <2>3, <2>4, IdleSound DEF Sound
  <2>6. /\ WorkersSound' /\ worker'[k] = w
        /\ \A j \in Kinds \ {k} : worker'[j] = worker[j]
    BY <1>4, <2>1, <2>5, WorkerMoves DEF ReconcilerSound
  <2> QED
    BY <1>1, <1>2, <2>3, <2>4, <2>6 DEF Quiet, ReconcilerSound
<1> QED
  BY <1>3, <1>4 DEF Get

LEMMA ApiFailsQuiet ==
    ASSUME ReconcilerSound, NEW k \in Kinds, ApiFails(k)
    PROVE  Quiet(k)
<1>1. /\ UNCHANGED <<dit, call, store, cache, watch, environment>>
      /\ worker[k].pc \notin Calling /\ worker[k].pc # "idle"
  BY DEF ApiFails, Calling
<1>2. ASSUME NEW requeue, Finish(k, requeue)
      PROVE  Quiet(k)
  BY <1>1, <1>2, FinishQuiet
<1>3. ASSUME NEW requeue \in BOOLEAN, MarkFailed(k, requeue), worker[k].pc # "removeFinalizer"
      PROVE  Quiet(k)
  BY <1>1, <1>3, MarkingQuiet
<1> QED
  BY <1>2, <1>3 DEF ApiFails

-----------------------------------------------------------------------------
(* Steps of the users, the garbage collector and the informers.            *)

Aside == ReconcilerSound' /\ UNCHANGED <<clientVars, worker, history>>

LEMMA HappensSound ==
    ASSUME EnvironmentSound, NEW e \in Events, Happens(e)
    PROVE  used' \in [Events -> Nat]
<1>1. used[e] + 1 \in Nat
  BY DEF EnvironmentSound
<1> QED
  BY <1>1 DEF Happens, EnvironmentSound

LEMMA PublishAside ==
    ASSUME ReconcilerSound, NEW o \in Objects, NEW v \in VersionsOf(o) \cup {None},
           Publish(o, v), UNCHANGED <<clientVars, cache, queue, worker, history>>,
           EnvironmentSound'
    PROVE  Aside
<1>1. ApiSound'
  BY WrittenSound DEF ReconcilerSound, ApiSound
<1> QED
  BY <1>1 DEF Aside, ReconcilerSound, WorkersSound, Sound

LEMMA UsersAside ==
    ASSUME ReconcilerSound, NEW o \in Objects, Users(o)
    PROVE  Aside
<1> USE DEF ReconcilerSound
<1>1. CASE Create(o)
  <2>1. PICK spec \in Specs[o] : Publish(o, NewVersion(spec))
    BY <1>1 DEF Create
  <2>2. NewVersion(spec) \in VersionsOf(o) \cup {None}
    BY <2>1, NewVersionSound
  <2>3. /\ UNCHANGED <<clientVars, cache, queue, worker, directory, secret, history>>
        /\ Happens("create")
    BY <1>1 DEF Create
  <2>4. EnvironmentSound'
    BY <2>3, HappensSound DEF Events, EnvironmentSound
  <2> QED
    BY <2>1, <2>2, <2>3, <2>4, PublishAside
<1>2. CASE Edit(o)
  <2>1. PICK spec \in Specs[o] : Publish(o, [store[o] EXCEPT !.spec = spec, !.generation = @ + 1])
    BY <1>2 DEF Edit
  <2>2. PICK v \in VersionsOf(o) : v = store[o]
    BY <1>2 DEF Edit, ApiSound
  <2>3. [v EXCEPT !.spec = spec, !.generation = @ + 1] \in VersionsOf(o) \cup {None}
    BY <2>1, EditedSound
  <2>4. /\ UNCHANGED <<clientVars, cache, queue, worker, directory, secret, history>>
        /\ Happens("edit")
    BY <1>2 DEF Edit
  <2>5. EnvironmentSound'
    BY <2>4, HappensSound DEF Events, EnvironmentSound
  <2> QED
    BY <2>1, <2>2, <2>3, <2>4, <2>5, PublishAside
<1>3. CASE Delete(o)
  <2>1. PICK v \in VersionsOf(o) : v = store[o]
    BY <1>3 DEF Delete, ApiSound
  <2>2. Left(v) \in VersionsOf(o) \cup {None}
    BY LeftSound
  <2>3. /\ UNCHANGED <<clientVars, cache, queue, worker, directory, secret, history>>
        /\ Happens("delete") /\ Publish(o, Left(v))
    BY <1>3, <2>1 DEF Delete
  <2>4. EnvironmentSound'
    BY <2>3, HappensSound DEF Events, EnvironmentSound
  <2> QED
    BY <2>2, <2>3, <2>4, PublishAside
<1> QED
  BY <1>1, <1>2, <1>3 DEF Users

LEMMA LeftAside ==
    ASSUME ReconcilerSound, NEW o \in Objects, store[o] # None, Publish(o, Left(store[o])),
           UNCHANGED <<clientVars, cache, queue, worker, environment, history>>
    PROVE  Aside
<1>1. PICK v \in VersionsOf(o) : v = store[o]
  BY DEF ReconcilerSound, ApiSound
<1>2. Left(v) \in VersionsOf(o) \cup {None}
  BY LeftSound
<1>3. EnvironmentSound'
  BY DEF ReconcilerSound, EnvironmentSound, environment
<1> QED
  BY <1>1, <1>2, <1>3, PublishAside

LEMMA GarbageCollectAside ==
    ASSUME ReconcilerSound, NEW o \in Objects, GarbageCollect(o)
    PROVE  Aside
BY LeftAside DEF GarbageCollect, Orphaned

LEMMA SyncAside ==
    ASSUME ReconcilerSound, NEW o \in Objects, Sync(o)
    PROVE  Aside
BY SyncSound
   DEF Sync, Aside, ReconcilerSound, WorkersSound, EnvironmentSound, Sound, environment

LEMMA ResyncAside ==
    ASSUME ReconcilerSound, NEW o \in Objects, Resync(o)
    PROVE  Aside
<1>1. EnvironmentSound'
  BY HappensSound DEF Resync, ReconcilerSound, EnvironmentSound, Events
<1> QED
  BY <1>1 DEF Resync, HandOver, Aside, ReconcilerSound, ApiSound, WorkersSound, Sound

LEMMA EnvironmentAside ==
    ASSUME ReconcilerSound, EnvironmentSound',
           UNCHANGED <<clientVars, kubernetes, worker, history>>
    PROVE  Aside
BY DEF Aside, ReconcilerSound, ApiSound, WorkersSound, Sound, kubernetes

LEMMA DirectoryAside ==
    ASSUME ReconcilerSound, DirectoryChanges \/ DirectoryDeleted
    PROVE  Aside
<1>1. /\ UNCHANGED <<clientVars, kubernetes, worker, secret, history>>
      /\ used' \in [Events -> Nat]
  BY HappensSound DEF DirectoryChanges, DirectoryDeleted, ReconcilerSound, Events
<1>2. directory' \in DirectoryVersion \cup {None}
  <2>1. used["directory"] + 1 \in Nat
    BY DEF ReconcilerSound, EnvironmentSound, Events
  <2>2. CASE DirectoryChanges
    BY <2>1, <2>2 DEF DirectoryChanges, ReconcilerSound, EnvironmentSound, DirectoryVersion
  <2> QED
    BY <2>2 DEF DirectoryDeleted
<1> QED
  BY <1>1, <1>2, EnvironmentAside DEF ReconcilerSound, EnvironmentSound

LEMMA SecretAside ==
    ASSUME ReconcilerSound, NEW s \in SecretRefs, SecretWritten(s) \/ SecretDeleted(s)
    PROVE  Aside
<1>1. /\ UNCHANGED <<clientVars, kubernetes, worker, directory, history>>
      /\ used' \in [Events -> Nat]
  BY HappensSound DEF SecretWritten, SecretDeleted, ReconcilerSound, Events
<1>2. secret' \in [SecretRefs -> Passwords \cup {None}]
  BY DEF SecretWritten, SecretDeleted, ReconcilerSound, EnvironmentSound
<1> QED
  BY <1>1, <1>2, EnvironmentAside DEF ReconcilerSound, EnvironmentSound

(* The process dies and another starts. *)
LEMMA ProcessStartsSound ==
    ASSUME ReconcilerSound, ProcessStarts, UNCHANGED used,
           directory' \in DirectoryVersion \cup {None}
    PROVE  ReconcilerSound'
<1>1. WorkersSound'
  BY IdleSound DEF ProcessStarts, WorkersSound
<1>2. ApiSound'
  <2>1. /\ <<>> \in Seq(Version \cup {None})
        /\ \A o \in Objects : <<>> \in Seq(VersionsOf(o) \cup {None})
    OBVIOUS
  <2>2. /\ store' = store /\ cache' = store /\ queue' \subseteq Objects
        /\ watch' = [o \in Objects |-> <<>>]
    BY DEF ProcessStarts
  <2> QED
    BY <2>1, <2>2 DEF ReconcilerSound, ApiSound
<1>3. EnvironmentSound'
  BY DEF ProcessStarts, ReconcilerSound, EnvironmentSound
<1> QED
  BY <1>1, <1>2, <1>3 DEF ReconcilerSound

-----------------------------------------------------------------------------
(* What a request of client k does to the entries and to its call.         *)

CallMoves(k) ==
    /\ call[k].step # "idle" /\ call'[k].step # "idle"
    /\ call'[k].dn = call[k].dn /\ call'[k].entry = call[k].entry
    /\ \A j \in Kinds \ {k} : call'[j] = call[j]

EntriesMove(k) ==
    /\ Spares(k)
    /\ \A d \in Entries' : d \in Entries \/ (call[k].entry # None /\ d = call[k].dn)

LEMMA BecomesMoves ==
    ASSUME ClientInv, NEW k \in Kinds, call[k].step # "idle",
           NEW step, step # "idle", NEW found, NEW frames, NEW created, NEW ok,
           Becomes(k, step, found, frames, created, ok)
    PROVE  CallMoves(k)
BY DEF ClientInv, ClientTypeOK, Becomes, CallMoves

LEMMA UnchangedMoves ==
    ASSUME ClientInv, NEW k \in Kinds, UNCHANGED dit
    PROVE  EntriesMove(k)
BY Unchanged DEF EntriesMove, Entries

LEMMA WithMoves ==
    ASSUME ClientInv, NEW k \in Kinds, call[k].step \in Upserting,
           \/ call[k].step = "add" /\ dit' = Added(call[k])
           \/ call[k].step = "modify" /\ ModifyAccepted(call[k]) /\ dit' = Modified(call[k])
           \/ /\ call[k].step = "setPassword" /\ SetPasswordAccepted(call[k])
              /\ dit' = PasswordSet(call[k])
    PROVE  EntriesMove(k)
<1>1. call[k].entry # None
  BY NoneAssumption DEF ClientInv, CallSound
<1>2. Spares(k)
  BY AddEffect, ModifyEffect, SetPasswordEffect
<1>3. \A d \in Entries' : d \in Entries \/ d = call[k].dn
  BY DEF Added, Modified, PasswordSet, With, Entries
<1> QED
  BY <1>1, <1>2, <1>3 DEF EntriesMove

LEMMA DeletedMoves ==
    ASSUME ClientInv, NEW k \in Kinds, dit' = Deleted(call[k])
    PROVE  EntriesMove(k)
<1>1. Spares(k)
  BY DeletedEffect
<1>2. \A d \in Entries' : d \in Entries
  BY DEF Deleted, Without, Entries
<1> QED
  BY <1>1, <1>2 DEF EntriesMove

LEMMA ClientStepMoves ==
    ASSUME ClientInv, NEW k \in Kinds, ClientStep(k)
    PROVE  CallMoves(k) /\ EntriesMove(k)
<1> DEFINE c == call[k]
<1>1. CASE Search(k)
  <2>1. c.step = "search" /\ UNCHANGED dit
    BY <1>1 DEF Search
  <2>2. CallMoves(k)
    BY <1>1, <2>1, BecomesMoves DEF Search, Goto, Return
  <2> QED
    BY <2>1, <2>2, UnchangedMoves
<1>2. CASE Add(k)
  <2>1. c.step = "add" /\ c.step \in Upserting
    BY <1>2 DEF Add, Upserting
  <2>2. CallMoves(k)
    BY <1>2, <2>1, BecomesMoves DEF Add, Fail, Return
  <2>3. dit' = Added(c) \/ UNCHANGED dit
    BY <1>2 DEF Add
  <2> QED
    BY <2>1, <2>2, <2>3, UnchangedMoves, WithMoves
<1>3. CASE Modify(k)
  <2>1. c.step = "modify" /\ c.step \in Upserting
    BY <1>3 DEF Modify, Upserting
  <2>2. CallMoves(k)
    BY <1>3, <2>1, BecomesMoves DEF Modify, Goto, Fail, Return
  <2>3. (ModifyAccepted(c) /\ dit' = Modified(c)) \/ UNCHANGED dit
    BY <1>3 DEF Modify
  <2> QED
    BY <2>1, <2>2, <2>3, UnchangedMoves, WithMoves
<1>4. CASE Bind(k)
  <2>1. c.step = "bind" /\ UNCHANGED dit
    BY <1>4 DEF Bind
  <2>2. CallMoves(k)
    BY <1>4, <2>1, BecomesMoves DEF Bind, Goto, Fail, Return
  <2> QED
    BY <2>1, <2>2, UnchangedMoves
<1>5. CASE SetPassword(k)
  <2>1. c.step = "setPassword" /\ c.step \in Upserting
    BY <1>5 DEF SetPassword, Upserting
  <2>2. CallMoves(k)
    BY <1>5, <2>1, BecomesMoves DEF SetPassword, Fail, Return
  <2>3. (SetPasswordAccepted(c) /\ dit' = PasswordSet(c)) \/ UNCHANGED dit
    BY <1>5 DEF SetPassword
  <2> QED
    BY <2>1, <2>2, <2>3, UnchangedMoves, WithMoves
<1>6. CASE DeleteSearch(k)
  <2>1. c.step = "delete" /\ UNCHANGED dit
    BY <1>6 DEF DeleteSearch
  <2>2. CallMoves(k)
    BY <1>6, <2>1, BecomesMoves DEF DeleteSearch
  <2> QED
    BY <2>1, <2>2, UnchangedMoves
<1>7. CASE DeleteRequest(k)
  <2>1. c.step = "delete" /\ (dit' = Deleted(c) \/ UNCHANGED dit)
    BY <1>7 DEF DeleteRequest
  <2>2. CallMoves(k)
    BY <1>7, <2>1, BecomesMoves DEF DeleteRequest, Fail, Return
  <2> QED
    BY <2>1, <2>2, UnchangedMoves, DeletedMoves
<1>8. CASE RequestFails(k)
  <2>1. c.step # "idle" /\ Fail(k) /\ UNCHANGED dit
    BY <1>8 DEF RequestFails
  <2> QED
    BY <2>1, BecomesMoves, UnchangedMoves DEF Fail, Return
<1>9. CASE ReplyLost(k)
  <2>1. /\ Fail(k) /\ c.step # "idle"
        /\ \/ c.step = "add" /\ dit' = Added(c)
           \/ c.step = "modify" /\ ModifyAccepted(c) /\ dit' = Modified(c)
           \/ c.step = "setPassword" /\ SetPasswordAccepted(c) /\ dit' = PasswordSet(c)
           \/ dit' = Deleted(c)
    BY <1>9 DEF ReplyLost
  <2>2. CallMoves(k)
    BY <2>1, BecomesMoves DEF Fail, Return
  <2>3. {"add", "modify", "setPassword"} \subseteq Upserting
    BY DEF Upserting
  <2> QED
    BY <2>1, <2>2, <2>3, WithMoves, DeletedMoves
<1> QED
  BY <1>1, <1>2, <1>3, <1>4, <1>5, <1>6, <1>7, <1>8, <1>9
     DEF ClientStep, Request, UpsertUser, UpsertEntry, Deletion

-----------------------------------------------------------------------------
(* What the reconciler knows of slapd.                                     *)

(* A worker has a call out only in the two steps that wait for one. *)
Linked(k) ==
    LET c == call[k]
        w == worker[k]
    IN  /\ w.pc \notin Calling => c.step = "idle"
        /\ w.pc = "deleteEntry" => c.step = "idle" \/ (c.entry = None /\ c.dn = w.dn)
        /\ w.pc = "upsertEntry" => c.step # "idle" /\ c.entry # None /\ c.dn = w.dn

(* The entry a worker has asked for is claimed. *)
Claimed(k) ==
    LET w == worker[k] IN
    w.pc = "upsertEntry" => [obj |-> w.key, uid |-> w.obj.uid, dn |-> w.dn] \in claims

(* What DeleteEntry has emptied stays empty until the finalizer is removed:  *)
(* the only client that adds entries of this kind serves this worker.        *)
Cleaned(k) ==
    LET w == worker[k] IN
    Emptied(w) => \A d \in Entries : Head(d).kind = k => ~IsSuffix(w.dn, d)

HistorySound ==
    /\ claims \subseteq [obj : Objects, uid : Nat, dn : DN]
    /\ \A c \in claims : Head(c.dn).kind = KindOf[c.obj]
    /\ abandoned \subseteq DN /\ outgrown \subseteq DN
    /\ blind \subseteq Objects

ObjectInv ==
    /\ ClientInv /\ DeletionInv /\ ReconcilerSound
    /\ HistorySound
    /\ \A k \in Kinds : Linked(k) /\ Claimed(k) /\ Cleaned(k)
    /\ EntriesTraced

LEMMA ClientKept ==
    ASSUME ClientInv, DeletionInv, UNCHANGED <<dit, call>>, faults' \in 0 .. MaxFaults
    PROVE  ClientInv' /\ DeletionInv'
BY DEF ClientInv, ClientTypeOK, PasswordsOfUsers, CallSound, Converging, Entries,
       DeletionInv, Rooted, Deleting

LEMMA AsideKeeps ==
    ASSUME ObjectInv, Aside
    PROVE  ObjectInv'
<1>1. faults' \in 0 .. MaxFaults /\ UNCHANGED <<dit, call, faults>>
  BY DEF ObjectInv, ClientInv, ClientTypeOK, Aside, clientVars
<1>2. ClientInv' /\ DeletionInv'
  BY <1>1, ClientKept DEF ObjectInv
<1>3. UNCHANGED <<worker, claims, abandoned, outgrown, blind>> /\ ReconcilerSound'
  BY DEF Aside, history
<1>4. \A k \in Kinds : (Linked(k) /\ Claimed(k) /\ Cleaned(k))'
  BY <1>1, <1>3 DEF ObjectInv, Linked, Claimed, Cleaned, Entries
<1>5. HistorySound' /\ EntriesTraced'
  BY <1>1, <1>3 DEF ObjectInv, HistorySound, EntriesTraced, Entries
<1> QED
  BY <1>2, <1>3, <1>4, <1>5 DEF ObjectInv

(* A quiet step of one worker; what it releases is looked at apart. *)
LEMMA QuietKeeps ==
    ASSUME ObjectInv, NEW k \in Kinds, Quiet(k), faults' \in 0 .. MaxFaults
    PROVE  /\ ClientInv' /\ DeletionInv' /\ ReconcilerSound'
           /\ \A j \in Kinds : Linked(j)' /\ Cleaned(j)'
<1>1. ClientInv' /\ DeletionInv' /\ ReconcilerSound'
  BY ClientKept DEF ObjectInv, Quiet
<1>2. UNCHANGED <<dit, call>> /\ \A j \in Kinds \ {k} : worker'[j] = worker[j]
  BY DEF Quiet
<1>3. ASSUME NEW j \in Kinds \ {k}
      PROVE  Linked(j)' /\ Cleaned(j)'
  BY <1>2, <1>3 DEF ObjectInv, Linked, Cleaned, Entries
<1>4. call[k].step = "idle" /\ call'[k] = call[k]
  BY <1>2 DEF ObjectInv, Linked, Quiet
<1>5. Linked(k)' /\ Cleaned(k)'
  BY <1>4 DEF Quiet, Linked, Cleaned
<1> QED
  BY <1>1, <1>3, <1>5

LEMMA QuietKeepsAll ==
    ASSUME ObjectInv, NEW k \in Kinds, Quiet(k), faults' \in 0 .. MaxFaults, UNCHANGED history
    PROVE  ObjectInv'
<1>1. /\ ClientInv' /\ DeletionInv' /\ ReconcilerSound'
      /\ \A j \in Kinds : Linked(j)' /\ Cleaned(j)'
  BY QuietKeeps
<1>2. UNCHANGED <<dit, claims, abandoned, outgrown, blind>>
  BY DEF Quiet, history
<1>3. \A j \in Kinds : Claimed(j)'
  BY <1>2 DEF ObjectInv, Quiet, Claimed
<1>4. HistorySound' /\ EntriesTraced'
  BY <1>2 DEF ObjectInv, HistorySound, EntriesTraced, Entries
<1> QED
  BY <1>1, <1>3, <1>4 DEF ObjectInv

(* The finalizer is removed and what was claimed is given up. *)
LEMMA RemoveFinalizerKeeps ==
    ASSUME ObjectInv, NEW k \in Kinds, RemoveFinalizer(k)
    PROVE  ObjectInv'
<1> DEFINE w == worker[k]
           o == w.key
<1>1. Quiet(k) /\ UNCHANGED faults /\ faults' \in 0 .. MaxFaults
  BY RemoveFinalizerQuiet
     DEF ObjectInv, ClientInv, ClientTypeOK, RemoveFinalizer, clientVars
<1>2. CASE UNCHANGED history
  BY <1>1, <1>2, QuietKeepsAll
<1>3. CASE Release(o, w)
  <2> DEFINE mine == {c \in claims : c.obj = o /\ c.uid = store[o].uid}
             left == {d \in Entries : \E c \in mine : c.dn = d}
  <2>1. /\ ClientInv' /\ DeletionInv' /\ ReconcilerSound'
        /\ \A j \in Kinds : Linked(j)' /\ Cleaned(j)'
    BY <1>1, QuietKeeps
  <2>2. w.pc = "removeFinalizer" /\ w.pc # "idle" /\ w.pc \notin Calling
    BY DEF RemoveFinalizer, At, Calling
  <2>3. o \in Objects /\ KindOf[o] = k
    BY <2>2, AtWork DEF ObjectInv
  <2>4. /\ claims' = claims \ mine
        /\ abandoned' = abandoned \cup {d \in left : w.dn = <<>> \/ w.failed}
        /\ outgrown' = outgrown \cup
             {d \in left : ~(w.dn = <<>> \/ w.failed) /\ ~IsSuffix(w.dn, d)}
        /\ blind' \subseteq blind \cup {o}
        /\ Entries' = Entries /\ Entries \subseteq DN
    BY <1>1, <1>3 DEF Release, Quiet, Entries, ObjectInv, ClientInv, ClientTypeOK
  <2>5. HistorySound'
    BY <2>3, <2>4 DEF ObjectInv, HistorySound
  <2>6. ASSUME NEW j \in Kinds
        PROVE  Claimed(j)'
    <3>1. CASE j = k
      BY <1>1, <3>1 DEF Quiet, Claimed
    <3>2. CASE j # k
      <4>1. worker'[j] = worker[j] /\ Claimed(j)
        BY <1>1, <3>2 DEF Quiet, ObjectInv
      <4>2. CASE worker[j].pc = "upsertEntry"
        <5>1. worker[j].key # o
          BY <2>3, <3>2, <4>2, AtWork DEF ObjectInv
        <5>2. [obj |-> worker[j].key, uid |-> worker[j].obj.uid, dn |-> worker[j].dn]
                \in claims \ mine
          BY <4>1, <4>2, <5>1 DEF Claimed
        <5> QED
          BY <2>4, <4>1, <5>2 DEF Claimed
      <4> QED
        BY <4>1, <4>2 DEF Claimed
    <3> QED
      BY <3>1, <3>2
  <2>7. ASSUME NEW d \in Entries
        PROVE  d \in abandoned' \/ d \in outgrown' \/ \E c \in claims' : c.dn = d
    <3>1. CASE d \in abandoned \/ d \in outgrown
      BY <2>4, <3>1
    <3>2. ASSUME NEW c \in claims, c.dn = d
          PROVE  d \in abandoned' \/ d \in outgrown' \/ c \in claims'
      <4>1. CASE c \in mine
        <5>1. Head(d).kind = k
          BY <2>3, <3>2, <4>1 DEF ObjectInv, HistorySound
        <5>2. w.dn = <<>> \/ w.failed \/ ~IsSuffix(w.dn, d)
          BY <2>2, <5>1 DEF ObjectInv, Cleaned, Emptied
        <5> QED
          BY <2>4, <3>2, <4>1, <5>2
      <4> QED
        BY <2>4, <4>1
    <3> QED
      BY <3>1, <3>2 DEF ObjectInv, EntriesTraced
  <2>8. EntriesTraced'
    BY <2>4, <2>7 DEF EntriesTraced
  <2> QED
    BY <2>1, <2>5, <2>6, <2>8 DEF ObjectInv
<1> QED
  BY <1>2, <1>3 DEF RemoveFinalizer, history

-----------------------------------------------------------------------------
(* Steps that call the client.                                             *)

(* What of the invariant a step of worker k and of its call leaves to show. *)
LEMMA OneWorkerKeeps ==
    ASSUME ObjectInv, NEW k \in Kinds, Spares(k),
           ClientInv', DeletionInv', ReconcilerSound',
           \A j \in Kinds \ {k} : worker'[j] = worker[j] /\ call'[j] = call[j],
           claims \subseteq claims', HistorySound', EntriesTraced',
           Linked(k)', Claimed(k)', Cleaned(k)'
    PROVE  ObjectInv'
<1>1. ASSUME NEW j \in Kinds \ {k}
      PROVE  Linked(j)' /\ Claimed(j)' /\ Cleaned(j)'
  <2>1. worker'[j] = worker[j] /\ call'[j] = call[j]
    OBVIOUS
  <2>2. Linked(j)'
    BY <2>1 DEF ObjectInv, Linked
  <2>3. Claimed(j)'
    BY <2>1 DEF ObjectInv, Claimed
  <2>4. Cleaned(j)'
    BY <2>1 DEF ObjectInv, Cleaned, Spares, Entries
  <2> QED
    BY <2>2, <2>3, <2>4
<1> QED
  BY <1>1 DEF ObjectInv

LEMMA ServedKeeps ==
    ASSUME ObjectInv, NEW k \in Kinds, ClientInv', DeletionInv', CallMoves(k), EntriesMove(k),
           UNCHANGED <<kubernetes, worker, environment, history>>
    PROVE  ObjectInv'
<1> DEFINE c == call[k]
           w == worker[k]
<1>1. ClientInv' /\ DeletionInv' /\ CallMoves(k) /\ EntriesMove(k)
  OBVIOUS
<1>2. /\ UNCHANGED <<store, cache, watch, queue, worker, directory, secret, used>>
      /\ UNCHANGED <<claims, abandoned, outgrown, blind>>
  BY DEF kubernetes, environment, history
<1>3. ReconcilerSound'
  <2>1. ApiSound'
    BY <1>2 DEF ObjectInv, ReconcilerSound, ApiSound
  <2>2. WorkersSound'
    BY <1>2 DEF ObjectInv, ReconcilerSound, WorkersSound, Sound
  <2>3. EnvironmentSound'
    BY <1>2 DEF ObjectInv, ReconcilerSound, EnvironmentSound
  <2> QED
    BY <2>1, <2>2, <2>3 DEF ReconcilerSound
<1>4. w.pc \in Calling /\ ~Emptied(w)
  BY <1>1 DEF ObjectInv, Linked, CallMoves, Calling, Emptied
<1>5. Linked(k)' /\ Claimed(k)' /\ Cleaned(k)'
  <2>1. Linked(k)'
    BY <1>1, <1>2, <1>4 DEF ObjectInv, Linked, CallMoves
  <2>2. Claimed(k)' /\ Cleaned(k)'
    BY <1>2, <1>4 DEF ObjectInv, Claimed, Cleaned
  <2> QED
    BY <2>1, <2>2
<1>6. HistorySound'
  BY <1>2 DEF ObjectInv, HistorySound
<1>7. EntriesTraced'
  <2>1. ASSUME NEW d \in Entries'
        PROVE  d \in abandoned' \/ d \in outgrown' \/ \E x \in claims' : x.dn = d
    <3>1. CASE d \in Entries
      BY <1>2, <3>1 DEF ObjectInv, EntriesTraced
    <3>2. CASE c.entry # None /\ d = c.dn
      <4>1. w.pc = "upsertEntry" /\ c.dn = w.dn
        BY <1>1, <1>4, <3>2 DEF ObjectInv, Linked, CallMoves, Calling
      <4>2. PICK x : x = [obj |-> w.key, uid |-> w.obj.uid, dn |-> w.dn]
        OBVIOUS
      <4>3. x \in claims /\ x.dn = w.dn
        BY <4>1, <4>2 DEF ObjectInv, Claimed
      <4> QED
        BY <1>2, <3>2, <4>1, <4>3
    <3> QED
      BY <1>1, <3>1, <3>2 DEF EntriesMove
  <2> QED
    BY <2>1 DEF EntriesTraced
<1> QED
  BY <1>1, <1>2, <1>3, <1>5, <1>6, <1>7, OneWorkerKeeps DEF CallMoves, EntriesMove

LEMMA ClientKeeps ==
    ASSUME ObjectInv, NEW k \in Kinds, ClientStep(k),
           UNCHANGED <<kubernetes, worker, environment, history>>
    PROVE  ObjectInv'
BY ClientStepSound, ClientStepDeletes, ClientStepMoves, ServedKeeps DEF ObjectInv

LEMMA DeleteEntryKeeps ==
    ASSUME ObjectInv, NEW k \in Kinds, DeleteEntry(k)
    PROVE  ObjectInv'
<1> DEFINE c == call[k]
           w == worker[k]
<1>1. /\ w.pc = "deleteEntry" /\ w.pc \in Composed /\ w.pc # "idle"
      /\ w.pc # "removeFinalizer" /\ "removeFinalizer" \in Pcs /\ "removeFinalizer" \notin Composed
      /\ UNCHANGED <<kubernetes, environment>> /\ UNCHANGED <<claims, abandoned, outgrown, blind>>
  BY StepNames DEF DeleteEntry, At, Composed, history
<1>2. /\ Sound(k, w) /\ w \in Worker /\ ~Emptied(w) /\ w.dn \in DN /\ Head(w.dn).kind = k
      /\ w.key \in Objects /\ KindOf[w.key] = k /\ w.obj \in VersionsOf(w.key)
      /\ c.step = "idle" \/ (c.entry = None /\ c.dn = w.dn)
  <2>1. /\ Sound(k, w) /\ w \in Worker /\ ~Emptied(w)
        /\ w.key \in Objects /\ KindOf[w.key] = k /\ w.obj \in VersionsOf(w.key)
    BY <1>1, AtWork DEF ObjectInv
  <2>2. c.step = "idle" \/ (c.entry = None /\ c.dn = w.dn)
    BY <1>1 DEF ObjectInv, Linked
  <2> QED
    BY <1>1, <2>1, <2>2 DEF Sound
<1>3. ApiSound' /\ EnvironmentSound'
  BY <1>1 DEF ObjectInv, ReconcilerSound, ApiSound, EnvironmentSound, kubernetes, environment
<1>4. ASSUME UNCHANGED dit
      PROVE  Spares(k) /\ HistorySound' /\ EntriesTraced'
  BY <1>1, <1>4, Unchanged DEF ObjectInv, HistorySound, EntriesTraced, Entries
<1>5. CASE CallDelete(k, w.dn, TRUE) /\ UNCHANGED worker
  <2>1. ClientInv' /\ DeletionInv'
    BY <1>2, <1>5, CallDeleteStep, CallDeleteDeletes DEF ObjectInv
  <2>2. /\ call'[k].entry = None /\ call'[k].dn = w.dn /\ UNCHANGED dit
        /\ \A j \in Kinds \ {k} : call'[j] = call[j]
    BY <1>5 DEF CallDelete, NewCall, ObjectInv, ClientInv, ClientTypeOK
  <2>3. Linked(k)' /\ Claimed(k)' /\ Cleaned(k)'
    BY <1>1, <1>2, <1>5, <2>2 DEF Linked, Claimed, Cleaned, Calling
  <2>4. ReconcilerSound'
    BY <1>3, <1>5 DEF ObjectInv, ReconcilerSound, WorkersSound, Sound
  <2> QED
    BY <1>1, <1>4, <1>5, <2>1, <2>2, <2>3, <2>4, OneWorkerKeeps
<1>6. CASE /\ Collect(k)
           /\ worker' = [worker EXCEPT ![k] =
                [To(w, "removeFinalizer") EXCEPT !.failed = ~c.ok]]
  <2>1. ClientInv' /\ DeletionInv'
    BY <1>6, CollectStep, CollectDeletes DEF ObjectInv
  <2>2. /\ c.step = "returned" /\ call'[k].step = "idle" /\ UNCHANGED dit
        /\ \A j \in Kinds \ {k} : call'[j] = call[j]
        /\ c \in Call /\ c.ok \in BOOLEAN
    BY <1>6 DEF Collect, NoCall, NewCall, ObjectInv, ClientInv, ClientTypeOK, Call
  <2>3. PICK n : n = [To(w, "removeFinalizer") EXCEPT !.failed = ~c.ok]
    OBVIOUS
  <2>4. /\ n \in Worker /\ n.pc = "removeFinalizer" /\ n.key = w.key /\ n.obj = w.obj
        /\ n.dn = w.dn /\ (c.ok \/ n.failed)
    BY <1>1, <1>2, <2>2, <2>3 DEF To, Worker
  <2>5. Sound(k, n)
    BY <1>1, <1>2, <2>4 DEF Sound, Nameless
  <2>6. /\ WorkersSound' /\ worker'[k] = n
        /\ \A j \in Kinds \ {k} : worker'[j] = worker[j]
    BY <1>6, <2>3, <2>5, WorkerMoves DEF ObjectInv, ReconcilerSound
  <2>7. c.ok => \A d \in Entries : ~IsSuffix(w.dn, d)
    BY <1>2, <2>2, SubtreeGone DEF ObjectInv, DeletedSubtreeGone
  <2>8. Linked(k)' /\ Claimed(k)' /\ Cleaned(k)'
    BY <2>2, <2>4, <2>6, <2>7 DEF Linked, Claimed, Cleaned, Calling, Entries, Emptied
  <2>9. ReconcilerSound'
    BY <1>3, <2>6 DEF ReconcilerSound
  <2> QED
    BY <1>1, <1>4, <2>1, <2>2, <2>6, <2>8, <2>9, OneWorkerKeeps
<1> QED
  BY <1>5, <1>6 DEF DeleteEntry

(* What the mappers make of a spec is what a client may be asked for. *)
LEMMA EntryOfSound ==
    ASSUME EnvironmentSound, NEW o \in Objects, NEW v \in VersionsOf(o)
    PROVE  EntryOf(v.spec) \in Desired /\ Wanted(KindOf[o], EntryOf(v.spec))
<1>1. PICK s : s = v.spec
  OBVIOUS
<1>2. /\ s \in ObjectSpec
      /\ Wanted(KindOf[o], [content |-> s.content, pw |-> s.secretRef])
  BY <1>1, ObjectsAssumption DEF VersionsOf, Version
<1>3. PICK p : p = IF s.secretRef = None THEN None ELSE secret[s.secretRef]
  OBVIOUS
<1>4. p \in Secrets /\ (s.secretRef = None => p = None)
  BY <1>2, <1>3 DEF EnvironmentSound, ObjectSpec, Secrets
<1>5. PICK e : e = [name |-> s.name, content |-> s.content, pw |-> p]
  OBVIOUS
<1>6. e = EntryOf(s)
  BY <1>3, <1>5 DEF EntryOf
<1>7. e \in Desired /\ Wanted(KindOf[o], e)
  BY <1>2, <1>4, <1>5 DEF Desired, ObjectSpec, Wanted
<1> QED
  BY <1>1, <1>6, <1>7

LEMMA MapToEntryKeeps ==
    ASSUME ObjectInv, NEW k \in Kinds, MapToEntry(k)
    PROVE  ObjectInv'
<1> DEFINE w == worker[k]
<1>1. /\ w.pc = "mapToEntry" /\ w.pc \in Composed /\ w.pc # "idle" /\ w.pc # "removeFinalizer"
      /\ w.pc \notin Calling /\ "upsertEntry" \in Composed /\ "upsertEntry" \in Pcs \ {"idle"}
      /\ UNCHANGED <<store, cache, watch, environment>>
  BY StepNames DEF MapToEntry, At, Composed, Calling
<1>2. /\ Sound(k, w) /\ w \in Worker /\ ~Emptied(w)
      /\ w.key \in Objects /\ KindOf[w.key] = k /\ w.obj \in VersionsOf(w.key)
  BY <1>1, AtWork DEF ObjectInv
<1>3. w.dn \in DN /\ Head(w.dn).kind = k
  BY <1>1, <1>2 DEF Sound
<1>4. CASE MarkFailed(k, FALSE) /\ UNCHANGED <<clientVars, history>>
  <2>1. Quiet(k)
    BY <1>1, <1>4, MarkingQuiet DEF ObjectInv, clientVars
  <2>2. faults' \in 0 .. MaxFaults
    BY <1>4 DEF ObjectInv, ClientInv, ClientTypeOK, clientVars
  <2> QED
    BY <1>4, <2>1, <2>2, QuietKeepsAll
<1>5. CASE /\ CallUpsert(k, w.dn, EntryOf(w.obj.spec))
           /\ Continue(k, To(w, "upsertEntry"))
           /\ claims' = claims \cup {[obj |-> w.key, uid |-> w.obj.uid, dn |-> w.dn]}
           /\ UNCHANGED <<abandoned, outgrown, blind>>
  <2>1. PICK entry : entry = EntryOf(w.obj.spec)
    OBVIOUS
  <2>2. entry \in Desired /\ Wanted(k, entry) /\ entry # None
    BY <1>2, <2>1, EntryOfSound, NoneAssumption DEF ObjectInv, ReconcilerSound
  <2>3. ClientInv' /\ DeletionInv'
    BY <1>3, <1>5, <2>1, <2>2, CallUpsertStep, CallUpsertDeletes DEF ObjectInv
  <2>4. /\ call'[k].step # "idle" /\ call'[k].entry # None /\ call'[k].dn = w.dn
        /\ UNCHANGED dit /\ \A j \in Kinds \ {k} : call'[j] = call[j]
    BY <1>5, <2>1, <2>2 DEF CallUpsert, NewCall, ObjectInv, ClientInv, ClientTypeOK
  <2>5. PICK n : n = To(w, "upsertEntry")
    OBVIOUS
  <2>6. /\ Sound(k, n) /\ n.pc = "upsertEntry" /\ n.key = w.key /\ n.obj = w.obj
        /\ n.dn = w.dn /\ ~Emptied(n)
    BY <1>1, <1>2, <2>5, ToSound DEF Nameless
  <2>7. /\ WorkersSound' /\ worker'[k] = n /\ queue' \subseteq Objects
        /\ \A j \in Kinds \ {k} : worker'[j] = worker[j]
    BY <1>5, <2>5, <2>6, ContinueSound DEF ObjectInv, ReconcilerSound
  <2>8. ReconcilerSound'
    BY <1>1, <2>7, WrittenSound DEF ObjectInv, ReconcilerSound, EnvironmentSound, environment
  <2>9. PICK x : x = [obj |-> w.key, uid |-> w.obj.uid, dn |-> w.dn]
    OBVIOUS
  <2>10. x \in [obj : Objects, uid : Nat, dn : DN] /\ Head(x.dn).kind = KindOf[x.obj]
    <3>1. w.obj.uid \in Nat
      BY <1>2, VersionParts
    <3> QED
      BY <1>2, <1>3, <2>9, <3>1
  <2>11. HistorySound' /\ claims \subseteq claims'
    BY <1>5, <2>9, <2>10 DEF ObjectInv, HistorySound
  <2>12. EntriesTraced'
    BY <1>5, <2>4 DEF ObjectInv, EntriesTraced, Entries
  <2>13. Linked(k)' /\ Claimed(k)' /\ Cleaned(k)'
    BY <1>5, <2>4, <2>6, <2>7 DEF Linked, Claimed, Cleaned, Calling
  <2>14. Spares(k)
    BY <2>4, Unchanged DEF ObjectInv
  <2> QED
    BY <2>3, <2>4, <2>7, <2>8, <2>11, <2>12, <2>13, <2>14, OneWorkerKeeps
<1> QED
  BY <1>4, <1>5 DEF MapToEntry

LEMMA CreateOrUpdateEntryKeeps ==
    ASSUME ObjectInv, NEW k \in Kinds, CreateOrUpdateEntry(k)
    PROVE  ObjectInv'
<1> DEFINE w == worker[k]
<1>1. /\ w.pc = "upsertEntry" /\ w.pc # "idle" /\ w.pc # "removeFinalizer"
      /\ Collect(k) /\ UNCHANGED <<store, cache, watch, environment>>
      /\ UNCHANGED <<claims, abandoned, outgrown, blind>>
  BY DEF CreateOrUpdateEntry, At, history
<1>2. ~Emptied(w)
  BY <1>1, AtWork DEF ObjectInv
<1>3. /\ call'[k].step = "idle" /\ UNCHANGED dit
      /\ \A j \in Kinds \ {k} : call'[j] = call[j]
  BY <1>1 DEF Collect, NoCall, NewCall, ObjectInv, ClientInv, ClientTypeOK
<1>4. ClientInv' /\ DeletionInv'
  BY <1>1, CollectStep, CollectDeletes DEF ObjectInv
<1>5. /\ WorkersSound' /\ queue' \subseteq Objects
      /\ worker'[k].pc \in {"idle", "mark"} /\ ~Emptied(worker'[k])
      /\ \A j \in Kinds \ {k} : worker'[j] = worker[j]
  <2>1. CASE Finish(k, FALSE)
    BY <1>1, <2>1, FinishSound, IdleSound DEF ObjectInv, ReconcilerSound
  <2>2. CASE MarkFailed(k, FALSE) \/ Continue(k, Marking(w, "Ready", FALSE))
    <3>1. /\ WorkersSound' /\ queue' \subseteq Objects /\ worker'[k].pc = "mark"
          /\ \A j \in Kinds \ {k} : worker'[j] = worker[j]
      BY <1>1, <1>2, <2>2, MarkFailedSound DEF ObjectInv
    <3>2. ~Emptied(worker'[k])
      BY <3>1 DEF Emptied
    <3> QED
      BY <3>1, <3>2
  <2> QED
    BY <2>1, <2>2 DEF CreateOrUpdateEntry
<1>6. ReconcilerSound'
  BY <1>1, <1>5, WrittenSound DEF ObjectInv, ReconcilerSound, EnvironmentSound, environment
<1>7. HistorySound' /\ EntriesTraced' /\ Spares(k)
  BY <1>1, <1>3, Unchanged DEF ObjectInv, HistorySound, EntriesTraced, Entries
<1>8. Linked(k)' /\ Claimed(k)' /\ Cleaned(k)'
  BY <1>3, <1>5 DEF Linked, Claimed, Cleaned, Calling
<1> QED
  BY <1>1, <1>3, <1>4, <1>5, <1>6, <1>7, <1>8, OneWorkerKeeps

LEMMA ProcessStartsKeeps ==
    ASSUME ObjectInv, ProcessStarts, UNCHANGED used,
           directory' \in DirectoryVersion \cup {None}, faults' \in 0 .. MaxFaults
    PROVE  ObjectInv'
<1>1. ReconcilerSound'
  BY ProcessStartsSound DEF ObjectInv
<1>2. /\ call' = [k \in Kinds |-> NoCall] /\ UNCHANGED <<dit, claims, abandoned, outgrown, blind>>
      /\ worker' = [k \in Kinds |-> Idle]
  BY DEF ProcessStarts, history
<1>3. NoCall \in Call /\ NoCall.step = "idle" /\ NoCall.entry = None
  <2>1. "idle" \in Steps /\ <<>> \in Seq(RDN) /\ <<>> \in Seq(Frame)
    BY DEF Steps
  <2> QED
    BY <2>1 DEF NoCall, NewCall, Call
<1>4. ClientInv'
  <2>1. ClientTypeOK' /\ PasswordsOfUsers'
    BY <1>2, <1>3 DEF ObjectInv, ClientInv, ClientTypeOK, PasswordsOfUsers, Entries
  <2>2. ASSUME NEW k \in Kinds
        PROVE  CallSound(k)' /\ Converging(k)'
    BY <1>2, <1>3 DEF CallSound, Converging, Upserting
  <2> QED
    BY <2>1, <2>2 DEF ClientInv
<1>5. DeletionInv'
  BY <1>2, <1>3 DEF ObjectInv, DeletionInv, Rooted, Deleting, Entries
<1>6. \A k \in Kinds : (Linked(k) /\ Claimed(k) /\ Cleaned(k))'
  BY <1>2, <1>3, IdleSound DEF Linked, Claimed, Cleaned, Calling
<1>7. HistorySound' /\ EntriesTraced'
  BY <1>2 DEF ObjectInv, HistorySound, EntriesTraced, Entries
<1> QED
  BY <1>1, <1>4, <1>5, <1>6, <1>7 DEF ObjectInv

-----------------------------------------------------------------------------
(* The specification.                                                      *)

LEMMA ObjectInitSound ==
    ASSUME Init
    PROVE  ObjectInv
<1>1. ClientInv /\ DeletionInv
  BY ClientInitSound, DeletionInitSound DEF Init
<1>2. /\ store = [o \in Objects |-> None] /\ cache = store
      /\ watch = [o \in Objects |-> <<>>] /\ queue = {}
      /\ worker = [k \in Kinds |-> Idle]
      /\ claims = {} /\ abandoned = {} /\ outgrown = {} /\ blind = {}
      /\ dit = [d \in {} |-> None] /\ call = [k \in Kinds |-> NoCall]
      /\ directory \in DirectoryVersion \cup {None}
      /\ secret \in [SecretRefs -> Passwords \cup {None}]
      /\ used = [e \in Events |-> 0]
  BY DirectoriesAssumption DEF Init, ClientInit
<1>3. ApiSound
  <2>1. /\ <<>> \in Seq(Version \cup {None})
        /\ \A o \in Objects : <<>> \in Seq(VersionsOf(o) \cup {None})
    OBVIOUS
  <2> QED
    BY <1>2, <2>1 DEF ApiSound
<1>4. WorkersSound
  BY <1>2, IdleSound DEF WorkersSound
<1>5. EnvironmentSound
  BY <1>2 DEF EnvironmentSound
<1>6. HistorySound /\ EntriesTraced
  BY <1>2 DEF HistorySound, EntriesTraced, Entries
<1>7. \A k \in Kinds : Linked(k) /\ Claimed(k) /\ Cleaned(k)
  BY <1>2, IdleSound DEF Linked, Claimed, Cleaned, Calling, NoCall, NewCall
<1> QED
  BY <1>1, <1>3, <1>4, <1>5, <1>6, <1>7 DEF ObjectInv, ReconcilerSound

LEMMA ReconcileKeeps ==
    ASSUME ObjectInv, NEW k \in Kinds, Reconcile(k)
    PROVE  ObjectInv'
<1>1. CASE \/ AddFinalizer(k) \/ ResolveReferences(k) \/ ResolveDirectory(k)
           \/ ResolveParent(k) \/ GetDistinguishedName(k) \/ SetOwner(k) \/ Mark(k)
  <2>1. UNCHANGED <<clientVars, history>>
    BY <1>1 DEF AddFinalizer, ResolveReferences, ResolveDirectory, ResolveParent,
                GetDistinguishedName, SetOwner, Mark
  <2>2. Quiet(k)
    BY <1>1, AddFinalizerQuiet, ResolveReferencesQuiet, ResolveDirectoryQuiet,
       ResolveParentQuiet, GetDistinguishedNameQuiet, SetOwnerQuiet, MarkQuiet DEF ObjectInv
  <2>3. faults' \in 0 .. MaxFaults
    BY <2>1 DEF ObjectInv, ClientInv, ClientTypeOK, clientVars
  <2> QED
    BY <2>1, <2>2, <2>3, QuietKeepsAll
<1> QED
  BY <1>1, DeleteEntryKeeps, RemoveFinalizerKeeps, MapToEntryKeeps, CreateOrUpdateEntryKeeps
     DEF Reconcile

LEMMA EnvironmentKeeps ==
    ASSUME ObjectInv, Environment
    PROVE  ObjectInv'
<1>1. ASSUME NEW o \in Objects, Users(o) \/ Resync(o)
      PROVE  ObjectInv'
  BY <1>1, UsersAside, ResyncAside, AsideKeeps DEF ObjectInv
<1>2. ASSUME NEW s \in SecretRefs, SecretWritten(s) \/ SecretDeleted(s)
      PROVE  ObjectInv'
  BY <1>2, SecretAside, AsideKeeps DEF ObjectInv
<1>3. CASE DirectoryChanges \/ DirectoryDeleted
  BY <1>3, DirectoryAside, AsideKeeps DEF ObjectInv
<1>4. ASSUME Fault
      PROVE  faults' \in 0 .. MaxFaults
  BY <1>4, MaxFaultsAssumption DEF Fault, ObjectInv, ClientInv, ClientTypeOK
<1>5. CASE Crash
  BY <1>4, <1>5, ProcessStartsKeeps
     DEF Crash, Restart, ObjectInv, ReconcilerSound, EnvironmentSound
<1>6. ASSUME NEW k \in Kinds, ApiFails(k)
      PROVE  ObjectInv'
  <2>1. Quiet(k)
    BY <1>6, ApiFailsQuiet DEF ObjectInv
  <2> QED
    BY <1>4, <1>6, <2>1, QuietKeepsAll DEF ApiFails
<1>7. ASSUME NEW k \in Kinds, ClientFails(k)
      PROVE  ObjectInv'
  BY <1>7, ClientKeeps DEF ClientFails, ClientStep
<1> QED
  BY <1>1, <1>2, <1>3, <1>5, <1>6, <1>7 DEF Environment

LEMMA ObjectNextSound ==
    ASSUME ObjectInv, [Next]_vars
    PROVE  ObjectInv'
<1>1. ASSUME NEW k \in Kinds, Panic(k)
      PROVE  ObjectInv'
  <2>1. faults' \in 0 .. MaxFaults
    BY <1>1 DEF Panic, ObjectInv, ClientInv, ClientTypeOK
  <2> QED
    BY <1>1, <2>1, ProcessStartsKeeps
       DEF Panic, Restart, ObjectInv, ReconcilerSound, EnvironmentSound
<1>2. ASSUME NEW k \in Kinds, ClientRequest(k)
      PROVE  ObjectInv'
  BY <1>2, ClientKeeps DEF ClientRequest, ClientStep
<1>3. ASSUME NEW k \in Kinds, NEW o \in Objects, Get(k, o)
      PROVE  ObjectInv'
  <2>1. Quiet(k)
    BY <1>3, GetQuiet DEF ObjectInv
  <2>2. faults' \in 0 .. MaxFaults /\ UNCHANGED history
    BY <1>3 DEF Get, ObjectInv, ClientInv, ClientTypeOK, clientVars
  <2> QED
    BY <2>1, <2>2, QuietKeepsAll
<1>4. ASSUME NEW o \in Objects, Sync(o) \/ GarbageCollect(o)
      PROVE  ObjectInv'
  BY <1>4, SyncAside, GarbageCollectAside, AsideKeeps DEF ObjectInv
<1>5. CASE UNCHANGED vars
  <2>1. Aside
    BY <1>5, EnvironmentAside DEF vars, environment, ObjectInv, ReconcilerSound, EnvironmentSound
  <2> QED
    BY <2>1, AsideKeeps
<1> QED
  BY <1>1, <1>2, <1>3, <1>4, <1>5, ReconcileKeeps, EnvironmentKeeps DEF Next

LEMMA ObjectInvHolds == Spec => []ObjectInv
<1>1. Init => ObjectInv
  BY ObjectInitSound
<1>2. ObjectInv /\ [Next]_vars => ObjectInv'
  BY ObjectNextSound
<1> QED
  BY <1>1, <1>2, PTL DEF Spec

(* Whatever users, controllers, informers, slapd and crashes do, every       *)
(* variable keeps its type, and a worker works on an object of its own kind. *)
THEOREM TypeCorrect == Spec => []TypeOK
<1>1. ObjectInv => TypeOK
  <2>1. SUFFICES ASSUME ObjectInv PROVE TypeOK
    OBVIOUS
  <2>2. ASSUME NEW k \in Kinds, worker[k].pc # "idle"
        PROVE  /\ worker[k].key \in Objects /\ KindOf[worker[k].key] = k
               /\ worker[k].obj # None
    BY <2>1, <2>2, AtWork, VersionParts DEF ObjectInv
  <2>3. claims \subseteq [obj : Objects, uid : Nat, dn : Seq(RDN)]
    BY <2>1 DEF ObjectInv, HistorySound, DN
  <2> QED
    BY <2>1, <2>2, <2>3
       DEF TypeOK, ObjectInv, ClientInv, ReconcilerSound, ApiSound, WorkersSound,
           EnvironmentSound, HistorySound
<1> QED
  BY <1>1, ObjectInvHolds, PTL

(* Every entry in slapd is accounted for: it belongs to an object that will  *)
(* still delete it, or was there when its object was released after a failed *)
(* DeleteEntry or with an unresolvable reference (lines 92-108, 218-236), or *)
(* else it has a name that its object no longer had when it was released and *)
(* that is not below the one that was deleted - however the workers, crashes *)
(* and lost replies interleave.                                              *)
THEOREM NothingLeaks == Spec => []EntriesTraced
<1>1. ObjectInv => EntriesTraced
  BY DEF ObjectInv
<1> QED
  BY <1>1, ObjectInvHolds, PTL

(* The reconciler's workers are callers the promises of the client hold for: *)
(* an upsert that reports success has converged and a cascading DeleteEntry  *)
(* that does has left nothing, whatever the other workers, users and crashes *)
(* do meanwhile.                                                             *)
THEOREM CallsKeepPromises == Spec => [](UpsertConverged /\ DeletedSubtreeGone)
<1>1. ObjectInv => UpsertConverged
  BY DEF ObjectInv, ClientInv, Converging, UpsertConverged
<1>2. ObjectInv => DeletedSubtreeGone
  BY SubtreeGone DEF ObjectInv
<1> QED
  BY <1>1, <1>2, ObjectInvHolds, PTL

-----------------------------------------------------------------------------
(***************************************************************************)
(* Where no object is renamed or moved, nor created again elsewhere, it    *)
(* has one name, home[o], whatever versions of it and of its ancestors the *)
(* reconciler sees.  So DeleteEntry is called for the very name the entry  *)
(* was asked for, and nothing is outgrown.                                 *)
(***************************************************************************)

Upto(p, path) == IF p \in Objects THEN path[p] ELSE <<>>

(* Every spec an object may be given puts it at home[o], unless its parent   *)
(* is no LDAP object, for then it gets no name at all.                       *)
StayAt(home) ==
    /\ home \in [Objects -> DN]
    /\ \A o \in Objects : \A spec \in Specs[o] : spec.parent # Foreign =>
          home[o] = <<[kind |-> KindOf[o], name |-> spec.name]>> \o Upto(spec.parent, home)

NothingMoves == \E home : StayAt(home)

(* The name a worker has composed, complete or not, is the one of its object. *)
NamedFor(w, home) ==
    /\ (w.pc = "getDistinguishedName" /\ w.climb # Foreign)
          => w.dn \o Upto(w.climb, home) = home[w.key]
    /\ w.pc \in {"deleteEntry", "setOwner", "mapToEntry", "upsertEntry"} => w.dn = home[w.key]
    /\ w.pc = "removeFinalizer" => w.dn \in {<<>>, home[w.key]}

HomeInv(home) ==
    /\ \A k \in Kinds : NamedFor(worker[k], home)
    /\ \A c \in claims : c.dn = home[c.obj]
    /\ outgrown = {}

LEMMA HomeParts ==
    ASSUME NEW home, StayAt(home), NEW o \in Objects, NEW v \in VersionsOf(o),
           v.spec.parent # Foreign
    PROVE  /\ RDNOf(o, v) \in RDN /\ Upto(v.spec.parent, home) \in Seq(RDN)
           /\ home[o] = <<RDNOf(o, v)>> \o Upto(v.spec.parent, home)
<1>1. home[o] = <<[kind |-> KindOf[o], name |-> v.spec.name]>> \o Upto(v.spec.parent, home)
  BY VersionParts DEF StayAt
<1>2. Upto(v.spec.parent, home) \in Seq(RDN)
  <2>1. <<>> \in Seq(RDN)
    OBVIOUS
  <2>2. \A p \in Objects : home[p] \in Seq(RDN)
    BY DEF StayAt, DN
  <2> QED
    BY <2>1, <2>2 DEF Upto
<1> QED
  BY <1>1, <1>2, RDNSound DEF RDNOf

(* The next ancestor's name is a part of the complete one. *)
LEMMA AppendUp ==
    ASSUME NEW dn \in Seq(RDN), NEW r \in RDN, NEW s \in Seq(RDN)
    PROVE  Append(dn, r) \o s = dn \o (<<r>> \o s)
<1>1. Append(dn, r) = dn \o <<r>> /\ <<r>> \in Seq(RDN)
  OBVIOUS
<1> QED
  BY <1>1, ConcatAssociative

(* One worker moves on, and nothing is claimed or released. *)
LEMMA OnHome ==
    ASSUME NEW home, HomeInv(home), NEW k \in Kinds, NEW n, NamedFor(n, home),
           worker' = [worker EXCEPT ![k] = n] \/ Continue(k, n),
           ReconcilerSound, UNCHANGED history
    PROVE  HomeInv(home)'
<1>1. \A j \in Kinds : worker'[j] \in {n, worker[j]}
  BY DEF Continue, ReconcilerSound, WorkersSound
<1>2. ASSUME NEW j \in Kinds
      PROVE  NamedFor(worker'[j], home)
  BY <1>1 DEF HomeInv
<1> QED
  BY <1>2 DEF HomeInv, history

LEMMA EndHome ==
    ASSUME NEW home, HomeInv(home), ReconcilerSound, UNCHANGED history, NEW k \in Kinds,
           (\E requeue : Finish(k, requeue)) \/ MarkPending(k)
           \/ \E requeue : MarkFailed(k, requeue)
    PROVE  HomeInv(home)'
<1>1. ASSUME NEW n, worker' = [worker EXCEPT ![k] = n], n.pc \in {"idle", "mark"}
      PROVE  HomeInv(home)'
  <2>1. NamedFor(n, home)
    BY <1>1 DEF NamedFor
  <2> QED
    BY <1>1, <2>1, OnHome
<1>2. CASE \E requeue : Finish(k, requeue)
  BY <1>1, <1>2, IdleSound DEF Finish
<1>3. ASSUME NEW phase, NEW requeue, Continue(k, Marking(worker[k], phase, requeue))
      PROVE  HomeInv(home)'
  <2>1. PICK n : n = Marking(worker[k], phase, requeue)
    OBVIOUS
  <2>2. worker[k] \in Worker
    BY DEF ReconcilerSound, WorkersSound
  <2>3. n.pc = "mark"
    BY <2>1, <2>2 DEF Marking, Worker
  <2> QED
    BY <1>1, <1>3, <2>1, <2>3 DEF Continue
<1> QED
  BY <1>2, <1>3 DEF MarkPending, MarkFailed

LEMMA ResolveHome ==
    ASSUME NEW home, HomeInv(home), ObjectInv, NEW k \in Kinds,
           AddFinalizer(k) \/ ResolveReferences(k) \/ ResolveDirectory(k)
    PROVE  HomeInv(home)'
<1> DEFINE w == worker[k]
<1>0. ReconcilerSound /\ UNCHANGED history
  BY DEF ObjectInv, AddFinalizer, ResolveReferences, ResolveDirectory
<1>1. w.pc \in {"addFinalizer", "resolveReferences", "resolveDirectory"} /\ w.pc # "idle"
  BY DEF AddFinalizer, ResolveReferences, ResolveDirectory, At
<1>2. w \in Worker /\ (w.pc = "resolveReferences" => w.dn = <<>>)
  BY <1>0, <1>1, AtWork DEF Sound, Nameless
<1>3. CASE (\E requeue : Finish(k, requeue)) \/ MarkPending(k)
  BY <1>0, <1>3, EndHome
<1>4. ASSUME NEW n, Continue(k, n),
             n.pc \in {"resolveReferences", "resolveDirectory", "resolveParent"}
      PROVE  HomeInv(home)'
  <2>1. NamedFor(n, home)
    BY <1>4 DEF NamedFor
  <2> QED
    BY <1>0, <1>4, <2>1, OnHome
<1>5. CASE w.pc = "resolveReferences" /\ Continue(k, To(w, "removeFinalizer"))
  <2>1. PICK n : n = To(w, "removeFinalizer")
    OBVIOUS
  <2>2. n.pc = "removeFinalizer" /\ n.dn = <<>>
    BY <1>2, <1>5, <2>1 DEF To, Worker
  <2>3. NamedFor(n, home)
    BY <2>2 DEF NamedFor
  <2> QED
    BY <1>0, <1>5, <2>1, <2>3, OnHome
<1>6. CASE AddFinalizer(k)
  <2>1. ASSUME NEW v, Continue(k, [To(w, "resolveReferences") EXCEPT !.obj = v])
        PROVE  HomeInv(home)'
    <3>1. PICK n : n = [To(w, "resolveReferences") EXCEPT !.obj = v]
      OBVIOUS
    <3>2. n.pc = "resolveReferences"
      BY <1>2, <3>1 DEF To, Worker
    <3> QED
      BY <1>4, <2>1, <3>1, <3>2
  <2> QED
    BY <1>3, <1>6, <2>1 DEF AddFinalizer
<1>7. CASE ResolveReferences(k)
  <2>1. To(w, "resolveDirectory").pc = "resolveDirectory"
    BY <1>2 DEF To, Worker
  <2> QED
    BY <1>3, <1>4, <1>5, <1>7, <2>1 DEF ResolveReferences, Unresolved, At
<1>8. CASE ResolveDirectory(k)
  <2>1. PICK n : n = [To(w, "resolveParent") EXCEPT
                        !.owner = [name |-> Directory, uid |-> directory.uid]]
    OBVIOUS
  <2>2. n.pc = "resolveParent"
    BY <1>2, <2>1 DEF To, Worker
  <2> QED
    BY <1>3, <1>4, <1>8, <2>1, <2>2 DEF ResolveDirectory
<1> QED
  BY <1>6, <1>7, <1>8

LEMMA ResolveParentHome ==
    ASSUME NEW home, StayAt(home), HomeInv(home), ObjectInv, NEW k \in Kinds, ResolveParent(k)
    PROVE  HomeInv(home)'
<1> DEFINE w == worker[k]
<1>0. PICK o, v, p : o = w.key /\ v = w.obj /\ p = v.spec.parent
  OBVIOUS
<1>1. ReconcilerSound /\ UNCHANGED history /\ w.pc = "resolveParent" /\ w.pc # "idle"
  BY DEF ObjectInv, ResolveParent, At
<1>2. w \in Worker /\ o \in Objects /\ v \in VersionsOf(o)
  BY <1>0, <1>1, AtWork
<1>3. CASE MarkPending(k) \/ MarkFailed(k, TRUE)
  BY <1>1, <1>3, EndHome
<1>4. ASSUME NEW n, Continue(k, n), n = Named(w) \/ \E owner : n = [Named(w) EXCEPT !.owner = owner]
      PROVE  HomeInv(home)'
  <2>1. /\ n.pc = "getDistinguishedName" /\ n.key = o
        /\ n.dn = <<RDNOf(o, v)>> /\ n.climb = p
    BY <1>0, <1>2, <1>4 DEF Named, To, Worker
  <2>2. NamedFor(n, home)
    BY <1>0, <1>2, <2>1, HomeParts DEF NamedFor
  <2> QED
    BY <1>1, <1>4, <2>2, OnHome
<1> QED
  BY <1>0, <1>3, <1>4 DEF ResolveParent

LEMMA GetDistinguishedNameHome ==
    ASSUME NEW home, StayAt(home), HomeInv(home), ObjectInv, NEW k \in Kinds,
           GetDistinguishedName(k)
    PROVE  HomeInv(home)'
<1> DEFINE w == worker[k]
<1>0. PICK o, p, dn : o = w.key /\ p = w.climb /\ dn = w.dn
  OBVIOUS
<1>1. ReconcilerSound /\ UNCHANGED history /\ w.pc = "getDistinguishedName" /\ w.pc # "idle"
  BY DEF ObjectInv, GetDistinguishedName, At
<1>2. w \in Worker /\ dn \in Seq(RDN) /\ (p # Foreign => dn \o Upto(p, home) = home[o])
  BY <1>0, <1>1, AtWork DEF Worker, HomeInv, NamedFor
<1>3. CASE Finish(k, TRUE)
  BY <1>1, <1>3, EndHome
<1>4. CASE p \in Objects /\ cache[p] # None /\ Continue(k, Ascended(w, p))
  <2>1. PICK v : v = cache[p]
    OBVIOUS
  <2>2. v \in VersionsOf(p) /\ p # Foreign
    BY <1>1, <1>4, <2>1, ObjectsAssumption DEF ReconcilerSound, ApiSound
  <2>3. PICK r, q : r = RDNOf(p, v) /\ q = v.spec.parent
    OBVIOUS
  <2>4. PICK n : n = Ascended(w, p)
    OBVIOUS
  <2>5. /\ n.pc = "getDistinguishedName" /\ n.key = o
        /\ n.dn = Append(dn, r) /\ n.climb = q
    BY <1>0, <1>1, <1>2, <2>1, <2>3, <2>4 DEF Ascended, Worker
  <2>6. ASSUME q # Foreign
        PROVE  Append(dn, r) \o Upto(q, home) = home[o]
    <3>1. PICK s \in Seq(RDN) : s = Upto(q, home) /\ home[p] = <<r>> \o s /\ r \in RDN
      BY <1>4, <2>2, <2>3, <2>6, HomeParts
    <3>2. Append(dn, r) \o s = dn \o (<<r>> \o s)
      BY <1>2, <3>1, AppendUp
    <3> QED
      BY <1>2, <1>4, <2>2, <3>1, <3>2 DEF Upto
  <2>7. NamedFor(n, home)
    BY <2>5, <2>6 DEF NamedFor
  <2> QED
    BY <1>1, <1>4, <2>4, <2>7, OnHome
<1>5. CASE p = None /\ \E pc \in {"deleteEntry", "setOwner"} : Continue(k, To(w, pc))
  <2>1. PICK n : n.pc \in {"deleteEntry", "setOwner"} /\ n.key = o /\ n.dn = dn /\ Continue(k, n)
    BY <1>0, <1>2, <1>5 DEF To, Worker
  <2>2. dn = home[o]
    <3>1. dn \o <<>> = dn
      BY <1>2
    <3> QED
      BY <1>2, <1>5, <3>1, ObjectsAssumption DEF Upto
  <2>3. NamedFor(n, home)
    BY <2>1, <2>2 DEF NamedFor
  <2> QED
    BY <1>1, <2>1, <2>3, OnHome
<1> QED
  BY <1>0, <1>3, <1>4, <1>5 DEF GetDistinguishedName, OnceNamed

LEMMA DeleteEntryHome ==
    ASSUME NEW home, HomeInv(home), ObjectInv, NEW k \in Kinds, DeleteEntry(k)
    PROVE  HomeInv(home)'
<1> DEFINE w == worker[k]
<1>0. PICK o : o = w.key
  OBVIOUS
<1>1. ReconcilerSound /\ UNCHANGED history /\ w.pc = "deleteEntry" /\ w.pc # "idle"
  BY DEF ObjectInv, DeleteEntry, At
<1>2. w \in Worker /\ w.dn = home[o]
  BY <1>0, <1>1, AtWork DEF HomeInv, NamedFor
<1>3. CASE UNCHANGED worker
  BY <1>1, <1>3 DEF HomeInv, history
<1>4. CASE worker' = [worker EXCEPT ![k] =
                        [To(w, "removeFinalizer") EXCEPT !.failed = ~call[k].ok]]
  <2>1. PICK n : n = [To(w, "removeFinalizer") EXCEPT !.failed = ~call[k].ok]
    OBVIOUS
  <2>2. n.pc = "removeFinalizer" /\ n.key = o /\ n.dn = w.dn
    BY <1>0, <1>2, <2>1 DEF To, Worker
  <2>3. NamedFor(n, home)
    BY <1>2, <2>2 DEF NamedFor
  <2> QED
    BY <1>1, <1>4, <2>1, <2>3, OnHome
<1> QED
  BY <1>3, <1>4 DEF DeleteEntry

(* What is left of o's claims is its entry, which DeleteEntry was called for *)
(* if any was.                                                               *)
LEMMA RemoveFinalizerHome ==
    ASSUME NEW home, StayAt(home), HomeInv(home), ObjectInv, NEW k \in Kinds, RemoveFinalizer(k)
    PROVE  HomeInv(home)'
<1> DEFINE w == worker[k]
           o == w.key
           mine == {c \in claims : c.obj = o /\ c.uid = store[o].uid}
           left == {d \in Entries : \E c \in mine : c.dn = d}
<1>1. ReconcilerSound /\ w.pc = "removeFinalizer" /\ w.pc # "idle"
  BY DEF ObjectInv, RemoveFinalizer, At
<1>2. o \in Objects /\ w.dn \in {<<>>, home[o]}
  BY <1>1, AtWork DEF HomeInv, NamedFor
<1>3. \E requeue : Finish(k, requeue)
  BY DEF RemoveFinalizer
<1>4. CASE UNCHANGED history
  BY <1>1, <1>3, <1>4, EndHome
<1>5. CASE Release(o, w)
  <2>1. /\ claims' \subseteq claims
        /\ outgrown' = outgrown \cup
             {d \in left : ~(w.dn = <<>> \/ w.failed) /\ ~IsSuffix(w.dn, d)}
    BY <1>5 DEF Release
  <2>2. ASSUME NEW d \in left, w.dn # <<>>
        PROVE  IsSuffix(w.dn, d)
    <3>1. d = home[o] /\ w.dn = d
      BY <1>2, <2>2 DEF HomeInv
    <3>2. d \in Seq(RDN)
      BY <1>2, <3>1 DEF StayAt, DN
    <3> QED
      BY <3>1, <3>2, SuffixOfItself
  <2>3. \A j \in Kinds : worker'[j] \in {Idle, worker[j]}
    BY <1>1, <1>3 DEF Finish, ReconcilerSound, WorkersSound
  <2>4. ASSUME NEW j \in Kinds
        PROVE  NamedFor(worker'[j], home)
    <3>1. NamedFor(Idle, home)
      BY IdleSound DEF NamedFor
    <3> QED
      BY <2>3, <3>1 DEF HomeInv
  <2>5. outgrown' = {} /\ \A c \in claims' : c.dn = home[c.obj]
    BY <2>1, <2>2 DEF HomeInv
  <2> QED
    BY <2>4, <2>5 DEF HomeInv
<1> QED
  BY <1>4, <1>5 DEF RemoveFinalizer

LEMMA SetOwnerHome ==
    ASSUME NEW home, HomeInv(home), ObjectInv, NEW k \in Kinds, SetOwner(k)
    PROVE  HomeInv(home)'
<1> DEFINE w == worker[k]
<1>0. PICK o : o = w.key
  OBVIOUS
<1>1. ReconcilerSound /\ UNCHANGED history /\ w.pc = "setOwner" /\ w.pc # "idle"
  BY DEF ObjectInv, SetOwner, At
<1>2. w \in Worker /\ w.dn = home[o]
  BY <1>0, <1>1, AtWork DEF HomeInv, NamedFor
<1>3. CASE MarkFailed(k, FALSE)
  BY <1>1, <1>3, EndHome
<1>4. ASSUME NEW v, Continue(k, [To(w, "mapToEntry") EXCEPT !.obj = v])
      PROVE  HomeInv(home)'
  <2>1. PICK n : n = [To(w, "mapToEntry") EXCEPT !.obj = v]
    OBVIOUS
  <2>2. n.pc = "mapToEntry" /\ n.key = o /\ n.dn = w.dn
    BY <1>0, <1>2, <2>1 DEF To, Worker
  <2>3. NamedFor(n, home)
    BY <1>2, <2>2 DEF NamedFor
  <2> QED
    BY <1>1, <1>4, <2>1, <2>3, OnHome
<1> QED
  BY <1>3, <1>4 DEF SetOwner

LEMMA UpsertHome ==
    ASSUME NEW home, HomeInv(home), ObjectInv, NEW k \in Kinds,
           MapToEntry(k) \/ CreateOrUpdateEntry(k) \/ Mark(k)
    PROVE  HomeInv(home)'
<1> DEFINE w == worker[k]
<1>0. PICK o : o = w.key
  OBVIOUS
<1>1. ReconcilerSound /\ w.pc \in {"mapToEntry", "upsertEntry", "mark"} /\ w.pc # "idle"
  BY DEF ObjectInv, MapToEntry, CreateOrUpdateEntry, Mark, At
<1>2. w \in Worker /\ (w.pc = "mapToEntry" => w.dn = home[o])
  BY <1>0, <1>1, AtWork DEF HomeInv, NamedFor
<1>3. CASE UNCHANGED history /\ (MarkFailed(k, FALSE) \/ \E requeue : Finish(k, requeue))
  BY <1>1, <1>3, EndHome
<1>4. CASE UNCHANGED history /\ Continue(k, Marking(w, "Ready", FALSE))
  <2>1. PICK n : n = Marking(w, "Ready", FALSE)
    OBVIOUS
  <2>2. n.pc = "mark"
    BY <1>2, <2>1 DEF Marking, Worker
  <2>3. NamedFor(n, home)
    BY <2>2 DEF NamedFor
  <2> QED
    BY <1>1, <1>4, <2>1, <2>3, OnHome
<1>5. CASE /\ w.pc = "mapToEntry" /\ Continue(k, To(w, "upsertEntry")) /\ UNCHANGED outgrown
           /\ claims' = claims \cup {[obj |-> w.key, uid |-> w.obj.uid, dn |-> w.dn]}
  <2>1. PICK n : n = To(w, "upsertEntry")
    OBVIOUS
  <2>2. n.pc = "upsertEntry" /\ n.key = o /\ n.dn = home[o]
    BY <1>0, <1>2, <1>5, <2>1 DEF To, Worker
  <2>3. \A j \in Kinds : worker'[j] \in {n, worker[j]}
    BY <1>1, <1>5, <2>1 DEF Continue, ReconcilerSound, WorkersSound
  <2>4. ASSUME NEW j \in Kinds
        PROVE  NamedFor(worker'[j], home)
    <3>1. NamedFor(n, home)
      BY <2>2 DEF NamedFor
    <3> QED
      BY <2>3, <3>1 DEF HomeInv
  <2>5. \A c \in claims' : c.dn = home[c.obj]
    BY <1>0, <1>2, <1>5 DEF HomeInv
  <2> QED
    BY <1>5, <2>4, <2>5 DEF HomeInv
<1>6. CASE MapToEntry(k)
  BY <1>3, <1>5, <1>6 DEF MapToEntry, At
<1>7. CASE CreateOrUpdateEntry(k)
  BY <1>3, <1>4, <1>7 DEF CreateOrUpdateEntry
<1>8. CASE Mark(k)
  BY <1>3, <1>8 DEF Mark
<1> QED
  BY <1>6, <1>7, <1>8

LEMMA GetHome ==
    ASSUME NEW home, HomeInv(home), ObjectInv, NEW k \in Kinds, NEW o \in Objects, Get(k, o)
    PROVE  HomeInv(home)'
<1>1. ReconcilerSound /\ UNCHANGED history
  BY DEF ObjectInv, Get
<1>2. CASE UNCHANGED worker
  BY <1>1, <1>2 DEF HomeInv, history
<1>3. CASE worker' = [worker EXCEPT ![k] =
                        [Idle EXCEPT !.key = o, !.obj = cache[o], !.pc = FirstStep(cache[o])]]
  <2>1. PICK n : n = [Idle EXCEPT !.key = o, !.obj = cache[o], !.pc = FirstStep(cache[o])]
    OBVIOUS
  <2>2. n.pc \in {"addFinalizer", "resolveReferences"}
    BY <2>1, IdleSound DEF Worker, FirstStep
  <2>3. NamedFor(n, home)
    BY <2>2 DEF NamedFor
  <2> QED
    BY <1>1, <1>3, <2>1, <2>3, OnHome
<1> QED
  BY <1>2, <1>3 DEF Get

LEMMA NextHome ==
    ASSUME NEW home, StayAt(home), HomeInv(home), ObjectInv, [Next]_vars
    PROVE  HomeInv(home)'
<1>0. ReconcilerSound
  BY DEF ObjectInv
<1>1. ASSUME NEW k \in Kinds, Reconcile(k)
      PROVE  HomeInv(home)'
  BY <1>1, ResolveHome, ResolveParentHome, GetDistinguishedNameHome, DeleteEntryHome,
     RemoveFinalizerHome, SetOwnerHome, UpsertHome DEF Reconcile
<1>2. CASE ProcessStarts
  <2>1. \A k \in Kinds : worker'[k].pc = "idle"
    BY <1>2, IdleSound DEF ProcessStarts
  <2> QED
    BY <1>2, <2>1 DEF HomeInv, NamedFor, ProcessStarts, history
<1>3. ASSUME UNCHANGED <<worker, history>>
      PROVE  HomeInv(home)'
  BY <1>3 DEF HomeInv, history
<1>4. ASSUME NEW k \in Kinds, ApiFails(k)
      PROVE  HomeInv(home)'
  BY <1>0, <1>4, EndHome DEF ApiFails
<1>5. ASSUME NEW k \in Kinds, Panic(k) \/ ClientRequest(k) \/ ClientFails(k)
      PROVE  HomeInv(home)'
  BY <1>2, <1>3, <1>5 DEF Panic, Restart, ClientRequest, ClientFails
<1>6. ASSUME NEW o \in Objects, Sync(o) \/ GarbageCollect(o) \/ Users(o) \/ Resync(o)
      PROVE  HomeInv(home)'
  BY <1>3, <1>6 DEF Sync, GarbageCollect, Users, Create, Edit, Delete, Resync
<1>7. CASE \/ \E s \in SecretRefs : SecretWritten(s) \/ SecretDeleted(s)
           \/ DirectoryChanges \/ DirectoryDeleted \/ UNCHANGED vars
  BY <1>3, <1>7 DEF SecretWritten, SecretDeleted, DirectoryChanges, DirectoryDeleted, vars
<1>8. CASE Crash
  BY <1>2, <1>8 DEF Crash, Restart
<1> QED
  BY <1>1, <1>4, <1>5, <1>6, <1>7, <1>8, GetHome DEF Next, Environment

LEMMA InitHome ==
    ASSUME NEW home, Init
    PROVE  HomeInv(home)
<1>1. \A k \in Kinds : worker[k].pc = "idle"
  BY IdleSound DEF Init
<1> QED
  BY <1>1 DEF HomeInv, NamedFor, Init

(* Where no object is renamed or moved, every entry in slapd belongs to an   *)
(* object that will still delete it, or was there when its object was        *)
(* released after a failed DeleteEntry or with an unresolvable reference     *)
(* (lines 92-108, 218-236): DeleteEntry is never left out, is never for      *)
(* another name than the one the entry was asked for, and leaves nothing     *)
(* when it reports success - whatever crashes, is lost or comes late.        *)
THEOREM NothingElseStays == NothingMoves => (Spec => []EntriesClaimed)
<1> SUFFICES ASSUME NEW home, StayAt(home)
             PROVE  Spec => []EntriesClaimed
  BY DEF NothingMoves
<1>1. Init => HomeInv(home)
  BY InitHome
<1>2. ObjectInv /\ HomeInv(home) /\ [Next]_vars => HomeInv(home)'
  BY NextHome
<1>3. ObjectInv /\ HomeInv(home) => EntriesClaimed
  BY DEF ObjectInv, HomeInv, EntriesTraced, EntriesClaimed
<1> QED
  BY <1>1, <1>2, <1>3, ObjectInvHolds, PTL DEF Spec

-----------------------------------------------------------------------------
(***************************************************************************)
(* An object that may have an entry in slapd keeps its finalizer; so each  *)
(* step of the reconciler is one of EntryOwnership or a stutter, unless an *)
(* object was released that the cache still showed staying (blind), which  *)
(* does not happen while the informers are one event behind at most.       *)
(*                                                                         *)
(* The operator decides from the informer's cache, so the argument is      *)
(* about every version of an object that the cache shows or will show: its *)
(* chain, from the cached version over the events in flight to the version *)
(* the API server holds.                                                   *)
(***************************************************************************)

(* The versions of o from the informer's copy to that of the API server. *)
Chain(o) == <<cache[o]>> \o watch[o]

(* x is as old as y, or older: of the same incarnation y has the finalizer   *)
(* and is leaving if x is, and of an earlier one its uid is lower.           *)
Precedes(x, y) ==
    (x # None /\ y # None)
    => /\ x.uid <= y.uid
       /\ x.uid = y.uid => /\ x.deleting => y.deleting
                           /\ x.finalizer => y.finalizer

(* A version with the finalizer of an incarnation that is gone: the store    *)
(* holds s by now.                                                           *)
Ghost(x, s) == x # None /\ x.finalizer /\ (s = None \/ s.uid # x.uid)

(* The versions c of an object, of which the API server has made less than n.*)
(* A ghost is leaving, and nothing the cache will show before it is anything *)
(* else than an earlier version of the same ghost: as long as the worker     *)
(* that removed its finalizer may meet it, it sees it leaving.               *)
InOrder(c) ==
    \A i, j \in 1 .. Len(c) : i <= j =>
        /\ Precedes(c[i], c[j])
        /\ (c[i] # None /\ c[j] # None /\ c[i].uid = c[j].uid)
             => \A l \in i .. j : c[l] # None

Born(c, n) ==
    \A i \in 1 .. Len(c) : c[i] # None =>
        /\ c[i].uid < n
        /\ c[i].deleting => c[i].finalizer
        /\ c[i].owner # None => c[i].finalizer

Haunted(c) ==
    \A i \in 1 .. Len(c) : Ghost(c[i], c[Len(c)]) =>
        \A j \in 1 .. i : /\ Ghost(c[j], c[Len(c)])
                          /\ c[j].deleting /\ c[j].uid = c[i].uid

GoodChain(c, n) == InOrder(c) /\ Born(c, n) /\ Haunted(c)

(* The API server holds incarnation uid of o, with its finalizer. *)
Pinned(o, uid) == store[o] # None /\ store[o].uid = uid /\ store[o].finalizer

(* The cache will show no ghost of o. *)
Alone(o) == \A i \in 1 .. Len(Chain(o)) : ~Ghost(Chain(o)[i], store[o])

(* Steps between the finalizer and setOwner, on the way to an entry. *)
Underway == {"resolveReferences", "resolveDirectory", "resolveParent",
             "getDistinguishedName", "setOwner"}

(* What worker k may rely on. *)
Relies(k) ==
    LET w == worker[k] IN
    /\ (w.pc \in Underway /\ ~w.obj.deleting) => Pinned(w.key, w.obj.uid) /\ Alone(w.key)
    /\ w.pc = "setOwner" => ~w.obj.deleting
    /\ w.pc \in {"mapToEntry", "upsertEntry"} => Pinned(w.key, w.obj.uid)

LastIsStored == \A o \in Objects : Chain(o)[Len(Chain(o))] = store[o]

PinInv ==
    /\ LastIsStored
    /\ \A o \in Objects \ blind : GoodChain(Chain(o), used["create"])
    /\ \A k \in Kinds : (worker[k].pc # "idle" /\ worker[k].key \notin blind) => Relies(k)
    /\ PinnedByFinalizer

-----------------------------------------------------------------------------
(* Chains.  d is the chain c after an event has been appended or received.  *)

Grown(c, d, v) ==
    /\ Len(d) = Len(c) + 1 /\ d[Len(d)] = v
    /\ \A i \in 1 .. Len(c) : d[i] = c[i]

Shrunk(c, d) ==
    /\ Len(c) = Len(d) + 1
    /\ \A i \in 1 .. Len(d) : d[i] = c[i + 1]

(* What the API server may make of the version s it holds. *)
Updated(s, v) ==
    /\ s # None /\ v # None /\ v.uid = s.uid
    /\ s.deleting => v.deleting
    /\ s.finalizer => v.finalizer
    /\ v.deleting => v.finalizer
    /\ v.owner # None => v.finalizer

Created(s, v, n) ==
    s = None /\ v # None /\ v.uid = n /\ ~v.deleting /\ ~v.finalizer /\ v.owner = None

(* Nothing disappears with its finalizer unless the cache shows it leaving. *)
Removed(c, s, v) ==
    /\ s # None /\ v = None
    /\ s.finalizer => c[1] # None /\ c[1].uid = s.uid /\ c[1].deleting

(* A chain of versions, whatever they look like. *)
IsChain(c) ==
    /\ Len(c) \in Nat \ {0}
    /\ \A i \in 1 .. Len(c) : c[i] # None => c[i].uid \in Nat

LEMMA ShrunkGood ==
    ASSUME NEW c, NEW d, NEW n \in Nat, IsChain(c), IsChain(d), GoodChain(c, n), Shrunk(c, d)
    PROVE  GoodChain(d, n)
<1>1. /\ Len(d) \in Nat \ {0} /\ Len(c) = Len(d) + 1 /\ d[Len(d)] = c[Len(c)]
      /\ \A i \in 1 .. Len(d) : i + 1 \in 1 .. Len(c) /\ d[i] = c[i + 1]
  BY DEF Shrunk, IsChain
<1>2. InOrder(d)
  <2>1. SUFFICES ASSUME NEW i \in 1 .. Len(d), NEW j \in 1 .. Len(d), i <= j
                 PROVE  /\ Precedes(d[i], d[j])
                        /\ (d[i] # None /\ d[j] # None /\ d[i].uid = d[j].uid)
                             => \A l \in i .. j : d[l] # None
    BY DEF InOrder
  <2>2. /\ Precedes(c[i + 1], c[j + 1])
        /\ (c[i + 1] # None /\ c[j + 1] # None /\ c[i + 1].uid = c[j + 1].uid)
             => \A l \in i + 1 .. j + 1 : c[l] # None
    <3>1. PICK x, y \in 1 .. Len(c) : x = i + 1 /\ y = j + 1
      BY <1>1
    <3>2. x <= y
      BY <1>1, <2>1, <3>1
    <3>3. /\ Precedes(c[x], c[y])
          /\ (c[x] # None /\ c[y] # None /\ c[x].uid = c[y].uid)
               => \A l \in x .. y : c[l] # None
      BY <3>2 DEF GoodChain, InOrder
    <3> QED
      BY <3>1, <3>3
  <2>3. d[i] = c[i + 1] /\ d[j] = c[j + 1]
    BY <1>1
  <2>4. ASSUME c[i + 1] # None, c[j + 1] # None, c[i + 1].uid = c[j + 1].uid, NEW l \in i .. j
        PROVE  d[l] # None
    <3>1. l + 1 \in i + 1 .. j + 1 /\ d[l] = c[l + 1]
      BY <1>1
    <3> QED
      BY <2>2, <2>4, <3>1
  <2> QED
    BY <2>2, <2>3, <2>4
<1>3. Born(d, n)
  BY <1>1 DEF GoodChain, Born
<1>4. Haunted(d)
  <2>1. SUFFICES ASSUME NEW i \in 1 .. Len(d), Ghost(d[i], d[Len(d)]), NEW j \in 1 .. i
                 PROVE  /\ Ghost(d[j], d[Len(d)])
                        /\ d[j].deleting /\ d[j].uid = d[i].uid
    BY DEF Haunted
  <2>2. i + 1 \in 1 .. Len(c) /\ j + 1 \in 1 .. (i + 1) /\ j \in 1 .. Len(d)
    BY <1>1
  <2>3. /\ Ghost(c[j + 1], c[Len(c)])
        /\ c[j + 1].deleting /\ c[j + 1].uid = c[i + 1].uid
    BY <1>1, <2>1, <2>2 DEF GoodChain, Haunted
  <2> QED
    BY <1>1, <2>2, <2>3
<1> QED
  BY <1>2, <1>3, <1>4 DEF GoodChain

LEMMA OneGood ==
    ASSUME NEW c, NEW d, NEW n \in Nat, IsChain(c), IsChain(d), GoodChain(c, n),
           Len(d) = 1, d[1] = c[Len(c)]
    PROVE  GoodChain(d, n)
<1>1. \A i \in 1 .. Len(d) : i = 1 /\ d[i] = d[Len(d)]
  BY DEF IsChain
<1>2. d[1] # None => d[1].uid \in Nat
  BY DEF IsChain
<1>3. InOrder(d)
  BY <1>1, <1>2 DEF InOrder, Precedes
<1>4. Born(d, n)
  <2>1. Len(c) \in 1 .. Len(c)
    BY DEF IsChain
  <2> QED
    BY <1>1, <2>1 DEF GoodChain, Born
<1>5. Haunted(d)
  BY <1>1 DEF Haunted, Ghost
<1> QED
  BY <1>3, <1>4, <1>5 DEF GoodChain

(* What holds of the last two versions orders the whole chain. *)
LEMMA GrownOrder ==
    ASSUME NEW c, NEW d, NEW v, NEW n \in Nat, IsChain(c), IsChain(d), GoodChain(c, n), Grown(c, d, v),
           \/ v = None
           \/ Updated(c[Len(c)], v)
           \/ Created(c[Len(c)], v, n)
    PROVE  InOrder(d)
<1> DEFINE m == Len(c)
           s == c[m]
<1>1. /\ m \in Nat \ {0} /\ m \in 1 .. m /\ Len(d) = m + 1 /\ d[m + 1] = v
      /\ \A i \in 1 .. m : d[i] = c[i] /\ i \in 1 .. Len(d)
  BY DEF Grown, IsChain
<1>2. ASSUME NEW i \in 1 .. m, d[i] # None, v # None
      PROVE  /\ Precedes(d[i], v)
             /\ d[i].uid = v.uid => \A l \in i .. m : d[l] # None
  <2>1. d[i] = c[i] /\ c[i].uid \in Nat /\ c[i].uid < n
    BY <1>1, <1>2 DEF IsChain, GoodChain, Born
  <2>2. CASE Updated(s, v)
    <3>1. s # None /\ s.uid \in Nat
      BY <1>1, <2>2 DEF Updated, IsChain
    <3>2. Precedes(c[i], s) /\ (c[i].uid = s.uid => \A l \in i .. m : c[l] # None)
      BY <1>1, <1>2, <2>1, <3>1 DEF GoodChain, InOrder
    <3>3. Precedes(d[i], v)
      BY <1>2, <2>1, <2>2, <3>1, <3>2 DEF Precedes, Updated
    <3>4. ASSUME d[i].uid = v.uid, NEW l \in i .. m
          PROVE  d[l] # None
      BY <1>1, <2>1, <2>2, <3>2, <3>4 DEF Updated
    <3> QED
      BY <3>3, <3>4
  <2>3. CASE Created(s, v, n)
    BY <2>1, <2>3 DEF Created, Precedes
  <2> QED
    BY <1>2, <2>2, <2>3
<1>3. SUFFICES ASSUME NEW i \in 1 .. Len(d), NEW j \in 1 .. Len(d), i <= j
               PROVE  /\ Precedes(d[i], d[j])
                      /\ (d[i] # None /\ d[j] # None /\ d[i].uid = d[j].uid)
                           => \A l \in i .. j : d[l] # None
  BY DEF InOrder
<1>4. CASE j <= m
  <2>1. i \in 1 .. m /\ j \in 1 .. m /\ \A l \in i .. j : d[l] = c[l]
    BY <1>1, <1>3, <1>4
  <2>2. /\ Precedes(c[i], c[j])
        /\ (c[i] # None /\ c[j] # None /\ c[i].uid = c[j].uid)
             => \A l \in i .. j : c[l] # None
    BY <1>3, <2>1 DEF GoodChain, InOrder
  <2> QED
    BY <1>1, <2>1, <2>2
<1>5. CASE j = m + 1 /\ i <= m
  <2>1. i \in 1 .. m /\ d[j] = v
    BY <1>1, <1>3, <1>5
  <2>2. Precedes(d[i], d[j])
    BY <1>2, <2>1 DEF Precedes
  <2>3. ASSUME d[i] # None, d[j] # None, d[i].uid = d[j].uid, NEW l \in i .. j
        PROVE  d[l] # None
    <3>1. l \in i .. m \/ l = j
      BY <1>1, <1>5, <2>3
    <3> QED
      BY <1>2, <2>1, <2>3, <3>1
  <2> QED
    BY <2>2, <2>3
<1>6. CASE j = m + 1 /\ i = m + 1
  <2>1. d[i] # None => d[i].uid \in Nat
    BY <1>3 DEF IsChain
  <2> QED
    BY <1>1, <1>6, <2>1 DEF Precedes
<1> QED
  BY <1>1, <1>3, <1>4, <1>5, <1>6

(* How the API server extends a chain, when n versions have been created. *)
Extends(c, v, n) ==
    \/ Updated(c[Len(c)], v)
    \/ Created(c[Len(c)], v, n)
    \/ Removed(c, c[Len(c)], v)

LEMMA GrownHaunted ==
    ASSUME NEW c, NEW d, NEW v, NEW n \in Nat, IsChain(c), IsChain(d), GoodChain(c, n),
           Grown(c, d, v), Extends(c, v, n)
    PROVE  Haunted(d)
<1> DEFINE m == Len(c)
           s == c[m]
<1>1. /\ m \in Nat \ {0} /\ m \in 1 .. m /\ 1 \in 1 .. m /\ Len(d) = m + 1 /\ d[m + 1] = v
      /\ \A i \in 1 .. m : d[i] = c[i]
  BY DEF Grown, IsChain
<1>2. SUFFICES ASSUME NEW i \in 1 .. m + 1, Ghost(d[i], v), NEW j \in 1 .. i
               PROVE  Ghost(d[j], v) /\ d[j].deleting /\ d[j].uid = d[i].uid
  BY <1>1 DEF Haunted
<1>3. ~Ghost(v, v)
  BY DEF Ghost
<1>4. i \in 1 .. m /\ j \in 1 .. m /\ j <= i /\ d[i] = c[i] /\ d[j] = c[j]
  BY <1>1, <1>2, <1>3
<1>5. c[i] # None /\ c[i].uid \in Nat /\ c[i].uid < n /\ c[i].finalizer
  BY <1>2, <1>4 DEF Ghost, IsChain, GoodChain, Born
<1>6. ASSUME Ghost(c[i], s)
      PROVE  Ghost(c[j], s) /\ c[j].deleting /\ c[j].uid = c[i].uid
  BY <1>4, <1>6 DEF GoodChain, Haunted
<1>7. CASE Updated(s, v)
  BY <1>2, <1>4, <1>6, <1>7 DEF Ghost, Updated
<1>8. CASE Created(s, v, n)
  BY <1>2, <1>4, <1>5, <1>6, <1>8 DEF Ghost, Created
<1>9. CASE Removed(c, s, v)
  <2>1. s # None /\ v = None /\ s.uid \in Nat
    BY <1>1, <1>9 DEF Removed, IsChain
  <2>2. CASE Ghost(c[i], s)
    BY <1>4, <1>6, <2>1, <2>2 DEF Ghost
  <2>3. CASE ~Ghost(c[i], s)
    <3>1. c[i].uid = s.uid
      BY <1>5, <2>1, <2>3 DEF Ghost
    <3>2. s.finalizer
      <4>1. Precedes(c[i], s)
        BY <1>1, <1>4 DEF GoodChain, InOrder
      <4> QED
        BY <1>5, <2>1, <3>1, <4>1 DEF Precedes
    <3>3. c[1] # None /\ c[1].uid = s.uid /\ c[1].deleting
      BY <1>9, <3>2 DEF Removed
    <3>4. \A l \in 1 .. m : c[l] # None
      BY <1>1, <2>1, <3>3 DEF GoodChain, InOrder
    <3>5. c[j] # None /\ c[j].uid \in Nat
      BY <1>4, <3>4 DEF IsChain
    <3>6. Precedes(c[1], c[j]) /\ Precedes(c[j], s)
      BY <1>1, <1>4 DEF GoodChain, InOrder
    <3>7. c[j].uid = s.uid /\ c[j].deleting
      BY <2>1, <3>3, <3>5, <3>6 DEF Precedes
    <3>8. c[j].finalizer
      BY <1>4, <3>5, <3>7 DEF GoodChain, Born
    <3> QED
      BY <1>4, <2>1, <3>1, <3>5, <3>7, <3>8 DEF Ghost
  <2> QED
    BY <2>2, <2>3
<1> QED
  BY <1>7, <1>8, <1>9 DEF Extends

LEMMA GrownGood ==
    ASSUME NEW c, NEW d, NEW v, NEW n \in Nat, NEW p \in Nat, IsChain(c), IsChain(d),
           GoodChain(c, n), Grown(c, d, v), Extends(c, v, n),
           n <= p, Created(c[Len(c)], v, n) => n < p
    PROVE  GoodChain(d, p)
<1> DEFINE m == Len(c)
           s == c[m]
<1>1. /\ m \in Nat \ {0} /\ m \in 1 .. m /\ Len(d) = m + 1 /\ d[m + 1] = v
      /\ \A i \in 1 .. m : d[i] = c[i]
  BY DEF Grown, IsChain
<1>2. InOrder(d)
  BY GrownOrder DEF Extends, Removed
<1>3. Haunted(d)
  BY GrownHaunted
<1>4. Born(d, p)
  <2>1. SUFFICES ASSUME NEW i \in 1 .. m + 1, d[i] # None
                 PROVE  /\ d[i].uid < p
                        /\ d[i].deleting => d[i].finalizer
                        /\ d[i].owner # None => d[i].finalizer
    BY <1>1 DEF Born
  <2>2. CASE i \in 1 .. m
    <3>1. d[i] = c[i] /\ c[i].uid \in Nat
      BY <1>1, <2>1, <2>2 DEF IsChain
    <3>2. /\ c[i].uid < n
          /\ c[i].deleting => c[i].finalizer
          /\ c[i].owner # None => c[i].finalizer
      BY <2>1, <2>2, <3>1 DEF GoodChain, Born
    <3> QED
      BY <3>1, <3>2
  <2>3. CASE i = m + 1 /\ Updated(s, v)
    <3>1. s.uid < n /\ s.uid \in Nat
      BY <1>1, <2>3 DEF Updated, GoodChain, Born, IsChain
    <3> QED
      BY <1>1, <2>3, <3>1 DEF Updated
  <2>4. CASE i = m + 1 /\ Created(s, v, n)
    BY <1>1, <2>4 DEF Created
  <2> QED
    BY <1>1, <2>1, <2>2, <2>3, <2>4 DEF Extends, Removed
<1> QED
  BY <1>2, <1>3, <1>4 DEF GoodChain

-----------------------------------------------------------------------------
(* What a step does to the chain of o.                                     *)

Untouched(o) == cache'[o] = cache[o] /\ watch'[o] = watch[o] /\ store'[o] = store[o]

Receives(o) ==
    /\ watch[o] # <<>>
    /\ cache'[o] = Head(watch[o]) /\ watch'[o] = Tail(watch[o]) /\ store'[o] = store[o]

Restarts(o) == cache'[o] = store[o] /\ watch'[o] = <<>> /\ store'[o] = store[o]

Changes(o) == cache'[o] = cache[o] /\ watch'[o] = Append(watch[o], store'[o])

Moves(o) == Untouched(o) \/ Receives(o) \/ Restarts(o) \/ Changes(o)

LEMMA ConsChain ==
    ASSUME NEW o \in Objects, NEW x \in VersionsOf(o) \cup {None},
           NEW w \in Seq(VersionsOf(o) \cup {None})
    PROVE  LET c == <<x>> \o w
           IN  /\ IsChain(c) /\ Len(w) \in Nat /\ Len(c) = Len(w) + 1 /\ c[1] = x
               /\ \A i \in 1 .. Len(w) : c[i + 1] = w[i]
               /\ c \in Seq(VersionsOf(o) \cup {None})
<1> DEFINE S == VersionsOf(o) \cup {None}
<1>1. PICK c : c = <<x>> \o w
  OBVIOUS
<1>2. Len(w) \in Nat
  BY LenProperties
<1>3. /\ c \in Seq(S) /\ Len(c) = Len(w) + 1 /\ c[1] = x
      /\ \A i \in 1 .. Len(w) : c[i + 1] = w[i]
  BY <1>1, ConsProperties
<1>4. ASSUME NEW i \in 1 .. Len(c), c[i] # None
      PROVE  c[i].uid \in Nat
  <2>1. c[i] \in VersionsOf(o)
    BY <1>3, <1>4, ElementOfSeq
  <2> QED
    BY <2>1, VersionParts
<1>5. IsChain(c)
  BY <1>2, <1>3, <1>4 DEF IsChain
<1> QED
  BY <1>1, <1>2, <1>3, <1>5

LEMMA ChainFacts ==
    ASSUME ApiSound, NEW o \in Objects
    PROVE  /\ IsChain(Chain(o)) /\ Len(watch[o]) \in Nat
           /\ Len(Chain(o)) = Len(watch[o]) + 1 /\ Chain(o)[1] = cache[o]
           /\ \A i \in 1 .. Len(watch[o]) : Chain(o)[i + 1] = watch[o][i]
           /\ \A i \in 1 .. Len(Chain(o)) : Chain(o)[i] \in VersionsOf(o) \cup {None}
<1>1. cache[o] \in VersionsOf(o) \cup {None} /\ watch[o] \in Seq(VersionsOf(o) \cup {None})
  BY DEF ApiSound
<1>2. PICK c : c = Chain(o)
  OBVIOUS
<1>3. /\ IsChain(c) /\ Len(watch[o]) \in Nat
      /\ Len(c) = Len(watch[o]) + 1 /\ c[1] = cache[o]
      /\ \A i \in 1 .. Len(watch[o]) : c[i + 1] = watch[o][i]
      /\ c \in Seq(VersionsOf(o) \cup {None})
  BY <1>1, <1>2, ConsChain DEF Chain
<1>4. \A i \in 1 .. Len(c) : c[i] \in VersionsOf(o) \cup {None}
  BY <1>3, ElementOfSeq
<1> QED
  BY <1>2, <1>3, <1>4

LEMMA ChainStep ==
    ASSUME ApiSound, ApiSound', NEW o \in Objects, Moves(o)
    PROVE  /\ IsChain(Chain(o)) /\ IsChain(Chain(o)')
           /\ \/ Untouched(o) /\ Chain(o)' = Chain(o)
              \/ Receives(o) /\ Shrunk(Chain(o), Chain(o)')
              \/ Restarts(o) /\ Len(Chain(o)') = 1 /\ Chain(o)'[1] = store[o]
              \/ Changes(o) /\ Grown(Chain(o), Chain(o)', store'[o])
<1> DEFINE S == VersionsOf(o) \cup {None}
<1>1. /\ IsChain(Chain(o)) /\ Len(watch[o]) \in Nat
      /\ Len(Chain(o)) = Len(watch[o]) + 1 /\ Chain(o)[1] = cache[o]
      /\ \A i \in 1 .. Len(watch[o]) : Chain(o)[i + 1] = watch[o][i]
  BY ChainFacts
<1>2. /\ cache'[o] \in S /\ watch'[o] \in Seq(S) /\ watch[o] \in Seq(S)
      /\ Chain(o)' = <<cache'[o]>> \o watch'[o]
  BY DEF ApiSound, Chain
<1>3. PICK c, d : c = Chain(o) /\ d = Chain(o)'
  OBVIOUS
<1>4. /\ IsChain(d) /\ Len(watch'[o]) \in Nat
      /\ Len(d) = Len(watch'[o]) + 1 /\ d[1] = cache'[o]
      /\ \A i \in 1 .. Len(watch'[o]) : d[i + 1] = watch'[o][i]
  <2>1. PICK x \in S : x = cache'[o]
    BY <1>2
  <2>2. PICK w \in Seq(S) : w = watch'[o]
    BY <1>2
  <2>3. /\ IsChain(<<x>> \o w) /\ Len(w) \in Nat
        /\ Len(<<x>> \o w) = Len(w) + 1 /\ (<<x>> \o w)[1] = x
        /\ \A i \in 1 .. Len(w) : (<<x>> \o w)[i + 1] = w[i]
    BY ConsChain
  <2>4. d = <<x>> \o w
    BY <1>2, <1>3, <2>1, <2>2
  <2> QED
    BY <2>1, <2>2, <2>3, <2>4
<1>5. CASE Untouched(o)
  BY <1>1, <1>2, <1>3, <1>4, <1>5 DEF Untouched, Chain
<1>6. CASE Receives(o)
  <2>1. PICK w, t \in Seq(S) : w = watch[o] /\ t = watch'[o]
    BY <1>2
  <2>2. /\ w # <<>> /\ t = Tail(w) /\ d[1] = Head(w) /\ Len(w) \in Nat
        /\ Len(c) = Len(w) + 1 /\ \A i \in 1 .. Len(w) : c[i + 1] = w[i]
        /\ Len(d) = Len(t) + 1 /\ \A i \in 1 .. Len(t) : d[i + 1] = t[i]
    BY <1>1, <1>3, <1>4, <1>6, <2>1 DEF Receives
  <2>3. /\ Head(w) = w[1] /\ Len(t) = Len(w) - 1 /\ Len(w) >= 1
        /\ \A i \in 1 .. Len(w) - 1 : t[i] = w[i + 1]
    BY <2>2, HeadTailProperties, EmptySeq
  <2>4. Len(c) = Len(d) + 1
    BY <2>2, <2>3
  <2>5. ASSUME NEW i \in 1 .. Len(d)
        PROVE  d[i] = c[i + 1]
    <3>1. CASE i = 1
      BY <2>2, <2>3, <3>1
    <3>2. CASE i > 1
      <4>1. PICK j \in 1 .. Len(t) : i = j + 1
        BY <2>2, <2>3, <2>5, <3>2
      <4>2. d[i] = t[j] /\ t[j] = w[j + 1] /\ j + 1 \in 1 .. Len(w)
        BY <2>2, <2>3, <4>1
      <4> QED
        BY <2>2, <4>1, <4>2
    <3> QED
      BY <2>2, <2>3, <3>1, <3>2
  <2> QED
    BY <1>1, <1>3, <1>4, <1>6, <2>4, <2>5 DEF Shrunk
<1>7. CASE Restarts(o)
  <2>1. Len(d) = 1 /\ d[1] = store[o]
    BY <1>4, <1>7, EmptySeq DEF Restarts
  <2> QED
    BY <1>1, <1>3, <1>4, <1>7, <2>1
<1>8. CASE Changes(o)
  <2>1. PICK w, t \in Seq(S) : w = watch[o] /\ t = watch'[o]
    BY <1>2
  <2>2. PICK v \in S : v = store'[o]
    BY DEF ApiSound
  <2>3. /\ t = Append(w, v) /\ d[1] = c[1] /\ Len(w) \in Nat
        /\ Len(c) = Len(w) + 1 /\ \A i \in 1 .. Len(w) : c[i + 1] = w[i]
        /\ Len(d) = Len(t) + 1 /\ \A i \in 1 .. Len(t) : d[i + 1] = t[i]
    BY <1>1, <1>3, <1>4, <1>8, <2>1, <2>2 DEF Changes
  <2>4. /\ Len(t) = Len(w) + 1 /\ t[Len(w) + 1] = v
        /\ \A i \in 1 .. Len(w) : t[i] = w[i]
    BY <2>2, <2>3, AppendProperties
  <2>5. Len(d) = Len(c) + 1 /\ d[Len(d)] = v
    BY <2>3, <2>4
  <2>6. ASSUME NEW i \in 1 .. Len(c)
        PROVE  d[i] = c[i]
    <3>1. CASE i = 1
      BY <2>3, <3>1
    <3>2. CASE i > 1
      <4>1. PICK j \in 1 .. Len(w) : i = j + 1
        BY <2>3, <3>2
      <4> QED
        BY <2>3, <2>4, <4>1
    <3> QED
      BY <2>3, <3>1, <3>2
  <2> QED
    BY <1>1, <1>3, <1>4, <1>8, <2>2, <2>5, <2>6 DEF Grown
<1> QED
  BY <1>5, <1>6, <1>7, <1>8 DEF Moves

LEMMA LastStays ==
    ASSUME ApiSound, ApiSound', NEW o \in Objects, Moves(o),
           Chain(o)[Len(Chain(o))] = store[o]
    PROVE  (Chain(o)[Len(Chain(o))] = store[o])'
<1>1. PICK c, d : c = Chain(o) /\ d = Chain(o)'
  OBVIOUS
<1>2. /\ IsChain(c) /\ IsChain(d)
      /\ \/ Untouched(o) /\ d = c
         \/ Receives(o) /\ Shrunk(c, d)
         \/ Restarts(o) /\ Len(d) = 1 /\ d[1] = store[o]
         \/ Changes(o) /\ Grown(c, d, store'[o])
  BY <1>1, ChainStep
<1>3. d[Len(d)] = store'[o]
  BY <1>1, <1>2 DEF Untouched, Receives, Restarts, Shrunk, Grown, IsChain
<1> QED
  BY <1>1, <1>3

(* A chain stays good when it is extended as it may be. *)
LEMMA GoodStays ==
    ASSUME ApiSound, ApiSound', NEW o \in Objects, Moves(o),
           Chain(o)[Len(Chain(o))] = store[o],
           NEW n \in Nat, NEW p \in Nat, n <= p, GoodChain(Chain(o), n),
           Changes(o) => /\ Extends(Chain(o), store'[o], n)
                         /\ Created(store[o], store'[o], n) => n < p
    PROVE  GoodChain(Chain(o)', p)
<1>1. PICK c, d : c = Chain(o) /\ d = Chain(o)'
  OBVIOUS
<1>2. /\ IsChain(c) /\ IsChain(d)
      /\ \/ Untouched(o) /\ d = c
         \/ Receives(o) /\ Shrunk(c, d)
         \/ Restarts(o) /\ Len(d) = 1 /\ d[1] = c[Len(c)]
         \/ Changes(o) /\ Grown(c, d, store'[o])
  BY <1>1, ChainStep
<1>3. CASE ~(Changes(o) /\ Grown(c, d, store'[o]))
  <2>1. GoodChain(d, n)
    BY <1>1, <1>2, <1>3, ShrunkGood, OneGood
  <2>2. \A i \in 1 .. Len(d) : d[i] # None => d[i].uid \in Nat
    BY <1>2 DEF IsChain
  <2> QED
    BY <1>1, <2>1, <2>2 DEF GoodChain, Born
<1>4. CASE Changes(o) /\ Grown(c, d, store'[o])
  <2>1. /\ Extends(c, store'[o], n)
        /\ Created(c[Len(c)], store'[o], n) => n < p
    BY <1>1, <1>4
  <2> QED
    BY <1>1, <1>2, <1>4, <2>1, GrownGood
<1> QED
  BY <1>3, <1>4

(* All that anybody but RemoveFinalizer does to the version in the store. *)
Gentle(o) ==
    \/ Updated(store[o], store'[o])
    \/ Created(store[o], store'[o], used["create"]) /\ used["create"] < used'["create"]
    \/ store[o] # None /\ ~store[o].finalizer /\ store'[o] = None

Mild ==
    /\ used["create"] <= used'["create"] /\ UNCHANGED blind
    /\ \A o \in Objects : /\ Moves(o)
                          /\ Changes(o) => Untouched(o) \/ o \in blind \/ Gentle(o)

(* No ghost appears beside the incarnation that stays. *)
LEMMA AloneStays ==
    ASSUME ApiSound, ApiSound', NEW o \in Objects, Moves(o), Alone(o),
           store[o] # None, store'[o] # None, store'[o].uid = store[o].uid
    PROVE  Alone(o)'
<1>1. PICK c, d : c = Chain(o) /\ d = Chain(o)'
  OBVIOUS
<1>2. /\ IsChain(c) /\ IsChain(d)
      /\ \/ Untouched(o) /\ d = c
         \/ Receives(o) /\ Shrunk(c, d)
         \/ Restarts(o) /\ Len(d) = 1 /\ d[1] = store[o]
         \/ Changes(o) /\ Grown(c, d, store'[o])
  BY <1>1, ChainStep
<1>3. \A i \in 1 .. Len(c) : ~Ghost(c[i], store[o])
  BY <1>1 DEF Alone
<1>4. \A x : Ghost(x, store'[o]) <=> Ghost(x, store[o])
  BY DEF Ghost
<1>5. ASSUME NEW i \in 1 .. Len(d)
      PROVE  ~Ghost(d[i], store[o])
  <2>1. CASE Untouched(o) /\ d = c
    BY <1>3, <2>1
  <2>2. CASE Shrunk(c, d)
    <3>1. i + 1 \in 1 .. Len(c) /\ d[i] = c[i + 1]
      BY <1>2, <2>2 DEF Shrunk, IsChain
    <3> QED
      BY <1>3, <3>1
  <2>3. CASE Len(d) = 1 /\ d[1] = store[o]
    <3>1. d[i] = store[o]
      BY <1>2, <2>3 DEF IsChain
    <3> QED
      BY <3>1 DEF Ghost
  <2>4. CASE Grown(c, d, store'[o])
    <3>1. CASE i \in 1 .. Len(c)
      BY <1>3, <2>4, <3>1 DEF Grown
    <3>2. CASE d[i] = store'[o]
      BY <3>2 DEF Ghost
    <3> QED
      BY <1>2, <2>4, <3>1, <3>2 DEF Grown, IsChain
  <2> QED
    BY <1>2, <2>1, <2>2, <2>3, <2>4
<1> QED
  BY <1>1, <1>4, <1>5 DEF Alone

(* What is pinned stays pinned. *)
LEMMA PinnedStays ==
    ASSUME ApiSound, ApiSound', NEW o \in Objects, Moves(o), Changes(o) => Untouched(o) \/ Gentle(o),
           NEW uid, Pinned(o, uid)
    PROVE  Pinned(o, uid)' /\ (Alone(o) => Alone(o)')
<1>1. Pinned(o, uid)'
  BY DEF Pinned, Moves, Untouched, Receives, Restarts, Gentle, Updated, Created
<1> QED
  BY <1>1, AloneStays DEF Pinned

LEMMA MildKeeps ==
    ASSUME ObjectInv, ObjectInv', PinInv, Mild
    PROVE  /\ LastIsStored'
           /\ \A o \in Objects \ blind' : GoodChain(Chain(o), used["create"])'
           /\ \A o \in Objects \ blind' : \A uid :
                 Pinned(o, uid) => Pinned(o, uid)' /\ (Alone(o) => Alone(o)')
<1>1. ApiSound /\ ApiSound' /\ UNCHANGED blind
  BY DEF ObjectInv, ReconcilerSound, Mild
<1>2. used["create"] \in Nat /\ used'["create"] \in Nat /\ used["create"] <= used'["create"]
  BY DEF ObjectInv, ReconcilerSound, EnvironmentSound, Events, Mild
<1>3. ASSUME NEW o \in Objects
      PROVE  Moves(o) /\ Chain(o)[Len(Chain(o))] = store[o]
  BY DEF Mild, PinInv, LastIsStored
<1>4. LastIsStored'
  BY <1>1, <1>3, LastStays DEF LastIsStored
<1>5. ASSUME NEW o \in Objects \ blind
      PROVE  GoodChain(Chain(o)', used'["create"])
  <2>1. CASE Changes(o) /\ ~Untouched(o)
    <3>1. Gentle(o)
      BY <1>5, <2>1 DEF Mild
    <3>2. Extends(Chain(o), store'[o], used["create"])
      BY <1>3, <3>1 DEF Gentle, Extends, Removed, Updated, Created
    <3>3. Created(store[o], store'[o], used["create"]) => used["create"] < used'["create"]
      BY <3>1 DEF Gentle, Updated, Created
    <3> QED
      BY <1>1, <1>2, <1>3, <3>2, <3>3, GoodStays DEF PinInv
  <2>2. CASE ~Changes(o)
    BY <1>1, <1>2, <1>3, <2>2, GoodStays DEF PinInv
  <2>3. CASE Untouched(o) /\ Changes(o)
    <3>1. FALSE
      <4>1. watch[o] \in Seq(VersionsOf(o) \cup {None}) /\ store'[o] \in VersionsOf(o) \cup {None}
        BY <1>1 DEF ApiSound
      <4>2. Len(Append(watch[o], store'[o])) = Len(watch[o]) + 1 /\ Len(watch[o]) \in Nat
        BY <4>1, AppendProperties, LenProperties
      <4> QED
        BY <2>3, <4>2 DEF Untouched, Changes
    <3> QED
      BY <3>1
  <2> QED
    BY <2>1, <2>2, <2>3
<1>6. ASSUME NEW o \in Objects \ blind, NEW uid, Pinned(o, uid)
      PROVE  Pinned(o, uid)' /\ (Alone(o) => Alone(o)')
  <2>1. Changes(o) => Untouched(o) \/ Gentle(o)
    BY <1>6 DEF Mild
  <2> QED
    BY <1>1, <1>3, <1>6, <2>1, PinnedStays
<1> QED
  BY <1>1, <1>4, <1>5, <1>6

(* What is known of the ends of a good chain. *)
LEMMA ChainEnds ==
    ASSUME ObjectInv, PinInv, NEW o \in Objects \ blind
    PROVE  /\ cache[o] \in VersionsOf(o) \cup {None} /\ store[o] \in VersionsOf(o) \cup {None}
           /\ store[o] # None =>
                 /\ store[o].uid < used["create"]
                 /\ store[o].deleting => store[o].finalizer
                 /\ store[o].owner # None => store[o].finalizer
           /\ cache[o] # None =>
                 /\ cache[o].deleting => cache[o].finalizer
                 /\ cache[o].owner # None => cache[o].finalizer
           /\ Precedes(cache[o], store[o])
           /\ Alone(o) => ~Ghost(cache[o], store[o])
           /\ \A i \in 1 .. Len(Chain(o)) : Ghost(Chain(o)[i], store[o]) =>
                 Ghost(cache[o], store[o]) /\ cache[o].deleting
<1>1. PICK c : c = Chain(o)
  OBVIOUS
<1>2. IsChain(c) /\ c[1] = cache[o] /\ c[Len(c)] = store[o]
  BY <1>1, ChainFacts DEF ObjectInv, ReconcilerSound, PinInv, LastIsStored
<1>3. 1 \in 1 .. Len(c) /\ Len(c) \in 1 .. Len(c) /\ 1 <= Len(c)
  BY <1>2 DEF IsChain
<1>4. GoodChain(c, used["create"])
  BY <1>1 DEF PinInv
<1>5. Precedes(c[1], c[Len(c)])
  BY <1>3, <1>4 DEF GoodChain, InOrder
<1>6. ASSUME NEW i \in 1 .. Len(c), Ghost(c[i], c[Len(c)])
      PROVE  Ghost(c[1], c[Len(c)]) /\ c[1].deleting
  <2>1. 1 \in 1 .. i
    BY <1>2 DEF IsChain
  <2> QED
    BY <1>4, <1>6, <2>1 DEF GoodChain, Haunted
<1>7. cache[o] \in VersionsOf(o) \cup {None} /\ store[o] \in VersionsOf(o) \cup {None}
  BY DEF ObjectInv, ReconcilerSound, ApiSound
<1> QED
  BY <1>1, <1>2, <1>3, <1>4, <1>5, <1>6, <1>7 DEF GoodChain, Born, Alone

-----------------------------------------------------------------------------
(* How the steps keep what is pinned.                                      *)

LEMMA ClaimsPinned ==
    ASSUME ObjectInv, ObjectInv', PinInv, Mild, UNCHANGED claims
    PROVE  PinnedByFinalizer'
<1>1. SUFFICES ASSUME NEW c \in claims, c.obj \notin blind'
               PROVE  Pinned(c.obj, c.uid)'
  BY DEF PinnedByFinalizer, Pinned
<1>2. c.obj \in Objects \ blind'
  BY <1>1 DEF ObjectInv, HistorySound
<1>3. Pinned(c.obj, c.uid)
  BY <1>1, <1>2 DEF PinInv, PinnedByFinalizer, Pinned, Mild
<1> QED
  BY <1>2, <1>3, MildKeeps

(* A worker that does not move, or all that start again. *)
LEMMA RelianceStays ==
    ASSUME ObjectInv, ObjectInv', PinInv, Mild, NEW k \in Kinds,
           worker'[k] = worker[k] \/ worker'[k] = Idle
    PROVE  (worker'[k].pc # "idle" /\ worker'[k].key \notin blind') => Relies(k)'
<1>1. CASE worker'[k] = Idle
  BY <1>1, IdleSound
<1>2. CASE worker'[k] = worker[k] /\ worker[k].pc # "idle" /\ worker[k].key \notin blind'
  <2>1. PICK w : w = worker[k] /\ w = worker'[k]
    BY <1>2
  <2>2. PICK o \in Objects \ blind' : o = w.key
    BY <1>2, <2>1, AtWork DEF ObjectInv
  <2>3. Relies(k)
    BY <1>2, <2>1, <2>2 DEF PinInv, Mild
  <2>4. \A uid : Pinned(o, uid) => Pinned(o, uid)' /\ (Alone(o) => Alone(o)')
    BY MildKeeps
  <2>5. PICK uid : uid = w.obj.uid
    OBVIOUS
  <2>6. /\ Pinned(o, uid) => Pinned(o, uid)'
        /\ (Pinned(o, uid) /\ Alone(o)) => Alone(o)'
    BY <2>4
  <2>7. Relies(k)' <=>
          /\ (w.pc \in Underway /\ ~w.obj.deleting) => Pinned(o, uid)' /\ Alone(o)'
          /\ w.pc = "setOwner" => ~w.obj.deleting
          /\ w.pc \in {"mapToEntry", "upsertEntry"} => Pinned(o, uid)'
    BY <2>1, <2>2, <2>5 DEF Relies, Pinned, Alone, Chain
  <2>8. Relies(k) <=>
          /\ (w.pc \in Underway /\ ~w.obj.deleting) => Pinned(o, uid) /\ Alone(o)
          /\ w.pc = "setOwner" => ~w.obj.deleting
          /\ w.pc \in {"mapToEntry", "upsertEntry"} => Pinned(o, uid)
    BY <2>1, <2>2, <2>5 DEF Relies
  <2> QED
    BY <2>3, <2>6, <2>7, <2>8
<1> QED
  BY <1>1, <1>2

LEMMA MildPin ==
    ASSUME ObjectInv, ObjectInv', PinInv, Mild, UNCHANGED claims,
           NEW k \in Kinds, \A j \in Kinds \ {k} : worker'[j] = worker[j] \/ worker'[j] = Idle,
           (worker'[k].pc # "idle" /\ worker'[k].key \notin blind) => Relies(k)'
    PROVE  PinInv'
<1>1. \A j \in Kinds : (worker'[j].pc # "idle" /\ worker'[j].key \notin blind') => Relies(j)'
  BY RelianceStays DEF Mild
<1>2. PinnedByFinalizer' /\ LastIsStored'
      /\ \A o \in Objects \ blind' : GoodChain(Chain(o), used["create"])'
  BY ClaimsPinned, MildKeeps
<1> QED
  BY <1>1, <1>2 DEF PinInv

(* Steps of no worker. *)
LEMMA MildPinAside ==
    ASSUME ObjectInv, ObjectInv', PinInv, Mild, UNCHANGED claims,
           \A j \in Kinds : worker'[j] = worker[j] \/ worker'[j] = Idle
    PROVE  PinInv'
<1>1. \A j \in Kinds : (worker'[j].pc # "idle" /\ worker'[j].key \notin blind') => Relies(j)'
  BY RelianceStays
<1>2. PinnedByFinalizer' /\ LastIsStored'
      /\ \A o \in Objects \ blind' : GoodChain(Chain(o), used["create"])'
  BY ClaimsPinned, MildKeeps
<1> QED
  BY <1>1, <1>2 DEF PinInv

LEMMA StaysMild ==
    ASSUME ObjectInv, UNCHANGED <<store, cache, watch, blind>>,
           UNCHANGED used \/ used["create"] <= used'["create"]
    PROVE  Mild
<1>1. used["create"] \in Nat
  BY DEF ObjectInv, ReconcilerSound, EnvironmentSound, Events
<1> QED
  BY <1>1 DEF Mild, Moves, Untouched

LEMMA PublishMild ==
    ASSUME ObjectInv, NEW o \in Objects, NEW v, Publish(o, v), UNCHANGED <<cache, blind>>,
           used["create"] <= used'["create"],
           o \notin blind =>
              \/ Updated(store[o], v)
              \/ Created(store[o], v, used["create"]) /\ used["create"] < used'["create"]
              \/ store[o] # None /\ ~store[o].finalizer /\ v = None
    PROVE  Mild
<1>1. /\ store' = [store EXCEPT ![o] = v]
      /\ watch' = [watch EXCEPT ![o] = Append(watch[o], v)]
      /\ DOMAIN store = Objects /\ DOMAIN watch = Objects
  BY DEF Publish, ObjectInv, ReconcilerSound, ApiSound
<1>2. store'[o] = v /\ watch'[o] = Append(watch[o], v) /\ cache'[o] = cache[o]
  BY <1>1
<1>3. \A x \in Objects \ {o} : Untouched(x)
  BY <1>1 DEF Untouched
<1>4. Changes(o) /\ (o \notin blind => Gentle(o))
  BY <1>2 DEF Changes, Gentle
<1> QED
  BY <1>3, <1>4 DEF Mild, Moves

LEMMA WriteMild ==
    ASSUME ObjectInv, NEW o \in Objects, NEW v, Write(o, v), UNCHANGED <<cache, blind, used>>,
           o \notin blind => Updated(store[o], v)
    PROVE  Mild
<1>1. used["create"] \in Nat
  BY DEF ObjectInv, ReconcilerSound, EnvironmentSound, Events
<1> QED
  BY <1>1, PublishMild, StaysMild DEF Write

-----------------------------------------------------------------------------
(* Users, the garbage collector, the informers, slapd and crashes.         *)

LEMMA HappensMore ==
    ASSUME ObjectInv, NEW e \in Events, Happens(e)
    PROVE  /\ used["create"] \in Nat /\ used["create"] <= used'["create"]
           /\ e = "create" => used["create"] < used'["create"]
BY DEF Happens, ObjectInv, ReconcilerSound, EnvironmentSound, Events

LEMMA LeftGentle ==
    ASSUME ObjectInv, PinInv, NEW o \in Objects \ blind, store[o] # None
    PROVE  \/ Updated(store[o], Left(store[o]))
           \/ ~store[o].finalizer /\ Left(store[o]) = None
<1>1. PICK v \in VersionsOf(o) : v = store[o]
  BY ChainEnds
<1>2. v.owner # None => v.finalizer
  BY <1>1, ChainEnds
<1>3. v # None /\ v \in Version
  BY <1>1 DEF VersionsOf
<1>4. CASE v.finalizer
  <2>1. PICK n : n = Left(v)
    OBVIOUS
  <2>2. n \in VersionsOf(o) /\ n.uid = v.uid /\ n.deleting /\ n.finalizer
    BY <1>4, <2>1, LeftSound
  <2>3. n # None
    BY <2>2, VersionParts
  <2> QED
    BY <1>1, <1>3, <2>1, <2>2, <2>3 DEF Updated
<1>5. CASE ~v.finalizer
  BY <1>1, <1>5 DEF Left
<1> QED
  BY <1>4, <1>5

LEMMA UsersPin ==
    ASSUME ObjectInv, ObjectInv', PinInv, NEW o \in Objects, Users(o)
    PROVE  PinInv'
<1>1. /\ UNCHANGED <<worker, claims, cache, blind>>
      /\ used["create"] \in Nat /\ used["create"] <= used'["create"]
      /\ Create(o) => used["create"] < used'["create"]
  BY HappensMore DEF Users, Create, Edit, Delete, history, Events
<1>2. CASE Create(o)
  <2>1. PICK spec \in Specs[o] : Publish(o, NewVersion(spec))
    BY <1>2 DEF Create
  <2>2. PICK v : v = NewVersion(spec)
    OBVIOUS
  <2>3. /\ v \in VersionsOf(o) /\ v.uid = used["create"]
        /\ ~v.deleting /\ ~v.finalizer /\ v.owner = None
    BY <2>2, NewVersionSound DEF ObjectInv, ReconcilerSound
  <2>4. Created(store[o], v, used["create"])
    BY <1>2, <2>3, VersionParts DEF Created, Create
  <2>5. Mild
    BY <1>1, <1>2, <2>1, <2>2, <2>4, PublishMild
  <2> QED
    BY <1>1, <2>5, MildPinAside
<1>3. CASE Edit(o)
  <2>1. PICK spec \in Specs[o] : Publish(o, [store[o] EXCEPT !.spec = spec, !.generation = @ + 1])
    BY <1>3 DEF Edit
  <2>2. PICK v \in VersionsOf(o) : v = store[o]
    BY <1>3 DEF Edit, ObjectInv, ReconcilerSound, ApiSound
  <2>3. PICK n : n = [v EXCEPT !.spec = spec, !.generation = @ + 1]
    OBVIOUS
  <2>4. /\ n \in VersionsOf(o) /\ n.uid = v.uid /\ n.deleting = v.deleting
        /\ n.finalizer = v.finalizer /\ n.owner = v.owner
    BY ZenonT(60), <2>1, <2>3, EditedSound
  <2>5. v # None /\ n # None
    BY <2>4, VersionParts
  <2>6. o \notin blind => Updated(v, n)
    BY <2>2, <2>4, <2>5, ChainEnds DEF Updated
  <2>7. Mild
    BY <1>1, <2>1, <2>2, <2>3, <2>6, PublishMild
  <2> QED
    BY <1>1, <2>7, MildPinAside
<1>4. CASE Delete(o)
  <2>1. store[o] # None /\ Publish(o, Left(store[o]))
    BY <1>4 DEF Delete
  <2>2. Mild
    BY <1>1, <2>1, LeftGentle, PublishMild
  <2> QED
    BY <1>1, <2>2, MildPinAside
<1> QED
  BY <1>2, <1>3, <1>4 DEF Users

LEMMA GarbageCollectPin ==
    ASSUME ObjectInv, ObjectInv', PinInv, NEW o \in Objects, GarbageCollect(o)
    PROVE  PinInv'
<1>1. /\ UNCHANGED <<worker, claims, cache, blind, used>>
      /\ store[o] # None /\ Publish(o, Left(store[o]))
  BY DEF GarbageCollect, Orphaned, history, environment
<1>2. used["create"] <= used'["create"]
  BY <1>1 DEF ObjectInv, ReconcilerSound, EnvironmentSound, Events
<1>3. Mild
  BY <1>1, <1>2, LeftGentle, PublishMild
<1> QED
  BY <1>1, <1>3, MildPinAside

LEMMA SyncPin ==
    ASSUME ObjectInv, ObjectInv', PinInv, NEW o \in Objects, Sync(o)
    PROVE  PinInv'
<1>1. /\ UNCHANGED <<worker, claims, blind, used, store>>
      /\ watch[o] # <<>>
      /\ cache' = [cache EXCEPT ![o] = Head(watch[o])]
      /\ watch' = [watch EXCEPT ![o] = Tail(watch[o])]
      /\ DOMAIN cache = Objects /\ DOMAIN watch = Objects
  BY DEF Sync, history, environment, ObjectInv, ReconcilerSound, ApiSound
<1>2. Receives(o)
  BY <1>1 DEF Receives
<1>3. \A x \in Objects \ {o} : Untouched(x)
  BY <1>1 DEF Untouched
<1>4. ~Changes(o)
  <2> DEFINE S == VersionsOf(o) \cup {None}
  <2>1. PICK w \in Seq(S), v \in S : w = watch[o] /\ v = store'[o]
    BY DEF ObjectInv, ReconcilerSound, ApiSound
  <2>2. Len(Append(w, v)) = Len(w) + 1 /\ Len(w) \in Nat /\ Len(Tail(w)) = Len(w) - 1
    BY <1>1, <2>1, AppendProperties, HeadTailProperties, LenProperties
  <2>3. watch'[o] = Tail(w)
    BY <1>1, <2>1
  <2> QED
    BY <2>1, <2>2, <2>3 DEF Changes
<1>5. used["create"] <= used'["create"]
  BY <1>1 DEF ObjectInv, ReconcilerSound, EnvironmentSound, Events
<1>6. Mild
  BY <1>1, <1>2, <1>3, <1>4, <1>5 DEF Mild, Moves
<1> QED
  BY <1>1, <1>6, MildPinAside

(* Nothing of an object changes. *)
LEMMA UnmovedPin ==
    ASSUME ObjectInv, ObjectInv', PinInv,
           UNCHANGED <<store, cache, watch, worker, claims, blind>>,
           UNCHANGED used \/ used["create"] <= used'["create"]
    PROVE  PinInv'
BY StaysMild, MildPinAside

LEMMA ResyncPin ==
    ASSUME ObjectInv, ObjectInv', PinInv,
           \/ \E o \in Objects : Resync(o)
           \/ \E s \in SecretRefs : SecretWritten(s) \/ SecretDeleted(s)
           \/ DirectoryChanges \/ DirectoryDeleted
    PROVE  PinInv'
<1>1. UNCHANGED <<store, cache, watch, worker, claims, blind>>
  BY DEF Resync, SecretWritten, SecretDeleted, DirectoryChanges, DirectoryDeleted,
         kubernetes, history
<1>2. \E e \in Events : Happens(e)
  BY DEF Resync, SecretWritten, SecretDeleted, DirectoryChanges, DirectoryDeleted, Events
<1> QED
  BY <1>1, <1>2, HappensMore, UnmovedPin

LEMMA ProcessStartsPin ==
    ASSUME ObjectInv, ObjectInv', PinInv, ProcessStarts, UNCHANGED used
    PROVE  PinInv'
<1>1. /\ UNCHANGED <<claims, blind, store>> /\ worker' = [k \in Kinds |-> Idle]
      /\ cache' = store /\ watch' = [o \in Objects |-> <<>>]
  BY DEF ProcessStarts, history
<1>2. ASSUME NEW o \in Objects
      PROVE  Restarts(o) /\ ~Changes(o)
  <2> DEFINE S == VersionsOf(o) \cup {None}
  <2>1. PICK w \in Seq(S), v \in S : w = watch[o] /\ v = store'[o]
    BY DEF ObjectInv, ReconcilerSound, ApiSound
  <2>2. Append(w, v) # <<>>
    BY <2>1, AppendProperties, EmptySeq, LenProperties
  <2> QED
    BY <1>1, <2>1, <2>2 DEF Restarts, Changes
<1>3. used["create"] <= used'["create"]
  BY DEF ObjectInv, ReconcilerSound, EnvironmentSound, Events
<1>4. Mild
  BY <1>1, <1>2, <1>3 DEF Mild, Moves
<1> QED
  BY <1>1, <1>4, MildPinAside

-----------------------------------------------------------------------------
(* The steps of Reconcile.                                                 *)

(* What becomes of worker k and of the others. *)
LEMMA WorkerBecomes ==
    ASSUME ObjectInv, NEW k \in Kinds
    PROVE  /\ \A w : Continue(k, w) =>
                 worker'[k] = w /\ \A j \in Kinds \ {k} : worker'[j] = worker[j]
           /\ \A requeue : Finish(k, requeue) =>
                 worker'[k] = Idle /\ \A j \in Kinds \ {k} : worker'[j] = worker[j]
           /\ \A phase, requeue : worker[k].pc # "idle" =>
                 Marking(worker[k], phase, requeue).pc = "mark"
<1>1. worker \in [Kinds -> Worker]
  BY DEF ObjectInv, ReconcilerSound, WorkersSound
<1>2. \A phase, requeue : Marking(worker[k], phase, requeue).pc = "mark"
  BY <1>1 DEF Marking, Worker
<1> QED
  BY <1>1, <1>2 DEF Continue, Finish

(* Off the way to an entry a worker relies on nothing. *)
Resting == {"idle", "addFinalizer", "deleteEntry", "removeFinalizer", "mark"}

LEMMA RestingPin ==
    ASSUME ObjectInv, ObjectInv', PinInv, Mild, UNCHANGED claims,
           NEW k \in Kinds, \A j \in Kinds \ {k} : worker'[j] = worker[j],
           worker'[k].pc \in Resting
    PROVE  PinInv'
<1>1. Relies(k)'
  BY DEF Relies, Resting, Underway
<1> QED
  BY <1>1, MildPin

(* The worker marks the object or returns. *)
LEMMA EndPin ==
    ASSUME ObjectInv, ObjectInv', PinInv, Mild, UNCHANGED claims,
           NEW k \in Kinds, worker[k].pc # "idle",
           \/ \E requeue : Finish(k, requeue)
           \/ \E phase, requeue : Continue(k, Marking(worker[k], phase, requeue))
    PROVE  PinInv'
<1>1. worker'[k].pc \in Resting /\ \A j \in Kinds \ {k} : worker'[j] = worker[j]
  BY WorkerBecomes, IdleSound DEF Resting
<1> QED
  BY <1>1, RestingPin

(* The worker goes on with the same object. *)
LEMMA UnderwayPin ==
    ASSUME ObjectInv, ObjectInv', PinInv, UNCHANGED <<store, cache, watch, blind, used, claims>>,
           NEW k \in Kinds, worker[k].pc \in Underway,
           \A j \in Kinds \ {k} : worker'[j] = worker[j],
           worker'[k].key = worker[k].key, worker'[k].obj = worker[k].obj,
           worker'[k].pc = "setOwner" => ~worker[k].obj.deleting,
           worker'[k].pc \in Underway
    PROVE  PinInv'
<1>1. Mild
  BY StaysMild
<1>2. PICK o, v : o = worker[k].key /\ v = worker[k].obj
  OBVIOUS
<1>3. worker[k].pc # "idle" /\ worker'[k].pc \notin {"mapToEntry", "upsertEntry"}
  BY DEF Underway
<1>4. ASSUME o \notin blind
      PROVE  Relies(k)'
  <2>1. Relies(k)
    BY <1>2, <1>3, <1>4 DEF PinInv
  <2>2. ~v.deleting => Pinned(o, v.uid) /\ Alone(o)
    BY <1>2, <2>1 DEF Relies
  <2>3. ~v.deleting => Pinned(o, v.uid)' /\ Alone(o)'
    BY <2>2 DEF Pinned, Alone, Chain
  <2> QED
    BY <1>2, <1>3, <2>3 DEF Relies, Pinned, Alone, Chain
<1> QED
  BY <1>1, <1>2, <1>4, MildPin

(* An object with its finalizer that is not leaving is no ghost, and the     *)
(* cache that shows it will show no ghost.                                   *)
LEMMA CachePinned ==
    ASSUME ObjectInv, PinInv, NEW o \in Objects \ blind,
           cache[o] # None, cache[o].finalizer, ~cache[o].deleting
    PROVE  Pinned(o, cache[o].uid) /\ Alone(o)
<1>1. Alone(o)
  BY ChainEnds DEF Alone
<1>2. store[o] # None /\ store[o].uid = cache[o].uid
  BY <1>1, ChainEnds DEF Ghost
<1>3. store[o].finalizer
  BY <1>2, ChainEnds DEF Precedes
<1> QED
  BY <1>1, <1>2, <1>3 DEF Pinned

LEMMA GetPin ==
    ASSUME ObjectInv, ObjectInv', PinInv, NEW k \in Kinds, NEW o \in Objects, Get(k, o)
    PROVE  PinInv'
<1>1. /\ UNCHANGED <<store, cache, watch, blind, used, claims>>
      /\ worker[k].pc = "idle" /\ worker \in [Kinds -> Worker]
  BY DEF Get, At, environment, history, ObjectInv, ReconcilerSound, WorkersSound
<1>2. CASE UNCHANGED worker
  BY <1>1, <1>2, UnmovedPin
<1>3. CASE cache[o] # None /\ worker' = [worker EXCEPT ![k] =
             [Idle EXCEPT !.key = o, !.obj = cache[o], !.pc = FirstStep(cache[o])]]
  <2>1. PICK w : w = [Idle EXCEPT !.key = o, !.obj = cache[o], !.pc = FirstStep(cache[o])]
    OBVIOUS
  <2>2. /\ worker'[k] = w /\ w.key = o /\ w.obj = cache[o] /\ w.pc = FirstStep(cache[o])
        /\ \A j \in Kinds \ {k} : worker'[j] = worker[j]
    BY <1>1, <1>3, <2>1 DEF Idle
  <2>3. ASSUME o \notin blind
        PROVE  Relies(k)'
    <3>1. CASE cache[o].finalizer
      <4>1. w.pc = "resolveReferences"
        BY <2>2, <3>1 DEF FirstStep
      <4>2. ~cache[o].deleting => Pinned(o, cache[o].uid) /\ Alone(o)
        BY <1>3, <2>3, <3>1, CachePinned
      <4>3. ~cache[o].deleting => Pinned(o, cache[o].uid)' /\ Alone(o)'
        BY <1>1, <4>2 DEF Pinned, Alone, Chain
      <4> QED
        BY <1>1, <2>2, <4>1, <4>3 DEF Relies, Pinned, Alone, Chain
    <3>2. CASE ~cache[o].finalizer
      BY <2>2, <3>2 DEF FirstStep, Relies, Underway
    <3> QED
      BY <3>1, <3>2
  <2> QED
    BY <1>1, <2>2, <2>3, StaysMild, MildPin
<1> QED
  BY <1>2, <1>3 DEF Get

LEMMA ResolvePin ==
    ASSUME ObjectInv, ObjectInv', PinInv, NEW k \in Kinds,
           ResolveReferences(k) \/ ResolveDirectory(k)
    PROVE  PinInv'
<1> DEFINE w == worker[k]
<1>1. /\ w.pc \in {"resolveReferences", "resolveDirectory"} /\ w.pc # "idle" /\ w.pc \in Underway
      /\ UNCHANGED <<store, cache, watch, blind, used, claims>>
      /\ {"removeFinalizer", "resolveDirectory", "resolveParent"} \subseteq Pcs \ {"idle"}
  BY StepNames DEF ResolveReferences, ResolveDirectory, At, Underway, environment, history
<1>2. Sound(k, w) /\ ~Emptied(w) /\ Mild
  BY <1>1, AtWork, StaysMild DEF ObjectInv
<1>3. CASE MarkPending(k)
  BY <1>1, <1>2, <1>3, EndPin DEF MarkPending
<1>4. CASE Continue(k, To(w, "removeFinalizer"))
  <2>1. worker'[k].pc = "removeFinalizer" /\ \A j \in Kinds \ {k} : worker'[j] = worker[j]
    BY <1>1, <1>2, <1>4, WorkerBecomes DEF To, Sound, Worker
  <2> QED
    BY <1>1, <1>2, <2>1, RestingPin DEF Resting
<1>5. CASE Continue(k, To(w, "resolveDirectory"))
  <2>1. PICK n : n = To(w, "resolveDirectory")
    OBVIOUS
  <2>2. n.pc = "resolveDirectory" /\ n.key = w.key /\ n.obj = w.obj
    BY <1>1, <1>2, <2>1, ToSound DEF Composed, Nameless
  <2>3. worker'[k] = n /\ \A j \in Kinds \ {k} : worker'[j] = worker[j]
    BY <1>5, <2>1, WorkerBecomes
  <2> QED
    BY <1>1, <2>2, <2>3, UnderwayPin DEF Underway
<1>6. ASSUME directory # None,
             Continue(k, [To(w, "resolveParent") EXCEPT
                !.owner = [name |-> Directory, uid |-> directory.uid]])
      PROVE  PinInv'
  <2>1. PICK owner \in Owner : owner = [name |-> Directory, uid |-> directory.uid]
    BY <1>6 DEF ObjectInv, ReconcilerSound, EnvironmentSound, DirectoryVersion, Owner
  <2>2. PICK n : n = [To(w, "resolveParent") EXCEPT !.owner = owner]
    OBVIOUS
  <2>3. n.pc = "resolveParent" /\ n.key = w.key /\ n.obj = w.obj
    BY <1>1, <1>2, <2>2, ToSound DEF Composed, Nameless
  <2>4. worker'[k] = n /\ \A j \in Kinds \ {k} : worker'[j] = worker[j]
    BY <1>6, <2>1, <2>2, WorkerBecomes
  <2> QED
    BY <1>1, <2>3, <2>4, UnderwayPin DEF Underway
<1> QED
  BY <1>3, <1>4, <1>5, <1>6 DEF ResolveReferences, ResolveDirectory, Unresolved

LEMMA ResolveParentPin ==
    ASSUME ObjectInv, ObjectInv', PinInv, NEW k \in Kinds, ResolveParent(k)
    PROVE  PinInv'
<1> DEFINE w == worker[k]
<1>1. /\ w.pc = "resolveParent" /\ w.pc # "idle" /\ w.pc \in Underway
      /\ UNCHANGED <<store, cache, watch, blind, used, claims>>
  BY DEF ResolveParent, At, Underway, environment, history
<1>2. w \in Worker /\ Mild
  BY <1>1, AtWork, StaysMild DEF ObjectInv
<1>3. CASE MarkPending(k) \/ MarkFailed(k, TRUE)
  BY <1>1, <1>2, <1>3, EndPin DEF MarkPending, MarkFailed
<1>4. ASSUME NEW n, Continue(k, n),
             n = Named(w) \/ \E owner : n = [Named(w) EXCEPT !.owner = owner]
      PROVE  PinInv'
  <2>1. n.pc = "getDistinguishedName" /\ n.key = w.key /\ n.obj = w.obj
    BY <1>2, <1>4 DEF Named, To, Worker
  <2>2. worker'[k] = n /\ \A j \in Kinds \ {k} : worker'[j] = worker[j]
    BY <1>4, WorkerBecomes
  <2> QED
    BY <1>1, <2>1, <2>2, UnderwayPin DEF Underway
<1> QED
  BY <1>3, <1>4 DEF ResolveParent

LEMMA GetDistinguishedNamePin ==
    ASSUME ObjectInv, ObjectInv', PinInv, NEW k \in Kinds, GetDistinguishedName(k)
    PROVE  PinInv'
<1> DEFINE w == worker[k]
           p == w.climb
<1>1. /\ w.pc = "getDistinguishedName" /\ w.pc # "idle" /\ w.pc \in Underway
      /\ UNCHANGED <<store, cache, watch, blind, used, claims>>
  BY DEF GetDistinguishedName, At, Underway, environment, history
<1>2. w \in Worker /\ Mild
  BY <1>1, AtWork, StaysMild DEF ObjectInv
<1>3. CASE Finish(k, TRUE)
  BY <1>1, <1>2, <1>3, EndPin
<1>4. CASE Continue(k, Ascended(w, p))
  <2>1. PICK n : n = Ascended(w, p)
    OBVIOUS
  <2>2. n.pc = "getDistinguishedName" /\ n.key = w.key /\ n.obj = w.obj
    BY <1>1, <1>2, <2>1 DEF Ascended, Worker
  <2>3. worker'[k] = n /\ \A j \in Kinds \ {k} : worker'[j] = worker[j]
    BY <1>4, <2>1, WorkerBecomes
  <2> QED
    BY <1>1, <2>2, <2>3, UnderwayPin DEF Underway
<1>5. CASE w.obj.deleting /\ Continue(k, To(w, "deleteEntry"))
  <2>1. worker'[k].pc = "deleteEntry" /\ \A j \in Kinds \ {k} : worker'[j] = worker[j]
    BY <1>2, <1>5, WorkerBecomes DEF To, Worker
  <2> QED
    BY <1>1, <1>2, <2>1, RestingPin DEF Resting
<1>6. CASE ~w.obj.deleting /\ Continue(k, To(w, "setOwner"))
  <2>1. PICK n : n = To(w, "setOwner")
    OBVIOUS
  <2>2. n.pc = "setOwner" /\ n.key = w.key /\ n.obj = w.obj
    BY <1>2, <2>1 DEF To, Worker
  <2>3. worker'[k] = n /\ \A j \in Kinds \ {k} : worker'[j] = worker[j]
    BY <1>6, <2>1, WorkerBecomes
  <2> QED
    BY <1>1, <1>6, <2>2, <2>3, UnderwayPin DEF Underway
<1> QED
  BY <1>3, <1>4, <1>5, <1>6 DEF GetDistinguishedName, OnceNamed

LEMMA ApiFailsPin ==
    ASSUME ObjectInv, ObjectInv', PinInv, NEW k \in Kinds, ApiFails(k)
    PROVE  PinInv'
<1>1. /\ UNCHANGED <<store, cache, watch, blind, used, claims>>
      /\ worker[k].pc # "idle"
  BY DEF ApiFails, environment, history
<1>2. Mild
  BY <1>1, StaysMild
<1> QED
  BY <1>1, <1>2, EndPin DEF ApiFails, MarkFailed

LEMMA DeleteEntryPin ==
    ASSUME ObjectInv, ObjectInv', PinInv, NEW k \in Kinds, DeleteEntry(k)
    PROVE  PinInv'
<1> DEFINE w == worker[k]
<1>1. /\ w.pc = "deleteEntry" /\ w.pc # "idle" /\ worker \in [Kinds -> Worker]
      /\ UNCHANGED <<store, cache, watch, blind, used, claims>>
  BY DEF DeleteEntry, At, kubernetes, environment, history,
         ObjectInv, ReconcilerSound, WorkersSound
<1>2. Mild
  BY <1>1, StaysMild
<1>3. CASE UNCHANGED worker
  BY <1>1, <1>3, UnmovedPin
<1>4. CASE worker' = [worker EXCEPT ![k] =
             [To(w, "removeFinalizer") EXCEPT !.failed = ~call[k].ok]]
  <2>1. w \in Worker
    BY <1>1
  <2>2. [To(w, "removeFinalizer") EXCEPT !.failed = ~call[k].ok].pc = "removeFinalizer"
    BY <2>1 DEF To, Worker
  <2>3. worker'[k].pc = "removeFinalizer" /\ \A j \in Kinds \ {k} : worker'[j] = worker[j]
    BY <1>1, <1>4, <2>2
  <2> QED
    BY <1>1, <1>2, <2>3, RestingPin DEF Resting
<1> QED
  BY <1>3, <1>4 DEF DeleteEntry

LEMMA CreateOrUpdateEntryPin ==
    ASSUME ObjectInv, ObjectInv', PinInv, NEW k \in Kinds, CreateOrUpdateEntry(k)
    PROVE  PinInv'
<1>1. /\ UNCHANGED <<store, cache, watch, blind, used, claims>>
      /\ worker[k].pc # "idle"
  BY DEF CreateOrUpdateEntry, At, environment, history
<1>2. Mild
  BY <1>1, StaysMild
<1> QED
  BY <1>1, <1>2, EndPin DEF CreateOrUpdateEntry, MarkFailed

LEMMA MarkPin ==
    ASSUME ObjectInv, ObjectInv', PinInv, NEW k \in Kinds, Mark(k)
    PROVE  PinInv'
<1> DEFINE w == worker[k]
           o == w.key
<1>1. /\ w.pc = "mark" /\ w.pc # "idle"
      /\ UNCHANGED <<cache, blind, used, claims>>
      /\ \E requeue : Finish(k, requeue)
  BY DEF Mark, At, environment, history
<1>2. o \in Objects /\ store[o] \in VersionsOf(o) \cup {None} /\ w \in Worker
  BY <1>1, AtWork DEF ObjectInv
<1>3. CASE UNCHANGED <<store, watch>>
  BY <1>1, <1>3, StaysMild, EndPin
<1>4. CASE store[o] # None /\ Write(o, [store[o] EXCEPT !.status = StatusOf(w, store[o])])
  <2>1. PICK v \in VersionsOf(o) : v = store[o]
    BY <1>2, <1>4
  <2>2. PICK status \in Status : status = StatusOf(w, v)
    BY <1>2, <2>1, VersionParts DEF StatusOf, Status, Worker
  <2>3. PICK n : n = [v EXCEPT !.status = status]
    OBVIOUS
  <2>4. /\ n \in VersionsOf(o) /\ n.uid = v.uid /\ n.deleting = v.deleting
        /\ n.finalizer = v.finalizer /\ n.owner = v.owner
    BY <2>3 DEF VersionsOf, Version
  <2>5. v # None /\ n # None
    BY <1>2, <2>4, VersionParts
  <2>6. o \notin blind => Updated(v, n)
    BY <1>2, <2>1, <2>4, <2>5, ChainEnds DEF Updated
  <2>7. Mild
    BY <1>1, <1>2, <1>4, <2>1, <2>2, <2>3, <2>6, WriteMild
  <2> QED
    BY <1>1, <2>7, EndPin
<1> QED
  BY <1>3, <1>4 DEF Mark, Unpatchable

(* The entry is asked for: what the worker relies on is what makes the claim *)
(* good.                                                                     *)
LEMMA MapToEntryPin ==
    ASSUME ObjectInv, ObjectInv', PinInv, NEW k \in Kinds, MapToEntry(k)
    PROVE  PinInv'
<1> DEFINE w == worker[k]
<1>1. /\ w.pc = "mapToEntry" /\ w.pc # "idle" /\ w \in Worker
      /\ UNCHANGED <<store, cache, watch, blind, used>>
  BY AtWork DEF MapToEntry, At, environment, history, ObjectInv
<1>2. Mild
  BY <1>1, StaysMild
<1>3. CASE MarkFailed(k, FALSE) /\ UNCHANGED history
  BY <1>1, <1>2, <1>3, EndPin DEF MarkFailed, history
<1>4. CASE /\ Continue(k, To(w, "upsertEntry"))
           /\ claims' = claims \cup {[obj |-> w.key, uid |-> w.obj.uid, dn |-> w.dn]}
  <2>1. PICK n, o, uid, c : /\ n = To(w, "upsertEntry") /\ o = w.key /\ uid = w.obj.uid
                            /\ c = [obj |-> o, uid |-> uid, dn |-> w.dn]
    OBVIOUS
  <2>2. n.pc = "upsertEntry" /\ n.key = o /\ n.obj.uid = uid /\ c.obj = o /\ c.uid = uid
    BY <1>1, <2>1 DEF To, Worker
  <2>3. worker'[k] = n /\ \A j \in Kinds \ {k} : worker'[j] = worker[j]
    BY <1>4, <2>1, WorkerBecomes
  <2>4. o \notin blind => Pinned(o, uid) /\ Pinned(o, uid)'
    BY <1>1, <2>1 DEF PinInv, Relies, Pinned
  <2>5. ASSUME NEW j \in Kinds, worker'[j].pc # "idle", worker'[j].key \notin blind'
        PROVE  Relies(j)'
    <3>1. CASE j = k
      BY <1>1, <2>2, <2>3, <2>4, <2>5, <3>1 DEF Relies, Pinned, Underway
    <3>2. CASE j # k
      BY <1>2, <2>3, <2>5, <3>2, RelianceStays
    <3> QED
      BY <3>1, <3>2
  <2>6. ASSUME NEW x \in claims', x.obj \notin blind'
        PROVE  Pinned(x.obj, x.uid)'
    <3>1. CASE x \in claims
      BY <1>1, <2>6, <3>1 DEF PinInv, PinnedByFinalizer, Pinned
    <3>2. CASE x = c
      BY <1>1, <2>2, <2>4, <2>6, <3>2
    <3> QED
      BY <1>4, <2>1, <2>6, <3>1, <3>2
  <2>7. PinnedByFinalizer'
    BY <2>6 DEF PinnedByFinalizer, Pinned
  <2>8. LastIsStored' /\ \A x \in Objects \ blind' : GoodChain(Chain(x), used["create"])'
    BY <1>2, MildKeeps
  <2> QED
    BY <2>5, <2>7, <2>8 DEF PinInv
<1> QED
  BY <1>3, <1>4 DEF MapToEntry

(* A patch of the object whose answer the worker goes on with. *)
LEMMA PatchPin ==
    ASSUME ObjectInv, ObjectInv', PinInv, UNCHANGED <<cache, blind, used, claims>>,
           NEW k \in Kinds, NEW o \in Objects, NEW v \in VersionsOf(o), Write(o, v),
           \A j \in Kinds \ {k} : worker'[j] = worker[j],
           worker'[k].key = o, worker'[k].obj = v,
           worker'[k].pc \in {"resolveReferences", "mapToEntry"},
           o \notin blind => Updated(store[o], v) /\ v.finalizer /\ Alone(o)
    PROVE  PinInv'
<1>1. Mild
  BY WriteMild
<1>2. ApiSound /\ ApiSound' /\ Moves(o) /\ store'[o] = v
  BY <1>1 DEF Mild, ObjectInv, ReconcilerSound, ApiSound, Write, Publish
<1>3. ASSUME o \notin blind
      PROVE  Pinned(o, v.uid)' /\ Alone(o)'
  <2>1. /\ store[o] # None /\ store'[o] # None /\ store'[o].uid = store[o].uid
        /\ v.finalizer /\ Alone(o)
    BY <1>2, <1>3 DEF Updated
  <2> QED
    BY <1>2, <2>1, AloneStays DEF Pinned
<1>4. worker'[k].key \notin blind => Relies(k)'
  BY <1>3 DEF Relies, Pinned, Alone, Chain
<1> QED
  BY <1>1, <1>4, MildPin

LEMMA AddFinalizerPin ==
    ASSUME ObjectInv, ObjectInv', PinInv, NEW k \in Kinds, AddFinalizer(k)
    PROVE  PinInv'
<1> DEFINE w == worker[k]
<1>0. PICK o : o = w.key
  OBVIOUS
<1>1. /\ w.pc = "addFinalizer" /\ w.pc # "idle"
      /\ UNCHANGED <<cache, blind, used, claims>>
      /\ "resolveReferences" \in Pcs \ {"idle"} /\ "resolveReferences" \notin Composed
  BY StepNames DEF AddFinalizer, At, environment, history, Composed
<1>2. /\ Sound(k, w) /\ ~Emptied(w) /\ o \in Objects
      /\ store[o] \in VersionsOf(o) \cup {None} /\ cache[o] \in VersionsOf(o) \cup {None}
  BY <1>0, <1>1, AtWork DEF ObjectInv
<1>3. ASSUME NEW v \in VersionsOf(o),
             Continue(k, [To(w, "resolveReferences") EXCEPT !.obj = v])
      PROVE  /\ worker'[k].pc = "resolveReferences" /\ worker'[k].key = o /\ worker'[k].obj = v
             /\ \A j \in Kinds \ {k} : worker'[j] = worker[j]
  <2>1. PICK n : n = [To(w, "resolveReferences") EXCEPT !.obj = v]
    OBVIOUS
  <2>2. n.pc = "resolveReferences" /\ n.key = o /\ n.obj = v
    BY <1>0, <1>1, <1>2, <2>1, ToSound DEF Nameless
  <2> QED
    BY <1>3, <2>1, <2>2, WorkerBecomes
<1>4. CASE /\ cache[o] # None /\ cache[o].finalizer
           /\ Continue(k, [To(w, "resolveReferences") EXCEPT !.obj = cache[o]])
           /\ UNCHANGED <<store, watch>>
  <2>1. PICK v \in VersionsOf(o) : v = cache[o]
    BY <1>2, <1>4
  <2>2. /\ worker'[k].pc = "resolveReferences" /\ worker'[k].key = o /\ worker'[k].obj = v
        /\ \A j \in Kinds \ {k} : worker'[j] = worker[j]
    BY <1>3, <1>4, <2>1
  <2>3. (o \notin blind /\ ~v.deleting) => Pinned(o, v.uid) /\ Alone(o)
    BY <1>2, <1>4, <2>1, CachePinned
  <2>4. (o \notin blind /\ ~v.deleting) => Pinned(o, v.uid)' /\ Alone(o)'
    BY <1>1, <1>4, <2>3 DEF Pinned, Alone, Chain
  <2>5. worker'[k].key \notin blind => Relies(k)'
    BY <2>2, <2>4 DEF Relies, Pinned, Alone, Chain
  <2> QED
    BY <1>1, <1>4, <2>2, <2>5, StaysMild, MildPin
<1>5. CASE /\ cache[o] # None /\ store[o] # None /\ ~cache[o].finalizer
           /\ Write(o, [store[o] EXCEPT !.finalizer = TRUE])
           /\ Continue(k, [To(w, "resolveReferences") EXCEPT
                 !.obj = [store[o] EXCEPT !.finalizer = TRUE]])
  <2>1. PICK v \in VersionsOf(o) : v = store[o]
    BY <1>2, <1>5
  <2>2. PICK n : n = [v EXCEPT !.finalizer = TRUE]
    OBVIOUS
  <2>3. /\ n \in VersionsOf(o) /\ n.uid = v.uid /\ n.deleting = v.deleting
        /\ n.finalizer /\ n.owner = v.owner
    BY <2>2 DEF VersionsOf, Version
  <2>4. Updated(v, n)
    BY <1>2, <2>3, VersionParts DEF Updated
  <2>5. o \notin blind => Alone(o)
    BY <1>2, <1>5, ChainEnds DEF Alone, Ghost
  <2>6. /\ worker'[k].pc = "resolveReferences" /\ worker'[k].key = o /\ worker'[k].obj = n
        /\ \A j \in Kinds \ {k} : worker'[j] = worker[j]
    BY <1>3, <1>5, <2>1, <2>2, <2>3
  <2>7. Write(o, n)
    BY <1>5, <2>1, <2>2
  <2> QED
    BY <1>1, <1>2, <2>1, <2>3, <2>4, <2>5, <2>6, <2>7, PatchPin
<1>6. CASE Finish(k, TRUE) /\ UNCHANGED <<store, watch>>
  BY <1>1, <1>6, StaysMild, EndPin
<1> QED
  BY <1>0, <1>4, <1>5, <1>6 DEF AddFinalizer, Unpatchable

(* The object in memory becomes the one in the cache, or the patched one: in *)
(* the absence of ghosts the cache shows an owner only of this incarnation.  *)
LEMMA SetOwnerPin ==
    ASSUME ObjectInv, ObjectInv', PinInv, NEW k \in Kinds, SetOwner(k)
    PROVE  PinInv'
<1> DEFINE w == worker[k]
<1>0. PICK o : o = w.key
  OBVIOUS
<1>1. /\ w.pc = "setOwner" /\ w.pc # "idle" /\ w.pc \in Composed /\ w.owner # None
      /\ UNCHANGED <<cache, blind, used, claims>>
      /\ "mapToEntry" \in Pcs \ {"idle"}
  BY StepNames DEF SetOwner, At, environment, history, Composed
<1>2. /\ Sound(k, w) /\ ~Emptied(w) /\ o \in Objects /\ w.owner \in Owner
      /\ store[o] \in VersionsOf(o) \cup {None} /\ cache[o] \in VersionsOf(o) \cup {None}
  BY <1>0, <1>1, AtWork DEF ObjectInv, Worker
<1>3. ASSUME NEW v \in VersionsOf(o),
             Continue(k, [To(w, "mapToEntry") EXCEPT !.obj = v])
      PROVE  /\ worker'[k].pc = "mapToEntry" /\ worker'[k].key = o /\ worker'[k].obj = v
             /\ \A j \in Kinds \ {k} : worker'[j] = worker[j]
  <2>1. PICK n : n = [To(w, "mapToEntry") EXCEPT !.obj = v]
    OBVIOUS
  <2>2. n.pc = "mapToEntry" /\ n.key = o /\ n.obj = v
    BY <1>0, <1>1, <1>2, <2>1, ToSound DEF Nameless
  <2> QED
    BY <1>3, <2>1, <2>2, WorkerBecomes
<1>4. ASSUME o \notin blind
      PROVE  store[o] # None /\ store[o].finalizer /\ Alone(o)
  BY <1>0, <1>1, <1>4 DEF PinInv, Relies, Underway, Pinned
<1>5. CASE /\ cache[o] # None /\ cache[o].owner = w.owner
           /\ Continue(k, [To(w, "mapToEntry") EXCEPT !.obj = cache[o]])
           /\ UNCHANGED <<store, watch>>
  <2>1. PICK v \in VersionsOf(o) : v = cache[o]
    BY <1>2, <1>5
  <2>2. /\ worker'[k].pc = "mapToEntry" /\ worker'[k].key = o /\ worker'[k].obj = v
        /\ \A j \in Kinds \ {k} : worker'[j] = worker[j]
    BY <1>3, <1>5, <2>1
  <2>3. ASSUME o \notin blind
        PROVE  Pinned(o, v.uid)
    <3>1. cache[o].finalizer /\ ~Ghost(cache[o], store[o])
      BY <1>1, <1>2, <1>4, <1>5, <2>3, ChainEnds
    <3> QED
      BY <1>4, <1>5, <2>1, <2>3, <3>1 DEF Ghost, Pinned
  <2>4. worker'[k].key \notin blind => Relies(k)'
    BY <1>1, <1>5, <2>2, <2>3 DEF Relies, Pinned, Underway
  <2> QED
    BY <1>1, <1>5, <2>2, <2>4, StaysMild, MildPin
<1>6. CASE /\ store[o] # None
           /\ Write(o, Owned(o, w.owner))
           /\ Continue(k, [To(w, "mapToEntry") EXCEPT !.obj = Owned(o, w.owner)])
  <2>1. PICK v \in VersionsOf(o) : v = store[o]
    BY <1>2, <1>6
  <2>2. PICK n : n = Owned(o, w.owner)
    OBVIOUS
  <2>3. /\ n \in VersionsOf(o) /\ n.uid = v.uid /\ n.deleting = v.deleting
        /\ n.finalizer = v.finalizer
    BY <1>2, <2>1, <2>2 DEF VersionsOf, Version, Owned
  <2>4. o \notin blind => Updated(v, n) /\ n.finalizer /\ Alone(o)
    BY <1>2, <1>4, <2>1, <2>3, VersionParts DEF Updated
  <2>5. /\ worker'[k].pc = "mapToEntry" /\ worker'[k].key = o /\ worker'[k].obj = n
        /\ \A j \in Kinds \ {k} : worker'[j] = worker[j]
    BY <1>3, <1>6, <2>2, <2>3
  <2>6. Write(o, n)
    BY <1>6, <2>2
  <2> QED
    BY <1>1, <1>2, <2>1, <2>3, <2>4, <2>5, <2>6, PatchPin
<1>7. CASE MarkFailed(k, FALSE) /\ UNCHANGED <<store, watch>>
  BY <1>1, <1>7, StaysMild, EndPin DEF MarkFailed
<1> QED
  BY <1>0, <1>5, <1>6, <1>7 DEF SetOwner

(* What happens to the object whose finalizer is removed, unless the cache   *)
(* shows it staying: an object that was leaving is gone, and the cache that  *)
(* showed it leaving shows nothing but its ghost until it shows it gone; an  *)
(* object without a finalizer stays as it is.                                *)
LEMMA ReleasedGood ==
    ASSUME ObjectInv, ObjectInv', PinInv, UNCHANGED <<cache, used>>,
           NEW o \in Objects \ blind, cache[o] # None, store[o] # None,
           store[o].finalizer => cache[o].uid = store[o].uid /\ cache[o].deleting,
           Write(o, Unpinned(store[o]))
    PROVE  GoodChain(Chain(o), used["create"])'
<1>1. PICK s \in VersionsOf(o), x \in VersionsOf(o) : s = store[o] /\ x = cache[o]
  BY ChainEnds
<1>2. PICK v : v = Unpinned(s)
  OBVIOUS
<1>3. /\ ApiSound /\ ApiSound' /\ used["create"] \in Nat
      /\ Chain(o)[Len(Chain(o))] = s /\ GoodChain(Chain(o), used["create"])
  BY <1>1 DEF ObjectInv, ReconcilerSound, EnvironmentSound, Events, PinInv, LastIsStored
<1>4. Moves(o) /\ store'[o] = v
  BY <1>1, <1>2, <1>3 DEF Moves, Untouched, Changes, Write, Publish, ApiSound
<1>5. /\ Precedes(x, s) /\ s # None /\ x # None
      /\ s.deleting => s.finalizer
      /\ s.owner # None => s.finalizer
  BY <1>1, ChainEnds
<1>6. CASE s.finalizer
  <2>1. x.uid = s.uid /\ x.deleting
    BY <1>1, <1>6
  <2>2. v = None
    BY <1>2, <1>5, <2>1 DEF Precedes, Unpinned
  <2>3. Chain(o)[1] = x
    BY <1>1, <1>3, ChainFacts
  <2>4. Extends(Chain(o), v, used["create"]) /\ ~Created(s, v, used["create"])
    BY <1>3, <1>5, <2>1, <2>2, <2>3 DEF Extends, Removed, Created
  <2> QED
    BY <1>1, <1>3, <1>4, <2>4, GoodStays
<1>7. CASE ~s.finalizer
  <2>1. v = [s EXCEPT !.finalizer = FALSE]
    BY <1>2, <1>5, <1>7 DEF Unpinned
  <2>2. /\ v \in VersionsOf(o) /\ v.uid = s.uid /\ v.deleting = s.deleting
        /\ v.owner = s.owner
    BY <2>1 DEF VersionsOf, Version
  <2>3. Updated(s, v)
    BY <1>5, <1>7, <2>2, VersionParts DEF Updated
  <2>4. Extends(Chain(o), v, used["create"]) /\ ~Created(s, v, used["create"])
    BY <1>3, <1>5, <2>3 DEF Extends, Created
  <2> QED
    BY <1>1, <1>3, <1>4, <2>4, GoodStays
<1> QED
  BY <1>6, <1>7

LEMMA RemoveFinalizerPin ==
    ASSUME ObjectInv, ObjectInv', PinInv, NEW k \in Kinds, RemoveFinalizer(k)
    PROVE  PinInv'
<1> DEFINE w == worker[k]
<1>0. PICK o : o = w.key
  OBVIOUS
<1>1. /\ w.pc = "removeFinalizer" /\ w.pc # "idle"
      /\ UNCHANGED <<cache, used>>
      /\ \E requeue : Finish(k, requeue)
  BY DEF RemoveFinalizer, At, environment
<1>2. o \in Objects /\ KindOf[o] = k
  BY <1>0, <1>1, AtWork DEF ObjectInv
<1>3. CASE UNCHANGED <<store, watch, history>>
  BY <1>1, <1>3, StaysMild, EndPin DEF history
<1>4. CASE /\ cache[o] # None /\ store[o] # None
           /\ Write(o, Unpinned(store[o])) /\ Release(o, w)
  <2>1. worker'[k] = Idle /\ \A j \in Kinds \ {k} : worker'[j] = worker[j]
    BY <1>1, WorkerBecomes
  <2>2. /\ claims' = claims \ {c \in claims : c.obj = o /\ c.uid = store[o].uid}
        /\ blind \subseteq blind'
        /\ o \notin blind' => (store[o].finalizer =>
                                 cache[o].uid = store[o].uid /\ cache[o].deleting)
    BY <1>4 DEF Release
  <2>3. \A x \in Objects \ {o} : Untouched(x)
    BY <1>1, <1>2, <1>4 DEF Write, Publish, Untouched, ObjectInv, ReconcilerSound, ApiSound
  <2>4. ASSUME NEW x \in Objects
        PROVE  (Chain(x)[Len(Chain(x))] = store[x])'
    <3>1. Moves(x)
      BY <1>1, <1>2, <1>4, <2>3
         DEF Moves, Untouched, Changes, Write, Publish, ObjectInv, ReconcilerSound, ApiSound
    <3> QED
      BY <3>1, LastStays DEF PinInv, LastIsStored, ObjectInv, ReconcilerSound
  <2>5. ASSUME NEW x \in Objects \ blind'
        PROVE  GoodChain(Chain(x), used["create"])'
    <3>1. CASE x = o
      BY <1>1, <1>4, <2>2, <2>5, <3>1, ReleasedGood
    <3>2. CASE x # o
      <4>1. Chain(x)' = Chain(x) /\ used' = used
        BY <1>1, <2>3, <3>2 DEF Untouched, Chain
      <4>2. GoodChain(Chain(x), used["create"])
        BY <2>2, <2>5 DEF PinInv
      <4> QED
        BY <4>1, <4>2
    <3> QED
      BY <3>1, <3>2
  <2>6. ASSUME NEW j \in Kinds, worker'[j].pc # "idle", worker'[j].key \notin blind'
        PROVE  Relies(j)'
    <3>1. j # k /\ worker'[j] = worker[j]
      BY <2>1, <2>6, IdleSound
    <3>2. PICK n, x : n = worker[j] /\ n = worker'[j] /\ x = n.key
      BY <3>1
    <3>3. x \in Objects /\ x # o
      BY <1>2, <2>6, <3>1, <3>2, AtWork DEF ObjectInv
    <3>4. Untouched(x) /\ Chain(x)' = Chain(x)
      BY <2>3, <3>3 DEF Untouched, Chain
    <3>5. PICK uid : uid = n.obj.uid
      OBVIOUS
    <3>6. Relies(j)
      BY <2>2, <2>6, <3>2 DEF PinInv
    <3>7. Pinned(x, uid)' = Pinned(x, uid) /\ Alone(x)' = Alone(x)
      BY <3>4 DEF Untouched, Pinned, Alone
    <3>8. Relies(j)' <=>
            /\ (n.pc \in Underway /\ ~n.obj.deleting) => Pinned(x, uid)' /\ Alone(x)'
            /\ n.pc = "setOwner" => ~n.obj.deleting
            /\ n.pc \in {"mapToEntry", "upsertEntry"} => Pinned(x, uid)'
      BY <3>2, <3>5 DEF Relies, Pinned, Alone, Chain
    <3>9. Relies(j) <=>
            /\ (n.pc \in Underway /\ ~n.obj.deleting) => Pinned(x, uid) /\ Alone(x)
            /\ n.pc = "setOwner" => ~n.obj.deleting
            /\ n.pc \in {"mapToEntry", "upsertEntry"} => Pinned(x, uid)
      BY <3>2, <3>5 DEF Relies
    <3> QED
      BY <3>6, <3>7, <3>8, <3>9
  <2>7. ASSUME NEW c \in claims', c.obj \notin blind'
        PROVE  Pinned(c.obj, c.uid)'
    <3>1. c \in claims /\ c.obj \in Objects /\ Pinned(c.obj, c.uid)
      BY <2>2, <2>7 DEF PinInv, PinnedByFinalizer, Pinned, ObjectInv, HistorySound
    <3>2. c.obj # o
      BY <2>2, <2>7, <3>1 DEF Pinned
    <3> QED
      BY <2>3, <3>1, <3>2 DEF Untouched, Pinned
  <2>8. PinnedByFinalizer' /\ LastIsStored'
    BY <2>4, <2>7 DEF PinnedByFinalizer, Pinned, LastIsStored
  <2> QED
    BY <2>5, <2>6, <2>8 DEF PinInv
<1> QED
  BY <1>0, <1>3, <1>4 DEF RemoveFinalizer, Unpatchable

-----------------------------------------------------------------------------
(* The specification.                                                      *)

LEMMA PinInit ==
    ASSUME Init
    PROVE  PinInv
<1>1. ObjectInv
  BY ObjectInitSound
<1>2. /\ store = [o \in Objects |-> None] /\ cache = store /\ watch = [o \in Objects |-> <<>>]
      /\ worker = [k \in Kinds |-> Idle] /\ claims = {} /\ blind = {}
  BY DEF Init
<1>3. ASSUME NEW o \in Objects
      PROVE  /\ Chain(o)[Len(Chain(o))] = store[o]
             /\ GoodChain(Chain(o), used["create"])
  <2>1. PICK c : c = Chain(o)
    OBVIOUS
  <2>2. Len(c) = 1 /\ c[1] = None
    BY <1>2, <2>1, EmptySeq, ConcatEmptySeq DEF Chain
  <2>3. \A i \in 1 .. Len(c) : i = 1
    BY <2>2
  <2>4. GoodChain(c, used["create"])
    BY <2>2, <2>3 DEF GoodChain, InOrder, Precedes, Born, Haunted, Ghost
  <2> QED
    BY <1>2, <2>1, <2>2, <2>4
<1>4. PinnedByFinalizer
  BY <1>2 DEF PinnedByFinalizer
<1> QED
  BY <1>2, <1>3, <1>4, IdleSound DEF PinInv, LastIsStored

LEMMA ReconcilePin ==
    ASSUME ObjectInv, ObjectInv', PinInv, NEW k \in Kinds, Reconcile(k)
    PROVE  PinInv'
BY AddFinalizerPin, ResolvePin, ResolveParentPin, GetDistinguishedNamePin, DeleteEntryPin,
   RemoveFinalizerPin, SetOwnerPin, MapToEntryPin, CreateOrUpdateEntryPin, MarkPin
   DEF Reconcile

LEMMA NextPin ==
    ASSUME ObjectInv, ObjectInv', PinInv, [Next]_vars
    PROVE  PinInv'
<1>1. ASSUME NEW k \in Kinds, Panic(k) \/ Crash
      PROVE  PinInv'
  <2>1. ProcessStarts /\ UNCHANGED used
    BY <1>1 DEF Panic, Crash, Restart
  <2> QED
    BY <2>1, ProcessStartsPin
<1>2. ASSUME NEW k \in Kinds, ClientRequest(k) \/ ClientFails(k)
      PROVE  PinInv'
  <2>1. UNCHANGED <<store, cache, watch, worker, claims, blind, used>>
    BY <1>2 DEF ClientRequest, ClientFails, kubernetes, environment, history
  <2> QED
    BY <2>1, UnmovedPin
<1>3. CASE UNCHANGED vars
  <2>1. UNCHANGED <<store, cache, watch, worker, claims, blind, used>>
    BY <1>3 DEF vars, kubernetes, environment, history
  <2> QED
    BY <2>1, UnmovedPin
<1>4. CASE Environment
  <2>1. ASSUME NEW o \in Objects, Users(o)
        PROVE  PinInv'
    BY <2>1, UsersPin
  <2>2. CASE Crash
    <3>1. PICK k : k \in Kinds
      BY DEF Kinds
    <3> QED
      BY <1>1, <2>2, <3>1
  <2> QED
    BY <1>2, <1>4, <2>1, <2>2, ResyncPin, ApiFailsPin DEF Environment
<1> QED
  BY <1>1, <1>2, <1>3, <1>4, ReconcilePin, GetPin, SyncPin, GarbageCollectPin DEF Next

LEMMA PinInvHolds == Spec => []PinInv
<1>1. Init => PinInv
  BY PinInit
<1>2. (ObjectInv /\ ObjectInv' /\ PinInv /\ [Next]_vars) => PinInv'
  BY NextPin
<1> QED
  BY <1>1, <1>2, ObjectInvHolds, PTL DEF Spec

(* An object that may have an entry in slapd cannot disappear from the API   *)
(* server, however late the informers are and whatever crashes and fails:    *)
(* from the moment the entry is asked for (line 271) to the removal of the   *)
(* finalizer by its own reconciler (lines 98, 226), the incarnation that     *)
(* asked is in the API server with its finalizer.  The exception are objects *)
(* released while the cache still showed them staying.                       *)
THEOREM FinalizerPins == Spec => []PinnedByFinalizer
<1>1. PinInv => PinnedByFinalizer
  BY DEF PinInv
<1> QED
  BY <1>1, PinInvHolds, PTL

-----------------------------------------------------------------------------
(* The ownership of entries.  As long as no object is released that the      *)
(* cache still shows staying, the reconciler implements EntryOwnership.      *)

(* No more incarnations are created than the bound on them allows. *)
CreatedWithin == used["create"] \in 0 .. Limits["create"]

LEMMA CreatedWithinInit ==
    ASSUME Init
    PROVE  CreatedWithin
BY BoundsAssumption DEF Init, CreatedWithin, Events

LEMMA CreatedWithinNext ==
    ASSUME CreatedWithin, used \in [Events -> Nat], [Next]_vars
    PROVE  CreatedWithin'
<1>1. ASSUME NEW e \in Events, Happens(e)
      PROVE  CreatedWithin'
  BY <1>1, BoundsAssumption DEF Happens, CreatedWithin, Events
<1>2. ASSUME UNCHANGED used
      PROVE  CreatedWithin'
  BY <1>2 DEF CreatedWithin
<1>3. ASSUME NEW k \in Kinds, Reconcile(k) \/ Panic(k) \/ ClientRequest(k)
      PROVE  UNCHANGED used
  BY <1>3 DEF Reconcile, AddFinalizer, ResolveReferences, ResolveDirectory, ResolveParent,
       GetDistinguishedName, DeleteEntry, RemoveFinalizer, SetOwner, MapToEntry,
       CreateOrUpdateEntry, Mark, Panic, ClientRequest, environment
<1>4. ASSUME NEW o \in Objects, NEW k \in Kinds, Get(k, o) \/ Sync(o) \/ GarbageCollect(o)
      PROVE  UNCHANGED used
  BY <1>4 DEF Get, Sync, GarbageCollect, environment
<1>5. ASSUME Environment
      PROVE  UNCHANGED used \/ \E e \in Events : Happens(e)
  BY <1>5 DEF Environment, Users, Create, Edit, Delete, Resync, SecretWritten, SecretDeleted,
       DirectoryChanges, DirectoryDeleted, Crash, ApiFails, ClientFails, environment, Events
<1>6. PICK k : k \in Kinds
  BY DEF Kinds
<1> QED
  BY <1>1, <1>2, <1>3, <1>4, <1>5, <1>6 DEF Next, vars, environment

LEMMA OwnershipInit ==
    ASSUME Init
    PROVE  Ownership!Init
<1>1. /\ store = [o \in Objects |-> None] /\ claims = {} /\ abandoned = {} /\ outgrown = {}
      /\ dit = [d \in {} |-> None]
  BY DEF Init, ClientInit
<1> QED
  BY <1>1 DEF Ownership!Init, Held, Entries

(* What the client of k does to the entries is adding the claimed entry,     *)
(* removing one, or nothing.                                                 *)
LEMMA ClientEntries ==
    ASSUME ClientInv, NEW k \in Kinds, ClientStep(k)
    PROVE  \/ Entries' = Entries
           \/ /\ call[k].step = "add" /\ call[k].dn \notin Entries
              /\ Entries' = Entries \cup {call[k].dn}
           \/ \E d : Entries' = Entries \ {d}
<1> DEFINE c == call[k]
<1>1. CASE UNCHANGED dit
  BY <1>1 DEF Entries
<1>2. CASE c.step = "add" /\ AddAccepted(c) /\ dit' = Added(c)
  BY <1>2 DEF AddAccepted, Added, With, Entries
<1>3. CASE \/ ModifyAccepted(c) /\ dit' = Modified(c)
           \/ SetPasswordAccepted(c) /\ dit' = PasswordSet(c)
  BY <1>3 DEF ModifyAccepted, Modified, SetPasswordAccepted, PasswordSet, With, Entries
<1>4. CASE dit' = Deleted(c)
  BY <1>4 DEF Deleted, Without, Entries
<1> QED
  BY <1>1, <1>2, <1>3, <1>4
     DEF ClientStep, Request, UpsertUser, UpsertEntry, Deletion, Search, Add, Modify, Bind,
         SetPassword, DeleteSearch, DeleteRequest, RequestFails, ReplyLost

OwnershipStep == [Ownership!Next]_(Ownership!vars)

LEMMA ClientOwns ==
    ASSUME ObjectInv, NEW k \in Kinds, ClientStep(k), UNCHANGED <<store, claims, abandoned, outgrown>>
    PROVE  OwnershipStep
<1>1. Held' = Held
  BY DEF Held
<1>2. CASE Entries' = Entries
  BY <1>1, <1>2 DEF OwnershipStep, Ownership!vars
<1>3. CASE /\ call[k].step = "add" /\ call[k].dn \notin Entries
           /\ Entries' = Entries \cup {call[k].dn}
  <2>1. call[k].step \in Upserting /\ call[k].step # "idle"
    BY <1>3 DEF Upserting
  <2>2. call[k].entry # None
    BY <2>1, NoneAssumption DEF ObjectInv, ClientInv, CallSound
  <2>3. worker[k].pc = "upsertEntry" /\ call[k].dn = worker[k].dn
    BY <2>1, <2>2 DEF ObjectInv, Linked, Calling
  <2>4. [obj |-> worker[k].key, uid |-> worker[k].obj.uid, dn |-> worker[k].dn] \in claims
    BY <2>3 DEF ObjectInv, Claimed
  <2>5. \E x \in claims : x.dn = call[k].dn
    BY <2>3, <2>4
  <2>6. Ownership!Add
    BY <1>1, <1>3, <2>5 DEF Ownership!Add, Ownership!NamesOf
  <2> QED
    BY <2>6 DEF OwnershipStep, Ownership!Next
<1>4. ASSUME NEW d, Entries' = Entries \ {d}
      PROVE  OwnershipStep
  <2>1. CASE d \in Entries
    <3>1. Ownership!Remove
      BY <1>1, <1>4, <2>1 DEF Ownership!Remove
    <3> QED
      BY <3>1 DEF OwnershipStep, Ownership!Next
  <2>2. CASE d \notin Entries
    BY <1>1, <1>4, <2>2 DEF OwnershipStep, Ownership!vars
  <2> QED
    BY <2>1, <2>2
<1> QED
  BY <1>2, <1>3, <1>4, ClientEntries DEF ObjectInv

(* The finalizer that was there stays, and no other appears. *)
Holds(o) == store[o] # None /\ store[o].finalizer

HoldStays(o) == (Holds(o) <=> Holds(o)') /\ (Holds(o) => store'[o].uid = store[o].uid)

LEMMA AsideOwns ==
    ASSUME UNCHANGED <<dit, claims, abandoned, outgrown>>, \A o \in Objects : HoldStays(o)
    PROVE  OwnershipStep
<1>1. Held' = Held
  BY DEF Held, HoldStays, Holds
<1> QED
  BY <1>1 DEF OwnershipStep, Ownership!vars, Entries

LEMMA PublishOwns ==
    ASSUME ObjectInv, UNCHANGED <<dit, claims, abandoned, outgrown>>,
           NEW o \in Objects, NEW v, Publish(o, v) \/ Write(o, v),
           (v # None /\ v.finalizer) <=> Holds(o),
           Holds(o) => v.uid = store[o].uid
    PROVE  OwnershipStep
<1>1. store'[o] = v /\ \A x \in Objects \ {o} : store'[x] = store[x]
  BY DEF Publish, Write, ObjectInv, ReconcilerSound, ApiSound
<1>2. \A x \in Objects : HoldStays(x)
  BY <1>1 DEF HoldStays, Holds
<1> QED
  BY <1>2, AsideOwns

LEMMA LeftOwns ==
    ASSUME ObjectInv, UNCHANGED <<dit, claims, abandoned, outgrown>>,
           NEW o \in Objects, store[o] # None, Publish(o, Left(store[o]))
    PROVE  OwnershipStep
<1>1. PICK s, v : s = store[o] /\ v = Left(s)
  OBVIOUS
<1>0. s \in VersionsOf(o)
  BY <1>1 DEF ObjectInv, ReconcilerSound, ApiSound
<1>2. IF s.finalizer THEN v \in VersionsOf(o) /\ v.uid = s.uid /\ v.finalizer ELSE v = None
  BY <1>0, <1>1, LeftSound
<1>3. s # None /\ (s.finalizer => v # None)
  BY <1>0, <1>2, VersionParts
<1> QED
  BY <1>1, <1>2, <1>3, PublishOwns DEF Holds

LEMMA UsersOwn ==
    ASSUME ObjectInv, NEW o \in Objects, Users(o)
    PROVE  OwnershipStep
<1>1. UNCHANGED <<dit, claims, abandoned, outgrown>>
  BY DEF Users, Create, Edit, Delete, clientVars, history
<1>2. CASE Create(o)
  <2>1. PICK v : /\ Publish(o, v)
                 /\ \E spec \in Specs[o] : v = NewVersion(spec)
    BY <1>2 DEF Create
  <2>2. ~v.finalizer
    BY <2>1 DEF NewVersion
  <2> QED
    BY <1>1, <1>2, <2>1, <2>2, PublishOwns DEF Create, Holds
<1>3. CASE Edit(o)
  <2>0. PICK spec \in Specs[o] :
          Publish(o, [store[o] EXCEPT !.spec = spec, !.generation = @ + 1])
    BY <1>3 DEF Edit
  <2>1. PICK s \in VersionsOf(o) : s = store[o]
    BY <1>3 DEF Edit, ObjectInv, ReconcilerSound, ApiSound
  <2>2. PICK v : v = [s EXCEPT !.spec = spec, !.generation = @ + 1]
    OBVIOUS
  <2>3. v \in VersionsOf(o) /\ v.uid = s.uid /\ v.finalizer = s.finalizer
    BY ZenonT(60), <2>2, EditedSound
  <2>4. v # None /\ s # None /\ Publish(o, v)
    BY <2>0, <2>1, <2>2, <2>3, VersionParts
  <2>5. Holds(o) <=> v.finalizer
    BY <2>1, <2>3, <2>4 DEF Holds
  <2> QED
    BY <1>1, <2>1, <2>3, <2>4, <2>5, PublishOwns
<1>4. CASE Delete(o)
  BY <1>1, <1>4, LeftOwns DEF Delete
<1> QED
  BY <1>2, <1>3, <1>4 DEF Users

(* The finalizer is added. *)
LEMMA AddFinalizerOwns ==
    ASSUME ObjectInv, PinInv, CreatedWithin, blind = {}, NEW k \in Kinds, AddFinalizer(k)
    PROVE  OwnershipStep
<1>1. PICK o : o = worker[k].key
  OBVIOUS
<1>2. o \in Objects /\ UNCHANGED <<dit, claims, abandoned, outgrown>>
  BY <1>1, AtWork DEF AddFinalizer, At, clientVars, history, ObjectInv
<1>3. CASE UNCHANGED store
  BY <1>2, <1>3, AsideOwns DEF HoldStays, Holds
<1>4. CASE store[o] # None /\ Write(o, [store[o] EXCEPT !.finalizer = TRUE])
  <2>1. PICK s \in VersionsOf(o) : s = store[o]
    BY <1>2, <1>4 DEF ObjectInv, ReconcilerSound, ApiSound
  <2>2. PICK v : v = [s EXCEPT !.finalizer = TRUE]
    OBVIOUS
  <2>3. v \in VersionsOf(o) /\ v.uid = s.uid /\ v.finalizer
    BY <2>2 DEF VersionsOf, Version
  <2>4. v # None /\ Write(o, v)
    BY <1>2, <1>4, <2>1, <2>2, <2>3, VersionParts
  <2>5. CASE s.finalizer
    BY <1>2, <1>4, <2>1, <2>3, <2>4, <2>5, PublishOwns DEF Holds
  <2>6. CASE ~s.finalizer
    <3>1. store'[o] = v /\ \A x \in Objects \ {o} : store'[x] = store[x]
      BY <1>2, <2>4 DEF Publish, Write, ObjectInv, ReconcilerSound, ApiSound
    <3>2. PICK i : i = [obj |-> o, uid |-> s.uid]
      OBVIOUS
    <3>3. Held' = Held \cup {i} /\ \A j \in Held : j.obj # o
      BY <1>2, <2>1, <2>3, <2>4, <2>6, <3>1, <3>2 DEF Held
    <3>4. s.uid \in 0 .. Limits["create"]
      <4>1. s.uid < used["create"] /\ s.uid \in Nat
        BY <1>2, <1>4, <2>1, ChainEnds, VersionParts
      <4> QED
        BY <4>1, BoundsAssumption DEF CreatedWithin, Events
    <3>5. i \in Held' \ Held /\ i \in Ownership!Incarnation
      BY <1>2, <3>2, <3>3, <3>4 DEF Ownership!Incarnation
    <3>6. Ownership!Hold
      BY <1>2, <3>2, <3>3, <3>5 DEF Ownership!Hold, Entries
    <3> QED
      BY <3>6 DEF OwnershipStep, Ownership!Next
  <2> QED
    BY <2>5, <2>6
<1> QED
  BY <1>1, <1>3, <1>4 DEF AddFinalizer, Unpatchable

(* The patches of the owner and of the status. *)
LEMMA PatchOwns ==
    ASSUME ObjectInv, NEW k \in Kinds, SetOwner(k) \/ Mark(k)
    PROVE  OwnershipStep
<1>1. PICK w, o : w = worker[k] /\ o = w.key
  OBVIOUS
<1>2. w.pc # "idle" /\ UNCHANGED <<dit, claims, abandoned, outgrown>>
  BY <1>1 DEF SetOwner, Mark, At, clientVars, history
<1>3. o \in Objects
  BY <1>1, <1>2, AtWork DEF ObjectInv
<1>4. CASE UNCHANGED store
  BY <1>2, <1>4, AsideOwns DEF HoldStays, Holds
<1>5. ASSUME NEW v, store[o] # None, Write(o, v),
             \/ v = [store[o] EXCEPT !.owner = w.owner]
             \/ v = [store[o] EXCEPT !.status = StatusOf(w, store[o])]
      PROVE  OwnershipStep
  <2>1. PICK s \in VersionsOf(o) : s = store[o]
    BY <1>3, <1>5 DEF ObjectInv, ReconcilerSound, ApiSound
  <2>2. DOMAIN v = DOMAIN s /\ v.uid = s.uid /\ v.finalizer = s.finalizer
    BY <1>5, <2>1 DEF VersionsOf, Version
  <2>3. v # None
    <3>1. store'[o] = v /\ s \in Version
      BY <1>3, <1>5, <2>1 DEF Publish, Write, ObjectInv, ReconcilerSound, ApiSound, VersionsOf
    <3>2. w \in Worker
      BY <1>1, <1>2, AtWork DEF ObjectInv
    <3>3. CASE v = [s EXCEPT !.status = StatusOf(w, s)]
      <4>1. v \in Version
        BY <3>1, <3>2, <3>3 DEF Version, StatusOf, Status, Worker
      <4> QED
        BY <4>1, NothingAssumption
    <3>4. CASE v = [s EXCEPT !.owner = w.owner]
      <4>1. v \in Version
        BY <3>1, <3>2, <3>4 DEF Version, Worker
      <4> QED
        BY <4>1, NothingAssumption
    <3> QED
      BY <1>5, <2>1, <3>3, <3>4
  <2>4. Holds(o) <=> v.finalizer
    BY <1>5, <2>1, <2>2 DEF Holds
  <2> QED
    BY <1>2, <1>3, <1>5, <2>1, <2>2, <2>3, <2>4, PublishOwns
<1> QED
  BY <1>1, <1>4, <1>5 DEF SetOwner, Mark, Owned, Unpatchable

(* The entry is asked for. *)
LEMMA MapToEntryOwns ==
    ASSUME ObjectInv, PinInv, CreatedWithin, blind = {}, NEW k \in Kinds, MapToEntry(k)
    PROVE  OwnershipStep
<1>1. PICK w, o : w = worker[k] /\ o = w.key
  OBVIOUS
<1>2. w.pc = "mapToEntry" /\ w.pc # "idle" /\ UNCHANGED store
  BY <1>1 DEF MapToEntry, At
<1>3. /\ Sound(k, w) /\ o \in Objects /\ store[o] \in VersionsOf(o) \cup {None}
  BY <1>1, <1>2, AtWork DEF ObjectInv
<1>4. CASE UNCHANGED <<clientVars, history>>
  BY <1>2, <1>4, AsideOwns DEF HoldStays, Holds, clientVars, history
<1>5. CASE /\ claims' = claims \cup {[obj |-> o, uid |-> w.obj.uid, dn |-> w.dn]}
           /\ UNCHANGED <<dit, abandoned, outgrown>>
  <2>1. PICK uid, c : uid = w.obj.uid /\ c = [obj |-> o, uid |-> uid, dn |-> w.dn]
    OBVIOUS
  <2>2. Held' = Held /\ Entries' = Entries
    BY <1>2, <1>5 DEF Held, Entries
  <2>3. CASE c \in claims
    BY <1>5, <2>1, <2>2, <2>3 DEF OwnershipStep, Ownership!vars
  <2>4. CASE c \notin claims
    <3>1. Pinned(o, uid)
      BY <1>1, <1>2, <2>1 DEF PinInv, Relies
    <3>2. Ownership!Of(c) \in Held
      BY <1>3, <2>1, <3>1 DEF Ownership!Of, Held, Pinned
    <3>3. uid \in 0 .. Limits["create"]
      <4>1. uid < used["create"] /\ uid \in Nat
        BY <1>3, <3>1, ChainEnds, VersionParts DEF Pinned
      <4> QED
        BY <4>1, BoundsAssumption DEF CreatedWithin, Events
    <3>4. w.dn \in DN
      BY <1>2, <1>3 DEF Sound, Composed
    <3>5. c \in Ownership!Claim
      BY <1>3, <2>1, <3>3, <3>4 DEF Ownership!Claim
    <3>6. Ownership!Ask
      BY <1>5, <2>1, <2>2, <2>4, <3>2, <3>5 DEF Ownership!Ask
    <3> QED
      BY <3>6 DEF OwnershipStep, Ownership!Next
  <2> QED
    BY <2>3, <2>4
<1> QED
  BY <1>1, <1>4, <1>5 DEF MapToEntry, CallUpsert

(* The finalizer is removed: what slapd still has of the object is given up, *)
(* and a finalizer that was not there held no claim.                         *)
LEMMA RemoveFinalizerOwns ==
    ASSUME ObjectInv, PinInv, blind = {}, NEW k \in Kinds, RemoveFinalizer(k)
    PROVE  OwnershipStep
<1>1. PICK w, o : w = worker[k] /\ o = w.key
  OBVIOUS
<1>2. /\ w.pc = "removeFinalizer" /\ w.pc # "idle" /\ UNCHANGED dit /\ Entries' = Entries
  BY <1>1 DEF RemoveFinalizer, At, clientVars, Entries
<1>3. o \in Objects /\ KindOf[o] = k
  BY <1>1, <1>2, AtWork DEF ObjectInv
<1>4. CASE UNCHANGED <<store, history>>
  BY <1>2, <1>4, AsideOwns DEF HoldStays, Holds, history
<1>5. CASE store[o] # None /\ Write(o, Unpinned(store[o])) /\ Release(o, w)
  <2>1. PICK s \in VersionsOf(o) : s = store[o]
    BY <1>3, <1>5 DEF ObjectInv, ReconcilerSound, ApiSound
  <2>2. PICK v : v = Unpinned(s) /\ Write(o, v)
    BY <1>5, <2>1
  <2>3. v = None \/ ~v.finalizer
    BY <2>1, <2>2 DEF Unpinned, VersionsOf, Version
  <2>4. store'[o] = v /\ \A x \in Objects \ {o} : store'[x] = store[x]
    BY <1>3, <2>2 DEF Publish, Write, ObjectInv, ReconcilerSound, ApiSound
  <2>5. PICK mine, left : /\ mine = {c \in claims : c.obj = o /\ c.uid = s.uid}
                          /\ left = {d \in Entries : \E c \in mine : c.dn = d}
    OBVIOUS
  <2>6. /\ claims' = claims \ mine
        /\ abandoned' = abandoned \cup {d \in left : w.dn = <<>> \/ w.failed}
        /\ outgrown' = outgrown \cup
             {d \in left : ~(w.dn = <<>> \/ w.failed) /\ ~IsSuffix(w.dn, d)}
    BY <1>5, <2>1, <2>5 DEF Release
  <2>7. CASE ~s.finalizer
    <3>1. mine = {}
      BY <1>3, <2>1, <2>5, <2>7 DEF PinInv, PinnedByFinalizer
    <3>2. UNCHANGED <<claims, abandoned, outgrown>>
      BY <2>5, <2>6, <3>1
    <3>3. \A x \in Objects : HoldStays(x)
      BY <2>1, <2>3, <2>4, <2>7 DEF HoldStays, Holds
    <3> QED
      BY <1>2, <3>2, <3>3, AsideOwns
  <2>8. CASE s.finalizer
    <3>1. PICK i : i = [obj |-> o, uid |-> s.uid]
      OBVIOUS
    <3>2. i \in Held /\ Held' = Held \ {i}
      BY <1>3, <1>5, <2>1, <2>3, <2>4, <2>8, <3>1 DEF Held
    <3>3. mine = Ownership!ClaimsOf(i)
      BY <2>5, <3>1 DEF Ownership!ClaimsOf, Ownership!Of
    <3>4. ASSUME NEW d \in Entries, NEW c \in mine, c.dn = d
          PROVE  w.dn = <<>> \/ w.failed \/ ~IsSuffix(w.dn, d)
      <4>1. c \in claims /\ c.obj = o
        BY <2>5, <3>4
      <4>2. Head(d).kind = k
        BY <1>3, <3>4, <4>1 DEF ObjectInv, HistorySound
      <4> QED
        BY <1>1, <1>2, <3>4, <4>2 DEF ObjectInv, Cleaned, Emptied
    <3>5. (abandoned \cup outgrown)'
            = (abandoned \cup outgrown) \cup (Entries \cap Ownership!NamesOf(mine))
      BY <2>5, <2>6, <3>4 DEF Ownership!NamesOf
    <3>6. Ownership!LetGo(i)
      BY <1>2, <2>6, <3>2, <3>3, <3>5 DEF Ownership!LetGo
    <3> QED
      BY <3>2, <3>6 DEF OwnershipStep, Ownership!Next
  <2> QED
    BY <2>7, <2>8
<1> QED
  BY <1>1, <1>4, <1>5 DEF RemoveFinalizer, Unpatchable

LEMMA ReconcileOwns ==
    ASSUME ObjectInv, PinInv, CreatedWithin, blind = {}, NEW k \in Kinds, Reconcile(k)
    PROVE  OwnershipStep
<1>1. CASE \/ ResolveReferences(k) \/ ResolveDirectory(k) \/ ResolveParent(k)
           \/ GetDistinguishedName(k) \/ DeleteEntry(k) \/ CreateOrUpdateEntry(k)
  <2>1. UNCHANGED <<dit, claims, abandoned, outgrown, store>>
    BY <1>1 DEF ResolveReferences, ResolveDirectory, ResolveParent, GetDistinguishedName,
                DeleteEntry, CreateOrUpdateEntry, CallDelete, Collect,
                clientVars, kubernetes, history
  <2> QED
    BY <2>1, AsideOwns DEF HoldStays, Holds
<1> QED
  BY <1>1, AddFinalizerOwns, PatchOwns, MapToEntryOwns, RemoveFinalizerOwns DEF Reconcile

LEMMA NextOwns ==
    ASSUME ObjectInv, PinInv, CreatedWithin, blind = {}, [Next]_vars
    PROVE  OwnershipStep
<1>1. ASSUME UNCHANGED <<dit, claims, abandoned, outgrown, store>>
      PROVE  OwnershipStep
  BY <1>1, AsideOwns DEF HoldStays, Holds
<1>2. ASSUME NEW k \in Kinds, ClientRequest(k) \/ ClientFails(k)
      PROVE  OwnershipStep
  BY <1>2, ClientOwns DEF ClientRequest, ClientFails, ClientStep, kubernetes, history
<1>3. ASSUME NEW o \in Objects, Sync(o) \/ Resync(o) \/ \E k \in Kinds : Get(k, o)
      PROVE  OwnershipStep
  BY <1>1, <1>3 DEF Get, Sync, Resync, clientVars, history
<1>4. ASSUME NEW k \in Kinds, Panic(k) \/ Crash \/ ApiFails(k) \/ UNCHANGED vars
      PROVE  OwnershipStep
  BY <1>1, <1>4 DEF Panic, Crash, Restart, ProcessStarts, ApiFails, vars,
                    clientVars, kubernetes, history
<1>5. ASSUME NEW s \in SecretRefs, SecretWritten(s) \/ SecretDeleted(s)
      PROVE  OwnershipStep
  BY <1>1, <1>5 DEF SecretWritten, SecretDeleted, clientVars, kubernetes, history
<1>6. CASE DirectoryChanges \/ DirectoryDeleted
  BY <1>1, <1>6 DEF DirectoryChanges, DirectoryDeleted, clientVars, kubernetes, history
<1>7. ASSUME NEW o \in Objects, GarbageCollect(o)
      PROVE  OwnershipStep
  BY <1>7, LeftOwns DEF GarbageCollect, Orphaned, clientVars, history
<1>8. PICK k : k \in Kinds
  BY DEF Kinds
<1> QED
  BY <1>2, <1>3, <1>4, <1>5, <1>6, <1>7, <1>8, ReconcileOwns, UsersOwn
     DEF Next, Environment

LEMMA CreatedWithinHolds == Spec => []CreatedWithin
<1>1. Init => CreatedWithin
  BY CreatedWithinInit
<1>2. (ObjectInv /\ CreatedWithin /\ [Next]_vars) => CreatedWithin'
  BY CreatedWithinNext DEF ObjectInv, ReconcilerSound, EnvironmentSound
<1> QED
  BY <1>1, <1>2, ObjectInvHolds, PTL DEF Spec

(* The reconciler, its caches, workers, retries and failures implement the   *)
(* ownership of entries: a finalizer is there before the entry is asked for  *)
(* (line 271), it is that of the incarnation the worker has in memory, and   *)
(* its removal (lines 98, 226) gives up exactly the entries slapd still has, *)
(* in every behaviour in which no object is released while the cache shows   *)
(* it staying.                                                               *)
THEOREM ImplementsOwnership == (Spec /\ [](blind = {})) => EntriesOwned
<1>1. Init => Ownership!Init
  BY OwnershipInit
<1>2. (ObjectInv /\ PinInv /\ CreatedWithin /\ blind = {} /\ [Next]_vars)
         => [Ownership!Next]_(Ownership!vars)
  BY NextOwns DEF OwnershipStep
<1> QED
  BY <1>1, <1>2, ObjectInvHolds, PinInvHolds, CreatedWithinHolds, PTL
     DEF Spec, EntriesOwned, Ownership!Spec

-----------------------------------------------------------------------------
(* An informer that is one event behind at most.  Then the cache shows the   *)
(* incarnation whose finalizer is removed, and shows it leaving, so that     *)
(* nothing is released blindly and EntryOwnership is implemented without     *)
(* exception.                                                                *)

(* Steps from which the removal of the finalizer may still follow. *)
Clearing == {"addFinalizer", "resolveReferences", "resolveDirectory", "resolveParent",
             "getDistinguishedName", "deleteEntry", "removeFinalizer"}

LeavingOrBare(x) == (x # None /\ x.finalizer) => x.deleting

(* The version y may come right after the version x. *)
Succeeds(x, y) ==
    y # None =>
       /\ y.deleting => y.finalizer
       /\ x # None => /\ x.uid = y.uid
                      /\ y.deleting => x.finalizer
                      /\ x.deleting => y.deleting
       /\ x = None => ~y.finalizer

Near(o) ==
    /\ store[o] # None => (store[o].deleting => store[o].finalizer)
    /\ cache[o] # None => (cache[o].deleting => cache[o].finalizer)
    /\ \/ watch[o] = <<>> /\ cache[o] = store[o]
       \/ watch[o] = <<store[o]>> /\ Succeeds(cache[o], store[o])

SeesLeaving(o) == LeavingOrBare(cache[o]) /\ LeavingOrBare(store[o])

(* A worker that has a leaving object in memory sees nothing else. *)
Sees(k) ==
    LET w == worker[k] IN
    /\ w.pc \in {"deleteEntry", "removeFinalizer"} => w.obj.deleting
    /\ (w.pc \in Clearing /\ w.obj.deleting) => SeesLeaving(w.key)

NearInv ==
    /\ \A o \in Objects : Near(o)
    /\ \A k \in Kinds : Sees(k)
    /\ blind = {}

(* What a step does to o, and that it does not make it stay. *)
Follows(o) ==
    \/ Untouched(o) \/ Receives(o) \/ Restarts(o)
    \/ Changes(o) /\ Len(watch[o]) < MaxLag /\ Succeeds(store[o], store'[o])

KeepsLeaving(o) == LeavingOrBare(store[o]) => LeavingOrBare(store'[o])

LEMMA NearStep ==
    ASSUME MaxLag <= 1, ApiSound, ApiSound', NEW o \in Objects, Near(o), Follows(o)
    PROVE  Near(o)' /\ (SeesLeaving(o) /\ KeepsLeaving(o) => SeesLeaving(o)')
<1> DEFINE S == VersionsOf(o) \cup {None}
<1>1. PICK x \in S, y \in S, z \in S, w \in Seq(S) :
        x = cache[o] /\ y = store[o] /\ z = store'[o] /\ w = watch[o]
  BY DEF ApiSound
<1>2. CASE Untouched(o)
  BY <1>2 DEF Untouched, Near, SeesLeaving
<1>3. CASE Receives(o)
  <2>1. w = <<y>>
    BY <1>1, <1>3 DEF Receives, Near
  <2>2. Head(<<y>>) = y /\ Tail(<<y>>) = <<>>
    OBVIOUS
  <2>3. cache'[o] = y /\ watch'[o] = <<>> /\ store'[o] = y
    BY <1>1, <1>3, <2>1, <2>2 DEF Receives
  <2>4. y # None => (y.deleting => y.finalizer)
    BY <1>1 DEF Near
  <2>5. Near(o)'
    BY <2>3, <2>4 DEF Near
  <2> QED
    BY <1>1, <2>3, <2>5 DEF SeesLeaving
<1>4. CASE Restarts(o)
  BY <1>4 DEF Restarts, Near, SeesLeaving
<1>5. CASE Changes(o) /\ Len(watch[o]) < MaxLag /\ Succeeds(store[o], store'[o])
  <2>1. w = <<>>
    <3>1. Len(w) = 0
      BY <1>1, <1>5, LenProperties, BoundsAssumption
    <3> QED
      BY <3>1, EmptySeq
  <2>2. x = y /\ watch'[o] = <<z>> /\ cache'[o] = x
    BY <1>1, <1>5, <2>1 DEF Changes, Near
  <2>3. Near(o)'
    BY <1>1, <1>5, <2>2 DEF Near, Succeeds
  <2> QED
    BY <1>1, <2>2, <2>3 DEF SeesLeaving, KeepsLeaving
<1> QED
  BY <1>2, <1>3, <1>4, <1>5 DEF Follows

(* A step of worker k, which alone may give its objects a finalizer. *)
LEMMA NearKeeps ==
    ASSUME MaxLag <= 1, ObjectInv, ObjectInv', NearInv, blind' = {}, NEW k \in Kinds,
           \A o \in Objects : Follows(o) /\ (KindOf[o] # k => KeepsLeaving(o)),
           \A j \in Kinds \ {k} : worker'[j] = worker[j],
           Sees(k)'
    PROVE  NearInv'
<1>1. ApiSound /\ ApiSound'
  BY DEF ObjectInv, ReconcilerSound
<1>2. \A o \in Objects : Near(o)'
  BY <1>1, NearStep DEF NearInv
<1>3. ASSUME NEW j \in Kinds \ {k}
      PROVE  Sees(j)'
  <2>1. PICK w : w = worker[j] /\ w = worker'[j]
    OBVIOUS
  <2>2. ASSUME w.pc \in Clearing, w.obj.deleting
        PROVE  SeesLeaving(w.key)'
    <3>1. w.key \in Objects /\ KindOf[w.key] # k
      BY <2>1, <2>2, AtWork DEF ObjectInv, Clearing
    <3>2. SeesLeaving(w.key)
      BY <2>1, <2>2 DEF NearInv, Sees
    <3>3. PICK o \in Objects : o = w.key
      BY <3>1
    <3>4. SeesLeaving(o) /\ KeepsLeaving(o) /\ Near(o) /\ Follows(o)
      BY <3>1, <3>2, <3>3 DEF NearInv
    <3>5. SeesLeaving(o)'
      BY <1>1, <3>4, NearStep
    <3> QED
      BY <3>3, <3>5
  <2>3. w.pc \in {"deleteEntry", "removeFinalizer"} => w.obj.deleting
    BY <2>1 DEF NearInv, Sees
  <2> QED
    BY <2>1, <2>2, <2>3 DEF Sees, SeesLeaving
<1> QED
  BY <1>2, <1>3 DEF NearInv

(* A step of no worker, or a new process. *)
LEMMA NearKeepsAside ==
    ASSUME MaxLag <= 1, ObjectInv, ObjectInv', NearInv, blind' = {},
           \A o \in Objects : Follows(o) /\ KeepsLeaving(o),
           UNCHANGED worker \/ worker' = [k \in Kinds |-> Idle]
    PROVE  NearInv'
<1>1. ApiSound /\ ApiSound'
  BY DEF ObjectInv, ReconcilerSound
<1>2. \A o \in Objects : Near(o)'
  BY <1>1, NearStep DEF NearInv
<1>3. ASSUME NEW j \in Kinds
      PROVE  Sees(j)'
  <2>1. CASE worker' = [k \in Kinds |-> Idle]
    BY <2>1, IdleSound DEF Sees, Clearing
  <2>2. CASE UNCHANGED worker
    <3>1. PICK w : w = worker[j] /\ w = worker'[j]
      BY <2>2
    <3>2. ASSUME w.pc \in Clearing, w.obj.deleting
          PROVE  SeesLeaving(w.key)'
      <4>1. PICK o \in Objects : o = w.key
        BY <3>1, <3>2, AtWork DEF ObjectInv, Clearing
      <4>2. SeesLeaving(o)
        BY <3>1, <3>2, <4>1 DEF NearInv, Sees
      <4>3. SeesLeaving(o)'
        BY <1>1, <4>2, NearStep DEF NearInv
      <4> QED
        BY <4>1, <4>3
    <3>3. w.pc \in {"deleteEntry", "removeFinalizer"} => w.obj.deleting
      BY <3>1 DEF NearInv, Sees
    <3> QED
      BY <3>1, <3>2, <3>3 DEF Sees, SeesLeaving
  <2> QED
    BY <2>1, <2>2
<1> QED
  BY <1>2, <1>3 DEF NearInv

-----------------------------------------------------------------------------
(* What the steps do to an object.                                         *)

LEMMA AllStay ==
    ASSUME UNCHANGED <<store, cache, watch>>
    PROVE  \A o \in Objects : Follows(o) /\ KeepsLeaving(o)
BY DEF Follows, Untouched, KeepsLeaving

LEMMA PublishFollows ==
    ASSUME ObjectInv, NEW o \in Objects, NEW v, Publish(o, v), UNCHANGED cache,
           Succeeds(store[o], v)
    PROVE  /\ \A x \in Objects : Follows(x) /\ (x # o => KeepsLeaving(x))
           /\ (LeavingOrBare(store[o]) => LeavingOrBare(v)) => KeepsLeaving(o)
<1>1. /\ store' = [store EXCEPT ![o] = v] /\ Len(watch[o]) < MaxLag
      /\ watch' = [watch EXCEPT ![o] = Append(watch[o], v)]
      /\ DOMAIN store = Objects /\ DOMAIN watch = Objects
  BY DEF Publish, ObjectInv, ReconcilerSound, ApiSound
<1>2. store'[o] = v /\ watch'[o] = Append(watch[o], v) /\ cache'[o] = cache[o]
  BY <1>1
<1>3. \A x \in Objects \ {o} : Untouched(x)
  BY <1>1 DEF Untouched
<1>4. Follows(o)
  BY <1>1, <1>2 DEF Follows, Changes
<1> QED
  BY <1>2, <1>3, <1>4 DEF Follows, Untouched, KeepsLeaving

LEMMA WriteFollows ==
    ASSUME ObjectInv, NEW o \in Objects, NEW v, Write(o, v), UNCHANGED cache,
           Succeeds(store[o], v)
    PROVE  /\ \A x \in Objects : Follows(x) /\ (x # o => KeepsLeaving(x))
           /\ (LeavingOrBare(store[o]) => LeavingOrBare(v)) => KeepsLeaving(o)
BY PublishFollows, AllStay DEF Write

LEMMA LeftSucceeds ==
    ASSUME ObjectInv, NEW o \in Objects, Near(o), store[o] # None
    PROVE  Succeeds(store[o], Left(store[o])) /\ LeavingOrBare(Left(store[o]))
<1>1. PICK v \in VersionsOf(o) : v = store[o]
  BY DEF ObjectInv, ReconcilerSound, ApiSound
<1>2. PICK n : n = Left(v)
  OBVIOUS
<1>3. IF v.finalizer THEN n.uid = v.uid /\ n.deleting /\ n.finalizer ELSE n = None
  BY <1>2, LeftSound
<1> QED
  BY <1>1, <1>2, <1>3 DEF Succeeds, LeavingOrBare

LEMMA UsersNear ==
    ASSUME MaxLag <= 1, ObjectInv, ObjectInv', NearInv, NEW o \in Objects,
           Users(o) \/ GarbageCollect(o)
    PROVE  NearInv'
<1>1. UNCHANGED <<worker, cache>> /\ blind' = {}
  BY DEF Users, Create, Edit, Delete, GarbageCollect, history, NearInv
<1>2. ASSUME NEW v, Publish(o, v), Succeeds(store[o], v),
             LeavingOrBare(store[o]) => LeavingOrBare(v)
      PROVE  NearInv'
  BY <1>1, <1>2, PublishFollows, NearKeepsAside
<1>3. CASE Create(o)
  <2>1. PICK spec \in Specs[o] : Publish(o, NewVersion(spec))
    BY <1>3 DEF Create
  <2>2. PICK v : v = NewVersion(spec)
    OBVIOUS
  <2>3. ~v.deleting /\ ~v.finalizer /\ store[o] = None
    BY <1>3, <2>2, NewVersionSound DEF ObjectInv, ReconcilerSound, Create
  <2> QED
    BY <1>2, <2>1, <2>2, <2>3 DEF Succeeds, LeavingOrBare
<1>4. CASE Edit(o)
  <2>1. PICK spec \in Specs[o] : Publish(o, [store[o] EXCEPT !.spec = spec, !.generation = @ + 1])
    BY <1>4 DEF Edit
  <2>2. PICK v \in VersionsOf(o) : v = store[o]
    BY <1>4 DEF Edit, ObjectInv, ReconcilerSound, ApiSound
  <2>3. PICK n : n = [v EXCEPT !.spec = spec, !.generation = @ + 1]
    OBVIOUS
  <2>4. n.uid = v.uid /\ n.deleting = v.deleting /\ n.finalizer = v.finalizer
    BY ZenonT(60), <2>1, <2>3, EditedSound
  <2>5. v # None /\ (v.deleting => v.finalizer)
    BY <2>2, VersionParts DEF NearInv, Near
  <2> QED
    BY <1>2, <2>1, <2>2, <2>3, <2>4, <2>5 DEF Succeeds, LeavingOrBare
<1>5. CASE Delete(o) \/ GarbageCollect(o)
  <2>1. store[o] # None /\ Publish(o, Left(store[o]))
    BY <1>5 DEF Delete, GarbageCollect, Orphaned
  <2> QED
    BY <1>2, <2>1, LeftSucceeds DEF NearInv
<1> QED
  BY <1>3, <1>4, <1>5 DEF Users

LEMMA SyncNear ==
    ASSUME MaxLag <= 1, ObjectInv, ObjectInv', NearInv, NEW o \in Objects, Sync(o)
    PROVE  NearInv'
<1>1. /\ UNCHANGED <<worker, store>> /\ blind' = {} /\ watch[o] # <<>>
      /\ cache' = [cache EXCEPT ![o] = Head(watch[o])]
      /\ watch' = [watch EXCEPT ![o] = Tail(watch[o])]
      /\ DOMAIN cache = Objects /\ DOMAIN watch = Objects
  BY DEF Sync, history, NearInv, ObjectInv, ReconcilerSound, ApiSound
<1>2. \A x \in Objects \ {o} : Untouched(x)
  BY <1>1 DEF Untouched
<1>3. Receives(o)
  BY <1>1 DEF Receives
<1>4. \A x \in Objects : Follows(x) /\ KeepsLeaving(x)
  BY <1>1, <1>2, <1>3 DEF Follows, KeepsLeaving
<1> QED
  BY <1>1, <1>4, NearKeepsAside

LEMMA AsideNear ==
    ASSUME MaxLag <= 1, ObjectInv, ObjectInv', NearInv, blind' = {},
           UNCHANGED <<store, cache, watch, worker>> \/ ProcessStarts
    PROVE  NearInv'
<1>1. CASE UNCHANGED <<store, cache, watch, worker>>
  BY <1>1, AllStay, NearKeepsAside
<1>2. CASE ProcessStarts
  <2>1. \A o \in Objects : Follows(o) /\ KeepsLeaving(o)
    BY <1>2 DEF ProcessStarts, Follows, Restarts, KeepsLeaving
  <2> QED
    BY <1>2, <2>1, NearKeepsAside DEF ProcessStarts
<1> QED
  BY <1>1, <1>2

-----------------------------------------------------------------------------
(* The steps of Reconcile.                                                 *)

(* The worker ends the call, or has passed the point of no deletion. *)
LEMMA PastNear ==
    ASSUME MaxLag <= 1, ObjectInv, ObjectInv', NearInv, blind' = {}, NEW k \in Kinds,
           \A o \in Objects : Follows(o) /\ (KindOf[o] # k => KeepsLeaving(o)),
           \A j \in Kinds \ {k} : worker'[j] = worker[j],
           worker'[k].pc \notin Clearing
    PROVE  NearInv'
<1>1. Sees(k)'
  BY DEF Sees, Clearing
<1> QED
  BY <1>1, NearKeeps

LEMMA EndNear ==
    ASSUME MaxLag <= 1, ObjectInv, ObjectInv', NearInv, blind' = {}, NEW k \in Kinds,
           \A o \in Objects : Follows(o) /\ (KindOf[o] # k => KeepsLeaving(o)),
           worker[k].pc # "idle",
           \/ \E requeue : Finish(k, requeue)
           \/ \E phase, requeue : Continue(k, Marking(worker[k], phase, requeue))
    PROVE  NearInv'
<1>1. CASE \E requeue : Finish(k, requeue)
  <2>1. worker'[k] = Idle /\ \A j \in Kinds \ {k} : worker'[j] = worker[j]
    BY <1>1, WorkerBecomes
  <2>2. worker'[k].pc \notin Clearing
    BY <2>1, IdleSound DEF Clearing
  <2> QED
    BY <2>1, <2>2, PastNear
<1>2. ASSUME NEW phase, NEW requeue, Continue(k, Marking(worker[k], phase, requeue))
      PROVE  NearInv'
  <2>1. /\ worker'[k] = Marking(worker[k], phase, requeue)
        /\ \A j \in Kinds \ {k} : worker'[j] = worker[j]
    BY <1>2, WorkerBecomes
  <2>2. worker'[k].pc = "mark"
    BY <2>1, WorkerBecomes
  <2>3. worker'[k].pc \notin Clearing
    BY <2>2 DEF Clearing
  <2> QED
    BY <2>1, <2>3, PastNear
<1> QED
  BY <1>1, <1>2

(* The worker goes on with the same object. *)
LEMMA OnNear ==
    ASSUME MaxLag <= 1, ObjectInv, ObjectInv', NearInv, UNCHANGED <<store, cache, watch, blind>>,
           NEW k \in Kinds, worker[k].pc \in Clearing,
           \A j \in Kinds \ {k} : worker'[j] = worker[j],
           worker'[k].key = worker[k].key, worker'[k].obj = worker[k].obj,
           worker'[k].pc \in {"deleteEntry", "removeFinalizer"} => worker[k].obj.deleting
    PROVE  NearInv'
<1>1. PICK w, n : w = worker[k] /\ n = worker'[k]
  OBVIOUS
<1>2. w.obj.deleting => SeesLeaving(w.key)
  BY <1>1 DEF NearInv, Sees
<1>3. w.obj.deleting => SeesLeaving(w.key)'
  BY <1>2 DEF SeesLeaving
<1>4. Sees(k)'
  BY <1>1, <1>3 DEF Sees, SeesLeaving
<1>5. blind' = {}
  BY DEF NearInv
<1> QED
  BY <1>4, <1>5, AllStay, NearKeeps

LEMMA GetNear ==
    ASSUME MaxLag <= 1, ObjectInv, ObjectInv', NearInv, NEW k \in Kinds, NEW o \in Objects,
           Get(k, o)
    PROVE  NearInv'
<1>1. /\ UNCHANGED <<store, cache, watch>> /\ blind' = {}
      /\ worker[k].pc = "idle" /\ worker \in [Kinds -> Worker]
  BY DEF Get, At, history, NearInv, ObjectInv, ReconcilerSound, WorkersSound
<1>2. CASE UNCHANGED worker
  BY <1>1, <1>2, AsideNear
<1>3. CASE cache[o] # None /\ worker' = [worker EXCEPT ![k] =
             [Idle EXCEPT !.key = o, !.obj = cache[o], !.pc = FirstStep(cache[o])]]
  <2>1. PICK w : w = [Idle EXCEPT !.key = o, !.obj = cache[o], !.pc = FirstStep(cache[o])]
    OBVIOUS
  <2>2. /\ worker'[k] = w /\ w.key = o /\ w.obj = cache[o] /\ w.pc = FirstStep(cache[o])
        /\ \A j \in Kinds \ {k} : worker'[j] = worker[j]
    BY <1>1, <1>3, <2>1 DEF Idle
  <2>3. cache[o].deleting => SeesLeaving(o)
    BY <1>3 DEF NearInv, Near, Succeeds, SeesLeaving, LeavingOrBare
  <2>4. w.obj.deleting => SeesLeaving(o)'
    BY <1>1, <2>2, <2>3 DEF SeesLeaving
  <2>5. w.pc \notin {"deleteEntry", "removeFinalizer"}
    BY <2>2 DEF FirstStep
  <2>6. Sees(k)'
    BY <2>2, <2>4, <2>5 DEF Sees, SeesLeaving
  <2> QED
    BY <1>1, <2>2, <2>6, AllStay, NearKeeps
<1> QED
  BY <1>2, <1>3 DEF Get

LEMMA ResolveNear ==
    ASSUME MaxLag <= 1, ObjectInv, ObjectInv', NearInv, NEW k \in Kinds,
           ResolveReferences(k) \/ ResolveDirectory(k)
    PROVE  NearInv'
<1> DEFINE w == worker[k]
<1>1. /\ w.pc \in {"resolveReferences", "resolveDirectory"} /\ w.pc # "idle" /\ w.pc \in Clearing
      /\ UNCHANGED <<store, cache, watch, blind>> /\ blind' = {}
      /\ {"removeFinalizer", "resolveDirectory", "resolveParent"} \subseteq Pcs \ {"idle"}
      /\ w \in Worker
  BY StepNames DEF ResolveReferences, ResolveDirectory, At, Clearing, history, NearInv,
     ObjectInv, ReconcilerSound, WorkersSound
<1>2. CASE MarkPending(k)
  BY <1>1, <1>2, AllStay, EndNear DEF MarkPending
<1>3. ASSUME NEW pc \in {"removeFinalizer", "resolveDirectory"},
             pc = "removeFinalizer" => w.obj.deleting, Continue(k, To(w, pc))
      PROVE  NearInv'
  <2>1. PICK n : n = To(w, pc)
    OBVIOUS
  <2>2. n.pc = pc /\ n.key = w.key /\ n.obj = w.obj
    BY <1>1, <2>1 DEF To, Worker
  <2>3. worker'[k] = n /\ \A j \in Kinds \ {k} : worker'[j] = worker[j]
    BY <1>3, <2>1, WorkerBecomes
  <2> QED
    BY <1>1, <1>3, <2>2, <2>3, OnNear
<1>4. ASSUME NEW owner, Continue(k, [To(w, "resolveParent") EXCEPT !.owner = owner])
      PROVE  NearInv'
  <2>1. PICK n : n = [To(w, "resolveParent") EXCEPT !.owner = owner]
    OBVIOUS
  <2>2. n.pc = "resolveParent" /\ n.key = w.key /\ n.obj = w.obj
    BY <1>1, <2>1 DEF To, Worker
  <2>3. worker'[k] = n /\ \A j \in Kinds \ {k} : worker'[j] = worker[j]
    BY <1>4, <2>1, WorkerBecomes
  <2> QED
    BY <1>1, <2>2, <2>3, OnNear
<1> QED
  BY <1>2, <1>3, <1>4 DEF ResolveReferences, ResolveDirectory, Unresolved

LEMMA ResolveParentNear ==
    ASSUME MaxLag <= 1, ObjectInv, ObjectInv', NearInv, NEW k \in Kinds, ResolveParent(k)
    PROVE  NearInv'
<1> DEFINE w == worker[k]
<1>1. /\ w.pc = "resolveParent" /\ w.pc # "idle" /\ w.pc \in Clearing
      /\ UNCHANGED <<store, cache, watch, blind>> /\ blind' = {} /\ w \in Worker
  BY DEF ResolveParent, At, Clearing, history, NearInv, ObjectInv, ReconcilerSound, WorkersSound
<1>2. CASE MarkPending(k) \/ MarkFailed(k, TRUE)
  BY <1>1, <1>2, AllStay, EndNear DEF MarkPending, MarkFailed
<1>3. ASSUME NEW n, Continue(k, n),
             n = Named(w) \/ \E owner : n = [Named(w) EXCEPT !.owner = owner]
      PROVE  NearInv'
  <2>1. n.pc = "getDistinguishedName" /\ n.key = w.key /\ n.obj = w.obj
    BY <1>1, <1>3 DEF Named, To, Worker
  <2>2. worker'[k] = n /\ \A j \in Kinds \ {k} : worker'[j] = worker[j]
    BY <1>3, WorkerBecomes
  <2> QED
    BY <1>1, <2>1, <2>2, OnNear
<1> QED
  BY <1>2, <1>3 DEF ResolveParent

LEMMA GetDistinguishedNameNear ==
    ASSUME MaxLag <= 1, ObjectInv, ObjectInv', NearInv, NEW k \in Kinds, GetDistinguishedName(k)
    PROVE  NearInv'
<1> DEFINE w == worker[k]
           p == w.climb
<1>1. /\ w.pc = "getDistinguishedName" /\ w.pc # "idle" /\ w.pc \in Clearing
      /\ UNCHANGED <<store, cache, watch, blind>> /\ blind' = {} /\ w \in Worker
  BY DEF GetDistinguishedName, At, Clearing, history, NearInv,
         ObjectInv, ReconcilerSound, WorkersSound
<1>2. CASE Finish(k, TRUE)
  BY <1>1, <1>2, AllStay, EndNear
<1>3. ASSUME NEW n, Continue(k, n), n.key = w.key, n.obj = w.obj,
             n.pc \in {"deleteEntry", "removeFinalizer"} => w.obj.deleting
      PROVE  NearInv'
  <2>1. worker'[k] = n /\ \A j \in Kinds \ {k} : worker'[j] = worker[j]
    BY <1>3, WorkerBecomes
  <2> QED
    BY <1>1, <1>3, <2>1, OnNear
<1>4. CASE Continue(k, Ascended(w, p))
  <2>1. PICK n : n = Ascended(w, p)
    OBVIOUS
  <2>2. n.pc = "getDistinguishedName" /\ n.key = w.key /\ n.obj = w.obj
    BY <1>1, <2>1 DEF Ascended, Worker
  <2> QED
    BY <1>3, <1>4, <2>1, <2>2
<1>5. ASSUME NEW pc \in {"deleteEntry", "setOwner"}, pc = "deleteEntry" => w.obj.deleting,
             Continue(k, To(w, pc))
      PROVE  NearInv'
  <2>1. PICK n : n = To(w, pc)
    OBVIOUS
  <2>2. n.pc = pc /\ n.key = w.key /\ n.obj = w.obj
    BY <1>1, <2>1 DEF To, Worker
  <2> QED
    BY <1>3, <1>5, <2>1, <2>2
<1>6. CASE Continue(k, To(w, IF w.obj.deleting THEN "deleteEntry" ELSE "setOwner"))
  <2>1. CASE w.obj.deleting
    BY <1>5, <1>6, <2>1
  <2>2. CASE ~w.obj.deleting
    BY <1>5, <1>6, <2>2
  <2> QED
    BY <2>1, <2>2
<1> QED
  BY <1>2, <1>4, <1>6 DEF GetDistinguishedName, OnceNamed

LEMMA DeleteEntryNear ==
    ASSUME MaxLag <= 1, ObjectInv, ObjectInv', NearInv, NEW k \in Kinds, DeleteEntry(k)
    PROVE  NearInv'
<1> DEFINE w == worker[k]
<1>1. /\ w.pc = "deleteEntry" /\ w.pc \in Clearing /\ worker \in [Kinds -> Worker]
      /\ UNCHANGED <<store, cache, watch, blind>> /\ blind' = {}
  BY DEF DeleteEntry, At, Clearing, kubernetes, history, NearInv,
         ObjectInv, ReconcilerSound, WorkersSound
<1>2. CASE UNCHANGED worker
  BY <1>1, <1>2, AsideNear
<1>3. CASE worker' = [worker EXCEPT ![k] =
             [To(w, "removeFinalizer") EXCEPT !.failed = ~call[k].ok]]
  <2>1. PICK n : n = [To(w, "removeFinalizer") EXCEPT !.failed = ~call[k].ok]
    OBVIOUS
  <2>2. n.key = w.key /\ n.obj = w.obj
    BY <1>1, <2>1 DEF To, Worker
  <2>3. worker'[k] = n /\ \A j \in Kinds \ {k} : worker'[j] = worker[j]
    BY <1>1, <1>3, <2>1
  <2>4. w.obj.deleting
    BY <1>1 DEF NearInv, Sees
  <2> QED
    BY <1>1, <2>2, <2>3, <2>4, OnNear
<1> QED
  BY <1>2, <1>3 DEF DeleteEntry

LEMMA UpsertNear ==
    ASSUME MaxLag <= 1, ObjectInv, ObjectInv', NearInv, NEW k \in Kinds,
           MapToEntry(k) \/ CreateOrUpdateEntry(k) \/ ApiFails(k)
    PROVE  NearInv'
<1> DEFINE w == worker[k]
<1>1. /\ w.pc # "idle" /\ w \in Worker
      /\ UNCHANGED <<store, cache, watch>>
      /\ blind' = {}
  BY DEF MapToEntry, CreateOrUpdateEntry, ApiFails, At, history, NearInv,
         ObjectInv, ReconcilerSound, WorkersSound
<1>2. CASE Continue(k, To(w, "upsertEntry"))
  <2>1. worker'[k].pc = "upsertEntry" /\ \A j \in Kinds \ {k} : worker'[j] = worker[j]
    BY <1>1, <1>2, WorkerBecomes DEF To, Worker
  <2> QED
    BY <1>1, <2>1, AllStay, PastNear DEF Clearing
<1>3. CASE \/ \E requeue : Finish(k, requeue)
           \/ \E phase, requeue : Continue(k, Marking(w, phase, requeue))
  BY <1>1, <1>3, AllStay, EndNear
<1> QED
  BY <1>2, <1>3 DEF MapToEntry, CreateOrUpdateEntry, ApiFails, MarkFailed

(* A patch of the object that the worker has in memory. *)
LEMMA PatchFollows ==
    ASSUME ObjectInv, NearInv, NEW k \in Kinds, NEW o \in Objects, KindOf[o] = k,
           NEW v \in VersionsOf(o), v = store[o], NEW n, n.uid = v.uid, n.deleting = v.deleting,
           v.finalizer => n.finalizer,
           Write(o, n), UNCHANGED cache
    PROVE  \A x \in Objects : Follows(x) /\ (KindOf[x] # k => KeepsLeaving(x))
<1>1. v # None /\ (v.deleting => v.finalizer)
  BY VersionParts DEF NearInv, Near
<1>2. Succeeds(store[o], n)
  BY <1>1 DEF Succeeds
<1> QED
  BY <1>2, WriteFollows

LEMMA MarkNear ==
    ASSUME MaxLag <= 1, ObjectInv, ObjectInv', NearInv, NEW k \in Kinds, Mark(k)
    PROVE  NearInv'
<1> DEFINE w == worker[k]
           o == w.key
<1>1. /\ w.pc = "mark" /\ w.pc # "idle" /\ UNCHANGED cache /\ blind' = {}
      /\ \E requeue : Finish(k, requeue)
  BY DEF Mark, At, history, NearInv
<1>2. /\ o \in Objects /\ KindOf[o] = k /\ store[o] \in VersionsOf(o) \cup {None}
      /\ w \in Worker
  BY <1>1, AtWork DEF ObjectInv
<1>3. CASE UNCHANGED <<store, watch>>
  BY <1>1, <1>3, AllStay, EndNear
<1>4. CASE store[o] # None /\ Write(o, [store[o] EXCEPT !.status = StatusOf(w, store[o])])
  <2>1. PICK v \in VersionsOf(o) : v = store[o]
    BY <1>2, <1>4
  <2>2. PICK n : n = [v EXCEPT !.status = StatusOf(w, v)]
    OBVIOUS
  <2>3. n.uid = v.uid /\ n.deleting = v.deleting /\ n.finalizer = v.finalizer
    BY <2>2 DEF VersionsOf, Version
  <2>4. Write(o, n)
    BY <1>4, <2>1, <2>2
  <2>5. \A x \in Objects : Follows(x) /\ (KindOf[x] # k => KeepsLeaving(x))
    BY <1>1, <1>2, <2>1, <2>3, <2>4, PatchFollows
  <2> QED
    BY <1>1, <2>5, EndNear
<1> QED
  BY <1>3, <1>4 DEF Mark, Unpatchable

LEMMA SetOwnerNear ==
    ASSUME MaxLag <= 1, ObjectInv, ObjectInv', NearInv, NEW k \in Kinds, SetOwner(k)
    PROVE  NearInv'
<1> DEFINE w == worker[k]
<1>0. PICK o : o = w.key
  OBVIOUS
<1>1. w.pc = "setOwner" /\ w.pc # "idle" /\ UNCHANGED cache /\ blind' = {}
  BY DEF SetOwner, At, history, NearInv
<1>2. /\ o \in Objects /\ KindOf[o] = k /\ store[o] \in VersionsOf(o) \cup {None}
      /\ w \in Worker
  BY <1>0, <1>1, AtWork DEF ObjectInv
<1>3. ASSUME NEW v, Continue(k, [To(w, "mapToEntry") EXCEPT !.obj = v])
      PROVE  /\ worker'[k].pc \notin Clearing
             /\ \A j \in Kinds \ {k} : worker'[j] = worker[j]
  <2>1. PICK n : n = [To(w, "mapToEntry") EXCEPT !.obj = v]
    OBVIOUS
  <2>2. n.pc = "mapToEntry"
    BY <1>2, <2>1 DEF To, Worker
  <2> QED
    BY <1>3, <2>1, <2>2, WorkerBecomes DEF Clearing
<1>4. CASE /\ Continue(k, [To(w, "mapToEntry") EXCEPT !.obj = cache[o]])
           /\ UNCHANGED <<store, watch>>
  BY <1>1, <1>3, <1>4, AllStay, PastNear
<1>5. CASE /\ store[o] # None
           /\ Write(o, Owned(o, w.owner))
           /\ Continue(k, [To(w, "mapToEntry") EXCEPT !.obj = Owned(o, w.owner)])
  <2>1. PICK v \in VersionsOf(o) : v = store[o]
    BY <1>2, <1>5
  <2>2. PICK n : n = Owned(o, w.owner)
    OBVIOUS
  <2>3. n.uid = v.uid /\ n.deleting = v.deleting /\ n.finalizer = v.finalizer
    BY <2>1, <2>2 DEF VersionsOf, Version, Owned
  <2>4. Write(o, n)
    BY <1>5, <2>2
  <2>5. \A x \in Objects : Follows(x) /\ (KindOf[x] # k => KeepsLeaving(x))
    BY <1>1, <1>2, <2>1, <2>3, <2>4, PatchFollows
  <2>6. /\ worker'[k].pc \notin Clearing
        /\ \A j \in Kinds \ {k} : worker'[j] = worker[j]
    BY <1>3, <1>5
  <2> QED
    BY <1>1, <2>5, <2>6, PastNear
<1>6. CASE MarkFailed(k, FALSE) /\ UNCHANGED <<store, watch>>
  BY <1>1, <1>6, AllStay, EndNear DEF MarkFailed
<1> QED
  BY <1>0, <1>4, <1>5, <1>6 DEF SetOwner

(* The object that the finalizer is added to is not leaving: an object       *)
(* without it that is deleted is gone.                                       *)
LEMMA AddFinalizerNear ==
    ASSUME MaxLag <= 1, ObjectInv, ObjectInv', NearInv, NEW k \in Kinds, AddFinalizer(k)
    PROVE  NearInv'
<1> DEFINE w == worker[k]
<1>0. PICK o : o = w.key
  OBVIOUS
<1>1. w.pc = "addFinalizer" /\ w.pc # "idle" /\ UNCHANGED cache /\ blind' = {}
  BY DEF AddFinalizer, At, history, NearInv
<1>2. /\ o \in Objects /\ KindOf[o] = k /\ store[o] \in VersionsOf(o) \cup {None}
      /\ w \in Worker /\ Near(o)
  BY <1>0, <1>1, AtWork DEF ObjectInv, NearInv
<1>3. ASSUME NEW v, Continue(k, [To(w, "resolveReferences") EXCEPT !.obj = v])
      PROVE  /\ worker'[k].pc = "resolveReferences" /\ worker'[k].key = o /\ worker'[k].obj = v
             /\ \A j \in Kinds \ {k} : worker'[j] = worker[j]
  <2>1. PICK n : n = [To(w, "resolveReferences") EXCEPT !.obj = v]
    OBVIOUS
  <2>2. n.pc = "resolveReferences" /\ n.key = o /\ n.obj = v
    BY <1>0, <1>2, <2>1 DEF To, Worker
  <2> QED
    BY <1>3, <2>1, <2>2, WorkerBecomes
<1>4. CASE /\ cache[o] # None
           /\ Continue(k, [To(w, "resolveReferences") EXCEPT !.obj = cache[o]])
           /\ UNCHANGED <<store, watch>>
  <2>1. cache[o].deleting => SeesLeaving(o)
    BY <1>2, <1>4 DEF Near, Succeeds, SeesLeaving, LeavingOrBare
  <2>2. cache[o].deleting => SeesLeaving(o)'
    BY <1>1, <1>4, <2>1 DEF SeesLeaving
  <2>3. Sees(k)'
    BY <1>3, <1>4, <2>2 DEF Sees, SeesLeaving
  <2> QED
    BY <1>1, <1>3, <1>4, <2>3, AllStay, NearKeeps
<1>5. CASE /\ cache[o] # None /\ store[o] # None /\ ~cache[o].finalizer
           /\ Write(o, [store[o] EXCEPT !.finalizer = TRUE])
           /\ Continue(k, [To(w, "resolveReferences") EXCEPT
                 !.obj = [store[o] EXCEPT !.finalizer = TRUE]])
  <2>1. PICK v \in VersionsOf(o) : v = store[o]
    BY <1>2, <1>5
  <2>2. PICK n : n = [v EXCEPT !.finalizer = TRUE]
    OBVIOUS
  <2>3. n.uid = v.uid /\ n.deleting = v.deleting /\ n.finalizer
    BY <2>2 DEF VersionsOf, Version
  <2>4. ~n.deleting
    BY <1>2, <1>5, <2>1, <2>3 DEF Near, Succeeds
  <2>5. Write(o, n)
    BY <1>5, <2>1, <2>2
  <2>6. \A x \in Objects : Follows(x) /\ (KindOf[x] # k => KeepsLeaving(x))
    BY <1>1, <1>2, <2>1, <2>3, <2>5, PatchFollows
  <2>7. /\ worker'[k].pc = "resolveReferences" /\ worker'[k].obj = n
        /\ \A j \in Kinds \ {k} : worker'[j] = worker[j]
    BY <1>3, <1>5, <2>1, <2>2
  <2>8. Sees(k)'
    BY <2>4, <2>7 DEF Sees
  <2> QED
    BY <1>1, <2>6, <2>7, <2>8, NearKeeps
<1>6. CASE Finish(k, TRUE) /\ UNCHANGED <<store, watch>>
  BY <1>1, <1>6, AllStay, EndNear
<1> QED
  BY <1>0, <1>4, <1>5, <1>6 DEF AddFinalizer, Unpatchable

(* The finalizer that is removed is that of the incarnation the cache shows, *)
(* and shows leaving.                                                        *)
LEMMA RemoveFinalizerNear ==
    ASSUME MaxLag <= 1, ObjectInv, ObjectInv', NearInv, NEW k \in Kinds, RemoveFinalizer(k)
    PROVE  NearInv'
<1> DEFINE w == worker[k]
<1>0. PICK o : o = w.key
  OBVIOUS
<1>1. /\ w.pc = "removeFinalizer" /\ w.pc # "idle" /\ UNCHANGED cache
      /\ \E requeue : Finish(k, requeue)
  BY DEF RemoveFinalizer, At
<1>2. /\ o \in Objects /\ KindOf[o] = k /\ store[o] \in VersionsOf(o) \cup {None}
      /\ Near(o) /\ SeesLeaving(o)
  BY <1>0, <1>1, AtWork DEF ObjectInv, NearInv, Sees, Clearing
<1>3. CASE UNCHANGED <<store, watch, history>>
  <2>1. blind' = {}
    BY <1>3 DEF history, NearInv
  <2> QED
    BY <1>1, <1>3, <2>1, AllStay, EndNear
<1>4. CASE /\ cache[o] # None /\ store[o] # None /\ cache[o].finalizer
           /\ Write(o, Unpinned(store[o])) /\ Release(o, w)
  <2>1. cache[o].deleting /\ store[o].deleting /\ cache[o].uid = store[o].uid
    BY <1>2, <1>4 DEF SeesLeaving, LeavingOrBare, Near, Succeeds
  <2>2. blind' = {}
    BY <1>4, <2>1 DEF Release, NearInv
  <2>3. Unpinned(store[o]) = None
    BY <2>1 DEF Unpinned
  <2>4. Write(o, None) /\ Succeeds(store[o], None)
    BY <1>4, <2>3 DEF Succeeds
  <2>5. \A x \in Objects : Follows(x) /\ (KindOf[x] # k => KeepsLeaving(x))
    BY <1>1, <1>2, <2>4, WriteFollows
  <2> QED
    BY <1>1, <2>2, <2>5, EndNear
<1> QED
  BY <1>0, <1>3, <1>4 DEF RemoveFinalizer, Unpatchable

-----------------------------------------------------------------------------
(* The specification.                                                      *)

LEMMA NearInit ==
    ASSUME Init
    PROVE  NearInv
<1>1. /\ store = [o \in Objects |-> None] /\ cache = store /\ watch = [o \in Objects |-> <<>>]
      /\ worker = [k \in Kinds |-> Idle] /\ blind = {}
  BY DEF Init
<1> QED
  BY <1>1, IdleSound DEF NearInv, Near, Sees, Clearing

LEMMA NearNext ==
    ASSUME MaxLag <= 1, ObjectInv, ObjectInv', NearInv, [Next]_vars
    PROVE  NearInv'
<1>1. ASSUME NEW k \in Kinds, Reconcile(k)
      PROVE  NearInv'
  BY <1>1, AddFinalizerNear, ResolveNear, ResolveParentNear, GetDistinguishedNameNear,
     DeleteEntryNear, RemoveFinalizerNear, SetOwnerNear, UpsertNear, MarkNear
     DEF Reconcile
<1>2. ASSUME \/ UNCHANGED vars
             \/ \E k \in Kinds : ClientRequest(k) \/ ClientFails(k) \/ Panic(k)
             \/ Crash
             \/ \E o \in Objects : Resync(o)
             \/ \E s \in SecretRefs : SecretWritten(s) \/ SecretDeleted(s)
             \/ DirectoryChanges \/ DirectoryDeleted
      PROVE  NearInv'
  <2>1. UNCHANGED <<store, cache, watch, worker>> \/ ProcessStarts
    BY <1>2 DEF vars, ClientRequest, ClientFails, Panic, Crash, Restart, Resync,
       SecretWritten, SecretDeleted, DirectoryChanges, DirectoryDeleted, kubernetes
  <2>2. blind' = {}
    BY <1>2 DEF vars, ClientRequest, ClientFails, Panic, Crash, Restart, ProcessStarts, Resync,
       SecretWritten, SecretDeleted, DirectoryChanges, DirectoryDeleted, history, NearInv
  <2> QED
    BY <2>1, <2>2, AsideNear
<1> QED
  BY <1>1, <1>2, GetNear, SyncNear, UsersNear, UpsertNear DEF Next, Environment

LEMMA NearInvHolds == (MaxLag <= 1) => (Spec => []NearInv)
<1>1. SUFFICES ASSUME MaxLag <= 1 PROVE Spec => []NearInv
  OBVIOUS
<1>2. Init => NearInv
  BY NearInit
<1>3. (ObjectInv /\ ObjectInv' /\ NearInv /\ [Next]_vars) => NearInv'
  BY <1>1, NearNext
<1> QED
  BY <1>2, <1>3, ObjectInvHolds, PTL DEF Spec

(* With informers that are one event of an object behind at most, the        *)
(* finalizer is removed (lines 98, 226) from nothing but what the cache      *)
(* shows leaving, and the reconciler implements the ownership of entries in  *)
(* every behaviour.                                                          *)
THEOREM ImplementsOwnershipNearby == (MaxLag <= 1) => (Spec => EntriesOwned)
<1>1. SUFFICES ASSUME MaxLag <= 1 PROVE Spec => EntriesOwned
  OBVIOUS
<1>2. Spec => []NearInv
  BY <1>1, NearInvHolds
<1>3. NearInv => blind = {}
  BY DEF NearInv
<1> QED
  BY <1>2, <1>3, ImplementsOwnership, PTL

=============================================================================
